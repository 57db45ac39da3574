------------------------------- MODULE MCOsTier -------------------------------
(* The instance of the OS tier that TLC checks: both configs bring up a     *)
(* healthy system, the first release does and the second does not.         *)
EXTENDS OsTier

CONSTANTS web, blog
=============================================================================
