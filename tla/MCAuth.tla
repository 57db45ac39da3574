-------------------------------- MODULE MCAuth --------------------------------
(* The instance of the credential store that TLC checks. *)
EXTENDS Auth, TLC

CONSTANTS h1, h2, t1, t2, t3, c1, seed, k1, x1, x2

AnySymmetry ==
  Permutations({h1, h2}) \cup Permutations({t1, t2, t3}) \cup Permutations({x1, x2})
===============================================================================
