------------------------------ MODULE MCApprovals ------------------------------
(* The instance of the approvals queue that TLC checks: one call that is   *)
(* made at once, one that becomes a job; an agent and two operators, one   *)
(* of whom made his session autonomous.                                    *)
EXTENDS Approvals

CONSTANTS del, prov, agent, op, op2, resident
=============================================================================
