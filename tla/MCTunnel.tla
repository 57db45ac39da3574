------------------------------- MODULE MCTunnel -------------------------------
(* The instance of the tunnel manager that TLC checks: two callers, one way *)
(* in of each kind.                                                         *)
EXTENDS Tunnel

CONSTANTS c1, c2, quick, funnel
=============================================================================
