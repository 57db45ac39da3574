------------------------------ MODULE Releases ------------------------------
(***************************************************************************)
(* What the reconciler promises about what is being served.  Releases are  *)
(* recorded once and never change.  The newest one may go live on trial;   *)
(* a trial ends by keeping a sound release, or by going back to exactly    *)
(* the release that was live before.  Only the operator chooses an older   *)
(* one.                                                                    *)
(***************************************************************************)
EXTENDS Naturals, Sequences

CONSTANT Sound(_)   \* does a release pass its health check?

VARIABLES
  releases,  \* everything ever recorded, in order
  live,      \* the number of the release being served, 0 for none
  trial,     \* the live release has not been judged yet
  fallback,  \* during a trial: what was live before
  stops      \* how often the machine has stopped

vars == <<releases, live, trial, fallback, stops>>

Init == releases = <<>> /\ live = 0 /\ trial = FALSE /\ fallback = 0 /\ stops = 0

Record ==
  /\ ~trial
  /\ Len(releases') = Len(releases) + 1
  /\ SubSeq(releases', 1, Len(releases)) = releases
  /\ UNCHANGED <<live, trial, fallback, stops>>

Try ==
  /\ ~trial
  /\ live' = Len(releases)
  /\ trial' = TRUE /\ fallback' = live
  /\ UNCHANGED <<releases, stops>>

(* Without a release to go back to, the first one stays, sound or not. *)
Accept ==
  /\ trial
  /\ Sound(releases[live]) \/ fallback = 0
  /\ trial' = FALSE /\ fallback' = 0
  /\ UNCHANGED <<releases, live, stops>>

Revert ==
  /\ trial
  /\ fallback # 0
  /\ live' = fallback
  /\ trial' = FALSE /\ fallback' = 0
  /\ UNCHANGED <<releases, stops>>

Choose(n) ==
  /\ ~trial
  /\ live' = n
  /\ UNCHANGED <<releases, trial, fallback, stops>>

(* The machine stops: nobody judges a release on trial any more. *)
Interrupt ==
  /\ stops' = stops + 1
  /\ trial' = FALSE /\ fallback' = 0
  /\ UNCHANGED <<releases, live>>

Next ==
  \/ Record \/ Try \/ Accept \/ Revert \/ Interrupt
  \/ \E n \in 1 .. Len(releases) : Choose(n)

Spec == Init /\ [][Next]_vars
=============================================================================
