--------------------------------- MODULE Jobs ---------------------------------
(***************************************************************************)
(* The job registry: work on threads of its own, followed by id.  A job is *)
(* in the map, in the list of recent ids and in a file of its own, and the *)
(* three are updated one after the other by several threads: the one that  *)
(* starts a job, the one that works on it, and whichever start pushes the  *)
(* oldest job out.  A restart rebuilds the map and the list from the       *)
(* files.                                                                  *)
(***************************************************************************)
EXTENDS Naturals, Sequences, SequencesExt, FiniteSets

CONSTANTS
  MaxJobs,      \* bound: jobs started
  Limit,        \* how many recent jobs are kept
  MaxRestarts,  \* bound: restarts of the daemon
  Nothing       \* no entry, or a file that does not parse

Ids      == 1 .. MaxJobs
Outcomes == {"done", "failed"}
States   == {"running", "done", "failed"}

ASSUME JobsAssumption ==
  /\ MaxJobs \in Nat /\ Limit \in Nat \ {0} /\ MaxRestarts \in Nat
  /\ Nothing \notin States

VARIABLES
  registry,  \* Registry::jobs: the state of each job it knows
  recent,    \* Registry::recent, oldest first
  files,     \* what <dir>/<id>.json says
  worker,    \* how far each job's threads are
  restarts

jobVars == <<registry, recent, files, worker, restarts>>

Goto(j, from, to) ==
  /\ worker[j] = from
  /\ worker' = [worker EXCEPT ![j] = to]

-----------------------------------------------------------------------------
(***************************************************************************)
(* Registry::start, on the caller's thread.  Ids are numbered in the order *)
(* in which jobs start.                                                    *)
(***************************************************************************)
Fresh(j) == worker[j] = "none" /\ \A i \in 1 .. j - 1 : worker[i] # "none"

Insert(j) ==
  /\ Fresh(j)
  /\ Goto(j, "none", "inserted")
  /\ registry' = [registry EXCEPT ![j] = "running"]
  /\ UNCHANGED <<recent, files, restarts>>

(* persist_by_id, under the map's lock: an evicted job writes nothing. *)
Persist(j) ==
  files' = [files EXCEPT ![j] = IF registry[j] = Nothing THEN files[j] ELSE registry[j]]

PersistStart(j) ==
  /\ Goto(j, "inserted", "recorded")
  /\ Persist(j)
  /\ UNCHANGED <<registry, recent, restarts>>

(* Mutant: the evicted job's file is left behind. *)
RememberKeepsFile(j) ==
  LET longer == Append(recent, j)
      cut    == IF Len(longer) > Limit THEN Len(longer) - Limit ELSE 0
      gone   == {longer[i] : i \in 1 .. cut}
  IN  /\ Goto(j, "recorded", "working")
      /\ recent' = SubSeq(longer, cut + 1, Len(longer))
      /\ registry' = [i \in Ids |-> IF i \in gone THEN Nothing ELSE registry[i]]
      /\ UNCHANGED <<files, restarts>>

(* The id is pushed, the oldest beyond the limit are dropped, whatever     *)
(* their state, and the thread is spawned.                                 *)
Remember(j) ==
  LET longer == Append(recent, j)
      cut    == IF Len(longer) > Limit THEN Len(longer) - Limit ELSE 0
      gone   == {longer[i] : i \in 1 .. cut}
  IN  /\ Goto(j, "recorded", "working")
      /\ recent' = SubSeq(longer, cut + 1, Len(longer))
      /\ registry' = [i \in Ids |-> IF i \in gone THEN Nothing ELSE registry[i]]
      /\ files'    = [i \in Ids |-> IF i \in gone THEN Nothing ELSE files[i]]
      /\ UNCHANGED restarts

(* Mutant: a panic takes the thread with it. *)
EndUncaught(j, outcome) ==
  /\ Goto(j, "working", "ended")
  /\ registry' = IF outcome = "failed" THEN registry
                 ELSE [registry EXCEPT ![j] = IF @ = Nothing THEN Nothing ELSE outcome]
  /\ UNCHANGED <<recent, files, restarts>>

(* The work returns, fails or panics. *)
End(j, outcome) ==
  /\ Goto(j, "working", "ended")
  /\ registry' = [registry EXCEPT ![j] = IF @ = Nothing THEN Nothing ELSE outcome]
  /\ UNCHANGED <<recent, files, restarts>>

PersistEnd(j) ==
  /\ Goto(j, "ended", "gone")
  /\ Persist(j)
  /\ UNCHANGED <<registry, recent, restarts>>

-----------------------------------------------------------------------------
(***************************************************************************)
(* boxd restarts: the threads are gone, and Registry::persistent loads     *)
(* what is on disk in the order the jobs started.  A file that was being   *)
(* written does not parse.  What was running is marked failed.             *)
(***************************************************************************)
Surviving(torn) == [j \in Ids |-> IF j \in torn THEN Nothing ELSE files[j]]

(* Mutant: a job found running on disk is loaded as it is. *)
LoadedAsIs(found) == found

Interrupted(found) ==
  [j \in Ids |-> IF found[j] = "running" THEN "failed" ELSE found[j]]

(* The sequences of what is kept, in the order of the ids. *)
InOrder(kept) ==
  UNION {{s \in [1 .. n -> kept] :
            Range(s) = kept /\ \A a, b \in 1 .. n : a < b => s[a] < s[b]} : n \in 0 .. MaxJobs}

Reload ==
  \E torn \in SUBSET {j \in Ids : worker[j] \in {"inserted", "ended"}} :
    LET loaded == Interrupted(Surviving(torn))
    IN  /\ registry' = loaded /\ files' = loaded
        /\ recent' \in InOrder({j \in Ids : loaded[j] # Nothing})
        /\ worker' = [j \in Ids |-> IF worker[j] = "none" THEN "none" ELSE "gone"]
        /\ restarts < MaxRestarts /\ restarts' = restarts + 1

JobsInit ==
  /\ registry = [j \in Ids |-> Nothing] /\ files = registry
  /\ recent = <<>>
  /\ worker = [j \in Ids |-> "none"]
  /\ restarts = 0

StartStep(j) == PersistStart(j) \/ Remember(j)
WorkStep(j)  == PersistEnd(j) \/ \E outcome \in Outcomes : End(j, outcome)

-----------------------------------------------------------------------------
(***************************************************************************)
(* Properties                                                              *)
(***************************************************************************)
JobsTypeOK ==
  /\ registry \in [Ids -> States \cup {Nothing}]
  /\ files \in [Ids -> States \cup {Nothing}]
  /\ recent \in Seq(Ids)
  /\ worker \in [Ids -> {"none", "inserted", "recorded", "working", "ended", "gone"}]
  /\ restarts \in Nat

Starting(j) == worker[j] \in {"inserted", "recorded"}

(* No job is shown as running that no thread works on: whatever a restart  *)
(* interrupts is marked, however far its start or its end had got.         *)
NoGhosts ==
  \A j \in Ids : registry[j] = "running" => Starting(j) \/ worker[j] = "working"

(* The map, the list and the files agree whenever no thread is in between  *)
(* two of them: eviction removes a job from all three at once, and nothing *)
(* a late thread does brings one back.                                     *)
ViewsAgree ==
  \A j \in Ids :
    /\ registry[j] # Nothing <=> Starting(j) \/ j \in Range(recent)
    /\ worker[j] \notin {"inserted", "ended"} => files[j] = registry[j]

(* A job that started ends, as far as anyone who follows it can see. *)
JobsEnd == \A j \in Ids : registry[j] = "running" ~> registry[j] # "running"
=============================================================================
