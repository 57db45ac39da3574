--------------------------------- MODULE Backup ---------------------------------
(***************************************************************************)
(* Backups of the services' data: the dumps of databases, the snapshot     *)
(* restic takes of them and of the volumes, the marker that says when the  *)
(* last backup succeeded, and restoring a snapshot in place.               *)
(*                                                                         *)
(* The timer's unit and the on-demand unit are different units, so two     *)
(* backups may run at a time.  Containers start, stop and write meanwhile. *)
(***************************************************************************)
EXTENDS Naturals, FiniteSets

CONSTANTS
  Runners,   \* units and command lines that run a backup
  Databases, \* services whose image says database
  Plain,     \* other services with state
  Stateless, \* services without any
  MaxData, MaxRuns, MaxRestores, \* bounds
  Absent

Stateful == Databases \cup Plain
Services == Stateful \cup Stateless

ASSUME BackupAssumption ==
  /\ Databases \cap Plain = {} /\ Stateful \cap Stateless = {}
  /\ {"all", "config", "", "typo"} \cap Services = {}
  /\ Absent \notin Services /\ Absent \notin [of : Nat, good : BOOLEAN]
  /\ {MaxData, MaxRuns, MaxRestores} \subseteq Nat

VARIABLES
  running,  \* databases whose container is active
  data,     \* how often a service's volume was written
  dumps,    \* dumps/<service>.<ext>
  partial,  \* the .partial file beside it
  runs,     \* the backups under way
  snapshot, \* the newest snapshot of the repository
  marker,   \* the run last-backup stands for, and what it saved
  overlapped, \* history: two runs dumped the same database at a time
  restored, \* history: who asked the last restore for what, and what it wrote
  begun, restores

vars == <<running, data, dumps, partial, runs, snapshot, marker, overlapped, restored, begun, restores>>

Dump   == [of : 0 .. MaxData, good : BOOLEAN]
(* Per service: the version the snapshot can bring back, and whether it    *)
(* can: a volume read while its database writes cannot.                    *)
Snapshots == [Stateful -> Dump]
Empty == [s \in Stateful |-> [of |-> 0, good |-> FALSE]]

(* A run: its step, the databases left, the one being dumped and whether   *)
(* no other run writes that file; what it saved.  History: the data it     *)
(* found, whether no other backup or restore came in between, and which    *)
(* containers did not change.                                              *)
Runs == [at : {"none", "dumps", "dumping", "restic", "marks", "prunes"},
         todo : SUBSET Databases, now : Databases \cup {Absent}, clean : BOOLEAN,
         saved : Snapshots, since : [Stateful -> 0 .. MaxData],
         alone : BOOLEAN, steady : SUBSET Databases]
NoRun == [at |-> "none", todo |-> {}, now |-> Absent, clean |-> TRUE, saved |-> Empty,
          since |-> [s \in Stateful |-> 0], alone |-> TRUE, steady |-> {}]

TypeOK ==
  /\ running \subseteq Databases
  /\ data \in [Stateful -> 0 .. MaxData]
  /\ dumps \in [Databases -> Dump \cup {Absent}]
  /\ partial \in [Databases -> Dump \cup {Absent}]
  /\ runs \in [Runners -> Runs]
  /\ snapshot \in Snapshots \cup {Absent}
  /\ marker \in Runs \cup {Absent} /\ overlapped \in BOOLEAN
  /\ restored \in [by : {"console", "cli"}, asked : Services \cup {"all", "config", "", "typo"},
                   wrote : SUBSET Stateful]
  /\ begun \in 0 .. MaxRuns /\ restores \in 0 .. MaxRestores

Init ==
  /\ running = Databases /\ data = [s \in Stateful |-> 0]
  /\ dumps = [d \in Databases |-> Absent] /\ partial = [d \in Databases |-> Absent]
  /\ runs = [r \in Runners |-> NoRun]
  /\ snapshot = Absent /\ marker = Absent /\ overlapped = FALSE
  /\ restored = [by |-> "console", asked |-> "all", wrote |-> {}] /\ begun = 0 /\ restores = 0

Files   == <<dumps, partial, overlapped>>
Outcome == <<snapshot, marker>>

-----------------------------------------------------------------------------
(* What goes on meanwhile: services write, containers start and stop.      *)

Write(s) ==
  /\ s \in running \cup Plain /\ data[s] < MaxData
  /\ data' = [data EXCEPT ![s] = @ + 1]
  /\ UNCHANGED <<running, Files, runs, Outcome, restored, begun, restores>>

Toggle(d) ==
  /\ running' = IF d \in running THEN running \ {d} ELSE running \cup {d}
  /\ runs' = [r \in Runners |-> [runs[r] EXCEPT !.steady = @ \ {d}]]
  /\ UNCHANGED <<data, Files, Outcome, restored, begun, restores>>

-----------------------------------------------------------------------------
(* A backup.  Any restic command may fail: the endpoint is down, the key   *)
(* does not open the repository.                                           *)

At(r, step) == runs[r].at = step

Begin(r) ==
  /\ At(r, "none") /\ begun < MaxRuns
  /\ begun' = begun + 1
  /\ LET others == {q \in Runners \ {r} : ~At(q, "none")}
     IN  runs' = [q \in Runners |->
           IF q = r THEN [NoRun EXCEPT !.at = "dumps", !.todo = Databases, !.since = data,
                                       !.alone = others = {}, !.steady = Databases]
           ELSE [runs[q] EXCEPT !.alone = q \notin others /\ @]]
  /\ UNCHANGED <<running, data, Files, Outcome, restored, restores>>

Fail(r) == runs' = [runs EXCEPT ![r] = NoRun]

RunFails(r) ==
  /\ ~At(r, "none") /\ ~At(r, "dumping") /\ ~At(r, "marks")
  /\ Fail(r)
  /\ UNCHANGED <<running, data, Files, Outcome, restored, begun, restores>>

(* A database that does not run is skipped: its files are closed. *)
DumpSkips(r, d) ==
  /\ At(r, "dumps") /\ d \in runs[r].todo /\ d \notin running
  /\ runs' = [runs EXCEPT ![r].todo = @ \ {d}]
  /\ UNCHANGED <<running, data, Files, Outcome, restored, begun, restores>>

(* Mutant: the dump is written where it will be. *)
DumpInPlace(r, d) ==
  /\ At(r, "dumps") /\ d \in runs[r].todo /\ d \in running
  /\ runs' = [runs EXCEPT ![r].at = "dumping", ![r].todo = (@ \ {d}), ![r].now = d]
  /\ dumps' = [dumps EXCEPT ![d] = [of |-> data[d], good |-> FALSE]]
  /\ partial' = dumps'
  /\ UNCHANGED <<running, data, overlapped, Outcome, restored, begun, restores>>

(* The shell truncates the .partial file, which the other run may be       *)
(* writing.                                                                *)
DumpOpens(r, d) ==
  /\ At(r, "dumps") /\ d \in runs[r].todo /\ d \in running
  /\ LET others == {q \in Runners : runs[q].now = d}
     IN  /\ runs' = [q \in Runners |->
              IF q = r THEN [runs[r] EXCEPT !.at = "dumping", !.todo = @ \ {d}, !.now = d,
                                            !.clean = others = {}]
              ELSE [runs[q] EXCEPT !.clean = @ /\ q \notin others]]
         /\ overlapped' = (overlapped \/ others # {})
  /\ partial' = [partial EXCEPT ![d] = [of |-> data[d], good |-> FALSE]]
  /\ UNCHANGED <<running, data, dumps, Outcome, restored, begun, restores>>

DumpDone(r, d) ==
  /\ At(r, "dumping") /\ runs[r].now = d /\ d \in running /\ partial[d] # Absent
  /\ dumps' = [dumps EXCEPT ![d] = [of |-> partial[d].of, good |-> runs[r].clean]]
  /\ partial' = [partial EXCEPT ![d] = Absent]
  /\ runs' = [runs EXCEPT ![r].at = "dumps", ![r].now = Absent]
  /\ UNCHANGED <<running, data, overlapped, Outcome, restored, begun, restores>>

(* It fails, is cut off by the timeout or by the container's stop, or has  *)
(* written nothing: the .partial goes and the backup fails.                *)
DumpFails(r, d) ==
  /\ At(r, "dumping") /\ runs[r].now = d
  /\ partial' = [partial EXCEPT ![d] = Absent]
  /\ Fail(r)
  /\ UNCHANGED <<running, data, dumps, overlapped, Outcome, restored, begun, restores>>

Dumped(r) ==
  /\ At(r, "dumps") /\ runs[r].todo = {}
  /\ runs' = [runs EXCEPT ![r].at = "restic"]
  /\ UNCHANGED <<running, data, Files, Outcome, restored, begun, restores>>

(* What restic reads now, the old dump of a database that was skipped      *)
(* among it.                                                               *)
Read == [s \in Stateful |->
  IF s \in running
  THEN IF dumps[s] = Absent THEN [of |-> data[s], good |-> FALSE] ELSE dumps[s]
  ELSE [of |-> data[s], good |-> TRUE]]

Snap(r) ==
  /\ At(r, "restic")
  /\ snapshot' = Read
  /\ runs' = [runs EXCEPT ![r].at = "marks", ![r].saved = Read]
  /\ UNCHANGED <<running, data, Files, marker, restored, begun, restores>>

(* Mutant: exit 3 passes for a backup. *)
SnapPasses(r, s) ==
  /\ At(r, "restic")
  /\ snapshot' = [Read EXCEPT ![s] = [of |-> 0, good |-> FALSE]]
  /\ runs' = [runs EXCEPT ![r].at = "marks", ![r].saved = snapshot']
  /\ UNCHANGED <<running, data, Files, marker, restored, begun, restores>>

(* Exit 3: the snapshot is saved without the files that could not be read. *)
SnapMisses(r, s) ==
  /\ At(r, "restic")
  /\ snapshot' = [Read EXCEPT ![s] = [of |-> 0, good |-> FALSE]]
  /\ Fail(r)
  /\ UNCHANGED <<running, data, Files, marker, restored, begun, restores>>

Mark(r) ==
  /\ At(r, "marks")
  /\ marker' = runs[r]
  /\ runs' = [runs EXCEPT ![r].at = "prunes"]
  /\ UNCHANGED <<running, data, Files, snapshot, restored, begun, restores>>

Prune(r) ==
  /\ At(r, "prunes")
  /\ Fail(r)
  /\ UNCHANGED <<running, data, Files, Outcome, restored, begun, restores>>

(* The unit is killed; its .partial stays. *)
Killed(r) ==
  /\ ~At(r, "none")
  /\ Fail(r)
  /\ UNCHANGED <<running, data, Files, Outcome, restored, begun, restores>>

-----------------------------------------------------------------------------
(* Restoring the newest snapshot in place.  No filter means everything.    *)

Refused == {"refused"}

(* Mutant: what is not a service filters nothing. *)
ResolveLoosely(scope) ==
  CASE scope = "config"      -> {"config"}
    [] scope \in Stateful    -> {scope}
    [] OTHER                 -> {}

ResolveScope(scope) ==
  CASE scope = "all"         -> {}
    [] scope = "config"      -> {"config"}
    [] scope \in Stateful    -> {scope}
    [] OTHER                 -> Refused

(* The command line: with --service, that service's state directories; a   *)
(* name that has none filters nothing.                                     *)
CliScope(scope) ==
  CASE scope = "config"   -> {"config"}
    [] scope \in Stateful -> {scope}
    [] OTHER              -> {}

Written(includes) == IF includes = {} THEN Stateful ELSE Stateful \cap includes

RestoreWith(by, scope, includes) ==
  /\ snapshot # Absent /\ restores < MaxRestores
  /\ restores' = restores + 1
  /\ includes # Refused
  /\ data' = [s \in Stateful |-> IF s \in Written(includes) THEN snapshot[s].of ELSE data[s]]
  /\ restored' = [by |-> by, asked |-> scope, wrote |-> Written(includes)]
  /\ runs' = [r \in Runners |-> [runs[r] EXCEPT !.alone = FALSE]]
  /\ UNCHANGED <<running, Files, Outcome, begun>>

Scopes == Services \cup {"all", "config", "", "typo"}
Restore(scope)    == RestoreWith("console", scope, ResolveScope(scope))
CliRestore(scope) == RestoreWith("cli", scope, CliScope(scope))

Next ==
  \/ \E s \in Stateful : Write(s)
  \/ \E d \in Databases : Toggle(d)
  \/ \E r \in Runners :
       \/ Begin(r) \/ RunFails(r) \/ Dumped(r) \/ Snap(r) \/ Mark(r) \/ Prune(r) \/ Killed(r)
       \/ \E d \in Databases : DumpSkips(r, d) \/ DumpOpens(r, d) \/ DumpDone(r, d) \/ DumpFails(r, d)
       \/ \E s \in Stateful : SnapMisses(r, s)
  \/ \E scope \in Scopes : Restore(scope) \/ CliRestore(scope)

Spec == Init /\ [][Next]_vars

-----------------------------------------------------------------------------
(* Properties.                                                             *)

(* run: the freshness marker is written only for a backup that can bring   *)
(* back every service, no older than when it began: a database by a dump   *)
(* of this run or by files that were closed.  Stated for a run no other    *)
(* backup or restore came into, and for containers that neither started    *)
(* nor stopped during it.                                                  *)
MarkedIsWhole ==
  marker # Absent /\ marker.alone =>
    \A s \in Plain \cup marker.steady :
      marker.saved[s].good /\ marker.saved[s].of >= marker.since[s]

(* run_dumps: a dump that was cut off, by a failure, a kill or a stop of   *)
(* the container, never takes the place of a good one, as long as no two   *)
(* runs dump the same database at a time.                                  *)
DumpsAreWhole ==
  overlapped \/ \A d \in Databases : dumps[d] # Absent => dumps[d].good

(* A restore for one service, or for the configuration, writes no other    *)
(* service's data, and only "all" writes the entire snapshot back: asked   *)
(* for by name in the console or an agent's call whatever the name is, and *)
(* on the command line if it is the name of a service with state.          *)
NeverWidened ==
  restored.asked # "all"
      /\ (restored.by = "console" \/ restored.asked \in Stateful \cup {"config"})
    => restored.wrote \subseteq {restored.asked}

(* "Restore only this service's data." (main.rs:277): with --service and a *)
(* name that is no service's, or one's without state, the command line     *)
(* writes the entire snapshot back (lines 737-741).                        *)
CliNeverWidened ==
  restored.by = "cli" /\ restored.asked # "all" => restored.wrote \subseteq {restored.asked}
=============================================================================
