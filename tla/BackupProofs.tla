------------------------------ MODULE BackupProofs ------------------------------
(* Three promises of backups, for any services, units and bounds. *)
EXTENDS Backup, TLAPS

-----------------------------------------------------------------------------
(* A scope that resolve_scope accepts and that is not "all" stands for a   *)
(* non-empty set of includes, and so is no wish for everything.            *)
LEMMA ScopeIsNamed ==
  ASSUME NEW scope \in Scopes, scope # "all", ResolveScope(scope) # Refused
  PROVE  Written(ResolveScope(scope)) \subseteq {scope}
<1>1. CASE scope = "config"
  BY <1>1 DEF ResolveScope, Written
<1>2. CASE scope # "config" /\ scope \in Stateful
  BY <1>2 DEF ResolveScope, Written
<1>3. CASE scope # "config" /\ scope \notin Stateful
  BY <1>3 DEF ResolveScope
<1> QED
  BY <1>1, <1>2, <1>3

(* On the command line a name a service with state has is one too. *)
LEMMA CliScopeIsNamed ==
  ASSUME NEW scope \in Stateful \cup {"config"}
  PROVE  Written(CliScope(scope)) \subseteq {scope}
  BY DEF CliScope, Written

(* Only the two ways to restore write what NeverWidened is about. *)
LEMMA OthersDoNotRestore ==
  ASSUME Next, NeverWidened
  PROVE  NeverWidened'
<1>1. CASE UNCHANGED restored
  BY <1>1 DEF NeverWidened
<1>2. ASSUME NEW scope \in Scopes, Restore(scope)
      PROVE  NeverWidened'
  <2>1. /\ restored' = [by |-> "console", asked |-> scope,
                        wrote |-> Written(ResolveScope(scope))]
        /\ ResolveScope(scope) # Refused
    BY <1>2 DEF Restore, RestoreWith
  <2> QED
    BY <2>1, ScopeIsNamed DEF NeverWidened
<1>3. ASSUME NEW scope \in Scopes, CliRestore(scope)
      PROVE  NeverWidened'
  <2>1. restored' = [by |-> "cli", asked |-> scope, wrote |-> Written(CliScope(scope))]
    BY <1>3 DEF CliRestore, RestoreWith
  <2> QED
    BY <2>1, CliScopeIsNamed DEF NeverWidened
<1>4. (\A scope \in Scopes : ~Restore(scope) /\ ~CliRestore(scope)) => UNCHANGED restored
  BY DEF Next, Write, Toggle, Begin, RunFails, Dumped, Snap, Mark, Prune, Killed,
         DumpSkips, DumpOpens, DumpDone, DumpFails, SnapMisses
<1> QED
  BY <1>1, <1>2, <1>3, <1>4

(* "all" is the only name with which the console or an agent writes the    *)
(* entire snapshot back; no restore of a service with state or of the      *)
(* configuration touches another service's data, from the command line     *)
(* either.                                                                 *)
THEOREM RestoresStayNamed == Spec => []NeverWidened
<1>1. Init => NeverWidened
  BY DEF Init, NeverWidened
<1>2. NeverWidened /\ [Next]_vars => NeverWidened'
  BY OthersDoNotRestore DEF NeverWidened, vars
<1> QED
  BY <1>1, <1>2, PTL DEF Spec

-----------------------------------------------------------------------------
(* The strengthening of DumpsAreWhole: as long as no two runs dumped one   *)
(* database at a time, no run's .partial file was truncated under it.  The *)
(* first two conjuncts say only that runs and dumps are what their names   *)
(* say, functions with an entry for every unit and every database.         *)
DumpsInv ==
  /\ DOMAIN runs = Runners /\ \A r \in Runners : "clean" \in DOMAIN runs[r]
  /\ DOMAIN dumps = Databases
  /\ overlapped \/ \A r \in Runners : runs[r].clean
  /\ DumpsAreWhole

LEMMA DumpsInit == Init => DumpsInv
  BY DEF Init, DumpsInv, DumpsAreWhole, NoRun

LEMMA DumpsStep == DumpsInv /\ [Next]_vars => DumpsInv'
<1> SUFFICES ASSUME DumpsInv, [Next]_vars PROVE DumpsInv'
  OBVIOUS
<1> USE DEF DumpsInv, DumpsAreWhole, Files, Outcome, At, Fail
<1>1. CASE UNCHANGED vars
  BY <1>1 DEF vars
<1>2. ASSUME NEW s \in Stateful, Write(s) PROVE DumpsInv'
  BY <1>2 DEF Write
<1>3. ASSUME NEW d \in Databases, Toggle(d) PROVE DumpsInv'
  BY <1>3 DEF Toggle
<1>4. ASSUME NEW r \in Runners, Begin(r) PROVE DumpsInv'
  BY <1>4 DEF Begin, NoRun
<1>5. ASSUME NEW r \in Runners, RunFails(r) \/ Killed(r) \/ Prune(r) PROVE DumpsInv'
  BY <1>5 DEF RunFails, Killed, Prune, NoRun
<1>6. ASSUME NEW r \in Runners, Dumped(r) \/ Snap(r) \/ Mark(r) PROVE DumpsInv'
  BY <1>6 DEF Dumped, Snap, Mark
<1>7. ASSUME NEW r \in Runners, NEW d \in Databases, DumpSkips(r, d)
      PROVE  DumpsInv'
  BY <1>7 DEF DumpSkips
<1>8. ASSUME NEW r \in Runners, NEW d \in Databases, DumpOpens(r, d)
      PROVE  DumpsInv'
  BY <1>8 DEF DumpOpens
<1>9. ASSUME NEW r \in Runners, NEW d \in Databases, DumpDone(r, d)
      PROVE  DumpsInv'
  BY <1>9 DEF DumpDone
<1>10. ASSUME NEW r \in Runners, NEW d \in Databases, DumpFails(r, d)
       PROVE  DumpsInv'
  BY <1>10 DEF DumpFails, NoRun
<1>11. ASSUME NEW r \in Runners, NEW s \in Stateful, SnapMisses(r, s)
       PROVE  DumpsInv'
  BY <1>11 DEF SnapMisses, NoRun
<1>12. ASSUME NEW scope \in Scopes, Restore(scope) \/ CliRestore(scope) PROVE DumpsInv'
  BY <1>12 DEF Restore, CliRestore, RestoreWith
<1> QED
  BY <1>1, <1>2, <1>3, <1>4, <1>5, <1>6, <1>7, <1>8, <1>9, <1>10, <1>11, <1>12 DEF Next

(* A dump that was cut off never takes the place of a good one, unless two *)
(* runs dumped the same database at a time.                                *)
THEOREM DumpsStayWhole == Spec => []DumpsAreWhole
<1>1. DumpsInv => DumpsAreWhole
  BY DEF DumpsInv
<1> QED
  BY <1>1, DumpsInit, DumpsStep, PTL DEF Spec
-----------------------------------------------------------------------------
(***************************************************************************)
(* MarkedIsWhole.  A run that is alone is the only one under way, so what  *)
(* it has dumped so far stays as it dumped it, and what it reads at the    *)
(* end is that: this is what a run has reached by each of its steps.       *)
(***************************************************************************)
Fresh(x, since) == x # Absent /\ x.good /\ x.of >= since

Reached(v, up, volumes, done, halves) ==
  /\ \A s \in Stateful : volumes[s] >= v.since[s]
  /\ v.at \in {"dumps", "dumping", "restic"} =>
       \A d \in (v.steady \cap up) \ (v.todo \cup {v.now}) : Fresh(done[d], v.since[d])
  /\ v.at = "dumping" =>
       v.clean /\ halves[v.now] # Absent /\ halves[v.now].of >= v.since[v.now]
  /\ v.at = "restic" => v.todo = {}
  /\ v.at = "marks" =>
       \A s \in Plain \cup v.steady : v.saved[s].good /\ v.saved[s].of >= v.since[s]

RunShape(v) ==
  /\ {"at", "todo", "now", "clean", "saved", "since", "alone", "steady"} \subseteq DOMAIN v
  /\ v.since \in [Stateful -> Nat] /\ v.steady \subseteq Databases
  /\ v.at = "dumping" => v.now \in Databases
  /\ v.at # "dumping" => v.now = Absent

DataShape ==
  /\ running \subseteq Databases /\ data \in [Stateful -> Nat]
  /\ DOMAIN dumps = Databases /\ DOMAIN partial = Databases
  /\ \A d \in Databases : /\ dumps[d] # Absent => dumps[d].of \in Nat
                          /\ partial[d] # Absent => partial[d].of \in Nat
  /\ snapshot # Absent => \A s \in Stateful : snapshot[s].of \in Nat

RunsAlone ==
  \A r \in Runners : runs[r].alone /\ runs[r].at # "none" =>
    /\ Reached(runs[r], running, data, dumps, partial)
    /\ \A q \in Runners \ {r} : runs[q].at = "none"

MarkedInv ==
  /\ DOMAIN runs = Runners /\ \A r \in Runners : RunShape(runs[r])
  /\ DataShape /\ RunsAlone /\ MarkedIsWhole

LEMMA NoRunShape == RunShape(NoRun) /\ NoRun.at = "none"
  BY DEF RunShape, NoRun

LEMMA MarkedInit == Init => MarkedInv
  BY NoRunShape DEF Init, MarkedInv, DataShape, RunsAlone, MarkedIsWhole

(* A step of one run: what it may change of the others is only whether     *)
(* they still own the file they dump to.                                   *)
LEMMA OneRunGoesOn ==
  ASSUME MarkedInv, NEW r \in Runners, runs[r].at # "none",
         NEW v, RunShape(v), v.alone => runs[r].alone \/ v.at = "none",
         DOMAIN runs' = Runners, runs'[r] = v,
         \A q \in Runners \ {r} : /\ RunShape(runs'[q]) /\ runs'[q].at = runs[q].at
                                  /\ runs'[q].alone = runs[q].alone,
         v.alone /\ v.at # "none" => Reached(v, running', data', dumps', partial'),
         DataShape', MarkedIsWhole'
  PROVE  MarkedInv'
<1>1. \A q \in Runners \ {r} : ~(runs[q].alone /\ runs[q].at # "none")
  BY DEF MarkedInv, RunsAlone
<1>2. v.alone /\ v.at # "none" => \A q \in Runners \ {r} : runs[q].at = "none"
  BY DEF MarkedInv, RunsAlone
<1>3. \A q \in Runners \ {r} : ~(runs'[q].alone /\ runs'[q].at # "none")
  BY <1>1
<1>4. RunsAlone'
  BY <1>2, <1>3 DEF RunsAlone
<1> QED
  BY <1>4 DEF MarkedInv

(* The same, when the run ends. *)
LEMMA OneRunEnds ==
  ASSUME MarkedInv, NEW r \in Runners, runs[r].at # "none", Fail(r),
         UNCHANGED marker, DataShape'
  PROVE  MarkedInv'
<1>1. /\ DOMAIN runs' = Runners /\ runs'[r] = NoRun
      /\ \A q \in Runners \ {r} : runs'[q] = runs[q] /\ RunShape(runs[q])
  BY DEF Fail, MarkedInv
<1>2. MarkedIsWhole'
  BY DEF MarkedInv, MarkedIsWhole
<1> QED
  BY <1>1, <1>2, NoRunShape, OneRunGoesOn

LEMMA ReadShape ==
  ASSUME DataShape PROVE \A s \in Stateful : Read[s].of \in Nat
<1> SUFFICES ASSUME NEW s \in Stateful PROVE Read[s].of \in Nat
  OBVIOUS
<1>1. Read[s] = IF s \in running
                THEN IF dumps[s] = Absent THEN [of |-> data[s], good |-> FALSE] ELSE dumps[s]
                ELSE [of |-> data[s], good |-> TRUE]
  BY DEF Read
<1> QED
  BY <1>1 DEF DataShape

LEMMA EndsKeepMarked ==
  ASSUME MarkedInv, NEW r \in Runners,
         \/ RunFails(r) \/ Killed(r) \/ Prune(r)
         \/ \E d \in Databases : DumpFails(r, d)
         \/ \E s \in Stateful : SnapMisses(r, s)
  PROVE  MarkedInv'
<1>1. CASE RunFails(r) \/ Killed(r) \/ Prune(r)
  <2>1. DataShape'
    BY <1>1 DEF RunFails, Killed, Prune, Files, Outcome, MarkedInv, DataShape
  <2> QED
    BY <1>1, <2>1, OneRunEnds DEF RunFails, Killed, Prune, At, Files, Outcome
<1>2. ASSUME NEW d \in Databases, DumpFails(r, d)
      PROVE  MarkedInv'
  <2>1. DataShape'
    BY <1>2 DEF DumpFails, Outcome, MarkedInv, DataShape
  <2> QED
    BY <1>2, <2>1, OneRunEnds DEF DumpFails, At, Outcome
<1>3. ASSUME NEW s \in Stateful, SnapMisses(r, s)
      PROVE  MarkedInv'
  <2>1. \A x \in Stateful : Read[x].of \in Nat
    BY ReadShape DEF MarkedInv
  <2>2. \A x \in Stateful : snapshot'[x].of \in Nat
    BY <1>3, <2>1 DEF SnapMisses, Read
  <2>3. DataShape'
    BY <1>3, <2>2 DEF SnapMisses, Files, MarkedInv, DataShape
  <2> QED
    BY <1>3, <2>3, OneRunEnds DEF SnapMisses, At, Files
<1> QED
  BY <1>1, <1>2, <1>3

(* What restic reads, once all dumps are made, brings everything back. *)
LEMMA ReadIsWhole ==
  ASSUME DataShape, NEW v, RunShape(v), v.at = "restic",
         Reached(v, running, data, dumps, partial)
  PROVE  \A s \in Plain \cup v.steady : Read[s].good /\ Read[s].of >= v.since[s]
<1> SUFFICES ASSUME NEW s \in Plain \cup v.steady
             PROVE  Read[s].good /\ Read[s].of >= v.since[s]
  OBVIOUS
<1>1. s \in Stateful
  BY DEF RunShape, Stateful
<1>2. CASE s \notin running
  BY <1>1, <1>2 DEF Read, Reached
<1>3. CASE s \in running /\ s \in v.steady
  <2>1. Fresh(dumps[s], v.since[s])
    BY <1>3, BackupAssumption DEF Reached, RunShape, Services, Stateful
  <2> QED
    BY <1>1, <1>3, <2>1 DEF Read, Fresh
<1> QED
  BY <1>2, <1>3, BackupAssumption DEF DataShape

LEMMA DumpIsThere ==
  ASSUME NEW n \in Nat, NEW b \in BOOLEAN PROVE [of |-> n, good |-> b] # Absent
<1>1. [of |-> n, good |-> b] \in [of : Nat, good : BOOLEAN]
  OBVIOUS
<1> QED
  BY <1>1, BackupAssumption

LEMMA StepsKeepMarked ==
  ASSUME MarkedInv, NEW r \in Runners,
         \/ Dumped(r) \/ Snap(r) \/ Mark(r)
         \/ \E d \in Databases : DumpSkips(r, d) \/ DumpDone(r, d)
  PROVE  MarkedInv'
<1>0. /\ RunShape(runs[r]) /\ DataShape /\ MarkedIsWhole
      /\ runs[r].alone /\ runs[r].at # "none" => Reached(runs[r], running, data, dumps, partial)
  BY DEF MarkedInv, RunsAlone
<1>1. ASSUME NEW v, runs' = [runs EXCEPT ![r] = v], runs[r].at # "none",
             RunShape(v), v.alone = runs[r].alone,
             v.alone => Reached(v, running', data', dumps', partial'),
             DataShape', MarkedIsWhole'
      PROVE  MarkedInv'
  <2>1. /\ DOMAIN runs' = Runners /\ runs'[r] = v
        /\ \A q \in Runners \ {r} : runs'[q] = runs[q] /\ RunShape(runs[q])
    BY <1>1 DEF MarkedInv
  <2> QED
    BY <1>1, <2>1, OneRunGoesOn
<1>2. CASE Dumped(r)
  <2> DEFINE v == [runs[r] EXCEPT !.at = "restic"]
  <2>1. /\ runs' = [runs EXCEPT ![r] = v]
        /\ runs[r].at = "dumps" /\ runs[r].todo = {}
        /\ UNCHANGED <<running, data, dumps, partial, snapshot, marker>>
    BY <1>2 DEF Dumped, At, Files, Outcome
  <2>2. DataShape' /\ MarkedIsWhole'
    BY <1>0, <2>1 DEF DataShape, MarkedIsWhole
  <2>3. /\ v.at = "restic" /\ v.todo = runs[r].todo /\ v.now = runs[r].now
        /\ v.steady = runs[r].steady /\ v.since = runs[r].since
        /\ v.alone = runs[r].alone /\ DOMAIN v = DOMAIN runs[r]
    BY <1>0, <2>1 DEF RunShape
  <2> HIDE DEF v
  <2>4. RunShape(v)
    BY <1>0, <2>1, <2>3 DEF RunShape
  <2>5. v.alone => Reached(v, running', data', dumps', partial')
    BY <1>0, <2>1, <2>3 DEF Reached, RunShape
  <2> QED
    BY <1>1, <2>1, <2>2, <2>3, <2>4, <2>5
<1>3. CASE Snap(r)
  <2> DEFINE v == [runs[r] EXCEPT !.at = "marks", !.saved = Read]
  <2>1. /\ runs' = [runs EXCEPT ![r] = v] /\ runs[r].at = "restic" /\ snapshot' = Read
        /\ UNCHANGED <<running, data, dumps, partial, marker>>
    BY <1>3 DEF Snap, At, Files
  <2>2. \A s \in Stateful : Read[s].of \in Nat
    BY <1>0, ReadShape
  <2>3. DataShape' /\ MarkedIsWhole'
    BY <1>0, <2>1, <2>2 DEF DataShape, MarkedIsWhole
  <2>4. RunShape(v) /\ v.alone = runs[r].alone
    BY <1>0, <2>1 DEF RunShape
  <2>5. v.alone => Reached(v, running', data', dumps', partial')
    <3>1. /\ v.at = "marks" /\ v.saved = Read /\ v.since = runs[r].since
          /\ v.steady = runs[r].steady
      BY <1>0 DEF RunShape
    <3> HIDE DEF v
    <3> QED
      BY <1>0, <2>1, <2>4, <3>1, ReadIsWhole DEF Reached
  <2> HIDE DEF v
  <2> QED
    BY <1>1, <2>1, <2>3, <2>4, <2>5
<1>4. CASE Mark(r)
  <2> DEFINE v == [runs[r] EXCEPT !.at = "prunes"]
  <2>1. /\ runs' = [runs EXCEPT ![r] = v]
        /\ runs[r].at = "marks" /\ marker' = runs[r]
        /\ UNCHANGED <<running, data, dumps, partial, snapshot>>
    BY <1>4 DEF Mark, At, Files
  <2>2. DataShape' /\ MarkedIsWhole'
    BY <1>0, <2>1 DEF DataShape, MarkedIsWhole, Reached
  <2>3. /\ v.at = "prunes" /\ v.todo = runs[r].todo /\ v.now = runs[r].now
        /\ v.steady = runs[r].steady /\ v.since = runs[r].since
        /\ v.alone = runs[r].alone /\ DOMAIN v = DOMAIN runs[r]
    BY <1>0, <2>1 DEF RunShape
  <2> HIDE DEF v
  <2>4. RunShape(v)
    BY <1>0, <2>1, <2>3 DEF RunShape
  <2>5. v.alone => Reached(v, running', data', dumps', partial')
    BY <1>0, <2>1, <2>3 DEF Reached, RunShape
  <2> QED
    BY <1>1, <2>1, <2>2, <2>3, <2>4, <2>5
<1>5. ASSUME NEW d \in Databases, DumpSkips(r, d)
      PROVE  MarkedInv'
  <2> DEFINE v == [runs[r] EXCEPT !.todo = @ \ {d}]
  <2>1. /\ runs' = [runs EXCEPT ![r] = v]
        /\ runs[r].at = "dumps" /\ d \notin running
        /\ UNCHANGED <<running, data, dumps, partial, snapshot, marker>>
    BY <1>5 DEF DumpSkips, At, Files, Outcome
  <2>2. DataShape' /\ MarkedIsWhole'
    BY <1>0, <2>1 DEF DataShape, MarkedIsWhole
  <2>3. /\ v.at = "dumps" /\ v.todo = runs[r].todo \ {d} /\ v.now = runs[r].now
        /\ v.steady = runs[r].steady /\ v.since = runs[r].since
        /\ v.alone = runs[r].alone /\ DOMAIN v = DOMAIN runs[r]
    BY <1>0, <2>1 DEF RunShape
  <2> HIDE DEF v
  <2>4. RunShape(v)
    BY <1>0, <2>1, <2>3 DEF RunShape
  <2>5. v.alone => Reached(v, running', data', dumps', partial')
    BY <1>0, <2>1, <2>3 DEF Reached, RunShape
  <2> QED
    BY <1>1, <2>1, <2>2, <2>3, <2>4, <2>5
<1>6. ASSUME NEW d \in Databases, DumpDone(r, d)
      PROVE  MarkedInv'
  <2> DEFINE v == [runs[r] EXCEPT !.at = "dumps", !.now = Absent]
             x == [of |-> partial[d].of, good |-> runs[r].clean]
  <2>1. /\ runs' = [runs EXCEPT ![r] = v]
        /\ runs[r].at = "dumping" /\ runs[r].now = d /\ partial[d] # Absent
        /\ dumps' = [dumps EXCEPT ![d] = x]
        /\ partial' = [partial EXCEPT ![d] = Absent]
        /\ UNCHANGED <<running, data, snapshot, marker>>
    BY <1>6 DEF DumpDone, At, Outcome
  <2>2. x.of \in Nat
    BY <1>0, <2>1 DEF DataShape
  <2>3. DataShape' /\ MarkedIsWhole'
    BY <1>0, <2>1, <2>2 DEF DataShape, MarkedIsWhole
  <2>4. RunShape(v) /\ v.alone = runs[r].alone
    BY <1>0, <2>1 DEF RunShape
  <2>5. v.alone => Reached(v, running', data', dumps', partial')
    <3>1. SUFFICES ASSUME runs[r].alone
                   PROVE  Reached(v, running', data', dumps', partial')
      BY <2>4
    <3>2. /\ v.at = "dumps" /\ v.now = Absent /\ v.since = runs[r].since
          /\ v.steady = runs[r].steady /\ v.todo = runs[r].todo
      BY <1>0 DEF RunShape
    <3>3. Reached(runs[r], running, data, dumps, partial)
      BY <1>0, <2>1, <3>1
    <3>4. Fresh(x, v.since[d])
      <4>1. runs[r].clean = TRUE /\ x.of >= v.since[d]
        BY <2>1, <3>2, <3>3 DEF Reached
      <4>2. x = [of |-> partial[d].of, good |-> TRUE]
        BY <4>1
      <4>3. x # Absent
        BY <2>2, <4>2, DumpIsThere
      <4> QED
        BY <4>1, <4>3 DEF Fresh
    <3> HIDE DEF v, x
    <3>5. \A e \in Databases : dumps'[e] = IF e = d THEN x ELSE dumps[e]
      BY <1>0, <2>1 DEF DataShape
    <3> QED
      BY <1>0, <2>1, <3>2, <3>3, <3>4, <3>5 DEF Reached, RunShape
  <2> HIDE DEF v
  <2> QED
    BY <1>1, <2>1, <2>3, <2>4, <2>5
<1> QED
  BY <1>2, <1>3, <1>4, <1>5, <1>6
LEMMA OpeningKeepsMarked ==
  ASSUME MarkedInv, NEW r \in Runners, NEW d \in Databases, DumpOpens(r, d)
  PROVE  MarkedInv'
<1> DEFINE others == {q \in Runners : runs[q].now = d}
           v == [runs[r] EXCEPT !.at = "dumping", !.todo = @ \ {d}, !.now = d,
                                !.clean = (others = {})]
           x == [of |-> data[d], good |-> FALSE]
<1>1. /\ runs[r].at = "dumps" /\ UNCHANGED <<running, data, dumps, snapshot, marker>>
      /\ partial' = [partial EXCEPT ![d] = x]
      /\ DOMAIN runs' = Runners /\ runs'[r] = v
      /\ \A q \in Runners \ {r} : runs'[q] = [runs[q] EXCEPT !.clean = @ /\ q \notin others]
  BY DEF DumpOpens, At, Outcome
<1>2. /\ RunShape(runs[r]) /\ \A q \in Runners : RunShape(runs[q])
      /\ DataShape /\ MarkedIsWhole
  BY DEF MarkedInv
<1>3. /\ v.at = "dumping" /\ v.now = d /\ v.todo = runs[r].todo \ {d}
      /\ v.steady = runs[r].steady /\ v.since = runs[r].since
      /\ v.alone = runs[r].alone /\ v.clean = (others = {}) /\ DOMAIN v = DOMAIN runs[r]
  BY <1>2 DEF RunShape
<1>4. RunShape(v)
  BY <1>2, <1>3 DEF RunShape
<1>5. x.of \in Nat /\ x.of = data[d] /\ x # Absent
  BY <1>2, DumpIsThere DEF DataShape, Stateful
<1> HIDE DEF v, x
<1>6. DataShape' /\ MarkedIsWhole'
  BY <1>1, <1>2, <1>5 DEF DataShape, MarkedIsWhole
<1>7. ASSUME v.alone PROVE Reached(v, running', data', dumps', partial')
  <2>1. /\ Reached(runs[r], running, data, dumps, partial)
        /\ \A q \in Runners \ {r} : runs[q].at = "none"
    BY <1>1, <1>3, <1>7 DEF MarkedInv, RunsAlone
  <2>2. \A q \in Runners : runs[q].now = Absent
    BY <1>1, <1>2, <2>1 DEF RunShape
  <2>3. v.clean
    BY <1>3, <2>2, BackupAssumption DEF Services, Stateful
  <2>4. partial'[d] = x /\ x.of >= v.since[d]
    BY <1>1, <1>2, <1>3, <1>5, <2>1 DEF Reached, DataShape, Stateful
  <2> QED
    <3>1. \A e \in v.steady : e # Absent
      BY <1>2, <1>3, BackupAssumption DEF RunShape, Services, Stateful
    <3>2. \A e \in (v.steady \cap running) \ (v.todo \cup {v.now}) : Fresh(dumps[e], v.since[e])
      BY <1>1, <1>3, <2>1, <2>2, <3>1 DEF Reached
    <3> QED
      BY <1>1, <1>3, <1>5, <2>1, <2>3, <2>4, <3>2 DEF Reached
<1>8. \A q \in Runners \ {r} : /\ RunShape(runs'[q]) /\ runs'[q].at = runs[q].at
                               /\ runs'[q].alone = runs[q].alone
  BY <1>1, <1>2 DEF RunShape
<1> QED
  BY <1>1, <1>3, <1>4, <1>6, <1>7, <1>8, OneRunGoesOn

LEMMA BeginningKeepsMarked ==
  ASSUME MarkedInv, NEW r \in Runners, Begin(r)
  PROVE  MarkedInv'
<1> DEFINE others == {q \in Runners \ {r} : ~At(q, "none")}
           v == [NoRun EXCEPT !.at = "dumps", !.todo = Databases, !.since = data,
                              !.alone = (others = {}), !.steady = Databases]
<1>1. /\ UNCHANGED <<running, data, dumps, partial, snapshot, marker>>
      /\ DOMAIN runs' = Runners /\ runs'[r] = v
      /\ \A q \in Runners \ {r} : runs'[q] = [runs[q] EXCEPT !.alone = q \notin others /\ @]
  BY DEF Begin, Files, Outcome
<1>2. /\ DataShape /\ MarkedIsWhole /\ \A q \in Runners : RunShape(runs[q])
  BY DEF MarkedInv
<1>3. /\ v.at = "dumps" /\ v.now = Absent /\ v.todo = Databases /\ v.steady = Databases
      /\ v.since = data /\ v.alone = (others = {}) /\ DOMAIN v = DOMAIN NoRun
  BY DEF NoRun
<1> HIDE DEF v
<1>4. RunShape(v)
  BY <1>2, <1>3, NoRunShape DEF RunShape, DataShape
<1>5. Reached(v, running, data, dumps, partial)
  BY <1>2, <1>3 DEF Reached, DataShape
<1>6. \A q \in Runners \ {r} : /\ RunShape(runs'[q]) /\ runs'[q].at = runs[q].at
                               /\ runs'[q].alone => runs[q].at = "none"
  <2> SUFFICES ASSUME NEW q \in Runners \ {r}
               PROVE  /\ RunShape(runs'[q]) /\ runs'[q].at = runs[q].at
                      /\ runs'[q].alone => runs[q].at = "none"
    OBVIOUS
  <2>1. runs'[q] = [runs[q] EXCEPT !.alone = q \notin others /\ runs[q].alone]
    BY <1>1
  <2>2. RunShape(runs'[q]) /\ runs'[q].at = runs[q].at
    BY <1>2, <2>1 DEF RunShape
  <2>3. runs'[q].alone = (q \notin others /\ runs[q].alone)
    BY <1>2, <2>1 DEF RunShape
  <2>4. runs'[q].alone => q \notin others
    BY <2>3, Zenon
  <2>5. q \notin others => runs[q].at = "none"
    BY DEF At
  <2> QED
    BY <2>2, <2>4, <2>5, Zenon
<1>7. v.alone => \A q \in Runners \ {r} : runs[q].at = "none"
  BY <1>3 DEF At
<1>8. RunsAlone'
  BY <1>1, <1>3, <1>5, <1>6, <1>7 DEF RunsAlone
<1>9. DataShape' /\ MarkedIsWhole'
  BY <1>1, <1>2 DEF DataShape, MarkedIsWhole
<1> QED
  BY <1>1, <1>4, <1>6, <1>8, <1>9 DEF MarkedInv

LEMMA OutsideKeepsMarked ==
  ASSUME MarkedInv,
         \/ \E s \in Stateful : Write(s)
         \/ \E d \in Databases : Toggle(d)
         \/ \E scope \in Scopes : Restore(scope) \/ CliRestore(scope)
  PROVE  MarkedInv'
<1>0. DataShape /\ MarkedIsWhole /\ RunsAlone /\ \A q \in Runners : RunShape(runs[q])
  BY DEF MarkedInv
<1>1. ASSUME NEW s \in Stateful, Write(s)
      PROVE  MarkedInv'
  <2>1. /\ data' = [data EXCEPT ![s] = data[s] + 1]
        /\ UNCHANGED <<running, dumps, partial, runs, snapshot, marker>>
    BY <1>1 DEF Write, Files, Outcome
  <2>2. DataShape' /\ MarkedIsWhole'
    BY <1>0, <2>1 DEF DataShape, MarkedIsWhole
  <2>3. \A x \in Stateful : data'[x] >= data[x] /\ data[x] \in Nat /\ data'[x] \in Nat
    BY <1>0, <2>1 DEF DataShape
  <2>4. \A r \in Runners : Reached(runs[r], running, data, dumps, partial)
                             => Reached(runs[r], running, data', dumps, partial)
    <3> SUFFICES ASSUME NEW r \in Runners, Reached(runs[r], running, data, dumps, partial)
                 PROVE  \A x \in Stateful : data'[x] >= runs[r].since[x]
      BY DEF Reached
    <3> QED
      BY <1>0, <2>3 DEF Reached, RunShape
  <2> QED
    BY <1>0, <2>1, <2>2, <2>4 DEF MarkedInv, RunsAlone
<1>2. ASSUME NEW d \in Databases, Toggle(d)
      PROVE  MarkedInv'
  <2>1. /\ UNCHANGED <<data, dumps, partial, snapshot, marker>>
        /\ running' \subseteq Databases /\ running' \ {d} = running \ {d}
        /\ runs' = [r \in Runners |-> [runs[r] EXCEPT !.steady = runs[r].steady \ {d}]]
    BY <1>0, <1>2 DEF Toggle, Files, Outcome, DataShape
  <2>2. DataShape' /\ MarkedIsWhole'
    BY <1>0, <2>1 DEF DataShape, MarkedIsWhole
  <2>3. \A r \in Runners : RunShape(runs'[r]) /\ runs'[r].at = runs[r].at
                           /\ runs'[r].alone = runs[r].alone
    BY <1>0, <2>1 DEF RunShape
  <2>4. ASSUME NEW r \in Runners, Reached(runs[r], running, data, dumps, partial)
        PROVE  Reached(runs'[r], running', data', dumps', partial')
    <3>1. /\ runs'[r].at = runs[r].at /\ runs'[r].now = runs[r].now
          /\ runs'[r].todo = runs[r].todo /\ runs'[r].since = runs[r].since
          /\ runs'[r].clean = runs[r].clean /\ runs'[r].saved = runs[r].saved
          /\ runs'[r].steady = runs[r].steady \ {d}
      BY <1>0, <2>1 DEF RunShape
    <3> QED
      BY <2>1, <2>4, <3>1 DEF Reached
  <2> QED
    BY <1>0, <2>1, <2>2, <2>3, <2>4 DEF MarkedInv, RunsAlone
<1>3. ASSUME NEW scope \in Scopes, Restore(scope) \/ CliRestore(scope)
      PROVE  MarkedInv'
  <2>1. /\ UNCHANGED <<running, dumps, partial, snapshot, marker>> /\ snapshot # Absent
        /\ runs' = [r \in Runners |-> [runs[r] EXCEPT !.alone = FALSE]]
    BY <1>3 DEF Restore, CliRestore, RestoreWith, Files, Outcome
  <2>2. PICK back : data' = [s \in Stateful |-> IF s \in back THEN snapshot[s].of ELSE data[s]]
    BY <1>3 DEF Restore, CliRestore, RestoreWith
  <2>3. DataShape' /\ MarkedIsWhole'
    BY <1>0, <2>1, <2>2 DEF DataShape, MarkedIsWhole
  <2>4. \A r \in Runners : RunShape(runs'[r]) /\ ~runs'[r].alone
    BY <1>0, <2>1 DEF RunShape
  <2> QED
    BY <2>1, <2>3, <2>4 DEF MarkedInv, RunsAlone
<1> QED
  BY <1>1, <1>2, <1>3

LEMMA MarkedStep == MarkedInv /\ [Next]_vars => MarkedInv'
<1>1. ASSUME MarkedInv, UNCHANGED vars PROVE MarkedInv'
  BY <1>1 DEF vars, MarkedInv, DataShape, RunsAlone, MarkedIsWhole
<1> QED
  BY <1>1, EndsKeepMarked, StepsKeepMarked, OpeningKeepsMarked, BeginningKeepsMarked,
     OutsideKeepsMarked DEF Next

(* The freshness marker is written only for a backup that can bring every  *)
(* service back, no older than when it began.                              *)
THEOREM MarksAreWhole == Spec => []MarkedIsWhole
<1>1. MarkedInv => MarkedIsWhole
  BY DEF MarkedInv
<1> QED
  BY <1>1, MarkedInit, MarkedStep, PTL DEF Spec
=============================================================================
