-------------------------- MODULE ReconcilerProofs --------------------------
(***************************************************************************)
(* Theorems about the reconciler, for every set of services, versions,     *)
(* domains and settings handlers, and any number of generations, crashes   *)
(* and unlocked saves: types and unique domains, what an operation leaves  *)
(* behind, the verdict on every change, and that Releases is implemented.  *)
(***************************************************************************)
EXTENDS Reconciler, TLAPS, SequenceTheorems

(***************************************************************************)
(* What the locals of the operation in flight satisfy, and why TypeOK      *)
(* alone is not inductive: a restore moves the profile link to job.target, *)
(* so job.target has to be a recorded generation; and a deploy writes      *)
(* job.version into box.toml, so it has to be a version by then.           *)
(***************************************************************************)
JobOK ==
  /\ job.prev \in 0 .. Len(gens)
  /\ job.target \in 0 .. Len(gens)
  /\ pc = "rb_switch" => job.target # 0
  /\ pc \in {"rb_save", "rb_write", "rb_wipe", "rb_copy"} => current # 0
  /\ pc \in {"materialize", "load"} /\ job.kind = "deploy"
       => job.svc \in Services /\ job.version \in Versions
  /\ pc = "materialize" => job.kind = "deploy"

TypeInv == TypeOK /\ JobOK

(* What the code builds is a generation. *)
LEMMA RenderedType ==
  ASSUME NEW cfg \in Configs, NEW src \in [Services -> Trees]
  PROVE  Rendered(cfg, src) \in Generations
  BY DEF Rendered, Generations, Trees

(* The defaults are well-typed values. *)
LEMMA DefaultTypes ==
  /\ DefaultConfig \in Configs
  /\ NoGeneration \in Generations
  /\ NoJob \in Jobs
  /\ NoEdit \in Edits
<1>1. DefaultConfig \in Configs
  BY ReconcilerAssumption DEF DefaultConfig, Configs
<1>2. NoGeneration \in Generations
  BY <1>1, RenderedType DEF NoGeneration, Trees
<1>3. NoJob \in Jobs
  BY <1>1, <1>2 DEF NoJob, Jobs, Kinds
<1>4. NoEdit \in Edits
  BY <1>1 DEF NoEdit, Edits
<1> QED
  BY <1>1, <1>2, <1>3, <1>4

(* The config a deploy saves is a config. *)
LEMMA MergedType ==
  ASSUME NEW cfg \in Configs, NEW j \in Jobs,
         j.svc \in Services, j.version \in Versions
  PROVE  [cfg EXCEPT !.services[j.svc] =
            [version |-> j.version, domain |-> MergedDomain(cfg, j)]] \in Configs
<1>1. MergedDomain(cfg, j) \in Domains \cup {NoDomain}
  BY ReconcilerAssumption DEF MergedDomain, Configs, Entries, Jobs
<1>2. [version |-> j.version, domain |-> MergedDomain(cfg, j)] \in Entries
  BY <1>1 DEF Entries
<1> QED
  BY <1>2 DEF Configs

(* The locals at rest, and once a request has filled some of them in. *)
LEMMA NoJobFields ==
  /\ NoJob.kind = "none" /\ NoJob.svc = Absent /\ NoJob.version = NoTree
  /\ NoJob.domain = Keep /\ NoJob.prev = 0 /\ NoJob.target = 0
  /\ NoJob.cfg = DefaultConfig /\ NoJob.built = NoGeneration
  BY DEF NoJob

LEMMA TypeInit == Init => TypeInv
<1> SUFFICES ASSUME Init PROVE TypeInv
  OBVIOUS
<1> USE DEF Init
<1>1. /\ config \in Configs /\ job \in Jobs /\ edits \in [Writers -> Edits]
  BY DefaultTypes
<1>2. /\ sources \in [Services -> Trees] /\ pc \in Places /\ pending \in BOOLEAN
      /\ crashes \in Nat /\ edited \in Nat
  BY DEF Trees, Places
<1>3. /\ gens \in Seq(Generations)
      /\ current \in 0 .. Len(gens)
      /\ job.prev \in 0 .. Len(gens) /\ job.target \in 0 .. Len(gens)
  BY NoJobFields
<1>4. JobOK
  BY <1>3, NoJobFields DEF JobOK
<1> QED
  BY <1>1, <1>2, <1>3, <1>4 DEF TypeInv, TypeOK

(* An operation that begins from a well-typed request. *)
LEMMA BeginType ==
  ASSUME TypeInv, NEW kind \in Kinds, NEW at \in Places, NEW j \in Jobs,
         Begin(kind, at, j),
         j.prev = 0, j.target \in 0 .. Len(gens),
         \/ at = "materialize" \/ at = "load" \/ at = "os_apply"
         \/ at = "rb_switch" /\ j.target # 0,
         kind = "deploy" => j.svc \in Services /\ j.version \in Versions,
         at = "materialize" => kind = "deploy"
  PROVE  TypeInv'
<1>1. job' \in Jobs /\ job'.kind = kind /\ job'.prev = 0 /\ job'.target = j.target
      /\ job'.svc = j.svc /\ job'.version = j.version
  BY DEF Begin, Jobs
<1>2. TypeOK'
  BY <1>1 DEF Begin, TypeInv, TypeOK
<1>3. JobOK'
  BY <1>1 DEF Begin, TypeInv, TypeOK, JobOK
<1> QED
  BY <1>2, <1>3 DEF TypeInv

(* An operation that ends, whatever it has written last. *)
LEMMA FinishType ==
  ASSUME TypeInv, Finish, gens' = gens,
         config' \in Configs, sources' \in [Services -> Trees],
         current' \in 0 .. Len(gens), pending' \in BOOLEAN,
         edits' \in [Writers -> Edits], crashes' \in Nat, edited' \in Nat
  PROVE  TypeInv'
<1>1. job' \in Jobs /\ pc' = "idle" /\ job'.prev = 0 /\ job'.target = 0
      /\ job'.kind = "none"
  BY DefaultTypes, NoJobFields DEF Finish
<1>2. TypeOK'
  BY <1>1 DEF TypeInv, TypeOK, Places
<1>3. JobOK'
  BY <1>1 DEF TypeInv, TypeOK, JobOK
<1> QED
  BY <1>2, <1>3 DEF TypeInv

(* After a failure: the previous generation, or the end. *)
LEMMA RestoreType ==
  ASSUME TypeInv, RestorePrevious,
         UNCHANGED <<config, sources, gens, current, pending, edits, crashes, edited>>
  PROVE  TypeInv'
<1>1. CASE Finish
  BY <1>1, FinishType DEF TypeInv, TypeOK
<1>2. CASE /\ job.prev # 0 /\ pc' = "rb_switch"
           /\ job' = [job EXCEPT !.target = job.prev]
  <2>1. job' \in Jobs /\ job'.prev = job.prev /\ job'.target = job.prev
    BY <1>2 DEF TypeInv, TypeOK, Jobs
  <2>2. TypeOK'
    BY <1>2, <2>1 DEF TypeInv, TypeOK, Places
  <2>3. JobOK'
    BY <1>2, <2>1 DEF TypeInv, TypeOK, JobOK
  <2> QED
    BY <2>2, <2>3 DEF TypeInv
<1> QED
  BY <1>1, <1>2 DEF RestorePrevious

(* Each step keeps the types and the facts about the locals. *)
LEMMA TypeStep == TypeInv /\ [Next]_vars => TypeInv'
<1> SUFFICES ASSUME TypeInv, [Next]_vars PROVE TypeInv'
  OBVIOUS
<1> USE DefaultTypes
<1> USE DEF TypeInv, TypeOK, JobOK
<1>1. CASE UNCHANGED vars
  BY <1>1 DEF vars
<1>2. ASSUME NEW s \in Services, NEW v \in Versions,
             NEW d \in Domains \cup {NoDomain, Keep}, BeginDeploy(s, v, d)
      PROVE  TypeInv'
  <2> DEFINE j == [NoJob EXCEPT !.svc = s, !.version = v, !.domain = d]
  <2>1. j \in Jobs /\ j.prev = 0 /\ j.target = 0 /\ j.svc = s /\ j.version = v
    BY NoJobFields DEF Jobs
  <2>2. Begin("deploy", "materialize", j) /\ 0 \in 0 .. Len(gens)
    BY <1>2 DEF BeginDeploy
  <2> HIDE DEF j, TypeInv, TypeOK, JobOK
  <2> QED
    BY <2>1, <2>2, BeginType DEF Kinds, Places
<1>3. ASSUME NEW s \in Services, BeginDelete(s) PROVE TypeInv'
  <2> DEFINE j == [NoJob EXCEPT !.svc = s]
  <2>1. j \in Jobs /\ j.prev = 0 /\ j.target = 0
    BY NoJobFields DEF Jobs
  <2>2. Begin("delete", "load", j) /\ 0 \in 0 .. Len(gens)
    BY <1>3 DEF BeginDelete
  <2> HIDE DEF j, TypeInv, TypeOK, JobOK
  <2> QED
    BY <2>1, <2>2, BeginType DEF Kinds, Places
<1>4. ASSUME NEW n \in 1 .. Len(gens), BeginRollback(n) PROVE TypeInv'
  <2> DEFINE j == [NoJob EXCEPT !.target = n]
  <2>1. j \in Jobs /\ j.prev = 0 /\ j.target = n
    BY NoJobFields DEF Jobs
  <2>2. Begin("rollback", "rb_switch", j) /\ n \in 0 .. Len(gens) /\ n # 0
    BY <1>4 DEF BeginRollback
  <2> HIDE DEF j, TypeInv, TypeOK, JobOK
  <2> QED
    BY <2>1, <2>2, BeginType DEF Kinds, Places
<1>5. CASE BeginReapply
  <2>1. Begin("reapply", "os_apply", NoJob) /\ NoJob.target \in 0 .. Len(gens)
    BY <1>5, NoJobFields DEF BeginReapply
  <2> HIDE DEF TypeInv, TypeOK, JobOK
  <2> QED
    BY <2>1, NoJobFields, BeginType DEF Kinds, Places
<1>6. CASE Materialize
  BY <1>6 DEF Materialize, Goto, Places, Jobs, Trees
<1>7. CASE MaterializeFails
  BY <1>7, FinishType DEF MaterializeFails, Trees
<1>8. CASE LoadAndMerge
  <2>1. job'.cfg \in Configs
    BY <1>8, MergedType DEF LoadAndMerge, Goto, Jobs
  <2>2. job' \in Jobs
    BY <1>8, <2>1 DEF LoadAndMerge, Goto, Jobs, Structural
  <2> QED
    BY <1>8, <2>2 DEF LoadAndMerge, Goto, Places, Jobs
<1>9. CASE Refuse
  BY <1>9, FinishType DEF Refuse
<1>10. CASE LoadAndRemove
  <2>1. job'.cfg \in Configs
    BY <1>10 DEF LoadAndRemove, Goto, Jobs, Configs
  <2>2. job' \in Jobs
    BY <1>10, <2>1 DEF LoadAndRemove, Goto, Jobs
  <2> QED
    BY <1>10, <2>2 DEF LoadAndRemove, Goto, Places, Jobs
<1>11. CASE NoSuchService
  BY <1>11, FinishType DEF NoSuchService
<1>12. CASE SaveTruncates
  BY <1>12 DEF SaveTruncates, Goto, Places
<1>13. CASE SaveWrites
  BY <1>13 DEF SaveWrites, Goto, Places, Jobs
<1>14. CASE Forget
  BY <1>14 DEF Forget, Goto, Places, Trees
<1>15. CASE Render
  <2>1. Rendered(config, sources) \in Generations
    BY RenderedType
  <2>2. job' = [job EXCEPT !.prev = current, !.built = Rendered(config, sources)]
        /\ current \in Nat
    BY <1>15 DEF Render
  <2>3. job' \in Jobs /\ job'.prev = current /\ job'.target = job.target
    BY <2>1, <2>2 DEF Jobs
  <2> QED
    BY <1>15, <2>3 DEF Render, Goto, Places
<1>16. CASE Record
  <2>1. job' \in Jobs /\ job'.prev = job.prev /\ job'.target = job.target
    BY <1>16 DEF Record, Goto, Jobs
  <2>2. gens' \in Seq(Generations) /\ Len(gens') = Len(gens) + 1
    BY <1>16 DEF Record, Jobs
  <2> QED
    BY <1>16, <2>1, <2>2 DEF Record, Goto, Places
<1>17. CASE BuildFails
  BY <1>17, RestoreType DEF BuildFails
<1>18. CASE Switch
  BY <1>18 DEF Switch, Goto, Places
<1>19. CASE HealthPasses
  <2>1. CASE Finish
    BY <1>19, <2>1, FinishType DEF HealthPasses
  <2>2. CASE pc' = "os_apply" /\ UNCHANGED job
    BY <1>19, <2>2 DEF HealthPasses, Places
  <2> QED
    BY <1>19, <2>1, <2>2 DEF HealthPasses
<1>20. CASE HealthFails
  BY <1>20, RestoreType DEF HealthFails
<1>21. CASE RequestApply
  BY <1>21, FinishType DEF RequestApply
<1>22. CASE RollbackSwitches
  BY <1>22 DEF RollbackSwitches, Goto, Places
<1>23. CASE RollbackTruncates
  BY <1>23 DEF RollbackTruncates, Goto, Places
<1>24. CASE RollbackWrites
  <2>1. gens[current] \in Generations
    BY <1>24 DEF RollbackWrites, Goto
  <2>2. config' \in Configs
    BY <1>24, <2>1 DEF RollbackWrites, Generations
  <2> QED
    BY <1>24, <2>2 DEF RollbackWrites, Goto, Places
<1>25. CASE RollbackWipes
  BY <1>25 DEF RollbackWipes, Goto, Places, Trees
<1>26. CASE RollbackCopies
  <2>1. gens[current] \in Generations
    BY <1>26 DEF RollbackCopies
  <2>2. sources' \in [Services -> Trees]
    BY <1>26, <2>1 DEF RollbackCopies, Generations
  <2> QED
    BY <1>26, <2>2, FinishType DEF RollbackCopies
<1>27. ASSUME NEW w \in Writers, NEW v \in Settings, EditLoads(w, v) PROVE TypeInv'
  BY <1>27 DEF EditLoads, Edits, Configs
<1>28. ASSUME NEW w \in Writers, EditTruncates(w) PROVE TypeInv'
  BY <1>28 DEF EditTruncates, Edits
<1>29. ASSUME NEW w \in Writers, EditWrites(w) PROVE TypeInv'
  BY <1>29 DEF EditWrites, Edits
<1>30. CASE Crash
  BY <1>30, FinishType DEF Crash
<1> QED
  BY <1>1, <1>2, <1>3, <1>4, <1>5, <1>6, <1>7, <1>8, <1>9, <1>10, <1>11, <1>12,
     <1>13, <1>14, <1>15, <1>16, <1>17, <1>18, <1>19, <1>20, <1>21, <1>22, <1>23,
     <1>24, <1>25, <1>26, <1>27, <1>28, <1>29, <1>30
  DEF Next, Step, DeploySteps, DeleteSteps, ApplySteps, RollbackSteps, Request, Edit

(* Every reachable state is well-typed; in particular the profile link     *)
(* never names a generation that was not recorded.                         *)
THEOREM TypeCorrect == Spec => []TypeOK
<1>1. TypeInv => TypeOK
  BY DEF TypeInv
<1> QED
  BY TypeInit, TypeStep, <1>1, PTL DEF Spec

-----------------------------------------------------------------------------
(***************************************************************************)
(* DomainsUnique is not inductive by itself: box.toml is overwritten by    *)
(* the config a deploy has merged, by a settings handler's copy and by the *)
(* snapshot of a generation, and a generation is made from what Render     *)
(* read.  The invariant has to hold of every one of these copies.          *)
(***************************************************************************)
DomainsInv ==
  /\ DomainsUnique
  /\ DomainsUniqueIn(job.cfg)
  /\ DomainsUniqueIn(job.built.config)
  /\ \A w \in Writers : DomainsUniqueIn(edits[w].cfg)

LEMMA DefaultDomains ==
  /\ DomainsUniqueIn(DefaultConfig)
  /\ NoJob.cfg = DefaultConfig /\ NoJob.built.config = DefaultConfig
  /\ NoEdit.cfg = DefaultConfig
  BY DEF DomainsUniqueIn, DefaultConfig, NoJob, NoGeneration, Rendered, NoEdit

(* What a deploy merges into a config: the domain it asks for is free, and *)
(* a domain it keeps was already its own.                                  *)
LEMMA MergedDomains ==
  ASSUME NEW cfg \in Configs, NEW j \in Jobs,
         j.svc \in Services, j.version \in Versions,
         DomainsUniqueIn(cfg), ~DomainTaken(cfg, j)
  PROVE  DomainsUniqueIn([cfg EXCEPT !.services[j.svc] =
           [version |-> j.version, domain |-> MergedDomain(cfg, j)]])
<1> DEFINE d == MergedDomain(cfg, j)
           e == [version |-> j.version, domain |-> d]
           new == [cfg EXCEPT !.services[j.svc] = e]
<1>1. /\ new.services[j.svc] = e
      /\ \A s \in Services \ {j.svc} : new.services[s] = cfg.services[s]
  BY DEF Configs
<1>2. ASSUME NEW t \in Services \ {j.svc}, cfg.services[t] # Absent,
             cfg.services[t].domain = d, d # NoDomain
      PROVE  FALSE
  <2>1. CASE j.domain # Keep
    BY <1>2, <2>1 DEF MergedDomain, DomainTaken, Jobs
  <2>2. CASE j.domain = Keep
    BY <1>2, <2>2 DEF MergedDomain, DomainsUniqueIn
  <2> QED
    BY <2>1, <2>2
<1>3. e.domain = d
  OBVIOUS
<1> HIDE DEF d, e, new
<1>4. DomainsUniqueIn(new)
  BY <1>1, <1>2, <1>3 DEF DomainsUniqueIn
<1> QED
  BY <1>4 DEF new, e, d

LEMMA DomainsInit == Init => DomainsInv
<1> SUFFICES ASSUME Init PROVE DomainsInv
  OBVIOUS
<1>1. DomainsUnique
  BY DefaultDomains DEF Init, DomainsUnique
<1> QED
  BY <1>1, DefaultDomains DEF Init, DomainsInv

LEMMA DomainsStep == TypeInv /\ DomainsInv /\ [Next]_vars => DomainsInv'
<1> SUFFICES ASSUME TypeInv, DomainsInv, [Next]_vars PROVE DomainsInv'
  OBVIOUS
<1> USE DefaultDomains
<1> USE DEF DomainsInv, DomainsUnique
<1>1. CASE UNCHANGED vars
  BY <1>1 DEF vars
<1>2. CASE Request
  <2>1. job'.cfg = DefaultConfig /\ job'.built.config = DefaultConfig
    BY <1>2 DEF Request, BeginDeploy, BeginDelete, BeginRollback, BeginReapply, Begin, NoJob,
                NoGeneration, Rendered
  <2>2. UNCHANGED <<config, gens, edits>>
    BY <1>2 DEF Request, BeginDeploy, BeginDelete, BeginRollback, BeginReapply, Begin
  <2> QED
    BY <2>1, <2>2
<1>3. CASE Materialize \/ MaterializeFails \/ Refuse \/ NoSuchService \/ Forget
  BY <1>3 DEF Materialize, MaterializeFails, Refuse, NoSuchService, Forget, Finish
<1>4. CASE LoadAndMerge
  <2>1. job.svc \in Services /\ job.version \in Versions /\ job \in Jobs /\ config \in Configs
    BY <1>4 DEF LoadAndMerge, Goto, TypeInv, TypeOK, JobOK
  <2>2. DomainsUniqueIn(job'.cfg)
    BY <1>4, <2>1, MergedDomains DEF LoadAndMerge, Jobs
  <2>3. job'.built = job.built
    BY <1>4, <2>1 DEF LoadAndMerge, Jobs
  <2> QED
    BY <1>4, <2>2, <2>3 DEF LoadAndMerge
<1>5. CASE LoadAndRemove
  <2>1. job \in Jobs /\ config \in Configs
    BY DEF TypeInv, TypeOK
  <2>2. job'.cfg = [config EXCEPT !.services[job.svc] = Absent] /\ job'.built = job.built
    BY <1>5, <2>1 DEF LoadAndRemove, Jobs
  <2>3. DomainsUniqueIn([config EXCEPT !.services[job.svc] = Absent])
    BY <2>1 DEF DomainsUniqueIn, Configs
  <2> QED
    BY <1>5, <2>2, <2>3 DEF LoadAndRemove
<1>6. CASE SaveTruncates \/ RollbackTruncates
  BY <1>6 DEF SaveTruncates, RollbackTruncates
<1>7. CASE SaveWrites
  <2>1. job'.cfg = DefaultConfig /\ job'.built = job.built
    BY <1>7 DEF SaveWrites, TypeInv, TypeOK, Jobs
  <2> QED
    BY <1>7, <2>1 DEF SaveWrites
<1>8. CASE Render
  <2>1. job'.cfg = job.cfg /\ job'.built.config = config
    BY <1>8 DEF Render, Rendered, TypeInv, TypeOK, Jobs
  <2> QED
    BY <1>8, <2>1 DEF Render
<1>9. CASE Record
  <2>1. job'.cfg = job.cfg /\ job'.built.config = DefaultConfig
    BY <1>9 DEF Record, TypeInv, TypeOK, Jobs, NoGeneration, Rendered
  <2>2. gens \in Seq(Generations) /\ gens' = Append(gens, job.built)
    BY <1>9 DEF Record, TypeInv, TypeOK
  <2>3. \A n \in 1 .. Len(gens') : DomainsUniqueIn(gens'[n].config)
    BY <2>2
  <2> QED
    BY <1>9, <2>1, <2>3 DEF Record
<1>10. CASE BuildFails \/ HealthFails
  <2>1. \/ job' = NoJob
        \/ job'.cfg = job.cfg /\ job'.built = job.built
    BY <1>10 DEF BuildFails, HealthFails, RestorePrevious, Finish, TypeInv, TypeOK, Jobs
  <2> QED
    BY <1>10, <2>1 DEF BuildFails, HealthFails
<1>11. CASE Switch \/ RollbackSwitches \/ RollbackWipes
  BY <1>11 DEF Switch, RollbackSwitches, RollbackWipes
<1>12. CASE HealthPasses \/ RequestApply \/ RollbackCopies
  BY <1>12 DEF HealthPasses, RequestApply, RollbackCopies, Finish
<1>13. CASE RollbackWrites
  <2>1. current \in 1 .. Len(gens)
    BY <1>13 DEF RollbackWrites, Goto, TypeInv, TypeOK, JobOK
  <2> QED
    BY <1>13, <2>1 DEF RollbackWrites
<1>14. CASE Edit
  <2>1. ASSUME NEW w \in Writers, NEW v \in Settings, EditLoads(w, v) PROVE DomainsInv'
    <3>1. DomainsUniqueIn([config EXCEPT !.setting = v])
      BY DEF DomainsUniqueIn, TypeInv, TypeOK, Configs
    <3> QED
      BY <2>1, <3>1 DEF EditLoads, TypeInv, TypeOK
  <2>2. ASSUME NEW w \in Writers, EditTruncates(w) PROVE DomainsInv'
    BY <2>2 DEF EditTruncates, TypeInv, TypeOK, Edits
  <2>3. ASSUME NEW w \in Writers, EditWrites(w) PROVE DomainsInv'
    BY <2>3 DEF EditWrites, TypeInv, TypeOK, Edits
  <2> QED
    BY <1>14, <2>1, <2>2, <2>3 DEF Edit
<1>15. CASE Crash
  BY <1>15 DEF Crash, Finish
<1> QED
  BY <1>1, <1>2, <1>3, <1>4, <1>5, <1>6, <1>7, <1>8, <1>9, <1>10, <1>11, <1>12,
     <1>13, <1>14, <1>15
  DEF Next, Step, DeploySteps, DeleteSteps, ApplySteps, RollbackSteps

(* No two services ever claim one domain, in box.toml or in any generation *)
(* a rollback can restore: whatever a deploy, a stale settings save, a     *)
(* rollback or a crash does.                                               *)
THEOREM DomainsCorrect == Spec => []DomainsUnique
<1>1. DomainsInv => DomainsUnique
  BY DEF DomainsInv
<1> QED
  BY TypeInit, TypeStep, DomainsInit, DomainsStep, <1>1, PTL DEF Spec

-----------------------------------------------------------------------------
(***************************************************************************)
(* How far an operation is decides what its locals mean.  Before Render    *)
(* nothing has been read from the profile; from Render to Switch `prev` is *)
(* the generation being served; between Switch and the health check the    *)
(* newest generation is, and prev is an older one; a restore that          *)
(* apply_checked asked for goes to prev; and what is left when an          *)
(* operation reaches the OS step has passed its health check.              *)
(***************************************************************************)
EarlyPlaces   == {"materialize", "load", "save", "write", "forget", "render"}
RestorePlaces == {"rb_save", "rb_write", "rb_wipe", "rb_copy"}

TrialInv ==
  /\ pc \in EarlyPlaces \cup {"build", "switch", "health"}
       => job.kind \in {"deploy", "delete"}
  /\ pc \in EarlyPlaces => job.prev = 0
  /\ pc \in {"build", "switch"} => job.prev = current
  /\ pc = "switch" => job.prev < Len(gens)
  /\ pc = "health" => current = Len(gens) /\ job.prev < current
  /\ pc = "os_apply" /\ job.kind # "reapply" => Healthy(gens[current])
  /\ pc = "rb_switch" /\ job.kind # "rollback" => job.target = job.prev
  /\ pc \in RestorePlaces /\ job.kind # "rollback" => current = job.prev

LEMMA TrialInit == Init => TrialInv
  BY DEF Init, TrialInv, EarlyPlaces, RestorePlaces

(* The profile and the operation's progress are out of the settings        *)
(* handlers' reach.                                                        *)
LEMMA EditLeaves == Edit => UNCHANGED <<gens, current, pc, job>>
  BY DEF Edit, EditLoads, EditTruncates, EditWrites

(* Only the machine stopping counts as that. *)
LEMMA OnlyCrashesStop == Request \/ Step \/ Edit => crashes' = crashes
<1>1. Request \/ Edit => crashes' = crashes
  BY DEF Request, BeginDeploy, BeginDelete, BeginRollback, BeginReapply, Begin,
         Edit, EditLoads, EditTruncates, EditWrites
<1>2. DeploySteps \/ DeleteSteps => crashes' = crashes
  BY DEF DeploySteps, DeleteSteps, Materialize, MaterializeFails, LoadAndMerge, Refuse,
         LoadAndRemove, NoSuchService, Forget
<1>3. ApplySteps => crashes' = crashes
  BY DEF ApplySteps, SaveTruncates, SaveWrites, Render, Record, BuildFails, Switch,
         HealthPasses, HealthFails, RequestApply
<1>4. RollbackSteps => crashes' = crashes
  BY DEF RollbackSteps, RollbackSwitches, RollbackTruncates, RollbackWrites,
         RollbackWipes, RollbackCopies
<1> QED
  BY <1>1, <1>2, <1>3, <1>4 DEF Step

LEMMA TrialStep == TypeInv /\ TrialInv /\ [Next]_vars => TrialInv'
<1> SUFFICES ASSUME TypeInv, TrialInv, [Next]_vars PROVE TrialInv'
  OBVIOUS
<1> USE DEF TrialInv, EarlyPlaces, RestorePlaces
<1>0. /\ job \in Jobs /\ gens \in Seq(Generations) /\ current \in 0 .. Len(gens)
      /\ job.prev \in 0 .. Len(gens)
      /\ pc = "materialize" => job.kind = "deploy"
  BY DEF TypeInv, TypeOK, JobOK
<1>1. CASE UNCHANGED vars
  BY <1>1 DEF vars
<1>2. CASE Request
  BY <1>2, NoJobFields DEF Request, BeginDeploy, BeginDelete, BeginRollback, BeginReapply,
                           Begin, NoJob
<1>3. CASE pc' = "idle"
  BY <1>3
<1>4. CASE Materialize
  BY <1>4 DEF Materialize, Goto
<1>5. CASE LoadAndMerge
  BY <1>5, <1>0 DEF LoadAndMerge, Goto, Jobs
<1>6. CASE LoadAndRemove
  BY <1>6, <1>0 DEF LoadAndRemove, Goto, Jobs
<1>7. CASE SaveTruncates
  BY <1>7 DEF SaveTruncates, Goto
<1>8. CASE SaveWrites
  BY <1>8, <1>0 DEF SaveWrites, Goto, Jobs
<1>9. CASE Forget
  BY <1>9 DEF Forget, Goto
<1>10. CASE Render
  BY <1>10, <1>0 DEF Render, Goto, Jobs
<1>11. CASE Record
  <2>1. Len(gens') = Len(gens) + 1
    BY <1>11, <1>0 DEF Record, Jobs
  <2> QED
    BY <1>11, <1>0, <2>1 DEF Record, Goto, Jobs
<1>12. CASE BuildFails \/ HealthFails
  BY <1>12, <1>3, <1>0 DEF BuildFails, HealthFails, RestorePrevious, Finish, Jobs
<1>13. CASE Switch
  BY <1>13, <1>0 DEF Switch, Goto
<1>14. CASE HealthPasses
  BY <1>14, <1>3 DEF HealthPasses, Finish
<1>15. CASE RollbackSwitches \/ RollbackTruncates \/ RollbackWrites \/ RollbackWipes
  BY <1>15 DEF RollbackSwitches, RollbackTruncates, RollbackWrites, RollbackWipes, Goto
<1>16. CASE MaterializeFails \/ Refuse \/ NoSuchService \/ RequestApply \/ RollbackCopies
            \/ Crash
  BY <1>16, <1>3 DEF MaterializeFails, Refuse, NoSuchService, RequestApply, RollbackCopies,
                     Crash, Finish
<1>17. CASE Edit
  BY <1>17, EditLeaves
<1> QED
  BY <1>1, <1>2, <1>4, <1>5, <1>6, <1>7, <1>8, <1>9, <1>10, <1>11, <1>12, <1>13, <1>14,
     <1>15, <1>16, <1>17
  DEF Next, Step, DeploySteps, DeleteSteps, ApplySteps, RollbackSteps

-----------------------------------------------------------------------------
(* The steps with which a deploy or a delete returns: refused before the   *)
(* profile was read, passed, without a generation to go back to, or        *)
(* restored.                                                               *)
LEMMA ReturningSteps ==
  ASSUME Next, pc' = "idle", pc # "idle", crashes' = crashes, TypeInv
  PROVE  /\ UNCHANGED <<gens, current>>
         /\ \/ pc \in EarlyPlaces
            \/ pc \in {"build", "health"} /\ job.prev = 0
            \/ pc = "health" /\ Healthy(gens[current])
            \/ pc = "os_apply" \/ pc = "rb_copy"
<1> USE DEF EarlyPlaces
<1>1. CASE Request
  BY <1>1 DEF Request, BeginDeploy, BeginDelete, BeginRollback, BeginReapply, Begin
<1>2. CASE DeploySteps \/ DeleteSteps
  BY <1>2 DEF DeploySteps, DeleteSteps, Materialize, MaterializeFails, LoadAndMerge, Refuse,
              LoadAndRemove, NoSuchService, Forget, Goto
<1>3. CASE ApplySteps
  BY <1>3 DEF ApplySteps, SaveTruncates, SaveWrites, Render, Record, BuildFails, Switch,
              HealthPasses, HealthFails, RequestApply, RestorePrevious, Goto
<1>4. CASE RollbackSteps
  BY <1>4 DEF RollbackSteps, RollbackSwitches, RollbackTruncates, RollbackWrites,
              RollbackWipes, RollbackCopies, Goto
<1>5. CASE Edit
  BY <1>5, EditLeaves
<1>6. CASE Crash
  BY <1>6 DEF Crash, TypeInv, TypeOK
<1> QED
  BY <1>1, <1>2, <1>3, <1>4, <1>5, <1>6 DEF Next, Step

LEMMA NoBadChangeSticks ==
  ASSUME TypeInv, TrialInv, [Next]_vars,
         Returns, job.kind \in {"deploy", "delete"}, job.prev # 0
  PROVE  current' = job.prev \/ Healthy(gens'[current'])
<1>1. Next
  BY DEF Returns, vars
<1>2. UNCHANGED <<gens, current>>
  BY <1>1, ReturningSteps DEF Returns
<1>3. \/ Healthy(gens[current])
      \/ pc = "rb_copy"
  BY <1>1, ReturningSteps DEF Returns, TrialInv
<1>4. CASE pc = "rb_copy"
  BY <1>2, <1>4 DEF TrialInv, RestorePlaces
<1> QED
  BY <1>2, <1>3, <1>4

(* A deploy or delete that returns leaves the generation it found, or one  *)
(* that passed its health check: with any number of settings handlers      *)
(* saving box.toml underneath it, and whatever crashed before it began.    *)
THEOREM BadChangesRevert == Spec => BadChangeNeverSticks
<1>1. TypeInv /\ TrialInv /\ [Next]_vars
        => [ Returns /\ job.kind \in {"deploy", "delete"} /\ job.prev # 0
               => current' = job.prev \/ Healthy(gens'[current']) ]_vars
  BY NoBadChangeSticks
<1> QED
  BY TypeInit, TypeStep, TrialInit, TrialStep, <1>1, PTL DEF Spec, BadChangeNeverSticks

-----------------------------------------------------------------------------
(***************************************************************************)
(* The refinement: Switch puts a release on trial, the health check keeps  *)
(* it or the restore takes it back, a crash interrupts the trial, and the  *)
(* operator's rollback chooses.  Every other step leaves it alone.         *)
(***************************************************************************)
Fallback == IF OnTrial THEN job.prev ELSE 0

LEMMA ReleasesInit == Init => Releases!Init
  BY DEF Init, Releases!Init, OnTrial

LEMMA ReleasesStep ==
  TypeInv /\ TrialInv /\ [Next]_vars => [Releases!Next]_(Releases!vars)
<1> SUFFICES ASSUME TypeInv, TrialInv, Next PROVE [Releases!Next]_(Releases!vars)
  BY DEF vars, Releases!vars, OnTrial
<1> USE DEF TrialInv, EarlyPlaces, RestorePlaces
<1>0. /\ job \in Jobs /\ gens \in Seq(Generations) /\ current \in 0 .. Len(gens)
      /\ job.prev \in 0 .. Len(gens) /\ job.target \in 0 .. Len(gens)
      /\ pc = "rb_switch" => job.target # 0
  BY DEF TypeInv, TypeOK, JobOK
<1>1. ASSUME UNCHANGED <<gens, current, Fallback, crashes>>, OnTrial' = OnTrial
      PROVE  UNCHANGED Releases!vars
  BY <1>1 DEF Releases!vars, Fallback
<1>2. ASSUME UNCHANGED <<gens, current, crashes>>, ~OnTrial, ~OnTrial'
      PROVE  UNCHANGED Releases!vars
  BY <1>2 DEF Releases!vars, OnTrial
<1>s. Request \/ Step \/ Edit => crashes' = crashes
  BY OnlyCrashesStop
<1>3. CASE Request
  <2>1. UNCHANGED <<gens, current>> /\ ~OnTrial /\ ~OnTrial'
    BY <1>3, NoJobFields DEF Request, BeginDeploy, BeginDelete, BeginRollback, BeginReapply,
                             Begin, NoJob, OnTrial
  <2> QED
    BY <1>2, <1>3, <1>s, <2>1
<1>4. CASE DeploySteps \/ DeleteSteps
  <2>1. UNCHANGED <<gens, current>> /\ ~OnTrial /\ ~OnTrial'
    BY <1>4 DEF DeploySteps, DeleteSteps, Materialize, MaterializeFails, LoadAndMerge, Refuse,
                LoadAndRemove, NoSuchService, Forget, Finish, Goto, OnTrial
  <2> QED
    BY <1>2, <1>4, <1>s, <2>1 DEF Step
<1>5. CASE SaveTruncates \/ SaveWrites \/ Render \/ RequestApply
  <2>1. UNCHANGED <<gens, current>> /\ ~OnTrial /\ ~OnTrial'
    BY <1>5 DEF SaveTruncates, SaveWrites, Render, RequestApply, Finish, Goto, OnTrial
  <2> QED
    BY <1>2, <1>5, <1>s, <2>1 DEF Step, ApplySteps
<1>6. CASE Record
  <2>1. gens' = Append(gens, job.built) /\ job.built \in Generations
    BY <1>6, <1>0 DEF Record, Jobs
  <2>2. Len(gens') = Len(gens) + 1
    BY <2>1, <1>0
  <2>3. SubSeq(gens', 1, Len(gens)) = gens
    <3> DEFINE s == SubSeq(gens', 1, Len(gens))
    <3>1. \A i \in 1 .. Len(gens) : gens'[i] = gens[i] /\ gens'[i] \in Generations
      BY <2>1, <1>0
    <3>2. /\ s \in Seq(Generations)
          /\ Len(s) = Len(gens)
          /\ \A i \in 1 .. Len(gens) : s[i] = gens'[i]
      <4>1. Len(gens) \in Nat /\ 1 \in Int /\ Len(gens) \in Int
        BY <1>0
      <4>2. /\ s \in Seq(Generations)
            /\ Len(s) = IF 1 <= Len(gens) THEN Len(gens) - 1 + 1 ELSE 0
            /\ \A i \in 1 .. Len(gens) - 1 + 1 : s[i] = gens'[1 + i - 1]
        BY <3>1, <4>1, SubSeqProperties
      <4> HIDE DEF s
      <4> QED
        BY <4>1, <4>2
    <3> HIDE DEF s
    <3>3. s = gens
      BY <3>1, <3>2, <1>0, SeqEqual
    <3> QED
      BY <3>3 DEF s
  <2>4. ~OnTrial /\ ~OnTrial' /\ current' = current
    BY <1>6 DEF Record, Goto, OnTrial
  <2>5. crashes' = crashes
    BY <1>6, <1>s DEF Step, ApplySteps
  <2>6. Releases!Record
    BY <2>2, <2>3, <2>4, <2>5 DEF Releases!Record, OnTrial
  <2> QED
    BY <2>6 DEF Releases!Next
<1>7. CASE BuildFails
  <2>1. UNCHANGED <<gens, current>> /\ ~OnTrial /\ ~OnTrial'
    BY <1>7, <1>0 DEF BuildFails, RestorePrevious, Finish, OnTrial, Jobs
  <2> QED
    BY <1>2, <1>7, <1>s, <2>1 DEF Step, ApplySteps
<1>8. CASE Switch
  <2>1. Releases!Try
    BY <1>8, <1>s DEF Switch, Goto, OnTrial, Releases!Try, Step, ApplySteps
  <2> QED
    BY <2>1 DEF Releases!Next
<1>9. CASE HealthPasses
  <2>1. Releases!Accept
    BY <1>9, <1>s DEF HealthPasses, Finish, OnTrial, Releases!Accept, Step, ApplySteps
  <2> QED
    BY <2>1 DEF Releases!Next
<1>10. CASE HealthFails
  <2>1. CASE job.prev = 0
    <3>1. Releases!Accept
      BY <1>10, <1>s, <2>1
      DEF HealthFails, RestorePrevious, Finish, OnTrial, Releases!Accept, Step, ApplySteps
    <3> QED
      BY <3>1 DEF Releases!Next
  <2>2. CASE job.prev # 0
    <3>1. /\ pc' = "rb_switch" /\ job'.prev = job.prev /\ job'.kind = job.kind
          /\ UNCHANGED <<gens, current>>
      BY <1>10, <2>2, <1>0 DEF HealthFails, RestorePrevious, Jobs
    <3>2. OnTrial /\ OnTrial'
      BY <1>10, <3>1, <1>0 DEF HealthFails, OnTrial
    <3> QED
      BY <1>10, <1>s, <3>1, <3>2, <1>1 DEF Fallback, Step, ApplySteps
  <2> QED
    BY <2>1, <2>2
<1>11. CASE RollbackSwitches
  <2>1. ~OnTrial' /\ UNCHANGED gens /\ current' = job.target /\ pc = "rb_switch"
           /\ crashes' = crashes
    BY <1>11, <1>s DEF RollbackSwitches, Goto, OnTrial, Step, RollbackSteps
  <2>2. CASE OnTrial
    <3>1. Releases!Revert
      BY <2>1, <2>2, <1>0 DEF OnTrial, Releases!Revert
    <3> QED
      BY <3>1 DEF Releases!Next
  <2>3. CASE ~OnTrial
    <3>1. job.target \in 1 .. Len(gens)
      BY <2>1, <1>0
    <3>2. Releases!Choose(job.target)
      BY <2>1, <2>3 DEF Releases!Choose, OnTrial
    <3> QED
      BY <3>1, <3>2 DEF Releases!Next
  <2> QED
    BY <2>2, <2>3
<1>12. CASE RollbackTruncates \/ RollbackWrites \/ RollbackWipes \/ RollbackCopies
  <2>1. UNCHANGED <<gens, current>> /\ ~OnTrial /\ ~OnTrial'
    BY <1>12 DEF RollbackTruncates, RollbackWrites, RollbackWipes, RollbackCopies, Finish,
                 Goto, OnTrial
  <2> QED
    BY <1>2, <1>12, <1>s, <2>1 DEF Step, RollbackSteps
<1>13. CASE Edit
  <2>1. UNCHANGED <<gens, current, pc, job>>
    BY <1>13, EditLeaves
  <2> QED
    BY <1>13, <1>s, <2>1, <1>1 DEF OnTrial, Fallback
<1>14. CASE Crash
  <2>1. ~OnTrial' /\ UNCHANGED <<gens, current>> /\ crashes' = crashes + 1
    BY <1>14 DEF Crash, Finish, OnTrial
  <2>2. Releases!Interrupt
    BY <2>1 DEF Releases!Interrupt
  <2> QED
    BY <2>2 DEF Releases!Next
<1> QED
  BY <1>3, <1>4, <1>5, <1>6, <1>7, <1>8, <1>9, <1>10, <1>11, <1>12, <1>13, <1>14
  DEF Next, Step, ApplySteps, RollbackSteps

(* The reconciler implements Releases: nothing goes live but the newest    *)
(* release on trial or what the operator chose, and a trial ends with a    *)
(* sound release, with exactly the one that was live before, or with the   *)
(* machine stopping.                                                       *)
THEOREM ImplementsReleases == Spec => ServesReleases
<1>1. TypeInv /\ TrialInv /\ [Next]_vars => [Releases!Next]_(Releases!vars)
  BY ReleasesStep
<1> QED
  BY TypeInit, TypeStep, TrialInit, TrialStep, ReleasesInit, <1>1, PTL
  DEF Spec, ServesReleases, Releases!Spec
-----------------------------------------------------------------------------
(***************************************************************************)
(* What an operation leaves behind, when no settings handler has written   *)
(* box.toml underneath it.  From Render on, the generation being built,    *)
(* recorded and tried is the one of box.toml and the staged trees as they  *)
(* are; a restore has the snapshot's config before it touches the trees.   *)
(* Crashes do no harm here: Render reads box.toml and the trees again.     *)
(***************************************************************************)
SettledInv ==
  edited = 0 =>
    /\ \A w \in Writers : edits[w].stage = "none"
    /\ pc = "build" => InStepWith(job.built, config, sources)
    /\ pc \in {"switch", "health"} => InStepWith(gens[Len(gens)], config, sources)
    /\ pc = "os_apply" /\ job.kind # "reapply"
         => InStepWith(gens[current], config, sources)
    /\ pc \in {"rb_wipe", "rb_copy"} => config = gens[current].config

(* Two configs agree on every service but svc. *)
OthersKept(cfg, old, svc) ==
  \A s \in Services \ {svc} : cfg.services[s] = old.services[s]

(***************************************************************************)
(* Without crashes and unlocked saves box.toml is the served config until  *)
(* an operation saves its own, and what it saves, builds and serves        *)
(* differs from what was served in the service it is about, and no other.  *)
(***************************************************************************)
QuietInv ==
  Undisturbed =>
    /\ pc \in {"idle", "materialize", "load", "save", "os_apply"} /\ current # 0
         => config = gens[current].config
    /\ pc \in {"save", "write"} /\ current # 0
         => OthersKept(job.cfg, gens[current].config, job.svc)
    /\ pc \in {"forget", "render", "build"} /\ current # 0
         => OthersKept(config, gens[current].config, job.svc)
    /\ pc \in {"switch", "health"} /\ job.prev # 0
         => OthersKept(gens[Len(gens)].config, gens[job.prev].config, job.svc)
    /\ pc = "os_apply" /\ job.prev # 0
         => OthersKept(gens[current].config, gens[job.prev].config, job.svc)
LEMMA SettledInit == Init => SettledInv
  BY DEF Init, SettledInv, NoEdit

(* While none has saved, no settings handler is about to.                  *)
LEMMA NobodyEdits ==
  ASSUME TypeInv, SettledInv, [Next]_vars, edited' = 0
  PROVE  /\ edited = 0
         /\ ~Edit
         /\ \A w \in Writers : edits'[w].stage = "none"
<1>0. edited \in Nat /\ crashes \in Nat
  BY DEF TypeInv, TypeOK
<1>1. CASE Edit
  <2>1. ASSUME NEW w \in Writers, NEW v \in Settings, EditLoads(w, v) PROVE FALSE
    BY <2>1, <1>0 DEF EditLoads
  <2>2. ASSUME NEW w \in Writers, EditTruncates(w) \/ EditWrites(w) PROVE FALSE
    BY <2>2 DEF EditTruncates, EditWrites, SettledInv
  <2> QED
    BY <1>1, <2>1, <2>2 DEF Edit
<1>2. CASE Crash
  BY <1>2, <1>1 DEF Crash, NoEdit, SettledInv
<1>3. CASE UNCHANGED vars \/ Request
  BY <1>3, <1>1 DEF vars, SettledInv, Request, BeginDeploy, BeginDelete, BeginRollback,
                    BeginReapply, Begin
<1>4. CASE DeploySteps \/ DeleteSteps
  BY <1>4, <1>1 DEF DeploySteps, DeleteSteps, Materialize, MaterializeFails, LoadAndMerge,
                    Refuse, LoadAndRemove, NoSuchService, Forget, SettledInv
<1>5. CASE ApplySteps
  BY <1>5, <1>1 DEF ApplySteps, SaveTruncates, SaveWrites, Render, Record, BuildFails, Switch,
                    HealthPasses, HealthFails, RequestApply, SettledInv
<1>6. CASE RollbackSteps
  BY <1>6, <1>1 DEF RollbackSteps, RollbackSwitches, RollbackTruncates, RollbackWrites,
                    RollbackWipes, RollbackCopies, SettledInv
<1> QED
  BY <1>1, <1>2, <1>3, <1>4, <1>5, <1>6 DEF Next, Step

(* What is rendered is box.toml and the trees as they are. *)
LEMMA RenderedInStep ==
  ASSUME NEW cfg, NEW src PROVE InStepWith(Rendered(cfg, src), cfg, src)
  BY DEF InStepWith, Rendered

(* The newest generation, once it is recorded. *)
LEMMA Recorded ==
  ASSUME TypeInv, Record
  PROVE  /\ gens'[Len(gens')] = job.built
         /\ Len(gens') = Len(gens) + 1
         /\ \A n \in 1 .. Len(gens) : gens'[n] = gens[n]
         /\ pc = "build" /\ pc' = "switch"
         /\ UNCHANGED <<config, sources, current, crashes, edited>>
         /\ job'.prev = job.prev /\ job'.svc = job.svc /\ job'.kind = job.kind
<1>1. gens \in Seq(Generations) /\ gens' = Append(gens, job.built) /\ job \in Jobs
  BY DEF Record, TypeInv, TypeOK
<1>2. Len(gens') = Len(gens) + 1 /\ Len(gens) \in Nat
  BY <1>1 DEF Jobs
<1>3. gens'[Len(gens')] = job.built /\ \A n \in 1 .. Len(gens) : gens'[n] = gens[n]
  BY <1>1, <1>2
<1>4. job'.prev = job.prev /\ job'.svc = job.svc /\ job'.kind = job.kind
  BY <1>1 DEF Record, Jobs
<1> QED
  BY <1>2, <1>3, <1>4 DEF Record, Goto

LEMMA SettledStep == TypeInv /\ TrialInv /\ SettledInv /\ [Next]_vars => SettledInv'
<1> SUFFICES ASSUME TypeInv, TrialInv, SettledInv, [Next]_vars, edited' = 0
             PROVE  SettledInv'
  BY DEF SettledInv
<1>0. /\ edited = 0 /\ ~Edit
      /\ \A w \in Writers : edits'[w].stage = "none"
  BY NobodyEdits
<1>a. /\ pc = "build" => InStepWith(job.built, config, sources)
      /\ pc \in {"switch", "health"} => InStepWith(gens[Len(gens)], config, sources)
      /\ pc = "os_apply" /\ job.kind # "reapply" => InStepWith(gens[current], config, sources)
      /\ pc \in {"rb_wipe", "rb_copy"} => config = gens[current].config
  BY <1>0 DEF SettledInv
<1> SUFFICES /\ pc' = "build" => InStepWith(job'.built, config', sources')
             /\ pc' \in {"switch", "health"}
                  => InStepWith(gens'[Len(gens')], config', sources')
             /\ pc' = "os_apply" /\ job'.kind # "reapply"
                  => InStepWith(gens'[current'], config', sources')
             /\ pc' \in {"rb_wipe", "rb_copy"} => config' = gens'[current'].config
  BY <1>0 DEF SettledInv, InStepWith
<1>1. CASE UNCHANGED vars
  BY <1>1, <1>a DEF vars
<1>2. CASE pc' \notin {"build", "switch", "health", "os_apply", "rb_wipe", "rb_copy"}
  BY <1>2
<1>3. CASE Request
  BY <1>3, <1>2, NoJobFields
  DEF Request, BeginDeploy, BeginDelete, BeginRollback, BeginReapply, Begin, NoJob
<1>4. CASE DeploySteps \/ DeleteSteps
  BY <1>4, <1>2 DEF DeploySteps, DeleteSteps, Materialize, MaterializeFails, LoadAndMerge,
                    Refuse, LoadAndRemove, NoSuchService, Forget, Goto, Finish
<1>5. CASE SaveTruncates \/ SaveWrites \/ RequestApply
  BY <1>5, <1>2 DEF SaveTruncates, SaveWrites, RequestApply, Goto, Finish
<1>6. CASE Render
  <2>1. job'.built = Rendered(config, sources) /\ pc' = "build" /\ UNCHANGED <<config, sources>>
    BY <1>6 DEF Render, Goto, TypeInv, TypeOK, Jobs
  <2>2. InStepWith(job'.built, config', sources')
    BY <2>1, RenderedInStep
  <2> QED
    BY <2>1, <2>2
<1>7. CASE Record
  <2>1. InStepWith(gens'[Len(gens')], config', sources') /\ pc' = "switch"
    BY <1>7, <1>a, Recorded
  <2> QED
    BY <2>1
<1>8. CASE BuildFails \/ HealthFails
  BY <1>8, <1>2 DEF BuildFails, HealthFails, RestorePrevious, Finish
<1>9. CASE Switch
  BY <1>9, <1>a DEF Switch, Goto
<1>10. CASE HealthPasses
  <2>1. InStepWith(gens[current], config, sources)
        /\ UNCHANGED <<gens, config, sources, current>>
    BY <1>10, <1>a DEF HealthPasses, TrialInv
  <2>2. pc' = "idle" \/ pc' = "os_apply"
    BY <1>10 DEF HealthPasses, Finish
  <2> QED
    BY <2>1, <2>2
<1>11. CASE RollbackSwitches \/ RollbackTruncates
  BY <1>11, <1>2 DEF RollbackSwitches, RollbackTruncates, Goto
<1>12. CASE RollbackWrites
  BY <1>12 DEF RollbackWrites, Goto
<1>13. CASE RollbackWipes
  BY <1>13, <1>a DEF RollbackWipes, Goto
<1>14. CASE RollbackCopies \/ Crash
  BY <1>14, <1>2 DEF RollbackCopies, Crash, Finish
<1> QED
  BY <1>0, <1>1, <1>3, <1>4, <1>5, <1>6, <1>7, <1>8, <1>9, <1>10, <1>11, <1>12, <1>13, <1>14
  DEF Next, Step, ApplySteps, RollbackSteps

(* An operation that got as far as the profile returns with box.toml and   *)
(* the staged trees those of the generation that is served.                *)
LEMMA ReturnsSettled ==
  ASSUME TypeInv, TrialInv, SettledInv, [Next]_vars, Returns,
         pc \in {"health", "os_apply", "rb_copy"}, job.kind # "reapply", edited' = 0
  PROVE  InStepWith(gens'[current'], config', sources')
<1>0. edited = 0 /\ Next /\ ~Edit
  BY NobodyEdits DEF Returns, vars
<1>1. CASE pc = "health"
  <2>1. HealthPasses \/ HealthFails \/ Crash
    BY <1>0, <1>1
    DEF Next, Step, DeploySteps, DeleteSteps, ApplySteps, RollbackSteps, Request, Returns,
        Materialize, MaterializeFails, LoadAndMerge, Refuse, LoadAndRemove, NoSuchService, Forget,
        SaveTruncates, SaveWrites, Render, Record, BuildFails, Switch, RequestApply,
        RollbackSwitches, RollbackTruncates, RollbackWrites, RollbackWipes, RollbackCopies,
        BeginDeploy, BeginDelete, BeginRollback, BeginReapply, Begin, Goto
  <2>2. UNCHANGED <<config, sources, gens, current>>
    BY <2>1 DEF HealthPasses, HealthFails, Crash
  <2> QED
    BY <1>0, <1>1, <2>2 DEF SettledInv, TrialInv
<1>2. CASE pc = "os_apply"
  <2>1. RequestApply \/ Crash
    BY <1>0, <1>2
    DEF Next, Step, DeploySteps, DeleteSteps, ApplySteps, RollbackSteps, Request, Returns,
        Materialize, MaterializeFails, LoadAndMerge, Refuse, LoadAndRemove, NoSuchService, Forget,
        SaveTruncates, SaveWrites, Render, Record, BuildFails, Switch, HealthPasses, HealthFails,
        RollbackSwitches, RollbackTruncates, RollbackWrites, RollbackWipes, RollbackCopies,
        BeginDeploy, BeginDelete, BeginRollback, BeginReapply, Begin, Goto
  <2>2. UNCHANGED <<config, sources, gens, current>>
    BY <2>1 DEF RequestApply, Crash
  <2> QED
    BY <1>0, <1>2, <2>2 DEF SettledInv
<1>3. CASE pc = "rb_copy"
  <2>1. RollbackCopies \/ Crash
    BY <1>0, <1>3
    DEF Next, Step, DeploySteps, DeleteSteps, ApplySteps, RollbackSteps, Request, Returns,
        Materialize, MaterializeFails, LoadAndMerge, Refuse, LoadAndRemove, NoSuchService, Forget,
        SaveTruncates, SaveWrites, Render, Record, BuildFails, Switch, HealthPasses, HealthFails,
        RollbackSwitches, RollbackTruncates, RollbackWrites, RollbackWipes, RequestApply,
        BeginDeploy, BeginDelete, BeginRollback, BeginReapply, Begin, Goto
  <2>2. ~Crash
    BY DEF Crash, Returns, TypeInv, TypeOK
  <2>3. sources' = gens[current].www /\ UNCHANGED <<config, gens, current>>
    BY <2>1, <2>2 DEF RollbackCopies
  <2> QED
    BY <1>0, <1>3, <2>3 DEF SettledInv, InStepWith
<1> QED
  BY <1>1, <1>2, <1>3

(* Every operation that reached the profile, the deploy that went through, *)
(* the one that was taken back and the operator's rollback, returns with   *)
(* box.toml and the staged trees in step with the served generation.       *)
THEOREM EndsInStep == Spec => OperationsSettle
<1>1. TypeInv /\ TrialInv /\ SettledInv /\ [Next]_vars
        => [ Returns /\ pc \in {"health", "os_apply", "rb_copy"} /\ job.kind # "reapply"
             /\ edited' = 0
               => InStepWith(gens'[current'], config', sources') ]_vars
  BY ReturnsSettled
<1> QED
  BY TypeInit, TypeStep, TrialInit, TrialStep, SettledInit, SettledStep, <1>1, PTL
  DEF Spec, OperationsSettle
-----------------------------------------------------------------------------
LEMMA QuietInit == Init => QuietInv
  BY DEF Init, QuietInv

(* What a deploy or a delete is about to save differs from the config it   *)
(* loaded in its own service alone.                                        *)
LEMMA MergeKeepsOthers ==
  ASSUME NEW cfg \in Configs, NEW svc, NEW e
  PROVE  OthersKept([cfg EXCEPT !.services[svc] = e], cfg, svc)
  BY DEF OthersKept, Configs

LEMMA QuietStep ==
  TypeInv /\ TrialInv /\ SettledInv /\ QuietInv /\ [Next]_vars => QuietInv'
<1> SUFFICES ASSUME TypeInv, TrialInv, SettledInv, QuietInv, [Next]_vars,
                    crashes' = 0, edited' = 0
             PROVE  QuietInv'
  BY DEF QuietInv, Undisturbed
<1>t. /\ config \in Configs /\ job \in Jobs /\ gens \in Seq(Generations)
      /\ current \in 0 .. Len(gens) /\ job.prev \in 0 .. Len(gens) /\ crashes \in Nat
  BY DEF TypeInv, TypeOK, JobOK
<1>c. ~Crash
  BY <1>t DEF Crash
<1>0. edited = 0 /\ ~Edit /\ crashes = 0
  <2>1. edited = 0 /\ ~Edit
    BY NobodyEdits
  <2>2. crashes' = crashes
    BY <1>c, OnlyCrashesStop DEF Next, vars
  <2> QED
    BY <2>1, <2>2
<1>q. /\ pc \in {"idle", "materialize", "load", "save", "os_apply"} /\ current # 0
           => config = gens[current].config
      /\ pc \in {"save", "write"} /\ current # 0
           => OthersKept(job.cfg, gens[current].config, job.svc)
      /\ pc \in {"forget", "render", "build"} /\ current # 0
           => OthersKept(config, gens[current].config, job.svc)
      /\ pc \in {"switch", "health"} /\ job.prev # 0
           => OthersKept(gens[Len(gens)].config, gens[job.prev].config, job.svc)
      /\ pc = "os_apply" /\ job.prev # 0
           => OthersKept(gens[current].config, gens[job.prev].config, job.svc)
  BY <1>0 DEF QuietInv, Undisturbed
<1>s. /\ pc = "build" => InStepWith(job.built, config, sources)
      /\ pc \in {"switch", "health"} => InStepWith(gens[Len(gens)], config, sources)
      /\ pc = "os_apply" /\ job.kind # "reapply" => InStepWith(gens[current], config, sources)
      /\ pc \in {"rb_wipe", "rb_copy"} => config = gens[current].config
  BY <1>0 DEF SettledInv
<1> SUFFICES
      /\ pc' \in {"idle", "materialize", "load", "save", "os_apply"} /\ current' # 0
           => config' = gens'[current'].config
      /\ pc' \in {"save", "write"} /\ current' # 0
           => OthersKept(job'.cfg, gens'[current'].config, job'.svc)
      /\ pc' \in {"forget", "render", "build"} /\ current' # 0
           => OthersKept(config', gens'[current'].config, job'.svc)
      /\ pc' \in {"switch", "health"} /\ job'.prev # 0
           => OthersKept(gens'[Len(gens')].config, gens'[job'.prev].config, job'.svc)
      /\ pc' = "os_apply" /\ job'.prev # 0
           => OthersKept(gens'[current'].config, gens'[job'.prev].config, job'.svc)
  BY DEF QuietInv, OthersKept
<1>1. CASE UNCHANGED vars
  BY <1>1, <1>q DEF vars
<1>2. CASE Request
  BY <1>2, <1>q, NoJobFields
  DEF Request, BeginDeploy, BeginDelete, BeginRollback, BeginReapply, Begin, NoJob
<1>3. CASE Materialize \/ MaterializeFails \/ Refuse \/ NoSuchService
  BY <1>3, <1>q DEF Materialize, MaterializeFails, Refuse, NoSuchService, Goto, Finish
<1>4. CASE LoadAndMerge
  <2> DEFINE e == [version |-> job.version, domain |-> MergedDomain(config, job)]
  <2>1. job'.cfg = [config EXCEPT !.services[job.svc] = e] /\ job'.svc = job.svc
    BY <1>4, <1>t DEF LoadAndMerge, Jobs
  <2>2. pc = "load" /\ pc' = "save" /\ UNCHANGED <<config, gens, current>>
    BY <1>4 DEF LoadAndMerge, Goto
  <2> HIDE DEF e
  <2>3. OthersKept([config EXCEPT !.services[job.svc] = e], config, job.svc)
    BY <1>t, MergeKeepsOthers
  <2> QED
    BY <2>1, <2>2, <2>3, <1>q
<1>5. CASE LoadAndRemove
  <2>1. job'.cfg = [config EXCEPT !.services[job.svc] = Absent] /\ job'.svc = job.svc
    BY <1>5, <1>t DEF LoadAndRemove, Jobs
  <2>2. pc = "load" /\ pc' = "save" /\ UNCHANGED <<config, gens, current>>
    BY <1>5 DEF LoadAndRemove, Goto
  <2>3. OthersKept([config EXCEPT !.services[job.svc] = Absent], config, job.svc)
    BY <1>t, MergeKeepsOthers
  <2> QED
    BY <2>1, <2>2, <2>3, <1>q
<1>6. CASE SaveTruncates
  BY <1>6, <1>q DEF SaveTruncates, Goto
<1>7. CASE SaveWrites
  <2>1. job'.svc = job.svc /\ config' = job.cfg /\ pc = "write"
        /\ pc' \in {"forget", "render"} /\ UNCHANGED <<gens, current>>
    BY <1>7, <1>t DEF SaveWrites, Goto, Jobs
  <2> QED
    BY <2>1, <1>q
<1>8. CASE Forget
  BY <1>8, <1>q DEF Forget, Goto
<1>9. CASE Render
  <2>1. job'.svc = job.svc /\ pc = "render" /\ pc' = "build" /\ UNCHANGED <<config, gens, current>>
    BY <1>9, <1>t DEF Render, Goto, Jobs
  <2> QED
    BY <2>1, <1>q
<1>10. CASE Record
  <2>1. /\ gens'[Len(gens')] = job.built /\ pc = "build" /\ pc' = "switch"
        /\ \A n \in 1 .. Len(gens) : gens'[n] = gens[n]
        /\ job'.prev = job.prev /\ job'.svc = job.svc
    BY <1>10, Recorded
  <2>2. job.built.config = config /\ job.prev = current
    BY <2>1, <1>s DEF InStepWith, TrialInv
  <2>3. ASSUME job'.prev # 0
        PROVE  OthersKept(gens'[Len(gens')].config, gens'[job'.prev].config, job'.svc)
    <3>1. job.prev \in 1 .. Len(gens) /\ current # 0
      BY <2>1, <2>2, <2>3, <1>t
    <3>2. gens'[job'.prev] = gens[current]
      BY <2>1, <2>2, <3>1
    <3>3. OthersKept(config, gens[current].config, job.svc)
      BY <2>1, <3>1, <1>q
    <3> QED
      BY <2>1, <2>2, <3>2, <3>3
  <2> QED
    BY <2>1, <2>3
<1>11. CASE BuildFails
  <2>1. /\ pc = "build" /\ job.prev = current /\ UNCHANGED <<config, gens, current>>
        /\ \/ pc' = "rb_switch"
           \/ pc' = "idle" /\ job.prev = 0
    BY <1>11 DEF BuildFails, RestorePrevious, Finish, TrialInv
  <2> QED
    BY <2>1
<1>12. CASE Switch
  BY <1>12, <1>q DEF Switch, Goto
<1>13. CASE HealthPasses
  <2>1. /\ pc = "health" /\ current = Len(gens) /\ UNCHANGED <<config, gens, current>>
        /\ \/ pc' = "idle"
           \/ pc' = "os_apply" /\ job' = job
    BY <1>13 DEF HealthPasses, Finish, TrialInv
  <2>2. config = gens[current].config
    BY <2>1, <1>s DEF InStepWith
  <2> QED
    BY <2>1, <2>2, <1>q
<1>14. CASE HealthFails
  <2>1. /\ pc = "health" /\ current = Len(gens) /\ UNCHANGED <<config, gens, current>>
        /\ pc' = "idle" \/ pc' = "rb_switch"
    BY <1>14 DEF HealthFails, RestorePrevious, Finish, TrialInv
  <2>2. config = gens[current].config
    BY <2>1, <1>s DEF InStepWith
  <2> QED
    BY <2>1, <2>2
<1>15. CASE RequestApply
  BY <1>15, <1>q DEF RequestApply, Finish
<1>16. CASE RollbackSwitches \/ RollbackTruncates \/ RollbackWrites \/ RollbackWipes
  BY <1>16 DEF RollbackSwitches, RollbackTruncates, RollbackWrites, RollbackWipes, Goto
<1>17. CASE RollbackCopies
  BY <1>17, <1>s DEF RollbackCopies, Finish
<1> QED
  BY <1>c, <1>0, <1>1, <1>2, <1>3, <1>4, <1>5, <1>6, <1>7, <1>8, <1>9, <1>10, <1>11, <1>12,
     <1>13, <1>14, <1>15, <1>16, <1>17
  DEF Next, Step, DeploySteps, DeleteSteps, ApplySteps, RollbackSteps

(* Without crashes and unlocked saves, box.toml between two operations is  *)
(* the config of the served generation: whatever was refused, failed to    *)
(* build or was taken back.                                                *)
THEOREM NothingLeftDeclared == Spec => []DeclaredIsServed
<1>1. QuietInv => DeclaredIsServed
  BY DEF QuietInv, DeclaredIsServed
<1> QED
  BY TypeInit, TypeStep, TrialInit, TrialStep, SettledInit, SettledStep, QuietInit, QuietStep,
     <1>1, PTL DEF Spec

(* What returns has served is its own generation or the one it found.      *)
LEMMA ReturnsKeepOthers ==
  ASSUME TypeInv, TrialInv, SettledInv, QuietInv, [Next]_vars,
         Undisturbed', Returns, job.kind \in {"deploy", "delete"}, job.prev # 0
  PROVE  NamedServiceOnly
<1>1. Next /\ edited = 0 /\ crashes = 0
  BY NobodyEdits DEF Returns, vars, Undisturbed
<1>2. UNCHANGED <<gens, current>>
  BY <1>1, ReturningSteps DEF Returns
<1>3. pc \in {"build", "health", "os_apply", "rb_copy"}
  BY <1>1, ReturningSteps DEF Returns, TrialInv
<1>4. CASE pc \in {"build", "rb_copy"}
  BY <1>2, <1>4 DEF TrialInv, RestorePlaces, NamedServiceOnly
<1>5. CASE pc \in {"health", "os_apply"}
  BY <1>1, <1>2, <1>5
  DEF TrialInv, QuietInv, Undisturbed, OthersKept, NamedServiceOnly
<1> QED
  BY <1>3, <1>4, <1>5

(* Without crashes and unlocked saves, a deploy or delete that returns has *)
(* changed nothing else in what is served, also after requests that were   *)
(* refused or failed after their config had been saved.                    *)
THEOREM OthersAreKept == Spec => OnlyTheNamedServiceChanges
<1>1. TypeInv /\ TrialInv /\ SettledInv /\ QuietInv /\ [Next]_vars
        => [ Undisturbed' /\ Returns /\ job.kind \in {"deploy", "delete"} /\ job.prev # 0
               => NamedServiceOnly ]_vars
  BY ReturnsKeepOthers
<1> QED
  BY TypeInit, TypeStep, TrialInit, TrialStep, SettledInit, SettledStep, QuietInit, QuietStep,
     <1>1, PTL DEF Spec, OnlyTheNamedServiceChanges
=============================================================================
