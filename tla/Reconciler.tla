----------------------------- MODULE Reconciler -----------------------------
(***************************************************************************)
(* The reconciler of boxd: box.toml (the desired state), the staged source *)
(* trees, the numbered generations under profiles/ and the `box` link that *)
(* selects the one being served.                                           *)
(*                                                                         *)
(* Every deploy, delete, rollback and system re-apply of the daemon runs   *)
(* under AppState.apply_lock and carries no state read before the lock was *)
(* taken, so at most one operation is in flight: pc says where it is and   *)
(* job holds its locals.  A step is one durable effect (a file write, a    *)
(* link, a rename), so a crash can fall between any two of them.  The      *)
(* settings pages rewrite box.toml WITHOUT the lock: they are the Writers. *)
(*                                                                         *)
(* A service is a file tree (the static-site template).  Its parameters    *)
(* and its staged tree are one abstract version; a version without an      *)
(* index.html is in Unhealthy.                                             *)
(***************************************************************************)
EXTENDS Naturals, Sequences

CONSTANTS
  Services,    \* service names
  Versions,    \* contents a deploy may ask for
  Unhealthy,   \* the versions the template's health check refuses
  Domains,     \* host names a service may be given
  Settings,    \* values of everything in box.toml that is not a service
  Writers,     \* settings handlers, which save box.toml without the lock
  HasOsTier,   \* is this machine a Box (apply unit installed)?
  Absent,      \* "no such service"
  NoDomain,    \* a service without a domain; asked for, it clears one
  Keep,        \* the request omits the domain
  NoTree,      \* no staged directory for the service
  EmptyTree,   \* a staged directory with nothing in it
  MaxGens,     \* bound: generations built
  MaxDisturbances  \* bound: crashes, and saves begun by the settings handlers

Trees   == Versions \cup {NoTree, EmptyTree}
Entries == [version : Versions, domain : Domains \cup {NoDomain}]

(* 0 is what a missing or empty box.toml parses to. *)
Configs == [services : [Services -> Entries \cup {Absent}], setting : Settings]

ASSUME ReconcilerAssumption ==
  /\ Unhealthy \subseteq Versions
  /\ NoTree \notin Versions /\ EmptyTree \notin Versions
  /\ Absent \notin Entries
  /\ NoDomain \notin Domains /\ Keep \notin Domains \cup {NoDomain}
  /\ 0 \in Settings
  /\ HasOsTier \in BOOLEAN
  /\ MaxGens \in Nat /\ MaxDisturbances \in Nat

VARIABLES
  config,   \* what box.toml parses to
  sources,  \* <data>/sources/<service>
  gens,     \* generation n is gens[n]: its manifest's config and its trees
  current,  \* the generation the profile link selects, 0 when there is none
  pending,  \* the os-apply-pending marker exists
  pc, job,  \* the operation under the lock
  edits,    \* the config each settings handler has loaded and changed
  crashes, edited  \* how often each has happened

vars == <<config, sources, gens, current, pending, pc, job, edits, crashes, edited>>

DefaultConfig == [services |-> [s \in Services |-> Absent], setting |-> 0]

Generations == [config : Configs, www : [Services -> Trees]]

(***************************************************************************)
(* What write_gensrc puts into a generation: the config, and the staged    *)
(* tree of every service the config declares.                              *)
(***************************************************************************)
Rendered(cfg, src) ==
  [config |-> cfg,
   www    |-> [s \in Services |->
                 IF cfg.services[s] = Absent THEN NoTree ELSE src[s]]]

(* default_health: every declared site has an index.html in the output. *)
Healthy(gen) ==
  \A s \in Services : gen.config.services[s] # Absent
                        => gen.www[s] \in Versions \ Unhealthy

(***************************************************************************)
(* The locals of an operation.  `prev` is what apply_checked read from the *)
(* profile, `target` the generation a restore goes back to.  A local is    *)
(* reset once nothing reads it any more.                                   *)
(***************************************************************************)
NoGeneration == Rendered(DefaultConfig, [s \in Services |-> NoTree])

NoJob == [kind |-> "none", svc |-> Absent, version |-> NoTree, domain |-> Keep,
          structural |-> FALSE, cfg |-> DefaultConfig, built |-> NoGeneration,
          prev |-> 0, target |-> 0]

Begin(kind, at, j) ==
  /\ pc = "idle"
  /\ job' = [j EXCEPT !.kind = kind]
  /\ pc'  = at
  /\ UNCHANGED <<config, sources, gens, current, pending, edits, crashes, edited>>

(* The handler returns and its guard drops. *)
Finish == pc' = "idle" /\ job' = NoJob

Goto(from, to) == pc = from /\ pc' = to

-----------------------------------------------------------------------------
(***************************************************************************)
(* deploy, up to the saved config                                          *)
(***************************************************************************)
BeginDeploy(s, v, d) ==
  /\ Len(gens) < MaxGens
  /\ Begin("deploy", "materialize",
           [NoJob EXCEPT !.svc = s, !.version = v, !.domain = d])

(* The staged tree is replaced before the request has been accepted. *)
Materialize ==
  /\ Goto("materialize", "load")
  /\ sources' = [sources EXCEPT ![job.svc] = job.version]
  /\ UNCHANGED <<config, gens, current, pending, job, edits, crashes, edited>>

(* A source_path that does not resolve: the old tree is already wiped. *)
MaterializeFails ==
  /\ pc = "materialize"
  /\ sources' = [sources EXCEPT ![job.svc] = EmptyTree]
  /\ Finish
  /\ UNCHANGED <<config, gens, current, pending, edits, crashes, edited>>

(* The domain the service ends up with: an omitted one is kept. *)
MergedDomain(cfg, j) ==
  IF j.domain # Keep THEN j.domain
  ELSE IF cfg.services[j.svc] = Absent THEN NoDomain
  ELSE cfg.services[j.svc].domain

DomainTaken(cfg, j) ==
  /\ j.domain \in Domains
  /\ \E t \in Services \ {j.svc} : /\ cfg.services[t] # Absent
                                   /\ cfg.services[t].domain = j.domain

(* classify_deploy: a new service or a changed domain changes the system;  *)
(* the pages of a static site do not.                                      *)
Structural(cfg, j) ==
  \/ cfg.services[j.svc] = Absent
  \/ j.domain # Keep /\ cfg.services[j.svc].domain # j.domain

LoadAndMerge ==
  /\ Goto("load", "save")
  /\ job.kind = "deploy"
  /\ ~DomainTaken(config, job)
  /\ job' = [job EXCEPT
       !.structural = Structural(config, job),
       !.cfg = [config EXCEPT !.services[job.svc] =
                  [version |-> job.version, domain |-> MergedDomain(config, job)]]]
  /\ UNCHANGED <<config, sources, gens, current, pending, edits, crashes, edited>>

(* A malformed or taken domain, an encryption or a port error: the request *)
(* is refused, and what Materialize did stays.                             *)
Refuse ==
  /\ pc = "load"
  /\ job.kind = "deploy"
  /\ Finish
  /\ UNCHANGED <<config, sources, gens, current, pending, edits, crashes, edited>>

-----------------------------------------------------------------------------
(***************************************************************************)
(* delete_service, up to the saved config                                  *)
(***************************************************************************)
BeginDelete(s) ==
  /\ Len(gens) < MaxGens
  /\ Begin("delete", "load", [NoJob EXCEPT !.svc = s])

LoadAndRemove ==
  /\ Goto("load", "save")
  /\ job.kind = "delete"
  /\ config.services[job.svc] # Absent
  /\ job' = [job EXCEPT !.cfg = [config EXCEPT !.services[job.svc] = Absent]]
  /\ UNCHANGED <<config, sources, gens, current, pending, edits, crashes, edited>>

NoSuchService ==
  /\ pc = "load"
  /\ job.kind = "delete"
  /\ config.services[job.svc] = Absent
  /\ Finish
  /\ UNCHANGED <<config, sources, gens, current, pending, edits, crashes, edited>>

(***************************************************************************)
(* BoxConfig::save is fs::write: the file is truncated, then filled.  An   *)
(* empty box.toml parses to the default config.                            *)
(***************************************************************************)
SaveTruncates ==
  /\ Goto("save", "write")
  /\ config' = DefaultConfig
  /\ UNCHANGED <<sources, gens, current, pending, job, edits, crashes, edited>>

SaveWrites ==
  /\ Goto("write", IF job.kind = "delete" THEN "forget" ELSE "render")
  /\ config' = job.cfg
  /\ job' = [job EXCEPT !.version = NoTree, !.domain = Keep, !.cfg = DefaultConfig]
  /\ UNCHANGED <<sources, gens, current, pending, edits, crashes, edited>>

Forget ==
  /\ Goto("forget", "render")
  /\ sources' = [sources EXCEPT ![job.svc] = NoTree]
  /\ UNCHANGED <<config, gens, current, pending, job, edits, crashes, edited>>

-----------------------------------------------------------------------------
(***************************************************************************)
(* apply_checked                                                           *)
(***************************************************************************)
(* store::current, then BoxConfig::load AGAIN, then write_gensrc. *)
Render ==
  /\ Goto("render", "build")
  /\ job' = [job EXCEPT !.prev = current, !.built = Rendered(config, sources)]
  /\ UNCHANGED <<config, sources, gens, current, pending, edits, crashes, edited>>

(* The build succeeds and the next numbered link is created. *)
Record ==
  /\ Goto("build", "switch")
  /\ gens' = Append(gens, job.built)
  /\ job' = [job EXCEPT !.built = NoGeneration]
  /\ UNCHANGED <<config, sources, current, pending, edits, crashes, edited>>

(* Back to the previous generation when there is one; otherwise give up. *)
RestorePrevious ==
  \/ /\ job.prev # 0
     /\ pc' = "rb_switch"
     /\ job' = [job EXCEPT !.target = job.prev]
  \/ /\ job.prev = 0
     /\ Finish

(* Mutant: the build error is returned as it is. *)
BuildErrorReturned ==
  /\ pc = "build"
  /\ Finish
  /\ UNCHANGED <<config, sources, gens, current, pending, edits, crashes, edited>>

BuildFails ==
  /\ pc = "build"
  /\ RestorePrevious
  /\ UNCHANGED <<config, sources, gens, current, pending, edits, crashes, edited>>

(* Mutant: the number is computed again once its link exists. *)
SwitchToNextNumber ==
  /\ Goto("switch", "health")
  /\ current' = Len(gens) + 1
  /\ UNCHANGED <<config, sources, gens, pending, job, edits, crashes, edited>>

(* store::switch: a rename, so the link moves in one step. *)
Switch ==
  /\ Goto("switch", "health")
  /\ current' = Len(gens)
  /\ UNCHANGED <<config, sources, gens, pending, job, edits, crashes, edited>>

HealthPasses ==
  /\ pc = "health"
  /\ Healthy(gens[current])
  /\ IF job.kind = "delete" \/ job.structural
     THEN pc' = "os_apply" /\ UNCHANGED job
     ELSE Finish
  /\ UNCHANGED <<config, sources, gens, current, pending, edits, crashes, edited>>

(* Mutant: the health error is reported and the generation kept. *)
HealthErrorReported ==
  /\ pc = "health"
  /\ ~Healthy(gens[current])
  /\ Finish
  /\ UNCHANGED <<config, sources, gens, current, pending, edits, crashes, edited>>

HealthFails ==
  /\ pc = "health"
  /\ ~Healthy(gens[current])
  /\ RestorePrevious
  /\ UNCHANGED <<config, sources, gens, current, pending, edits, crashes, edited>>

(* request_apply: Applied clears the marker, NotABox and Failed set it. *)
RequestApply ==
  /\ pc = "os_apply"
  /\ pending' \in IF HasOsTier THEN BOOLEAN ELSE {TRUE}
  /\ Finish
  /\ UNCHANGED <<config, sources, gens, current, edits, crashes, edited>>

(* The console's "make the system match the config". *)
BeginReapply == Begin("reapply", "os_apply", NoJob)

-----------------------------------------------------------------------------
(***************************************************************************)
(* rollback: asked for by the operator, or by apply_checked                *)
(***************************************************************************)
BeginRollback(n) ==
  Begin("rollback", "rb_switch", [NoJob EXCEPT !.target = n])

RollbackSwitches ==
  /\ Goto("rb_switch", "rb_save")
  /\ current' = job.target
  /\ UNCHANGED <<config, sources, gens, pending, job, edits, crashes, edited>>

RollbackTruncates ==
  /\ Goto("rb_save", "rb_write")
  /\ config' = DefaultConfig
  /\ UNCHANGED <<sources, gens, current, pending, job, edits, crashes, edited>>

RollbackWrites ==
  /\ Goto("rb_write", "rb_wipe")
  /\ config' = gens[current].config
  /\ UNCHANGED <<sources, gens, current, pending, job, edits, crashes, edited>>

RollbackWipes ==
  /\ Goto("rb_wipe", "rb_copy")
  /\ sources' = [s \in Services |-> NoTree]
  /\ UNCHANGED <<config, gens, current, pending, job, edits, crashes, edited>>

(* Mutant: the trees of the restored generation are not copied back. *)
RollbackLeavesWiped ==
  /\ pc = "rb_copy"
  /\ Finish
  /\ UNCHANGED <<config, sources, gens, current, pending, edits, crashes, edited>>

RollbackCopies ==
  /\ pc = "rb_copy"
  /\ sources' = gens[current].www
  /\ Finish
  /\ UNCHANGED <<config, gens, current, pending, edits, crashes, edited>>

-----------------------------------------------------------------------------
(***************************************************************************)
(* Settings handlers: load, change one field, save; never under the lock.  *)
(***************************************************************************)
NoEdit == [stage |-> "none", cfg |-> DefaultConfig]

EditLoads(w, v) ==
  /\ edits[w].stage = "none"
  /\ crashes + edited < MaxDisturbances
  /\ edited' = edited + 1
  /\ edits' = [edits EXCEPT ![w] = [stage |-> "loaded",
                                    cfg   |-> [config EXCEPT !.setting = v]]]
  /\ UNCHANGED <<config, sources, gens, current, pending, pc, job, crashes>>

EditTruncates(w) ==
  /\ edits[w].stage = "loaded"
  /\ config' = DefaultConfig
  /\ edits' = [edits EXCEPT ![w].stage = "truncated"]
  /\ UNCHANGED <<sources, gens, current, pending, pc, job, crashes, edited>>

EditWrites(w) ==
  /\ edits[w].stage = "truncated"
  /\ config' = edits[w].cfg
  /\ edits' = [edits EXCEPT ![w] = NoEdit]
  /\ UNCHANGED <<sources, gens, current, pending, pc, job, crashes, edited>>

(* The daemon dies: everything in memory is gone, every file stays. *)
Crash ==
  /\ crashes + edited < MaxDisturbances
  /\ crashes' = crashes + 1
  /\ Finish
  /\ edits' = [w \in Writers |-> NoEdit]
  /\ UNCHANGED <<config, sources, gens, current, pending, edited>>

-----------------------------------------------------------------------------
Init ==
  /\ config  = DefaultConfig
  /\ sources = [s \in Services |-> NoTree]
  /\ gens    = <<>>
  /\ current = 0
  /\ pending = FALSE
  /\ pc = "idle" /\ job = NoJob
  /\ edits = [w \in Writers |-> NoEdit]
  /\ crashes = 0 /\ edited = 0

DeploySteps == Materialize \/ MaterializeFails \/ LoadAndMerge \/ Refuse
DeleteSteps == LoadAndRemove \/ NoSuchService \/ Forget
ApplySteps  == \/ SaveTruncates \/ SaveWrites \/ Render \/ Record \/ BuildFails
               \/ Switch \/ HealthPasses \/ HealthFails \/ RequestApply
RollbackSteps == \/ RollbackSwitches \/ RollbackTruncates \/ RollbackWrites
                 \/ RollbackWipes \/ RollbackCopies

(* A step of the thread that holds the lock. *)
Step == DeploySteps \/ DeleteSteps \/ ApplySteps \/ RollbackSteps

Request ==
  \/ \E s \in Services, v \in Versions, d \in Domains \cup {NoDomain, Keep} :
       BeginDeploy(s, v, d)
  \/ \E s \in Services : BeginDelete(s)
  \/ \E n \in 1 .. Len(gens) : BeginRollback(n)
  \/ BeginReapply

Edit == \E w \in Writers : \/ \E v \in Settings : EditLoads(w, v)
                           \/ EditTruncates(w)
                           \/ EditWrites(w)

Next == Step \/ Request \/ Edit \/ Crash

Spec == Init /\ [][Next]_vars

-----------------------------------------------------------------------------
(***************************************************************************)
(* Properties                                                              *)
(***************************************************************************)
Kinds  == {"none", "deploy", "delete", "rollback", "reapply"}
Places == {"idle", "materialize", "load", "save", "write", "forget", "render",
           "build", "switch", "health", "os_apply", "rb_switch", "rb_save",
           "rb_write", "rb_wipe", "rb_copy"}

Jobs == [kind : Kinds, svc : Services \cup {Absent},
         version : Versions \cup {NoTree},
         domain : Domains \cup {NoDomain, Keep},
         structural : BOOLEAN, cfg : Configs, built : Generations,
         prev : Nat, target : Nat]

Edits == [stage : {"none", "loaded", "truncated"}, cfg : Configs]

(* Every variable has its type, and the profile link never dangles: the    *)
(* selected generation is one that was recorded.                           *)
TypeOK ==
  /\ config \in Configs
  /\ sources \in [Services -> Trees]
  /\ gens \in Seq(Generations)
  /\ current \in 0 .. Len(gens)
  /\ pending \in BOOLEAN
  /\ pc \in Places
  /\ job \in Jobs
  /\ edits \in [Writers -> Edits]
  /\ crashes \in Nat /\ edited \in Nat

DomainsUniqueIn(cfg) ==
  \A s, t \in Services :
    ( /\ cfg.services[s] # Absent /\ cfg.services[t] # Absent
      /\ cfg.services[s].domain = cfg.services[t].domain
      /\ cfg.services[s].domain # NoDomain ) => s = t

(* Two services never claim one domain, neither in box.toml nor in any     *)
(* generation a rollback can bring back: deploy checks a requested domain  *)
(* only against the config it loaded, and the config it saves, the         *)
(* snapshots rollback restores and the settings handlers' stale copies all *)
(* have to keep that true.                                                 *)
DomainsUnique ==
  /\ DomainsUniqueIn(config)
  /\ \A n \in 1 .. Len(gens) : DomainsUniqueIn(gens[n].config)

(* The running operation returns to its caller (it does not die). *)
Returns == pc # "idle" /\ pc' = "idle" /\ crashes' = crashes

(* "A bad change never sticks" (apply_checked): when a deploy or a delete  *)
(* returns, the box serves what it served before or a generation that      *)
(* passed the health check, whatever failed on the way.  The first         *)
(* generation is the exception the code makes: nothing to go back to.      *)
BadChangeNeverSticks ==
  [][ Returns /\ job.kind \in {"deploy", "delete"} /\ job.prev # 0
        => current' = job.prev \/ Healthy(gens'[current']) ]_vars

(* box.toml and the staged trees are those generation n was built from. *)
InStepWith(gen, cfg, src) ==
  /\ cfg = gen.config
  /\ \A s \in Services : cfg.services[s] # Absent => src[s] = gen.www[s]

(* An operation that got as far as the profile ends with box.toml and the  *)
(* staged trees equal to those the served generation was built from: the   *)
(* deploy that went through, the one that was rolled back and the          *)
(* operator's rollback alike, and also when the operation started from     *)
(* what a crash had left behind.                                           *)
OperationsSettle ==
  [][ Returns /\ pc \in {"health", "os_apply", "rb_copy"} /\ job.kind # "reapply"
        /\ edited' = 0
        => InStepWith(gens'[current'], config', sources') ]_vars

(* Nothing but locked operations has written box.toml, and each returned. *)
Undisturbed == crashes = 0 /\ edited = 0

(* Undisturbed and with no operation running, box.toml is the config of    *)
(* the generation being served: no refused, failed or rolled-back request  *)
(* leaves anything declared that is not served, once there is a first      *)
(* generation.                                                             *)
DeclaredIsServed ==
  Undisturbed /\ pc = "idle" /\ current # 0 => config = gens[current].config

NamedServiceOnly ==
  \A s \in Services \ {job.svc} :
    gens'[current'].config.services[s] = gens[job.prev].config.services[s]

(* Undisturbed, a deploy or delete of one service changes no other         *)
(* service's entry in what is served: also when earlier requests were      *)
(* refused, or failed after their config had been saved.                   *)
OnlyTheNamedServiceChanges ==
  [][ Undisturbed' /\ Returns /\ job.kind \in {"deploy", "delete"} /\ job.prev # 0
        => NamedServiceOnly ]_vars

(* What the reconciler promises about the profile link, as a spec of its   *)
(* own.  A generation is on trial between the switch and the health check, *)
(* and until the restore when that fails.                                  *)
OnTrial == \/ pc = "health"
           \/ pc = "rb_switch" /\ job.kind # "rollback" /\ current # job.prev

Releases == INSTANCE Releases WITH
  releases <- gens,
  live     <- current,
  trial    <- OnTrial,
  fallback <- IF OnTrial THEN job.prev ELSE 0,
  stops    <- crashes,
  Sound    <- Healthy

ServesReleases == Releases!Spec

-----------------------------------------------------------------------------
(***************************************************************************)
(* Statements of the documentation that the code does not keep             *)
(***************************************************************************)
(* README: "Rollback atomically re-points the profile and restores the     *)
(* declarative config + sources".  However a rollback ends, it has         *)
(* happened entirely or not at all.                                        *)
RollbackIsAtomic ==
  [][ job.kind = "rollback" /\ pc' = "idle" /\ pc # "rb_switch"
        => InStepWith(gens'[current'], config', sources') ]_vars
=============================================================================
