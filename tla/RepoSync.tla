-------------------------------- MODULE RepoSync --------------------------------
(***************************************************************************)
(* Keeping services in step with the repositories they came from.  A       *)
(* service is linked once; from then on the poller, webhooks, the console  *)
(* and agents pull the tip of its branch and deploy it when it is not the  *)
(* commit the service's marker names.  A pull request gets a service of    *)
(* its own, a preview.                                                     *)
(*                                                                         *)
(* A deploy is one step here: it goes through, or everything is put back   *)
(* to what was served before (module Reconciler).  It runs under the apply *)
(* lock, as everything in this module does except three: the poller and    *)
(* the webhooks make their lists without it, and unlink never takes it.    *)
(***************************************************************************)
EXTENDS Naturals, FiniteSets

CONSTANTS
  Sites,         \* services an operator makes; all track one branch
  Previews,      \* services made for a pull request, each on its branch
  MaxCommits,    \* bound: commits a branch gets
  BadCommits,    \* a service's commits without an index.html for it
  Moved,         \* services whose subdir is only in the first commit
  MaxRequests,   \* bound: what operators, agents and forges ask for
  Disturbances,  \* what may disturb a behaviour, each kind once
  MaxDisturbances,  \* bound: how many kinds together
  Main,          \* the branch of the sites
  Hand,          \* content deployed by hand
  NoTree,        \* no staged directory
  None           \* no marker, no service

Services == Sites \cup Previews
Branches == Previews \cup {Main}
Commits  == 1 .. MaxCommits
Contents == Commits \cup {Hand, NoTree}
Kinds    == {"git", "build", "system", "crash", "unlink", "rollback"}

ASSUME RepoSyncAssumption ==
  /\ Sites \cap Previews = {} /\ Main \notin Previews /\ None \notin Services
  /\ MaxCommits \in Nat \ {0} /\ BadCommits \subseteq Services \X Commits /\ Moved \subseteq Services
  /\ {Hand, NoTree, None} \cap Commits = {}
  /\ MaxRequests \in Nat /\ MaxDisturbances \in Nat /\ Disturbances \subseteq Kinds

VARIABLES
  tip,        \* the newest commit of each branch
  config,     \* box.toml: what each service is
  sources,    \* the staged trees
  served,     \* the generation being served
  older,      \* the other generations there are
  marker,     \* repos/<service>.deployed
  job,        \* the operation under the lock
  lists,      \* services that the poller and the webhook still have to sync
  events,     \* pull request events whose handlers wait for the lock
  unlinking,  \* the unlink in flight
  wish,       \* history: what was last asked of a service, and done
  requests, disturbed

repoVars == <<tip, requests>>
boxVars  == <<config, sources, served, older>>
vars == <<repoVars, boxVars, marker, job, lists, events, unlinking, wish, disturbed>>

Branch(s) == IF s \in Previews THEN s ELSE Main

(* The commit's tree has what the service is built from. *)
Builds(s, c) == s \notin Moved \/ c = 1

Rendered(cfg, src) ==
  [config |-> cfg,
   www    |-> [s \in Services |-> IF cfg[s] = "absent" THEN NoTree ELSE src[s]]]

Healthy(gen) ==
  \A s \in Services : gen.config[s] # "absent" =>
    gen.www[s] # NoTree /\ <<s, gen.www[s]>> \notin BadCommits

Disturb(kind) ==
  /\ kind \in Disturbances \ disturbed
  /\ Cardinality(disturbed) < MaxDisturbances
  /\ disturbed' = disturbed \cup {kind}

Asked == requests < MaxRequests /\ requests' = requests + 1

(***************************************************************************)
(* apply_checked: the generation of this config and these trees, or, when  *)
(* it does not build or is not healthy, what is served and its snapshot.   *)
(***************************************************************************)
Serves(cfg, src) ==
  LET gen == Rendered(cfg, src)
  IN  /\ Healthy(gen)
      /\ config' = cfg /\ sources' = src
      /\ served' = gen /\ older' = older \cup {served}

Applies(cfg, src) == Serves(cfg, src) /\ UNCHANGED disturbed

Reverts(cfg, src) ==
  LET gen == Rendered(cfg, src)
  IN  /\ \/ ~Healthy(gen) /\ older' = older \cup {gen} /\ UNCHANGED disturbed
         \/ Disturb("build") /\ UNCHANGED older
      /\ config' = served.config /\ sources' = served.www
      /\ UNCHANGED served

-----------------------------------------------------------------------------
(* The lock. *)
NoJob == [kind |-> "none", svc |-> None, by |-> "none", at |-> "idle", commit |-> 1]

Free == job = NoJob

Locks(kind, s, by) ==
  job' = [kind |-> kind, svc |-> s, by |-> by, at |-> "fetch", commit |-> 1]

At(place) == job.at = place

Goes(place) == job' = [job EXCEPT !.at = place]

(* Mutant: the poller gives up too. *)
FailsForAll ==
  /\ job' = NoJob
  /\ lists' = IF job.by \in DOMAIN lists THEN [lists EXCEPT ![job.by] = {}] ELSE lists

(* A webhook gives up at the first service that fails; the poller goes on. *)
Fails ==
  /\ job' = NoJob
  /\ lists' = IF job.by = "hook" THEN [lists EXCEPT !.hook = {}] ELSE lists

Succeeds == job' = NoJob /\ UNCHANGED lists

-----------------------------------------------------------------------------
(***************************************************************************)
(* sync, and link, which deploys before it is one                          *)
(***************************************************************************)
(* FETCH_HEAD is compared with the marker. *)
UpToDate ==
  /\ At("fetch") /\ job.kind = "sync"
  /\ marker[job.svc] = tip[Branch(job.svc)]
  /\ Succeeds
  /\ UNCHANGED <<repoVars, boxVars, marker, events, unlinking, wish, disturbed>>

Pull ==
  /\ At("fetch")
  /\ job.kind = "link" \/ marker[job.svc] # tip[Branch(job.svc)]
  /\ job' = [job EXCEPT !.at = "build", !.commit = tip[Branch(job.svc)]]
  /\ UNCHANGED <<repoVars, boxVars, marker, lists, events, unlinking, wish, disturbed>>

(* The forge does not answer, or the clone was removed underneath. *)
GitFails ==
  /\ At("fetch") \/ At("build")
  /\ Disturb("git")
  /\ Fails
  /\ UNCHANGED <<repoVars, boxVars, marker, events, unlinking, wish>>

(* Mutant: the marker is written before the deploy. *)
BuildMarks ==
  /\ At("build") /\ Builds(job.svc, job.commit)
  /\ Goes("deploy")
  /\ marker' = [marker EXCEPT ![job.svc] = job.commit]
  /\ UNCHANGED <<repoVars, boxVars, lists, events, unlinking, wish, disturbed>>

(* Checked out, the Boxfile read, the site built or its subdir found. *)
Build ==
  /\ At("build") /\ Builds(job.svc, job.commit)
  /\ Goes("deploy")
  /\ UNCHANGED <<repoVars, boxVars, marker, lists, events, unlinking, wish, disturbed>>

BuildFails ==
  /\ At("build") /\ ~Builds(job.svc, job.commit)
  /\ Fails
  /\ UNCHANGED <<repoVars, boxVars, marker, events, unlinking, wish, disturbed>>

(* ops::deploy keeps the link of a service it finds and gives none to one  *)
(* it makes.                                                               *)
Deployed(s) == [config EXCEPT ![s] = IF @ = "absent" THEN "plain" ELSE @]
Staged(s, content) == [sources EXCEPT ![s] = content]

Deploy ==
  /\ At("deploy")
  /\ Applies(Deployed(job.svc), Staged(job.svc, job.commit))
  /\ IF job.kind = "link"
     THEN Goes("attach") /\ wish' = [wish EXCEPT ![job.svc] = "none"]
     ELSE Goes("mark") /\ UNCHANGED wish
  /\ UNCHANGED <<repoVars, marker, lists, events, unlinking>>

DeployFails ==
  /\ At("deploy")
  /\ Reverts(Deployed(job.svc), Staged(job.svc, job.commit))
  /\ Fails
  /\ UNCHANGED <<repoVars, marker, events, unlinking, wish>>

(* A service that is new changes the system, and the oneshot fails: link   *)
(* gives up with the service deployed, neither linked nor marked.          *)
DeployUnapplied ==
  /\ At("deploy") /\ config[job.svc] = "absent"
  /\ Disturb("system")
  /\ Serves(Deployed(job.svc), Staged(job.svc, job.commit))
  /\ wish' = [wish EXCEPT ![job.svc] = "none"]
  /\ Fails
  /\ UNCHANGED <<repoVars, marker, events, unlinking>>

(* link: box.toml is loaded again and saved with the link; no generation.  *)
Attach ==
  /\ At("attach")
  /\ config' = [config EXCEPT ![job.svc] = IF @ = "absent" THEN @ ELSE "linked"]
  /\ Goes("mark")
  /\ UNCHANGED <<repoVars, sources, served, older, marker, lists, events, unlinking,
                 wish, disturbed>>

Mark ==
  /\ At("mark")
  /\ marker' = [marker EXCEPT ![job.svc] = job.commit]
  /\ Succeeds
  /\ UNCHANGED <<repoVars, boxVars, events, unlinking, wish, disturbed>>

JobStep == \/ UpToDate \/ Pull \/ GitFails \/ Build \/ BuildFails
           \/ Deploy \/ DeployUnapplied \/ DeployFails \/ Attach \/ Mark

-----------------------------------------------------------------------------
(***************************************************************************)
(* Who syncs.  The lists are of services that were linked when they were   *)
(* made; sync reads box.toml again under the lock.                         *)
(***************************************************************************)
Linked == {s \in Services : config[s] = "linked"}

(* Mutant: the list's word is taken for it. *)
TakesUnchecked(by, s) ==
  /\ Free /\ s \in lists[by]
  /\ Locks("sync", s, by)
  /\ lists' = [lists EXCEPT ![by] = @ \ {s}]
  /\ UNCHANGED <<repoVars, boxVars, marker, events, unlinking, wish, disturbed>>

(* One of the list gets the lock.  When the service is gone by then, or    *)
(* its link is, sync fails at once.                                        *)
Takes(by, s) ==
  /\ Free /\ s \in lists[by]
  /\ IF s \in Linked
     THEN /\ Locks("sync", s, by)
          /\ lists' = [lists EXCEPT ![by] = @ \ {s}]
     ELSE /\ lists' = [lists EXCEPT ![by] = IF by = "hook" THEN {} ELSE @ \ {s}]
          /\ UNCHANGED job
  /\ UNCHANGED <<repoVars, boxVars, marker, events, unlinking, wish, disturbed>>

(* Every POLL_SECONDS, once the last pass is through. *)
PollLists ==
  /\ lists.poller = {} /\ job.by # "poller"
  /\ lists' = [lists EXCEPT !.poller = Linked]
  /\ UNCHANGED <<repoVars, boxVars, marker, job, events, unlinking, wish, disturbed>>

PollStep == PollLists \/ \E s \in Services : Takes("poller", s)
HookStep == \E s \in Services : Takes("hook", s)

(* A push is announced, once or more, or never.  Bound: one handler.       *)
HookLists(b) ==
  /\ Asked
  /\ lists.hook = {} /\ job.by # "hook"
  /\ lists' = [lists EXCEPT !.hook = {s \in Linked : Branch(s) = b}]
  /\ UNCHANGED <<tip, boxVars, marker, job, events, unlinking, wish, disturbed>>

(* The console's "Sync now", and sync_repo. *)
SyncNow(s) ==
  /\ Asked
  /\ Free /\ s \in Linked
  /\ Locks("sync", s, "operator")
  /\ UNCHANGED <<tip, boxVars, marker, lists, events, unlinking, wish, disturbed>>

Link(s) ==
  /\ Asked
  /\ Free
  /\ Locks("link", s, "operator")
  /\ UNCHANGED <<tip, boxVars, marker, lists, events, unlinking, wish, disturbed>>

-----------------------------------------------------------------------------
(* Previews. *)
PrEvent(kind, p) ==
  /\ Asked
  /\ events' = events \cup {[kind |-> kind, svc |-> p]}
  /\ UNCHANGED <<tip, boxVars, marker, job, lists, unlinking, wish, disturbed>>

Handled(kind, p) ==
  /\ Free /\ [kind |-> kind, svc |-> p] \in events
  /\ events' = events \ {[kind |-> kind, svc |-> p]}

(* preview_open: the service is saved with its link and without any tree,  *)
(* and synced.                                                             *)
PreviewOpens(p) ==
  /\ Handled("open", p)
  /\ IF Linked \cap Sites = {}
     THEN UNCHANGED <<job, config, wish>>
     ELSE /\ config' = [config EXCEPT ![p] = IF @ = "absent" THEN "linked" ELSE @]
          /\ wish' = [wish EXCEPT ![p] = "none"]
          /\ IF config'[p] = "linked" THEN Locks("sync", p, "hook pr") ELSE UNCHANGED job
  /\ UNCHANGED <<repoVars, sources, served, older, marker, lists, unlinking, disturbed>>

-----------------------------------------------------------------------------
(***************************************************************************)
(* What else happens to services                                           *)
(***************************************************************************)
(* delete_service forgets the marker before it applies. *)
Deletes(s) ==
  /\ Free /\ config[s] # "absent"
  /\ LET cfg == [config EXCEPT ![s] = "absent"]
         src == [sources EXCEPT ![s] = NoTree]
     IN  \/ Applies(cfg, src) /\ wish' = [wish EXCEPT ![s] = "deleted"]
         \/ Reverts(cfg, src) /\ UNCHANGED wish
  /\ marker' = [marker EXCEPT ![s] = None]
  /\ UNCHANGED <<job, lists, unlinking>>

Delete(s) == Asked /\ Deletes(s) /\ UNCHANGED <<tip, events>>

(* preview_close: unlinked and deleted. *)
PreviewCloses(p) ==
  /\ Handled("close", p)
  /\ IF config[p] = "linked" THEN Deletes(p)
     ELSE UNCHANGED <<boxVars, marker, job, lists, unlinking, wish, disturbed>>
  /\ UNCHANGED repoVars

PrStep == \E p \in Previews : PreviewOpens(p) \/ PreviewCloses(p)

HandDeploy(s) ==
  /\ Asked
  /\ Free
  /\ \/ /\ Applies(Deployed(s), Staged(s, Hand))
        /\ wish' = [wish EXCEPT ![s] = IF @ = "deleted" THEN "none" ELSE @]
     \/ Reverts(Deployed(s), Staged(s, Hand)) /\ UNCHANGED wish
  /\ UNCHANGED <<tip, marker, job, lists, events, unlinking>>

(* The marker is no part of a generation. *)
Rollback(gen) ==
  /\ Asked /\ Disturb("rollback")
  /\ Free
  /\ served' = gen /\ older' = (older \cup {served}) \ {gen}
  /\ config' = gen.config /\ sources' = gen.www
  /\ wish' = [s \in Services |-> "none"]
  /\ UNCHANGED <<tip, marker, job, lists, events, unlinking>>

(* unlink, never under the lock: load, save, forget. *)
NoUnlink == [at |-> "idle", svc |-> None, cfg |-> [s \in Services |-> "absent"]]

UnlinkLoads(s) ==
  /\ Asked /\ Disturb("unlink")
  /\ unlinking = NoUnlink /\ config[s] = "linked"
  /\ unlinking' = [at |-> "save", svc |-> s, cfg |-> [config EXCEPT ![s] = "plain"]]
  /\ UNCHANGED <<tip, boxVars, marker, job, lists, events, wish>>

UnlinkSaves ==
  /\ unlinking.at = "save"
  /\ config' = unlinking.cfg
  /\ unlinking' = [unlinking EXCEPT !.at = "forget"]
  /\ UNCHANGED <<repoVars, sources, served, older, marker, job, lists, events, wish, disturbed>>

UnlinkForgets ==
  /\ unlinking.at = "forget"
  /\ marker' = [marker EXCEPT ![unlinking.svc] = None]
  /\ wish' = [wish EXCEPT ![unlinking.svc] = "unlinked"]
  /\ unlinking' = NoUnlink
  /\ UNCHANGED <<repoVars, boxVars, job, lists, events, disturbed>>

UnlinkStep == UnlinkSaves \/ UnlinkForgets

-----------------------------------------------------------------------------
BranchMoves(b) ==
  /\ tip[b] < MaxCommits
  /\ tip' = [tip EXCEPT ![b] = @ + 1]
  /\ UNCHANGED <<requests, boxVars, marker, job, lists, events, unlinking, wish, disturbed>>

(* The daemon dies between two operations' effects; a deploy is one here.  *)
Dies ==
  /\ Disturb("crash")
  /\ job' = NoJob /\ lists' = [lists EXCEPT !.poller = {}, !.hook = {}]
  /\ events' = {} /\ unlinking' = NoUnlink
  /\ UNCHANGED <<repoVars, boxVars, marker, wish>>

NoServices == [s \in Services |-> "absent"]

(* A first generation, without services, is being served. *)
Init ==
  /\ tip = [b \in Branches |-> 1]
  /\ config = NoServices /\ sources = [s \in Services |-> NoTree]
  /\ served = Rendered(config, sources) /\ older = {}
  /\ marker = [s \in Services |-> None]
  /\ job = NoJob
  /\ lists = [poller |-> {}, hook |-> {}] /\ events = {}
  /\ unlinking = NoUnlink
  /\ wish = [s \in Services |-> "none"]
  /\ requests = 0 /\ disturbed = {}

Request ==
  \/ \E s \in Sites : Link(s) \/ HandDeploy(s)
  \/ \E s \in Services : SyncNow(s) \/ Delete(s) \/ UnlinkLoads(s)
  \/ \E b \in Branches : HookLists(b)
  \/ \E p \in Previews, kind \in {"open", "close"} : PrEvent(kind, p)
  \/ \E gen \in older : Rollback(gen)

Next ==
  \/ JobStep \/ PollStep \/ HookStep \/ PrStep \/ UnlinkStep
  \/ Request \/ Dies \/ \E b \in Branches : BranchMoves(b)

(* Threads run, and get the lock when it is free for good: what is asked   *)
(* from outside is bounded.  Nobody is obliged to ask or to push.          *)
Fairness ==
  WF_vars(JobStep) /\ WF_vars(PollStep) /\ WF_vars(HookStep) /\ WF_vars(PrStep)
    /\ WF_vars(UnlinkStep)

Spec == Init /\ [][Next]_vars /\ Fairness

-----------------------------------------------------------------------------
(***************************************************************************)
(* Properties                                                              *)
(***************************************************************************)
States == [Services -> {"absent", "plain", "linked"}]
Gens   == [config : States, www : [Services -> Contents]]

TypeOK ==
  /\ tip \in [Branches -> Commits] /\ requests \in 0 .. MaxRequests
  /\ config \in States /\ sources \in [Services -> Contents]
  /\ served \in Gens /\ older \subseteq Gens
  /\ marker \in [Services -> Commits \cup {None}]
  /\ job \in {NoJob} \cup [kind : {"sync", "link"}, svc : Services, commit : Commits,
                           by : {"poller", "hook", "operator", "hook pr"},
                           at : {"fetch", "build", "deploy", "attach", "mark"}]
  /\ lists \in [poller : SUBSET Services, hook : SUBSET Services]
  /\ events \subseteq [kind : {"open", "close"}, svc : Previews]
  /\ unlinking \in {NoUnlink} \cup [at : {"save", "forget"}, svc : Services, cfg : States]
  /\ wish \in [Services -> {"none", "unlinked", "deleted"}]
  /\ disturbed \subseteq Kinds

(* A marker never runs ahead: the commit it names has been served, in a    *)
(* generation that passed its health check, whatever failed or crashed     *)
(* between the fetch and the marker.  One that runs ahead would make every *)
(* later poll call an undeployed commit up to date.                        *)
MarkerWasServed ==
  \A s \in Services : marker[s] # None =>
    \E gen \in older \cup {served} : gen.www[s] = marker[s] /\ Healthy(gen)

(* A service that was deleted is not served again, by a poll or a webhook  *)
(* that had it on a list from before, or by another deploy's rollback; an  *)
(* unlink that overlaps can bring it back, and is left out.                *)
DeletedStaysDeleted ==
  "unlink" \notin disturbed =>
    \A s \in Services : wish[s] = "deleted" => served.config[s] = "absent"

Behind(s) ==
  /\ s \in Linked /\ marker[s] # tip[Main]
  /\ Builds(s, tip[Main]) /\ <<s, tip[Main]>> \notin BadCommits

(* "One broken remote must not stall every other service's deploys": a     *)
(* linked site that is behind gets its commit, whatever other services'    *)
(* pulls, previews and failed deploys do, unless it loses its link, the    *)
(* branch moves on, or the operator chose a generation that is not healthy *)
(* as a whole.                                                             *)
PushesArrive ==
  \A s \in Sites : Behind(s) ~> (~Behind(s) \/ ~Healthy(served))

-----------------------------------------------------------------------------
(***************************************************************************)
(* Statements of the documentation that the code does not keep             *)
(***************************************************************************)
(* pull.rs:518 "this stops future pulls": once a service has been          *)
(* unlinked, and until somebody links it or rolls back, nothing pulls it.  *)
(* An unlink makes no generation, so a failed deploy of anything restores  *)
(* the config with the link.                                               *)
UnlinkStopsPulls ==
  [][ \A s \in Services : wish[s] = "unlinked" /\ Free
        => ~(job'.kind = "sync" /\ job'.svc = s) ]_vars
===============================================================================
