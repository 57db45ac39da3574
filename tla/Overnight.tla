-------------------------------- MODULE Overnight --------------------------------
(***************************************************************************)
(* The overnight shift: a coding agent works in a sandbox on a checkout of *)
(* a service's repository, and what it changed is to be handed over as a   *)
(* branch and a pull request.  The sandbox is the one that builds sites,   *)
(* a podman container; build and work share its image, not its caches.     *)
(*                                                                         *)
(* The checkout has no .git of its own and lies in the data directory,     *)
(* which is the working tree of the Box's configuration history.  The      *)
(* history ignores the checkouts, not the journal.                         *)
(***************************************************************************)
EXTENDS Naturals, FiniteSets

CONSTANTS
  Runs,         \* jobs of the work runner
  MaxCommits,   \* bound: commits of the service's repository
  MaxChanges,   \* bound: changes of the Box's configuration
  Build,        \* the site's build job, none of the Runs
  Main,         \* the branch of the history that is pushed
  WithoutKey    \* the config remote takes a push without the Box's deploy key

VARIABLES
  tip,       \* the service's repository: its commits are numbered
  tree,      \* the scratch checkouts: of work, and of the build
  image,     \* the builder image: absent, loaded under its name, or tagged too
  jobs,      \* where each job is
  config,    \* box.toml and the rest, by version
  unsaved,   \* something the history tracks was written and not committed
  head,      \* the branch that is checked out in the data directory
  tips,      \* the version of the configuration each branch of the history has
  linked,    \* "origin" exists there: there is a config remote
  offsite,   \* what main is at the remote
  pushed     \* the last push of the configuration went through

boxVars  == <<config, unsaved, head, tips, linked, offsite, pushed>>
vars     == <<tip, tree, image, jobs, boxVars>>

Jobs    == Runs \cup {Build}
Commits == 0 .. MaxCommits
NoJob   == [at |-> "idle", commit |-> 0]

At(j, at)   == jobs[j].at = at
Goes(j, at) == jobs' = [jobs EXCEPT ![j].at = at]
Ends(j)     == jobs' = [jobs EXCEPT ![j] = NoJob]

(* A work checkout has its own name, of which there is one per service.    *)
Checkout(j) == IF j = Build THEN "site" ELSE "site--work"
Branch(n)   == n
Histories   == {Main} \cup Commits

-----------------------------------------------------------------------------
(* The job begins when there is a key, a sandbox and a linked repository.  *)
(* A build is begun by a sync.                                             *)
Begin(j) ==
  /\ At(j, "idle")
  /\ Goes(j, "fetch")
  /\ UNCHANGED <<tip, tree, image, boxVars>>

Fetch(j) ==
  /\ At(j, "fetch")
  /\ \/ /\ jobs' = [jobs EXCEPT ![j].at = "checkout", ![j].commit = tip]
     \/ Ends(j)
  /\ UNCHANGED <<tip, tree, image, boxVars>>

(* The directory is removed and filled again. *)
CheckOut(j) ==
  /\ At(j, "checkout")
  /\ tree' = [tree EXCEPT ![Checkout(j)] = [commit |-> jobs[j].commit, edited |-> FALSE]]
  /\ Goes(j, "image")
  /\ UNCHANGED <<tip, image, boxVars>>

(* Loaded, and tagged for this release, unless it was. *)
EnsureImage(j) ==
  /\ At(j, "image")
  /\ \/ image' = "tagged" /\ Goes(j, "install")
     \/ image # "tagged" /\ image' \in {image, "loaded"} /\ Ends(j)
  /\ UNCHANGED <<tip, tree, boxVars>>

(* The dependencies, with the network.  A container can fail, run out of   *)
(* time or of memory.                                                      *)
Install(j) ==
  /\ At(j, "install")
  /\ Goes(j, "run") \/ Ends(j)
  /\ UNCHANGED <<tip, tree, image, boxVars>>

(* The agent, with the network; the build of a site, without. *)
RunSandboxed(j) ==
  /\ At(j, "run")
  /\ \E edits \in BOOLEAN :
       /\ tree' = [tree EXCEPT ![Checkout(j)].edited = @ \/ edits]
       /\ \/ Goes(j, IF j = Build THEN "publish" ELSE "collect")
          \/ Ends(j)
  /\ UNCHANGED <<tip, image, boxVars>>

(* What was built is found, or is not. *)
Publish(j) ==
  /\ At(j, "publish")
  /\ Ends(j)
  /\ UNCHANGED <<tip, tree, image, boxVars>>

-----------------------------------------------------------------------------
(***************************************************************************)
(* Collecting the result.  git is run in the checkout and finds the        *)
(* repository of the directory above: the configuration's.                 *)
(***************************************************************************)
Collect(j) ==
  /\ At(j, "collect")
  /\ IF unsaved THEN Goes(j, "branch") /\ UNCHANGED unsaved
     ELSE Ends(j) /\ unsaved' = TRUE  \* the journal is told that nothing changed
  /\ UNCHANGED <<tip, tree, image, config, head, tips, linked, offsite, pushed>>

(* checkout -B, add -A and commit: three commands. *)
MakeBranch(j) ==
  /\ At(j, "branch")
  /\ head' = Branch(jobs[j].commit)
  /\ tips' = [tips EXCEPT ![Branch(jobs[j].commit)] = tips[head]]
  /\ Goes(j, "commit")
  /\ UNCHANGED <<tip, tree, image, config, unsaved, linked, offsite, pushed>>

CommitWork(j) ==
  /\ At(j, "commit")
  /\ IF unsaved
     THEN /\ tips' = [tips EXCEPT ![head] = config]
          /\ unsaved' = FALSE
          /\ Goes(j, "push")
     ELSE Ends(j) /\ UNCHANGED <<tips, unsaved>>
  /\ UNCHANGED <<tip, tree, image, config, head, linked, offsite, pushed>>

(* To the origin of the configuration; without the deploy key it uses.     *)
PushWork(j) ==
  /\ At(j, "push")
  /\ IF linked /\ WithoutKey THEN Goes(j, "pr") ELSE Ends(j)
  /\ UNCHANGED <<tip, tree, image, boxVars>>

(* The service's repository has no such branch.  The journal is told.      *)
OpenPr(j) ==
  /\ At(j, "pr")
  /\ unsaved' = TRUE
  /\ Ends(j)
  /\ UNCHANGED <<tip, tree, image, config, head, tips, linked, offsite, pushed>>

-----------------------------------------------------------------------------
(* A deploy changes the configuration, and commits and pushes it.          *)
Change ==
  /\ config < MaxChanges
  /\ config' = config + 1
  /\ tips' = [tips EXCEPT ![head] = config + 1]
  /\ unsaved' = FALSE
  /\ \/ /\ linked
        /\ offsite' = tips'[Main] /\ pushed' = TRUE
     \/ UNCHANGED offsite /\ pushed' = FALSE
  /\ UNCHANGED <<tip, tree, image, jobs, head, linked>>

(* The remote is named, and pushed to. *)
SetRemote ==
  /\ ~linked
  /\ linked' = TRUE
  /\ tips' = [tips EXCEPT ![head] = config]
  /\ unsaved' = FALSE
  /\ offsite' = tips'[Main] /\ pushed' = TRUE
  /\ UNCHANGED <<tip, tree, image, jobs, config, head>>

Journal ==
  /\ unsaved' = TRUE
  /\ UNCHANGED <<tip, tree, image, jobs, config, head, tips, linked, offsite, pushed>>

PushedElsewhere ==
  /\ tip < MaxCommits
  /\ tip' = tip + 1
  /\ UNCHANGED <<tree, image, jobs, boxVars>>

Init ==
  /\ tip = 0
  /\ tree = [d \in {"site", "site--work"} |-> [commit |-> 0, edited |-> FALSE]]
  /\ image = "absent"
  /\ jobs = [j \in Jobs |-> NoJob]
  /\ config = 0 /\ unsaved = FALSE /\ head = Main
  /\ tips = [b \in Histories |-> 0] /\ linked = FALSE /\ offsite = 0 /\ pushed = FALSE

WorkStep(j) == Collect(j) \/ MakeBranch(j) \/ CommitWork(j) \/ PushWork(j) \/ OpenPr(j)

Next ==
  \/ \E j \in Jobs : Begin(j) \/ Fetch(j) \/ CheckOut(j) \/ EnsureImage(j) \/ Install(j) \/ RunSandboxed(j)
  \/ Publish(Build) \/ \E j \in Runs : WorkStep(j)
  \/ Change \/ SetRemote \/ Journal \/ PushedElsewhere

Spec == Init /\ [][Next]_vars

-----------------------------------------------------------------------------
(* work.rs:11 "the blast radius is a branch named work/... that nobody has *)
(* to merge" and history.rs:271 "Push the config repo [...] to its         *)
(* remote": when a push of the configuration goes through, the remote has  *)
(* the configuration of the Box.                                           *)
OffsiteIsCurrent == pushed => offsite = config
===============================================================================
