-------------------------------- MODULE OsTier --------------------------------
(***************************************************************************)
(* The OS tier: the NixOS system of the Box, the profile of system         *)
(* generations it is selected from, and the two root oneshots that move    *)
(* it.  `apply` (boxd os-apply) makes the system match box.toml after a    *)
(* structural deploy; `update` (boxd channel update, from the timer or the *)
(* console) takes a new platform release by bumping the pin in flake.lock. *)
(* Both regenerate the same os-config repository, build from it, register, *)
(* switch, and check the health of what is then running.                   *)
(*                                                                         *)
(* boxd itself is unprivileged: it asks systemd to start `apply`, waits,   *)
(* and keeps the marker os-apply-pending.  It may be restarted at any      *)
(* time, by the very switch it waits for; the oneshots survive that.       *)
(* Nothing keeps the two oneshots apart.                                   *)
(***************************************************************************)
EXTENDS Naturals, Sequences, FiniteSets

CONSTANTS
  Configs,       \* what box.toml can ask of the system
  FirstConfig,   \* what it asks at installation
  BadConfigs,    \* those that bring up an unhealthy system
  MaxRelease,    \* bound: releases the channel publishes
  BadReleases,   \* those that bring up an unhealthy system
  MaxSystems,    \* bound: nothing new is asked for with this many generations
  Faults,        \* the external commands that may fail
  Disturbances,  \* what may disturb a behaviour, each kind once
  MaxDisturbances,  \* bound: how many kinds together
  NoConfig,      \* the repository while it is being regenerated
  NoPin          \* no flake.lock

Releases == 1 .. MaxRelease
Pins     == Releases \cup {NoPin}
Systems  == [config : Configs, release : Releases]
Units    == {"apply", "update"}
Commands == {"start", "regenerate", "bump", "build", "register", "switch", "rollback"}
Kinds    == {"restart", "power", "overlap", "content_rollback"}

ASSUME OsTierAssumption ==
  /\ FirstConfig \in Configs /\ BadConfigs \subseteq Configs \ {FirstConfig}
  /\ MaxRelease \in Nat \ {0} /\ BadReleases \subseteq Releases \ {1}
  /\ NoConfig \notin Configs /\ NoPin \notin Releases
  /\ MaxSystems \in Nat /\ MaxDisturbances \in Nat
  /\ Faults \subseteq Commands /\ Disturbances \subseteq Kinds

VARIABLES
  declared,   \* what box.toml asks for
  upstream,   \* the release the channel resolves to
  repo,       \* os-config: the config it was rendered from, and flake.lock
  profile,    \* the system generations, in order
  selected,   \* the one the system profile points at
  running,    \* the system that is active
  pending,    \* the os-apply-pending marker exists
  daemon,     \* where the deploy in boxd is
  unit,       \* the oneshots
  overdone,   \* history: a rollback took back more than its unit had registered
  disturbed   \* what has disturbed this behaviour so far

vars == <<declared, upstream, repo, profile, selected, running, pending,
          daemon, unit, overdone, disturbed>>

systemVars == <<profile, selected, running, overdone>>

(***************************************************************************)
(* A unit's locals: the config it loaded, the pin write_host_repo carries  *)
(* over, the pin update_and_switch would restore, and the built system.    *)
(* `added` is no local of the code: whether its registration made a        *)
(* generation.                                                             *)
(***************************************************************************)
Off == [at |-> "off", config |-> NoConfig, pin |-> NoPin, saved |-> NoPin,
        built |-> [config |-> FirstConfig, release |-> 1], added |-> FALSE]

Healthy(s) == s.config \notin BadConfigs /\ s.release \notin BadReleases

(* Unit u goes from one place to another and sets nothing but that. *)
Goto(u, from, to) ==
  /\ unit[u].at = from
  /\ unit' = [unit EXCEPT ![u].at = to]

(* Where a unit is that failed: while it regenerated the repository, or    *)
(* after that.                                                             *)
Failed == {"unwritten", "failed"}

(* Where a step that fails takes a unit: an update undoes its pin. *)
Failure(u) == IF u = "update" THEN "restore_pin" ELSE "failed"

Disturb(kind) ==
  /\ kind \in Disturbances \ disturbed
  /\ Cardinality(disturbed) < MaxDisturbances
  /\ disturbed' = disturbed \cup {kind}

-----------------------------------------------------------------------------
(***************************************************************************)
(* Starting a unit                                                         *)
(***************************************************************************)
Starts(u) ==
  /\ unit[u].at = "off"
  /\ unit' = [unit EXCEPT ![u] =
                [Off EXCEPT !.at = "wipe", !.config = declared]]
  /\ IF \E v \in Units \ {u} : unit[v].at # "off"
     THEN Disturb("overlap") ELSE UNCHANGED disturbed

(* channel update: a no-op when the pin is what the channel resolves to,   *)
(* unless it is forced.                                                    *)
UpdateStarts(forced) ==
  /\ Len(profile) < MaxSystems
  /\ forced \/ repo.pin # upstream
  /\ Starts("update")
  /\ UNCHANGED <<declared, upstream, repo, systemVars, pending, daemon>>

-----------------------------------------------------------------------------
(***************************************************************************)
(* What both units do                                                      *)
(***************************************************************************)
(* write_host_repo reads flake.lock and deletes the repository ... *)
RepoWiped(u) ==
  /\ unit[u].at = "wipe"
  /\ unit' = [unit EXCEPT ![u].at = "write", ![u].pin = repo.pin]
  /\ repo' = [config |-> NoConfig, pin |-> NoPin]
  /\ UNCHANGED <<declared, upstream, systemVars, pending, daemon, disturbed>>

(* ... then renders it from the config and puts flake.lock back. *)
RepoWritten(u) ==
  /\ Goto(u, "write", IF u = "update" THEN "bump" ELSE "build")
  /\ repo' = [config |-> unit[u].config,
              pin    |-> IF unit[u].pin = NoPin THEN repo.pin ELSE unit[u].pin]
  /\ UNCHANGED <<declared, upstream, systemVars, pending, daemon, disturbed>>

(* Nothing, a part or all of it was deleted when an error ended that ...   *)
WipeFails(u) ==
  /\ "regenerate" \in Faults
  /\ unit[u].at = "wipe"
  /\ unit' = [unit EXCEPT ![u].at = "unwritten", ![u].pin = repo.pin]
  /\ repo' \in {repo} \cup [config : {NoConfig}, pin : {repo.pin, NoPin}]
  /\ UNCHANGED <<declared, upstream, systemVars, pending, daemon, disturbed>>

(* ... or not all of it was written, or all but flake.lock: neither unit    *)
(* puts anything back.                                                     *)
WriteFails(u) ==
  /\ "regenerate" \in Faults
  /\ Goto(u, "write", "unwritten")
  /\ repo' \in {repo, [repo EXCEPT !.config = unit[u].config]}
  /\ UNCHANGED <<declared, upstream, systemVars, pending, daemon, disturbed>>

(* The flake's system, as the repository stands now: without a pin, nix    *)
(* resolves the channel and writes the pin.                                *)
Built(u) ==
  /\ unit[u].at = "build"
  /\ repo.config # NoConfig
  /\ unit' = [unit EXCEPT ![u].at = "register", ![u].built =
                [config  |-> repo.config,
                 release |-> IF repo.pin = NoPin THEN upstream ELSE repo.pin]]
  /\ repo' = [repo EXCEPT !.pin = unit'[u].built.release]
  /\ UNCHANGED <<declared, upstream, systemVars, pending, daemon, disturbed>>

(* Mutant: the error of the build returns before the pin is restored. *)
BuildErrorReturned(u) ==
  /\ "build" \in Faults \/ repo.config = NoConfig
  /\ Goto(u, "build", "failed")
  /\ UNCHANGED <<declared, upstream, repo, systemVars, pending, daemon, disturbed>>

BuildFails(u) ==
  /\ "build" \in Faults \/ repo.config = NoConfig
  /\ Goto(u, "build", Failure(u))
  /\ UNCHANGED <<declared, upstream, repo, systemVars, pending, daemon, disturbed>>

(* nix-env --set: a new generation, unless the newest already is this one. *)
Registered(u) ==
  /\ unit[u].at = "register"
  /\ profile' = IF profile[Len(profile)] = unit[u].built THEN profile
                ELSE Append(profile, unit[u].built)
  /\ selected' = Len(profile')
  /\ unit' = [unit EXCEPT ![u].at = "switch", ![u].added = profile' # profile]
  /\ UNCHANGED <<declared, upstream, repo, running, overdone, pending, daemon, disturbed>>

(* activate reports a failed registration and a failed switch alike: an    *)
(* update rolls the profile back, an apply just returns the error.         *)
ActivateFailure(u) == IF u = "update" THEN "rollback" ELSE "failed"

RegisterFails(u) ==
  /\ "register" \in Faults
  /\ Goto(u, "register", ActivateFailure(u))
  /\ UNCHANGED <<declared, upstream, repo, systemVars, pending, daemon, disturbed>>

(* switch-to-configuration exits with 0, or with 4: units of the new       *)
(* system failed, and the system has switched.                             *)
Switched(u) ==
  /\ Goto(u, "switch", "health")
  /\ running' = unit[u].built
  /\ UNCHANGED <<declared, upstream, repo, profile, selected, overdone, pending, daemon,
                 disturbed>>

(* Any other exit code: part of the way, or not at all. *)
SwitchFails(u) ==
  /\ "switch" \in Faults
  /\ Goto(u, "switch", ActivateFailure(u))
  /\ running' \in {running, unit[u].built}
  /\ UNCHANGED <<declared, upstream, repo, profile, selected, overdone, pending, daemon,
                 disturbed>>

HealthPasses(u) ==
  /\ Healthy(running)
  /\ Goto(u, "health", "done")
  /\ UNCHANGED <<declared, upstream, repo, systemVars, pending, daemon, disturbed>>

HealthFails(u) ==
  /\ ~Healthy(running)
  /\ Goto(u, "health", "rollback")
  /\ UNCHANGED <<declared, upstream, repo, systemVars, pending, daemon, disturbed>>

(* nix-env --rollback: the generation numbered before the selected one. *)
ProfileRolledBack(u) ==
  /\ selected > 1
  /\ Goto(u, "rollback", "reactivate")
  /\ selected' = selected - 1
  /\ overdone' = (overdone \/ ~unit[u].added)
  /\ UNCHANGED <<declared, upstream, repo, profile, running, pending, daemon, disturbed>>

RollbackFails(u) ==
  /\ \/ unit[u].at = "rollback" /\ (selected = 1 \/ "rollback" \in Faults)
     \/ unit[u].at = "reactivate" /\ "rollback" \in Faults
  /\ unit' = [unit EXCEPT ![u].at = Failure(u)]
  /\ UNCHANGED <<declared, upstream, repo, systemVars, pending, daemon, disturbed>>

Reactivated(u) ==
  /\ Goto(u, "reactivate", Failure(u))
  /\ running' = profile[selected]
  /\ UNCHANGED <<declared, upstream, repo, profile, selected, overdone, pending, daemon,
                 disturbed>>

-----------------------------------------------------------------------------
(***************************************************************************)
(* What only an update does                                                *)
(***************************************************************************)
(* The pin is snapshot, then advanced. *)
PinBumped ==
  /\ unit["update"].at = "bump"
  /\ unit' = [unit EXCEPT !["update"].at = "build", !["update"].saved = repo.pin]
  /\ repo' = [repo EXCEPT !.pin = upstream]
  /\ UNCHANGED <<declared, upstream, systemVars, pending, daemon, disturbed>>

(* nix flake update may have advanced the pin before it died. *)
BumpFails ==
  /\ "bump" \in Faults
  /\ unit["update"].at = "bump"
  /\ unit' = [unit EXCEPT !["update"].at = "restore_pin", !["update"].saved = repo.pin]
  /\ \E pin \in {repo.pin, upstream} : repo' = [repo EXCEPT !.pin = pin]
  /\ UNCHANGED <<declared, upstream, systemVars, pending, daemon, disturbed>>

PinRestored ==
  /\ Goto("update", "restore_pin", "failed")
  /\ repo' = [repo EXCEPT !.pin = unit["update"].saved]
  /\ UNCHANGED <<declared, upstream, systemVars, pending, daemon, disturbed>>

UpdateEnds ==
  /\ unit["update"].at \in {"done"} \cup Failed
  /\ unit' = [unit EXCEPT !["update"] = Off]
  /\ UNCHANGED <<declared, upstream, repo, systemVars, pending, daemon, disturbed>>

(* Mutant: a daemon that waits hears of success only. *)
FailureUnreported ==
  /\ unit["apply"].at \in {"done"} \cup Failed
  /\ unit' = [unit EXCEPT !["apply"] = Off]
  /\ pending' = (pending /\ unit["apply"].at \in Failed)
  /\ daemon' = IF daemon = "waiting" /\ unit["apply"].at = "done" THEN "applied" ELSE daemon
  /\ UNCHANGED <<declared, upstream, repo, systemVars, disturbed>>

(***************************************************************************)
(* os-apply clears the marker itself when it succeeds; systemctl tells a   *)
(* daemon that is still waiting how it went.                               *)
(***************************************************************************)
ApplyEnds ==
  /\ unit["apply"].at \in {"done"} \cup Failed
  /\ unit' = [unit EXCEPT !["apply"] = Off]
  /\ pending' = (pending /\ unit["apply"].at \in Failed)
  /\ daemon' = CASE daemon # "waiting" -> daemon
                 [] unit["apply"].at = "done" -> "applied"
                 [] unit["apply"].at \in Failed -> "refused"
  /\ UNCHANGED <<declared, upstream, repo, systemVars, disturbed>>

-----------------------------------------------------------------------------
(***************************************************************************)
(* boxd, under its apply lock                                              *)
(***************************************************************************)
(* A structural deploy or delete went through (module Reconciler). *)
Deploy(c) ==
  /\ daemon = "idle" /\ c # declared
  /\ Len(profile) < MaxSystems
  /\ declared' = c
  /\ daemon' = "asking"
  /\ UNCHANGED <<upstream, repo, systemVars, pending, unit, disturbed>>

(* The operator restores an earlier config; the system is not asked. *)
ContentRollback(c) ==
  /\ daemon = "idle" /\ c # declared
  /\ Disturb("content_rollback")
  /\ declared' = c
  /\ UNCHANGED <<upstream, repo, systemVars, pending, daemon, unit>>

(* systemctl start blocks; a unit that is already running is joined. *)
Ask ==
  /\ daemon = "asking"
  /\ daemon' = "waiting"
  /\ IF unit["apply"].at = "off" THEN Starts("apply") ELSE UNCHANGED <<unit, disturbed>>
  /\ UNCHANGED <<declared, upstream, repo, systemVars, pending>>

(* Not a Box, or systemctl could not be run. *)
AskFails ==
  /\ daemon = "asking" /\ "start" \in Faults
  /\ pending' = TRUE
  /\ daemon' = "idle"
  /\ UNCHANGED <<declared, upstream, repo, systemVars, unit, disturbed>>

(* Mutant: a failed apply is reported and not recorded. *)
ToldUnrecorded ==
  /\ daemon \in {"applied", "refused"}
  /\ pending' = FALSE
  /\ daemon' = "idle"
  /\ UNCHANGED <<declared, upstream, repo, systemVars, unit, disturbed>>

Told ==
  /\ daemon \in {"applied", "refused"}
  /\ pending' = (daemon = "refused")
  /\ daemon' = "idle"
  /\ UNCHANGED <<declared, upstream, repo, systemVars, unit, disturbed>>

-----------------------------------------------------------------------------
(***************************************************************************)
(* The environment                                                         *)
(***************************************************************************)
ChannelAdvances ==
  /\ upstream < MaxRelease
  /\ upstream' = upstream + 1
  /\ UNCHANGED <<declared, repo, systemVars, pending, daemon, unit, disturbed>>

DaemonRestarts ==
  /\ daemon # "idle"
  /\ Disturb("restart")
  /\ daemon' = "idle"
  /\ UNCHANGED <<declared, upstream, repo, systemVars, pending, unit>>

(* The machine boots what its boot loader holds: the selected system, or   *)
(* the one that ran when the switch had not got that far.                  *)
PowerLoss ==
  /\ Disturb("power")
  /\ daemon' = "idle"
  /\ unit' = [u \in Units |-> Off]
  /\ running' \in {running, profile[selected]}
  /\ UNCHANGED <<declared, upstream, repo, profile, selected, overdone, pending>>

Init ==
  /\ declared = FirstConfig /\ upstream = 1
  /\ repo = [config |-> FirstConfig, pin |-> 1]
  /\ profile = <<[config |-> FirstConfig, release |-> 1]>> /\ selected = 1
  /\ running = profile[1]
  /\ pending = FALSE /\ daemon = "idle"
  /\ unit = [u \in Units |-> Off]
  /\ overdone = FALSE
  /\ disturbed = {}

UnitStep(u) ==
  \/ RepoWiped(u) \/ WipeFails(u) \/ RepoWritten(u) \/ WriteFails(u) \/ Built(u) \/ BuildFails(u)
  \/ Registered(u) \/ RegisterFails(u) \/ Switched(u) \/ SwitchFails(u)
  \/ HealthPasses(u) \/ HealthFails(u)
  \/ ProfileRolledBack(u) \/ RollbackFails(u) \/ Reactivated(u)

UpdateStep == PinBumped \/ BumpFails \/ PinRestored \/ UpdateEnds
ApplyStep  == ApplyEnds
DaemonStep == Ask \/ AskFails \/ Told

Request ==
  \/ \E c \in Configs : Deploy(c) \/ ContentRollback(c)
  \/ \E forced \in BOOLEAN : UpdateStarts(forced)

Environment == ChannelAdvances \/ DaemonRestarts \/ PowerLoss

Next ==
  \/ \E u \in Units : UnitStep(u)
  \/ UpdateStep \/ ApplyStep \/ DaemonStep \/ Request \/ Environment

(***************************************************************************)
(* The processes run: the oneshots take their next step, the daemon asks   *)
(* and listens.  Nothing obliges anybody to deploy or the channel to move. *)
(***************************************************************************)
Fairness ==
  /\ \A u \in Units : WF_vars(UnitStep(u))
  /\ WF_vars(UpdateStep) /\ WF_vars(ApplyStep) /\ WF_vars(DaemonStep)

Spec == Init /\ [][Next]_vars /\ Fairness

-----------------------------------------------------------------------------
(***************************************************************************)
(* Properties                                                              *)
(***************************************************************************)
UnitPlaces == {"off", "wipe", "write", "bump", "build", "register", "switch", "health",
               "rollback", "reactivate", "restore_pin", "done", "failed", "unwritten"}

UnitStates == [at : UnitPlaces, config : Configs \cup {NoConfig}, pin : Pins,
               saved : Pins, built : Systems, added : BOOLEAN]

(* Every variable has its type; the system profile never dangles. *)
TypeOK ==
  /\ declared \in Configs /\ upstream \in Releases
  /\ repo \in [config : Configs \cup {NoConfig}, pin : Pins]
  /\ profile \in Seq(Systems) /\ selected \in 1 .. Len(profile)
  /\ running \in Systems
  /\ pending \in BOOLEAN
  /\ daemon \in {"idle", "asking", "waiting", "applied", "refused"}
  /\ unit \in [Units -> UnitStates]
  /\ overdone \in BOOLEAN
  /\ disturbed \subseteq Kinds

AtRest == daemon = "idle" /\ \A u \in Units : unit[u].at = "off"

(* The marker tells the truth: at rest and without it, the system that is  *)
(* running is the one box.toml asks for, whichever step of whichever apply *)
(* or update failed on the way.  Not once boxd was restarted while it      *)
(* waited, the power was lost, two units overlapped or box.toml was rolled *)
(* back, nor once an update has rolled the profile back that had not added *)
(* to it (MarkerTellsAll).                                                 *)
UnmarkedMeansCurrent ==
  AtRest /\ disturbed = {} /\ ~overdone /\ ~pending => running.config = declared

(* An update that fails, at any step, never leaves the pin it tried: the   *)
(* Box does not conceal from the next check what it is missing.  The pin   *)
(* is the one the update found or, if it was the regeneration of the       *)
(* repository that failed, perhaps none, for which every check reports an  *)
(* update.  Also when the power failed during an earlier update, and not   *)
(* if an apply overlapped with this one.                                   *)
FailedUpdateKeepsPin ==
  [][ unit["update"].at \in Failed /\ unit'["update"].at = "off"
        /\ "overlap" \notin disturbed
        => \/ repo'.pin = unit["update"].pin
           \/ unit["update"].at = "unwritten" /\ repo'.pin = NoPin ]_vars

(* A deploy that waits for the system is always answered. *)
DeployAnswered == daemon \in {"asking", "waiting"} ~> daemon = "idle"

-----------------------------------------------------------------------------
(***************************************************************************)
(* Statements of the documentation that the code does not keep             *)
(***************************************************************************)
(* channel.rs:7, "roll back (restoring the previous pin) if the new        *)
(* platform doesn't come up": a release that did not come up does not run  *)
(* once the update has failed.  The second failure in a row rolls back to  *)
(* the first.                                                              *)
FailedUpdateRestoresSystem ==
  [][ unit["update"].at = "failed" /\ unit'["update"].at = "off" /\ disturbed = {}
        => running'.release \notin BadReleases ]_vars

(* hostgen.rs:181, "Preserve the platform pin across regeneration: a       *)
(* routine deploy rewrites the sources but must not silently re-resolve    *)
(* the channel": while no update is under way, the system that is built    *)
(* has the release that ran.  A regeneration that fails after it has       *)
(* deleted the repository loses flake.lock, and the next deploy builds     *)
(* whatever the channel resolves to then.                                  *)
DeploysKeepThePin ==
  [][ unit["apply"].at = "build" /\ unit'["apply"].at = "register" /\ disturbed = {}
        => unit'["apply"].built.release = repo.pin ]_vars

(* ostier.rs:62, "recording that the running system is BEHIND the config": *)
(* without the exception above.  An update whose registration fails, or    *)
(* whose system is the newest already, still rolls the profile back: the   *)
(* system of an earlier config runs, and nothing marks it.                 *)
MarkerTellsAll == AtRest /\ disturbed = {} /\ ~pending => running.config = declared

===============================================================================
