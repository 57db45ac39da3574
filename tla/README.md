# A verification development for the-box

the-box turns a machine into a personal server. One daemon, `boxd`
(`src/boxd`), keeps a declarative description of what the machine should host
(`box.toml`), renders it into numbered generations, serves one of them, and
asks root oneshots to make the NixOS system follow. Around that core it runs
long jobs, queues destructive calls of agents for an operator's approval, keeps
a connector to the internet alive, pulls repositories, takes backups, and talks
to forges, clouds and other Boxes.

This directory models the parts of that daemon whose correctness depends on
order, on failure in the middle and on several threads or processes. TLC checks
the models on small instances; TLAPS proves the central facts about the
reconciler, the OS tier, the installer and the first boots, the approvals and
jobs, the way in, the credential store, the repositories and forges, and the
backups for every value of the constants. `PROJECT.json` maps
every definition to the source lines it stands for.

All paths below are under `src/boxd/src/` unless they start with `src/`.

## 1. Inventory

### Modelled

**Reconciler** (`ops.rs`, `store/`, `config.rs`, `nixgen.rs`, `templates.rs`,
`manifest.rs`, `paths.rs`).
*State*: `box.toml`, `sources/<service>`, `profiles/box-N-link` and the `box`
link, the marker `os-apply-pending`. *Operations*: deploy, delete, rollback,
the console's re-apply; and every settings handler, which loads and saves
`box.toml` too. *Interaction*: the four operations hold `AppState.apply_lock`;
the settings handlers do not. *Hard*: a request has up to ten durable effects;
a build or a health check fails after several of them; a crash falls between
any two; `fs::write` truncates first; a stale copy is saved over a newer file.
*Correct when*: a bad change never sticks, nothing is declared that is not
served, one service's request does not change another's entry, domains stay
unique, and generations are immutable.

**OS tier** (`ostier.rs`, `channel.rs`, `hostgen.rs`, the `os-apply` and
`channel update` commands of `main.rs`).
*State*: the `os-config` repository with `flake.lock` (the pin), the system
profile, the running system, the marker. *Operations*: os-apply and channel
update, as root; `request_apply` in boxd, which starts the first and waits.
*Hard*: both oneshots delete and rewrite one repository; every external command
can fail; boxd is restarted by the switch it waits for; `systemctl start` joins
a run that is already going; `nix-env --rollback` is relative. *Correct when*:
the marker and the pin do not conceal a system that is behind, and a deploy
that waits is answered.

**Jobs** (`jobs.rs`). *State*: a map, a bounded list and a file per job.
*Operations*: start, end, evict, reload at startup. *Hard*: three threads
update the three views one after the other; a crash tears a file; the work
panics; a running job is evicted. *Correct when*: the views agree, and every
job is seen to end.

**Approvals** (`approvals.rs`, the approve and deny handlers of
`web/pages.rs`, `execute` of `web/mcp.rs`). *State*: one file per queued call.
*Operations*: request, approve, deny, resolve. *Hard*: a tap reads the state,
runs the call and writes the outcome, and nothing keeps two taps apart; the
handler is dropped when the client goes away. *Correct when*: what is recorded
as approved has run, and what is recorded as denied has not.

**Way in** (`tunnel.rs`; activation in `ingress.rs`). *State*: `box.toml`'s
`[ingress]`, `network.toml`, the atomics `desired` and `supervising`, the locked
`Runtime` (child and status), processes. *Operations*: `configure`,
`set_ingress`, `start`, `stop`, the supervisor thread, `startup`. *Hard*: the
supervisor spawns without the lock; two atomics and a mutex are not one state;
connectors die. *Correct when*: there is never a connector nobody can end, and
while one is wanted and none is alive, one comes up or its failure is reported.

**Repository sync** (`pull.rs`, `web/hooks.rs`, `blocking_sync`, `preview_open`
and `preview_close` of `web/mod.rs`). *State*: a service's link in `box.toml`,
the marker with the commit deployed last, the lists that the poller and a
webhook work through. *Operations*: sync, link, unlink, a pass of the poller, a
push, the opening and closing of a preview. *Interaction*: everything but
`unlink` deploys under `apply_lock`, through the reconciler. *Hard*: the marker
and a fresh link are part of no generation; the lists are made without the lock;
`unlink` never takes it; a preview is saved before it has a tree; one service's
failure ends a webhook's list. *Correct when*: a marker never runs ahead of what
was served, what was deleted stays deleted, and a push reaches every service
that can be built, whatever the others do.

**Auth** (`auth.rs`, `webauthn.rs`; the pairing, device and key handlers of
`web/pages.rs`, `boxd auth`). *State*: `auth.json` and its temporary file, the
ceremonies in memory. *Operations*: claim, mint and seed a code, redeem it, mint
and revoke sessions, enrol a key, sign in with one. *Hard*: load, change, save
without a lock, and two savers share one temporary file; codes and ceremonies
expire; a crash between the steps of a save. *Correct when*: what may be used
once gives one session, the first-run claim does not reopen, and a session whose
holder was told of it lasts until it is revoked. Overlapping saves break the
first and the last, which section 3 lists.

**Secrets and config history** (`secrets.rs`, `agecrypt.rs`, `history.rs`,
`restore` of `ops.rs`, `TransientSecret` of `util.rs`, `web/pages.rs`). *State*:
one `.age` file per secret, the Box's identity, the authorized keys, the remote
and what it has. *Operations*: seal, generate the backup key, push, restore
(fetch, drop the identity, re-key every file). *Hard*: re-keying is one file at
a time and stops where it fails; two restores share the file of the operator's
key; the machine is another one; whether there is a backup key is asked long
before one is written. *Correct when*: a restore that completed leaves
everything readable, and a backup key that exists is not replaced.

**Backup** (`backup.rs`, `dumps.rs`, the restore handlers). *State*: dumps and
their `.partial` files, the newest snapshot, `last-backup`. *Operations*: dump,
snapshot, mark, prune, restore a scope. *Hard*: two units may run at once;
containers start, stop and write meanwhile; restic exits 3 with a snapshot that
misses files; the console and the command line read a name differently.
*Correct when*: the marker stands for a backup that can bring back
every service, and a restore writes what it names.

**Forges** (`forge.rs`, `ghapi.rs`, `glapi.rs`, their tools in `web/mcp.rs`).
*State*: `box.toml`'s forges, two secrets (the pending code, the token).
*Operations*: configure, connect, poll, list, fetch, disconnect. *Hard*: agents
call at once and every access to a secret or to `box.toml` is a step of its own;
codes age, are approved late or declined; `box.toml` is brought back under a
token; a listing's answer names the next address. *Correct when*: a token goes
only to the address that issued it, a disconnect holds, and a code that a person
is typing stays the one waited for.

**Publishing** (`ingress.rs`, `cfapi.rs`, the ingress tools of `web/mcp.rs`).
*State*: `[ingress]`, three secrets, and at Cloudflare a tunnel, its rules and
DNS records. *Operations*: connect an account, set up, switch the console,
configure. *Hard*: six requests of which any may fail; the token may be revoked
and is then reminted; somebody tidies up in the dashboard. *Correct when*: what
is reported as done stands, no name leads to a tunnel without rules, and stored
tokens were proven.

**Overnight work** (`work.rs`, `build.rs`, with `history.rs`). *State*: scratch
checkouts, the builder image, the branches of the configuration history.
*Operations*: fetch, check out, run in the sandbox, branch, commit, push, open a
pull request. *Hard*: the checkout has no `.git`, and the directory above has
one. *Correct when*: the configuration's remote is current after a push.

**Installer and first boot** (`src/crates/box-core`, `src/crates/box-installer`,
`web/wizard.rs`, `provision.rs`, `src/nix/installer.nix`,
`src/nix/firstboot.nix`). *State*: the orders, five files in `/tmp`, two wizards,
the claim file, `install-config.json`, the stamp, the credential store.
*Operations*: locate orders, validate, ask in either wizard, resolve a layout,
erase, install; take the claim, seed the owner, settle, scrub, stamp. *Hard*:
two doors, a script that is run again, disks that come and go between a plan
and its commit, commits side by side, steps of the first boot that fail, power
that goes. *Correct when*: nothing is erased that nobody agreed to, and every
Box has exactly the owner its orders name. (Where the code falls short of the
first: `ErasedAsShown`; of the second: `NeverUpUnowned`.)

### Not modelled

| part | why |
|---|---|
| ports: `ports.rs` | a pure choice of a free port inside a deploy, under the apply lock; no state of its own |
| other templates: `templates.rs`, `catalog.rs` | text of Nix modules; what the reconciler needs of a template (materialise, health) is modelled for the static site |
| model router, AI keys, vault, meter | request forwarding, and small files of independent records |
| fleet, connect, cloud, board | discovery and remote calls without local state to keep consistent |
| console, API and MCP front | parsing, rendering and dispatch; the handlers that change state are modelled with the part they call |
| logs, journal | text, and an append-only file |
| `os-switch`, the board check, the force marker | parts of the OS tier's commands that take no part in what the marker and the pin promise |
| scheduling of backups, of the night shift and of the resident | timers; a run may begin at any time in the models |
| image worker, the declarative NixOS modules | a stateless download; declarations |
| cryptography, WebAuthn's protocol, restic, git, nix, Cloudflare | external; each is an answer that may be yes, no or an error |

## 2. The modules

| module | what it is | extends, instantiates |
|---|---|---|
| `Releases` | what the reconciler promises about the profile link, in six actions | |
| `Reconciler` | deploy, delete, rollback, re-apply, settings saves, crash | `INSTANCE Releases` |
| `ReconcilerProofs` | types, unique domains, operations settle, other services are kept, a bad change never sticks, and `Reconciler` implements `Releases` | `Reconciler`, `TLAPS` |
| `OsTier` | the two oneshots, boxd's side of them, the channel | |
| `Jobs` | the registry: start, end, evict, reload | |
| `Approvals` | the queue, the agents and the resident that fill it, its taps, composed with the registry | `Jobs` |
| `Tunnel` | calls, supervisor, connectors, restart | |
| `RepoSync` | poller, webhooks, previews, link and unlink, over one-step deploys | |
| `Auth` | the credential store, load by load and save by save | |
| `ConfigRepo` | secrets, identities, push and restore | |
| `Backup` | dumps, snapshots, the marker, restores | |
| `Forge` | the device flow and what uses its token | |
| `Ingress` | the account's tokens, setup at Cloudflare, the console's rule | |
| `Overnight` | the night's job and the configuration history around it | |
| `Disks` | pure: lsblk's answer, the resolver, the sizes, the orders | |
| `FirstBoot` | what the first boots apply and stamp | `Disks` |
| `Installer` | script, wizards, provisioning, composed with the first boots | `FirstBoot` |
| `MachineProofs` | how a machine becomes a Box: the largest disks are taken, only what was agreed to is erased, recorded and formatted storage agree, an owner arrives; and which system it then runs: the profile never dangles, the pin is kept, the marker is true | `Installer`, `OsTier`, `TLAPS` |
| `ApprovalsProofs` | approvals report what ran; the registry's views agree and show no ghosts | `Approvals`, `TLAPS` |
| `TunnelProofs` | one connector at most, and its status | `Tunnel`, `TLAPS` |
| `AuthProofs` | the claim stays closed, sessions last, what is for one time is used once | `Auth`, `TLAPS` |
| `RepositoryProofs` | what goes to repositories and forges and comes from there: readable restores, one backup key, markers, deletes, tokens, codes | `ConfigRepo`, `RepoSync`, `Forge`, `TLAPS` |
| `BackupProofs` | restores write what they name, dumps stay whole, a mark is for a whole backup | `Backup`, `TLAPS` |
| `IngressProofs` | rules before names, proven tokens, done is done | `Ingress`, `TLAPS` |
| `MC...` | names, definitions of constants and symmetry for TLC | the module of that name |

### Reconciler

`config`, `sources`, `gens`, `current` and `pending` are the files; `pc` and
`job` are the one operation that holds the lock and its locals; `edits` are the
settings handlers. One action is one durable effect, in the order of the code:

    deploy    Materialize, LoadAndMerge, SaveTruncates, SaveWrites,
    delete    LoadAndRemove, SaveTruncates, SaveWrites, Forget,
    both      Render, Record, Switch, HealthPasses | HealthFails, RequestApply
    rollback  RollbackSwitches, RollbackTruncates, RollbackWrites,
              RollbackWipes, RollbackCopies

`Materialize` precedes the merge because the code stages the tree before it
looks at the request's domain, and `Refuse` leaves it there. `BuildFails` and a
failed health check enter the same rollback actions as the operator's request,
as `apply_checked` calls `rollback`. `Crash` drops `pc`, `job` and `edits` and
nothing else. A missing or truncated `box.toml` is `DefaultConfig`, which is
what it parses to.

*Abstractions.* A service is a static site; its parameters and its tree are one
version. Everything in `box.toml` that is no service is one `setting`. The
removal and the copy of the trees are one step each. A build succeeds or fails
by choice. `RequestApply` sets the marker to any value the OS tier may answer;
`OsTier` says which.

### Releases

A release is recorded, tried, and then accepted, reverted or interrupted; the
operator may choose an older one. The refinement mapping takes `gens`,
`current`, "the newest generation is switched to and not yet judged or
restored", the `prev` of the operation, and the number of crashes: only a stop
of the machine may leave a trial without a verdict.

### OsTier

`declared` is what `box.toml` asks, `repo` the repository and its pin,
`profile`/`selected` the system profile, `running` the active system. `unit[u]`
is where a oneshot is, with its locals; `daemon` is where a deploy in boxd is.
Both units run the actions of "What both units do"; `PinBumped`, `BumpFails`
and `PinRestored` are the update's. The marker is written by `AskFails` and
`Told` (boxd) and by `ApplyEnds` (the oneshot clears it). `write_host_repo` deletes the
repository and writes it anew, and may fail before, between and after
(`WipeFails`, `WriteFails`): the unit is then `unwritten`, and nothing puts the
pin back. A build on a repository without a pin resolves the channel and writes
one. `Faults` says which external commands may fail; `Disturbances` which of restart, power loss, overlap
of the two units, and a rollback of the content may happen. Two things are no
state of the code: a unit's `added` says whether its registration made a
generation, and `overdone` that a rollback took back more than its unit had
registered. A `flake.lock` that was cut off is not told from none.

### Jobs and Approvals

`Insert`, `PersistStart`, `Remember` are the three stages of `Registry::start`;
`End`, `PersistEnd` the two of the thread. `Reload` is `Registry::persistent`
after a restart: files that were being written may be torn. A tap goes
`TapApprove`, `Execute` or `ExecuteAsJob` and `JobStarted`, `Resolve`; a
provisioning that fails before it has a job is `ExecuteRefused`, and its result
is the reason;
`Disconnect` drops a handler that waits. `TapDeny` is one step, and has no guard
on the state, as the handler has none. A tool call of an agent goes through
`CallTool`: an `Autonomous` session's is made at once (`Makes`, and `Answers`
instead of `Resolve`), any other's is queued (`RequestApproval`). `RunReport` is
the resident's report, which queues what its model suggests under no session. Job ids are numbers in order of start
(the code's are random; the order of the list is that of the starts).

### Tunnel

`Save` is the write of the call's own file; `Want`/`Swap` are the two halves of
`start`, `Unwant`/`Kill` those of `stop`. The supervisor's loop is `Check`,
`Look`, `Spawn`, `Store`, `Watch` and `Leave`. `held` is a connector that a
supervisor has spawned and not stored. Backoff is not modelled: any step may
take any time. Two supervisor threads exist so that a second one could appear;
`EnsureSupervisor` guards it. `missed` is a history: the last start found
`supervising` set by a supervisor that had read `desired` for the last time.

### RepoSync

`job` is the operation that holds the lock: `Pull` (or `UpToDate`), `Build`,
`Deploy`, for a link `Attach`, and `Mark`, in the order of `sync` and `link`.
`lists` is what the poller and the one webhook that runs still have to sync;
`Takes` is an entry that gets the lock and finds its service linked, or gone.
`events` are the pull request handlers that wait for the lock, in no order, as
the mutex has none. `unlinking` is the unlink in flight with its copy of
`box.toml`. `wish` is a history: what was last asked of a service and done.

*Abstractions.* A deploy is one step, `Applies` or `Reverts`: `Reconciler` is
about its inside, and `BadChangeNeverSticks` is what allows the step to be whole.
The first generation exists. A branch is a number of commits; in `BadCommits` a service lacks its
index page, `Moved` services lose their subdirectory after the first commit.
A preview's branch stays the same. The checkout, the Boxfile and the recorded
outcome shown in the console are left out.

### Auth

`main` is `auth.json`, `tmp` the one temporary file all savers share; `hand[h]`
is a handler or command line with the copy of the store it has loaded. An
operation loads and changes in one step (`Changes`) and saves in three: `Open`
truncates the temporary file, `Write` fills it, `Rename` puts it in place;
`RenameFails`, `Crash` and another handler's `Open` fall between them. `Admit` is
`require_auth`, which looks at the store before the handler loads it.
`told` and `given` are histories of the sessions whose holder was answered, ever
and until they are ended. `Taken`, `Backfilled` and `LoadChecked` are what `load` makes of a file, a
missing or a torn one. Ceremonies of security keys live in memory: `Put`,
`Looks` and `Take` are `webauthn.rs`'s three accesses to that map.
*Abstractions.* Tokens and codes are names; hashing, time and signatures are
answers, and `Expire` may come at any time.

### ConfigRepo

A secret's file is who may open it and which value it holds. `files` is the
secrets directory, `shipped` what the remote has, `identity` the Box's own key,
`keyFile` the one path all restores write the operator's key to. A restore goes
`BeginRestore`, `Fetch`, `Rekey` once per file in any order, `FinishRestore`;
`RekeyFails`, `FetchFails` and `Crash` leave it where it is. `Destroy` is a new
machine: a fresh host key and an empty data directory. The restore job holds the
apply lock; `Push`, `SealService` and the generation of a backup key do not.
`inits[i]` is such a generation, of which several may be under way: `InitLooks`
finds no readable key, `InitChooses` takes the identity it is sealed to,
`InitSeals` writes; `InitFails` anywhere. `halfway` and `raced` are histories: a
restore began and did not finish, and a generation ran into another one or into
a restore.
*Abstractions.* Of what is pushed only the secrets are kept; the configuration is
`Overnight`'s and the reconciler's.

### Backup

`runs[r]` is a unit or command line: `Begin`, then for each database `DumpSkips`
or `DumpOpens` and `DumpDone` or `DumpFails`, then `Snap` (or `SnapMisses`,
restic's exit 3), `Mark`, `Prune`. `Write` and `Toggle` are the
services meanwhile; `Killed` ends a unit anywhere. A dump or a snapshot's part is
`[of, good]`: which state of the data it holds, and whether it is whole. The
marker keeps what its run saved, and which databases ran throughout it.
`Restore` is the console's and the agents', with `ResolveScope`, `CliRestore`
the command line's, with `CliScope`; `restored` is a history: who asked the last
one, for what, and what it wrote.

### Forge

One handler per tool, each access to `box.toml` or to one of the two secrets a
step: `BeginConnect`, `ReadConfig` or `Configure` and `SaveConfig`, `StartAnew`, `Start`,
`Mint`, `KeepPending` for connect; `BeginStatus`, `Poll`, `Ask` and one of `KeepSlower`,
`KeepToken`, `DropPending`; `ListRepos`, `FetchLinked`; `ForgetToken`. `codes[n]` is
the forge's side of a code; `Answer` is the person, `Ageing` the time. `strayed`
collects the tokens the Box sent to another address than their own, `led` those
that followed an answer's next page there. `FileReverts` brings an `Older`
`box.toml` back, as a rollback, a restore, a stale settings save and a cut-off
write do, none of which asks whether there is a token. `moved` and `typed` are
histories: the address moved under a call or a token, and the code a person was
given that nobody else had set out to replace. `Cut` tears the secret that is
being written when the daemon `Halts`.

### Ingress

`call[c]` is a tool call with its locals. `Setup` runs `SetupToken`,
`FindZone`, `CreateTunnel`, `FetchRunToken`, `StoreRunToken`, `PutRules`,
`AddRecord`, and then saves as `Configure` does; after `AuthError` it is
`Remint` and setup from the start. `Connect` is a pasted token that can make
others (`ConnectMints`, `KeepParent`, `KeepChild`) or cannot (`Verify`,
`KeepDirect`). `Console` edits the rule of the console. What is at Cloudflare
(`named`, `rules`, `dns`, the `valid` tokens) changes by these and by `Revoke`,
`DeleteTunnel` and `RemoveRecord`, a person in the dashboard. `proved` and
`ready` are histories: the tokens Cloudflare accepted from the Box, and the
domain last reported as done.

### Overnight

One job is a work run or the site's build: `Fetch`, `CheckOut` into its own
scratch directory, `EnsureImage`, `Install`, `RunSandboxed`, then `Publish` for a
build and `Collect`, `MakeBranch`, `CommitWork`, `PushWork`, `OpenPr` for work.
`head` and `tips` are the configuration history in whose working tree the
checkouts lie. `Change`, `SetRemote` and `Journal` are the rest of the daemon,
which writes there and commits.

### Disks, FirstBoot, Installer

`Disks` is pure: `Parsed` is lsblk's answer read as the code reads it, each disk
at its place in the list; `Eligible` are the places of the disks that will do,
`Before` the order the code sorts them in (larger first, equal ones as listed) and
`Largest` the first of them; `Resolve` takes one, two that match, or all.
`MemberSize` is the size of a mirror's partitions with its saturating subtraction,
and `EffectiveOrders`, `EnsureEnrollment` and `ValidateForInstall` are what the
wizards and the script make of orders. Layouts are functions on the places of
their disks, not sorted lists: the sort decides which disks are taken, and it is
the set that is erased.

`FirstBoot` has an action per effect of `firstboot.nix`: `TakeClaim`,
`CopyClaim`, `SeedOwner`, `Settle`, `ScrubClaim`, `StampApplied`, and the owner's
`RedeemEnrollment` and `ChangeKeys` later; `PowerCut` falls anywhere and may tear
the copy of the orders. `CopyClaim` may fail at its directory or in the middle,
which ends the unit; `SeedOwner` may end the unit at its directory, or fail at
the import and go on to the stamp. `tore` and `unseeded` are histories of these:
the copy was cut short, and the hash was to go into the store and is not there.

`Installer` adds the installer image: the script's steps from `Locate` to
`Install`, the console wizard (`Choose`, `Confirm`, `Idle`, `ConsoleOrders`,
`ConsoleDisko`), the browser wizard (`OpenPage`, `PagePlan`, `Commit`,
`WriteOrders`, `WriteDisko`, `WriteFlag`), the files they share, and `Ship` and
`Pair`, another Box that provisions this machine. A commit needs the PIN and
nothing else: that a plan is shown and ERASE typed is the page's doing, the
server asks lsblk and resolves again, and `writes` holds the commits under way
side by side. The PIN is the start's own, or the orders'. `StartAgain` is the script
after a refusal, with the earlier files still there; the web server and what it is
writing are there too, or were ended with the unit. `Plug` changes what
lsblk lists, at any time. `agreed`, `blind` and `chose` are histories: the layouts
somebody consented to since the script was started, those a commit resolved to
that its page had not shown, and which doors committed, with (`BadCode`) whether
a setup code went with it whose hash is none. `Sources` are the orders a layout
may come from, `AskedMins` the smallest disks they ask for.

## 3. What is checked

### Runs that pass

| run | instance | shows |
|---|---|---|
| `reconciler` | 2 services, 2 versions (one unhealthy), no domains, 1 settings writer, 2 generations, 1 disturbance (a crash or a save outside the lock) | `DeclaredIsServed`, `BadChangeNeverSticks`, `OperationsSettle`, `OnlyTheNamedServiceChanges`, and `Reconciler` implements `Releases` |
| `os_tier` | 2 configs, 2 releases (one unhealthy), 3 generations, every external command but the rollback may fail, and the regeneration of the repository; 1 disturbance | `UnmarkedMeansCurrent`, `FailedUpdateKeepsPin`, `DeployAnswered` |
| `approvals` | 2 calls (one starts a job), an agent, an operator, one with leave to act at once, the resident, 2 taps, 2 jobs, a list of 1, 1 restart | `NoGhosts`, `ViewsAgree`, `ApprovedHasRun`, `JobsEnd` |
| `tunnel` | 2 callers, 3 calls, a way with a connector and a kept one, 2 spawns, 1 restart | `NoStrayConnector`, `StatusIsOfTheChild`, `ConnectorComesBack` |
| `repo_sync` | 2 sites on one branch (one stops building), a preview (its second commit is unhealthy), 2 commits, 3 requests, 2 of: a failing git, build or system, a crash, an unlink, a rollback | `MarkerWasServed`, `DeletedStaysDeleted`, `PushesArrive` |
| `auth` | 2 handlers, 3 tokens, a pairing and an enrollment code, 1 key, 2 ceremonies, 3 requests, 1 crash; from a fresh and from an enrolled Box | `OneTimeMeansOnce`, `ChallengesAreNotReplayed`, `ClaimIsClosed`, `ToldSessionsLast` |
| `config_repo` | a service's secret and the backup password, 2 operators, 2 restore jobs, 2 restores, 2 generations of the backup key at a time, 2 machines, 3 identities, 2 values | `RestoredIsReadable`, `KeyIsKept` |
| `backup` | the timer's and the on-demand unit, a database, a service with a volume and one without, 1 write, 2 runs, 1 restore, from the console or the command line | `MarkedIsWhole`, `DumpsAreWhole`, `NeverWidened` |
| `forge` | a self-hosted forge at 2 addresses, 2 callers, 4 calls or reverts of `box.toml`, to no entry or the second address, 2 codes | `TokenStaysHome`, `GoneIsGone`, `TypedCodeStands` |
| `ingress` | 2 callers, 3 calls, 2 domains, a token that may make others and one that may not, 2 made, 2 tunnels, 1 thing done in the dashboard or restart | `DoneIsDone`, `RulesBeforeNames`, `TokensAreProven` |
| `installer` | two internal disks, or one and a stick, which may change places at any time; orders that are complete, ask, lack consent, are malformed or name a disk; no pasted code, one without a hash or with a malformed one; 1 commit of a page, 2 starts of the script with one web server or two, 1 loss of power, failing steps of the first boot | `ErasedAsAgreed`, `Owned`, `RecordedAsFormatted`, `OwnerArrives`, `OperatorStands`, `NeverHangs` |

*Why the bounds are enough.* Two generations are the fewest with something to go
back to and something to go wrong; the second request may be any operation, so
every pair of a finished and a running one occurs. Two services are the fewest
with "another one"; `NameSymmetry` permutes the services, which the
specification treats alike. One crash or one save, at any step, is the case the
code has to withstand; after it the run continues with whole operations. That
domains are unique is proved, and the run has none. In `os_tier`, three
generations admit a failed update after a successful apply; the second
config is what a rollback that goes back too far would bring, and the unhealthy
release what an update fails on; both configs are healthy, since the check does not
tell which of the two made a system unhealthy, and the proofs are for any; a
rollback fails there only when nothing older
exists, which is the failure `nix-env` itself reports. In `approvals` a list of
one makes the second job evict the first, still running. In `tunnel` three calls
are on, off, on; two spawns are a connector and its replacement. In `repo_sync`
three requests are two links and one that interferes (a webhook, a delete, a
preview, an unlink, a deploy by hand); the second commit is the first that
differs from a marker, the one with which a site stops building, and the one that
makes the preview unhealthy.
In `auth` two handlers interleave at every step of load and save, three requests
are one that grants, one that saves a stale copy and one that profits; each code
is tried by both handlers. In `config_repo` the second machine is the one a
restore is for, the second job the one that overwrites the key file, the second
generation the one that replaces the first one's key, and three
identities are the first, the one a restore drops and the next. In `backup` two
units dump the same database, and a restore follows a marked run. In `forge` the
second address is the one a token must not go to, the second code the one that
replaces the first; four calls are connect, reconnect, poll and one more, or one
revert among them. In
`ingress` the second tunnel is the one made after the first was deleted, the
second domain the one another setup publishes. In `installer` a second start of
the script finds the files of the first, and the two disks differ in size, which
is what a mirror's members are sized by. One commit of a page is what TLC can
afford beside two starts; two commits side by side are what the proofs add.

*Deadlock.* Checked in `reconciler`, `approvals` and `repo_sync`. Off in the
other runs: when the bounds are used up and nobody deploys, calls or asks, the
machine rests, and an installed or refused machine is done.

*Fairness.* `OsTier`: each oneshot, and boxd while it asks or listens, takes its
next step; these are processes the operating system schedules. `Approvals`: the
threads of a job. `Tunnel`: startup, the supervisor threads, and a call between
its two atomic accesses in `start`, where nothing can fail or wait. `RepoSync`: the
operation under the lock, the poller, a webhook's list, the pull request
handlers and the rest of an unlink; the lock itself is promised to nobody. The
poller may keep a webhook from it for ever, but works through the same services;
only the bounded requests of others can keep the poller from it. `Installer`:
the script, and the console wizard's loop, its idle clock and its two writes,
while the machine installs; `NeverHangs` is about a machine at which nobody
touches a key any more. Nobody is ever obliged to deploy, tap, call, publish a release,
press a key or stay connected, and no external command is obliged to succeed.
The other modules state no liveness property and no fairness.

### The run that shows a disagreement with a statement of the repository

| run | statement | what happens |
|---|---|---|
| `stale_offsite` | `history.rs:271`: push the config repo to its remote; `work.rs:11`: the blast radius is a branch nobody has to merge | the night's `checkout -B` moves the HEAD of the configuration history; pushes go through and bring an old `main` |

The modules keep further statements of the repository as definitions that the
code does not live up to. No run lists them; a configuration that adds one shows
its counterexample.

| definition | statement | what happens |
|---|---|---|
| `Reconciler.RollbackIsAtomic` | README: rollback is atomic | a crash between the switch and the copies leaves one without the other |
| `OsTier.FailedUpdateRestoresSystem` | `channel.rs:7-8`: roll back if the new platform does not come up | the second failure in a row rolls back onto the first one's broken system |
| `OsTier.MarkerTellsAll` | `ostier.rs:62`: "recording that the running system is BEHIND the config" | an update whose registration failed, or whose system is the newest already, rolls the profile back by a generation it has not added; an earlier config's system runs, unmarked |
| `OsTier.DeploysKeepThePin` | `hostgen.rs:181`: a routine deploy "must not silently re-resolve the channel" | a regeneration fails after it deleted the repository, `flake.lock` with it; the next deploy builds what the channel resolves to then |
| `Approvals.DeniedHasNotRun` | `web/mcp.rs:380`: "denied means no" | a Deny after, or during, the execution |
| `Tunnel.ResumesWhatWasLeftOn` | `tunnel.rs:120`: resume if a way in was left enabled | two files, neither clears the other |
| `Tunnel.WantedComesUp` | `tunnel.rs:1`: boxd "supervises a `cloudflared tunnel run` child process" | a start takes a supervisor that has looked at `desired` for the last time for one that goes on; nobody keeps the way in up until the next call or restart |
| `Tunnel.OffIsDown` | `tunnel.rs:135`: turn it on or off | a stop between the spawn and the store |
| `RepoSync.UnlinkStopsPulls` | `pull.rs:518`: an unlink "stops future pulls" | a deploy of something fails, and the config it restores has the link |
| `Auth.NeverHalf` | `auth.rs:179`: "either the old file or the new one, never half" | a second save truncates the temporary file the first is about to rename |
| `Auth.CodesAreSpentOnce` | `auth.rs:352`: "consumed whether or not it was still valid, so it can't be replayed" | two redeems load the store before either saves, and each answers with a session; or a stale copy brings the code back |
| `ConfigRepo.KeyIsNeverReplaced` | `backup.rs:33`: refuses to overwrite an existing key | two generations both look before either writes; or a restore that stopped half way left a key the Box cannot open, which counts as none |
| `Backup.CliNeverWidened` | `main.rs:277`: "Restore only this service's data." | `--service` with a name that has no state directories filters nothing, and the entire snapshot is written back (`main.rs:737-741`) |
| `Forge.NeverSentElsewhere` | `forge.rs:93`: "so a stored credential is never sent to a new address" | a configure checks for a token that another call is about to store; `box.toml` is brought back with another address under a token; a listing follows the address an answer names (`forge.rs:444`) |
| `Forge.AskingTwiceKeepsTheCode` | `forge.rs:487`: "a flow already waiting on the person returns the SAME code" | two connects both look before either keeps its code |
| `FirstBoot.SingleUse` | `auth.rs:316`: a single-use code | power goes before the stamp, and the code is seeded again |
| `FirstBoot.NeverUpUnowned` | `src/nix/firstboot.nix:77-79`: a Box with no owner is "the one outcome worth ordering the whole script around" | a failed import is told to the journal, the stamp is set all the same, and no boot tries again |
| `Installer.NeverOwnerless` | `web/wizard.rs:228`: "never install a Box nobody owns" | orders leave the storage open; a setup code with a malformed hash is pasted and committed, and the script, which validates before it asks, does not look again |
| `Installer.ErasedAsShown` | `web/wizard.rs:8`: committing "demands an explicit ERASE confirmation", given under a list of disks (line 351) | a disk comes or goes between the plan and the commit, which resolves again and erases what nobody was shown |
| `Installer.OwnerCanClaim` | `web/wizard.rs:231`: "hand the code back and let the page show it" | the page drops the code that was minted |
| `Installer.DoorsNeverMix` | `web/wizard.rs:36`: "the two doors never both drive an install" | both commit, the orders of one and the layout of the other are used |

## 4. What is proved

Each theorem is for every value of the constants, from the module's named
assumption alone: sets of names are disjoint where the code's types are, the
model values that stand for "none", "absent" or "torn" are none of the others,
and bounds are natural numbers. Every inductive invariant was a TLC run's
invariant before it was proved. A proof has one lemma per action or group of
actions, and a theorem that puts them together. The type invariants of most
modules are not inductive as they stand, for a local that is about to be stored
has to have a type too, so a "shape" comes first (`TypeInv`, `JobsShape`,
`FilesTyped`, `RunShape`, `ShapeInv`).

**`ReconcilerProofs`**, for any services, versions, domains, settings and
writers:

* `TypeCorrect` (`TypeOK`): the profile link never dangles.
* `DomainsCorrect` (`DomainsUnique`; no run lists it, with a domain the instance
  of `reconciler` has too many states).
* `BadChangesRevert` (`BadChangeNeverSticks`), and `ImplementsReleases`
  (`ServesReleases`), the refinement.
* `EndsInStep` (`OperationsSettle`), `NothingLeftDeclared` (`DeclaredIsServed`)
  and `OthersAreKept` (`OnlyTheNamedServiceChanges`).

`TypeInv` adds `JobOK` to `TypeOK`: between `Render` and the end of the
operation `job.prev` is at most `Len(gens)`, the restore's target is a
generation, and at `switch` the newest generation is recorded. `DomainsUnique`
needs more: the copies that are still to be written - the operation's `job.cfg`,
its built generation, each settings handler's `edits` - must be free of clashes
too (`DomainsInv`), and the one step that adds a domain, `LoadAndMerge`, is the
one that compares it. The theorems about the profile link rest on `TrialInv`: at
`switch`, `current` is still the `prev` that was read, and in the restore of a
failed change the target is `prev`; so a trial can end only at a sound generation
or at the one before it. In the refinement every step that does not touch the
link stutters.

What an operation leaves behind is two invariants. `SettledInv`: from `Render`
on, what is built, recorded and tried is of `box.toml` and the staged trees as
they are, and a restore has the snapshot's config before it touches the trees.
It survives crashes, because `Render` reads the files again; it does not survive
a settings handler that saved underneath. `QuietInv`: with neither, `box.toml`
is the served config until the operation saves its own, and what it saves, builds
and serves differs in the one service it is about (`OthersKept`).

**`MachineProofs`**, about four modules.

*Installer*: `OnlyWhatWasAgreed` (`ErasedAsAgreed`), `EveryBoxIsOwned` (`Owned`),
`TheRecordIsTrue` (`RecordedAsFormatted`) and `TheInstallerIsTyped`
(`InstallerTypeOK`), for any inventories, orders, shipped orders and pasted codes
(`OrdersAssumption`: they are lists of devices and orders of the right shape;
`SizesAssumption`: the smallest disk has room for the ESP; at least one start).
`InstallerInv` is a conjunction of parts a step disturbs one at a time.
`Shape` is the form of each file and each door. `Flow` says where the script may
be, by what the machine was started with: nothing has happened before the machine is
reached (`NotBegun`); orders that leave nothing open never open a door (`ByOrders`);
without orders nothing is resolved from any (`ByHand`); and disko's configuration is
settled before the steps that use it (`InTurn`). `AgreedInv` follows a layout from
the consent to disko: the layouts the console and every commit in `writes` are
writing, the one in the file while the script may still take it, and the one that
was erased have been agreed to since the start, or were resolved by a commit whose
page had shown something else (`Consented` is `agreed` and `blind` together). It
is where the removal of the old files in
`RunWizards` is needed; a commit that is still being written when the script is
started again keeps its consent, which is what `StartAgain` leaves in `agreed`
and `blind`. Disks may change at any step, commits are as many at a time as there
are, and the exact set of the exceptions is `blind`: a commit adds to it only when
its plan was another one.
`FitInv` says of the same layouts that their disks are internal and at least of a
size some orders asked for, or that orders name the disk (`Sound`), and of orders
that their size and disk are among those asked for (`Origin`). `ChoiceInv` counts:
every commit adds to `chose`, and with one of them in the first start there is one
layout that was agreed to, which the orders on their way record. `OwnersInv` says
that orders past the validation, and those a door is about to write, have a hash,
unless a page committed a bad code.

*Disks*: `TheLargestAreTaken` is the reference the resolver is held against, for any
answer of lsblk, layout and smallest size: how many disks are taken, that none left
is larger than one that was taken, and what it refuses. `Largest` counts the disks
that come first; that there are as many as asked for rests on `FirstOfDisks` (of
finitely many disks, the one with the fewest before it has none) and on `Before`
being strict and total (`BeforeOrders`).

*FirstBoot*: `TheOwnerArrives` (`OwnerArrives`) and `WhatTheOperatorSetStands`
(`OperatorStands`), for any number of losses of power. `HandoffInv` says that
before the first boot the store is empty (`NotStarted`), that a boot takes the claim
only when there are no orders and never once stamped (`OrdersTaken`), that past
`SeedOwner` the hash of the orders is in the store or was redeemed, unless that
step itself failed (`OwnerFirst`), and whose orders they are (`WhoseOrders`). What
is proved is what the order of the script is for: no failure of the steps after
`SeedOwner`, and no loss of power at any of them, leaves a Box without its owner.
That the step itself may fail for good is `NeverUpUnowned`.

The installer's attempts changed the model in three places. `Owned` had been
stated under an assumption that no pasted code is malformed, which the code does
not justify; the assumption is gone, the property names the exception, and
`NeverOwnerless` keeps the statement of the source. The members of a mirror fit
only if the orders' `min_disk_gb` leaves room for the ESP, which no code checks;
`MirrorFits` says so. `OwnerArrives` is about hashes that are one, since the
daemon refuses the others.

*OsTier*: `SystemsTyped` (`TypeOK`), `PinIsKept` (`FailedUpdateKeepsPin`) and
`MarkerIsTrue` (`UnmarkedMeansCurrent`). `PinInv` follows the pin an update saved
through its steps, and needs that the units do not overlap: each rewrites the
repository. An update that could not regenerate the repository (`unwritten`)
leaves the pin it found or none, never the one it was to try; what a lost pin
does to the next deploy is `DeploysKeepThePin`. `MarkerInv` says that when nothing is known to be missing (`Settled`),
what runs and what the newest generation holds is what `box.toml` asks for, that
every unit under way brings that config (`Brings`), and that the generation an
update would fall back to has it too (`FallsBack`). It holds whichever
commands fail, but says nothing once something is known to have disturbed it: a
restart while boxd waited, a power loss, an overlap, a rollback of `box.toml`
(`disturbed`), or an update that took back what it had not added (`overdone`). The attempt showed that
`UnmarkedMeansCurrent` as it was stated before held only because one healthy
config was too few: `MarkerTellsAll` keeps that statement, and the property now
leaves out what follows a rollback by a unit that had added nothing.

**`ApprovalsProofs`**: `ApprovalsReport` (`ApprovedHasRun`),
`RunningJobsHaveThreads` (`NoGhosts`) and `RegistryAgrees` (`ViewsAgree`).
`TapsReport` says that a handler at its last step holds the number of an
execution that happened, the id of a job that started, or, for a call whose
execution started none, the reason; `Grows` says that no
step takes such an outcome back, a restart included, so what the ledger recorded
stays true. `NoGhosts` is inductive with the shape of the registry, because
`Reload` marks what it finds running. The map and the list are written under two
locks: `ViewsInv` adds that no id is in the list twice, so that evicting the last
entry evicts it from both.

**`TunnelProofs`**: `NoneIsStray` (`NoStrayConnector`) and `StatusIsTrue`
(`StatusIsOfTheChild`). `OneSupervisor` ties the flag `supervising` to the one
thread there is; `Connectors` says that a supervisor about to spawn or to store
sees no child, and that whatever is alive is the child or held by it. Hence at
most one connector is alive.

**`AuthProofs`**: `ClaimStaysClosed` (`ClaimIsClosed`), `SessionsLast`
(`ToldSessionsLast`), `OneTimeIsOnce` (`OneTimeMeansOnce`) and
`ChallengesAreOnce` (`ChallengesAreNotReplayed`). The invariants range over
every place a store can be in: the file, the temporary file, and each handler's
copy. For the claim, every one that a later save could put in place is closed
once somebody was given a session, as long as no file was torn (`ClosedStores`).
For sessions, while no two saves have overlapped there is one saver at most, its
copy holds every session that was told less the one it ends, and what it renames
is that copy (`KeptSessions`). For what is good once, in each store no two
sessions have one origin and no session's origin is still to be redeemed
(`StoresOnce`); stale copies may bring an old session or an old code back, but
always together with the state they belong to. `ToldInv` adds that, while no two
saves have overlapped, no two holders were ever told of a session for one
credential, revoked ones included. `HandedOut` says that a
ceremony that waits for an answer has let nobody in.

**`RepositoryProofs`**, about three modules.

*ConfigRepo*: `SecretsTyped` (`CRTypeOK`), `RestoresAreReadable`
(`RestoredIsReadable`) and `KeysAreKept` (`KeyIsKept`). `KeyInv` says that one
restore at most is under the lock (`OneLock`), that what it has re-keyed so far
opens for its reader (the Box's identity or the host's key), and that everything
does when none was left half way (`KeysRead`). `init_key` looks, chooses and
writes in three steps without a lock, so the other half of `KeyInv` is about
those that did not run into anything (`InitsAlone`): there is no other one and no
restore beside it, there still is no key, and the identity it chose is the Box's
(`NoneBeside`). `CRTypeOK` is needed because nothing is sealed to an identity
that was never made.

*RepoSync*: `SyncsTyped` (`TypeOK`), `MarkersWereServed` (`MarkerWasServed`) and
`DeletesStand` (`DeletedStaysDeleted`). A job that is about to attach or to mark
has deployed its commit already (`MarkerInv`), and no step forgets a generation
(`GenerationsStay`). While no unlink overlapped, `DeletedInv` says that a
service whose delete went through is in neither `box.toml` nor the config that
is served (`Gone`), and that no sync of it is under way: `Takes` looks under the
lock.

*Forge*: `ForgeTyped` (`FGTypeOK`), `TokensKeepHome` (`TokenStaysHome`),
`GoneForGood` (`GoneIsGone`) and `TypedCodeWaits` (`TypedCodeStands`).
`HomeInv` relates what each call has read to what `box.toml` says now: as long
as no configure overlapped another call, and `box.toml` was not brought back
under a call or with another address under a token, a call knows its forge as it
is, whoever is asked is where the forge is, and the one call that saves leaves the
address of a forge with a token (`SavesAlone`). Reverts with nothing under way, or
that leave the address alone, are among the steps it survives. The theorem is
about where the Box sends a token; where an answer leads one (`led`) is in
`NeverSentElsewhere`. `GoneInv` lists the calls there may be after
a disconnect: none of them can come to wait for a code. `TypedInv` says that of
the calls under way none would replace or drop the code a person is typing
(`Harmless`): whoever starts, configures or polls after it was kept finds it, and a
poll that writes a code back writes this one. Calls that had looked before are the
case of `AskingTwiceKeepsTheCode`.

**`BackupProofs`**: `RestoresStayNamed` (`NeverWidened`), `DumpsStayWhole`
(`DumpsAreWhole`) and `MarksAreWhole` (`MarkedIsWhole`). The first is about all
three ways to ask, the console, an agent's call and the command line
(`CliScopeIsNamed`), with `CliNeverWidened` for what it leaves out. The second needs that,
until two runs dumped the same database at a time, no run's `.partial` file was
truncated under it (`DumpsInv`). The third follows a run that is alone through its
steps: what it has reached (`Reached`) is fresh, dumps or volumes first, then the
snapshot, and a run that another one came into promises nothing.

**`IngressProofs`**: `RulesComeFirst` (`RulesBeforeNames`), `TokensWereTried`
(`TokensAreProven`) and `DoneStands` (`DoneIsDone`). The first two rest on what
each call has learned (`Learned`): a setup that is about to add the record has a
tunnel with rules, and a token a call is about to keep was accepted. Rules of a
tunnel are replaced and never withdrawn, so what one call learned another cannot
undo. `DoneInv` adds, for a setup that is alone, how far the chain stands at each
of its steps: the stored credential, the rules and the record name one tunnel
(`Stands`), whichever of them an earlier attempt had left behind.

*Only model-checked*: liveness (`DeployAnswered`, `JobsEnd`, `ConnectorComesBack`,
`PushesArrive`, `NeverHangs`), since fairness and ENABLED are out of the prover's
reach. Every safety invariant and action property that a passing run lists is
stated by a theorem.

## 5. What is left

Within the modelled parts, these details of the code are left out:

* *Reconciler and config history*: `boxd apply`, `rollback` and `restore` on the
  command line (`main.rs:394-398`, `426-430`, `529-536`) run in a process of their
  own, where `apply_lock` keeps nobody out; the models have every operation of
  this kind under the lock, so a second one beside it is not among their
  behaviours. An error of the file system inside a rollback itself is not either.
* *OS tier*: a deploy in boxd is one successful step before the request;
  `Reconciler` has its inside.
* *Approvals*: the write of the ledger's file (`approvals.rs:68`) is whole or not at all.
* *Auth*: a rename is durable (`auth.rs:198` does not sync the directory);
  `RegisterStart` loads and puts its ceremony in the other order than
  `web/pages.rs:3842-3851`.
* *Secrets*: sealing one file, and making the Box's identity, are one step each.
* *Forges*: `BeginConnect` is one step for the two reads at `web/mcp.rs:1352` and `1364`.
* *Publishing*: setup with `enable=false` (`web/mcp.rs:1286`, `1292`) and the label of
  the hostname (`ingress.rs:667`).
* *Repository sync*: a preview has one parent (`web/mod.rs:437-463` goes through
  several), and a forced sync is none; the checkout, the Boxfile and the recorded
  outcome.
* *Installer*: the three files in `/tmp` are written and read whole.

Parts that could still be modelled: the choice of a port (`ports.rs`) as a pure
module with a reference definition; the recorded outcome of a sync and previews
whose branch moves; the backup's destination and its status; `os-switch`.
