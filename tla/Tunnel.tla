-------------------------------- MODULE Tunnel --------------------------------
(***************************************************************************)
(* The way in from the internet: two files that say whether it is on, a    *)
(* flag in memory that says whether it is wanted, and one supervisor       *)
(* thread that keeps a connector process alive while it is.  The console   *)
(* and agents turn it on and off from threads of their own; only the       *)
(* `runtime` record is behind a lock, and never across a spawn.            *)
(***************************************************************************)
EXTENDS Naturals, FiniteSets

CONSTANTS
  Callers,      \* threads that call configure or set_ingress
  Ways,         \* ways in that need a connector (quick-share, a domain)
  KeptWays,     \* ways in another daemon keeps (tailscale-funnel)
  MaxCalls,     \* bound: calls made
  MaxSpawns,    \* bound: connectors started
  MaxRestarts,  \* bound: restarts of the daemon
  Token,        \* the connector of a Box whose box.toml names no way in
  None

Threads == 1 .. 2
Conns   == [n : 1 .. MaxSpawns, via : Ways \cup {Token}]

ASSUME TunnelAssumption ==
  /\ MaxCalls \in Nat /\ MaxSpawns \in Nat /\ MaxRestarts \in Nat
  /\ Ways \cap KeptWays = {} /\ Token \notin Ways \cup KeptWays
  /\ None \notin Conns

VARIABLES
  wayIn,        \* box.toml: the way in, and whether it is enabled
  legacy,       \* network.toml: cloudflare_enabled
  kept,         \* what tailscaled was told
  up,           \* the daemon is past startup
  desired, supervising,
  child,        \* runtime.child
  state,        \* runtime.state
  live,         \* connector processes there are
  sup, held,    \* each supervisor thread, and the connector it has not stored
  call,         \* each caller
  asked,        \* history: whether the last call that was saved turned it on
  missed,       \* history: the last start found a supervisor that was leaving
  calls, spawned, restarts

files   == <<wayIn, legacy, kept>>
runtime == <<child, state>>
bounds  == <<calls, spawned, restarts>>
vars == <<files, up, desired, supervising, runtime, live, sup, held, call, asked, missed,
          bounds>>

Idle  == [how |-> "none", via |-> None, on |-> FALSE, at |-> "idle"]
Steps == {"called", "activate", "start", "swap", "stop", "kill", "deactivate"}

Init ==
  /\ wayIn = [via |-> None, on |-> FALSE] /\ legacy = FALSE /\ kept = FALSE
  /\ up = FALSE /\ desired = FALSE /\ supervising = FALSE
  /\ child = None /\ state = "none" /\ live = {}
  /\ sup = [t \in Threads |-> "none"] /\ held = [t \in Threads |-> None]
  /\ call = [c \in Callers |-> Idle]
  /\ asked = FALSE /\ missed = FALSE /\ calls = 0 /\ spawned = 0 /\ restarts = 0

-----------------------------------------------------------------------------
(* Calls. *)
CallGoes(c, to) == call' = [call EXCEPT ![c].at = to]
Returns(c) == call' = [call EXCEPT ![c] = Idle]
At(c, step) == up /\ call[c].at = step

Call(c) ==
  /\ up /\ call[c] = Idle /\ calls < MaxCalls
  /\ \E on \in BOOLEAN :
       \/ call' = [call EXCEPT ![c] =
                     [how |-> "configure", via |-> Token, on |-> on, at |-> "called"]]
       \/ \E w \in Ways \cup KeptWays :
            call' = [call EXCEPT ![c] =
                       [how |-> "set_ingress", via |-> w, on |-> on, at |-> "called"]]
  /\ calls' = calls + 1
  /\ UNCHANGED <<files, up, desired, supervising, runtime, live, sup, held, asked,
                 missed, spawned, restarts>>

(* No token, or a preflight that says what is missing: nothing is saved. *)
Refused(c) ==
  /\ At(c, "called") /\ call[c].on
  /\ Returns(c)
  /\ UNCHANGED <<files, up, desired, supervising, runtime, live, sup, held, asked, missed,
                 bounds>>

(* set_ingress writes box.toml, configure writes network.toml, and neither *)
(* looks at the other's.                                                   *)
Save(c) ==
  /\ At(c, "called")
  /\ IF call[c].how = "configure"
     THEN /\ legacy' = call[c].on
          /\ CallGoes(c, IF call[c].on THEN "start" ELSE "stop")
          /\ UNCHANGED wayIn
     ELSE /\ wayIn' = [via |-> call[c].via, on |-> call[c].on]
          /\ CallGoes(c, IF call[c].on THEN "activate" ELSE "stop")
          /\ UNCHANGED legacy
  /\ asked' = call[c].on
  /\ UNCHANGED <<kept, up, desired, supervising, runtime, live, sup, held, missed, bounds>>

Activate(c) ==
  /\ At(c, "activate")
  /\ kept' = (kept \/ call[c].via \in KeptWays)
  /\ CallGoes(c, "start")
  /\ UNCHANGED <<wayIn, legacy, up, desired, supervising, runtime, live, sup, held,
                 asked, missed, bounds>>

(* The file already says enabled. *)
ActivateFails(c) ==
  /\ At(c, "activate") /\ call[c].via \in KeptWays
  /\ Returns(c)
  /\ UNCHANGED <<files, up, desired, supervising, runtime, live, sup, held, asked, missed,
                 bounds>>

-----------------------------------------------------------------------------
(* start and stop. *)
Want(c) ==
  /\ At(c, "start")
  /\ desired' = TRUE
  /\ CallGoes(c, "swap")
  /\ UNCHANGED <<files, up, supervising, runtime, live, sup, held, asked, missed, bounds>>

SpawnsSupervisor ==
  /\ supervising' = TRUE /\ missed' = FALSE
  /\ \E t \in Threads : /\ sup[t] = "none"
                        /\ sup' = [sup EXCEPT ![t] = "check"]

(* A supervisor that has read `desired` for the last time and not cleared  *)
(* `supervising` yet is taken for one that goes on.                        *)
EnsureSupervisor ==
  IF supervising
  THEN missed' = (\E t \in Threads : sup[t] = "leave") /\ UNCHANGED <<supervising, sup>>
  ELSE SpawnsSupervisor

Swap(c) ==
  /\ At(c, "swap")
  /\ EnsureSupervisor
  /\ Returns(c)
  /\ UNCHANGED <<files, up, desired, runtime, live, held, asked, bounds>>

Unwant(c) ==
  /\ At(c, "stop")
  /\ desired' = FALSE
  /\ CallGoes(c, "kill")
  /\ UNCHANGED <<files, up, supervising, runtime, live, sup, held, asked, missed, bounds>>

(* A mutant: the record is cleared and the process left alone. *)
ForgetChild == live' = live /\ child' = None /\ state' = "disabled"

(* Under the lock, with the wait for the process to be gone. *)
KillChild == live' = live \ {child} /\ child' = None /\ state' = "disabled"

Kill(c) ==
  /\ At(c, "kill")
  /\ KillChild
  /\ IF call[c].how = "configure"
     THEN Returns(c)
     ELSE CallGoes(c, "deactivate")
  /\ UNCHANGED <<files, up, desired, supervising, sup, held, asked, missed, bounds>>

(* Only the way in that was named is deactivated, and its error ignored. *)
Deactivate(c) ==
  /\ At(c, "deactivate")
  /\ kept' \in IF call[c].via \in KeptWays THEN {kept, FALSE} ELSE {kept}
  /\ Returns(c)
  /\ UNCHANGED <<wayIn, legacy, up, desired, supervising, runtime, live, sup, held,
                 asked, missed, bounds>>

-----------------------------------------------------------------------------
(* The supervisor thread.  Its sleeps are not modelled: any step may wait. *)
Goes(t, from, to) == up /\ sup[t] = from /\ sup' = [sup EXCEPT ![t] = to]

Check(t) ==
  /\ Goes(t, "check", IF desired THEN "look" ELSE "leave")
  /\ UNCHANGED <<files, up, desired, supervising, runtime, live, held, call, asked, missed,
                 bounds>>

Look(t) ==
  /\ Goes(t, "look", IF child = None THEN "spawn" ELSE "watch")
  /\ UNCHANGED <<files, up, desired, supervising, runtime, live, held, call, asked, missed,
                 bounds>>

(* box.toml is read again at every spawn. *)
Via == IF wayIn.on THEN wayIn.via ELSE Token

Spawn(t) ==
  /\ Via \notin KeptWays /\ spawned < MaxSpawns
  /\ Goes(t, "spawn", "store")
  /\ LET conn == [n |-> spawned + 1, via |-> Via]
     IN live' = live \cup {conn} /\ held' = [held EXCEPT ![t] = conn]
  /\ spawned' = spawned + 1
  /\ UNCHANGED <<files, up, desired, supervising, runtime, call, asked, missed,
                 calls, restarts>>

(* A way in that is kept elsewhere always ends here: it has no command. *)
SpawnFails(t) ==
  /\ Goes(t, "spawn", "check")
  /\ state' = "failed"
  /\ UNCHANGED <<files, up, desired, supervising, child, live, held, call, asked, missed,
                 bounds>>

(* The lock is taken after the spawn, and `desired` is not read again. *)
Store(t) ==
  /\ Goes(t, "store", "watch")
  /\ child' = held[t] /\ held' = [held EXCEPT ![t] = None]
  /\ state' = "running"
  /\ UNCHANGED <<files, up, desired, supervising, live, call, asked, missed, bounds>>

(* Mutants: an exit changes only the status, or is not noticed. *)
ReapsStatus == IF child # None /\ child \notin live
               THEN state' = "failed" /\ UNCHANGED child
               ELSE UNCHANGED runtime
NeverReaps  == UNCHANGED runtime

Reap == IF child # None /\ child \notin live
        THEN child' = None /\ state' = "failed"
        ELSE UNCHANGED runtime

Watch(t) ==
  /\ Goes(t, "watch", "check")
  /\ Reap
  /\ UNCHANGED <<files, up, desired, supervising, live, held, call, asked, missed, bounds>>

Leave(t) ==
  /\ Goes(t, "leave", "none")
  /\ supervising' = FALSE
  /\ UNCHANGED <<files, up, desired, runtime, live, held, call, asked, missed, bounds>>

-----------------------------------------------------------------------------
(* Outside: a connector exits by itself; the daemon restarts, and systemd  *)
(* ends its connectors with it.                                            *)
ConnectorExits ==
  /\ \E conn \in live : live' = live \ {conn}
  /\ UNCHANGED <<files, up, desired, supervising, runtime, sup, held, call, asked, missed,
                 bounds>>

Restart ==
  /\ up /\ restarts < MaxRestarts
  /\ up' = FALSE /\ desired' = FALSE /\ supervising' = FALSE
  /\ child' = None /\ state' = "none" /\ live' = {}
  /\ sup' = [t \in Threads |-> "none"] /\ held' = [t \in Threads |-> None]
  /\ call' = [c \in Callers |-> Idle] /\ missed' = FALSE
  /\ restarts' = restarts + 1
  /\ UNCHANGED <<files, asked, calls, spawned>>

LeftEnabled == wayIn.on \/ legacy

Startup ==
  /\ ~up /\ up' = TRUE
  /\ desired' = LeftEnabled
  /\ IF LeftEnabled THEN SpawnsSupervisor ELSE UNCHANGED <<supervising, sup, missed>>
  /\ UNCHANGED <<files, runtime, live, held, call, asked, bounds>>

CallNext(c) ==
  \/ Call(c) \/ Refused(c) \/ Save(c) \/ Activate(c) \/ ActivateFails(c)
  \/ Want(c) \/ Swap(c) \/ Unwant(c) \/ Kill(c) \/ Deactivate(c)

Supervise(t) ==
  \/ Check(t) \/ Look(t) \/ Spawn(t) \/ SpawnFails(t) \/ Store(t) \/ Watch(t) \/ Leave(t)

Next ==
  \/ \E c \in Callers : CallNext(c)
  \/ \E t \in Threads : Supervise(t)
  \/ ConnectorExits \/ Restart \/ Startup

(* A thread that can run does: the daemon's main thread, a supervisor, and  *)
(* a call between its two atomic accesses in `start`, where nothing can     *)
(* fail or block.  Nobody has to call, and nothing has to fail.             *)
Fairness ==
  /\ WF_vars(Startup)
  /\ \A t \in Threads : WF_vars(Supervise(t))
  /\ \A c \in Callers : WF_vars(Swap(c))

Spec == Init /\ [][Next]_vars /\ Fairness

-----------------------------------------------------------------------------
TypeOK ==
  /\ wayIn \in [via : Ways \cup KeptWays \cup {None}, on : BOOLEAN]
  /\ {legacy, kept, up, desired, supervising, asked, missed} \subseteq BOOLEAN
  /\ child \in Conns \cup {None} /\ live \subseteq Conns
  /\ state \in {"none", "disabled", "running", "failed"}
  /\ sup \in [Threads -> {"none", "check", "look", "spawn", "store", "watch", "leave"}]
  /\ held \in [Threads -> Conns \cup {None}]
  /\ call \in [Callers ->
       {Idle} \cup [how : {"configure", "set_ingress"},
                    via : Ways \cup KeptWays \cup {Token}, on : BOOLEAN, at : Steps]]
  /\ calls \in 0 .. MaxCalls /\ spawned \in 0 .. MaxSpawns /\ restarts \in 0 .. MaxRestarts

(* However starts, stops and the supervisor interleave, there is never more *)
(* than one connector, and the daemon can always reach the one there is: it *)
(* is runtime.child, or a supervisor is about to store it there.  A second  *)
(* supervisor, or a stop that forgets its child, leaves one nobody can end. *)
NoStrayConnector ==
  /\ Cardinality(live) <= 1
  /\ \A conn \in live : conn = child \/ \E t \in Threads : held[t] = conn

(* The status a person reads is about the child the daemon holds: "running" *)
(* exactly while there is one, whoever wrote it last.                       *)
StatusIsOfTheChild == (state = "running") <=> (child # None)

(* Whenever the way in is wanted and no connector is alive, there will be   *)
(* one, or the status says that one failed, or it is no longer wanted: a    *)
(* connector that dies is replaced, and a start, or the daemon's own, leads *)
(* to one.  The one exception is a start that took a leaving supervisor for *)
(* one that goes on (WantedComesUp).                                        *)
ConnectorComesBack ==
  (desired /\ live = {} /\ ~missed)
    ~> (live # {} \/ ~desired \/ state = "failed" \/ missed)

-----------------------------------------------------------------------------
(* Statements of the documentation that the code does not keep.             *)

(* tunnel.rs:1, "boxd stores the tunnel token as a secret and supervises a  *)
(* `cloudflared tunnel run` child process": without the exception above.  A *)
(* start that comes between a supervisor's last look at `desired` and its   *)
(* clearing of `supervising` starts none: the way in is wanted, nobody      *)
(* keeps it up, and the status says disabled until the next call or restart.*)
WantedComesUp ==
  (desired /\ live = {}) ~> (live # {} \/ ~desired \/ state = "failed")

(* tunnel.rs:120 "Resume on daemon start if a way in was left enabled." A   *)
(* start of the daemon brings a way in up only if the last call that was    *)
(* saved had turned it on.     The code keeps two flags in two files: what  *)
(* one call turned on in one, the other call's "off" leaves on.             *)
ResumesWhatWasLeftOn == [][Startup /\ desired' => asked]_vars

(* tunnel.rs:135 "Choose a way in and turn it on or off."  When it is off,  *)
(* and no call and no supervisor has anything left to do, no connector      *)
(* runs.  A stop that comes between a supervisor's spawn and its store      *)
(* kills nothing, and the supervisor stores the connector and leaves.       *)
OffIsDown ==
  (up /\ ~desired /\ (\A c \in Callers : call[c] = Idle) /\ \A t \in Threads : sup[t] = "none")
    => live = {}
=============================================================================
