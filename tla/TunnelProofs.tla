------------------------------ MODULE TunnelProofs ------------------------------
(***************************************************************************)
(* There is never a connector that nobody can end, and the status is about *)
(* the child the daemon holds, for any callers, ways in and bounds.        *)
(***************************************************************************)
EXTENDS Tunnel, FiniteSetTheorems, TLAPS

Places == {"none", "check", "look", "spawn", "store", "watch", "leave"}

(* What the supervisor reads from box.toml names a way in, or nothing is on. *)
WayNamed ==
  /\ {"on", "via"} \subseteq DOMAIN wayIn /\ wayIn.on \in BOOLEAN
  /\ wayIn.on => wayIn.via \in Ways \cup KeptWays
  /\ DOMAIN call = Callers
  /\ \A c \in Callers :
       /\ {"how", "via", "on", "at"} \subseteq DOMAIN call[c]
       /\ call[c].on \in BOOLEAN
       /\ call[c].at = "called" /\ call[c].how # "configure" =>
            call[c].via \in Ways \cup KeptWays

(* `supervising` is TRUE exactly while there is a supervisor, and there is *)
(* one at most.  It is the only one that spawns, only when the daemon has  *)
(* no child, and until it has stored what it spawned it holds it.          *)
OneSupervisor ==
  /\ sup \in [Threads -> Places]
  /\ \A t \in Threads : sup[t] # "none" => supervising /\ up
  /\ \A t, u \in Threads : sup[t] # "none" /\ sup[u] # "none" => t = u

Connectors ==
  /\ DOMAIN held = Threads /\ spawned \in Nat
  /\ \A t \in Threads : sup[t] \in {"spawn", "store"} => child = None
  /\ \A t \in Threads : held[t] # None <=> sup[t] = "store"
  /\ None \notin live
  /\ \A conn \in live : conn = child \/ \E t \in Threads : held[t] = conn
  /\ StatusIsOfTheChild

TunnelInv == WayNamed /\ OneSupervisor /\ Connectors

LEMMA InvInit == Init => TunnelInv
<1> SUFFICES ASSUME Init PROVE TunnelInv
  OBVIOUS
<1>1. WayNamed
  BY DEF Init, WayNamed, Idle
<1>2. OneSupervisor /\ Connectors
  BY DEF Init, OneSupervisor, Connectors, Places, StatusIsOfTheChild
<1> QED
  BY <1>1, <1>2 DEF TunnelInv

(* Callers touch no connector but through stop, which kills the child and  *)
(* forgets it in one step, and start nothing but a supervisor.             *)
LEMMA CallsKeepWays ==
  ASSUME TunnelInv, NEW c \in Callers, CallNext(c)
  PROVE  WayNamed'
<1> USE DEF TunnelInv, WayNamed, files
<1>1. CASE Call(c)
  BY <1>1 DEF Call
<1>2. CASE Save(c)
  <2>1. CASE call[c].how = "configure"
    BY <1>2, <2>1 DEF Save, CallGoes, At
  <2>2. CASE call[c].how # "configure"
    <3>1. wayIn' = [via |-> call[c].via, on |-> call[c].on]
      BY <1>2, <2>2 DEF Save
    <3>2. call[c].via \in Ways \cup KeptWays /\ call[c].on \in BOOLEAN
      BY <1>2, <2>2 DEF Save, At
    <3>3. CallGoes(c, "activate") \/ CallGoes(c, "stop")
      BY <1>2, <2>2 DEF Save
    <3> QED
      BY <3>1, <3>2, <3>3 DEF CallGoes
  <2> QED
    BY <2>1, <2>2
<1>3. ASSUME Returns(c), UNCHANGED wayIn
      PROVE  WayNamed'
  BY <1>3 DEF Returns, Idle
<1>4. CASE Refused(c) \/ ActivateFails(c) \/ Swap(c) \/ Deactivate(c)
  BY <1>3, <1>4 DEF Refused, ActivateFails, Swap, Deactivate
<1>5. ASSUME NEW to, to # "called", CallGoes(c, to), UNCHANGED wayIn
      PROVE  WayNamed'
  BY <1>5 DEF CallGoes
<1>6. CASE Activate(c) \/ Want(c) \/ Unwant(c)
  BY <1>5, <1>6 DEF Activate, Want, Unwant
<1>7. CASE Kill(c)
  BY <1>3, <1>5, <1>7 DEF Kill
<1> QED
  BY <1>1, <1>2, <1>4, <1>6, <1>7 DEF CallNext

LEMMA SupervisorStarts ==
  ASSUME OneSupervisor, up', ~supervising \/ ~up, SpawnsSupervisor
  PROVE  /\ OneSupervisor'
         /\ \A t \in Threads : sup[t] = "none" /\ sup'[t] \in {"none", "check"}
  BY DEF OneSupervisor, SpawnsSupervisor, Places

LEMMA CallsKeepConnectors ==
  ASSUME TunnelInv, NEW c \in Callers, CallNext(c)
  PROVE  OneSupervisor' /\ Connectors'
<1> USE DEF TunnelInv
<1>1. ASSUME UNCHANGED <<up, supervising, sup>>
      PROVE  OneSupervisor'
  BY <1>1 DEF OneSupervisor
<1>2. ASSUME UNCHANGED <<runtime, live, sup, held, spawned>>
      PROVE  Connectors'
  BY <1>2 DEF Connectors, StatusIsOfTheChild, runtime
<1>3. CASE Call(c) \/ Save(c) \/ Refused(c) \/ Activate(c) \/ ActivateFails(c)
           \/ Want(c) \/ Unwant(c) \/ Deactivate(c)
  BY <1>1, <1>2, <1>3
     DEF Call, Save, Refused, Activate, ActivateFails, Want, Unwant, Deactivate, bounds
<1>4. CASE Swap(c)
  <2>1. UNCHANGED <<runtime, live, held, spawned, up>> /\ up
    BY <1>4 DEF Swap, bounds, At
  <2>2. CASE supervising
    BY <1>1, <1>2, <1>4, <2>1, <2>2 DEF Swap, EnsureSupervisor
  <2>3. CASE ~supervising
    <3>1. OneSupervisor' /\ \A t \in Threads : sup[t] = "none" /\ sup'[t] \in {"none", "check"}
      BY <1>4, <2>1, <2>3, SupervisorStarts DEF Swap, EnsureSupervisor
    <3> QED
      BY <2>1, <3>1 DEF Connectors, StatusIsOfTheChild, runtime
  <2> QED
    BY <2>2, <2>3
<1>5. CASE Kill(c)
  <2>1. UNCHANGED <<up, supervising, sup, held, spawned>> /\ KillChild
    BY <1>5 DEF Kill, bounds
  <2> QED
    BY <1>1, <2>1 DEF KillChild, Connectors, StatusIsOfTheChild
<1> QED
  BY <1>3, <1>4, <1>5 DEF CallNext

-----------------------------------------------------------------------------
(* What is spawned is a connector, and never None. *)
LEMMA SpawnedIsNamed ==
  ASSUME TunnelInv, NEW t \in Threads, Spawn(t)
  PROVE  [n |-> spawned + 1, via |-> Via] \in Conns \ {None}
<1>1. Via \in Ways \cup {Token}
  BY DEF Spawn, Via, TunnelInv, WayNamed
<1>2. spawned + 1 \in 1 .. MaxSpawns
  BY TunnelAssumption DEF Spawn, TunnelInv, Connectors
<1> QED
  BY <1>1, <1>2, TunnelAssumption DEF Conns

LEMMA SupervisorKeepsInv ==
  ASSUME TunnelInv, NEW t \in Threads, Supervise(t)
  PROVE  TunnelInv'
<1> USE DEF TunnelInv
<1>1. WayNamed'
  BY DEF WayNamed, Supervise, Check, Look, Spawn, SpawnFails, Store, Watch, Leave, files
<1>2. ASSUME NEW from \in Places \ {"none"}, NEW to \in Places, Goes(t, from, to),
             supervising' = supervising \/ to = "none", UNCHANGED up
      PROVE  OneSupervisor'
  BY <1>2 DEF OneSupervisor, Goes
<1>3. ASSUME NEW from \in Places \ {"none"}, NEW to \in Places, Goes(t, from, to)
      PROVE  /\ sup[t] = from /\ sup'[t] = to
             /\ \A u \in Threads \ {t} : sup[u] = "none" /\ sup'[u] = "none"
  BY <1>3 DEF OneSupervisor, Goes
<1>4. CASE Check(t)
  <2>1. PICK to \in {"look", "leave"} :
          Goes(t, "check", to) /\ UNCHANGED <<runtime, live, held, spawned, supervising, up>>
    BY <1>4 DEF Check, bounds
  <2>2. "check" \in Places \ {"none"} /\ to \in Places
    BY DEF Places
  <2> QED
    BY <1>1, <1>2, <1>3, <2>1, <2>2 DEF Connectors, StatusIsOfTheChild, runtime
<1>5. CASE Look(t)
  <2>1. PICK to \in {"spawn", "watch"} :
          /\ Goes(t, "look", to)
          /\ to = "spawn" => child = None
          /\ UNCHANGED <<runtime, live, held, spawned, supervising, up>>
    BY <1>5 DEF Look, bounds
  <2>2. "look" \in Places \ {"none"} /\ to \in Places
    BY DEF Places
  <2> QED
    BY <1>1, <1>2, <1>3, <2>1, <2>2 DEF Connectors, StatusIsOfTheChild, runtime
<1>6. CASE Spawn(t)
  <2> DEFINE conn == [n |-> spawned + 1, via |-> Via]
  <2>1. /\ Goes(t, "spawn", "store") /\ UNCHANGED <<runtime, supervising, up>>
        /\ live' = live \cup {conn} /\ held' = [held EXCEPT ![t] = conn]
        /\ spawned' = spawned + 1
    BY <1>6 DEF Spawn
  <2>2. "spawn" \in Places \ {"none"} /\ "store" \in Places
    BY DEF Places
  <2>3. conn # None
    BY <1>6, SpawnedIsNamed
  <2> HIDE DEF conn
  <2> QED
    BY <1>1, <1>2, <1>3, <2>1, <2>2, <2>3 DEF Connectors, StatusIsOfTheChild, runtime
<1>7. CASE SpawnFails(t)
  <2>1. /\ Goes(t, "spawn", "check") /\ state' = "failed"
        /\ UNCHANGED <<child, live, held, spawned, supervising, up>>
    BY <1>7 DEF SpawnFails, bounds
  <2>2. "spawn" \in Places \ {"none"} /\ "check" \in Places
    BY DEF Places
  <2> QED
    BY <1>1, <1>2, <1>3, <2>1, <2>2 DEF Connectors, StatusIsOfTheChild
<1>8. CASE Store(t)
  <2>1. /\ Goes(t, "store", "watch") /\ UNCHANGED <<live, spawned, supervising, up>>
        /\ child' = held[t] /\ held' = [held EXCEPT ![t] = None] /\ state' = "running"
    BY <1>8 DEF Store, bounds
  <2>2. "store" \in Places \ {"none"} /\ "watch" \in Places
    BY DEF Places
  <2>3. child = None /\ held[t] # None /\ \A u \in Threads \ {t} : held[u] = None
    BY <1>3, <2>1, <2>2 DEF Connectors
  <2> QED
    BY <1>1, <1>2, <1>3, <2>1, <2>2, <2>3 DEF Connectors, StatusIsOfTheChild
<1>9. CASE Watch(t)
  <2>1. Goes(t, "watch", "check") /\ Reap /\ UNCHANGED <<live, held, spawned, supervising, up>>
    BY <1>9 DEF Watch, bounds
  <2>2. "watch" \in Places \ {"none"} /\ "check" \in Places
    BY DEF Places
  <2> QED
    BY <1>1, <1>2, <1>3, <2>1, <2>2 DEF Connectors, StatusIsOfTheChild, Reap, runtime
<1>10. CASE Leave(t)
  <2>1. Goes(t, "leave", "none") /\ UNCHANGED <<runtime, live, held, spawned, up>>
    BY <1>10 DEF Leave, bounds
  <2>2. "leave" \in Places \ {"none"} /\ "none" \in Places
    BY DEF Places
  <2>3. OneSupervisor'
    BY <1>3, <2>1, <2>2 DEF OneSupervisor, Goes
  <2> QED
    BY <1>1, <1>3, <2>1, <2>2, <2>3 DEF Connectors, StatusIsOfTheChild, runtime
<1> QED
  BY <1>4, <1>5, <1>6, <1>7, <1>8, <1>9, <1>10 DEF Supervise

LEMMA OutsideKeepsInv ==
  ASSUME TunnelInv, ConnectorExits \/ Restart \/ Startup
  PROVE  TunnelInv'
<1> USE DEF TunnelInv
<1>1. CASE ConnectorExits
  BY <1>1 DEF ConnectorExits, WayNamed, OneSupervisor, Connectors, StatusIsOfTheChild,
              files, runtime, bounds
<1>2. CASE Restart
  <2>1. WayNamed'
    BY <1>2 DEF Restart, WayNamed, files, Idle
  <2> QED
    BY <1>2, <2>1 DEF Restart, OneSupervisor, Connectors, StatusIsOfTheChild, Places
<1>3. CASE Startup
  <2>1. WayNamed'
    BY <1>3 DEF Startup, WayNamed, files
  <2>2. OneSupervisor' /\ \A t \in Threads : sup[t] = "none" /\ sup'[t] \in {"none", "check"}
    <3>1. CASE LeftEnabled
      BY <1>3, <3>1, SupervisorStarts DEF Startup
    <3>2. CASE ~LeftEnabled
      BY <1>3, <3>2 DEF Startup, OneSupervisor
    <3> QED
      BY <3>1, <3>2
  <2> QED
    BY <1>3, <2>1, <2>2 DEF Startup, Connectors, StatusIsOfTheChild, runtime, bounds
<1> QED
  BY <1>1, <1>2, <1>3

LEMMA InvStep == TunnelInv /\ [Next]_vars => TunnelInv'
<1> SUFFICES ASSUME TunnelInv, [Next]_vars
             PROVE  TunnelInv'
  OBVIOUS
<1>1. CASE UNCHANGED vars
  BY <1>1 DEF vars, TunnelInv, WayNamed, OneSupervisor, Connectors, StatusIsOfTheChild,
              files, runtime, bounds
<1>2. CASE Next
  <2>1. ASSUME NEW c \in Callers, CallNext(c) PROVE TunnelInv'
    BY <2>1, CallsKeepWays, CallsKeepConnectors DEF TunnelInv
  <2> QED
    BY <1>2, <2>1, SupervisorKeepsInv, OutsideKeepsInv DEF Next
<1> QED
  BY <1>1, <1>2

(* While a supervisor holds a connector the daemon has no child, and only  *)
(* one supervisor can hold one: so what is alive is in one place.          *)
LEMMA OneIsLive == TunnelInv => NoStrayConnector
<1> SUFFICES ASSUME TunnelInv PROVE Cardinality(live) <= 1
  BY DEF NoStrayConnector, TunnelInv, Connectors
<1>1. \A a, b \in live : a = b
  BY DEF TunnelInv, OneSupervisor, Connectors
<1>2. CASE live = {}
  BY <1>2, FS_EmptySet
<1>3. CASE live # {}
  <2>1. PICK a \in live : live = {a}
    BY <1>1, <1>3
  <2> QED
    BY <2>1, FS_Singleton
<1> QED
  BY <1>2, <1>3

(* However many calls start and stop the way in, and whenever connectors    *)
(* exit or the daemon restarts, there is one connector at most, and the     *)
(* daemon can end it.                                                       *)
THEOREM NoneIsStray == Spec => []NoStrayConnector
<1>1. Spec => []TunnelInv
  BY InvInit, InvStep, PTL DEF Spec
<1> QED
  BY <1>1, OneIsLive, PTL

(* The state that is shown is "running" exactly while the daemon holds a    *)
(* child, whichever of stop, store, a failed spawn or a reaped exit wrote   *)
(* it last.                                                                 *)
THEOREM StatusIsTrue == Spec => []StatusIsOfTheChild
<1>1. Spec => []TunnelInv
  BY InvInit, InvStep, PTL DEF Spec
<1>2. TunnelInv => StatusIsOfTheChild
  BY DEF TunnelInv, Connectors
<1> QED
  BY <1>1, <1>2, PTL
=============================================================================
