------------------------------- MODULE Ingress -------------------------------
(***************************************************************************)
(* Publishing on a domain of one's own, with the account the operator      *)
(* connected: the credentials on the Box, what box.toml says of the way    *)
(* in, and what Cloudflare holds (a tunnel named after the Box, its edge   *)
(* rules, a DNS record per domain).  Each call of an agent runs in a       *)
(* thread of its own and takes no lock; every request to Cloudflare may    *)
(* fail, and the person may revoke tokens or tidy up in the dashboard      *)
(* between any two of them.  Keeping a connector alive is module Tunnel.   *)
(***************************************************************************)
EXTENDS Naturals

CONSTANTS
  Callers,
  Zones,       \* domains on the connected account
  Given,       \* tokens the person makes in the dashboard
  Parents,     \* those of them that may make tokens
  MaxCalls,    \* bound: calls made
  MaxMints,    \* bound: tokens the Box makes itself
  MaxTunnels,  \* bound: tunnels made
  MaxTidies,   \* bound: things done in the dashboard, and restarts
  None, Elsewhere

Minted  == 1 .. MaxMints
Tokens  == Given \cup Minted
Tunnels == 1 .. MaxTunnels
Ways    == {"domain", "quick", "funnel"}

ASSUME IngressAssumption ==
  /\ {MaxCalls, MaxMints, MaxTunnels, MaxTidies} \subseteq Nat
  /\ Parents \subseteq Given /\ Given \cap Minted = {}
  /\ None \notin Tokens \cup Zones \cup Tunnels /\ Elsewhere \notin Tunnels \cup {None}
  /\ None \notin [zone : Zones \cup {None}, console : BOOLEAN]

VARIABLES
  toml,     \* box.toml: ingress
  api, parent,   \* the secrets cloudflare-api-token, cloudflare-parent-token
  runsAs,   \* the secret cloudflare-tunnel-token: the tunnel it runs
  valid,    \* tokens Cloudflare accepts
  named,    \* the tunnel that has this Box's name
  rules,    \* the edge rules of each tunnel
  dns,      \* where each domain's wildcard record leads
  call,
  proved,   \* history: tokens Cloudflare accepted from the Box
  ready,    \* history: the domain last reported as done, until anything else happens
  calls, minted, made, tidied

onBox  == <<toml, api, parent, runsAs>>
atEdge == <<valid, named, rules, dns>>
bounds == <<calls, minted, made, tidied>>
vars   == <<onBox, atEdge, call, proved, ready, bounds>>

Idle == [how |-> "none", at |-> "idle", zone |-> None, way |-> "domain", on |-> FALSE,
         tok |-> None, child |-> None, tun |-> None, copy |-> None,
         again |-> FALSE, needed |-> FALSE, alone |-> FALSE]

NoWayIn == [way |-> None, zone |-> None, enabled |-> FALSE, console |-> FALSE]

Init ==
  /\ toml = NoWayIn /\ api = None /\ parent = None /\ runsAs = None
  /\ valid = Given /\ named = None
  /\ rules = [t \in Tunnels |-> None] /\ dns \in [Zones -> {None, Elsewhere}]
  /\ call = [c \in Callers |-> Idle]
  /\ proved = {} /\ ready = None
  /\ calls = 0 /\ minted = 0 /\ made = 0 /\ tidied = 0

-----------------------------------------------------------------------------
At(c, how, at) == call[c].how = how /\ call[c].at = at
Goes(c, at)    == call' = [call EXCEPT ![c].at = at]
Returns(c)     == call' = [call EXCEPT ![c] = Idle]

(* Whatever begins is no longer alone, and neither is what was under way. *)
Crowd(cs) == [c \in Callers |-> [cs[c] EXCEPT !.alone = FALSE]]

Begin(c, request) ==
  /\ call[c] = Idle /\ calls < MaxCalls
  /\ LET quiet == \A d \in Callers \ {c} : call[d] = Idle
     IN call' = [Crowd(call) EXCEPT ![c] = [request EXCEPT !.alone = quiet]]
  /\ calls' = calls + 1 /\ ready' = None
  /\ UNCHANGED <<onBox, atEdge, proved, minted, made, tidied>>

(* A request Cloudflare answers with success: the token is one it accepts. *)
Accepted(c) ==
  /\ call[c].tok \in valid
  /\ proved' = proved \cup {call[c].tok}

(* A mutant: the child is believed without being tried. *)
MintUntried(by, child) ==
  /\ by \in Parents \cap valid /\ minted < MaxMints
  /\ minted' = minted + 1 /\ child = minted'
  /\ valid' = valid \cup {child}
  /\ proved' = proved \cup {by}

(* A token makes a child of exactly the permissions needed, and the child  *)
(* is tried before anyone depends on it.                                   *)
Mint(by, child) ==
  /\ by \in Parents \cap valid /\ minted < MaxMints
  /\ minted' = minted + 1 /\ child = minted'
  /\ valid' = valid \cup {child}
  /\ proved' = proved \cup {by, child}

-----------------------------------------------------------------------------
(* ingress_connect_account. *)
Connect(c) ==
  \E t \in Given : Begin(c, [Idle EXCEPT !.how = "connect", !.at = "mint", !.tok = t])

ConnectMints(c) ==
  /\ At(c, "connect", "mint")
  /\ \E child \in Minted :
       /\ Mint(call[c].tok, child)
       /\ call' = [call EXCEPT ![c].at = "keep_parent", ![c].child = child]
  /\ UNCHANGED <<onBox, named, rules, dns, ready, calls, made, tidied>>

(* Not a parent, or any failure on the way: taken for a direct credential. *)
ConnectCannotMint(c) ==
  /\ At(c, "connect", "mint") /\ Goes(c, "verify")
  /\ UNCHANGED <<onBox, atEdge, proved, ready, bounds>>

KeepParent(c) ==
  /\ At(c, "connect", "keep_parent") /\ Goes(c, "keep_child")
  /\ parent' = call[c].tok
  /\ UNCHANGED <<toml, api, runsAs, atEdge, proved, ready, bounds>>

KeepChild(c) ==
  /\ At(c, "connect", "keep_child") /\ Returns(c)
  /\ api' = call[c].child
  /\ UNCHANGED <<toml, parent, runsAs, atEdge, proved, ready, bounds>>

Verify(c) ==
  /\ At(c, "connect", "verify") /\ Goes(c, "keep_direct")
  /\ Accepted(c)
  /\ UNCHANGED <<onBox, atEdge, ready, bounds>>

(* The parent on file, if there is one, is left as it was. *)
KeepDirect(c) ==
  /\ At(c, "connect", "keep_direct") /\ Returns(c)
  /\ api' = call[c].tok
  /\ UNCHANGED <<toml, parent, runsAs, atEdge, proved, ready, bounds>>

-----------------------------------------------------------------------------
(* ingress_setup. *)
Setup(c) ==
  \E z \in Zones : Begin(c, [Idle EXCEPT !.how = "setup", !.at = "token", !.zone = z])

SetupToken(c) ==
  /\ At(c, "setup", "token") /\ api # None
  /\ call' = [call EXCEPT ![c].at = "find", ![c].tok = api]
  /\ UNCHANGED <<onBox, atEdge, proved, ready, bounds>>

(* The zone may be found while its nameservers are not in effect yet. *)
FindZone(c) ==
  /\ At(c, "setup", "find") /\ Accepted(c)
  /\ \E pending \in BOOLEAN :
       call' = [call EXCEPT ![c].at = "create", ![c].needed = pending]
  /\ UNCHANGED <<onBox, atEdge, ready, bounds>>

(* Cloudflare refuses a second tunnel of one name. *)
CreateTunnel(c) ==
  /\ At(c, "setup", "create") /\ Accepted(c)
  /\ named = None /\ made < MaxTunnels
  /\ made' = made + 1 /\ named' = made'
  /\ call' = [call EXCEPT ![c].at = "run_token", ![c].tun = made']
  /\ UNCHANGED <<onBox, valid, rules, dns, ready, calls, minted, tidied>>

FetchRunToken(c) ==
  /\ At(c, "setup", "run_token") /\ Accepted(c) /\ call[c].tun = named
  /\ Goes(c, "store")
  /\ UNCHANGED <<onBox, atEdge, ready, bounds>>

(* Mutants: the record is made before the rules are; the credential saved  *)
(* earlier is kept.                                                        *)
StoreThenName(c) ==
  /\ At(c, "setup", "store") /\ Goes(c, "dns")
  /\ runsAs' = call[c].tun
  /\ UNCHANGED <<toml, api, parent, atEdge, proved, ready, bounds>>

StoreKeepsOld(c) ==
  /\ At(c, "setup", "store") /\ Goes(c, "rules")
  /\ runsAs' = IF runsAs = None THEN call[c].tun ELSE runsAs
  /\ UNCHANGED <<toml, api, parent, atEdge, proved, ready, bounds>>

StoreRunToken(c) ==
  /\ At(c, "setup", "store") /\ Goes(c, "rules")
  /\ runsAs' = call[c].tun
  /\ UNCHANGED <<toml, api, parent, atEdge, proved, ready, bounds>>

PutRules(c) ==
  /\ At(c, "setup", "rules") /\ Accepted(c) /\ call[c].tun = named
  /\ Goes(c, "dns")
  /\ rules' = [rules EXCEPT ![call[c].tun] = [zone |-> call[c].zone, console |-> FALSE]]
  /\ UNCHANGED <<onBox, valid, named, dns, ready, bounds>>

AddRecord(c) ==
  /\ At(c, "setup", "dns") /\ Accepted(c) /\ dns[call[c].zone] = None
  /\ dns' = [dns EXCEPT ![call[c].zone] = call[c].tun]
  /\ Goes(c, "load")
  /\ UNCHANGED <<onBox, valid, named, rules, ready, bounds>>

(* Whatever went wrong is told as something left to do, and setup goes on. *)
RecordNotMade(c) ==
  /\ At(c, "setup", "dns")
  /\ call' = [call EXCEPT ![c].at = "load", ![c].needed = TRUE]
  /\ UNCHANGED <<onBox, atEdge, proved, ready, bounds>>

(* An authentication error makes the Box remint its token and start over,  *)
(* once; a token may lack a permission without having been revoked.        *)
AuthError(c) ==
  /\ call[c].how = "setup" /\ call[c].at \in {"find", "create", "run_token", "rules"}
  /\ ~call[c].again
  /\ Goes(c, "remint")
  /\ UNCHANGED <<onBox, atEdge, proved, ready, bounds>>

Remint(c) ==
  /\ At(c, "setup", "remint")
  /\ \E child \in Minted : Mint(parent, child) /\ api' = child
  /\ call' = [call EXCEPT ![c] = [Idle EXCEPT !.how = "setup", !.at = "token",
                !.zone = call[c].zone, !.again = TRUE, !.alone = call[c].alone]]
  /\ UNCHANGED <<toml, parent, runsAs, named, rules, dns, ready, calls, made, tidied>>

-----------------------------------------------------------------------------
(* console_remote: the rules of the tunnel that has this Box's name, again. *)
Console(c) ==
  \E on \in BOOLEAN : Begin(c, [Idle EXCEPT !.how = "console", !.at = "load", !.on = on])

ConsoleFinds(c) ==
  /\ At(c, "console", "find") /\ Accepted(c) /\ named # None
  /\ call' = [call EXCEPT ![c].at = "rules", ![c].tun = named]
  /\ UNCHANGED <<onBox, atEdge, ready, bounds>>

ConsoleRules(c) ==
  /\ At(c, "console", "rules") /\ Accepted(c) /\ call[c].tun = named
  /\ rules' = [rules EXCEPT ![call[c].tun] =
                 [zone |-> call[c].copy.zone, console |-> call[c].on]]
  /\ Goes(c, "save")
  /\ UNCHANGED <<onBox, valid, named, dns, ready, bounds>>

(* The file read before the three requests is written back whole. *)
ConsoleSaves(c) ==
  /\ At(c, "console", "save") /\ Returns(c)
  /\ toml' = [call[c].copy EXCEPT !.console = call[c].on]
  /\ UNCHANGED <<api, parent, runsAs, atEdge, proved, ready, bounds>>

ConsoleLoads(c) ==
  /\ At(c, "console", "load") /\ toml.way = "domain" /\ toml.zone # None /\ api # None
  /\ call' = [call EXCEPT ![c].at = "find", ![c].copy = toml, ![c].tok = api]
  /\ UNCHANGED <<onBox, atEdge, proved, ready, bounds>>

-----------------------------------------------------------------------------
(* ingress_configure, and what ingress_setup ends with. *)
Configure(c) ==
  \E w \in Ways, z \in Zones \cup {None}, on \in BOOLEAN :
    Begin(c, [Idle EXCEPT !.how = "configure", !.at = "load", !.way = w, !.zone = z, !.on = on])

Load(c) ==
  /\ call[c].how \in {"setup", "configure"} /\ call[c].at = "load"
  /\ call' = [call EXCEPT ![c].at = "save", ![c].copy = toml]
  /\ UNCHANGED <<onBox, atEdge, proved, ready, bounds>>

Enables(c) == call[c].how = "setup" \/ call[c].on

(* Asked, or else the one on file. *)
NewWayIn(c) ==
  [way |-> call[c].way, enabled |-> Enables(c), console |-> FALSE,
   zone |-> IF call[c].zone # None THEN call[c].zone ELSE call[c].copy.zone]

Preflight(w) == w.way = "domain" => runsAs # None /\ w.zone # None

Save(c) ==
  /\ call[c].how \in {"setup", "configure"} /\ call[c].at = "save"
  /\ Enables(c) => Preflight(NewWayIn(c))
  /\ toml' = NewWayIn(c)
  /\ ready' = IF call[c].how = "setup" /\ call[c].alone /\ ~call[c].needed
              THEN call[c].zone ELSE None
  /\ Returns(c)
  /\ UNCHANGED <<api, parent, runsAs, atEdge, proved, bounds>>

(* A call that cannot go on, for what is missing or for what Cloudflare,   *)
(* tailscale or a missing program answers, ends with an error; what it did *)
(* before stays done.  Writing a secret or box.toml may fail as well.      *)
Fails(c) ==
  /\ call[c] # Idle /\ Returns(c)
  /\ UNCHANGED <<onBox, atEdge, proved, ready, bounds>>

-----------------------------------------------------------------------------
(* Outside: the person in Cloudflare's dashboard, and a restart of boxd. *)
Tidies ==
  /\ tidied < MaxTidies /\ tidied' = tidied + 1 /\ ready' = None
  /\ UNCHANGED <<onBox, proved, calls, minted, made>>

Revoke ==
  /\ Tidies /\ call' = Crowd(call)
  /\ \E t \in valid : valid' = valid \ {t}
  /\ UNCHANGED <<named, rules, dns>>

DeleteTunnel ==
  /\ Tidies /\ call' = Crowd(call)
  /\ named # None /\ named' = None
  /\ UNCHANGED <<valid, rules, dns>>

RemoveRecord ==
  /\ Tidies /\ call' = Crowd(call)
  /\ \E z \in Zones : dns[z] # None /\ dns' = [dns EXCEPT ![z] = None]
  /\ UNCHANGED <<valid, named, rules>>

Restart ==
  /\ Tidies /\ call' = [c \in Callers |-> Idle]
  /\ UNCHANGED atEdge

Begins(c) == Connect(c) \/ Setup(c) \/ Console(c) \/ Configure(c)

Step(c) ==
  \/ ConnectMints(c) \/ ConnectCannotMint(c) \/ KeepParent(c) \/ KeepChild(c)
  \/ Verify(c) \/ KeepDirect(c)
  \/ SetupToken(c) \/ FindZone(c) \/ CreateTunnel(c) \/ FetchRunToken(c)
  \/ StoreRunToken(c) \/ PutRules(c) \/ AddRecord(c) \/ RecordNotMade(c)
  \/ AuthError(c) \/ Remint(c)
  \/ ConsoleLoads(c) \/ ConsoleFinds(c) \/ ConsoleRules(c) \/ ConsoleSaves(c)
  \/ Load(c) \/ Save(c) \/ Fails(c)

Next ==
  \/ \E c \in Callers : Begins(c) \/ Step(c)
  \/ Revoke \/ DeleteTunnel \/ RemoveRecord \/ Restart

Spec == Init /\ [][Next]_vars

-----------------------------------------------------------------------------
TypeOK ==
  /\ toml \in [way : Ways \cup {None}, zone : Zones \cup {None},
               enabled : BOOLEAN, console : BOOLEAN]
  /\ api \in Tokens \cup {None} /\ parent \in Given \cup {None}
  /\ runsAs \in Tunnels \cup {None} /\ named \in Tunnels \cup {None}
  /\ valid \subseteq Tokens /\ proved \subseteq Tokens
  /\ rules \in [Tunnels -> {None} \cup [zone : Zones, console : BOOLEAN]]
  /\ dns \in [Zones -> Tunnels \cup {None, Elsewhere}]
  /\ ready \in Zones \cup {None}

(* A setup that ran with nothing beside it and reported nothing left to do *)
(* has left the whole chain standing: box.toml, the connector's credential,*)
(* the edge rules and the DNS record all speak of one tunnel and one       *)
(* domain, whatever earlier attempts left behind and whichever token it    *)
(* ended up using.                                                         *)
DoneIsDone ==
  ready # None =>
    /\ toml.way = "domain" /\ toml.enabled /\ toml.zone = ready
    /\ named # None /\ runsAs = named /\ dns[ready] = named
    /\ rules[named].zone = ready

(* A domain is never led into a tunnel of this Box that has no edge rules  *)
(* yet: whichever of its steps a setup stops at, retries from or overlaps  *)
(* with another, no record answers for the whole domain with no rule.      *)
RulesBeforeNames == \A z \in Zones : dns[z] \in Tunnels => rules[dns[z]] # None

(* The token the Box works with, and the one it would make others from,    *)
(* have been accepted by Cloudflare before they were stored, so a typo     *)
(* or a half-made child fails where the person can still see it.           *)
TokensAreProven == {api, parent} \ {None} \subseteq proved
=============================================================================
