------------------------------ MODULE IngressProofs ------------------------------
(***************************************************************************)
(* No name leads to a tunnel without rules, no token is stored that was    *)
(* not tried, and what a setup reports as done stands, for any number of   *)
(* calls, domains, tokens and tunnels.                                     *)
(***************************************************************************)
EXTENDS Ingress, TLAPS

(* A way in that names a domain, or none. *)
HasZone(w) == "zone" \in DOMAIN w /\ w.zone \in Zones \cup {None}

(* Both properties speak of what is stored, and what is stored comes out   *)
(* of the calls: what each call has learned by the step it is at.          *)
Learned(r, rs, ps) ==
  /\ {"how", "at", "zone", "on", "tok", "child", "tun", "copy"} \subseteq DOMAIN r
  /\ r.zone \in Zones \cup {None} /\ r.on \in BOOLEAN
  /\ r.at \in {"save", "rules", "find"} /\ r.how = "console" => HasZone(r.copy)
  /\ r.at = "save" => HasZone(r.copy)
  /\ r.how = "setup" /\ r.at \in {"run_token", "store", "rules", "dns"} => r.tun \in Tunnels
  /\ r.how = "setup" /\ r.at = "dns" => rs[r.tun] # None
  /\ r.how = "connect" /\ r.at = "keep_parent" => {r.tok, r.child} \subseteq ps
  /\ r.how = "connect" /\ r.at = "keep_child" => r.child \in ps
  /\ r.how = "connect" /\ r.at = "keep_direct" => r.tok \in ps

IngressInv ==
  /\ HasZone(toml) /\ made \in Nat
  /\ DOMAIN call = Callers /\ \A c \in Callers : Learned(call[c], rules, proved)
  /\ DOMAIN rules = Tunnels /\ DOMAIN dns = Zones
  /\ RulesBeforeNames /\ TokensAreProven

LEMMA RulesAreSomething ==
  ASSUME NEW z \in Zones \cup {None}, NEW on \in BOOLEAN
  PROVE  [zone |-> z, console |-> on] # None
<1>1. [zone |-> z, console |-> on] \in [zone : Zones \cup {None}, console : BOOLEAN]
  OBVIOUS
<1> QED
  BY <1>1, IngressAssumption

LEMMA InvInit == Init => IngressInv
<1> SUFFICES ASSUME Init PROVE IngressInv
  OBVIOUS
<1>1. \A z \in Zones : dns[z] \notin Tunnels
  BY IngressAssumption DEF Init
<1>2. Learned(Idle, rules, proved)
  BY DEF Learned, Idle
<1> QED
  BY <1>1, <1>2 DEF Init, IngressInv, HasZone, NoWayIn, RulesBeforeNames, TokensAreProven

LEMMA LearnedStays ==
  ASSUME NEW r, NEW rs, NEW ps, NEW rs2, NEW ps2, Learned(r, rs, ps), ps \subseteq ps2,
         \A t \in Tunnels : rs[t] # None => rs2[t] # None
  PROVE  Learned(r, rs2, ps2)
<1>1. r.how = "setup" /\ r.at = "dns" => rs2[r.tun] # None
  BY DEF Learned
<1> QED
  BY <1>1 DEF Learned

(* A step of one call that leaves what the others learned true. *)
LEMMA OneCallGoesOn ==
  ASSUME IngressInv, NEW c \in Callers, NEW r, call' = [call EXCEPT ![c] = r],
         Learned(r, rules', proved'), proved \subseteq proved',
         \A t \in Tunnels : rules[t] # None => rules'[t] # None
  PROVE  DOMAIN call' = Callers /\ \A d \in Callers : Learned(call'[d], rules', proved')
<1>1. DOMAIN call' = Callers /\ call'[c] = r /\ \A d \in Callers \ {c} : call'[d] = call[d]
  BY DEF IngressInv
<1>2. \A d \in Callers \ {c} : Learned(call[d], rules', proved')
  BY LearnedStays DEF IngressInv
<1> QED
  BY <1>1, <1>2

(* What a step of one call has to show, when it touches neither names nor  *)
(* rules nor tokens.                                                       *)
LEMMA PlainStep ==
  ASSUME IngressInv, NEW c \in Callers, NEW r, call' = [call EXCEPT ![c] = r],
         UNCHANGED <<toml, api, parent, rules, dns, made>>, proved \subseteq proved',
         Learned(r, rules, proved')
  PROVE  IngressInv'
<1>1. DOMAIN call' = Callers /\ \A d \in Callers : Learned(call'[d], rules', proved')
  BY OneCallGoesOn
<1> QED
  BY <1>1 DEF IngressInv, HasZone, RulesBeforeNames, TokensAreProven

LEMMA IdleLearned == ASSUME NEW rs, NEW ps PROVE Learned(Idle, rs, ps)
  BY DEF Learned, Idle

LEMMA Connects ==
  ASSUME IngressInv, NEW c \in Callers,
         ConnectMints(c) \/ ConnectCannotMint(c) \/ KeepParent(c) \/ KeepChild(c)
         \/ Verify(c) \/ KeepDirect(c)
  PROVE  IngressInv'
<1>0. Learned(call[c], rules, proved)
  BY DEF IngressInv
<1>1. CASE ConnectMints(c)
  <2>1. PICK child \in Minted :
          /\ Mint(call[c].tok, child)
          /\ call' = [call EXCEPT ![c].at = "keep_parent", ![c].child = child]
    BY <1>1 DEF ConnectMints
  <2>2. Learned([call[c] EXCEPT !.at = "keep_parent", !.child = child], rules, proved')
    BY <1>0, <1>1, <2>1 DEF Learned, At, ConnectMints, Mint
  <2>3. call' = [call EXCEPT ![c] = [call[c] EXCEPT !.at = "keep_parent", !.child = child]]
    BY <2>1
  <2> QED
    BY <1>1, <2>1, <2>2, <2>3, PlainStep DEF ConnectMints, onBox, Mint
<1>2. CASE ConnectCannotMint(c)
  <2>1. Learned([call[c] EXCEPT !.at = "verify"], rules, proved)
    BY <1>0, <1>2 DEF Learned, At, ConnectCannotMint
  <2> QED
    BY <1>2, <2>1, PlainStep DEF ConnectCannotMint, Goes, onBox, atEdge, bounds
<1>3. CASE Verify(c)
  <2>1. Learned([call[c] EXCEPT !.at = "keep_direct"], rules, proved')
    BY <1>0, <1>3 DEF Learned, At, Verify, Accepted
  <2> QED
    BY <1>3, <2>1, PlainStep DEF Verify, Accepted, Goes, onBox, atEdge, bounds
<1>4. CASE KeepParent(c)
  <2>1. Learned([call[c] EXCEPT !.at = "keep_child"], rules, proved)
    BY <1>0, <1>4 DEF Learned, At, KeepParent
  <2>2. \A d \in Callers : Learned(call'[d], rules', proved')
    BY <1>4, <2>1, OneCallGoesOn DEF KeepParent, Goes, atEdge
  <2>3. TokensAreProven'
    BY <1>0, <1>4 DEF KeepParent, At, Learned, IngressInv, TokensAreProven
  <2> QED
    BY <1>4, <2>2, <2>3
       DEF KeepParent, Goes, atEdge, bounds, IngressInv, HasZone, RulesBeforeNames
<1>5. CASE KeepChild(c) \/ KeepDirect(c)
  <2>1. \A d \in Callers : Learned(call'[d], rules', proved')
    BY <1>5, IdleLearned, OneCallGoesOn DEF KeepChild, KeepDirect, Returns, atEdge
  <2>2. TokensAreProven'
    BY <1>0, <1>5 DEF KeepChild, KeepDirect, At, Learned, IngressInv, TokensAreProven
  <2> QED
    BY <1>5, <2>1, <2>2
       DEF KeepChild, KeepDirect, Returns, atEdge, bounds, IngressInv, HasZone,
           RulesBeforeNames
<1> QED
  BY <1>1, <1>2, <1>3, <1>4, <1>5

LEMMA SetsUp ==
  ASSUME IngressInv, NEW c \in Callers,
         SetupToken(c) \/ FindZone(c) \/ CreateTunnel(c) \/ FetchRunToken(c)
         \/ StoreRunToken(c) \/ PutRules(c) \/ AddRecord(c) \/ RecordNotMade(c)
         \/ AuthError(c) \/ Remint(c)
  PROVE  IngressInv'
<1>0. Learned(call[c], rules, proved)
  BY DEF IngressInv
<1>1. CASE SetupToken(c)
  <2>1. Learned([call[c] EXCEPT !.at = "find", !.tok = api], rules, proved)
    BY <1>0, <1>1 DEF Learned, At, SetupToken
  <2> QED
    BY <1>1, <2>1, PlainStep DEF SetupToken, onBox, atEdge, bounds
<1>2. CASE FindZone(c)
  <2>1. PICK pending \in BOOLEAN :
          call' = [call EXCEPT ![c] = [call[c] EXCEPT !.at = "create", !.needed = pending]]
    BY <1>2 DEF FindZone
  <2>2. Learned([call[c] EXCEPT !.at = "create", !.needed = pending], rules, proved')
    BY <1>0, <1>2 DEF Learned, At, FindZone, Accepted
  <2> QED
    BY <1>2, <2>1, <2>2, PlainStep DEF FindZone, Accepted, onBox, atEdge, bounds
<1>3. CASE CreateTunnel(c)
  <2>1. made' \in Tunnels /\ made' \in Nat
    BY <1>3, IngressAssumption DEF CreateTunnel, IngressInv, Tunnels
  <2>2. Learned([call[c] EXCEPT !.at = "run_token", !.tun = made'], rules, proved')
    BY <1>0, <1>3, <2>1 DEF Learned, At, CreateTunnel, Accepted
  <2>3. \A d \in Callers : Learned(call'[d], rules', proved')
    BY <1>3, <2>2, OneCallGoesOn DEF CreateTunnel, Accepted
  <2> QED
    BY <1>3, <2>1, <2>3
       DEF CreateTunnel, Accepted, onBox, IngressInv, HasZone, RulesBeforeNames,
           TokensAreProven
<1>4. CASE FetchRunToken(c)
  <2>1. Learned([call[c] EXCEPT !.at = "store"], rules, proved')
    BY <1>0, <1>4 DEF Learned, At, FetchRunToken, Accepted
  <2> QED
    BY <1>4, <2>1, PlainStep DEF FetchRunToken, Accepted, Goes, onBox, atEdge, bounds
<1>5. CASE StoreRunToken(c)
  <2>1. Learned([call[c] EXCEPT !.at = "rules"], rules, proved)
    BY <1>0, <1>5 DEF Learned, At, StoreRunToken
  <2> QED
    BY <1>5, <2>1, PlainStep DEF StoreRunToken, Goes, atEdge, bounds
<1>6. CASE PutRules(c)
  <2>1. call[c].tun \in Tunnels /\ call[c].zone \in Zones \cup {None}
    BY <1>0, <1>6 DEF Learned, At, PutRules
  <2>2. /\ rules'[call[c].tun] # None /\ DOMAIN rules' = Tunnels
        /\ \A t \in Tunnels : rules[t] # None => rules'[t] # None
    BY <1>6, <2>1, RulesAreSomething DEF PutRules, IngressInv
  <2>3. Learned([call[c] EXCEPT !.at = "dns"], rules', proved')
    <3> DEFINE r == [call[c] EXCEPT !.at = "dns"]
    <3>1. /\ call[c].how = "setup" /\ {"how", "at", "zone", "on", "tok", "child", "tun", "copy"}
                                        \subseteq DOMAIN call[c]
          /\ call[c].zone \in Zones \cup {None} /\ call[c].on \in BOOLEAN
      BY <1>0, <1>6 DEF Learned, At, PutRules
    <3>2. /\ DOMAIN r = DOMAIN call[c] /\ r.how = "setup" /\ r.at = "dns"
          /\ r.tun = call[c].tun /\ r.zone = call[c].zone /\ r.on = call[c].on
      BY <3>1
    <3> HIDE DEF r
    <3>3. Learned(r, rules', proved')
      BY <2>1, <2>2, <3>1, <3>2 DEF Learned
    <3> QED
      BY <3>3 DEF r
  <2>4. \A d \in Callers : Learned(call'[d], rules', proved')
    BY <1>6, <2>2, <2>3, OneCallGoesOn DEF PutRules, Accepted, Goes
  <2> QED
    BY <1>6, <2>2, <2>4
       DEF PutRules, Accepted, Goes, onBox, bounds, IngressInv, HasZone, RulesBeforeNames,
           TokensAreProven
<1>7. CASE AddRecord(c)
  <2>1. call[c].tun \in Tunnels /\ rules[call[c].tun] # None
    BY <1>0, <1>7 DEF Learned, At, AddRecord
  <2>2. Learned([call[c] EXCEPT !.at = "load"], rules, proved')
    BY <1>0, <1>7 DEF Learned, At, AddRecord, Accepted
  <2>3. \A d \in Callers : Learned(call'[d], rules', proved')
    BY <1>7, <2>2, OneCallGoesOn DEF AddRecord, Accepted, Goes
  <2>4. RulesBeforeNames' /\ DOMAIN dns' = Zones
    BY <1>7, <2>1 DEF AddRecord, IngressInv, RulesBeforeNames
  <2> QED
    BY <1>7, <2>3, <2>4
       DEF AddRecord, Accepted, Goes, onBox, bounds, IngressInv, HasZone, TokensAreProven
<1>8. CASE RecordNotMade(c)
  <2>1. Learned([call[c] EXCEPT !.at = "load", !.needed = TRUE], rules, proved)
    BY <1>0, <1>8 DEF Learned, At, RecordNotMade
  <2> QED
    <3>1. call' = [call EXCEPT ![c] = [call[c] EXCEPT !.at = "load", !.needed = TRUE]]
      BY <1>8 DEF RecordNotMade
    <3> QED
      BY <1>8, <2>1, <3>1, PlainStep DEF RecordNotMade, onBox, atEdge, bounds
<1>9. CASE AuthError(c)
  <2>1. Learned([call[c] EXCEPT !.at = "remint"], rules, proved)
    BY <1>0, <1>9 DEF Learned, AuthError
  <2> QED
    BY <1>9, <2>1, PlainStep DEF AuthError, Goes, onBox, atEdge, bounds
<1>10. CASE Remint(c)
  <2> DEFINE again == [Idle EXCEPT !.how = "setup", !.at = "token", !.zone = call[c].zone,
                                   !.again = TRUE, !.alone = call[c].alone]
  <2>1. PICK child \in Minted : Mint(parent, child) /\ api' = child
    BY <1>10 DEF Remint
  <2>2. Learned(again, rules, proved')
    BY <1>0 DEF Learned, Idle
  <2>3. \A d \in Callers : Learned(call'[d], rules', proved')
    BY <1>10, <2>1, <2>2, OneCallGoesOn DEF Remint, Mint
  <2>4. TokensAreProven'
    BY <1>10, <2>1 DEF Remint, Mint, IngressInv, TokensAreProven
  <2> QED
    BY <1>10, <2>3, <2>4 DEF Remint, IngressInv, HasZone, RulesBeforeNames
<1> QED
  BY <1>1, <1>2, <1>3, <1>4, <1>5, <1>6, <1>7, <1>8, <1>9, <1>10

LEMMA Configures ==
  ASSUME IngressInv, NEW c \in Callers,
         ConsoleLoads(c) \/ ConsoleFinds(c) \/ ConsoleRules(c) \/ ConsoleSaves(c)
         \/ Load(c) \/ Save(c) \/ Fails(c)
  PROVE  IngressInv'
<1>0. Learned(call[c], rules, proved)
  BY DEF IngressInv
<1>1. CASE ConsoleLoads(c)
  <2>1. Learned([call[c] EXCEPT !.at = "find", !.copy = toml, !.tok = api], rules, proved)
    BY <1>0, <1>1 DEF Learned, At, ConsoleLoads, IngressInv
  <2> QED
    BY <1>1, <2>1, PlainStep DEF ConsoleLoads, onBox, atEdge, bounds
<1>2. CASE ConsoleFinds(c)
  <2>1. Learned([call[c] EXCEPT !.at = "rules", !.tun = named], rules, proved')
    BY <1>0, <1>2 DEF Learned, At, ConsoleFinds, Accepted
  <2> QED
    BY <1>2, <2>1, PlainStep DEF ConsoleFinds, Accepted, onBox, atEdge, bounds
<1>3. CASE ConsoleRules(c)
  <2>1. HasZone(call[c].copy) /\ call[c].on \in BOOLEAN
    BY <1>0, <1>3 DEF Learned, At, ConsoleRules
  <2>2. /\ DOMAIN rules' = Tunnels
        /\ \A t \in Tunnels : rules[t] # None => rules'[t] # None
    BY <1>3, <2>1, RulesAreSomething DEF ConsoleRules, IngressInv, HasZone
  <2>3. Learned([call[c] EXCEPT !.at = "save"], rules', proved')
    BY <1>0, <1>3, <2>1 DEF Learned, At, ConsoleRules
  <2>4. \A d \in Callers : Learned(call'[d], rules', proved')
    BY <1>3, <2>2, <2>3, OneCallGoesOn DEF ConsoleRules, Accepted, Goes
  <2> QED
    BY <1>3, <2>2, <2>4
       DEF ConsoleRules, Accepted, Goes, onBox, bounds, IngressInv, HasZone,
           RulesBeforeNames, TokensAreProven
<1>4. CASE Load(c)
  <2>1. Learned([call[c] EXCEPT !.at = "save", !.copy = toml], rules, proved)
    BY <1>0, <1>4 DEF Learned, Load, IngressInv
  <2> QED
    BY <1>4, <2>1, PlainStep DEF Load, onBox, atEdge, bounds
<1>5. CASE Fails(c)
  BY <1>5, IdleLearned, PlainStep DEF Fails, Returns, onBox, atEdge, bounds
<1>6. CASE ConsoleSaves(c) \/ Save(c)
  <2>1. HasZone(toml')
    BY <1>0, <1>6 DEF ConsoleSaves, Save, NewWayIn, Learned, At, HasZone
  <2>2. \A d \in Callers : Learned(call'[d], rules', proved')
    BY <1>6, IdleLearned, OneCallGoesOn DEF ConsoleSaves, Save, Returns, atEdge
  <2> QED
    BY <1>6, <2>1, <2>2
       DEF ConsoleSaves, Save, Returns, atEdge, bounds, IngressInv, RulesBeforeNames,
           TokensAreProven
<1> QED
  BY <1>1, <1>2, <1>3, <1>4, <1>5, <1>6

LEMMA CrowdLearns ==
  ASSUME IngressInv
  PROVE  DOMAIN Crowd(call) = Callers /\ \A c \in Callers : Learned(Crowd(call)[c], rules, proved)
<1> SUFFICES ASSUME NEW c \in Callers PROVE Learned([call[c] EXCEPT !.alone = FALSE], rules, proved)
  BY DEF Crowd
<1> QED
  BY DEF IngressInv, Learned

LEMMA Beginnings ==
  ASSUME IngressInv, NEW c \in Callers, Begins(c)
  PROVE  IngressInv'
<1>1. ASSUME NEW r, Begin(c, r), \A b \in BOOLEAN : Learned([r EXCEPT !.alone = b], rules, proved)
      PROVE  IngressInv'
  <2>1. PICK quiet \in BOOLEAN :
          call' = [Crowd(call) EXCEPT ![c] = [r EXCEPT !.alone = quiet]]
    BY <1>1 DEF Begin
  <2>2. DOMAIN call' = Callers /\ \A d \in Callers : Learned(call'[d], rules, proved)
    BY <1>1, <2>1, CrowdLearns
  <2> QED
    BY <1>1, <2>2 DEF Begin, onBox, atEdge, IngressInv, HasZone, RulesBeforeNames, TokensAreProven
<1>2. CASE Connect(c)
  <2>1. PICK t \in Given : Begin(c, [Idle EXCEPT !.how = "connect", !.at = "mint", !.tok = t])
    BY <1>2 DEF Connect
  <2>2. \A b \in BOOLEAN : Learned([[Idle EXCEPT !.how = "connect", !.at = "mint", !.tok = t] EXCEPT !.alone = b], rules, proved)
    BY DEF Learned, Idle
  <2> QED
    BY <1>1, <2>1, <2>2
<1>3. CASE Setup(c)
  <2>1. PICK z \in Zones : Begin(c, [Idle EXCEPT !.how = "setup", !.at = "token", !.zone = z])
    BY <1>3 DEF Setup
  <2>2. \A b \in BOOLEAN : Learned([[Idle EXCEPT !.how = "setup", !.at = "token", !.zone = z] EXCEPT !.alone = b], rules, proved)
    BY DEF Learned, Idle
  <2> QED
    BY <1>1, <2>1, <2>2
<1>4. CASE Console(c)
  <2>1. PICK on \in BOOLEAN : Begin(c, [Idle EXCEPT !.how = "console", !.at = "load", !.on = on])
    BY <1>4 DEF Console
  <2>2. \A b \in BOOLEAN : Learned([[Idle EXCEPT !.how = "console", !.at = "load", !.on = on] EXCEPT !.alone = b], rules, proved)
    BY DEF Learned, Idle
  <2> QED
    BY <1>1, <2>1, <2>2
<1>5. CASE Configure(c)
  <2>1. PICK w \in Ways, z \in Zones \cup {None}, on \in BOOLEAN : Begin(c, [Idle EXCEPT !.how = "configure", !.at = "load", !.way = w, !.zone = z, !.on = on])
    BY <1>5 DEF Configure
  <2>2. \A b \in BOOLEAN : Learned([[Idle EXCEPT !.how = "configure", !.at = "load", !.way = w, !.zone = z, !.on = on] EXCEPT !.alone = b], rules, proved)
    BY DEF Learned, Idle
  <2> QED
    BY <1>1, <2>1, <2>2
<1> QED
  BY <1>2, <1>3, <1>4, <1>5 DEF Begins

LEMMA Outside ==
  ASSUME IngressInv, Revoke \/ DeleteTunnel \/ RemoveRecord \/ Restart
  PROVE  IngressInv'
<1>1. DOMAIN call' = Callers /\ \A c \in Callers : Learned(call'[c], rules', proved')
  BY CrowdLearns, IdleLearned
     DEF Revoke, DeleteTunnel, RemoveRecord, Restart, Tidies, onBox, atEdge
<1>2. RulesBeforeNames' /\ DOMAIN rules' = Tunnels /\ DOMAIN dns' = Zones
  <2>1. CASE RemoveRecord
    BY <2>1, IngressAssumption DEF RemoveRecord, Tidies, IngressInv, RulesBeforeNames
  <2>2. CASE Revoke \/ DeleteTunnel \/ Restart
    BY <2>2 DEF Revoke, DeleteTunnel, Restart, Tidies, atEdge, IngressInv, RulesBeforeNames
  <2> QED
    BY <2>1, <2>2
<1> QED
  BY <1>1, <1>2
     DEF Revoke, DeleteTunnel, RemoveRecord, Restart, Tidies, onBox, IngressInv, HasZone,
         TokensAreProven

LEMMA InvStep == IngressInv /\ [Next]_vars => IngressInv'
<1>1. ASSUME IngressInv, UNCHANGED vars PROVE IngressInv'
  BY <1>1 DEF vars, onBox, atEdge, bounds, IngressInv, HasZone, RulesBeforeNames,
              TokensAreProven
<1> QED
  BY <1>1, Connects, SetsUp, Configures, Beginnings, Outside DEF Next, Step

(* No domain is ever led into a tunnel of this Box that has no edge rules, *)
(* whichever of its steps a setup stops at, retries from or overlaps.      *)
THEOREM RulesComeFirst == Spec => []RulesBeforeNames
<1>1. IngressInv => RulesBeforeNames
  BY DEF IngressInv
<1> QED
  BY <1>1, InvInit, InvStep, PTL DEF Spec

(* Cloudflare has accepted every token the Box keeps.                      *)
THEOREM TokensWereTried == Spec => []TokensAreProven
<1>1. IngressInv => TokensAreProven
  BY DEF IngressInv
<1> QED
  BY <1>1, InvInit, InvStep, PTL DEF Spec

-----------------------------------------------------------------------------
(***************************************************************************)
(* What a setup reports as done stands.  A call that is alone is the only  *)
(* one there is, so what it found or made at Cloudflare and on the Box is  *)
(* as it left it; whatever happens in the dashboard makes it not alone.    *)
(***************************************************************************)
(* What a setup has left behind it by the step it is at. *)
Stands(r, n, as, rs, ds) ==
  /\ r.at \in {"store", "rules", "dns"} => r.tun = n
  /\ r.at \in {"rules", "dns"} => as = n
  /\ r.at = "dns" => n \in Tunnels /\ rs[n].zone = r.zone
  /\ r.at \in {"load", "save"} /\ ~r.needed =>
       n \in Tunnels /\ as = n /\ rs[n].zone = r.zone /\ ds[r.zone] = n

SetupShape(r) ==
  /\ {"how", "at", "zone", "way", "tun", "needed", "alone"} \subseteq DOMAIN r
  /\ r.how = "setup" => r.zone \in Zones /\ r.way = "domain"

DoneInv ==
  /\ DOMAIN call = Callers /\ \A c \in Callers : SetupShape(call[c])
  /\ \A c, d \in Callers : call[c].alone /\ c # d => call[d].how = "none"
  /\ \A c \in Callers : call[c].how = "setup" /\ call[c].alone =>
       Stands(call[c], named, runsAs, rules, dns)
  /\ ready # None => \A c \in Callers : call[c].how = "none"
  /\ DoneIsDone

LEMMA IdleShape == SetupShape(Idle) /\ ~Idle.alone /\ Idle.how = "none"
  BY DEF SetupShape, Idle

LEMMA DoneInit == Init => DoneInv
  BY IdleShape DEF Init, DoneInv, DoneIsDone

(* A step of a call that is under way: nothing is reported yet, and if the *)
(* call is alone no other one has to be looked at.                         *)
LEMMA OneSetupGoesOn ==
  ASSUME DoneInv, NEW c \in Callers, call[c].how # "none", ready' = ready,
         NEW r, call' = [call EXCEPT ![c] = r], SetupShape(r), r.alone = call[c].alone,
         r.how = "setup" /\ r.alone => Stands(r, named', runsAs', rules', dns')
  PROVE  DoneInv'
<1>1. /\ DOMAIN call' = Callers /\ call'[c] = r
      /\ \A d \in Callers \ {c} : call'[d] = call[d] /\ ~call[d].alone
  BY DEF DoneInv
<1>2. DoneIsDone' /\ ready' = None
  BY DEF DoneInv, DoneIsDone
<1>3. \A d, e \in Callers : call'[d].alone /\ d # e => call'[e].how = "none"
  BY <1>1 DEF DoneInv
<1>4. \A d \in Callers : SetupShape(call'[d])
  BY <1>1 DEF DoneInv
<1>5. \A d \in Callers : call'[d].how = "setup" /\ call'[d].alone =>
        Stands(call'[d], named', runsAs', rules', dns')
  BY <1>1
<1> QED
  BY <1>1, <1>2, <1>3, <1>4, <1>5 DEF DoneInv

(* A call returns: only one that was alone may report something as done.   *)
LEMMA OneReturns ==
  ASSUME DoneInv, NEW c \in Callers, Returns(c), UNCHANGED <<named, runsAs, rules, dns>>,
         \/ ready' = None
         \/ ready' = ready /\ toml' = toml
         \/ call[c].alone /\ DoneIsDone'
  PROVE  DoneInv'
<1>1. /\ DOMAIN call' = Callers /\ call'[c] = Idle
      /\ \A d \in Callers \ {c} : call'[d] = call[d]
  BY DEF DoneInv, Returns
<1>2. \A d, e \in Callers : call'[d].alone /\ d # e => call'[e].how = "none"
  BY <1>1, IdleShape DEF DoneInv
<1>3. DoneIsDone'
  BY DEF DoneInv, DoneIsDone
<1>4. \A d \in Callers : SetupShape(call'[d])
  BY <1>1, IdleShape DEF DoneInv
<1>5. \A d \in Callers : call'[d].how = "setup" /\ call'[d].alone =>
        Stands(call'[d], named', runsAs', rules', dns')
  BY <1>1, IdleShape DEF DoneInv
<1>6. ready' # None => \A d \in Callers : call'[d].how = "none"
  BY <1>1, IdleShape DEF DoneInv
<1> QED
  BY <1>1, <1>2, <1>3, <1>4, <1>5, <1>6 DEF DoneInv

LEMMA SetupKeepsDone ==
  ASSUME IngressInv, DoneInv, NEW c \in Callers,
         SetupToken(c) \/ FindZone(c) \/ CreateTunnel(c) \/ FetchRunToken(c)
         \/ StoreRunToken(c) \/ PutRules(c) \/ AddRecord(c) \/ RecordNotMade(c)
         \/ AuthError(c) \/ Remint(c)
  PROVE  DoneInv'
<1>1. /\ call[c].how = "setup" /\ SetupShape(call[c])
      /\ call[c].zone \in Zones /\ ready' = ready
      /\ call[c].alone => Stands(call[c], named, runsAs, rules, dns)
      /\ call[c].at \in {"run_token", "store", "rules", "dns"} => call[c].tun \in Tunnels
  <2>1. /\ call[c].how = "setup" /\ ready' = ready
    BY DEF SetupToken, FindZone, CreateTunnel, FetchRunToken, StoreRunToken, PutRules,
           AddRecord, RecordNotMade, AuthError, Remint, At
  <2> QED
    BY <2>1, IdleShape DEF DoneInv, IngressInv, Learned, SetupShape
<1>2. CASE SetupToken(c) \/ FindZone(c) \/ CreateTunnel(c)
  <2>1. CASE SetupToken(c)
    <3>1. call' = [call EXCEPT ![c] = [call[c] EXCEPT !.at = "find", !.tok = api]]
      BY <2>1 DEF SetupToken
    <3> QED
      BY <1>1, <3>1, OneSetupGoesOn DEF SetupShape, Stands
  <2>2. CASE FindZone(c)
    <3>1. PICK pending \in BOOLEAN :
            call' = [call EXCEPT ![c] = [call[c] EXCEPT !.at = "create", !.needed = pending]]
      BY <2>2 DEF FindZone
    <3> QED
      BY <1>1, <3>1, OneSetupGoesOn DEF SetupShape, Stands
  <2>3. CASE CreateTunnel(c)
    <3>1. call' = [call EXCEPT ![c] = [call[c] EXCEPT !.at = "run_token", !.tun = made']]
      BY <2>3 DEF CreateTunnel
    <3> QED
      BY <1>1, <3>1, OneSetupGoesOn DEF SetupShape, Stands
  <2> QED
    BY <1>2, <2>1, <2>2, <2>3
<1>3. CASE FetchRunToken(c)
  <2>1. call' = [call EXCEPT ![c] = [call[c] EXCEPT !.at = "store"]] /\ call[c].tun = named'
    BY <1>3 DEF FetchRunToken, Goes, atEdge
  <2> QED
    BY <1>1, <2>1, OneSetupGoesOn DEF SetupShape, Stands
<1>4. CASE StoreRunToken(c)
  <2>1. /\ call' = [call EXCEPT ![c] = [call[c] EXCEPT !.at = "rules"]]
        /\ call[c].at = "store" /\ runsAs' = call[c].tun /\ named' = named
    BY <1>4 DEF StoreRunToken, Goes, At, atEdge
  <2> QED
    BY <1>1, <2>1, OneSetupGoesOn DEF SetupShape, Stands
<1>5. CASE PutRules(c)
  <2>1. /\ call' = [call EXCEPT ![c] = [call[c] EXCEPT !.at = "dns"]]
        /\ call[c].at = "rules" /\ call[c].tun = named
        /\ runsAs' = runsAs /\ named' = named
        /\ rules' = [rules EXCEPT ![call[c].tun] = [zone |-> call[c].zone, console |-> FALSE]]
    BY <1>5 DEF PutRules, Goes, At, onBox
  <2>2. rules'[named].zone = call[c].zone /\ named \in Tunnels
    BY <1>1, <2>1 DEF IngressInv
  <2> QED
    BY <1>1, <2>1, <2>2, OneSetupGoesOn DEF SetupShape, Stands
<1>6. CASE AddRecord(c)
  <2>1. /\ call' = [call EXCEPT ![c] = [call[c] EXCEPT !.at = "load"]]
        /\ call[c].at = "dns" /\ UNCHANGED <<named, runsAs, rules>>
        /\ dns' = [dns EXCEPT ![call[c].zone] = call[c].tun]
    BY <1>6 DEF AddRecord, Goes, At, onBox
  <2>2. dns'[call[c].zone] = call[c].tun
    BY <1>1, <2>1 DEF IngressInv
  <2> QED
    BY <1>1, <2>1, <2>2, OneSetupGoesOn DEF SetupShape, Stands
<1>7. CASE RecordNotMade(c)
  <2>1. call' = [call EXCEPT ![c] = [call[c] EXCEPT !.at = "load", !.needed = TRUE]]
    BY <1>7 DEF RecordNotMade
  <2> QED
    BY <1>1, <2>1, OneSetupGoesOn DEF SetupShape, Stands
<1>8. CASE AuthError(c)
  <2>1. call' = [call EXCEPT ![c] = [call[c] EXCEPT !.at = "remint"]]
    BY <1>8 DEF AuthError, Goes
  <2> QED
    BY <1>1, <2>1, OneSetupGoesOn DEF SetupShape, Stands
<1>9. CASE Remint(c)
  <2> DEFINE again == [Idle EXCEPT !.how = "setup", !.at = "token", !.zone = call[c].zone,
                                   !.again = TRUE, !.alone = call[c].alone]
  <2>1. call' = [call EXCEPT ![c] = again]
    BY <1>9 DEF Remint
  <2>2. SetupShape(again) /\ again.alone = call[c].alone /\ again.at = "token"
    BY <1>1 DEF SetupShape, Idle
  <2> QED
    BY <1>1, <2>1, <2>2, OneSetupGoesOn DEF Stands
<1> QED
  BY <1>2, <1>3, <1>4, <1>5, <1>6, <1>7, <1>8, <1>9

LEMMA OthersKeepDone ==
  ASSUME IngressInv, DoneInv, NEW c \in Callers,
         ConnectMints(c) \/ ConnectCannotMint(c) \/ KeepParent(c) \/ KeepChild(c)
         \/ Verify(c) \/ KeepDirect(c)
         \/ ConsoleLoads(c) \/ ConsoleFinds(c) \/ ConsoleRules(c) \/ ConsoleSaves(c)
  PROVE  DoneInv'
<1>1. /\ call[c].how \in {"connect", "console"} /\ SetupShape(call[c])
      /\ ready' = ready /\ ready = None
  <2>1. call[c].how \in {"connect", "console"} /\ ready' = ready
    BY DEF ConnectMints, ConnectCannotMint, KeepParent, KeepChild, Verify, KeepDirect,
           ConsoleLoads, ConsoleFinds, ConsoleRules, ConsoleSaves, At
  <2> QED
    BY <2>1, IdleShape DEF DoneInv
<1>2. CASE KeepChild(c) \/ KeepDirect(c) \/ ConsoleSaves(c)
  BY <1>1, <1>2, OneReturns DEF KeepChild, KeepDirect, ConsoleSaves, atEdge
<1>3. ASSUME NEW r, call' = [call EXCEPT ![c] = r], r.alone = call[c].alone,
             r.how = call[c].how, DOMAIN r = DOMAIN call[c]
      PROVE  DoneInv'
  BY <1>1, <1>3, OneSetupGoesOn DEF SetupShape
<1>4. CASE ConnectMints(c)
  <2>1. PICK child : call' = [call EXCEPT ![c] = [call[c] EXCEPT !.at = "keep_parent",
                                                                 !.child = child]]
    BY <1>4 DEF ConnectMints
  <2> QED
    BY <1>1, <1>3, <2>1 DEF SetupShape
<1>5. CASE ConnectCannotMint(c) \/ KeepParent(c) \/ Verify(c) \/ ConsoleRules(c)
  <2>1. PICK at : call' = [call EXCEPT ![c] = [call[c] EXCEPT !.at = at]]
    BY <1>5 DEF ConnectCannotMint, KeepParent, Verify, ConsoleRules, Goes
  <2> QED
    BY <1>1, <1>3, <2>1 DEF SetupShape
<1>6. CASE ConsoleLoads(c)
  <2>1. call' = [call EXCEPT ![c] = [call[c] EXCEPT !.at = "find", !.copy = toml, !.tok = api]]
    BY <1>6 DEF ConsoleLoads
  <2> QED
    BY <1>1, <1>3, <2>1 DEF SetupShape
<1>7. CASE ConsoleFinds(c)
  <2>1. call' = [call EXCEPT ![c] = [call[c] EXCEPT !.at = "rules", !.tun = named]]
    BY <1>7 DEF ConsoleFinds
  <2> QED
    BY <1>1, <1>3, <2>1 DEF SetupShape
<1> QED
  BY <1>2, <1>4, <1>5, <1>6, <1>7

(* The end of a setup, which is where it reports. *)
LEMMA EndsKeepDone ==
  ASSUME IngressInv, DoneInv, NEW c \in Callers, Load(c) \/ Save(c) \/ Fails(c)
  PROVE  DoneInv'
<1>1. /\ SetupShape(call[c])
      /\ call[c].how = "setup" /\ call[c].alone => Stands(call[c], named, runsAs, rules, dns)
  BY IdleShape DEF DoneInv, Load, Save, Fails
<1>2. CASE Load(c)
  <2>1. /\ call' = [call EXCEPT ![c] = [call[c] EXCEPT !.at = "save", !.copy = toml]]
        /\ call[c].at = "load" /\ call[c].how # "none"
        /\ UNCHANGED <<named, runsAs, rules, dns, ready>>
    BY <1>2 DEF Load, onBox, atEdge
  <2> QED
    BY <1>1, <2>1, OneSetupGoesOn DEF SetupShape, Stands
<1>3. CASE Fails(c)
  BY <1>1, <1>3, OneReturns DEF Fails, onBox, atEdge
<1>4. CASE Save(c)
  <2>1. CASE call[c].how = "setup" /\ call[c].alone /\ ~call[c].needed
    <3>1. /\ toml' = NewWayIn(c) /\ ready' = call[c].zone /\ call[c].at = "save"
          /\ UNCHANGED <<named, runsAs, rules, dns>>
      BY <1>4, <2>1 DEF Save, atEdge
    <3>2. call[c].zone \in Zones /\ call[c].zone # None /\ call[c].way = "domain"
      BY <1>1, <2>1, IngressAssumption DEF SetupShape
    <3>3. toml'.way = "domain" /\ toml'.enabled /\ toml'.zone = ready'
      BY <2>1, <3>1, <3>2 DEF NewWayIn, Enables
    <3>4. DoneIsDone'
      BY <1>1, <2>1, <3>1, <3>3, IngressAssumption DEF DoneIsDone, Stands
    <3> QED
      BY <1>1, <1>4, <2>1, <3>4, OneReturns DEF Save, atEdge
  <2>2. CASE ~(call[c].how = "setup" /\ call[c].alone /\ ~call[c].needed)
    BY <1>1, <1>4, <2>2, OneReturns DEF Save, atEdge
  <2> QED
    BY <2>1, <2>2
<1> QED
  BY <1>2, <1>3, <1>4

(* What begins reports nothing, and is alone if nothing else is under way. *)
LEMMA BeginningsKeepDone ==
  ASSUME DoneInv, NEW c \in Callers, Begins(c)
  PROVE  DoneInv'
<1>1. \A d \in Callers : /\ SetupShape(Crowd(call)[d]) /\ ~Crowd(call)[d].alone
                           /\ Crowd(call)[d].how = call[d].how
  <2> SUFFICES ASSUME NEW d \in Callers
               PROVE  LET s == [call[d] EXCEPT !.alone = FALSE]
                      IN  SetupShape(s) /\ s.alone = FALSE /\ s.how = call[d].how
    BY DEF Crowd
  <2> QED
    BY DEF DoneInv, SetupShape
<1>2. ASSUME NEW r, Begin(c, r), \A b \in BOOLEAN :
               LET begun == [r EXCEPT !.alone = b]
               IN  /\ SetupShape(begun) /\ begun.alone = b
                   /\ begun.at \notin {"store", "rules", "dns", "save"}
                   /\ begun.how = "setup" => begun.at # "load"
      PROVE  DoneInv'
  <2> DEFINE quiet == \A d \in Callers \ {c} : call[d] = Idle
             begun == [r EXCEPT !.alone = quiet]
  <2>1. call' = [Crowd(call) EXCEPT ![c] = begun] /\ ready' = None
    BY <1>2 DEF Begin
  <2>2. /\ SetupShape(begun)
        /\ begun.alone => \A d \in Callers \ {c} : call[d] = Idle
        /\ begun.how = "setup" => Stands(begun, named', runsAs', rules', dns')
    <3>1. quiet \in BOOLEAN
      OBVIOUS
    <3>2. /\ SetupShape(begun) /\ begun.alone = quiet
          /\ begun.at \notin {"store", "rules", "dns", "save"}
          /\ begun.how = "setup" => begun.at # "load"
      BY <1>2, <3>1
    <3>3. begun.how = "setup" => Stands(begun, named', runsAs', rules', dns')
      BY <3>2 DEF Stands
    <3> HIDE DEF begun
    <3> QED
      BY <3>2, <3>3
  <2>3. /\ DOMAIN call' = Callers /\ call'[c] = begun
        /\ \A d \in Callers \ {c} : call'[d] = Crowd(call)[d]
    BY <2>1 DEF Crowd
  <2>7. \A d \in Callers \ {c} : /\ SetupShape(call'[d]) /\ ~call'[d].alone
                                 /\ call'[d].how = call[d].how
    BY <1>1, <2>3
  <2>4. DoneIsDone'
    BY <2>1 DEF DoneIsDone
  <2> HIDE DEF begun, quiet
  <2>5. ASSUME NEW d \in Callers, NEW e \in Callers, call'[d].alone, d # e
        PROVE  call'[e].how = "none"
    <3>1. d = c
      BY <2>7, <2>5
    <3> QED
      BY IdleShape, <2>2, <2>3, <2>7, <2>5, <3>1
  <2>6. ASSUME NEW d \in Callers
        PROVE  /\ SetupShape(call'[d])
               /\ call'[d].how = "setup" /\ call'[d].alone =>
                    Stands(call'[d], named', runsAs', rules', dns')
    <3>1. CASE d = c
      BY <2>2, <2>3, <3>1
    <3>2. CASE d # c
      BY <2>7, <3>2
    <3> QED
      BY <3>1, <3>2
  <2> QED
    BY <2>1, <2>3, <2>4, <2>5, <2>6 DEF DoneInv
<1>3. CASE Connect(c)
  <2>1. PICK t \in Given : Begin(c, [Idle EXCEPT !.how = "connect", !.at = "mint", !.tok = t])
    BY <1>3 DEF Connect
  <2> QED
    BY <1>2, <2>1 DEF SetupShape, Idle
<1>4. CASE Setup(c)
  <2>1. PICK z \in Zones : Begin(c, [Idle EXCEPT !.how = "setup", !.at = "token", !.zone = z])
    BY <1>4 DEF Setup
  <2> QED
    BY <1>2, <2>1 DEF SetupShape, Idle
<1>5. CASE Console(c)
  <2>1. PICK on \in BOOLEAN :
          Begin(c, [Idle EXCEPT !.how = "console", !.at = "load", !.on = on])
    BY <1>5 DEF Console
  <2> QED
    BY <1>2, <2>1 DEF SetupShape, Idle
<1>6. CASE Configure(c)
  <2>1. PICK w \in Ways, z \in Zones \cup {None}, on \in BOOLEAN :
          Begin(c, [Idle EXCEPT !.how = "configure", !.at = "load", !.way = w, !.zone = z,
                                !.on = on])
    BY <1>6 DEF Configure
  <2> QED
    BY <1>2, <2>1 DEF SetupShape, Idle
<1> QED
  BY <1>3, <1>4, <1>5, <1>6 DEF Begins

LEMMA OutsideKeepsDone ==
  ASSUME DoneInv, Revoke \/ DeleteTunnel \/ RemoveRecord \/ Restart
  PROVE  DoneInv'
<1>1. ready' = None /\ (call' = Crowd(call) \/ call' = [c \in Callers |-> Idle])
  BY DEF Revoke, DeleteTunnel, RemoveRecord, Restart, Tidies
<1>2. DoneIsDone'
  BY <1>1 DEF DoneIsDone
<1>3. DOMAIN call' = Callers /\ \A c \in Callers : SetupShape(call'[c]) /\ ~call'[c].alone
  BY <1>1, IdleShape DEF Crowd, DoneInv, SetupShape
<1> QED
  BY <1>1, <1>2, <1>3 DEF DoneInv

LEMMA DoneStep == IngressInv /\ DoneInv /\ [Next]_vars => DoneInv'
<1>1. ASSUME DoneInv, UNCHANGED vars PROVE DoneInv'
  BY <1>1 DEF vars, onBox, atEdge, bounds, DoneInv, DoneIsDone
<1> QED
  BY <1>1, SetupKeepsDone, OthersKeepDone, EndsKeepDone, BeginningsKeepDone, OutsideKeepsDone
     DEF Next, Step

(* A setup that ran with nothing beside it and reported nothing left to do *)
(* has left the whole chain standing, whatever earlier attempts left.      *)
THEOREM DoneStands == Spec => []DoneIsDone
<1>1. DoneInv => DoneIsDone
  BY DEF DoneInv
<1> QED
  BY <1>1, InvInit, InvStep, DoneInit, DoneStep, PTL DEF Spec
=============================================================================
