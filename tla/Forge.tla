---------------------------------- MODULE Forge ----------------------------------
(***************************************************************************)
(* Connecting the Box to the place the person's code lives, by the OAuth   *)
(* device flow: the Box is given a code, the person types it in at the     *)
(* forge, and whoever asks the Box in the meantime makes it ask the forge  *)
(* once.  Agents ask concurrently and nothing here takes the apply lock.   *)
(*                                                                         *)
(* Three places hold the state: box.toml says where a forge is, and two    *)
(* secrets hold the code that is waited for and the token that came of it. *)
(***************************************************************************)
EXTENDS Naturals, FiniteSets

CONSTANTS
  Providers,  \* the forges a Box knows
  Fixed,      \* those that are in one place only: GitHub
  Hosts,      \* addresses a forge can be at
  Public,     \* the one that is used when box.toml names none
  Callers,    \* threads that serve tool calls
  Settings,   \* what a call may configure: an address, an application, or nothing
  Older,      \* what box.toml may be brought back to
  MaxCodes,   \* bound: codes the forges hand out
  MaxCalls,   \* bound: calls that are made, and times box.toml is brought back
  Nothing, CutOff  \* no such secret, no address given; a secret file cut off

ASSUME ForgeAssumption ==
  /\ Fixed \subseteq Providers /\ Public \in Hosts
  /\ Settings \subseteq [base : Hosts \cup {Nothing}, client : BOOLEAN]
  /\ Older \subseteq [Providers -> [base : Hosts \cup {Nothing}, client : BOOLEAN]]
  /\ MaxCodes \in Nat /\ MaxCalls \in Nat
  /\ {Nothing, CutOff} \cap (Hosts \cup Nat) = {} /\ Nothing # CutOff

VARIABLES
  forges,   \* box.toml: the address and the application of each forge
  pending,  \* secret forge-<id>-pending: the code that is waited for
  token,    \* secret forge-<id>-token: the code it was given for
  codes,    \* what the forges handed out: where, how old, and what became of it
  calls,    \* the call each thread is serving
  made,     \* how many calls were made
  strayed,  \* history: tokens that were sent to another address than their own
  led,      \* history: tokens that followed their forge's answer to another address
  moved,    \* history: a configure overlapped another call, or box.toml was
            \* brought back under a call, or under a token with another address
  typed,    \* history: the code a person has, kept when nobody else was past his look
  gone      \* history: disconnected when nothing was under way, not started again

keptVars == <<forges, pending, token>>
ghosts   == <<strayed, led, moved, typed, gone>>
fgVars   == <<keptVars, codes, calls, made, ghosts>>

Codes   == 1 .. MaxCodes
Entries == [base : Hosts \cup {Nothing}, client : BOOLEAN]
NoEntry == [base |-> Nothing, client |-> FALSE]

(* A call: what is left to do, and what it read before. *)
NoCall == [at |-> "idle"]
Call(at, p, entry) == [at |-> at, p |-> p, entry |-> entry]

Is(c, at)     == calls[c].at = at
GoesOn(c, at) == calls' = [calls EXCEPT ![c].at = at]
Ends(c)       == calls' = [calls EXCEPT ![c] = NoCall]
Busy(p)       == {c \in Callers : calls[c] # NoCall /\ calls[c].p = p}
Alone(c)      == \A d \in Callers \ {c} : calls[d] = NoCall

(* Nobody else acts on a code, or on that there is none, that he has seen. *)
SeenByNoOther(c) ==
  \A d \in Busy(calls[c].p) \ {c} :
    calls[d].at \notin {"mint", "keep", "ask", "keepslow", "connect", "drop"}

-----------------------------------------------------------------------------
(***************************************************************************)
(* What a forge's configuration comes to                                   *)
(***************************************************************************)
Base(entry)       == IF entry.base = Nothing THEN Public ELSE entry.base
Address(p, entry) == IF p \in Fixed THEN Public ELSE Base(entry)

(* An application ships for GitHub; elsewhere the operator registers one.  *)
Endpoints(p, entry) == p \in Fixed \/ entry.client

(* A secret that cannot be read is none to exists(), an error to get().    *)
Exists(secret) == secret \in Codes

(* The last minute of a code's life counts as dead to start(). *)
Ages    == {"fresh", "dying", "expired"}
Live(n) == codes[n].age = "fresh"

(* Where git sends the token: to URLs under the forge's address. *)
GitAuth(p, entry, url) == IF url = Address(p, entry) THEN {url} ELSE {}

-----------------------------------------------------------------------------
(***************************************************************************)
(* forge_connect: configure, when it was given something, and start        *)
(***************************************************************************)
Asks(c, call) ==
  /\ calls[c] = NoCall /\ made < MaxCalls
  /\ made' = made + 1
  /\ calls' = [calls EXCEPT ![c] = call]
  /\ moved' = (moved \/ \E d \in Callers : Is(d, "save"))

BeginConnect(c, p, asked) ==
  /\ Asks(c, IF Exists(token[p]) THEN NoCall
             ELSE Call(IF asked = NoEntry THEN "read" ELSE "configure", p, asked))
  /\ gone' = IF Exists(token[p]) THEN gone ELSE [gone EXCEPT ![p] = FALSE]
  /\ UNCHANGED <<keptVars, codes, strayed, led, typed>>

(* Given nothing to configure, it loads what box.toml says. *)
ReadConfig(c) ==
  /\ Is(c, "read")
  /\ calls' = [calls EXCEPT ![c] = Call("start", @.p, forges[@.p])]
  /\ UNCHANGED <<keptVars, codes, made, ghosts>>

Merged(old, asked) ==
  [base   |-> IF asked.base = Nothing THEN old.base ELSE asked.base,
   client |-> old.client \/ asked.client]

(* Mutant: the address may be moved while a token is held. *)
ConfigureMoves(c) ==
  /\ Is(c, "configure")
  /\ LET p == calls[c].p IN
     calls' = [calls EXCEPT ![c] =
       [at |-> "save", p |-> p, file |-> [forges EXCEPT ![p] = Merged(@, calls[c].entry)]]]
  /\ moved' = (moved \/ ~Alone(c))
  /\ UNCHANGED <<keptVars, codes, made, strayed, led, typed, gone>>

(* box.toml is loaded, and the address refused when it would move from     *)
(* under a token.                                                          *)
Configure(c) ==
  /\ Is(c, "configure")
  /\ LET p == calls[c].p   asked == calls[c].entry IN
     IF asked.base # Nothing /\ Exists(token[p]) /\ forges[p].base # asked.base
     THEN Ends(c)
     ELSE calls' = [calls EXCEPT ![c] =
            [at |-> "save", p |-> p, file |-> [forges EXCEPT ![p] = Merged(@, asked)]]]
  /\ moved' = (moved \/ ~Alone(c))
  /\ UNCHANGED <<keptVars, codes, made, strayed, led, typed, gone>>

(* All of what was loaded is written back. *)
SaveConfig(c) ==
  /\ Is(c, "save")
  /\ forges' = calls[c].file
  /\ calls' = [calls EXCEPT ![c] = Call("start", calls[c].p, calls[c].file[calls[c].p])]
  /\ moved' = (moved \/ ~Alone(c))
  /\ typed' = [p \in Providers |-> IF forges'[p] = forges[p] THEN typed[p] ELSE Nothing]
  /\ UNCHANGED <<pending, token, codes, made, strayed, led, gone>>

(* Mutant: a code that is waited for is replaced. *)
StartAnew(c) ==
  /\ Is(c, "start")
  /\ IF pending[calls[c].p] # CutOff /\ Endpoints(calls[c].p, calls[c].entry)
     THEN GoesOn(c, "mint") ELSE Ends(c)
  /\ UNCHANGED <<keptVars, codes, made, ghosts>>

(* start: the same code as long as it is good for more than a minute. *)
Start(c) ==
  /\ Is(c, "start")
  /\ LET p == calls[c].p IN
     IF pending[p] = CutOff \/ (pending[p] \in Codes /\ Live(pending[p]))
     THEN Ends(c)
     ELSE IF Endpoints(p, calls[c].entry) THEN GoesOn(c, "mint") ELSE Ends(c)
  /\ UNCHANGED <<keptVars, codes, made, ghosts>>

(* The forge hands out a code, or cannot be reached. *)
Mint(c) ==
  /\ Is(c, "mint")
  /\ \/ /\ Cardinality(DOMAIN codes) < MaxCodes
        /\ LET n == Cardinality(DOMAIN codes) + 1
               host == Address(calls[c].p, calls[c].entry) IN
           /\ codes' = [m \in 1 .. n |-> IF m = n
                          THEN [host |-> host, age |-> "fresh", is |-> "issued"] ELSE codes[m]]
           /\ calls' = [calls EXCEPT ![c] = [at |-> "keep", p |-> calls[c].p, code |-> n]]
     \/ Ends(c) /\ UNCHANGED codes
  /\ UNCHANGED <<keptVars, made, ghosts>>

(* The code is kept, and shown. *)
KeepPending(c) ==
  /\ Is(c, "keep")
  /\ pending' = [pending EXCEPT ![calls[c].p] = calls[c].code]
  /\ typed' = [typed EXCEPT ![calls[c].p] =
       IF @ \in Codes /\ Live(@) THEN @
       ELSE IF SeenByNoOther(c) THEN calls[c].code ELSE Nothing]
  /\ Ends(c)
  /\ UNCHANGED <<forges, token, codes, made, strayed, led, moved, gone>>

-----------------------------------------------------------------------------
(***************************************************************************)
(* forge_connect_status: one question to the forge                         *)
(***************************************************************************)
BeginStatus(c, p) ==
  /\ Asks(c, Call("poll", p, forges[p]))
  /\ UNCHANGED <<keptVars, codes, strayed, led, typed, gone>>

Poll(c) ==
  /\ Is(c, "poll")
  /\ LET p == calls[c].p   n == pending[p] IN
     IF Exists(token[p]) \/ n \notin Codes THEN Ends(c)
     ELSE IF codes[n].age = "expired"
          THEN calls' = [calls EXCEPT ![c] = [at |-> "drop", p |-> p, code |-> n]]
     ELSE IF Endpoints(p, calls[c].entry)
          THEN calls' = [calls EXCEPT ![c] =
                 [at |-> "ask", p |-> p, code |-> n, to |-> Address(p, calls[c].entry)]]
     ELSE Ends(c)
  /\ UNCHANGED <<keptVars, codes, made, ghosts>>

(* What the forge answers for a code: a token once, when it was approved. *)
Answers(n, host) ==
  IF codes[n].host # host \/ codes[n].is = "spent"
     \/ codes[n].age = "expired" THEN {"refused"}
  ELSE IF codes[n].is = "approved" THEN {"token"}
  ELSE {"waiting", "slow_down"}

Ask(c) ==
  /\ Is(c, "ask")
  /\ LET n == calls[c].code IN
     \E answer \in Answers(n, calls[c].to) \cup {"unreachable"} :
       \* an answer can be lost on the way, too
       /\ codes' = IF answer = "token" THEN [codes EXCEPT ![n].is = "spent"] ELSE codes
       /\ CASE answer = "token"     -> GoesOn(c, "connect") \/ Ends(c)
            [] answer = "slow_down" -> GoesOn(c, "keepslow")
            [] answer = "refused"   -> GoesOn(c, "drop")
            [] OTHER                -> Ends(c)
       /\ typed' = [p \in Providers |->
            IF typed[p] = n /\ answer \in {"token", "refused"} THEN Nothing ELSE typed[p]]
  /\ UNCHANGED <<keptVars, made, strayed, led, moved, gone>>

(* Told to slow down, it writes back the code it had read. *)
KeepSlower(c) ==
  /\ Is(c, "keepslow")
  /\ pending' = [pending EXCEPT ![calls[c].p] = calls[c].code]
  /\ Ends(c)
  /\ UNCHANGED <<forges, token, codes, made, ghosts>>

KeepToken(c) ==
  /\ Is(c, "connect")
  /\ token' = [token EXCEPT ![calls[c].p] = calls[c].code]
  /\ GoesOn(c, "drop")
  /\ UNCHANGED <<forges, pending, codes, made, ghosts>>

(* Whatever code is pending by now. *)
DropPending(c) ==
  /\ Is(c, "drop")
  /\ pending' = [pending EXCEPT ![calls[c].p] = Nothing]
  /\ Ends(c)
  /\ UNCHANGED <<forges, token, codes, made, ghosts>>

-----------------------------------------------------------------------------
(***************************************************************************)
(* Using the token, and forgetting it                                      *)
(***************************************************************************)
Astray(n, hosts) == {m \in {n} : \E h \in hosts : h # codes[n].host}
Sends(n, hosts)  == strayed' = strayed \cup Astray(n, hosts)

BeginList(c, p) ==
  /\ Asks(c, Call("list", p, forges[p]))
  /\ UNCHANGED <<keptVars, codes, strayed, led, typed, gone>>

(* The address was read before, the token is read now, and goes on to      *)
(* whatever addresses the answers name for further pages.                  *)
ListRepos(c) ==
  /\ Is(c, "list")
  /\ LET p == calls[c].p   host == Address(p, calls[c].entry) IN
     IF Exists(token[p])
     THEN /\ Sends(token[p], {host})
          /\ \E next \in SUBSET Hosts : led' = led \cup Astray(token[p], next)
     ELSE UNCHANGED <<strayed, led>>
  /\ Ends(c)
  /\ UNCHANGED <<keptVars, codes, made, moved, typed, gone>>

(* A repository that was linked before is fetched, from wherever it is. *)
BeginFetch(c, p, url) ==
  /\ Asks(c, [at |-> "fetch", p |-> p, entry |-> forges[p], url |-> url])
  /\ UNCHANGED <<keptVars, codes, strayed, led, typed, gone>>

FetchLinked(c) ==
  /\ Is(c, "fetch")
  /\ LET p == calls[c].p IN
     IF Exists(token[p])
     THEN Sends(token[p], GitAuth(p, calls[c].entry, calls[c].url))
     ELSE UNCHANGED strayed
  /\ Ends(c)
  /\ UNCHANGED <<keptVars, codes, made, led, moved, typed, gone>>

(* Mutant: the code that is waited for is left. *)
ForgetsToken(c, p) ==
  /\ Asks(c, [at |-> "forget", p |-> p])
  /\ typed' = [typed EXCEPT ![p] = Nothing]
  /\ gone' = [gone EXCEPT ![p] = Busy(p) = {}]
  /\ UNCHANGED <<keptVars, codes, strayed, led>>

BeginDisconnect(c, p) ==
  /\ Asks(c, [at |-> "forget", p |-> p])
  /\ pending' = [pending EXCEPT ![p] = Nothing]
  /\ typed' = [typed EXCEPT ![p] = Nothing]
  /\ gone' = [gone EXCEPT ![p] = Busy(p) = {}]
  /\ UNCHANGED <<forges, token, codes, strayed, led>>

ForgetToken(c) ==
  /\ Is(c, "forget")
  /\ token' = [token EXCEPT ![calls[c].p] = Nothing]
  /\ Ends(c)
  /\ UNCHANGED <<forges, pending, codes, made, ghosts>>

-----------------------------------------------------------------------------
(* box.toml is brought back by a rollback, a restore, a stale settings save *)
(* or a write that was cut off, none of which asks whether there is a token.*)
FileReverts ==
  /\ made < MaxCalls /\ made' = made + 1
  /\ forges' \in Older
  /\ moved' = \/ moved \/ (\E c \in Callers : calls[c] # NoCall)
              \/ \E p \in Providers :
                   Exists(token[p]) /\ Address(p, forges'[p]) # Address(p, forges[p])
  /\ typed' = [p \in Providers |-> IF forges'[p] = forges[p] THEN typed[p] ELSE Nothing]
  /\ UNCHANGED <<pending, token, codes, calls, strayed, led, gone>>

(* The person, at the forge, where a code that was declined is spent; the  *)
(* clock; and the machine.                                                 *)
Answer(n, how) ==
  /\ codes[n].is = "issued" /\ codes[n].age # "expired"
  /\ codes' = [codes EXCEPT ![n].is = how]
  /\ UNCHANGED <<keptVars, calls, made, ghosts>>

Ageing(n) ==
  /\ codes[n].age # "expired"
  /\ codes' = [codes EXCEPT ![n].age = IF @ = "fresh" THEN "dying" ELSE "expired"]
  /\ UNCHANGED <<keptVars, calls, made, ghosts>>

(* The daemon stops; a secret that is just being written is cut off. *)
Cut(secret, ats) ==
  [p \in Providers |->
     IF \E c \in Busy(p) : calls[c].at \in ats THEN CutOff ELSE secret[p]]

Halts ==
  /\ \E c \in Callers : calls[c] # NoCall
  /\ pending' \in {pending, Cut(pending, {"keep", "keepslow"})}
  /\ token' \in {token, Cut(token, {"connect"})}
  /\ typed' = [p \in Providers |-> IF pending'[p] = CutOff THEN Nothing ELSE typed[p]]
  /\ gone' = [p \in Providers |-> gone[p] /\ \A c \in Busy(p) : ~Is(c, "forget")]
  /\ calls' = [c \in Callers |-> NoCall]
  /\ UNCHANGED <<forges, codes, made, strayed, led, moved>>

FGInit ==
  /\ forges = [p \in Providers |-> NoEntry]
  /\ pending = [p \in Providers |-> Nothing] /\ token = pending
  /\ codes = [n \in {} |-> NoCall]
  /\ calls = [c \in Callers |-> NoCall] /\ made = 0
  /\ strayed = {} /\ led = {} /\ moved = FALSE
  /\ typed = [p \in Providers |-> Nothing] /\ gone = [p \in Providers |-> FALSE]

Serve(c) ==
  \/ ReadConfig(c) \/ Configure(c) \/ SaveConfig(c) \/ Start(c) \/ Mint(c) \/ KeepPending(c)
  \/ Poll(c) \/ Ask(c) \/ KeepSlower(c) \/ KeepToken(c) \/ DropPending(c)
  \/ ListRepos(c) \/ FetchLinked(c) \/ ForgetToken(c)

Receive(c, p) ==
  \/ \E asked \in Settings : BeginConnect(c, p, asked)
  \/ BeginStatus(c, p) \/ BeginList(c, p) \/ BeginDisconnect(c, p)
  \/ \E url \in Hosts : BeginFetch(c, p, url)

FGNext ==
  \/ \E c \in Callers : Serve(c) \/ \E p \in Providers : Receive(c, p)
  \/ \E n \in DOMAIN codes : Ageing(n) \/ \E how \in {"approved", "spent"} : Answer(n, how)
  \/ FileReverts \/ Halts

FGSpec == FGInit /\ [][FGNext]_fgVars

-----------------------------------------------------------------------------
(***************************************************************************)
(* Properties                                                              *)
(***************************************************************************)
Stored == Codes \cup {Nothing, CutOff}

FGTypeOK ==
  /\ forges \in [Providers -> Entries]
  /\ pending \in [Providers -> Stored] /\ token \in [Providers -> Stored]
  /\ DOMAIN codes \subseteq Codes
  /\ \A n \in DOMAIN codes :
       codes[n] \in [host : Hosts, age : Ages, is : {"issued", "approved", "spent"}]
  /\ made \in 0 .. MaxCalls
  /\ strayed \subseteq Codes /\ led \subseteq Codes /\ moved \in BOOLEAN
  /\ typed \in [Providers -> Codes \cup {Nothing}] /\ gone \in [Providers -> BOOLEAN]

(* "So a stored credential is never sent to a new address": whatever is    *)
(* polled, fetched, disconnected and connected again meanwhile, the Box    *)
(* itself sends a token only to the address that issued it, as long as no  *)
(* configure overlaps another call and box.toml is not brought back under  *)
(* a call, or with another address under a token.                          *)
TokenStaysHome == ~moved => strayed = {}

(* Once disconnected, with nothing else under way, the Box is not          *)
(* connected again by a code that was approved late: only a new start      *)
(* leads to a token.                                                       *)
GoneIsGone ==
  \A p \in Providers : gone[p] /\ (\A c \in Busy(p) : ~Is(c, "forget")) => token[p] \notin Codes

(* A code that was kept while nobody else acted on what he had seen before *)
(* stays the one the Box waits for, however many agents start, configure   *)
(* and poll at once from then on, until it is answered or it ages, the Box *)
(* is disconnected or what box.toml says of the forge changes.             *)
TypedCodeStands ==
  \A p \in Providers : typed[p] \in Codes /\ Live(typed[p]) => pending[p] = typed[p]

-----------------------------------------------------------------------------
(***************************************************************************)
(* What the documentation says and the code does not keep                  *)
(***************************************************************************)
(* forge.rs:93 "so a stored credential is never sent to a new address":    *)
(* without the exceptions above, and not to an address that the forge's    *)
(* answer names for the next page either.                                  *)
NeverSentElsewhere == strayed = {} /\ led = {}

(* forge.rs:487 "a flow already waiting on the person returns the SAME     *)
(* code": two starts that both looked before either kept its code leave    *)
(* the first person with a code the Box no longer waits for.               *)
AskingTwiceKeepsTheCode ==
  [][\A c \in Callers : KeepPending(c) =>
       ~(Exists(pending[calls[c].p]) /\ Live(pending[calls[c].p]))]_fgVars
===============================================================================
