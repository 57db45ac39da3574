---------------------------------- MODULE Auth ----------------------------------
(***************************************************************************)
(* Who may manage the Box: the credential store auth.json, and the         *)
(* handlers and command lines that load it, change it and save it.         *)
(*                                                                         *)
(* A save writes a temporary file and renames it over the store.  No lock  *)
(* keeps two of them apart, and the temporary file has one name.  Handlers *)
(* of the console are admitted by require_auth before they load the store; *)
(* sign-in ceremonies live in memory.                                      *)
(***************************************************************************)
EXTENDS Naturals, FiniteSets

CONSTANTS
  Handlers,    \* handlers and command lines that run at a time
  Tokens,      \* session tokens there may ever be
  Codes,       \* pairing codes minted here
  SeedCodes,   \* enrollment codes from the install medium; they never expire
  Keys,        \* security keys
  Ceremonies,  \* handles of WebAuthn ceremonies
  MaxRequests, \* bound: what is asked of the Box
  MaxCrashes,  \* bound
  NoFile, Torn, \* no auth.json yet; one that does not parse
  None

OneTime == Codes \cup SeedCodes \cup Ceremonies

Stores == [sessions : SUBSET Tokens, autonomous : SUBSET Tokens,
           codes : SUBSET (Codes \cup SeedCodes), keys : SUBSET Keys,
           user : BOOLEAN, claimed : BOOLEAN, seeded : BOOLEAN]

ASSUME AuthAssumption ==
  /\ None \notin Tokens \cup OneTime \cup {"claim", "cli", "agent"}
  /\ OneTime \cap {"claim", "cli", "agent"} = {}
  /\ Ceremonies \cap (Codes \cup SeedCodes) = {} /\ Codes \cap SeedCodes = {}
  /\ NoFile # Torn /\ {NoFile, Torn} \cap Stores = {}
  /\ MaxRequests \in Nat /\ MaxCrashes \in Nat

VARIABLES
  main,       \* auth.json
  tmp,        \* auth.json.tmp
  hand,       \* the handlers
  ceremonies, \* Ceremonies.inner: what waits for a key's answer
  origin,     \* what a token was minted for; the provenance in its session
  issued,     \* history: one-time credentials that were handed out
  expired,    \* codes and ceremonies whose time is over
  given,      \* history: tokens whose holder was told, and not yet revoked
  told,       \* history: tokens whose holder was ever told
  owned,      \* history: somebody was given a session
  overlapped, \* history: two saves were under way at a time
  halved,     \* history: auth.json did not parse
  requests, crashes

files   == <<main, tmp>>
history == <<given, told, owned, overlapped, halved>>
vars == <<files, hand, ceremonies, origin, issued, expired, history, requests, crashes>>

NewStore == [sessions |-> {}, autonomous |-> {}, codes |-> {}, keys |-> {},
             user |-> FALSE, claimed |-> FALSE, seeded |-> FALSE]

(* Mutant: what is there is what it says. *)
Taken(s) == s

(* Boxes from before `claimed_at` have no record of their claim. *)
Backfilled(s) == [s EXCEPT !.claimed = @ \/ s.sessions # {} \/ s.keys # {}]

(* load_checked tells a missing file from one that does not parse; load    *)
(* does not.                                                               *)
LoadChecked == IF main = NoFile THEN NewStore ELSE Backfilled(main)
Load == IF main = Torn THEN NewStore ELSE LoadChecked

(* What each operation makes of the store it loaded. *)
WithSession(s, t) == [s EXCEPT !.sessions = @ \cup {t}]
Claimed(s, t)     == [WithSession(s, t) EXCEPT !.claimed = TRUE]
Redeemed(s, c, t) == [Claimed(s, t) EXCEPT !.codes = @ \ {c}]
WithCode(s, c)    == [s EXCEPT !.codes = (@ \ expired) \cup {c}]
Seeded(s, c)      == [s EXCEPT !.codes = @ \cup {c}, !.seeded = TRUE]
Revoked(s, t)     == [s EXCEPT !.sessions = @ \ {t}, !.autonomous = @ \ {t}]
WithUser(s)       == [s EXCEPT !.user = TRUE]
WithKey(s, k)     == [s EXCEPT !.keys = @ \cup {k}]
WithoutKey(s, k)  == [s EXCEPT !.keys = @ \ {k}]
Trusting(s, t, on) ==
  [s EXCEPT !.autonomous = IF on THEN @ \cup {t} ELSE @ \ {t}]

Claimable(s) ==
  ~s.claimed /\ ~s.seeded /\ s.sessions = {} /\ s.codes = {} /\ s.keys = {}

IsClaimable == main # Torn /\ Claimable(LoadChecked)

-----------------------------------------------------------------------------
(* Handlers.  `caller` is the session require_auth found; `token` is what  *)
(* the answer will carry, `ends` the session it will have ended.           *)
Idle == [at |-> "idle", caller |-> None, copy |-> NewStore, fd |-> None,
         token |-> None, ends |-> None]

Busy(h) == hand[h].at \in {"open", "write", "rename"}

Asked == requests < MaxRequests /\ requests' = requests + 1

(* The handler ends. *)
Answers(h) == hand' = [hand EXCEPT ![h] = Idle]

(* It has changed its copy of the store, and goes on to save it. *)
Changes(h, store, token, ends) ==
  /\ hand' = [hand EXCEPT ![h] = [Idle EXCEPT !.at = "open", !.copy = store,
                                              !.token = token, !.ends = ends]]
  /\ overlapped' = (overlapped \/ \E g \in Handlers \ {h} : Busy(g))
  /\ UNCHANGED <<files, given, told, owned, halved, crashes>>

Mints(t, for) == origin[t] = None /\ origin' = [origin EXCEPT ![t] = for]

(* Public: anybody may ask. *)
Anybody(h) == hand[h].at = "idle" /\ Asked

(* require_auth: the token is that of a session. *)
Admit(h, t) ==
  /\ Anybody(h)
  /\ t \in Load.sessions
  /\ hand' = [hand EXCEPT ![h] = [Idle EXCEPT !.at = "admitted", !.caller = t]]
  /\ UNCHANGED <<files, ceremonies, origin, issued, expired, history, crashes>>

IsAgent(t) == origin[t] = "agent"

(* agent_may_not: the console's own session, and no agent's. *)
Operator(h) ==
  hand[h].at = "admitted" /\ ~IsAgent(hand[h].caller) /\ UNCHANGED requests

(* A command line on the Box, or a handler of an operator's. *)
OnBox(h) == Anybody(h) \/ Operator(h)

-----------------------------------------------------------------------------
(***************************************************************************)
(* Operations: load and change                                             *)
(***************************************************************************)
Claim(h, t) ==
  /\ Anybody(h) /\ IsClaimable
  /\ Mints(t, "claim")
  /\ Changes(h, Claimed(LoadChecked, t), t, None)
  /\ UNCHANGED <<ceremonies, issued, expired>>

(* Mutant: the code stays. *)
RedeemKeepsCode(h, c, t) ==
  /\ Anybody(h) /\ c \in Load.codes \ expired
  /\ Mints(t, c)
  /\ Changes(h, Claimed(Load, t), t, None)
  /\ UNCHANGED <<ceremonies, issued, expired>>

RedeemCode(h, c, t) ==
  /\ Anybody(h) /\ c \in Load.codes \ expired
  /\ Mints(t, c)
  /\ Changes(h, Redeemed(Load, c, t), t, None)
  /\ UNCHANGED <<ceremonies, issued, expired>>

MintCode(h, c) ==
  /\ OnBox(h) /\ c \in Codes \ issued
  /\ issued' = issued \cup {c}
  /\ Changes(h, WithCode(Load, c), None, None)
  /\ UNCHANGED <<ceremonies, origin, expired>>

(* Once, at the first boot; a hash that is none is refused. *)
ImportCode(h, c) ==
  /\ Anybody(h) /\ c \in SeedCodes \ issued
  /\ issued' = issued \cup {c}
  /\ Changes(h, Seeded(Load, c), None, None)
  /\ UNCHANGED <<ceremonies, origin, expired>>

(* `boxd auth mint`, and "Connect an agent". *)
MintSession(h, t, for) ==
  /\ IF for = "cli" THEN Anybody(h) ELSE Operator(h)
  /\ Mints(t, for)
  /\ Changes(h, WithSession(Load, t), t, None)
  /\ UNCHANGED <<ceremonies, issued, expired>>

(* A session does not grant itself autonomy. *)
SetAutonomous(h, t, on) ==
  /\ Operator(h) /\ (on => t # hand[h].caller)
  /\ t \in Load.sessions
  /\ Changes(h, Trusting(Load, t, on), None, None)
  /\ UNCHANGED <<ceremonies, origin, issued, expired>>

Revoke(h, t) ==
  /\ OnBox(h) /\ t \in Load.sessions
  /\ Changes(h, Revoked(Load, t), None, t)
  /\ UNCHANGED <<ceremonies, origin, issued, expired>>

(* Nothing to do, no right to it, or no such thing: nothing is saved. *)
Refuses(h) ==
  /\ hand[h].at = "admitted" /\ Answers(h)
  /\ UNCHANGED <<files, ceremonies, origin, issued, expired, history, requests, crashes>>

-----------------------------------------------------------------------------
(***************************************************************************)
(* Security keys.  A handle is put once and taken once, under the mutex of *)
(* Ceremonies, for what it was put for; what has expired is dropped when   *)
(* another is put, and refused when it is taken.                           *)
(***************************************************************************)
Pending(x, kind) == [handle |-> x, kind |-> kind]

Put(x, kind) ==
  /\ x \in Ceremonies \ issued
  /\ issued' = issued \cup {x}
  /\ ceremonies' = {p \in ceremonies : p.handle \notin expired} \cup {Pending(x, kind)}

(* Mutant: the handle is looked up. *)
Looks(p) == p \in ceremonies /\ p.handle \notin expired /\ UNCHANGED ceremonies

Take(p) == p \in ceremonies /\ p.handle \notin expired /\ ceremonies' = ceremonies \ {p}

StartRegistration(x)    == Put(x, "register")
FinishRegistration(x)   == Take(Pending(x, "register"))
StartAuthentication(x)  == Load.keys # {} /\ Put(x, "signin")
FinishAuthentication(x) == Take(Pending(x, "signin"))

(* The first registration gives the operator a user handle.  The handler   *)
(* saves it first and puts the ceremony then; nobody knows the handle      *)
(* before it answers, so that it is put at once here allows more.          *)
RegisterStart(h, x) ==
  /\ hand[h].at = "admitted" /\ StartRegistration(x)
  /\ IF Load.user
     THEN Answers(h) /\ UNCHANGED <<files, history, crashes>>
     ELSE Changes(h, WithUser(Load), None, None)
  /\ UNCHANGED <<origin, expired, requests>>

RegisterFinish(h, x, k) ==
  /\ hand[h].at = "admitted" /\ FinishRegistration(x)
  /\ Changes(h, WithKey(Load, k), None, None)
  /\ UNCHANGED <<origin, issued, expired, requests>>

RevokeKey(h, k) ==
  /\ hand[h].at = "admitted" /\ k \in Load.keys
  /\ Changes(h, WithoutKey(Load, k), None, None)
  /\ UNCHANGED <<ceremonies, origin, issued, expired, requests>>

SigninStart(x) ==
  /\ StartAuthentication(x)
  /\ UNCHANGED <<files, hand, origin, expired, history, requests, crashes>>

SigninFinish(h, x, t) ==
  /\ Anybody(h) /\ FinishAuthentication(x)
  /\ Mints(t, x)
  /\ Changes(h, WithSession(Load, t), t, None)
  /\ UNCHANGED <<issued, expired>>

(* The answer does not verify, or the handle is for the other ceremony or  *)
(* too old: it is gone all the same, and nothing is saved.                 *)
SigninFails(p) ==
  /\ ceremonies' = ceremonies \ {p}
  /\ UNCHANGED <<files, hand, origin, issued, expired, history, requests, crashes>>

-----------------------------------------------------------------------------
(***************************************************************************)
(* save.  A file descriptor follows its file through a rename.             *)
(***************************************************************************)
(* Mutant: the store is written in place. *)
OpenInPlace(h) ==
  /\ hand[h].at = "open"
  /\ main' = Torn /\ tmp' = Torn /\ UNCHANGED halved
  /\ hand' = [hand EXCEPT ![h].at = "write", ![h].fd = "tmp"]
  /\ UNCHANGED <<ceremonies, origin, issued, expired, given, told, owned, overlapped, requests,
                 crashes>>

Open(h) ==
  /\ hand[h].at = "open"
  /\ tmp' = Torn
  /\ hand' = [hand EXCEPT ![h].at = "write", ![h].fd = "tmp"]
  /\ UNCHANGED <<main, ceremonies, origin, issued, expired, history, requests, crashes>>

(* Over what another handler wrote to the same file, the longer text keeps *)
(* its tail.                                                               *)
Written(old, copy) == IF old = Torn THEN {copy} ELSE {copy, Torn}

Write(h) ==
  /\ hand[h].at = "write"
  /\ IF hand[h].fd = "tmp" THEN tmp' \in Written(tmp, hand[h].copy) ELSE UNCHANGED tmp
  /\ IF hand[h].fd = "main" THEN main' \in Written(main, hand[h].copy) ELSE UNCHANGED main
  /\ hand' = [hand EXCEPT ![h].at = "rename"]
  /\ halved' = (halved \/ main' = Torn)
  /\ UNCHANGED <<ceremonies, origin, issued, expired, given, told, owned, overlapped, requests,
                 crashes>>

Followed(g) ==
  IF hand[g].fd = "tmp" THEN "main" ELSE IF hand[g].fd = "main" THEN "gone" ELSE hand[g].fd

Rename(h) ==
  /\ hand[h].at = "rename" /\ tmp # NoFile
  /\ main' = tmp /\ tmp' = NoFile
  /\ hand' = [g \in Handlers |-> IF g = h THEN Idle ELSE [hand[g] EXCEPT !.fd = Followed(g)]]
  /\ given' = (given \cup ({hand[h].token} \ {None})) \ {hand[h].ends}
  /\ told' = told \cup ({hand[h].token} \ {None})
  /\ owned' = (owned \/ hand[h].token # None)
  /\ halved' = (halved \/ main' = Torn)
  /\ UNCHANGED <<overlapped, ceremonies, origin, issued, expired, requests, crashes>>

(* Another's rename has taken the temporary file along. *)
RenameFails(h) ==
  /\ hand[h].at = "rename" /\ tmp = NoFile
  /\ Answers(h)
  /\ UNCHANGED <<files, ceremonies, origin, issued, expired, history, requests, crashes>>

SaveStep(h) == Open(h) \/ Write(h) \/ Rename(h) \/ RenameFails(h)

(* CODE_TTL_SECS, TTL_SECS. *)
Expire(x) ==
  /\ x \in issued \ (SeedCodes \cup expired)
  /\ expired' = expired \cup {x}
  /\ UNCHANGED <<files, hand, ceremonies, origin, issued, history, requests, crashes>>

(* The daemon and what runs on the Box end; files stay, ceremonies do not. *)
Crash ==
  /\ crashes < MaxCrashes /\ crashes' = crashes + 1
  /\ hand' = [h \in Handlers |-> Idle] /\ ceremonies' = {}
  /\ UNCHANGED <<files, origin, issued, expired, history, requests>>

(* A Box with a key, whose sessions were all revoked. *)
Enrolled == [NewStore EXCEPT !.claimed = TRUE, !.user = TRUE, !.keys = Keys]

Init ==
  /\ \/ main = NoFile /\ owned = FALSE
     \/ main = Enrolled /\ owned = TRUE
  /\ tmp = NoFile
  /\ hand = [h \in Handlers |-> Idle] /\ ceremonies = {}
  /\ origin = [t \in Tokens |-> None] /\ issued = {} /\ expired = {}
  /\ given = {} /\ told = {} /\ overlapped = FALSE /\ halved = FALSE
  /\ requests = 0 /\ crashes = 0

Sessions(h) == \E t \in Tokens :
  \/ Claim(h, t) \/ Admit(h, t) \/ Revoke(h, t)
  \/ \E c \in Codes \cup SeedCodes : RedeemCode(h, c, t)
  \/ \E for \in {"cli", "agent"} : MintSession(h, t, for)
  \/ \E on \in BOOLEAN : SetAutonomous(h, t, on)
  \/ \E x \in Ceremonies : SigninFinish(h, x, t)

KeysAndCodes(h) ==
  \/ \E c \in Codes : MintCode(h, c)
  \/ \E c \in SeedCodes : ImportCode(h, c)
  \/ \E k \in Keys : RevokeKey(h, k)
  \/ \E x \in Ceremonies : RegisterStart(h, x) \/ \E k \in Keys : RegisterFinish(h, x, k)

Next ==
  \/ \E h \in Handlers : Sessions(h) \/ KeysAndCodes(h) \/ Refuses(h) \/ SaveStep(h)
  \/ \E x \in Ceremonies : SigninStart(x)
  \/ \E p \in ceremonies : SigninFails(p)
  \/ \E x \in OneTime : Expire(x)
  \/ Crash

Spec == Init /\ [][Next]_vars

-----------------------------------------------------------------------------
(***************************************************************************)
(* Properties                                                              *)
(***************************************************************************)
HandOK(r) ==
  /\ r.at \in {"idle", "admitted", "open", "write", "rename"}
  /\ r.caller \in Tokens \cup {None} /\ r.copy \in Stores
  /\ r.fd \in {None, "tmp", "main", "gone"}
  /\ r.token \in Tokens \cup {None} /\ r.ends \in Tokens \cup {None}

TypeOK ==
  /\ main \in Stores \cup {NoFile, Torn} /\ tmp \in Stores \cup {NoFile, Torn}
  /\ \A h \in Handlers : HandOK(hand[h])
  /\ ceremonies \subseteq [handle : Ceremonies, kind : {"register", "signin"}]
  /\ issued \subseteq OneTime /\ expired \subseteq OneTime
  /\ origin \in [Tokens -> OneTime \cup {None, "claim", "cli", "agent"}]
  /\ given \subseteq Tokens /\ told \subseteq Tokens /\ owned \in BOOLEAN /\ overlapped \in BOOLEAN
  /\ halved \in BOOLEAN
  /\ requests \in 0 .. MaxRequests /\ crashes \in 0 .. MaxCrashes

(* In any store - the file, the temporary one, and every copy that is about *)
(* to replace it, however stale - no two sessions came from the same        *)
(* pairing code or ceremony, and none from a code it would still redeem.    *)
OncePerStore(s) ==
  \A x \in OneTime :
    LET from == {t \in s.sessions : origin[t] = x}
    IN  Cardinality(from) <= 1 /\ (x \in s.codes => from = {})

AnsweredOnce == \A x \in OneTime : Cardinality({t \in told : origin[t] = x}) <= 1

(* A pairing code or a ceremony lets one device in: every store keeps to it *)
(* always, and no two holders were ever told of a session for the same one, *)
(* revocations, failing saves and restarts in between included, as long as  *)
(* no two saves overlapped.  (When they did, see CodesAreSpentOnce.)        *)
OneTimeMeansOnce ==
  /\ \A s \in {main, tmp} \cup {hand[h].copy : h \in Handlers} :
       s \in {NoFile, Torn} \/ OncePerStore(s)
  /\ ~overlapped => AnsweredOnce

(* A ceremony is answered once, restarts, expiry and races included: there *)
(* is never a second token for the same challenge.                         *)
ChallengesAreNotReplayed ==
  \A x \in Ceremonies : Cardinality({t \in Tokens : origin[t] = x}) <= 1

(* "A Box is claimed once, and stays claimed": after somebody was given a  *)
(* session, the first-run claim is never open again, whatever is revoked,  *)
(* redeemed, lost to a crash, or saved from a stale copy.  Unless the      *)
(* store was half written once: load reads that as an empty one.           *)
ClaimIsClosed == owned /\ ~halved => ~IsClaimable

(* When no two saves overlap, every session whose holder was told of it is *)
(* in the store until it is revoked, at every step of every save and after *)
(* a crash at any of them.                                                 *)
ToldSessionsLast == ~overlapped => main # Torn /\ given \subseteq Load.sessions

-----------------------------------------------------------------------------
(* auth.rs:179 "either the old file or the new one, never half": the       *)
(* temporary file has one name, and a second save truncates what the first *)
(* is about to rename.                                                     *)
NeverHalf == main # Torn

(* auth.rs:352 "The code is consumed whether or not it was still valid, so *)
(* it can't be replayed": of two handlers that redeem a code at a time,    *)
(* each loads the store that has it, and each answers with a session; and  *)
(* a stale copy, saved after it, brings a redeemed code back.              *)
CodesAreSpentOnce == AnsweredOnce
===============================================================================
