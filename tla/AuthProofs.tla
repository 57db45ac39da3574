------------------------------- MODULE AuthProofs -------------------------------
(***************************************************************************)
(* The first-run claim does not reopen, a session lasts until it is        *)
(* revoked, and codes and ceremonies let in once, for any number of        *)
(* handlers, tokens, codes and keys.                                       *)
(***************************************************************************)
EXTENDS Auth, FiniteSetTheorems, TLAPS

Hands == [at : {"idle", "admitted", "open", "write", "rename"},
          caller : Tokens \cup {None}, copy : Stores,
          fd : {None, "tmp", "main", "gone"},
          token : Tokens \cup {None}, ends : Tokens \cup {None}]

FilesTyped ==
  /\ main \in Stores \cup {NoFile, Torn} /\ tmp \in Stores \cup {NoFile, Torn}
  /\ hand \in [Handlers -> Hands]

-----------------------------------------------------------------------------
LEMMA BackfilledIsStore ==
  ASSUME NEW s \in Stores
  PROVE  /\ Backfilled(s) \in Stores /\ Backfilled(s).sessions = s.sessions
         /\ Claimable(Backfilled(s)) => Claimable(s)
  BY DEF Stores, Backfilled, Claimable

LEMMA NewIsStore == NewStore \in Stores /\ Idle \in Hands
  BY DEF NewStore, Stores, Idle, Hands

LEMMA LoadIsStore == FilesTyped => Load \in Stores
  BY BackfilledIsStore, NewIsStore DEF FilesTyped, Load, LoadChecked

-----------------------------------------------------------------------------
(***************************************************************************)
(* What every operation that loads and changes the store has in common:    *)
(* it ends one session at most, the one it says; the token it will hand    *)
(* out is in the store it will save; and it never makes a store with which *)
(* the Box could be claimed, unless it began with one, or was admitted     *)
(* without there being a store.                                            *)
(***************************************************************************)
Closed(h) ==
  /\ main # Torn /\ (main # NoFile => ~Claimable(main))
  /\ hand[h].at = "admitted" => main # NoFile

Sound(h, store, token, ends) ==
  /\ Load.sessions \ {ends} \subseteq store.sessions
  /\ token # None => token \in store.sessions /\ ends = None
  /\ Closed(h) => ~Claimable(store)

SoundChange(h) ==
  \E store \in Stores, token \in Tokens \cup {None}, ends \in Tokens \cup {None} :
    Changes(h, store, token, ends) /\ Sound(h, store, token, ends)

(* A store that was loaded from a file, and cannot be claimed. *)
LEMMA LoadedIsClosed ==
  ASSUME FilesTyped, NEW h \in Handlers, Closed(h), main # NoFile
  PROVE  /\ ~Claimable(Load) /\ Load = Backfilled(main) /\ main \in Stores
         /\ Load.sessions # {} \/ Load.keys # {} => Load.claimed
<1>1. main \in Stores /\ Load = Backfilled(main)
  BY DEF FilesTyped, Closed, Load, LoadChecked
<1>2. ~Claimable(Load)
  BY <1>1, BackfilledIsStore DEF Closed
<1>3. Load.sessions # {} \/ Load.keys # {} => Load.claimed
  BY <1>1 DEF Backfilled, Stores
<1> QED
  BY <1>1, <1>2, <1>3

LEMMA NewSessionsAreSound ==
  ASSUME FilesTyped, NEW h \in Handlers, NEW t \in Tokens,
         \/ Claim(h, t)
         \/ \E c \in Codes \cup SeedCodes : RedeemCode(h, c, t)
         \/ \E for \in {"cli", "agent"} : MintSession(h, t, for)
         \/ \E x \in Ceremonies : SigninFinish(h, x, t)
  PROVE  SoundChange(h)
<1>0. Load \in Stores
  BY LoadIsStore
<1>1. ASSUME NEW store \in Stores, Changes(h, store, t, None),
             Load.sessions \cup {t} \subseteq store.sessions, ~Claimable(store)
      PROVE  SoundChange(h)
  BY <1>1 DEF SoundChange, Sound
<1>2. CASE Claim(h, t)
  <2>1. LoadChecked = Load
    BY <1>2 DEF Claim, IsClaimable, Load
  <2>2. /\ Claimed(Load, t) \in Stores /\ ~Claimable(Claimed(Load, t))
        /\ Load.sessions \cup {t} \subseteq Claimed(Load, t).sessions
    BY <1>0 DEF Claimed, WithSession, Stores, Claimable
  <2> QED
    BY <1>1, <1>2, <2>1, <2>2 DEF Claim
<1>3. ASSUME NEW c \in Codes \cup SeedCodes, RedeemCode(h, c, t)
      PROVE  SoundChange(h)
  <2>1. /\ Redeemed(Load, c, t) \in Stores /\ ~Claimable(Redeemed(Load, c, t))
        /\ Load.sessions \cup {t} \subseteq Redeemed(Load, c, t).sessions
    BY <1>0 DEF Redeemed, Claimed, WithSession, Stores, Claimable
  <2> QED
    BY <1>1, <1>3, <2>1 DEF RedeemCode
<1>4. ASSUME Changes(h, WithSession(Load, t), t, None)
      PROVE  SoundChange(h)
  <2>1. /\ WithSession(Load, t) \in Stores /\ ~Claimable(WithSession(Load, t))
        /\ Load.sessions \cup {t} \subseteq WithSession(Load, t).sessions
    BY <1>0 DEF WithSession, Stores, Claimable
  <2> QED
    BY <1>1, <1>4, <2>1
<1> QED
  BY <1>2, <1>3, <1>4 DEF MintSession, SigninFinish

LEMMA OthersAreSound ==
  ASSUME FilesTyped, NEW h \in Handlers,
         \/ \E t \in Tokens : Revoke(h, t) \/ \E on \in BOOLEAN : SetAutonomous(h, t, on)
         \/ \E c \in Codes : MintCode(h, c)
         \/ \E c \in SeedCodes : ImportCode(h, c)
         \/ \E k \in Keys : RevokeKey(h, k)
         \/ \E x \in Ceremonies, k \in Keys : RegisterFinish(h, x, k)
  PROVE  SoundChange(h)
<1>0. Load \in Stores
  BY LoadIsStore
<1>a. Closed(h) => main \in {NoFile} \cup Stores
  BY DEF Closed, FilesTyped
<1>1. ASSUME NEW store \in Stores, Changes(h, store, None, None),
             Load.sessions \subseteq store.sessions, Closed(h) => ~Claimable(store)
      PROVE  SoundChange(h)
  BY <1>1 DEF SoundChange, Sound
<1>b. main = NoFile => Load = NewStore
  BY AuthAssumption DEF Load, LoadChecked
<1>c. Load.sessions # {} => main # NoFile
  BY <1>b DEF NewStore
<1>d. Load.keys # {} => main # NoFile
  BY <1>b DEF NewStore
<1>2. ASSUME NEW t \in Tokens, Revoke(h, t)
      PROVE  SoundChange(h)
  <2>1. Revoked(Load, t) \in Stores /\ Load.sessions \ {t} \subseteq Revoked(Load, t).sessions
    BY <1>0 DEF Revoked, Stores
  <2>2. Closed(h) => Load.claimed
    BY <1>2, <1>c, LoadedIsClosed DEF Revoke
  <2>3. Closed(h) => ~Claimable(Revoked(Load, t))
    BY <1>0, <2>2 DEF Revoked, Stores, Claimable
  <2>4. Sound(h, Revoked(Load, t), None, t)
    BY <2>1, <2>3 DEF Sound
  <2> QED
    BY <1>2, <2>1, <2>4 DEF Revoke, SoundChange
<1>3. ASSUME NEW t \in Tokens, NEW on \in BOOLEAN, SetAutonomous(h, t, on)
      PROVE  SoundChange(h)
  <2>1. /\ Trusting(Load, t, on) \in Stores
        /\ Trusting(Load, t, on).sessions = Load.sessions
    BY <1>0 DEF Trusting, Stores
  <2>2. ~Claimable(Trusting(Load, t, on))
    BY <1>3, <2>1 DEF SetAutonomous, Claimable
  <2> QED
    BY <1>1, <1>3, <2>1, <2>2 DEF SetAutonomous
<1>4. ASSUME NEW c \in Codes, MintCode(h, c)
      PROVE  SoundChange(h)
  <2>1. /\ WithCode(Load, c) \in Stores /\ ~Claimable(WithCode(Load, c))
        /\ WithCode(Load, c).sessions = Load.sessions
    BY <1>0 DEF WithCode, Stores, Claimable
  <2> QED
    BY <1>1, <1>4, <2>1 DEF MintCode
<1>5. ASSUME NEW c \in SeedCodes, ImportCode(h, c)
      PROVE  SoundChange(h)
  <2>1. /\ Seeded(Load, c) \in Stores /\ ~Claimable(Seeded(Load, c))
        /\ Seeded(Load, c).sessions = Load.sessions
    BY <1>0 DEF Seeded, Stores, Claimable
  <2> QED
    BY <1>1, <1>5, <2>1 DEF ImportCode
<1>6. ASSUME NEW k \in Keys, RevokeKey(h, k)
      PROVE  SoundChange(h)
  <2>1. WithoutKey(Load, k) \in Stores /\ WithoutKey(Load, k).sessions = Load.sessions
    BY <1>0 DEF WithoutKey, Stores
  <2>2. Closed(h) => Load.claimed
    BY <1>6, <1>d, LoadedIsClosed DEF RevokeKey
  <2>3. Closed(h) => ~Claimable(WithoutKey(Load, k))
    BY <1>0, <2>2 DEF WithoutKey, Stores, Claimable
  <2> QED
    BY <1>1, <1>6, <2>1, <2>3 DEF RevokeKey
<1>7. ASSUME NEW x \in Ceremonies, NEW k \in Keys, RegisterFinish(h, x, k)
      PROVE  SoundChange(h)
  <2>1. /\ WithKey(Load, k) \in Stores /\ ~Claimable(WithKey(Load, k))
        /\ WithKey(Load, k).sessions = Load.sessions
    BY <1>0 DEF WithKey, Stores, Claimable
  <2> QED
    BY <1>1, <1>7, <2>1 DEF RegisterFinish
<1> QED
  BY <1>2, <1>3, <1>4, <1>5, <1>6, <1>7

(* The first registration only gives the operator a handle: it would make  *)
(* an empty store that is not there yet, were nobody ever admitted to it.  *)
LEMMA RegisteringIsSound ==
  ASSUME FilesTyped, NEW h \in Handlers, NEW x \in Ceremonies, RegisterStart(h, x),
         ~(Answers(h) /\ UNCHANGED <<files, history, crashes>>)
  PROVE  SoundChange(h)
<1>1. Changes(h, WithUser(Load), None, None) /\ hand[h].at = "admitted"
  BY DEF RegisterStart
<1>2. /\ WithUser(Load) \in Stores /\ WithUser(Load).sessions = Load.sessions
      /\ Claimable(WithUser(Load)) => Claimable(Load)
  BY LoadIsStore DEF WithUser, Stores, Claimable
<1>3. Closed(h) => ~Claimable(WithUser(Load))
  BY <1>1, <1>2, LoadedIsClosed DEF Closed
<1>4. Sound(h, WithUser(Load), None, None)
  BY <1>2, <1>3 DEF Sound
<1> QED
  BY <1>1, <1>2, <1>4 DEF SoundChange

-----------------------------------------------------------------------------
(* The steps, by what they do to the files, the handlers and the history.  *)
Rests   == UNCHANGED <<files, hand, history>>
Ends(h) == Answers(h) /\ UNCHANGED <<files, history>>
Step(h) ==
  \/ SoundChange(h) \/ \E t \in Tokens : Admit(h, t)
  \/ Ends(h) \/ Open(h) \/ Write(h) \/ Rename(h)

LEMMA Steps ==
  ASSUME FilesTyped, [Next]_vars
  PROVE  Rests \/ Crash \/ \E h \in Handlers : Step(h)
<1>1. CASE UNCHANGED vars
  BY <1>1 DEF vars, Rests, files, history
<1>2. ASSUME NEW h \in Handlers, Sessions(h) \/ KeysAndCodes(h)
      PROVE  Step(h)
  <2>1. ASSUME NEW x \in Ceremonies, RegisterStart(h, x)
        PROVE  Step(h)
    BY <2>1, RegisteringIsSound DEF Step, Ends
  <2> QED
    BY <1>2, <2>1, NewSessionsAreSound, OthersAreSound DEF Sessions, KeysAndCodes, Step
<1>3. ASSUME NEW h \in Handlers, Refuses(h) \/ SaveStep(h)
      PROVE  Step(h)
  BY <1>3 DEF Refuses, SaveStep, RenameFails, Step, Ends
<1>4. ASSUME \/ \E x \in Ceremonies : SigninStart(x)
             \/ \E p \in ceremonies : SigninFails(p)
             \/ \E x \in OneTime : Expire(x)
      PROVE  Rests
  BY <1>4 DEF SigninStart, SigninFails, Expire, Rests
<1> QED
  BY <1>1, <1>2, <1>3, <1>4 DEF Next

LEMMA TypedInit == Init => FilesTyped
<1> SUFFICES ASSUME Init PROVE FilesTyped
  OBVIOUS
<1>1. Enrolled \in Stores
  BY NewIsStore DEF Enrolled, Stores
<1>2. hand \in [Handlers -> Hands]
  BY NewIsStore DEF Init
<1> QED
  BY <1>1, <1>2 DEF Init, FilesTyped

LEMMA TypedStep == FilesTyped /\ [Next]_vars => FilesTyped'
<1> SUFFICES ASSUME FilesTyped, [Next]_vars PROVE FilesTyped'
  OBVIOUS
<1>1. CASE Rests
  BY <1>1 DEF Rests, files, FilesTyped
<1>2. CASE Crash
  BY <1>2, NewIsStore DEF Crash, files, FilesTyped
<1>3. ASSUME NEW h \in Handlers, SoundChange(h)
      PROVE  FilesTyped'
  <2>1. PICK store \in Stores, token \in Tokens \cup {None}, ends \in Tokens \cup {None} :
          Changes(h, store, token, ends)
    BY <1>3 DEF SoundChange
  <2>2. [Idle EXCEPT !.at = "open", !.copy = store, !.token = token, !.ends = ends] \in Hands
    BY NewIsStore DEF Hands
  <2> QED
    BY <2>1, <2>2 DEF Changes, files, FilesTyped
<1>4. ASSUME NEW h \in Handlers, NEW t \in Tokens, Admit(h, t)
      PROVE  FilesTyped'
  <2>1. [Idle EXCEPT !.at = "admitted", !.caller = t] \in Hands
    BY NewIsStore DEF Hands
  <2> QED
    BY <1>4, <2>1 DEF Admit, files, FilesTyped
<1>5. ASSUME NEW h \in Handlers, Ends(h)
      PROVE  FilesTyped'
  BY <1>5, NewIsStore DEF Ends, Answers, files, FilesTyped
<1>6. ASSUME NEW h \in Handlers, Open(h)
      PROVE  FilesTyped'
  <2>1. hand' = [hand EXCEPT ![h] = [hand[h] EXCEPT !.at = "write", !.fd = "tmp"]]
    BY <1>6 DEF Open
  <2>2. [hand[h] EXCEPT !.at = "write", !.fd = "tmp"] \in Hands
    BY DEF FilesTyped, Hands
  <2> QED
    BY <1>6, <2>1, <2>2 DEF Open, FilesTyped
<1>7. ASSUME NEW h \in Handlers, Write(h)
      PROVE  FilesTyped'
  <2>1. hand[h].copy \in Stores
    BY DEF FilesTyped, Hands
  <2>2. hand' \in [Handlers -> Hands]
    BY <1>7 DEF Write, FilesTyped, Hands
  <2> QED
    BY <1>7, <2>1, <2>2 DEF Write, Written, FilesTyped
<1>8. ASSUME NEW h \in Handlers, Rename(h)
      PROVE  FilesTyped'
  <2>1. \A g \in Handlers : Followed(g) \in {None, "tmp", "main", "gone"}
    BY DEF Followed, FilesTyped, Hands
  <2>2. \A g \in Handlers : [hand[g] EXCEPT !.fd = Followed(g)] \in Hands
    BY <2>1 DEF FilesTyped, Hands
  <2>3. hand' \in [Handlers -> Hands]
    BY <1>8, <2>2, NewIsStore DEF Rename
  <2> QED
    BY <1>8, <2>3 DEF Rename, FilesTyped
<1> QED
  BY <1>1, <1>2, <1>3, <1>4, <1>5, <1>6, <1>7, <1>8, Steps DEF Step

-----------------------------------------------------------------------------
(* The claim.  ClaimIsClosed is about main; what may become main is what   *)
(* is in the temporary file, and in the copies of the handlers, however    *)
(* old.  None of them is a store with which the Box could be claimed.      *)
ClosedStores ==
  /\ main # Torn /\ (main # NoFile => ~Claimable(main))
  /\ owned => main # NoFile
  /\ tmp \in Stores => ~Claimable(tmp)
  /\ \A h \in Handlers : hand[h].at = "admitted" => main # NoFile
  /\ \A h \in Handlers : Busy(h) => ~Claimable(hand[h].copy)

ClaimInv == FilesTyped /\ (halved \/ ClosedStores)

LEMMA ClaimInit == Init => ClaimInv
<1> SUFFICES ASSUME Init PROVE ClosedStores
  BY TypedInit DEF ClaimInv
<1>1. Enrolled \in Stores /\ ~Claimable(Enrolled)
  BY NewIsStore DEF Enrolled, Stores, Claimable
<1>2. \A h \in Handlers : hand[h].at = "idle"
  BY DEF Init, Idle
<1>3. NoFile # Torn /\ NoFile \notin Stores /\ Torn \notin Stores
  BY AuthAssumption
<1>4. /\ main # Torn /\ (main # NoFile => ~Claimable(main))
      /\ owned => main # NoFile
      /\ tmp = NoFile
  BY <1>1, <1>3 DEF Init
<1> QED
  BY <1>2, <1>3, <1>4 DEF ClosedStores, Busy

LEMMA HalvedStays ==
  ASSUME FilesTyped, [Next]_vars, halved
  PROVE  halved'
<1>1. CASE Rests \/ Crash
  BY <1>1 DEF Rests, Crash, history
<1>2. ASSUME NEW h \in Handlers,
             \/ SoundChange(h) \/ \E t \in Tokens : Admit(h, t)
             \/ Ends(h) \/ Open(h)
      PROVE  halved'
  BY <1>2 DEF SoundChange, Changes, Admit, Ends, Open, history
<1>3. ASSUME NEW h \in Handlers, Write(h) \/ Rename(h)
      PROVE  halved'
  <2>1. halved' = (halved \/ main' = Torn)
    BY <1>3 DEF Write, Rename
  <2> QED
    BY <2>1, Zenon
<1> QED
  BY <1>1, <1>2, <1>3, Steps DEF Step

LEMMA ClaimStep == ClaimInv /\ [Next]_vars => ClaimInv'
<1> SUFFICES ASSUME FilesTyped, FilesTyped', [Next]_vars, ~halved, ~halved', ClosedStores
             PROVE  ClosedStores'
  BY TypedStep, HalvedStays DEF ClaimInv
<1> USE DEF ClosedStores
<1>1. CASE Rests
  BY <1>1 DEF Rests, files, history, Busy
<1>2. CASE Crash
  BY <1>2 DEF Crash, files, history, Busy, Idle
<1>3. ASSUME NEW h \in Handlers, SoundChange(h)
      PROVE  ClosedStores'
  <2>1. PICK store \in Stores, token \in Tokens \cup {None}, ends \in Tokens \cup {None} :
          Changes(h, store, token, ends) /\ Sound(h, store, token, ends)
    BY <1>3 DEF SoundChange
  <2>2. ~Claimable(store)
    BY <2>1 DEF Sound, Closed
  <2>3. hand'[h].at = "open" /\ hand'[h].copy = store
    BY <2>1 DEF Changes, FilesTyped, Idle
  <2>4. \A g \in Handlers \ {h} : hand'[g] = hand[g]
    BY <2>1 DEF Changes, FilesTyped
  <2> QED
    BY <2>1, <2>2, <2>3, <2>4 DEF Changes, files, Busy
<1>4. ASSUME NEW h \in Handlers, NEW t \in Tokens, Admit(h, t)
      PROVE  ClosedStores'
  <2>1. main # NoFile
    BY <1>4, AuthAssumption DEF Admit, Load, LoadChecked, NewStore
  <2> QED
    BY <1>4, <2>1 DEF Admit, files, history, Busy, FilesTyped, Idle
<1>5. ASSUME NEW h \in Handlers, Ends(h)
      PROVE  ClosedStores'
  BY <1>5 DEF Ends, Answers, files, history, Busy, FilesTyped, Idle
<1>6. ASSUME NEW h \in Handlers, Open(h)
      PROVE  ClosedStores'
  <2>1. \A g \in Handlers : Busy(g)' = Busy(g) /\ hand'[g].copy = hand[g].copy
                            /\ (hand'[g].at = "admitted" => hand[g].at = "admitted")
    BY <1>6 DEF Open, Busy, FilesTyped, Hands
  <2> QED
    BY <1>6, <2>1, AuthAssumption DEF Open, history
<1>7. ASSUME NEW h \in Handlers, Write(h)
      PROVE  ClosedStores'
  <2>1. \A g \in Handlers : Busy(g)' = Busy(g) /\ hand'[g].copy = hand[g].copy
                            /\ (hand'[g].at = "admitted" => hand[g].at = "admitted")
    BY <1>7 DEF Write, Busy, FilesTyped, Hands
  <2>2. Busy(h) /\ hand[h].copy \in Stores
    BY <1>7 DEF Write, Busy, FilesTyped, Hands
  <2>3. tmp' \in {tmp, hand[h].copy, Torn} /\ main' \in {main, hand[h].copy} /\ owned' = owned
    BY <1>7 DEF Write, Written
  <2> QED
    BY <2>1, <2>2, <2>3, AuthAssumption
<1>8. ASSUME NEW h \in Handlers, Rename(h)
      PROVE  ClosedStores'
  <2>1. main' \in Stores /\ main' = tmp /\ tmp' = NoFile
    BY <1>8 DEF Rename, FilesTyped
  <2>2. \A g \in Handlers : Busy(g)' => Busy(g) /\ hand'[g].copy = hand[g].copy
    BY <1>8 DEF Rename, Busy, FilesTyped, Hands, Idle
  <2> QED
    BY <2>1, <2>2, AuthAssumption
<1> QED
  BY <1>1, <1>2, <1>3, <1>4, <1>5, <1>6, <1>7, <1>8, Steps DEF Step

(* "A Box is claimed once, and stays claimed", unless its store was half   *)
(* written: however the saves of handlers interleave and fail.             *)
THEOREM ClaimStaysClosed == Spec => []ClaimIsClosed
<1>1. ClaimInv => ClaimIsClosed
  BY BackfilledIsStore, AuthAssumption
     DEF ClaimInv, ClosedStores, FilesTyped, ClaimIsClosed, IsClaimable, LoadChecked
<1> QED
  BY <1>1, ClaimInit, ClaimStep, PTL DEF Spec

-----------------------------------------------------------------------------
(* Sessions.  As long as no two saves overlapped, the one handler that     *)
(* saves has the whole store in its copy, less the session it ends, and    *)
(* what it renames is that copy.                                           *)
Saving(r) ==
  /\ given \ {r.ends} \subseteq r.copy.sessions
  /\ r.token # None => r.token \in r.copy.sessions
  /\ r.at = "write" => r.fd = "tmp" /\ tmp = Torn
  /\ r.at = "rename" => tmp = r.copy

KeptSessions ==
  /\ main # Torn /\ given \subseteq Load.sessions
  /\ \A g, h \in Handlers : Busy(g) /\ Busy(h) => g = h
  /\ \A h \in Handlers : Busy(h) => Saving(hand[h])

KeptInv == FilesTyped /\ (overlapped \/ KeptSessions)

LEMMA KeptInit == Init => KeptInv
<1> SUFFICES ASSUME Init PROVE KeptSessions
  BY TypedInit DEF KeptInv
<1>1. Enrolled # Torn /\ NoFile # Torn
  <2>1. Enrolled \in Stores
    BY NewIsStore DEF Enrolled, Stores
  <2> QED
    BY <2>1, AuthAssumption
<1>2. \A h \in Handlers : ~Busy(h)
  BY DEF Init, Idle, Busy
<1>3. main # Torn /\ given = {}
  BY <1>1 DEF Init
<1> QED
  BY <1>2, <1>3 DEF KeptSessions

LEMMA OverlappedStays ==
  ASSUME FilesTyped, [Next]_vars, overlapped
  PROVE  overlapped'
<1>1. CASE Rests \/ Crash
  BY <1>1 DEF Rests, Crash, history
<1>2. ASSUME NEW h \in Handlers,
             \/ \E t \in Tokens : Admit(h, t)
             \/ Ends(h) \/ Open(h) \/ Write(h) \/ Rename(h)
      PROVE  overlapped'
  BY <1>2 DEF Admit, Ends, Open, Write, Rename, history
<1>3. ASSUME NEW h \in Handlers, SoundChange(h)
      PROVE  overlapped'
  <2>1. overlapped' = (overlapped \/ \E g \in Handlers \ {h} : Busy(g))
    BY <1>3 DEF SoundChange, Changes
  <2> QED
    BY <2>1, Zenon
<1> QED
  BY <1>1, <1>2, <1>3, Steps DEF Step

LEMMA KeptStep == KeptInv /\ [Next]_vars => KeptInv'
<1> SUFFICES ASSUME FilesTyped, FilesTyped', [Next]_vars, ~overlapped, ~overlapped',
                    KeptSessions
             PROVE  KeptSessions'
  BY TypedStep, OverlappedStays DEF KeptInv
<1> USE DEF KeptSessions
<1>a. main' = main => Load' = Load
  BY DEF Load, LoadChecked
<1>1. CASE Rests
  BY <1>1, <1>a DEF Rests, files, history, Busy, Saving
<1>2. CASE Crash
  BY <1>2, <1>a DEF Crash, files, history, Busy, Idle
<1>3. ASSUME NEW h \in Handlers, SoundChange(h)
      PROVE  KeptSessions'
  <2>1. PICK store \in Stores, token \in Tokens \cup {None}, ends \in Tokens \cup {None} :
          Changes(h, store, token, ends) /\ Sound(h, store, token, ends)
    BY <1>3 DEF SoundChange
  <2>2. hand'[h] = [Idle EXCEPT !.at = "open", !.copy = store, !.token = token, !.ends = ends]
    BY <2>1 DEF Changes, FilesTyped
  <2>3. \A g \in Handlers \ {h} : ~Busy(g) /\ hand'[g] = hand[g]
    <3>1. overlapped' = (overlapped \/ \E g \in Handlers \ {h} : Busy(g))
      BY <2>1 DEF Changes
    <3>2. ~\E g \in Handlers \ {h} : Busy(g)
      BY <3>1, Zenon
    <3> QED
      BY <2>1, <3>2 DEF Changes, FilesTyped
  <2>4. Saving(hand[h])'
    <3>1. /\ hand'[h].at = "open" /\ hand'[h].copy = store
          /\ hand'[h].token = token /\ hand'[h].ends = ends
      BY <2>2 DEF Idle
    <3>2. given' \ {ends} \subseteq store.sessions
      BY <2>1 DEF Changes, Sound
    <3>3. token # None => token \in store.sessions
      BY <2>1 DEF Sound
    <3> QED
      BY <3>1, <3>2, <3>3 DEF Saving
  <2> QED
    BY <1>a, <2>1, <2>3, <2>4 DEF Changes, files, Busy
<1>4. ASSUME NEW h \in Handlers, NEW t \in Tokens, Admit(h, t)
      PROVE  KeptSessions'
  <2>1. \A g \in Handlers : Busy(g)' => Busy(g) /\ hand'[g] = hand[g]
    BY <1>4 DEF Admit, Busy, FilesTyped, Idle
  <2> QED
    BY <1>4, <1>a, <2>1 DEF Admit, files, history, Saving
<1>5. ASSUME NEW h \in Handlers, Ends(h)
      PROVE  KeptSessions'
  <2>1. \A g \in Handlers : Busy(g)' => Busy(g) /\ hand'[g] = hand[g]
    BY <1>5 DEF Ends, Answers, Busy, FilesTyped, Idle
  <2> QED
    BY <1>5, <1>a, <2>1 DEF Ends, files, history, Saving
<1>6. ASSUME NEW h \in Handlers, Open(h)
      PROVE  KeptSessions'
  <2>1. /\ \A g \in Handlers \ {h} : ~Busy(g) /\ ~Busy(g)'
        /\ hand'[h] = [hand[h] EXCEPT !.at = "write", !.fd = "tmp"]
    BY <1>6 DEF Open, Busy, FilesTyped
  <2>2. Busy(h) /\ hand[h] \in Hands
    BY <1>6 DEF Open, Busy, FilesTyped
  <2>3. Saving(hand[h])'
    <3>1. /\ hand'[h].at = "write" /\ hand'[h].fd = "tmp"
          /\ hand'[h].copy = hand[h].copy /\ hand'[h].token = hand[h].token
          /\ hand'[h].ends = hand[h].ends
      BY <2>1, <2>2 DEF Hands
    <3>2. tmp' = Torn /\ given' = given /\ Saving(hand[h])
      BY <1>6, <2>2 DEF Open, history
    <3> QED
      BY <3>1, <3>2 DEF Saving
  <2> QED
    BY <1>6, <1>a, <2>1, <2>3 DEF Open, history
<1>7. ASSUME NEW h \in Handlers, Write(h)
      PROVE  KeptSessions'
  <2>1. /\ \A g \in Handlers \ {h} : ~Busy(g) /\ ~Busy(g)'
        /\ hand'[h] = [hand[h] EXCEPT !.at = "rename"]
    BY <1>7 DEF Write, Busy, FilesTyped
  <2>2. Busy(h) /\ hand[h] \in Hands /\ hand[h].fd = "tmp" /\ tmp = Torn
    BY <1>7 DEF Write, Busy, FilesTyped, Saving
  <2>3. main' = main /\ tmp' = hand[h].copy /\ given' = given
    BY <1>7, <2>2 DEF Write, Written
  <2>4. Saving(hand[h])'
    BY <2>1, <2>2, <2>3 DEF Saving, Hands
  <2> QED
    BY <1>a, <2>1, <2>3, <2>4
<1>8. ASSUME NEW h \in Handlers, Rename(h)
      PROVE  KeptSessions'
  <2>1. Busy(h) /\ hand[h] \in Hands /\ Saving(hand[h])
    BY <1>8 DEF Rename, Busy, FilesTyped
  <2>2. main' = hand[h].copy /\ main' \in Stores
    BY <1>8, <2>1 DEF Rename, Saving, Hands
  <2>3. Load'.sessions = main'.sessions /\ main' # Torn
    BY <2>2, BackfilledIsStore, AuthAssumption DEF Load, LoadChecked
  <2>4. given' \subseteq main'.sessions
    BY <1>8, <2>1, <2>2 DEF Rename, Saving
  <2>5. \A g \in Handlers : ~Busy(g)'
    BY <1>8, <2>1 DEF Rename, Busy, FilesTyped, Hands, Idle
  <2> QED
    BY <2>3, <2>4, <2>5
<1> QED
  BY <1>1, <1>2, <1>3, <1>4, <1>5, <1>6, <1>7, <1>8, Steps DEF Step

(* A session whose holder was told of it is in the store until it is       *)
(* revoked, at every step of every save, when no two saves overlap.        *)
THEOREM SessionsLast == Spec => []ToldSessionsLast
<1>1. KeptInv => ToldSessionsLast
  BY DEF KeptInv, KeptSessions, ToldSessionsLast
<1> QED
  BY <1>1, KeptInit, KeptStep, PTL DEF Spec
-----------------------------------------------------------------------------
(***************************************************************************)
(* One-time credentials.  What is known of a store goes with it wherever   *)
(* it is copied to: whose session it has, and which codes it would still   *)
(* take.  A token that has just been minted is in no store yet, so none of *)
(* them has to be looked at when its origin is decided.                    *)
(***************************************************************************)
StoreOnce(s, from, out) ==
  /\ s.codes \subseteq out
  /\ \A t \in s.sessions : from[t] # None /\ from[t] \notin s.codes
  /\ \A t, u \in s.sessions : from[t] \in OneTime /\ from[t] = from[u] => t = u

(* What waits for an answer has not let anybody in yet. *)
HandedOut ==
  /\ DOMAIN origin = Tokens
  /\ \A t \in Tokens : origin[t] \in OneTime => origin[t] \in issued
  /\ \A p \in ceremonies : /\ p.handle \in Ceremonies \cap issued
                           /\ \A t \in Tokens : origin[t] # p.handle
  /\ \A p, q \in ceremonies : p.handle = q.handle => p = q
  /\ \A t, u \in Tokens : origin[t] \in Ceremonies /\ origin[t] = origin[u] => t = u

StoresOnce ==
  /\ main \in Stores => StoreOnce(main, origin, issued)
  /\ tmp \in Stores => StoreOnce(tmp, origin, issued)
  /\ \A h \in Handlers : StoreOnce(hand[h].copy, origin, issued)

OnceInv == FilesTyped /\ HandedOut /\ StoresOnce

LEMMA NewStoreOnce ==
  ASSUME NEW from, NEW out PROVE StoreOnce(NewStore, from, out) /\ Idle.copy = NewStore
  BY DEF StoreOnce, NewStore, Idle

LEMMA OnceInit == Init => OnceInv
<1> SUFFICES ASSUME Init PROVE HandedOut /\ StoresOnce
  BY TypedInit DEF OnceInv
<1>1. HandedOut
  BY AuthAssumption DEF Init, HandedOut, OneTime
<1>2. StoreOnce(Enrolled, origin, issued)
  BY DEF Enrolled, StoreOnce, NewStore
<1> QED
  BY <1>1, <1>2, NewStoreOnce, AuthAssumption DEF Init, StoresOnce

LEMMA LoadOnce ==
  ASSUME OnceInv
  PROVE  Load \in Stores /\ StoreOnce(Load, origin, issued)
<1>1. CASE main \in Stores
  <2>1. Load = Backfilled(main)
    BY <1>1, AuthAssumption DEF Load, LoadChecked
  <2>2. Load.codes = main.codes /\ Load.sessions = main.sessions
    BY <1>1, <2>1 DEF Backfilled, Stores
  <2> QED
    BY <1>1, <2>2, LoadIsStore DEF OnceInv, StoresOnce, StoreOnce
<1>2. CASE main \notin Stores
  BY <1>2, NewStoreOnce, NewIsStore, AuthAssumption
     DEF OnceInv, FilesTyped, Load, LoadChecked
<1> QED
  BY <1>1, <1>2

(* What happens to the credentials that are handed out, and to the tokens. *)
NothingGiven == ceremonies' \subseteq ceremonies /\ UNCHANGED <<origin, issued>>
GivesOut(x)  == /\ x \in OneTime \ issued /\ issued' = issued \cup {x}
                /\ UNCHANGED <<origin>>
                /\ \/ UNCHANGED ceremonies
                   \/ \E kind \in {"register", "signin"} :
                        x \in Ceremonies /\ ceremonies' \subseteq ceremonies \cup {Pending(x, kind)}
LetsIn(t, for) ==
  /\ Mints(t, for) /\ t \in Tokens /\ issued' = issued /\ for # None
  /\ for \in OneTime => for \in issued
  /\ \/ for \notin Ceremonies /\ ceremonies' = ceremonies
     \/ \E p \in ceremonies : p.handle = for /\ ceremonies' = ceremonies \ {p}

Gives == \/ NothingGiven \/ \E x \in OneTime : GivesOut(x)
         \/ \E t \in Tokens, for \in OneTime \cup {"claim", "cli", "agent"} : LetsIn(t, for)

LEMMA HandedOutStep ==
  ASSUME HandedOut, Gives
  PROVE  HandedOut'
<1>1. CASE NothingGiven
  BY <1>1 DEF NothingGiven, HandedOut
<1>2. ASSUME NEW x \in OneTime, GivesOut(x)
      PROVE  HandedOut'
  <2>1. \A t \in Tokens : origin[t] # x
    BY <1>2 DEF GivesOut, HandedOut
  <2>2. \A p \in ceremonies : p.handle # x
    BY <1>2 DEF GivesOut, HandedOut
  <2>3. CASE UNCHANGED ceremonies
    BY <1>2, <2>3 DEF GivesOut, HandedOut
  <2>4. ASSUME NEW kind, x \in Ceremonies,
               ceremonies' \subseteq ceremonies \cup {Pending(x, kind)}
        PROVE  HandedOut'
    <3>1. Pending(x, kind).handle = x
      BY DEF Pending
    <3>2. issued' = issued \cup {x} /\ origin' = origin
      BY <1>2 DEF GivesOut
    <3> QED
      BY <2>1, <2>2, <2>4, <3>1, <3>2 DEF HandedOut
  <2> QED
    BY <1>2, <2>3, <2>4 DEF GivesOut
<1>3. ASSUME NEW t \in Tokens, NEW for, LetsIn(t, for)
      PROVE  HandedOut'
  <2>1. /\ DOMAIN origin' = Tokens /\ origin'[t] = for /\ issued' = issued
        /\ \A u \in Tokens \ {t} : origin'[u] = origin[u]
    BY <1>3 DEF LetsIn, Mints, HandedOut
  <2>2. CASE for \notin Ceremonies /\ ceremonies' = ceremonies
    BY <1>3, <2>1, <2>2 DEF LetsIn, HandedOut
  <2>3. ASSUME NEW p \in ceremonies, p.handle = for, ceremonies' = ceremonies \ {p}
        PROVE  HandedOut'
    BY <1>3, <2>1, <2>3 DEF LetsIn, HandedOut
  <2> QED
    BY <1>3, <2>2, <2>3 DEF LetsIn
<1> QED
  BY <1>1, <1>2, <1>3 DEF Gives

(* A store that was once is once whatever is handed out and whoever let in. *)
LEMMA OnceStays ==
  ASSUME NEW s, StoreOnce(s, origin, issued), s.sessions \subseteq Tokens, DOMAIN origin = Tokens,
         Gives
  PROVE  StoreOnce(s, origin', issued')
<1>1. \A t \in s.sessions : origin'[t] = origin[t]
  BY DEF Gives, NothingGiven, GivesOut, LetsIn, Mints, StoreOnce
<1>2. issued \subseteq issued'
  BY DEF Gives, NothingGiven, GivesOut, LetsIn
<1> QED
  BY <1>1, <1>2 DEF StoreOnce

(* What a token is minted for is in the store, or was for nobody else. *)
Entitled(t) ==
  /\ t \in Tokens /\ origin[t] = None
  /\ origin'[t] \in OneTime =>
       origin'[t] \in Load.codes \/ \A u \in Tokens : origin[u] # origin'[t]

OnceChange(h) ==
  \E store \in Stores, token \in Tokens \cup {None}, ends \in Tokens \cup {None} :
    /\ Changes(h, store, token, ends) /\ StoreOnce(store, origin', issued')
    /\ store.codes \ Load.codes \subseteq issued' \ issued
    /\ token # None => token \in store.sessions /\ Entitled(token)

(* A session more, of a token that nobody had: and if it was let in by a   *)
(* code, the code is gone from the store.                                  *)
LEMMA AnotherSession ==
  ASSUME NEW s, StoreOnce(s, origin, issued), s.sessions \subseteq Tokens, DOMAIN origin = Tokens,
         NEW t \in Tokens, NEW for, LetsIn(t, for),
         NEW r, r.sessions = s.sessions \cup {t}, r.codes \subseteq s.codes \ {for},
         for \in OneTime => \A u \in s.sessions : origin[u] # for
  PROVE  StoreOnce(r, origin', issued')
<1>1. /\ origin'[t] = for /\ for # None /\ t \notin s.sessions
      /\ \A u \in s.sessions : origin'[u] = origin[u]
  BY DEF LetsIn, Mints, StoreOnce
<1>2. issued' = issued
  BY DEF LetsIn
<1> QED
  BY <1>1, <1>2 DEF StoreOnce

LEMMA SessionsOnce ==
  ASSUME OnceInv, NEW h \in Handlers, NEW t \in Tokens,
         \/ Claim(h, t)
         \/ \E c \in Codes \cup SeedCodes : RedeemCode(h, c, t)
         \/ \E for \in {"cli", "agent"} : MintSession(h, t, for)
         \/ \E x \in Ceremonies : SigninFinish(h, x, t)
  PROVE  Gives /\ OnceChange(h)
<1>0. /\ Load \in Stores /\ StoreOnce(Load, origin, issued)
      /\ Load.sessions \subseteq Tokens /\ Load.codes \subseteq Codes \cup SeedCodes
      /\ DOMAIN origin = Tokens
  BY LoadOnce DEF OnceInv, HandedOut, Stores
<1>1. ASSUME NEW for \in OneTime \cup {"claim", "cli", "agent"}, LetsIn(t, for),
             NEW store \in Stores, Changes(h, store, t, None),
             store.sessions = Load.sessions \cup {t}, store.codes \subseteq Load.codes \ {for},
             for \in OneTime => \A u \in Load.sessions : origin[u] # for,
             for \in OneTime => for \in Load.codes \/ \A u \in Tokens : origin[u] # for
      PROVE  Gives /\ OnceChange(h)
  <2>1. StoreOnce(store, origin', issued')
    BY <1>0, <1>1, AnotherSession
  <2>2. Entitled(t)
    BY <1>0, <1>1 DEF LetsIn, Mints, Entitled
  <2>3. t \in store.sessions /\ store.codes \ Load.codes \subseteq issued' \ issued
    BY <1>1
  <2> QED
    BY <1>1, <2>1, <2>2, <2>3 DEF Gives, OnceChange
<1>2. CASE Claim(h, t)
  <2>1. LoadChecked = Load
    BY <1>2 DEF Claim, IsClaimable, Load
  <2>2. /\ Claimed(Load, t) \in Stores /\ Claimed(Load, t).codes = Load.codes
        /\ Claimed(Load, t).sessions = Load.sessions \cup {t}
    BY <1>0 DEF Claimed, WithSession, Stores
  <2>3. LetsIn(t, "claim") /\ "claim" \notin OneTime
    BY <1>2, AuthAssumption DEF Claim, LetsIn, OneTime
  <2>4. Load.codes \subseteq Load.codes \ {"claim"}
    BY <1>0, <2>3 DEF OneTime
  <2> QED
    BY <1>1, <1>2, <2>1, <2>2, <2>3, <2>4 DEF Claim
<1>3. ASSUME NEW c \in Codes \cup SeedCodes, RedeemCode(h, c, t)
      PROVE  Gives /\ OnceChange(h)
  <2>1. /\ Redeemed(Load, c, t) \in Stores /\ Redeemed(Load, c, t).codes = Load.codes \ {c}
        /\ Redeemed(Load, c, t).sessions = Load.sessions \cup {t}
    BY <1>0 DEF Redeemed, Claimed, WithSession, Stores
  <2>2. c \in Load.codes /\ \A u \in Load.sessions : origin[u] # c
    BY <1>0, <1>3 DEF RedeemCode, StoreOnce
  <2>3. LetsIn(t, c) /\ c \in OneTime
    BY <1>0, <1>3, <2>2, AuthAssumption DEF RedeemCode, LetsIn, OneTime, StoreOnce
  <2> QED
    BY <1>1, <1>3, <2>1, <2>2, <2>3 DEF RedeemCode
<1>4. WithSession(Load, t) \in Stores /\ WithSession(Load, t).codes = Load.codes
      /\ WithSession(Load, t).sessions = Load.sessions \cup {t}
  BY <1>0 DEF WithSession, Stores
<1>5. ASSUME NEW for \in {"cli", "agent"}, MintSession(h, t, for)
      PROVE  Gives /\ OnceChange(h)
  <2>1. LetsIn(t, for) /\ for \notin OneTime
    BY <1>5, AuthAssumption DEF MintSession, LetsIn, OneTime
  <2>2. Load.codes \subseteq Load.codes \ {for}
    BY <1>0, <2>1 DEF OneTime
  <2> QED
    BY <1>1, <1>4, <1>5, <2>1, <2>2 DEF MintSession
<1>6. ASSUME NEW x \in Ceremonies, SigninFinish(h, x, t)
      PROVE  Gives /\ OnceChange(h)
  <2> DEFINE p == Pending(x, "signin")
  <2>1. p \in ceremonies /\ p.handle = x /\ ceremonies' = ceremonies \ {p}
    BY <1>6 DEF SigninFinish, FinishAuthentication, Take, Pending
  <2>2. x \in issued /\ \A u \in Tokens : origin[u] # x
    BY <2>1 DEF OnceInv, HandedOut
  <2>3. LetsIn(t, x) /\ x \in OneTime
    <3>1. Mints(t, x) /\ issued' = issued /\ x # None /\ x \in OneTime
      BY <1>6, AuthAssumption DEF SigninFinish, OneTime
    <3> HIDE DEF p
    <3> QED
      BY <2>1, <2>2, <3>1 DEF LetsIn
  <2>4. Load.codes \subseteq Load.codes \ {x}
    BY <1>0, AuthAssumption
  <2> QED
    BY <1>0, <1>1, <1>4, <1>6, <2>2, <2>3, <2>4 DEF SigninFinish
<1> QED
  BY <1>2, <1>3, <1>5, <1>6

LEMMA OthersOnce ==
  ASSUME OnceInv, NEW h \in Handlers,
         \/ \E t \in Tokens : Revoke(h, t) \/ \E on \in BOOLEAN : SetAutonomous(h, t, on)
         \/ \E c \in Codes : MintCode(h, c)
         \/ \E c \in SeedCodes : ImportCode(h, c)
         \/ \E k \in Keys : RevokeKey(h, k)
         \/ \E x \in Ceremonies, k \in Keys : RegisterFinish(h, x, k)
  PROVE  Gives /\ OnceChange(h)
<1>0. /\ Load \in Stores /\ StoreOnce(Load, origin, issued)
      /\ Load.sessions \subseteq Tokens /\ DOMAIN origin = Tokens
  BY LoadOnce DEF OnceInv, HandedOut, Stores
<1>1. ASSUME Gives, NEW store \in Stores, NEW ends \in Tokens \cup {None},
             Changes(h, store, None, ends),
             store.sessions \subseteq Load.sessions, store.codes \subseteq Load.codes
      PROVE  Gives /\ OnceChange(h)
  <2>1. StoreOnce(store, origin, issued)
    BY <1>0, <1>1 DEF StoreOnce
  <2>2. StoreOnce(store, origin', issued')
    BY <1>0, <1>1, <2>1, OnceStays
  <2>3. store.codes \ Load.codes \subseteq issued' \ issued
    BY <1>1
  <2> QED
    BY <1>1, <2>2, <2>3 DEF OnceChange
<1>2. ASSUME NEW t \in Tokens, Revoke(h, t)
      PROVE  Gives /\ OnceChange(h)
  <2>1. /\ Revoked(Load, t) \in Stores /\ Revoked(Load, t).sessions \subseteq Load.sessions
        /\ Revoked(Load, t).codes = Load.codes
    BY <1>0 DEF Revoked, Stores
  <2> QED
    BY <1>1, <1>2, <2>1 DEF Revoke, Gives, NothingGiven
<1>3. ASSUME NEW t \in Tokens, NEW on \in BOOLEAN, SetAutonomous(h, t, on)
      PROVE  Gives /\ OnceChange(h)
  <2>1. /\ Trusting(Load, t, on) \in Stores /\ Trusting(Load, t, on).sessions = Load.sessions
        /\ Trusting(Load, t, on).codes = Load.codes
    BY <1>0 DEF Trusting, Stores
  <2> QED
    BY <1>1, <1>3, <2>1 DEF SetAutonomous, Gives, NothingGiven
<1>4. ASSUME NEW c \in (Codes \cup SeedCodes) \ issued, issued' = issued \cup {c},
             UNCHANGED <<ceremonies, origin>>, NEW store \in Stores,
             Changes(h, store, None, None),
             store.sessions = Load.sessions, store.codes \subseteq Load.codes \cup {c}
      PROVE  Gives /\ OnceChange(h)
  <2>1. \A t \in Load.sessions : origin[t] # c
    BY <1>0, <1>4 DEF OnceInv, HandedOut, OneTime
  <2>2. StoreOnce(store, origin', issued')
    BY <1>0, <1>4, <2>1 DEF StoreOnce
  <2>3. c \in OneTime /\ GivesOut(c)
    BY <1>4 DEF GivesOut, OneTime
  <2>4. store.codes \ Load.codes \subseteq issued' \ issued
    BY <1>4
  <2> QED
    BY <1>4, <2>2, <2>3, <2>4 DEF Gives, OnceChange
<1>5. ASSUME NEW c \in Codes, MintCode(h, c)
      PROVE  Gives /\ OnceChange(h)
  <2>1. /\ WithCode(Load, c) \in Stores /\ WithCode(Load, c).sessions = Load.sessions
        /\ WithCode(Load, c).codes \subseteq Load.codes \cup {c}
    BY <1>0 DEF WithCode, Stores
  <2> QED
    BY <1>4, <1>5, <2>1 DEF MintCode
<1>6. ASSUME NEW c \in SeedCodes, ImportCode(h, c)
      PROVE  Gives /\ OnceChange(h)
  <2>1. /\ Seeded(Load, c) \in Stores /\ Seeded(Load, c).sessions = Load.sessions
        /\ Seeded(Load, c).codes \subseteq Load.codes \cup {c}
    BY <1>0 DEF Seeded, Stores
  <2> QED
    BY <1>4, <1>6, <2>1 DEF ImportCode
<1>7. ASSUME NEW k \in Keys, RevokeKey(h, k)
      PROVE  Gives /\ OnceChange(h)
  <2>1. /\ WithoutKey(Load, k) \in Stores /\ WithoutKey(Load, k).sessions = Load.sessions
        /\ WithoutKey(Load, k).codes = Load.codes
    BY <1>0 DEF WithoutKey, Stores
  <2> QED
    BY <1>1, <1>7, <2>1 DEF RevokeKey, Gives, NothingGiven
<1>8. ASSUME NEW x \in Ceremonies, NEW k \in Keys, RegisterFinish(h, x, k)
      PROVE  Gives /\ OnceChange(h)
  <2>1. /\ WithKey(Load, k) \in Stores /\ WithKey(Load, k).sessions = Load.sessions
        /\ WithKey(Load, k).codes = Load.codes
    BY <1>0 DEF WithKey, Stores
  <2>2. Gives
    BY <1>8 DEF RegisterFinish, FinishRegistration, Take, Gives, NothingGiven
  <2> QED
    BY <1>1, <1>8, <2>1, <2>2 DEF RegisterFinish
<1> QED
  BY <1>2, <1>3, <1>5, <1>6, <1>7, <1>8

LEMMA RegisteringOnce ==
  ASSUME OnceInv, NEW h \in Handlers, NEW x \in Ceremonies, RegisterStart(h, x)
  PROVE  Gives /\ (Ends(h) \/ OnceChange(h))
<1>0. /\ Load \in Stores /\ StoreOnce(Load, origin, issued)
      /\ Load.sessions \subseteq Tokens /\ DOMAIN origin = Tokens
  BY LoadOnce DEF OnceInv, HandedOut, Stores
<1>1. Gives
  <2>1. GivesOut(x)
    BY DEF RegisterStart, StartRegistration, Put, GivesOut, OneTime
  <2> QED
    BY <2>1 DEF Gives, OneTime
<1>2. CASE Load.user
  BY <1>1, <1>2 DEF RegisterStart, Ends
<1>3. CASE ~Load.user
  <2>1. /\ WithUser(Load) \in Stores /\ WithUser(Load).sessions = Load.sessions
        /\ WithUser(Load).codes = Load.codes
    BY <1>0 DEF WithUser, Stores
  <2>2. StoreOnce(WithUser(Load), origin, issued)
    BY <1>0, <2>1 DEF StoreOnce
  <2>3. StoreOnce(WithUser(Load), origin', issued')
    BY <1>0, <1>1, <2>1, <2>2, OnceStays
  <2>4. WithUser(Load).codes \ Load.codes \subseteq issued' \ issued
    BY <2>1
  <2> QED
    BY <1>1, <1>3, <2>1, <2>3, <2>4 DEF RegisterStart, OnceChange
<1> QED
  BY <1>2, <1>3

(* The steps again, by what they do to the one-time credentials. *)
OnceStepOf(h) ==
  \/ OnceChange(h) \/ \E t \in Tokens : Admit(h, t)
  \/ Ends(h) \/ Open(h) \/ Write(h) \/ Rename(h)

LEMMA OnceSteps ==
  ASSUME OnceInv, [Next]_vars
  PROVE  Gives /\ (Rests \/ Crash \/ \E h \in Handlers : OnceStepOf(h))
<1>1. CASE UNCHANGED vars
  BY <1>1 DEF vars, Rests, files, history, Gives, NothingGiven
<1>2. ASSUME NEW h \in Handlers, Sessions(h) \/ KeysAndCodes(h)
      PROVE  Gives /\ OnceStepOf(h)
  <2>1. ASSUME NEW x \in Ceremonies, RegisterStart(h, x)
        PROVE  Gives /\ OnceStepOf(h)
    BY <2>1, RegisteringOnce DEF OnceStepOf
  <2>2. ASSUME NEW t \in Tokens, Admit(h, t)
        PROVE  Gives /\ OnceStepOf(h)
    BY <2>2 DEF Admit, Gives, NothingGiven, OnceStepOf
  <2> QED
    BY <1>2, <2>1, <2>2, SessionsOnce, OthersOnce DEF Sessions, KeysAndCodes, OnceStepOf
<1>3. ASSUME NEW h \in Handlers, Refuses(h) \/ SaveStep(h)
      PROVE  Gives /\ OnceStepOf(h)
  <2>1. Gives
    BY <1>3 DEF Refuses, SaveStep, Open, Write, Rename, RenameFails, Gives, NothingGiven
  <2> QED
    BY <1>3, <2>1 DEF Refuses, SaveStep, RenameFails, OnceStepOf, Ends
<1>4. ASSUME NEW x \in Ceremonies, SigninStart(x)
      PROVE  Gives /\ Rests
  <2>1. GivesOut(x)
    BY <1>4 DEF SigninStart, StartAuthentication, Put, GivesOut, OneTime
  <2> QED
    BY <1>4, <2>1 DEF SigninStart, Rests, Gives, OneTime
<1>5. ASSUME (\E p \in ceremonies : SigninFails(p)) \/ (\E x \in OneTime : Expire(x))
      PROVE  Gives /\ Rests
  BY <1>5 DEF SigninFails, Expire, Rests, Gives, NothingGiven
<1>6. CASE Crash
  BY <1>6 DEF Crash, Gives, NothingGiven
<1> QED
  BY <1>1, <1>2, <1>3, <1>4, <1>5, <1>6 DEF Next

LEMMA OnceStep == OnceInv /\ [Next]_vars => OnceInv'
<1> SUFFICES ASSUME OnceInv, [Next]_vars PROVE HandedOut' /\ StoresOnce'
  BY TypedStep DEF OnceInv
<1>1. Gives /\ HandedOut'
  BY OnceSteps, HandedOutStep DEF OnceInv
<1>2. \A s \in Stores : StoreOnce(s, origin, issued) => StoreOnce(s, origin', issued')
  <2>1. \A s \in Stores : s.sessions \subseteq Tokens
    BY DEF Stores
  <2> QED
    BY <1>1, <2>1, OnceStays DEF OnceInv, HandedOut
<1>3. /\ main \in Stores => StoreOnce(main, origin', issued')
      /\ tmp \in Stores => StoreOnce(tmp, origin', issued')
      /\ \A h \in Handlers : StoreOnce(hand[h].copy, origin', issued')
      /\ StoreOnce(Idle.copy, origin', issued')
  <2>1. \A h \in Handlers : hand[h].copy \in Stores
    BY DEF OnceInv, FilesTyped, Hands
  <2> QED
    BY <1>2, <2>1, NewStoreOnce DEF OnceInv, StoresOnce
<1>4. ASSUME \A h \in Handlers : StoreOnce(hand'[h].copy, origin', issued'),
             main' \in {main, tmp, NoFile, Torn} \/ \E h \in Handlers : main' = hand[h].copy,
             tmp' \in {tmp, NoFile, Torn} \/ \E h \in Handlers : tmp' = hand[h].copy
      PROVE  StoresOnce'
  BY <1>3, <1>4, AuthAssumption DEF StoresOnce
<1>5. CASE Rests
  <2>1. hand' = hand /\ main' = main /\ tmp' = tmp
    BY <1>5 DEF Rests, files
  <2>2. \A h \in Handlers : StoreOnce(hand'[h].copy, origin', issued')
    BY <1>3, <2>1
  <2> QED
    BY <1>1, <1>4, <2>1, <2>2
<1>6. CASE Crash
  <2>1. hand' = [h \in Handlers |-> Idle] /\ main' = main /\ tmp' = tmp
    BY <1>6 DEF Crash, files
  <2>2. \A h \in Handlers : StoreOnce(hand'[h].copy, origin', issued')
    BY <1>3, <2>1
  <2> QED
    BY <1>1, <1>4, <2>1, <2>2
<1>7. ASSUME NEW h \in Handlers, OnceChange(h)
      PROVE  StoresOnce'
  <2>1. PICK store \in Stores, token \in Tokens \cup {None}, ends \in Tokens \cup {None} :
          Changes(h, store, token, ends) /\ StoreOnce(store, origin', issued')
    BY <1>7 DEF OnceChange
  <2>2. \A g \in Handlers : hand'[g].copy \in {store, hand[g].copy}
    BY <2>1 DEF Changes, OnceInv, FilesTyped, Idle
  <2> QED
    BY <1>3, <1>4, <2>1, <2>2 DEF Changes, files
<1>8. ASSUME NEW h \in Handlers,
             (\E t \in Tokens : Admit(h, t)) \/ Ends(h) \/ Open(h) \/ Write(h) \/ Rename(h)
      PROVE  StoresOnce'
  <2>1. \A g \in Handlers : hand'[g].copy \in {Idle.copy, hand[g].copy}
    <3>0. hand \in [Handlers -> Hands]
      BY DEF OnceInv, FilesTyped
    <3>1. CASE (\E t \in Tokens : Admit(h, t)) \/ Ends(h)
      BY <3>0, <3>1 DEF Admit, Ends, Answers, Idle
    <3>2. CASE Open(h) \/ Write(h)
      BY <3>0, <3>2 DEF Open, Write, Hands
    <3>3. CASE Rename(h)
      BY <3>0, <3>3 DEF Rename, Hands
    <3> QED
      BY <1>8, <3>1, <3>2, <3>3
  <2>2. /\ main' \in {main, tmp, NoFile, Torn} \/ \E g \in Handlers : main' = hand[g].copy
        /\ tmp' \in {tmp, NoFile, Torn} \/ \E g \in Handlers : tmp' = hand[g].copy
    BY <1>8 DEF Admit, Ends, Open, Write, Written, Rename, files
  <2> QED
    BY <1>3, <1>4, <2>1, <2>2
<1> QED
  BY <1>1, <1>5, <1>6, <1>7, <1>8, OnceSteps DEF OnceStepOf

LEMMA AtMostOne ==
  ASSUME NEW S, \A t, u \in S : t = u
  PROVE  Cardinality(S) <= 1
<1>1. CASE S = {}
  BY <1>1, FS_EmptySet
<1>2. ASSUME NEW t \in S PROVE Cardinality(S) <= 1
  <2>1. S = {t} /\ Cardinality({t}) = 1
    BY <1>2, FS_Singleton
  <2> QED
    BY <2>1
<1> QED
  BY <1>1, <1>2

(***************************************************************************)
(* Who was told.  As long as no two saves overlapped, what any token was   *)
(* told of was minted for is in no store any more that might be loaded or  *)
(* saved, and the one handler that saves will tell of something else.      *)
(***************************************************************************)
Answering(r) ==
  /\ \A t \in told : origin[t] \notin r.copy.codes
  /\ r.token # None =>
       /\ r.token \in r.copy.sessions
       /\ origin[r.token] \in OneTime => \A t \in told : origin[t] # origin[r.token]
  /\ r.at = "write" => r.fd = "tmp" /\ tmp = Torn
  /\ r.at = "rename" => tmp = r.copy

AnswersOnce ==
  /\ told \subseteq Tokens
  /\ \A t \in told : origin[t] # None /\ origin[t] \notin Load.codes
  /\ \A t, u \in told : origin[t] \in OneTime /\ origin[t] = origin[u] => t = u
  /\ \A g, h \in Handlers : Busy(g) /\ Busy(h) => g = h
  /\ \A h \in Handlers : Busy(h) => Answering(hand[h])

ToldInv == OnceInv /\ (overlapped \/ AnswersOnce)

LEMMA ToldInit == Init => ToldInv
<1> SUFFICES ASSUME Init PROVE AnswersOnce
  BY OnceInit DEF ToldInv
<1>1. \A h \in Handlers : ~Busy(h)
  BY DEF Init, Idle, Busy
<1>2. told = {}
  BY DEF Init
<1> QED
  BY <1>1, <1>2 DEF AnswersOnce

(* Whose origin is decided keeps it. *)
LEMMA OriginsStay ==
  ASSUME HandedOut, Gives, NEW t \in Tokens, origin[t] # None
  PROVE  origin'[t] = origin[t]
  BY DEF Gives, NothingGiven, GivesOut, LetsIn, Mints, HandedOut

LEMMA ToldStepChange ==
  ASSUME OnceInv, OnceInv', AnswersOnce, Gives, ~overlapped', NEW h \in Handlers, OnceChange(h)
  PROVE  AnswersOnce'
<1>1. PICK store \in Stores, token \in Tokens \cup {None}, ends \in Tokens \cup {None} :
        /\ Changes(h, store, token, ends)
        /\ store.codes \ Load.codes \subseteq issued' \ issued
        /\ token # None => token \in store.sessions /\ Entitled(token)
  BY DEF OnceChange
<1>2. /\ hand'[h].at = "open" /\ hand'[h].copy = store /\ hand'[h].token = token
      /\ \A g \in Handlers \ {h} : hand'[g] = hand[g]
  BY <1>1 DEF Changes, OnceInv, FilesTyped, Idle
<1>3. \A g \in Handlers \ {h} : ~Busy(g)
  <2>1. overlapped' = (overlapped \/ \E g \in Handlers \ {h} : Busy(g))
    BY <1>1 DEF Changes
  <2> QED
    BY <2>1, Zenon
<1>4. told' = told /\ Load' = Load
  BY <1>1 DEF Changes, files, Load, LoadChecked
<1>5. \A t \in told : origin'[t] = origin[t]
  BY OriginsStay DEF OnceInv, AnswersOnce
<1>6. \A t \in told : origin[t] \notin store.codes
  <2>1. \A t \in told : origin[t] \in OneTime => origin[t] \in issued
    BY DEF OnceInv, HandedOut, AnswersOnce
  <2>2. store.codes \subseteq OneTime
    BY <1>1 DEF Stores, OneTime
  <2> QED
    BY <1>1, <2>1, <2>2 DEF AnswersOnce
<1>7. token # None => /\ token \in store.sessions
                      /\ origin'[token] \in OneTime => \A t \in told : origin[t] # origin'[token]
  BY <1>1 DEF Entitled, AnswersOnce
<1>8. Answering(hand[h])'
  BY <1>2, <1>4, <1>5, <1>6, <1>7 DEF Answering
<1>9. \A g \in Handlers : Busy(g)' => g = h
  BY <1>2, <1>3 DEF Busy
<1> QED
  BY <1>4, <1>5, <1>8, <1>9 DEF AnswersOnce

LEMMA ToldStepSave ==
  ASSUME OnceInv, OnceInv', AnswersOnce, UNCHANGED <<origin, issued>>, NEW h \in Handlers,
         Open(h) \/ Write(h) \/ Rename(h)
  PROVE  AnswersOnce'
<1>a. hand \in [Handlers -> Hands]
  BY DEF OnceInv, FilesTyped
<1>b. Busy(h) /\ Answering(hand[h]) /\ hand[h] \in Hands /\ \A g \in Handlers \ {h} : ~Busy(g)
  BY <1>a DEF Open, Write, Rename, Busy, AnswersOnce
<1>1. CASE Open(h) \/ Write(h)
  <2>1. \A g \in Handlers : Busy(g)' = Busy(g)
    BY <1>a, <1>1 DEF Open, Write, Busy, Hands
  <2>2. /\ hand'[h].copy = hand[h].copy /\ hand'[h].token = hand[h].token
        /\ Open(h) => hand'[h].at = "write" /\ hand'[h].fd = "tmp" /\ tmp' = Torn
        /\ ~Open(h) => hand'[h].at = "rename" /\ tmp' = hand[h].copy
    BY <1>a, <1>b, <1>1 DEF Open, Write, Written, Answering, Hands
  <2>3. main' = main /\ told' = told
    BY <1>b, <1>1 DEF Open, Write, Answering, history
  <2>4. Load' = Load
    BY <2>3 DEF Load, LoadChecked
  <2>5. Answering(hand[h])'
    BY <1>b, <2>2, <2>3 DEF Answering
  <2> QED
    BY <1>b, <2>1, <2>3, <2>4, <2>5 DEF AnswersOnce
<1>2. CASE Rename(h)
  <2>1. \A g \in Handlers : ~Busy(g)'
    BY <1>a, <1>b, <1>2 DEF Rename, Busy, Hands, Idle
  <2>2. main' = hand[h].copy /\ hand[h].copy \in Stores /\ StoreOnce(hand[h].copy, origin, issued)
    BY <1>a, <1>b, <1>2 DEF Rename, Answering, Hands, OnceInv, StoresOnce
  <2>3. Load'.codes = hand[h].copy.codes
    BY <2>2, AuthAssumption DEF Load, LoadChecked, Backfilled, Stores
  <2>4. told' = told \cup ({hand[h].token} \ {None}) /\ hand[h].token \in Tokens \cup {None}
    BY <1>b, <1>2 DEF Rename, Hands
  <2>5. hand[h].token # None =>
          /\ origin[hand[h].token] # None /\ origin[hand[h].token] \notin hand[h].copy.codes
          /\ origin[hand[h].token] \in OneTime =>
               \A t \in told : origin[t] # origin[hand[h].token]
    BY <1>b, <2>2 DEF Answering, StoreOnce
  <2>6. \A t \in told : origin[t] \notin hand[h].copy.codes
    BY <1>b DEF Answering
  <2> QED
    BY <2>1, <2>3, <2>4, <2>5, <2>6 DEF AnswersOnce
<1> QED
  BY <1>1, <1>2

LEMMA ToldStep == ToldInv /\ [Next]_vars => ToldInv'
<1> SUFFICES ASSUME OnceInv, OnceInv', [Next]_vars, ~overlapped', AnswersOnce
             PROVE  AnswersOnce'
  BY OnceStep, OverlappedStays DEF ToldInv, OnceInv
<1>0. Gives
  BY OnceSteps
<1>1. \A t \in told : origin'[t] = origin[t]
  BY <1>0, OriginsStay DEF OnceInv, AnswersOnce
<1>2. ASSUME told' = told, main' = main, tmp' = tmp,
             \A g \in Handlers : Busy(g)' => Busy(g) /\ hand'[g] = hand[g]
      PROVE  AnswersOnce'
  <2>1. Load' = Load
    BY <1>2 DEF Load, LoadChecked
  <2>2. ASSUME NEW g \in Handlers, Busy(g)'
        PROVE  Answering(hand[g])'
    <3>1. Answering(hand[g]) /\ hand'[g] = hand[g] /\ hand[g] \in Hands
      BY <1>2, <2>2 DEF AnswersOnce, OnceInv, FilesTyped
    <3>2. hand[g].token # None => origin'[hand[g].token] = origin[hand[g].token]
      <4>1. hand[g].token # None => hand[g].token \in Tokens /\ origin[hand[g].token] # None
        BY <3>1 DEF Answering, Hands, OnceInv, StoresOnce, StoreOnce
      <4> QED
        BY <1>0, <4>1, OriginsStay DEF OnceInv
    <3> QED
      BY <1>1, <1>2, <3>1, <3>2 DEF Answering
  <2> QED
    BY <1>1, <1>2, <2>1, <2>2 DEF AnswersOnce
<1>3. CASE Rests
  BY <1>2, <1>3 DEF Rests, files, history, Busy
<1>4. CASE Crash
  BY <1>2, <1>4 DEF Crash, files, history, Busy, Idle
<1>5. ASSUME NEW h \in Handlers, (\E t \in Tokens : Admit(h, t)) \/ Ends(h)
      PROVE  AnswersOnce'
  <2>1. \A g \in Handlers : Busy(g)' => Busy(g) /\ hand'[g] = hand[g]
    <3>0. hand \in [Handlers -> Hands]
      BY DEF OnceInv, FilesTyped
    <3>1. CASE \E t \in Tokens : Admit(h, t)
      BY <3>0, <3>1 DEF Admit, Busy, Idle
    <3>2. CASE Ends(h)
      BY <3>0, <3>2 DEF Ends, Answers, Busy, Idle
    <3> QED
      BY <1>5, <3>1, <3>2
  <2> QED
    BY <1>2, <1>5, <2>1 DEF Admit, Ends, files, history
<1>6. ASSUME NEW h \in Handlers, OnceChange(h)
      PROVE  AnswersOnce'
  BY <1>0, <1>6, ToldStepChange
<1>7. ASSUME NEW h \in Handlers, Open(h) \/ Write(h) \/ Rename(h)
      PROVE  AnswersOnce'
  <2>1. UNCHANGED <<origin, issued>>
    BY <1>7 DEF Open, Write, Rename
  <2> QED
    BY <1>7, <2>1, ToldStepSave
<1> QED
  BY <1>3, <1>4, <1>5, <1>6, <1>7, OnceSteps DEF OnceStepOf

(* No store there is has two sessions for one pairing code or ceremony, or  *)
(* would still take a code it has a session for, however handlers load and  *)
(* save; and while no two saves overlapped, no two holders were ever told   *)
(* of a session for the same one.                                           *)
THEOREM OneTimeIsOnce == Spec => []OneTimeMeansOnce
<1>1. ASSUME NEW s, StoreOnce(s, origin, issued)
      PROVE  OncePerStore(s)
  <2> SUFFICES ASSUME NEW x \in OneTime
               PROVE  LET from == {t \in s.sessions : origin[t] = x}
                      IN  Cardinality(from) <= 1 /\ (x \in s.codes => from = {})
    BY DEF OncePerStore
  <2> QED
    BY <1>1, AtMostOne DEF StoreOnce
<1>2. AnswersOnce => AnsweredOnce
  <2> SUFFICES ASSUME AnswersOnce, NEW x \in OneTime
               PROVE  Cardinality({t \in told : origin[t] = x}) <= 1
    BY DEF AnsweredOnce
  <2> QED
    BY AtMostOne DEF AnswersOnce
<1>3. ToldInv => OneTimeMeansOnce
  BY <1>1, <1>2 DEF ToldInv, OnceInv, StoresOnce, FilesTyped, OneTimeMeansOnce
<1> QED
  BY <1>3, ToldInit, ToldStep, PTL DEF Spec

(* There is never a second token for the same challenge. *)
THEOREM ChallengesAreOnce == Spec => []ChallengesAreNotReplayed
<1>1. ASSUME OnceInv, NEW x \in Ceremonies
      PROVE  Cardinality({t \in Tokens : origin[t] = x}) <= 1
  BY <1>1, AtMostOne DEF OnceInv, HandedOut
<1>2. OnceInv => ChallengesAreNotReplayed
  BY <1>1 DEF ChallengesAreNotReplayed
<1> QED
  BY <1>2, OnceInit, OnceStep, PTL DEF Spec
=============================================================================
