---------------------------- MODULE RepositoryProofs ----------------------------
(***************************************************************************)
(* Theorems about the modules that keep git repositories and the Box in    *)
(* step.  The configuration's own (ConfigRepo): a restore that completes   *)
(* leaves every secret readable, and a backup key is never generated over  *)
(* another, for any secrets, operators, jobs and machines.  The services'  *)
(* (RepoSync): a marker never runs ahead, and a delete stands, for any     *)
(* services, commits and requests.  The forges they are fetched from       *)
(* (Forge): a token stays home, a disconnect holds, and the code that is   *)
(* being typed in stands, for any forges, addresses, callers and codes.    *)
(***************************************************************************)
EXTENDS ConfigRepo, RepoSync, Forge, FiniteSetTheorems, TLAPS

-----------------------------------------------------------------------------
(* Types.                                                                  *)

LEMMA Bounds == /\ MaxMachines \in Nat \ {0} /\ MaxIdentities \in Nat
                /\ MaxValues \in Nat /\ MaxRestores \in Nat
  BY ConfigRepoAssumption

LEMMA RecipientsAreKeys ==
  ASSUME CRTypeOK
  PROVE  /\ Recipients \subseteq Keys
         /\ \A i \in 1 .. MaxIdentities : LocalRecipients(i) \subseteq Keys
  BY DEF CRTypeOK, Recipients, LocalRecipients, Keys, Host, Box

LEMMA IdentityType ==
  ASSUME CRTypeOK, EnsureIdentity
  PROVE  /\ identities' \in 0 .. MaxIdentities /\ identity' \in 1 .. identities'
         /\ identity' \in 1 .. MaxIdentities
         /\ identity' # 0 /\ (identity # 0 => identity' = identity)
  BY Bounds DEF CRTypeOK, EnsureIdentity

LEMMA SealedType ==
  ASSUME NEW v \in 0 .. MaxValues, NEW to \in SUBSET Keys
  PROVE  Sealed(v, to) \in SealedFiles
  BY DEF Sealed, SealedFiles

LEMMA NothingYet ==
  /\ NoFiles \in Files
  /\ [j \in Restores |-> NoRestore] \in
       [Restores -> [at : {"none", "waits", "rekeys", "builds"}, left : SUBSET Secrets]]
  /\ [i \in Initialisers |-> NoInit] \in
       [Initialisers -> [at : {"none", "generates", "seals"}, to : 0 .. MaxIdentities]]
  BY Bounds DEF NoFiles, Files, NoRestore, NoInit

LEMMA TypeInit == CRInit => CRTypeOK
<1> SUFFICES ASSUME CRInit PROVE CRTypeOK
  OBVIOUS
<1>1. machine \in 1 .. MaxMachines /\ authorized \subseteq Operators
  BY Bounds DEF CRInit
<1>2. identities \in 0 .. MaxIdentities /\ identity \in 0 .. identities
  BY Bounds DEF CRInit
<1>3. values \in 0 .. MaxValues /\ begun \in 0 .. MaxRestores
  BY Bounds DEF CRInit
<1>4. files \in Files /\ shipped \in Files
  BY NothingYet DEF CRInit
<1>5. linked \in BOOLEAN /\ pushKey \in BOOLEAN /\ halfway \in BOOLEAN
  BY DEF CRInit
<1>6. keyFile \in Operators \cup {Absent} /\ raced \in BOOLEAN
  BY DEF CRInit
<1> QED
  BY <1>1, <1>2, <1>3, <1>4, <1>5, <1>6, NothingYet DEF CRInit, NoInit, CRTypeOK

InitsTyped ==
  /\ inits \in [Initialisers -> [at : {"none", "generates", "seals"}, to : 0 .. MaxIdentities]]
  /\ \A i \in Initialisers : inits[i].at = "seals" => inits[i].to # 0

LEMMA TypeInits ==
  ASSUME CRTypeOK, NEW i \in Initialisers,
         InitLooks(i) \/ InitChooses(i) \/ InitSeals(i) \/ InitFails(i)
  PROVE  CRTypeOK'
<1>1. CASE InitLooks(i)
  <2>1. identities' \in 0 .. MaxIdentities /\ identity' \in 0 .. identities'
    BY <1>1, IdentityType DEF InitLooks, Looks, Reads, CRTypeOK
  <2>2. InitsTyped'
    BY <1>1 DEF InitLooks, Looks, InitsTyped, CRTypeOK
  <2>3. raced' \in BOOLEAN
    BY <1>1 DEF InitLooks, Looks
  <2> QED
    BY <1>1, <2>1, <2>2, <2>3 DEF InitLooks, Looks, InitsTyped, CRTypeOK, jobs
<1>2. CASE InitChooses(i)
  <2>1. /\ identities' \in 0 .. MaxIdentities /\ identity' \in 0 .. identities'
        /\ identity' \in 0 .. MaxIdentities /\ identity' # 0
    BY <1>2, IdentityType, Bounds DEF InitChooses
  <2>2. InitsTyped'
    BY <1>2, <2>1 DEF InitChooses, InitsTyped, CRTypeOK
  <2> QED
    BY <1>2, <2>1, <2>2 DEF InitChooses, InitsTyped, CRTypeOK, jobs
<1>3. CASE InitSeals(i)
  <2>1. values' \in 0 .. MaxValues
    BY <1>3, Bounds DEF InitSeals, CRTypeOK
  <2>2. InitsTyped'
    BY <1>3, NothingYet, Bounds DEF InitSeals, NoInit, InitsTyped, CRTypeOK
  <2>3. SUFFICES files' \in Files
    BY <1>3, <2>1, <2>2 DEF InitSeals, InitsTyped, CRTypeOK, jobs
  <2>4. LocalRecipients(inits[i].to) \in SUBSET Keys
    <3>1. inits[i].to \in 1 .. MaxIdentities
      BY <1>3, Bounds DEF InitSeals, CRTypeOK
    <3> QED
      BY <3>1, RecipientsAreKeys
  <2>5. Sealed(values + 1, LocalRecipients(inits[i].to)) \in SealedFiles
    BY <1>3, <2>1, <2>4, SealedType DEF InitSeals
  <2> QED
    BY <1>3, <2>5 DEF InitSeals, CRTypeOK, Files
<1>4. CASE InitFails(i)
  <2>1. InitsTyped'
    BY <1>4, NothingYet, Bounds DEF InitFails, NoInit, InitsTyped, CRTypeOK
  <2> QED
    BY <1>4, <2>1 DEF InitFails, InitsTyped, CRTypeOK, held, jobs
<1> QED
  BY <1>1, <1>2, <1>3, <1>4

LEMMA TypeSeals ==
  ASSUME CRTypeOK, SetRemote \/ Push \/ \E n \in ServiceSecrets : SealService(n)
  PROVE  CRTypeOK'
<1>2. CASE SetRemote
  BY <1>2 DEF SetRemote, CRTypeOK, generating, jobs
<1>3. CASE Push
  BY <1>3 DEF Push, Pushed, CRTypeOK, held, generating, jobs
<1>4. ASSUME NEW n \in ServiceSecrets, SealService(n)
      PROVE  CRTypeOK'
  <2>1. Sealed(0, Recipients) \in SealedFiles
    BY RecipientsAreKeys, SealedType, Bounds
  <2>2. files' \in Files
    BY <1>4, <2>1 DEF SealService, CRTypeOK, Files
  <2> QED
    BY <1>4, <2>2 DEF SealService, CRTypeOK, generating, jobs
<1> QED
  BY <1>2, <1>3, <1>4

LEMMA TypeRestores ==
  ASSUME CRTypeOK, NEW j \in Restores,
         \/ \E k \in Operators : BeginRestore(j, k)
         \/ Fetch(j) \/ FetchFails(j) \/ AllRekeyed(j) \/ FinishRestore(j)
         \/ \E n \in Secrets : Rekey(j, n) \/ RekeyFails(j, n)
  PROVE  CRTypeOK'
<1>1. ASSUME NEW k \in Operators, BeginRestore(j, k)
      PROVE  CRTypeOK'
  BY <1>1, Bounds DEF BeginRestore, CRTypeOK, generating, held
<1>2. CASE Fetch(j)
  <2>1. Taken \in Files
    BY DEF CRTypeOK, Taken, Files
  <2>2. {n \in Secrets : Taken[n] # Absent} \subseteq Secrets
    OBVIOUS
  <2>3. restores' \in [Restores -> [at : {"none", "waits", "rekeys", "builds"},
                                    left : SUBSET Secrets]]
    BY <1>2, <2>2 DEF Fetch, CRTypeOK
  <2> QED
    <3>1. identity' \in 0 .. identities' /\ raced' \in BOOLEAN
      BY <1>2 DEF Fetch, CRTypeOK
    <3> QED
      BY <1>2, <2>1, <2>3, <3>1 DEF Fetch, CRTypeOK
<1>3. CASE FetchFails(j)
  BY <1>3 DEF FetchFails, EndRestore, NoRestore, CRTypeOK, generating, held
<1>4. CASE AllRekeyed(j)
  <2>1. identities' \in 0 .. MaxIdentities /\ identity' \in 0 .. identities'
    BY <1>4, IdentityType DEF AllRekeyed
  <2> QED
    BY <1>4, <2>1 DEF AllRekeyed, CRTypeOK, generating
<1>5. CASE FinishRestore(j)
  BY <1>5 DEF FinishRestore, EndRestore, NoRestore, Pushed, CRTypeOK, generating, held
<1>6. ASSUME NEW n \in Secrets, Rekey(j, n)
      PROVE  CRTypeOK'
  <2>1. identities' \in 0 .. MaxIdentities /\ identity' \in 0 .. identities'
    BY <1>6, IdentityType DEF Rekey, Rekeyed, CRTypeOK
  <2>2. files[n] \in SealedFiles
    BY <1>6 DEF Rekey, Opens, CRTypeOK, Files
  <2>3. (IF n = Password THEN LocalRecipients(identity') ELSE Recipients) \in SUBSET Keys
    BY <1>6, IdentityType, RecipientsAreKeys DEF Rekey, Rekeyed
  <2>4. files' \in Files
    BY <1>6, <2>2, <2>3, SealedType DEF Rekey, CRTypeOK, Files, SealedFiles
  <2> QED
    BY <1>6, <2>1, <2>4 DEF Rekey, CRTypeOK, generating
<1>7. ASSUME NEW n \in Secrets, RekeyFails(j, n)
      PROVE  CRTypeOK'
  <2>1. identities' \in 0 .. MaxIdentities /\ identity' \in 0 .. identities'
    BY <1>7, IdentityType DEF RekeyFails, Rekeyed, CRTypeOK
  <2> QED
    BY <1>7, <2>1 DEF RekeyFails, EndRestore, NoRestore, CRTypeOK, generating
<1> QED
  BY <1>1, <1>2, <1>3, <1>4, <1>5, <1>6, <1>7

LEMMA TypeFaults ==
  ASSUME CRTypeOK, Crash \/ Destroy
  PROVE  CRTypeOK'
<1>1. CASE Crash
  <2>1. files' \in Files
    BY <1>1 DEF Crash, CRTypeOK, Files
  <2> QED
    BY <1>1, <2>1 DEF Crash, CRTypeOK, generating, NoRestore
<1>2. CASE Destroy
  <2>1. machine' \in 1 .. MaxMachines /\ authorized' \subseteq Operators
    BY <1>2, Bounds DEF Destroy, CRTypeOK
  <2>2. identity' \in 0 .. identities' /\ identities' \in 0 .. MaxIdentities
    BY <1>2 DEF Destroy, CRTypeOK
  <2>3. files' \in Files
    BY <1>2, NothingYet DEF Destroy
  <2> QED
    BY <1>2, <2>1, <2>2, <2>3, NothingYet DEF Destroy, NoInit, CRTypeOK
<1> QED
  BY <1>1, <1>2

LEMMA TypeStep == CRTypeOK /\ [CRNext]_crVars => CRTypeOK'
<1>1. ASSUME CRTypeOK, UNCHANGED crVars PROVE CRTypeOK'
  BY <1>1 DEF crVars, held, jobs, CRTypeOK, generating
<1> QED
  BY <1>1, TypeInits, TypeSeals, TypeRestores, TypeFaults DEF CRNext

(* Every file is whole, torn or absent, and sealed to keys that exist; the *)
(* Box's identity is none or one of those that were made.                  *)
THEOREM SecretsTyped == CRSpec => []CRTypeOK
  BY TypeInit, TypeStep, PTL DEF CRSpec

-----------------------------------------------------------------------------
(* RestoredIsReadable is not inductive: what makes it true at the end of a *)
(* restore is what has been re-keyed so far, and that no second restore    *)
(* holds the lock.  Where no generation of a key has ever run into another *)
(* or into a restore, there is one at most, with no restore beside it; it  *)
(* found no key and there still is none, and the identity it chose is the  *)
(* Box's.                                                                  *)
Reader(n)   == IF n = Password THEN Box(identity) ELSE Host
Readable(n) == files[n] # Absent => Opens(Reader(n), files[n])

LockedBy(j) == restores[j].at \in {"rekeys", "builds"}

OneLock == \A i, j \in Restores : LockedBy(i) /\ LockedBy(j) => i = j

KeysRead ==
  /\ \A j \in Restores : restores[j].at = "rekeys" =>
       halfway /\ \A n \in Secrets \ restores[j].left : Readable(n)
  /\ ~halfway => \A n \in Secrets : Readable(n)

NoneBeside(i) ==
  /\ \A k \in Initialisers : Generates(k) => k = i
  /\ \A j \in Restores : ~LockedBy(j)
  /\ ~halfway => files[Password] = Absent
  /\ inits[i].at = "seals" => identity = inits[i].to

InitsAlone == \A i \in Initialisers : Generates(i) => NoneBeside(i)

KeyInv ==
  /\ OneLock
  /\ \A j \in Restores : restores[j].at = "rekeys" => halfway
  /\ raced \/ (KeysRead /\ InitsAlone)

(* Nothing is ever sealed to the identity that is none, so an identity     *)
(* that is made anew takes no file away from an old one.                   *)
LEMMA NoKeyOfNoBox ==
  ASSUME CRTypeOK, identity = 0
  PROVE  Readable(Password) => files[Password] = Absent
<1>1. Box(0) \notin Keys
  <2>1. Box(0) \in {"host", "box"} \X (0 .. MaxMachines + MaxIdentities)
    BY Bounds DEF Box
  <2> QED
    BY <2>1, ConfigRepoAssumption DEF Keys, Box
<1>2. files[Password] \in SealedFiles => files[Password].to \subseteq Keys
  BY DEF SealedFiles
<1> QED
  BY <1>1, <1>2 DEF CRTypeOK, Files, Secrets, Readable, Reader, Opens

(* A secret that was just sealed to its reader. *)
LEMMA SealedIsReadable ==
  ASSUME CRTypeOK, NEW n \in Secrets, NEW v \in 0 .. MaxValues, NEW to \in SUBSET Keys,
         files' = [files EXCEPT ![n] = Sealed(v, to)], Reader(n)' \in to
  PROVE  Readable(n)'
<1>1. files'[n] = Sealed(v, to) /\ Sealed(v, to) \in SealedFiles
  BY SealedType DEF CRTypeOK, Files
<1>2. files'[n] \notin {Absent, Torn} /\ files'[n].to = to
  BY <1>1, ConfigRepoAssumption DEF Sealed
<1> QED
  BY <1>2 DEF Readable, Opens

(* What is left alone stays readable, by a machine and an identity that    *)
(* stay.                                                                   *)
LEMMA OthersStayReadable ==
  ASSUME NEW n \in Secrets, Readable(n), files'[n] = files[n], machine' = machine,
         n = Password => identity' = identity
  PROVE  Readable(n)'
  BY DEF Readable, Reader, Opens, Host, Box

LEMMA KeyInit == CRInit => KeyInv
  BY DEF CRInit, KeyInv, OneLock, KeysRead, InitsAlone, Generates, NoInit, NoFiles, NoRestore,
         Readable, LockedBy

(* What touches neither identity, files nor locks; what touches only the   *)
(* file of one service.                                                    *)
LEMMA StaysAlone ==
  ASSUME InitsAlone, inits' = inits, halfway' = halfway,
         \A j \in Restores : LockedBy(j)' => LockedBy(j),
         files'[Password] = files[Password], identity' = identity
  PROVE  InitsAlone'
  BY DEF InitsAlone, NoneBeside, Generates

LEMMA RacedStays ==
  ASSUME [CRNext]_crVars, ~raced', ~Destroy
  PROVE  ~raced
<1>1. CASE UNCHANGED crVars
  BY <1>1 DEF crVars, generating
<1>2. CASE SetRemote \/ Push \/ Crash \/ \E n \in ServiceSecrets : SealService(n)
  BY <1>2 DEF SetRemote, Push, Crash, SealService, generating
<1>3. ASSUME NEW i \in Initialisers, InitChooses(i) \/ InitSeals(i) \/ InitFails(i)
      PROVE  ~raced
  BY <1>3 DEF InitChooses, InitSeals, InitFails
<1>4. ASSUME NEW i \in Initialisers, InitLooks(i)
      PROVE  ~raced
  <2>1. raced' = (raced \/ Locked \/ \E k \in Initialisers : Generates(k))
    BY <1>4 DEF InitLooks, Looks
  <2> QED
    BY <2>1, Zenon
<1>5. ASSUME NEW j \in Restores, Fetch(j)
      PROVE  ~raced
  <2>1. raced' = (raced \/ \E i \in Initialisers : Generates(i))
    BY <1>5 DEF Fetch
  <2> QED
    BY <2>1, Zenon
<1>6. ASSUME NEW j \in Restores,
             \/ \E k \in Operators : BeginRestore(j, k)
             \/ FetchFails(j) \/ AllRekeyed(j) \/ FinishRestore(j)
             \/ \E n \in Secrets : Rekey(j, n) \/ RekeyFails(j, n)
      PROVE  ~raced
  BY <1>6 DEF BeginRestore, FetchFails, AllRekeyed, FinishRestore, Rekey, RekeyFails, generating
<1> QED
  BY <1>1, <1>2, <1>3, <1>4, <1>5, <1>6 DEF CRNext

(* Who begins to generate a key alone has found none. *)
LEMMA KeyLooks ==
  ASSUME CRTypeOK, OneLock, KeysRead, InitsAlone, ~raced', NEW i \in Initialisers, InitLooks(i)
  PROVE  KeysRead' /\ InitsAlone'
<1>0. Password \in Secrets
  BY DEF Secrets
<1>1. ~Locked /\ ~\E k \in Initialisers : Generates(k)
  <2>1. raced' = (raced \/ Locked \/ \E k \in Initialisers : Generates(k))
    BY DEF InitLooks, Looks
  <2> QED
    BY <2>1, Zenon
<1>2. UNCHANGED <<machine, files, restores, halfway>> /\ ~HasKey
  BY DEF InitLooks, Looks, jobs
<1>3. ~halfway => files[Password] = Absent
  BY <1>0, <1>2 DEF KeysRead, Readable, Reader, HasKey
<1>4. \A n \in Secrets : Readable(n) => Readable(n)'
  <2>1. \A n \in Secrets \ {Password} : Readable(n) => Readable(n)'
    BY <1>2, OthersStayReadable
  <2>2. Readable(Password) => files[Password] = Absent
    BY <1>2 DEF Readable, Reader, HasKey
  <2>3. Readable(Password) => Readable(Password)'
    BY <1>2, <2>2 DEF Readable
  <2> QED
    BY <2>1, <2>3
<1>5. KeysRead'
  BY <1>2, <1>4 DEF KeysRead
<1>6. \A k \in Initialisers : Generates(k)' => k = i /\ inits'[k].at = "generates"
  BY <1>1 DEF InitLooks, Looks, Generates, CRTypeOK
<1>7. \A j \in Restores : ~LockedBy(j)'
  BY <1>1, <1>2 DEF Locked, LockedBy
<1> QED
  BY <1>2, <1>3, <1>5, <1>6, <1>7 DEF InitsAlone, NoneBeside

LEMMA KeyGenerates ==
  ASSUME CRTypeOK, KeysRead, InitsAlone, NEW i \in Initialisers,
         InitChooses(i) \/ InitSeals(i) \/ InitFails(i)
  PROVE  KeysRead' /\ InitsAlone'
<1>0. Password \in Secrets
  BY DEF Secrets
<1>1. NoneBeside(i) /\ UNCHANGED <<machine, restores, halfway>>
  BY DEF InitChooses, InitSeals, InitFails, Generates, InitsAlone, held, jobs
<1>a. \A j \in Restores : ~LockedBy(j) /\ ~LockedBy(j)'
  BY <1>1 DEF NoneBeside, LockedBy
<1>b. \A j \in Restores : restores'[j].at # "rekeys"
  BY <1>a DEF LockedBy
<1>2. CASE InitChooses(i)
  <2>1. /\ inits'[i].at = "seals" /\ inits'[i].to = identity' /\ files' = files
        /\ \A k \in Initialisers \ {i} : inits'[k] = inits[k]
    BY <1>2 DEF InitChooses, CRTypeOK
  <2>2. InitsAlone'
    BY <1>1, <1>a, <2>1 DEF InitsAlone, NoneBeside, Generates
  <2>3. ~halfway => \A n \in Secrets : Readable(n)'
    <3>1. ~halfway => \A n \in Secrets \ {Password} : Readable(n)'
      BY <1>1, <2>1, OthersStayReadable DEF KeysRead
    <3>2. ~halfway => Readable(Password)'
      BY <1>1, <2>1 DEF NoneBeside, Readable
    <3> QED
      BY <3>1, <3>2
  <2> QED
    BY <1>1, <1>b, <2>2, <2>3 DEF KeysRead
<1>3. CASE InitSeals(i)
  <2>1. /\ \A k \in Initialisers : ~Generates(k)'
        /\ inits[i].to = identity /\ identity' = identity /\ inits[i].to \in 1 .. MaxIdentities
    BY <1>1, <1>3, Bounds DEF InitSeals, NoInit, NoneBeside, Generates, CRTypeOK
  <2>2. values + 1 \in 0 .. MaxValues /\ LocalRecipients(inits[i].to) \in SUBSET Keys
    BY <1>3, <2>1, Bounds, RecipientsAreKeys DEF InitSeals, CRTypeOK
  <2>3. Reader(Password)' \in LocalRecipients(inits[i].to)
    BY <2>1 DEF Reader, LocalRecipients, Box
  <2>4. Readable(Password)'
    BY <1>0, <1>3, <2>2, <2>3, SealedIsReadable DEF InitSeals
  <2>5. ~halfway => \A n \in Secrets \ {Password} : Readable(n)'
    BY <1>1, <1>3, OthersStayReadable DEF KeysRead, InitSeals, CRTypeOK, Files
  <2> QED
    BY <1>1, <1>b, <2>1, <2>4, <2>5 DEF KeysRead, InitsAlone
<1>4. CASE InitFails(i)
  <2>1. UNCHANGED <<files, identity>> /\ \A k \in Initialisers : ~Generates(k)'
    BY <1>1, <1>4 DEF InitFails, held, NoInit, NoneBeside, Generates, CRTypeOK
  <2>2. \A n \in Secrets : Readable(n)' = Readable(n)
    BY <1>1, <2>1 DEF Readable, Reader, Opens, Host, Box
  <2> QED
    BY <1>1, <1>b, <2>1, <2>2 DEF KeysRead, InitsAlone
<1> QED
  BY <1>2, <1>3, <1>4

LEMMA KeySeals ==
  ASSUME CRTypeOK, KeysRead, InitsAlone,
         SetRemote \/ Push \/ \E n \in ServiceSecrets : SealService(n)
  PROVE  KeysRead' /\ InitsAlone'
<1>0. Password \in Secrets /\ Password \notin ServiceSecrets
  BY ConfigRepoAssumption DEF Secrets
<1>1. SUFFICES (\A n \in Secrets : Readable(n) => Readable(n)')
               /\ files'[Password] = files[Password] /\ identity' = identity
  <2>1. UNCHANGED <<restores, halfway, inits>>
    BY DEF SetRemote, Push, SealService, generating, jobs
  <2> QED
    BY <1>1, <2>1, StaysAlone DEF KeysRead, LockedBy
<1>3. CASE SetRemote \/ Push
  BY <1>3, OthersStayReadable DEF SetRemote, Push, Pushed, held
<1>4. ASSUME NEW n \in ServiceSecrets, SealService(n)
      PROVE  (\A m \in Secrets : Readable(m) => Readable(m)')
             /\ files'[Password] = files[Password] /\ identity' = identity
  <2>1. n \in Secrets /\ n # Password
    BY <1>0 DEF Secrets
  <2>2. Readable(n)'
    <3>1. 0 \in 0 .. MaxValues /\ Recipients \in SUBSET Keys
      BY Bounds, RecipientsAreKeys
    <3>2. Reader(n)' \in Recipients
      BY <1>4, <2>1 DEF SealService, Reader, Recipients, Host
    <3> QED
      BY <1>4, <2>1, <3>1, <3>2, SealedIsReadable DEF SealService
  <2>3. \A m \in Secrets \ {n} : Readable(m) => Readable(m)'
    BY <1>4, OthersStayReadable DEF SealService, CRTypeOK, Files
  <2>4. files'[Password] = files[Password] /\ identity' = identity
    BY <1>0, <1>4, <2>1 DEF SealService, CRTypeOK, Files
  <2> QED
    BY <2>2, <2>3, <2>4
<1> QED
  BY <1>3, <1>4

RestoreStep(j) ==
  \/ \E k \in Operators : BeginRestore(j, k)
  \/ Fetch(j) \/ FetchFails(j) \/ AllRekeyed(j) \/ FinishRestore(j)
  \/ \E n \in Secrets : Rekey(j, n) \/ RekeyFails(j, n)

(* The lock, raced or not. *)
LEMMA LockRestores ==
  ASSUME CRTypeOK, KeyInv, NEW j \in Restores, RestoreStep(j)
  PROVE  /\ OneLock'
         /\ \A i \in Restores : restores'[i].at = "rekeys" => halfway'
<1> USE DEF KeyInv, OneLock, LockedBy
<1>1. \A i \in Restores \ {j} : restores'[i] = restores[i]
  BY DEF RestoreStep, BeginRestore, Fetch, FetchFails, AllRekeyed, FinishRestore, Rekey, RekeyFails,
         EndRestore, CRTypeOK
<1>2. ASSUME NEW k \in Operators, BeginRestore(j, k)
      PROVE  restores'[j].at = "waits" /\ halfway' = halfway
  BY <1>2 DEF BeginRestore, CRTypeOK
<1>3. CASE Fetch(j)
  <2>1. restores'[j].at = "rekeys" /\ halfway' /\ \A i \in Restores : ~LockedBy(i)
    BY <1>3 DEF Fetch, Locked, CRTypeOK
  <2> QED
    BY <1>1, <2>1
<1>4. ASSUME \/ FetchFails(j) \/ FinishRestore(j) \/ \E n \in Secrets : RekeyFails(j, n)
      PROVE  restores'[j].at = "none" /\ halfway' = halfway
  BY <1>4 DEF FetchFails, FinishRestore, RekeyFails, EndRestore, NoRestore, CRTypeOK
<1>5. CASE AllRekeyed(j)
  <2>1. restores[j].at = "rekeys" /\ restores'[j].at = "builds"
    BY <1>5 DEF AllRekeyed, CRTypeOK
  <2> QED
    BY <1>1, <2>1
<1>6. ASSUME NEW n \in Secrets, Rekey(j, n)
      PROVE  restores[j].at = "rekeys" /\ restores'[j].at = "rekeys" /\ halfway' = halfway
  BY <1>6 DEF Rekey, Turn, CRTypeOK
<1> QED
  BY <1>1, <1>2, <1>3, <1>4, <1>5, <1>6 DEF RestoreStep

LEMMA KeyRestores ==
  ASSUME CRTypeOK, OneLock, KeysRead, InitsAlone, ~raced', NEW j \in Restores, RestoreStep(j)
  PROVE  KeysRead' /\ InitsAlone'
<1> USE DEF OneLock, LockedBy
<1>0. Password \in Secrets
  BY DEF Secrets
<1>1. ASSUME NEW k \in Operators, BeginRestore(j, k)
      PROVE  KeysRead' /\ InitsAlone'
  <2>1. \A n \in Secrets : Readable(n)' = Readable(n)
    BY <1>1 DEF BeginRestore, held, Readable, Reader, Opens, Host, Box
  <2>2. /\ \A i \in Restores : LockedBy(i)' => LockedBy(i) /\ restores'[i] = restores[i]
        /\ UNCHANGED <<inits, halfway, files, identity>>
    BY <1>1 DEF BeginRestore, held, generating, CRTypeOK
  <2> QED
    BY <2>1, <2>2, StaysAlone DEF KeysRead
<1>2. CASE Fetch(j)
  <2>1. /\ restores'[j] = [at |-> "rekeys", left |-> {n \in Secrets : Taken[n] # Absent}]
        /\ \A i \in Restores \ {j} : restores'[i] = restores[i]
    BY <1>2 DEF Fetch, CRTypeOK
  <2>2. \A i \in Restores \ {j} : ~LockedBy(i)'
    BY <1>2, <2>1 DEF Fetch, Locked
  <2>3. \A n \in Secrets \ restores'[j].left : Readable(n)'
    BY <1>2, <2>1 DEF Fetch, Readable
  <2>4. ~\E i \in Initialisers : Generates(i)
    <3>1. raced' = (raced \/ \E i \in Initialisers : Generates(i))
      BY <1>2 DEF Fetch
    <3> QED
      BY <3>1, Zenon
  <2>5. InitsAlone'
    BY <1>2, <2>4 DEF Fetch, InitsAlone, Generates
  <2> QED
    BY <1>2, <2>1, <2>2, <2>3, <2>5 DEF Fetch, KeysRead
<1>3. CASE FetchFails(j) \/ FinishRestore(j)
  <2>1. \A n \in Secrets : Readable(n)' = Readable(n)
    BY <1>3 DEF FetchFails, FinishRestore, Pushed, held, Readable, Reader, Opens, Host, Box
  <2>2. /\ \A i \in Restores : LockedBy(i)' => LockedBy(i) /\ restores'[i] = restores[i]
        /\ UNCHANGED <<inits, halfway, files, identity>>
    BY <1>3 DEF FetchFails, FinishRestore, EndRestore, NoRestore, held, generating, CRTypeOK
  <2> QED
    BY <2>1, <2>2, StaysAlone DEF KeysRead
<1>a. CASE AllRekeyed(j) \/ \E n \in Secrets : Rekey(j, n) \/ RekeyFails(j, n)
  (* It holds the lock, so no key is being generated. *)
  <2>1. restores[j].at = "rekeys" /\ inits' = inits
    BY <1>a DEF AllRekeyed, Rekey, RekeyFails, Turn, generating
  <2>2. \A i \in Initialisers : ~Generates(i)
    BY <2>1 DEF InitsAlone, NoneBeside
  <2>3. InitsAlone'
    BY <2>1, <2>2 DEF InitsAlone, Generates
  <2> SUFFICES KeysRead'
    BY <2>3
  <2> USE DEF KeysRead
  <2>4. CASE AllRekeyed(j)
    <3>1. \A n \in Secrets : Readable(n)
      BY <2>4 DEF AllRekeyed
    <3>2. identity = 0 => files[Password] = Absent
      BY <1>0, <3>1, NoKeyOfNoBox
    <3>3. \A n \in Secrets : Readable(n)'
      <4>1. CASE identity = 0
        BY <2>4, <3>1, <3>2, <4>1 DEF AllRekeyed, Readable, Reader, Opens, Host
      <4>2. CASE identity # 0
        BY <2>4, <3>1, <4>2, IdentityType, OthersStayReadable DEF AllRekeyed
      <4> QED
        BY <4>1, <4>2
    <3> QED
      BY <2>4, <3>3 DEF AllRekeyed, CRTypeOK
  <2>5. ASSUME NEW n \in Secrets, Rekey(j, n)
        PROVE  KeysRead'
    <3>1. halfway /\ halfway'
      BY <2>5 DEF Rekey, Turn
    <3>2. /\ restores'[j].at = "rekeys" /\ restores'[j].left = restores[j].left \ {n}
          /\ \A i \in Restores \ {j} : restores'[i] = restores[i]
      BY <2>5 DEF Rekey, Turn, CRTypeOK
    <3>3. Readable(n)'
      <4> DEFINE to == IF n = Password THEN LocalRecipients(identity') ELSE Recipients
      <4>1. files[n].value \in 0 .. MaxValues
        BY <2>5 DEF Rekey, Opens, CRTypeOK, Files, SealedFiles
      <4>2. to \in SUBSET Keys
        BY <2>5, IdentityType, RecipientsAreKeys DEF Rekey, Rekeyed
      <4>3. Reader(n)' \in to
        BY <2>5 DEF Rekey, Reader, LocalRecipients, Recipients, Box, Host
      <4>4. files' = [files EXCEPT ![n] = Sealed(files[n].value, to)]
        BY <2>5 DEF Rekey
      <4> QED
        BY <4>1, <4>2, <4>3, <4>4, SealedIsReadable
    <3>4. \A m \in Secrets \ restores[j].left : Readable(m)'
      <4> SUFFICES ASSUME NEW m \in Secrets \ restores[j].left PROVE Readable(m)'
        OBVIOUS
      <4>1. m # n /\ Readable(m) /\ files'[m] = files[m] /\ machine' = machine
        BY <2>5 DEF Rekey, Turn, CRTypeOK, Files
      <4>2. m = Password => identity' = identity
        BY <2>5, <4>1 DEF Rekey, Rekeyed
      <4> QED
        BY <4>1, <4>2, OthersStayReadable
    <3>5. \A i \in Restores : restores'[i].at = "rekeys" => i = j
      BY <2>1, <3>2
    <3> QED
      BY <3>1, <3>2, <3>3, <3>4, <3>5
  <2>6. ASSUME NEW n \in Secrets, RekeyFails(j, n)
        PROVE  KeysRead'
    <3>1. halfway /\ halfway' /\ \A i \in Restores : restores[i].at = "rekeys" => i = j
      BY <2>6 DEF RekeyFails, Turn
    <3> QED
      BY <2>6, <3>1 DEF RekeyFails, EndRestore, NoRestore, CRTypeOK
  <2> QED
    BY <1>a, <2>4, <2>5, <2>6
<1> QED
  BY <1>1, <1>2, <1>3, <1>a DEF RestoreStep

LEMMA KeyFaults ==
  ASSUME CRTypeOK, KeyInv, Crash \/ Destroy
  PROVE  KeyInv'
<1> USE DEF KeyInv, OneLock, LockedBy
<1>1. CASE Crash
  <2>1. \A j \in Restores : restores'[j].at = "none"
    BY <1>1 DEF Crash, NoRestore
  <2>2. ~halfway \/ (\A j \in Restores : restores[j].at # "rekeys") => files' = files
    BY <1>1 DEF Crash, Turn
  <2>3. ASSUME KeysRead, InitsAlone
        PROVE  KeysRead' /\ InitsAlone'
    <3>1. ~halfway => \A n \in Secrets : Readable(n)'
      BY <1>1, <2>2, <2>3, OthersStayReadable DEF Crash, KeysRead
    <3>2. (\E i \in Initialisers : Generates(i)) => files' = files
      BY <2>2, <2>3 DEF InitsAlone, NoneBeside
    <3>3. UNCHANGED <<inits, halfway, identity>>
      BY <1>1 DEF Crash, generating
    <3>4. InitsAlone'
      BY <2>1, <2>3, <3>2, <3>3 DEF InitsAlone, NoneBeside, Generates
    <3> QED
      BY <2>1, <3>1, <3>3, <3>4 DEF KeysRead
  <2> QED
    BY <1>1, <2>1, <2>3 DEF Crash, generating
<1>2. CASE Destroy
  <2>1. /\ \A j \in Restores : restores'[j].at = "none"
        /\ \A i \in Initialisers : inits'[i].at = "none"
        /\ \A n \in Secrets : files'[n] = Absent
    BY <1>2 DEF Destroy, NoRestore, NoInit, NoFiles
  <2> QED
    BY <2>1 DEF KeysRead, InitsAlone, Generates, Readable
<1> QED
  BY <1>1, <1>2

LEMMA KeyStep == CRTypeOK /\ KeyInv /\ [CRNext]_crVars => KeyInv'
<1> SUFFICES ASSUME CRTypeOK, KeyInv, [CRNext]_crVars PROVE KeyInv'
  OBVIOUS
<1>1. CASE UNCHANGED crVars
  BY <1>1 DEF crVars, held, generating, jobs, KeyInv, OneLock, KeysRead, InitsAlone, NoneBeside,
              Generates, LockedBy, Readable, Reader, Opens, Host, Box
<1>2. CASE Crash \/ Destroy
  BY <1>2, KeyFaults
<1>3. CASE ~Destroy /\ (raced' \/ ~raced)
  <2>1. ASSUME UNCHANGED <<restores, halfway>>
        PROVE  OneLock' /\ \A i \in Restores : restores'[i].at = "rekeys" => halfway'
    BY <2>1 DEF KeyInv, OneLock, LockedBy
  <2>2. ASSUME NEW i \in Initialisers,
               InitLooks(i) \/ InitChooses(i) \/ InitSeals(i) \/ InitFails(i)
        PROVE  KeyInv'
    <3>1. UNCHANGED <<restores, halfway>>
      BY <2>2 DEF InitLooks, Looks, InitChooses, InitSeals, InitFails, jobs
    <3> QED
      BY <1>3, <2>1, <2>2, <3>1, KeyLooks, KeyGenerates DEF KeyInv
  <2>3. ASSUME SetRemote \/ Push \/ \E n \in ServiceSecrets : SealService(n)
        PROVE  KeyInv'
    <3>1. UNCHANGED <<restores, halfway>>
      BY <2>3 DEF SetRemote, Push, SealService, jobs
    <3> QED
      BY <1>3, <2>1, <2>3, <3>1, KeySeals DEF KeyInv
  <2>4. ASSUME NEW j \in Restores, RestoreStep(j)
        PROVE  KeyInv'
    BY <1>3, <2>4, LockRestores, KeyRestores DEF KeyInv
  <2> QED
    BY <1>1, <1>2, <2>2, <2>3, <2>4 DEF CRNext, RestoreStep
<1> QED
  BY <1>2, <1>3, RacedStays

(* Once a restore has re-keyed what it fetched, everything opens           *)
(* unattended (ops::restore), where no generation of a backup key has run  *)
(* into it or into another one.                                            *)
THEOREM RestoresAreReadable == CRSpec => []RestoredIsReadable
<1>1. KeyInv => RestoredIsReadable
  BY DEF KeyInv, KeysRead, RestoredIsReadable, Readable, Reader
<1> QED
  BY <1>1, TypeInit, TypeStep, KeyInit, KeyStep, PTL DEF CRSpec

(* Only init_key's last step generates a key; and while it is alone there  *)
(* is none to be replaced.                                                 *)
LEMMA OnlyInitKeyGenerates ==
  [CRNext]_crVars /\ values' # values => \E i \in Initialisers : InitSeals(i)
<1>1. UNCHANGED crVars => values' = values
  BY DEF crVars, held
<1>2. SetRemote \/ Push \/ Crash \/ Destroy => values' = values
  BY DEF SetRemote, Push, Crash, Destroy, held
<1>3. /\ \A n \in ServiceSecrets : SealService(n) => values' = values
      /\ \A i \in Initialisers :
           InitLooks(i) \/ InitChooses(i) \/ InitFails(i) => values' = values
  BY DEF SealService, InitLooks, Looks, InitChooses, InitFails, held
<1>4. \A j \in Restores : RestoreStep(j) => values' = values
  BY DEF RestoreStep, BeginRestore, Fetch, FetchFails, AllRekeyed, FinishRestore, Rekey, RekeyFails,
         held
<1> QED
  BY <1>1, <1>2, <1>3, <1>4 DEF CRNext, RestoreStep

(* A backup key that exists is never replaced by a generated one, while no *)
(* restore is, or was left, half done, and no generation has run into      *)
(* another one or into a restore.                                          *)
THEOREM KeysAreKept == CRSpec => KeyIsKept
<1>1. KeyInv /\ [CRNext]_crVars => [~halfway /\ ~raced => ~Replaced]_crVars
  <2> SUFFICES ASSUME KeyInv, [CRNext]_crVars, ~halfway, ~raced, Replaced PROVE FALSE
    OBVIOUS
  <2>1. PICK i \in Initialisers : InitSeals(i)
    BY OnlyInitKeyGenerates DEF Replaced
  <2>2. files[Password] = Absent
    BY <2>1 DEF KeyInv, InitsAlone, NoneBeside, Generates, InitSeals
  <2> QED
    BY <2>2 DEF Replaced
<1> QED
  BY <1>1, TypeInit, TypeStep, KeyInit, KeyStep, PTL DEF CRSpec, KeyIsKept

-----------------------------------------------------------------------------
(***************************************************************************)
(* Types of the repository sync.                                           *)
(***************************************************************************)
Syncs == [kind : {"sync", "link"}, svc : Services, commit : Commits,
          by : {"poller", "hook", "operator", "hook pr"},
          at : {"fetch", "build", "deploy", "attach", "mark"}]

Unlinks == [at : {"save", "forget"}, svc : Services, cfg : States]

(* The parts of TypeOK that the steps under the lock and beside it set. *)
BoxOK == /\ config \in States /\ sources \in [Services -> Contents]
         /\ served \in Gens /\ older \subseteq Gens

(* The model values are none of the things they stand beside. *)
LEMMA Known ==
  /\ None \notin Services /\ None \notin Commits /\ Hand \notin Commits /\ NoTree \notin Commits
  /\ Commits \subseteq Nat /\ 1 \in Commits
  BY RepoSyncAssumption DEF Commits

(* The bounds are numbers. *)
LEMMA Bounded == MaxRequests \in Nat /\ MaxCommits \in Nat /\ Disturbances \subseteq Kinds
  BY RepoSyncAssumption

(* No operation is none of those there can be. *)
LEMMA NoJobIsNone == NoJob \notin Syncs /\ NoJob.at = "idle" /\ NoJob.kind = "none"
  BY Known DEF NoJob, Syncs

(* Neither is no unlink one. *)
LEMMA NoUnlinkIsNone == NoUnlink \notin Unlinks /\ NoUnlink.at = "idle"
  BY Known DEF NoUnlink, Unlinks

(* What is rendered from a config and trees is a generation. *)
LEMMA RenderedType ==
  ASSUME NEW cfg \in States, NEW src \in [Services -> Contents]
  PROVE  Rendered(cfg, src) \in Gens
  BY DEF Rendered, States, Gens, Contents

(* A deploy that goes through, or that is put back, leaves whole configs   *)
(* and trees, and only adds to the generations there are.                  *)
LEMMA ServesType ==
  ASSUME BoxOK, NEW cfg \in States, NEW src \in [Services -> Contents], Serves(cfg, src)
  PROVE  BoxOK' /\ served' = Rendered(cfg, src) /\ Healthy(served')
         /\ config' = cfg
         /\ older' \cup {served'} = older \cup {served} \cup {served'}
  BY RenderedType DEF Serves, BoxOK

LEMMA RevertsType ==
  ASSUME BoxOK, NEW cfg \in States, NEW src \in [Services -> Contents], Reverts(cfg, src)
  PROVE  BoxOK' /\ served' = served /\ config' = served.config
         /\ older \subseteq older'
<1>1. served.config \in States /\ served.www \in [Services -> Contents]
  BY DEF BoxOK, Gens
<1> QED
  BY <1>1, RenderedType DEF Reverts, BoxOK

(* A deploy of s changes the entry and the tree of s alone. *)
LEMMA DeployedType ==
  ASSUME BoxOK, NEW s \in Services, NEW content \in Contents
  PROVE  /\ Deployed(s) \in States /\ Deployed(s)[s] # "absent"
         /\ \A t \in Services \ {s} : Deployed(s)[t] = config[t]
         /\ Staged(s, content) \in [Services -> Contents]
         /\ Staged(s, content)[s] = content
  BY DEF BoxOK, Deployed, Staged, States
(* An operation that is at one of its places is one. *)
LEMMA SyncIsOne ==
  ASSUME TypeOK, job.at # "idle"
  PROVE  /\ job \in Syncs /\ job.svc \in Services /\ job.commit \in Commits
         /\ job.kind \in {"sync", "link"}
  BY NoJobIsNone DEF TypeOK, Syncs

(* It goes on, or ends and gives the lock back. *)
LEMMA GoesType ==
  ASSUME TypeOK, job.at # "idle",
         NEW place \in {"build", "deploy", "attach", "mark"}, Goes(place)
  PROVE  /\ job' \in Syncs /\ job'.at = place /\ job'.svc = job.svc
         /\ job'.commit = job.commit /\ job'.kind = job.kind
  BY SyncIsOne DEF Goes, Syncs

LEMMA EndsType ==
  ASSUME TypeOK, Fails \/ Succeeds
  PROVE  job' = NoJob /\ lists' \in [poller : SUBSET Services, hook : SUBSET Services]
<1>1. lists \in [poller : SUBSET Services, hook : SUBSET Services]
  BY DEF TypeOK
<1>2. lists' = lists \/ lists' = [lists EXCEPT !.hook = {}]
  BY DEF Fails, Succeeds
<1>3. job' = NoJob
  BY DEF Fails, Succeeds
<1> QED
  BY <1>1, <1>2, <1>3

(* Only what may disturb does. *)
LEMMA DisturbType ==
  ASSUME TypeOK, NEW kind, Disturb(kind)
  PROVE  disturbed' \subseteq Kinds
  BY Bounded DEF Disturb, TypeOK

(* Who gets the lock begins with a fetch. *)
LEMMA LocksType ==
  ASSUME NEW kind \in {"sync", "link"}, NEW s \in Services,
         NEW by \in {"poller", "hook", "operator", "hook pr"}, Locks(kind, s, by)
  PROVE  job' \in Syncs /\ job'.svc = s /\ job'.kind = kind /\ job'.at = "fetch"
  BY Known DEF Locks, Syncs

(* TypeOK by its parts. *)
LEMMA TypeParts ==
  TypeOK <=>
    /\ tip \in [Branches -> Commits] /\ requests \in 0 .. MaxRequests
    /\ BoxOK
    /\ marker \in [Services -> Commits \cup {None}]
    /\ job \in {NoJob} \cup Syncs
    /\ lists \in [poller : SUBSET Services, hook : SUBSET Services]
    /\ events \subseteq [kind : {"open", "close"}, svc : Previews]
    /\ unlinking \in {NoUnlink} \cup Unlinks
    /\ wish \in [Services -> {"none", "unlinked", "deleted"}]
    /\ disturbed \subseteq Kinds
  BY DEF TypeOK, BoxOK, Syncs, Unlinks

(* What is asked is counted up to its bound. *)
LEMMA AskedType == TypeOK /\ Asked => requests' \in 0 .. MaxRequests
<1> SUFFICES ASSUME TypeOK, Asked PROVE requests' \in 0 .. MaxRequests
  OBVIOUS
<1>1. requests \in 0 .. MaxRequests
  BY TypeParts
<1> QED
  BY <1>1, Bounded DEF Asked

(* TypeOK holds at first ... *)
LEMMA SyncTypeInit == Init => TypeOK
<1> SUFFICES ASSUME Init PROVE TypeOK
  OBVIOUS
<1>1. config \in States /\ sources \in [Services -> Contents]
  BY DEF Init, NoServices, States, Contents
<1>2. BoxOK
  BY <1>1, RenderedType DEF Init, BoxOK
<1> QED
  BY <1>2, TypeParts, Known, RepoSyncAssumption DEF Init
(* The operation under the lock takes a step. *)
LEMMA TypeJob == TypeOK /\ JobStep => TypeOK'
<1> SUFFICES ASSUME TypeOK, JobStep PROVE TypeOK'
  OBVIOUS
<1>t. /\ tip \in [Branches -> Commits] /\ requests \in 0 .. MaxRequests
      /\ BoxOK
      /\ marker \in [Services -> Commits \cup {None}]
      /\ job \in {NoJob} \cup Syncs
      /\ lists \in [poller : SUBSET Services, hook : SUBSET Services]
      /\ events \subseteq [kind : {"open", "close"}, svc : Previews]
      /\ unlinking \in {NoUnlink} \cup Unlinks
      /\ wish \in [Services -> {"none", "unlinked", "deleted"}]
      /\ disturbed \subseteq Kinds
  BY TypeParts
<1>j. /\ job.at # "idle" /\ job \in Syncs /\ job.svc \in Services /\ job.commit \in Commits
  <2>1. job.at # "idle"
    BY DEF JobStep, UpToDate, Pull, GitFails, Build, BuildFails, Deploy, DeployUnapplied,
           DeployFails, Attach, Mark, At
  <2> QED
    BY <2>1, SyncIsOne
<1> SUFFICES
      /\ tip' \in [Branches -> Commits] /\ requests' \in 0 .. MaxRequests
      /\ BoxOK'
      /\ marker' \in [Services -> Commits \cup {None}]
      /\ job' \in {NoJob} \cup Syncs
      /\ lists' \in [poller : SUBSET Services, hook : SUBSET Services]
      /\ events' \subseteq [kind : {"open", "close"}, svc : Previews]
      /\ unlinking' \in {NoUnlink} \cup Unlinks
      /\ wish' \in [Services -> {"none", "unlinked", "deleted"}]
      /\ disturbed' \subseteq Kinds
  BY DEF TypeOK, BoxOK, Syncs, Unlinks
<1> USE DEF repoVars, boxVars
<1>b. UNCHANGED boxVars => BoxOK'
  BY <1>t DEF BoxOK
<1>1. CASE UpToDate
  BY <1>1, <1>t, <1>b, EndsType DEF UpToDate
<1>2. CASE Pull
  <2>1. tip[Branch(job.svc)] \in Commits
    BY <1>t, <1>j DEF Branch, Branches, Services
  <2>2. job' \in Syncs
    BY <1>2, <1>j, <2>1 DEF Pull, Syncs
  <2> QED
    BY <1>2, <2>2, <1>t, <1>b DEF Pull
<1>3. CASE GitFails \/ BuildFails
  BY <1>3, <1>t, <1>b, EndsType, DisturbType DEF GitFails, BuildFails
<1>4. CASE Build
  BY <1>4, <1>t, <1>b, <1>j, GoesType DEF Build
<1>5. ASSUME Deploy \/ DeployUnapplied
      PROVE  BoxOK' /\ wish' \in [Services -> {"none", "unlinked", "deleted"}]
  <2>1. /\ Deployed(job.svc) \in States
        /\ Staged(job.svc, job.commit) \in [Services -> Contents]
    BY <1>t, <1>j, DeployedType DEF Contents
  <2>2. Serves(Deployed(job.svc), Staged(job.svc, job.commit))
    BY <1>5 DEF Deploy, DeployUnapplied, Applies
  <2>3. wish' \in {wish, [wish EXCEPT ![job.svc] = "none"]}
    BY <1>5 DEF Deploy, DeployUnapplied
  <2> QED
    BY <1>t, <2>1, <2>2, <2>3, ServesType
<1>6. CASE Deploy
  <2>1. job' \in Syncs
    BY <1>6, <1>j, GoesType DEF Deploy
  <2> QED
    BY <1>5, <1>6, <1>t, <2>1 DEF Deploy, Applies
<1>7. CASE DeployUnapplied
  BY <1>5, <1>7, <1>t, EndsType, DisturbType DEF DeployUnapplied
<1>8. CASE DeployFails
  <2>1. BoxOK'
    BY <1>8, <1>t, <1>j, DeployedType, RevertsType DEF DeployFails, Contents
  <2>2. disturbed' \subseteq Kinds
    BY <1>8, <1>t, DisturbType DEF DeployFails, Reverts
  <2> QED
    BY <1>8, <1>t, <2>1, <2>2, EndsType DEF DeployFails
<1>9. CASE Attach
  <2>1. BoxOK'
    BY <1>9, <1>t, <1>j DEF Attach, BoxOK, States
  <2> QED
    BY <1>9, <1>t, <1>j, <2>1, GoesType DEF Attach
<1>10. CASE Mark
  BY <1>10, <1>t, <1>b, <1>j, EndsType DEF Mark
<1> QED
  BY <1>1, <1>2, <1>3, <1>4, <1>6, <1>7, <1>8, <1>9, <1>10 DEF JobStep
(* The lists, the handlers, an unlink, what is asked, a push or a stop. *)
LEMMA TypeBeside ==
  TypeOK /\ (PollStep \/ HookStep \/ PrStep \/ UnlinkStep \/ Request \/ Dies
             \/ \E b \in Branches : BranchMoves(b)) => TypeOK'
<1> SUFFICES ASSUME TypeOK,
                    PollStep \/ HookStep \/ PrStep \/ UnlinkStep \/ Request \/ Dies
                      \/ \E b \in Branches : BranchMoves(b)
             PROVE  TypeOK'
  OBVIOUS
<1>t. /\ tip \in [Branches -> Commits] /\ requests \in 0 .. MaxRequests
      /\ BoxOK
      /\ marker \in [Services -> Commits \cup {None}]
      /\ job \in {NoJob} \cup Syncs
      /\ lists \in [poller : SUBSET Services, hook : SUBSET Services]
      /\ events \subseteq [kind : {"open", "close"}, svc : Previews]
      /\ unlinking \in {NoUnlink} \cup Unlinks
      /\ wish \in [Services -> {"none", "unlinked", "deleted"}]
      /\ disturbed \subseteq Kinds
  BY TypeParts
<1> DEFINE Typed == /\ tip' \in [Branches -> Commits] /\ requests' \in 0 .. MaxRequests
                    /\ BoxOK'
                    /\ marker' \in [Services -> Commits \cup {None}]
                    /\ job' \in {NoJob} \cup Syncs
                    /\ lists' \in [poller : SUBSET Services, hook : SUBSET Services]
                    /\ events' \subseteq [kind : {"open", "close"}, svc : Previews]
                    /\ unlinking' \in {NoUnlink} \cup Unlinks
                    /\ wish' \in [Services -> {"none", "unlinked", "deleted"}]
                    /\ disturbed' \subseteq Kinds
<1> SUFFICES Typed
  BY DEF TypeOK, BoxOK, Syncs, Unlinks
<1> USE DEF repoVars, boxVars
<1>b. UNCHANGED boxVars => BoxOK'
  BY <1>t DEF BoxOK
<1>a. Asked => requests' \in 0 .. MaxRequests
  BY AskedType
<1>l. Linked \subseteq Services
  BY DEF Linked
<1>p. Previews \subseteq Services /\ Sites \subseteq Services
  BY DEF Services
<1>1. ASSUME NEW by \in {"poller", "hook"}, NEW s \in Services, Takes(by, s) PROVE Typed
  <2>1. job' \in {NoJob} \cup Syncs
    BY <1>1, <1>t, LocksType DEF Takes
  <2>2. lists' \in [poller : SUBSET Services, hook : SUBSET Services]
    BY <1>1, <1>t DEF Takes
  <2> QED
    BY <1>1, <1>t, <1>b, <2>1, <2>2 DEF Takes
<1>2. CASE PollLists
  BY <1>2, <1>t, <1>b, <1>l DEF PollLists
<1>3. ASSUME NEW p \in Previews, PreviewOpens(p) PROVE Typed
  <2>1. CASE Linked \cap Sites = {}
    BY <1>3, <2>1, <1>t, <1>b DEF PreviewOpens, Handled, BoxOK
  <2>2. CASE Linked \cap Sites # {}
    <3>1. /\ config' = [config EXCEPT ![p] = IF @ = "absent" THEN "linked" ELSE @]
          /\ wish' = [wish EXCEPT ![p] = "none"]
          /\ Locks("sync", p, "hook pr") \/ job' = job
          /\ events' \subseteq events
          /\ UNCHANGED <<repoVars, sources, served, older, marker, lists, unlinking, disturbed>>
      BY <1>3, <2>2 DEF PreviewOpens, Handled
    <3>2. BoxOK'
      BY <3>1, <1>t, <1>p DEF BoxOK, States
    <3>3. job' \in {NoJob} \cup Syncs
      BY <3>1, <1>t, <1>p, LocksType
    <3> QED
      BY <3>1, <3>2, <3>3, <1>t
  <2> QED
    BY <2>1, <2>2
<1>4. ASSUME NEW s \in Services, Deletes(s)
      PROVE  /\ BoxOK' /\ marker' \in [Services -> Commits \cup {None}]
             /\ wish' \in [Services -> {"none", "unlinked", "deleted"}]
             /\ disturbed' \subseteq Kinds
             /\ UNCHANGED <<job, lists, unlinking>>
  <2> DEFINE cfg == [config EXCEPT ![s] = "absent"]
             src == [sources EXCEPT ![s] = NoTree]
  <2>1. cfg \in States /\ src \in [Services -> Contents]
    BY <1>t DEF BoxOK, States, Contents
  <2>2. /\ \/ Applies(cfg, src) /\ wish' = [wish EXCEPT ![s] = "deleted"]
           \/ Reverts(cfg, src) /\ UNCHANGED wish
        /\ marker' = [marker EXCEPT ![s] = None]
        /\ UNCHANGED <<job, lists, unlinking>>
    BY <1>4 DEF Deletes
  <2> HIDE DEF cfg, src
  <2>3. disturbed' \subseteq Kinds
    BY <2>2, <1>t, DisturbType DEF Applies, Reverts
  <2>4. BoxOK'
    BY <2>1, <2>2, <1>t, ServesType, RevertsType DEF Applies
  <2> QED
    BY <2>2, <2>3, <2>4, <1>t
<1>5. ASSUME NEW p \in Previews, PreviewCloses(p) PROVE Typed
  <2>1. CASE config[p] = "linked"
    BY <1>4, <1>5, <1>p, <1>t, <2>1 DEF PreviewCloses, Handled
  <2>2. CASE config[p] # "linked"
    BY <1>5, <1>t, <1>b, <2>2 DEF PreviewCloses, Handled
  <2> QED
    BY <2>1, <2>2
<1>6. CASE UnlinkSaves
  <2>1. unlinking \in Unlinks
    BY <1>6, <1>t, NoUnlinkIsNone DEF UnlinkSaves
  <2>2. unlinking' \in Unlinks /\ config' \in States
    BY <1>6, <2>1 DEF UnlinkSaves, Unlinks
  <2> QED
    BY <1>6, <1>t, <2>2 DEF UnlinkSaves, BoxOK
<1>7. CASE UnlinkForgets
  BY <1>7, <1>t, <1>b DEF UnlinkForgets
<1>8. ASSUME NEW s \in Sites, Link(s) PROVE Typed
  BY <1>8, <1>t, <1>a, <1>b, <1>p, LocksType DEF Link
<1>9. ASSUME NEW s \in Sites, HandDeploy(s) PROVE Typed
  <2>1. Deployed(s) \in States /\ Staged(s, Hand) \in [Services -> Contents]
    BY <1>t, <1>p, DeployedType DEF Contents
  <2>2. /\ \/ /\ Applies(Deployed(s), Staged(s, Hand))
              /\ wish' = [wish EXCEPT ![s] = IF @ = "deleted" THEN "none" ELSE @]
           \/ Reverts(Deployed(s), Staged(s, Hand)) /\ UNCHANGED wish
        /\ Asked /\ UNCHANGED <<tip, marker, job, lists, events, unlinking>>
    BY <1>9 DEF HandDeploy
  <2>3. disturbed' \subseteq Kinds
    BY <2>2, <1>t, DisturbType DEF Applies, Reverts
  <2>4. BoxOK'
    BY <2>1, <2>2, <1>t, ServesType, RevertsType DEF Applies
  <2>5. wish' \in [Services -> {"none", "unlinked", "deleted"}]
    BY <2>2, <1>t
  <2> QED
    BY <2>2, <2>3, <2>4, <2>5, <1>t, <1>a
<1>10. ASSUME NEW s \in Services, SyncNow(s) PROVE Typed
  BY <1>10, <1>t, <1>a, <1>b, LocksType DEF SyncNow
<1>11. ASSUME NEW s \in Services, Delete(s) PROVE Typed
  BY <1>11, <1>4, <1>t, <1>a DEF Delete
<1>12. ASSUME NEW s \in Services, UnlinkLoads(s) PROVE Typed
  <2>1. [config EXCEPT ![s] = "plain"] \in States
    BY <1>t DEF BoxOK, States
  <2>2. unlinking' \in Unlinks
    BY <1>12, <2>1 DEF UnlinkLoads, Unlinks
  <2>3. disturbed' \subseteq Kinds
    BY <1>12, DisturbType DEF UnlinkLoads
  <2> QED
    BY <1>12, <2>2, <2>3, <1>t, <1>a, <1>b DEF UnlinkLoads
<1>13. ASSUME NEW b \in Branches, HookLists(b) PROVE Typed
  <2>1. {s \in Linked : Branch(s) = b} \in SUBSET Services
    BY <1>l
  <2>2. lists' \in [poller : SUBSET Services, hook : SUBSET Services]
    BY <1>13, <2>1, <1>t DEF HookLists
  <2> QED
    BY <1>13, <2>2, <1>t, <1>a, <1>b DEF HookLists
<1>14. ASSUME NEW p \in Previews, NEW kind \in {"open", "close"}, PrEvent(kind, p) PROVE Typed
  BY <1>14, <1>t, <1>a, <1>b DEF PrEvent
<1>15. ASSUME NEW gen \in older, Rollback(gen) PROVE Typed
  <2>1. gen \in Gens /\ gen.config \in States /\ gen.www \in [Services -> Contents]
    BY <1>t DEF BoxOK, Gens
  <2>2. BoxOK'
    BY <1>15, <2>1, <1>t DEF Rollback, BoxOK
  <2>3. disturbed' \subseteq Kinds
    BY <1>15, DisturbType DEF Rollback
  <2> QED
    BY <1>15, <2>2, <2>3, <1>t, <1>a DEF Rollback
<1>16. CASE Dies
  <2>1. disturbed' \subseteq Kinds
    BY <1>16, DisturbType DEF Dies
  <2> QED
    BY <1>16, <2>1, <1>t, <1>b DEF Dies
<1>17. ASSUME NEW b \in Branches, BranchMoves(b) PROVE Typed
  <2>1. tip[b] + 1 \in Commits
    BY <1>17, <1>t, Bounded DEF BranchMoves, Commits
  <2>2. tip' \in [Branches -> Commits]
    BY <1>17, <2>1, <1>t DEF BranchMoves
  <2> QED
    BY <1>17, <2>2, <1>t, <1>b DEF BranchMoves
<1> QED
  BY <1>1, <1>2, <1>3, <1>5, <1>6, <1>7, <1>8, <1>9, <1>10, <1>11, <1>12, <1>13, <1>14, <1>15,
     <1>16, <1>17
  DEF PollStep, HookStep, PrStep, UnlinkStep, Request

(* ... and every step keeps it. *)
LEMMA SyncTypeStep == TypeOK /\ [Next]_vars => TypeOK'
<1>1. TypeOK /\ UNCHANGED vars => TypeOK'
  BY DEF TypeOK, vars, repoVars, boxVars
<1> QED
  BY <1>1, TypeJob, TypeBeside DEF Next
(* The types of the repository sync, for any sites, previews, commits and  *)
(* requests: in particular what a deploy puts back is a whole generation.  *)
THEOREM SyncsTyped == Spec => []TypeOK
  BY SyncTypeInit, SyncTypeStep, PTL DEF Spec

-----------------------------------------------------------------------------
(***************************************************************************)
(* A commit has been served once a healthy generation has it.  Nothing     *)
(* takes a generation away, so what a marker names was served for good,    *)
(* and what is left to show is that the operation which is about to mark   *)
(* its commit has deployed it.                                             *)
(***************************************************************************)
Has(gen, s, c) == gen.www[s] = c /\ Healthy(gen)

WasServed(s, c)    == \E gen \in older \cup {served} : Has(gen, s, c)
WillBeServed(s, c) == \E gen \in older' \cup {served'} : Has(gen, s, c)

MarkerInv ==
  /\ MarkerWasServed
  /\ job.at \in {"attach", "mark"} => WasServed(job.svc, job.commit)

(* Generations stay. *)
LEMMA GenerationsStay == [Next]_vars => older \cup {served} \subseteq older' \cup {served'}
<1> SUFFICES ASSUME [Next]_vars PROVE older \cup {served} \subseteq older' \cup {served'}
  OBVIOUS
<1> USE DEF boxVars
<1>1. CASE UNCHANGED vars
  BY <1>1 DEF vars
<1>2. CASE JobStep
  BY <1>2 DEF JobStep, UpToDate, Pull, GitFails, Build, BuildFails, Deploy, DeployUnapplied,
              DeployFails, Attach, Mark, Applies, Serves, Reverts
<1>3. CASE PollStep \/ HookStep \/ UnlinkStep \/ Dies \/ \E b \in Branches : BranchMoves(b)
  BY <1>3 DEF PollStep, HookStep, PollLists, Takes, UnlinkStep, UnlinkSaves, UnlinkForgets,
              Dies, BranchMoves
<1>4. CASE PrStep
  BY <1>4 DEF PrStep, PreviewOpens, PreviewCloses, Deletes, Applies, Serves, Reverts
<1>5. CASE Request
  BY <1>5 DEF Request, Link, HandDeploy, SyncNow, Delete, Deletes, UnlinkLoads, HookLists,
              PrEvent, Rollback, Applies, Serves, Reverts
<1> QED
  BY <1>1, <1>2, <1>3, <1>4, <1>5 DEF Next

(* Hence what was served stays so. *)
LEMMA ServedStays ==
  ASSUME [Next]_vars, NEW s, NEW c, WasServed(s, c) PROVE WillBeServed(s, c)
  BY GenerationsStay DEF WasServed, WillBeServed

(* Where the operation is about to mark, it has deployed; and every new    *)
(* marker is its.                                                          *)
LEMMA MarkerFrom ==
  ASSUME TypeOK, MarkerInv, [Next]_vars
  PROVE  /\ \A s \in Services : \/ marker'[s] \in {marker[s], None}
                                \/ WasServed(s, marker'[s])
         /\ job'.at \in {"attach", "mark"} =>
              \/ job.at \in {"attach", "mark"} /\ job'.svc = job.svc /\ job'.commit = job.commit
              \/ WillBeServed(job'.svc, job'.commit)
<1>m. marker \in [Services -> Commits \cup {None}]
  BY TypeParts
<1>1. CASE UNCHANGED vars
  BY <1>1 DEF vars
<1>2. CASE UpToDate \/ Pull \/ GitFails \/ Build \/ BuildFails
  <2>1. job'.at \in {"idle", "build", "deploy"}
    <3>1. CASE UpToDate \/ GitFails \/ BuildFails
      BY <3>1, NoJobIsNone DEF UpToDate, GitFails, BuildFails, Fails, Succeeds
    <3>2. CASE Pull \/ Build
      BY <3>2, SyncIsOne DEF Pull, Build, Goes, At, Syncs
    <3> QED
      BY <1>2, <3>1, <3>2
  <2> QED
    BY <1>2, <2>1 DEF UpToDate, Pull, GitFails, Build, BuildFails
<1>3. CASE Deploy
  <2>1. /\ job \in Syncs /\ job.svc \in Services /\ job.commit \in Commits
    BY <1>3, SyncIsOne DEF Deploy, At
  <2>2. BoxOK /\ job.commit \in Contents
    BY <2>1, TypeParts DEF Contents
  <2>3. /\ Deployed(job.svc) \in States /\ Deployed(job.svc)[job.svc] # "absent"
        /\ Staged(job.svc, job.commit) \in [Services -> Contents]
        /\ Staged(job.svc, job.commit)[job.svc] = job.commit
    BY <2>1, <2>2, DeployedType
  <2>4. served' = Rendered(Deployed(job.svc), Staged(job.svc, job.commit)) /\ Healthy(served')
    BY <1>3 DEF Deploy, Applies, Serves
  <2>5. served'.www[job.svc] = job.commit
    BY <2>1, <2>3, <2>4 DEF Rendered
  <2>6. job'.svc = job.svc /\ job'.commit = job.commit
    BY <1>3, <2>1 DEF Deploy, Goes, Syncs
  <2>7. WillBeServed(job'.svc, job'.commit)
    BY <2>4, <2>5, <2>6 DEF WillBeServed, Has
  <2> QED
    BY <1>3, <2>7 DEF Deploy
<1>4. CASE DeployUnapplied \/ DeployFails
  BY <1>4 DEF DeployUnapplied, DeployFails, Fails, NoJob
<1>5. CASE Attach
  BY <1>5, SyncIsOne DEF Attach, Goes, At, Syncs
<1>6. CASE Mark
  <2>1. WasServed(job.svc, job.commit) /\ job.svc \in Services
    BY <1>6, SyncIsOne DEF Mark, At, MarkerInv
  <2> QED
    BY <1>6, <1>m, <2>1 DEF Mark, Succeeds, NoJob
<1>7. ASSUME NEW kind, NEW s, NEW by, Locks(kind, s, by) PROVE job'.at = "fetch"
  BY <1>7 DEF Locks
<1>8. CASE PollStep \/ HookStep
  BY <1>7, <1>8 DEF PollStep, HookStep, PollLists, Takes
<1>9. CASE PrStep
  BY <1>7, <1>9, <1>m DEF PrStep, PreviewOpens, PreviewCloses, Deletes, Handled, Free, NoJob
<1>10. CASE UnlinkStep
  BY <1>10, <1>m DEF UnlinkStep, UnlinkSaves, UnlinkForgets
<1>11. CASE Request
  BY <1>7, <1>11, <1>m DEF Request, Link, HandDeploy, SyncNow, Delete, Deletes, UnlinkLoads,
                           HookLists, PrEvent, Rollback
<1>12. CASE Dies \/ \E b \in Branches : BranchMoves(b)
  BY <1>12 DEF Dies, BranchMoves, NoJob, boxVars
<1> QED
  BY <1>1, <1>2, <1>3, <1>4, <1>5, <1>6, <1>8, <1>9, <1>10, <1>11, <1>12 DEF Next, JobStep

(* MarkerInv is inductive. *)
LEMMA MarkerStep == TypeOK /\ MarkerInv /\ [Next]_vars => MarkerInv'
<1> SUFFICES ASSUME TypeOK, MarkerInv, [Next]_vars PROVE MarkerInv'
  OBVIOUS
<1>1. ASSUME NEW s \in Services, marker'[s] # None PROVE WillBeServed(s, marker'[s])
  <2>1. WasServed(s, marker'[s])
    BY <1>1, MarkerFrom DEF MarkerInv, MarkerWasServed, WasServed, Has
  <2> QED
    BY <2>1, ServedStays
<1>2. ASSUME job'.at \in {"attach", "mark"} PROVE WillBeServed(job'.svc, job'.commit)
  BY <1>2, MarkerFrom, ServedStays DEF MarkerInv
<1> QED
  BY <1>1, <1>2 DEF MarkerInv, MarkerWasServed, WasServed, WillBeServed, Has

(* A marker never runs ahead of what was served, whichever pull fails or   *)
(* crashes and whichever delete, unlink or rollback comes between.         *)
THEOREM MarkersWereServed == Spec => []MarkerWasServed
<1>1. Init => MarkerInv
  BY NoJobIsNone DEF Init, MarkerInv, MarkerWasServed
<1>2. MarkerInv => MarkerWasServed
  BY DEF MarkerInv
<1> QED
  BY SyncTypeInit, SyncTypeStep, <1>1, MarkerStep, <1>2, PTL DEF Spec
-----------------------------------------------------------------------------
(***************************************************************************)
(* A deleted service is in neither box.toml nor what is served, so a list  *)
(* from before finds it gone, and what a failed deploy puts back does not  *)
(* have it.  Only an operation that got the lock while it was linked could *)
(* deploy it, and a delete waits for the lock; a link makes it anew.       *)
(***************************************************************************)
Gone(s) == config[s] = "absent" /\ served.config[s] = "absent"

DeletedInv ==
  "unlink" \notin disturbed =>
    /\ unlinking = NoUnlink
    /\ \A s \in Services : wish[s] = "deleted" => Gone(s)
    /\ job # NoJob /\ (job.kind = "sync" \/ job.at \in {"attach", "mark"})
         => wish[job.svc] # "deleted"

(* What a deploy of s leaves of the services that were deleted before.     *)
LEMMA OthersStayGone ==
  ASSUME TypeOK, NEW s \in Services, NEW content \in Contents,
         \/ Serves(Deployed(s), Staged(s, content))
         \/ Reverts(Deployed(s), Staged(s, content))
  PROVE  /\ \A t \in Services \ {s} : Gone(t) => Gone(t)'
         /\ Reverts(Deployed(s), Staged(s, content)) /\ Gone(s) => Gone(s)'
<1>1. /\ Deployed(s) \in States /\ Staged(s, content) \in [Services -> Contents]
      /\ \A t \in Services \ {s} : Deployed(s)[t] = config[t]
      /\ BoxOK
  BY TypeParts, DeployedType
<1>2. CASE Serves(Deployed(s), Staged(s, content))
  <2>1. config' = Deployed(s) /\ served'.config = Deployed(s)
    BY <1>1, <1>2 DEF Serves, Rendered
  <2>2. \A t \in Services \ {s} : Gone(t) => Gone(t)'
    BY <1>1, <2>1 DEF Gone
  <2>3. Reverts(Deployed(s), Staged(s, content)) /\ Gone(s) => Gone(s)'
    BY <1>1, RevertsType DEF Gone
  <2> QED
    BY <2>2, <2>3
<1>3. CASE Reverts(Deployed(s), Staged(s, content))
  BY <1>1, <1>3, RevertsType DEF Gone
<1> QED
  BY <1>2, <1>3

(* DeletedInv is kept by the operation under the lock ... *)
LEMMA DeletedJob ==
  TypeOK /\ DeletedInv /\ JobStep => DeletedInv'
<1> SUFFICES ASSUME TypeOK, DeletedInv, JobStep, "unlink" \notin disturbed'
             PROVE  DeletedInv'
  BY DEF DeletedInv
<1>d. "unlink" \notin disturbed
  BY DEF JobStep, UpToDate, Pull, GitFails, Build, BuildFails, Deploy, DeployUnapplied,
         DeployFails, Attach, Mark, Applies, Reverts, Disturb
<1>i. /\ unlinking = NoUnlink
      /\ \A s \in Services : wish[s] = "deleted" => Gone(s)
      /\ job # NoJob /\ (job.kind = "sync" \/ job.at \in {"attach", "mark"})
           => wish[job.svc] # "deleted"
  BY <1>d DEF DeletedInv
<1>j. /\ job.at # "idle" /\ job \in Syncs /\ job.svc \in Services /\ job.commit \in Contents
      /\ job # NoJob /\ job.kind \in {"sync", "link"}
  <2>1. job.at # "idle"
    BY DEF JobStep, UpToDate, Pull, GitFails, Build, BuildFails, Deploy, DeployUnapplied,
           DeployFails, Attach, Mark, At
  <2> QED
    BY <2>1, SyncIsOne, NoJobIsNone DEF Contents
<1>w. wish \in [Services -> {"none", "unlinked", "deleted"}] /\ config \in States
  BY TypeParts DEF BoxOK
<1>u. unlinking' = NoUnlink
  BY <1>i DEF JobStep, UpToDate, Pull, GitFails, Build, BuildFails, Deploy, DeployUnapplied,
         DeployFails, Attach, Mark
<1> SUFFICES
      /\ \A s \in Services : wish'[s] = "deleted" => Gone(s)'
      /\ job' # NoJob /\ (job'.kind = "sync" \/ job'.at \in {"attach", "mark"})
           => wish'[job'.svc] # "deleted"
  BY <1>u DEF DeletedInv
<1> USE DEF boxVars
<1>e. Fails \/ Succeeds => job' = NoJob
  BY DEF Fails, Succeeds
<1>1. CASE UpToDate \/ GitFails \/ BuildFails \/ Mark
  BY <1>1, <1>e, <1>i DEF UpToDate, GitFails, BuildFails, Mark, Gone
<1>2. CASE Pull \/ Build
  <2>1. /\ job'.svc = job.svc /\ job'.kind = job.kind /\ job'.at \in {"build", "deploy"}
    BY <1>2, <1>j DEF Pull, Build, Goes, Syncs
  <2> QED
    BY <1>2, <2>1, <1>i, <1>j DEF Pull, Build, Gone
<1>3. CASE Deploy
  <2>1. Serves(Deployed(job.svc), Staged(job.svc, job.commit))
    BY <1>3 DEF Deploy, Applies
  <2>2. wish'[job.svc] # "deleted" /\ \A t \in Services \ {job.svc} : wish'[t] = wish[t]
    BY <1>3, <1>i, <1>j, <1>w DEF Deploy
  <2>3. job'.svc = job.svc
    BY <1>3, <1>j DEF Deploy, Goes, Syncs
  <2> QED
    BY <1>i, <1>j, <2>1, <2>2, <2>3, OthersStayGone
<1>4. CASE DeployUnapplied
  <2>1. Serves(Deployed(job.svc), Staged(job.svc, job.commit))
    BY <1>4 DEF DeployUnapplied
  <2>2. wish'[job.svc] # "deleted" /\ \A t \in Services \ {job.svc} : wish'[t] = wish[t]
    BY <1>4, <1>j, <1>w DEF DeployUnapplied
  <2> QED
    BY <1>4, <1>e, <1>i, <1>j, <2>1, <2>2, OthersStayGone DEF DeployUnapplied
<1>5. CASE DeployFails
  BY <1>5, <1>e, <1>i, <1>j, OthersStayGone DEF DeployFails
<1>6. CASE Attach
  <2>1. /\ job'.svc = job.svc /\ wish' = wish /\ served' = served
        /\ job.at = "attach"
    BY <1>6, <1>j DEF Attach, Goes, Syncs, At
  <2>2. config' = [config EXCEPT ![job.svc] = IF @ = "absent" THEN @ ELSE "linked"]
    BY <1>6 DEF Attach
  <2>3. \A s \in Services : config[s] = "absent" => config'[s] = "absent"
    BY <1>w, <1>j, <2>2 DEF States
  <2> QED
    BY <1>i, <1>j, <2>1, <2>3 DEF Gone
<1> QED
  BY <1>1, <1>2, <1>3, <1>4, <1>5, <1>6 DEF JobStep

(* ... and by everything beside it. *)
LEMMA DeletedBeside ==
  TypeOK /\ DeletedInv /\ (PollStep \/ HookStep \/ PrStep \/ UnlinkStep \/ Request \/ Dies
                           \/ \E b \in Branches : BranchMoves(b)) => DeletedInv'
<1> SUFFICES ASSUME TypeOK, DeletedInv, "unlink" \notin disturbed',
                    PollStep \/ HookStep \/ PrStep \/ UnlinkStep \/ Request \/ Dies
                      \/ \E b \in Branches : BranchMoves(b)
             PROVE  DeletedInv'
  BY DEF DeletedInv
<1>d. "unlink" \notin disturbed
  <2>1. disturbed \subseteq disturbed'
    BY DEF PollStep, HookStep, PollLists, Takes, PrStep, PreviewOpens, PreviewCloses, Deletes,
           UnlinkStep, UnlinkSaves, UnlinkForgets, Request, Link, HandDeploy, SyncNow, Delete,
           UnlinkLoads, HookLists, PrEvent, Rollback, Dies, BranchMoves, Applies, Reverts, Disturb
  <2> QED
    BY <2>1
<1>i. /\ unlinking = NoUnlink
      /\ \A s \in Services : wish[s] = "deleted" => Gone(s)
      /\ job # NoJob /\ (job.kind = "sync" \/ job.at \in {"attach", "mark"})
           => wish[job.svc] # "deleted"
  BY <1>d DEF DeletedInv
<1>w. wish \in [Services -> {"none", "unlinked", "deleted"}] /\ config \in States /\ BoxOK
  BY TypeParts DEF BoxOK
<1>p. Previews \subseteq Services /\ Sites \subseteq Services
  BY DEF Services
<1> DEFINE Kept == /\ unlinking' = NoUnlink
                   /\ \A s \in Services : wish'[s] = "deleted" => Gone(s)'
                   /\ job' # NoJob /\ (job'.kind = "sync" \/ job'.at \in {"attach", "mark"})
                        => wish'[job'.svc] # "deleted"
<1> SUFFICES Kept
  BY DEF DeletedInv
<1> USE DEF boxVars
(* A step that leaves the services, what was asked of them, and the lock.  *)
<1>n. ASSUME UNCHANGED <<boxVars, wish, job, unlinking>> PROVE Kept
  BY <1>i, <1>n DEF Gone
(* A service that is linked was not deleted. *)
<1>k. \A s \in Services : config[s] # "absent" => wish[s] # "deleted"
  BY <1>i DEF Gone
<1>l. ASSUME NEW kind, NEW s \in Services, NEW by, Locks(kind, s, by),
             kind = "sync" => wish[s] # "deleted",
             UNCHANGED <<boxVars, wish, unlinking>>
      PROVE  Kept
  BY <1>i, <1>l DEF Locks, Gone
<1>1. ASSUME NEW by, NEW s \in Services, Takes(by, s) PROVE Kept
  <2>1. CASE s \in Linked
    <3>1. Locks("sync", s, by) /\ UNCHANGED <<boxVars, wish, unlinking>>
      BY <1>1, <2>1 DEF Takes
    <3>2. wish[s] # "deleted"
      BY <1>k, <2>1 DEF Linked
    <3> QED
      BY <1>l, <3>1, <3>2
  <2>2. CASE s \notin Linked
    BY <1>1, <1>n, <2>2 DEF Takes
  <2> QED
    BY <2>1, <2>2
<1>2. CASE PollLists
  BY <1>2, <1>n DEF PollLists
<1>3. ASSUME NEW p \in Previews, PreviewOpens(p) PROVE Kept
  <2>1. CASE Linked \cap Sites = {}
    BY <1>3, <1>n, <2>1 DEF PreviewOpens
  <2>2. CASE Linked \cap Sites # {}
    <3>1. /\ config' = [config EXCEPT ![p] = IF @ = "absent" THEN "linked" ELSE @]
          /\ wish' = [wish EXCEPT ![p] = "none"]
          /\ Locks("sync", p, "hook pr") \/ job' = job
          /\ job = NoJob
          /\ UNCHANGED <<served, unlinking>>
      BY <1>3, <2>2 DEF PreviewOpens, Handled, Free
    <3>2. /\ wish'[p] = "none" /\ \A s \in Services \ {p} : wish'[s] = wish[s]
          /\ \A s \in Services \ {p} : config'[s] = config[s]
      BY <3>1, <1>w, <1>p DEF States
    <3>3. \A s \in Services : wish'[s] = "deleted" => Gone(s)'
      BY <1>i, <3>1, <3>2 DEF Gone
    <3>4. job' = NoJob \/ job'.svc = p
      <4>1. CASE Locks("sync", p, "hook pr")
        BY <4>1 DEF Locks
      <4>2. CASE job' = job
        BY <3>1, <4>2
      <4> QED
        BY <3>1, <4>1, <4>2
    <3> QED
      BY <1>i, <3>1, <3>2, <3>3, <3>4
  <2> QED
    BY <2>1, <2>2
<1>4. ASSUME NEW s \in Services, Deletes(s) PROVE Kept
  <2> DEFINE cfg == [config EXCEPT ![s] = "absent"]
             src == [sources EXCEPT ![s] = NoTree]
  <2>1. /\ cfg \in States /\ src \in [Services -> Contents] /\ cfg[s] = "absent"
        /\ \A t \in Services \ {s} : cfg[t] = config[t]
    BY <1>w DEF BoxOK, States, Contents
  <2>2. /\ \/ Applies(cfg, src) /\ wish' = [wish EXCEPT ![s] = "deleted"]
           \/ Reverts(cfg, src) /\ UNCHANGED wish
        /\ UNCHANGED <<job, unlinking>> /\ job = NoJob
    BY <1>4 DEF Deletes, Free
  <2> HIDE DEF cfg, src
  <2>3. CASE Applies(cfg, src) /\ wish' = [wish EXCEPT ![s] = "deleted"]
    <3>1. config' = cfg /\ served'.config = cfg
      BY <2>3 DEF Applies, Serves, Rendered
    <3>2. \A t \in Services \ {s} : wish'[t] = wish[t]
      BY <2>3, <1>w
    <3>3. \A t \in Services : wish'[t] = "deleted" => Gone(t)'
      BY <1>i, <2>1, <3>1, <3>2 DEF Gone
    <3> QED
      BY <1>i, <2>2, <3>3
  <2>4. CASE Reverts(cfg, src) /\ UNCHANGED wish
    <3>1. config' = served.config /\ served' = served
      BY <1>w, <2>1, <2>4, RevertsType
    <3> QED
      BY <1>i, <2>2, <2>4, <3>1 DEF Gone
  <2> QED
    BY <2>2, <2>3, <2>4
<1>5. ASSUME NEW p \in Previews, PreviewCloses(p) PROVE Kept
  BY <1>4, <1>5, <1>n, <1>p DEF PreviewCloses
<1>6. CASE UnlinkStep
  BY <1>6, <1>i, NoUnlinkIsNone DEF UnlinkStep, UnlinkSaves, UnlinkForgets
<1>7. ASSUME NEW s \in Sites, Link(s) PROVE Kept
  BY <1>7, <1>l, <1>p DEF Link
<1>8. ASSUME NEW s \in Sites, HandDeploy(s) PROVE Kept
  <2>1. /\ \/ /\ Serves(Deployed(s), Staged(s, Hand))
              /\ wish' = [wish EXCEPT ![s] = IF @ = "deleted" THEN "none" ELSE @]
           \/ Reverts(Deployed(s), Staged(s, Hand)) /\ UNCHANGED wish
        /\ UNCHANGED <<job, unlinking>> /\ job = NoJob
    BY <1>8 DEF HandDeploy, Free, Applies
  <2>2. s \in Services /\ Hand \in Contents
    BY <1>p DEF Contents
  <2>3. \A t \in Services \ {s} : wish'[t] = wish[t] /\ (Gone(t) => Gone(t)')
    BY <1>w, <2>1, <2>2, OthersStayGone
  <2>4. wish'[s] = "deleted" => Gone(s)'
    <3>1. CASE wish' = [wish EXCEPT ![s] = IF @ = "deleted" THEN "none" ELSE @]
      BY <1>w, <2>2, <3>1
    <3>2. CASE Reverts(Deployed(s), Staged(s, Hand)) /\ UNCHANGED wish
      BY <1>i, <2>2, <3>2, OthersStayGone
    <3> QED
      BY <2>1, <3>1, <3>2
  <2> QED
    BY <1>i, <2>1, <2>3, <2>4
<1>9. ASSUME NEW s \in Services, SyncNow(s) PROVE Kept
  BY <1>9, <1>k, <1>l DEF SyncNow, Linked
<1>10. ASSUME NEW s \in Services, Delete(s) PROVE Kept
  BY <1>4, <1>10 DEF Delete
<1>11. ASSUME NEW s \in Services, UnlinkLoads(s) PROVE FALSE
  BY <1>11 DEF UnlinkLoads, Disturb
<1>12. ASSUME NEW gen \in older, Rollback(gen) PROVE Kept
  BY <1>12, <1>i DEF Rollback, Free
<1>13. CASE Dies
  BY <1>13, <1>i DEF Dies, Gone
<1>14. CASE \/ \E b \in Branches : HookLists(b) \/ BranchMoves(b)
            \/ \E p \in Previews, kind \in {"open", "close"} : PrEvent(kind, p)
  BY <1>14, <1>n DEF HookLists, BranchMoves, PrEvent
<1> QED
  BY <1>1, <1>2, <1>3, <1>5, <1>6, <1>7, <1>8, <1>9, <1>10, <1>11, <1>12, <1>13, <1>14
  DEF PollStep, HookStep, PrStep, Request

(* While no unlink overlapped, a service that was deleted is not served    *)
(* again, by a poll, a webhook or another deploy's rollback.               *)
THEOREM DeletesStand == Spec => []DeletedStaysDeleted
<1>1. Init => DeletedInv
  BY DEF Init, DeletedInv
<1>2. TypeOK /\ DeletedInv /\ [Next]_vars => DeletedInv'
  <2>1. DeletedInv /\ UNCHANGED vars => DeletedInv'
    BY DEF DeletedInv, Gone, vars, boxVars
  <2> QED
    BY <2>1, DeletedJob, DeletedBeside DEF Next
<1>3. DeletedInv => DeletedStaysDeleted
  BY DEF DeletedInv, Gone, DeletedStaysDeleted
<1> QED
  BY SyncTypeInit, SyncTypeStep, <1>1, <1>2, <1>3, PTL DEF Spec

-----------------------------------------------------------------------------
(***************************************************************************)
(* The calls of a forge: what a call has read, by where it is.             *)
(***************************************************************************)
Reading  == [at : {"read", "configure", "start", "poll", "list", "mint"},
             p : Providers, entry : Entries]
Saving   == [at : {"save"}, p : Providers, file : [Providers -> Entries]]
Keeping  == [at : {"keep", "drop"}, p : Providers, code : DOMAIN codes]
Asking   == [at : {"ask", "keepslow", "connect", "drop"},
             p : Providers, code : DOMAIN codes, to : Hosts]
Fetching == [at : {"fetch"}, p : Providers, entry : Entries, url : Hosts]
Leaving  == [at : {"forget"}, p : Providers]

InFlight == Reading \cup Saving \cup Keeping \cup Asking \cup Fetching \cup Leaving

CodeStates == [host : Hosts, age : Ages, is : {"issued", "approved", "spent"}]

ShapeInv ==
  /\ forges \in [Providers -> Entries]
  /\ pending \in [Providers -> DOMAIN codes \cup {Nothing, CutOff}]
  /\ token \in [Providers -> DOMAIN codes \cup {Nothing, CutOff}]
  /\ \E k \in 0 .. MaxCodes : DOMAIN codes = 1 .. k
  /\ codes \in [DOMAIN codes -> CodeStates]
  /\ calls \in [Callers -> InFlight \cup {NoCall}]
  /\ made \in 0 .. MaxCalls
  /\ strayed \subseteq DOMAIN codes /\ led \subseteq DOMAIN codes /\ moved \in BOOLEAN
  /\ typed \in [Providers -> DOMAIN codes \cup {Nothing}]
  /\ gone \in [Providers -> BOOLEAN]

(* What is no code, and no address, is told from every one.                *)
LEMMA Distinct ==
  /\ Nothing \notin Codes /\ CutOff \notin Codes /\ Nothing # CutOff
  /\ Nothing \notin Hosts /\ Public \in Hosts
  /\ MaxCodes \in Nat /\ MaxCalls \in Nat /\ Codes \subseteq Nat
  /\ Settings \subseteq Entries /\ Older \subseteq [Providers -> Entries]
<1>1. \A n \in Nat : n # Nothing /\ n # CutOff
  BY ForgeAssumption
<1> QED
  BY <1>1, ForgeAssumption DEF Codes, Entries

(* The codes that were handed out are codes, and no code is no secret.     *)
LEMMA CodesAreCodes ==
  ASSUME ShapeInv
  PROVE  DOMAIN codes \subseteq Codes /\ Nothing \notin DOMAIN codes /\ CutOff \notin DOMAIN codes
  BY Distinct DEF ShapeInv, Codes

(* A call that is being served is in flight, and has what its place needs. *)
LEMMA CallKinds ==
  ASSUME ShapeInv, NEW c \in Callers
  PROVE  /\ calls[c] = NoCall <=> calls[c].at = "idle"
         /\ calls[c] # NoCall => calls[c] \in InFlight /\ calls[c].p \in Providers
         /\ calls[c].at \in {"read", "configure", "start", "poll", "list", "mint"} =>
              calls[c] \in Reading /\ calls[c].entry \in Entries
         /\ calls[c].at = "save" =>
              calls[c] \in Saving /\ calls[c].file \in [Providers -> Entries]
         /\ calls[c].at = "keep" => calls[c] \in Keeping
         /\ calls[c].at \in {"ask", "keepslow", "connect"} =>
              calls[c] \in Asking /\ calls[c].to \in Hosts
         /\ calls[c].at \in {"keep", "drop", "ask", "keepslow", "connect"} =>
              calls[c].code \in DOMAIN codes
         /\ calls[c].at = "fetch" => calls[c] \in Fetching /\ calls[c].entry \in Entries
  BY DEF ShapeInv, InFlight, Reading, Saving, Keeping, Asking, Fetching, Leaving, NoCall

(* A step of a caller sets that caller's call alone. *)
LEMMA PutCall ==
  ASSUME ShapeInv, NEW c \in Callers, NEW r, calls' = [calls EXCEPT ![c] = r]
  PROVE  calls'[c] = r /\ \A d \in Callers \ {c} : calls'[d] = calls[d]
  BY DEF ShapeInv

(* A caller that is given a call in flight leaves calls that are in flight.*)
LEMMA PutShape ==
  ASSUME ShapeInv, NEW c \in Callers, NEW r, calls' = [calls EXCEPT ![c] = r],
         DOMAIN codes \subseteq DOMAIN codes', r \in InFlight' \cup {NoCall}
  PROVE  calls' \in [Callers -> InFlight' \cup {NoCall}]
<1>1. InFlight \subseteq InFlight'
  BY DEF InFlight, Reading, Saving, Keeping, Asking, Fetching, Leaving
<1> QED
  BY <1>1 DEF ShapeInv

(* A call that goes on keeps what it has read. *)
LEMMA GoCall ==
  ASSUME ShapeInv, NEW c \in Callers, NEW at, GoesOn(c, at),
         \/ calls[c] \in Reading /\ at = "mint"
         \/ calls[c] \in Asking /\ at \in {"connect", "keepslow", "drop"}
  PROVE  /\ calls' = [calls EXCEPT ![c] = calls'[c]]
         /\ calls'[c].at = at /\ calls'[c].p = calls[c].p
         /\ calls[c] \in Reading =>
              calls'[c] \in Reading /\ calls'[c].entry = calls[c].entry
         /\ calls[c] \in Asking =>
              /\ calls'[c] \in Asking
              /\ calls'[c].code = calls[c].code /\ calls'[c].to = calls[c].to
<1> DEFINE r == [calls[c] EXCEPT !.at = at]
<1>1. calls' = [calls EXCEPT ![c] = r]
  BY DEF GoesOn, ShapeInv
<1>2. r.at = at /\ r.p = calls[c].p
      /\ (calls[c] \in Reading => r \in Reading /\ r.entry = calls[c].entry)
      /\ (calls[c] \in Asking => r \in Asking /\ r.code = calls[c].code /\ r.to = calls[c].to)
  <2>1. CASE calls[c] \in Reading /\ at = "mint"
    BY <2>1 DEF Reading, Asking
  <2>2. CASE calls[c] \in Asking /\ at \in {"connect", "keepslow", "drop"}
    BY <2>2 DEF Reading, Asking
  <2> QED
    BY <2>1, <2>2
<1> HIDE DEF r
<1>3. calls'[c] = r
  BY <1>1, PutCall
<1> QED
  BY <1>1, <1>2, <1>3

(* A new code is the next one, and changes none there is. *)
LEMMA NewCode ==
  ASSUME ShapeInv, Cardinality(DOMAIN codes) < MaxCodes, NEW host \in Hosts, NEW n,
         n = Cardinality(DOMAIN codes) + 1,
         codes' = [m \in 1 .. n |-> IF m = n
                     THEN [host |-> host, age |-> "fresh", is |-> "issued"] ELSE codes[m]]
  PROVE  /\ \E k \in 0 .. MaxCodes : DOMAIN codes' = 1 .. k
         /\ codes' \in [DOMAIN codes' -> CodeStates]
         /\ DOMAIN codes' = DOMAIN codes \cup {n} /\ n \notin DOMAIN codes
         /\ \A m \in DOMAIN codes : codes'[m] = codes[m]
         /\ codes'[n].host = host
<1>1. PICK k \in 0 .. MaxCodes : DOMAIN codes = 1 .. k
  BY DEF ShapeInv
<1>2. Cardinality(DOMAIN codes) = k
  <2>1. k \in Nat
    BY Distinct
  <2>2. Cardinality(1 .. k) = IF 1 > k THEN 0 ELSE k - 1 + 1
    BY <2>1, FS_Interval
  <2> QED
    BY <1>1, <2>1, <2>2
<1>3. n = k + 1 /\ n \in 1 .. MaxCodes /\ DOMAIN codes' = 1 .. n /\ 1 .. n = (1 .. k) \cup {n}
  BY <1>1, <1>2, Distinct
<1>4. \A m \in DOMAIN codes : codes'[m] = codes[m]
  BY <1>1, <1>3
<1>5. codes'[n] = [host |-> host, age |-> "fresh", is |-> "issued"]
  BY <1>1, <1>3
<1>6. codes'[n] \in CodeStates /\ codes'[n].host = host
  BY <1>5 DEF CodeStates, Ages
<1>7. codes' \in [DOMAIN codes' -> CodeStates]
  BY <1>1, <1>3, <1>4, <1>6 DEF ShapeInv
<1> QED
  BY <1>1, <1>3, <1>4, <1>6, <1>7, Distinct

(* What happens to one code leaves its forge, and the other codes. *)
LEMMA CodeChanges ==
  ASSUME ShapeInv, NEW n \in DOMAIN codes,
         \/ \E is \in {"approved", "spent"} : codes' = [codes EXCEPT ![n].is = is]
         \/ \E age \in Ages : codes' = [codes EXCEPT ![n].age = age]
  PROVE  /\ DOMAIN codes' = DOMAIN codes /\ codes' \in [DOMAIN codes -> CodeStates]
         /\ \A m \in DOMAIN codes : codes'[m].host = codes[m].host
<1>1. codes \in [DOMAIN codes -> CodeStates]
  BY DEF ShapeInv
<1>2. ASSUME NEW r \in CodeStates, r.host = codes[n].host, codes' = [codes EXCEPT ![n] = r]
      PROVE  /\ DOMAIN codes' = DOMAIN codes /\ codes' \in [DOMAIN codes -> CodeStates]
             /\ \A m \in DOMAIN codes : codes'[m].host = codes[m].host
  BY <1>1, <1>2
<1>3. ASSUME NEW is \in {"approved", "spent"}, codes' = [codes EXCEPT ![n].is = is]
      PROVE  \E r \in CodeStates : r.host = codes[n].host /\ codes' = [codes EXCEPT ![n] = r]
  <2> DEFINE r == [codes[n] EXCEPT !.is = is]
  <2>1. r \in CodeStates /\ r.host = codes[n].host
    BY <1>1 DEF CodeStates
  <2>2. codes' = [codes EXCEPT ![n] = r]
    BY <1>1, <1>3
  <2> QED
    BY <2>1, <2>2
<1>4. ASSUME NEW age \in Ages, codes' = [codes EXCEPT ![n].age = age]
      PROVE  \E r \in CodeStates : r.host = codes[n].host /\ codes' = [codes EXCEPT ![n] = r]
  <2> DEFINE r == [codes[n] EXCEPT !.age = age]
  <2>1. r \in CodeStates /\ r.host = codes[n].host
    BY <1>1 DEF CodeStates
  <2>2. codes' = [codes EXCEPT ![n] = r]
    BY <1>1, <1>4
  <2> QED
    BY <2>1, <2>2
<1> QED
  BY <1>2, <1>3, <1>4

(* Every forge is at an address.                                           *)
LEMMA AddressType ==
  ASSUME NEW p \in Providers, NEW entry \in Entries
  PROVE  Address(p, entry) \in Hosts
  BY Distinct DEF Address, Base, Entries

(* Each step of a call that is served leaves everything in shape.          *)
LEMMA ShapeServe == ASSUME ShapeInv, NEW c \in Callers, Serve(c) PROVE ShapeInv'
<1>s. /\ forges \in [Providers -> Entries]
      /\ pending \in [Providers -> DOMAIN codes \cup {Nothing, CutOff}]
      /\ token \in [Providers -> DOMAIN codes \cup {Nothing, CutOff}]
      /\ \E k \in 0 .. MaxCodes : DOMAIN codes = 1 .. k
      /\ codes \in [DOMAIN codes -> CodeStates]
      /\ calls \in [Callers -> InFlight \cup {NoCall}]
      /\ made \in 0 .. MaxCalls
      /\ strayed \subseteq DOMAIN codes /\ led \subseteq DOMAIN codes /\ moved \in BOOLEAN
      /\ typed \in [Providers -> DOMAIN codes \cup {Nothing}]
      /\ gone \in [Providers -> BOOLEAN]
  BY DEF ShapeInv
<1> USE DEF keptVars, ghosts
<1>k. DOMAIN codes \subseteq Codes /\ Nothing \notin DOMAIN codes /\ CutOff \notin DOMAIN codes
  BY CodesAreCodes
<1>i. UNCHANGED codes => InFlight' = InFlight
  BY DEF InFlight, Reading, Saving, Keeping, Asking, Fetching, Leaving
<1>e. Ends(c) /\ UNCHANGED codes => calls' \in [Callers -> InFlight' \cup {NoCall}]
  BY PutShape DEF Ends
<1>1. CASE Configure(c)
  <2> DEFINE p == calls[c].p
             file == [forges EXCEPT ![p] = Merged(@, calls[c].entry)]
             r == [at |-> "save", p |-> p, file |-> file]
  <2>1. p \in Providers /\ calls[c].entry \in Entries
    BY <1>1, CallKinds DEF Configure, Is, NoCall
  <2>2. Merged(forges[p], calls[c].entry) \in Entries
    BY <1>s, <2>1 DEF Merged, Entries
  <2>3. r \in InFlight
    BY <1>s, <2>1, <2>2 DEF InFlight, Saving
  <2>4. Ends(c) \/ calls' = [calls EXCEPT ![c] = r]
    BY <1>1 DEF Configure
  <2>5. moved' \in BOOLEAN
    BY <1>1 DEF Configure
  <2> HIDE DEF r
  <2>6. calls' \in [Callers -> InFlight' \cup {NoCall}]
    BY <1>1, <1>e, <1>i, <2>3, <2>4, PutShape DEF Configure
  <2> QED
    BY <1>1, <1>s, <2>5, <2>6 DEF Configure, ShapeInv
<1>2. CASE SaveConfig(c)
  <2> DEFINE r == Call("start", calls[c].p, calls[c].file[calls[c].p])
  <2>1. calls[c].p \in Providers /\ calls[c].file \in [Providers -> Entries]
    BY <1>2, CallKinds DEF SaveConfig, Is, NoCall
  <2>2. r \in InFlight
    BY <2>1 DEF Call, InFlight, Reading
  <2> HIDE DEF r
  <2>3. calls' \in [Callers -> InFlight' \cup {NoCall}]
    BY <1>2, <1>i, <2>2, PutShape DEF SaveConfig, r
  <2>4. forges' \in [Providers -> Entries] /\ moved' \in BOOLEAN
        /\ typed' \in [Providers -> DOMAIN codes \cup {Nothing}]
    BY <1>2, <1>s, <2>1 DEF SaveConfig
  <2> QED
    BY <1>2, <1>s, <2>3, <2>4 DEF SaveConfig, ShapeInv
<1>3. CASE Start(c)
  <2>1. calls[c] \in Reading
    BY <1>3, CallKinds DEF Start, Is
  <2>2. Ends(c) \/ GoesOn(c, "mint")
    BY <1>3 DEF Start
  <2>3. GoesOn(c, "mint") => calls' = [calls EXCEPT ![c] = calls'[c]] /\ calls'[c] \in InFlight
    BY <2>1, GoCall DEF InFlight
  <2>4. calls' \in [Callers -> InFlight' \cup {NoCall}]
    BY <1>3, <1>e, <1>i, <2>2, <2>3, PutShape DEF Start
  <2> QED
    BY <1>3, <1>s, <2>4 DEF Start, ShapeInv
<1>4. CASE Mint(c)
  <2> DEFINE n == Cardinality(DOMAIN codes) + 1
             host == Address(calls[c].p, calls[c].entry)
             r == [at |-> "keep", p |-> calls[c].p, code |-> n]
  <2>1. CASE Ends(c) /\ UNCHANGED codes
    BY <1>4, <1>e, <1>s, <2>1 DEF Mint, ShapeInv
  <2>2. CASE /\ Cardinality(DOMAIN codes) < MaxCodes
             /\ codes' = [m \in 1 .. n |-> IF m = n
                            THEN [host |-> host, age |-> "fresh", is |-> "issued"] ELSE codes[m]]
             /\ calls' = [calls EXCEPT ![c] = r]
    <3>1. calls[c].p \in Providers /\ host \in Hosts
      BY <1>4, CallKinds, AddressType DEF Mint, Is, NoCall
    <3>2. /\ \E k \in 0 .. MaxCodes : DOMAIN codes' = 1 .. k
          /\ codes' \in [DOMAIN codes' -> CodeStates]
          /\ DOMAIN codes' = DOMAIN codes \cup {n}
      BY <2>2, <3>1, NewCode
    <3> HIDE DEF n, host
    <3>3. r \in InFlight'
      BY <3>1, <3>2 DEF InFlight, Keeping
    <3> HIDE DEF r
    <3>4. calls' \in [Callers -> InFlight' \cup {NoCall}]
      BY <2>2, <3>2, <3>3, PutShape
    <3> QED
      BY <1>4, <1>s, <3>2, <3>4 DEF Mint, ShapeInv
  <2> QED
    BY <1>4, <2>1, <2>2 DEF Mint
<1>5. CASE KeepPending(c)
  <2>1. calls[c].p \in Providers /\ calls[c].code \in DOMAIN codes
    BY <1>5, CallKinds DEF KeepPending, Is, NoCall
  <2>2. typed' \in [Providers -> DOMAIN codes \cup {Nothing}]
    BY <1>5, <1>s, <2>1 DEF KeepPending
  <2> QED
    BY <1>5, <1>s, <1>e, <2>1, <2>2 DEF KeepPending, ShapeInv
<1>6. CASE Poll(c)
  <2> DEFINE p == calls[c].p
             n == pending[p]
             dropped == [at |-> "drop", p |-> p, code |-> n]
             asked == [at |-> "ask", p |-> p, code |-> n, to |-> Address(p, calls[c].entry)]
  <2>1. p \in Providers /\ Address(p, calls[c].entry) \in Hosts
    BY <1>6, CallKinds, AddressType DEF Poll, Is, NoCall
  <2>2. \/ Ends(c)
        \/ n \in DOMAIN codes /\ calls' = [calls EXCEPT ![c] = dropped]
        \/ n \in DOMAIN codes /\ calls' = [calls EXCEPT ![c] = asked]
    <3>1. n \in Codes => n \in DOMAIN codes
      BY <1>s, <2>1, Distinct
    <3> QED
      BY <1>6, <3>1 DEF Poll
  <2>3. n \in DOMAIN codes => dropped \in InFlight /\ asked \in InFlight
    BY <2>1 DEF InFlight, Keeping, Asking
  <2> HIDE DEF dropped, asked
  <2>4. calls' \in [Callers -> InFlight' \cup {NoCall}]
    BY <1>6, <1>e, <1>i, <2>2, <2>3, PutShape DEF Poll
  <2> QED
    BY <1>6, <1>s, <2>4 DEF Poll, ShapeInv
<1>7. CASE Ask(c)
  <2>1. calls[c] \in Asking /\ calls[c].code \in DOMAIN codes
    BY <1>7, CallKinds DEF Ask, Is
  <2>2. codes' \in {codes, [codes EXCEPT ![calls[c].code].is = "spent"]}
    BY <1>7 DEF Ask
  <2>3. DOMAIN codes' = DOMAIN codes /\ codes' \in [DOMAIN codes -> CodeStates]
    BY <2>1, <2>2, CodeChanges DEF ShapeInv
  <2>4. Ends(c) \/ GoesOn(c, "connect") \/ GoesOn(c, "keepslow") \/ GoesOn(c, "drop")
    BY <1>7 DEF Ask
  <2>5. Ends(c) \/ (calls' = [calls EXCEPT ![c] = calls'[c]] /\ calls'[c] \in InFlight)
    BY <2>1, <2>4, GoCall DEF InFlight
  <2>6. InFlight' = InFlight
    BY <2>3 DEF InFlight, Reading, Saving, Keeping, Asking, Fetching, Leaving
  <2>7. calls' \in [Callers -> InFlight' \cup {NoCall}]
    BY <2>3, <2>5, <2>6, PutShape DEF Ends
  <2>8. typed' \in [Providers -> DOMAIN codes \cup {Nothing}]
    BY <1>7, <1>s DEF Ask
  <2> QED
    BY <1>7, <1>s, <2>3, <2>7, <2>8 DEF Ask, ShapeInv
<1>8. CASE KeepSlower(c)
  <2>1. calls[c].code \in DOMAIN codes
    BY <1>8, CallKinds DEF KeepSlower, Is
  <2> QED
    BY <1>8, <1>s, <1>e, <2>1 DEF KeepSlower, ShapeInv
<1>9. CASE KeepToken(c)
  <2>1. calls[c] \in Asking /\ calls[c].code \in DOMAIN codes /\ GoesOn(c, "drop")
    BY <1>9, CallKinds DEF KeepToken, Is
  <2>2. calls' = [calls EXCEPT ![c] = calls'[c]] /\ calls'[c] \in InFlight
    BY <2>1, GoCall DEF InFlight
  <2>3. calls' \in [Callers -> InFlight' \cup {NoCall}]
    BY <1>9, <1>i, <2>2, PutShape DEF KeepToken
  <2>4. token' \in [Providers -> DOMAIN codes \cup {Nothing, CutOff}]
    BY <1>9, <1>s, <2>1 DEF KeepToken
  <2> QED
    BY <1>9, <1>s, <2>3, <2>4 DEF KeepToken, ShapeInv
<1>10. CASE DropPending(c) \/ ForgetToken(c)
  BY <1>10, <1>s, <1>e DEF DropPending, ForgetToken, ShapeInv
<1>12. CASE ReadConfig(c)
  <2> DEFINE r == Call("start", calls[c].p, forges[calls[c].p])
  <2>1. calls' = [calls EXCEPT ![c] = r]
    BY <1>12, <1>s DEF ReadConfig
  <2>2. r \in InFlight
    BY <1>12, <1>s, CallKinds DEF ReadConfig, Is, NoCall, Call, InFlight, Reading
  <2> HIDE DEF r
  <2>3. calls' \in [Callers -> InFlight' \cup {NoCall}]
    BY <1>12, <1>i, <2>1, <2>2, PutShape DEF ReadConfig
  <2> QED
    BY <1>12, <1>s, <2>3 DEF ReadConfig, ShapeInv
<1>11. CASE ListRepos(c) \/ FetchLinked(c)
  <2>1. calls[c].p \in Providers
    BY <1>11, CallKinds DEF ListRepos, FetchLinked, Is, NoCall
  <2>2. Exists(token[calls[c].p]) => token[calls[c].p] \in DOMAIN codes
    BY <1>s, <2>1, Distinct DEF Exists
  <2>3. strayed' \subseteq DOMAIN codes /\ led' \subseteq DOMAIN codes
    BY <1>11, <1>s, <2>2 DEF ListRepos, FetchLinked, Sends, Astray
  <2> QED
    BY <1>11, <1>s, <1>e, <2>3 DEF ListRepos, FetchLinked, ShapeInv
<1> QED
  BY <1>1, <1>2, <1>3, <1>4, <1>5, <1>6, <1>7, <1>8, <1>9, <1>10, <1>11, <1>12 DEF Serve

(* A call begins at a caller that is idle, with what it reads. *)
LEMMA BeginsWith ==
  ASSUME ShapeInv, NEW c \in Callers, NEW p \in Providers, Receive(c, p)
  PROVE  /\ calls[c] = NoCall /\ UNCHANGED <<forges, token, codes, strayed, led>>
         /\ made' \in 0 .. MaxCalls
         /\ moved' = (moved \/ \E d \in Callers : calls[d].at = "save")
         /\ \A d \in Callers \ {c} : calls'[d] = calls[d]
         /\ calls' \in [Callers -> InFlight' \cup {NoCall}]
         /\ \/ calls'[c] = NoCall
            \/ \E at \in {"poll", "list"} : calls'[c] = Call(at, p, forges[p])
            \/ \E at \in {"read", "configure"}, asked \in Settings : calls'[c] = Call(at, p, asked)
            \/ \E url \in Hosts :
                 calls'[c] = [at |-> "fetch", p |-> p, entry |-> forges[p], url |-> url]
            \/ calls'[c] = [at |-> "forget", p |-> p]
<1> USE DEF keptVars
<1>1. PICK r \in InFlight \cup {NoCall} :
        /\ Asks(c, r)
        /\ \/ r = NoCall
           \/ \E at \in {"poll", "list"} : r = Call(at, p, forges[p])
           \/ \E at \in {"read", "configure"}, asked \in Settings : r = Call(at, p, asked)
           \/ \E url \in Hosts : r = [at |-> "fetch", p |-> p, entry |-> forges[p], url |-> url]
           \/ r = [at |-> "forget", p |-> p]
  <2>1. forges[p] \in Entries
    BY DEF ShapeInv
  <2>2. \A at \in {"poll", "list"} : Call(at, p, forges[p]) \in InFlight
    BY <2>1 DEF Call, InFlight, Reading
  <2>3. \A at \in {"read", "configure"}, asked \in Settings : Call(at, p, asked) \in InFlight
    BY Distinct DEF Call, InFlight, Reading
  <2>4. \A url \in Hosts :
          [at |-> "fetch", p |-> p, entry |-> forges[p], url |-> url] \in InFlight
    BY <2>1 DEF InFlight, Fetching
  <2>5. [at |-> "forget", p |-> p] \in InFlight
    BY DEF InFlight, Leaving
  <2>6. CASE \E asked \in Settings : BeginConnect(c, p, asked)
    BY <2>2, <2>3, <2>6 DEF BeginConnect
  <2>7. CASE BeginStatus(c, p)
    BY <2>2, <2>7 DEF BeginStatus
  <2>8. CASE BeginList(c, p)
    BY <2>2, <2>8 DEF BeginList
  <2>9. CASE BeginDisconnect(c, p)
    BY <2>5, <2>9 DEF BeginDisconnect
  <2>10. CASE \E url \in Hosts : BeginFetch(c, p, url)
    BY <2>4, <2>10 DEF BeginFetch
  <2> QED
    BY <2>6, <2>7, <2>8, <2>9, <2>10 DEF Receive
<1>2. UNCHANGED <<forges, token, codes, strayed, led>>
  BY DEF Receive, BeginConnect, BeginStatus, BeginList, BeginDisconnect, BeginFetch
<1>3. /\ calls[c] = NoCall /\ made < MaxCalls /\ made' = made + 1
      /\ calls' = [calls EXCEPT ![c] = r]
      /\ moved' = (moved \/ \E d \in Callers : calls[d].at = "save")
  BY <1>1 DEF Asks, Is
<1>4. made' \in 0 .. MaxCalls
  <2>1. made \in 0 .. MaxCalls
    BY DEF ShapeInv
  <2> QED
    BY <1>3, <2>1, Distinct
<1>5. calls'[c] = r /\ \A d \in Callers \ {c} : calls'[d] = calls[d]
  BY <1>3, PutCall
<1>6. InFlight' = InFlight
  BY <1>2 DEF InFlight, Reading, Saving, Keeping, Asking, Fetching, Leaving
<1>7. calls' \in [Callers -> InFlight' \cup {NoCall}]
  BY <1>1, <1>2, <1>3, <1>6, PutShape
<1> QED
  BY <1>1, <1>2, <1>3, <1>4, <1>5, <1>7

(* So does a call that begins, whichever it is.                            *)
LEMMA ShapeReceive ==
  ASSUME ShapeInv, NEW c \in Callers, NEW p \in Providers, Receive(c, p) PROVE ShapeInv'
<1>1. /\ pending' \in [Providers -> DOMAIN codes \cup {Nothing, CutOff}]
      /\ typed' \in [Providers -> DOMAIN codes \cup {Nothing}]
      /\ gone' \in [Providers -> BOOLEAN]
  BY DEF ShapeInv, Receive, BeginConnect, BeginStatus, BeginList, BeginDisconnect, BeginFetch,
         keptVars
<1>2. moved' \in BOOLEAN
  BY BeginsWith DEF ShapeInv
<1> QED
  BY <1>1, <1>2, BeginsWith DEF ShapeInv

(* The person at the forge, and the clock. *)
LEMMA ShapeCodes ==
  ASSUME ShapeInv, NEW n \in DOMAIN codes,
         Ageing(n) \/ \E how \in {"approved", "spent"} : Answer(n, how)
  PROVE  /\ ShapeInv' /\ DOMAIN codes' = DOMAIN codes
         /\ \A m \in DOMAIN codes : codes'[m].host = codes[m].host
         /\ UNCHANGED <<keptVars, calls, made, ghosts>>
<1>1. UNCHANGED <<keptVars, calls, made, ghosts>>
  BY DEF Ageing, Answer
<1>2. \/ \E is \in {"approved", "spent"} : codes' = [codes EXCEPT ![n].is = is]
      \/ \E age \in Ages : codes' = [codes EXCEPT ![n].age = age]
  <2>1. CASE \E how \in {"approved", "spent"} : Answer(n, how)
    BY <2>1 DEF Answer
  <2>2. CASE Ageing(n)
    <3> DEFINE age == IF codes[n].age = "fresh" THEN "dying" ELSE "expired"
    <3>1. age \in Ages /\ codes' = [codes EXCEPT ![n].age = age]
      BY <2>2 DEF Ageing, Ages, ShapeInv, CodeStates
    <3> QED
      BY <3>1
  <2> QED
    BY <2>1, <2>2
<1>3. /\ DOMAIN codes' = DOMAIN codes /\ codes' \in [DOMAIN codes -> CodeStates]
      /\ \A m \in DOMAIN codes : codes'[m].host = codes[m].host
  BY <1>2, CodeChanges
<1>4. InFlight' = InFlight
  BY <1>3 DEF InFlight, Reading, Saving, Keeping, Asking, Fetching, Leaving
<1> QED
  BY <1>1, <1>3, <1>4 DEF ShapeInv, keptVars, ghosts

(* The daemon stops in the middle of its calls. *)
LEMMA ShapeCrash == ASSUME ShapeInv, Halts PROVE ShapeInv'
<1>1. /\ pending' \in [Providers -> DOMAIN codes \cup {Nothing, CutOff}]
      /\ token' \in [Providers -> DOMAIN codes \cup {Nothing, CutOff}]
  BY DEF ShapeInv, Halts, Cut
<1>2. /\ typed' \in [Providers -> DOMAIN codes \cup {Nothing}]
      /\ gone' \in [Providers -> BOOLEAN]
  BY DEF ShapeInv, Halts
<1>3. calls' \in [Callers -> InFlight' \cup {NoCall}]
  BY DEF Halts
<1> QED
  BY <1>1, <1>2, <1>3 DEF ShapeInv, Halts

(* box.toml is brought back to what it may have been. *)
LEMMA ShapeReverts == ASSUME ShapeInv, FileReverts PROVE ShapeInv'
<1>1. forges' \in [Providers -> Entries]
  BY Distinct DEF FileReverts
<1>2. made' \in 0 .. MaxCalls
  BY Distinct DEF ShapeInv, FileReverts
<1>3. typed' \in [Providers -> DOMAIN codes \cup {Nothing}]
  BY DEF ShapeInv, FileReverts
<1>4. moved' \in BOOLEAN
  BY DEF FileReverts
<1>5. UNCHANGED <<pending, token, codes, calls, strayed, led, gone>>
  BY DEF FileReverts
<1>6. InFlight' = InFlight
  BY <1>5 DEF InFlight, Reading, Saving, Keeping, Asking, Fetching, Leaving
<1> QED
  BY <1>1, <1>2, <1>3, <1>4, <1>5, <1>6 DEF ShapeInv

(* Every step leaves everything in shape, and it starts so.                *)
LEMMA ShapeStep == ShapeInv /\ [FGNext]_fgVars => ShapeInv'
<1>1. ShapeInv /\ UNCHANGED fgVars => ShapeInv'
  BY DEF ShapeInv, InFlight, Reading, Saving, Keeping, Asking, Fetching, Leaving, fgVars, keptVars,
         ghosts
<1> QED
  BY <1>1, ShapeServe, ShapeReceive, ShapeCodes, ShapeReverts, ShapeCrash DEF FGNext

LEMMA ShapeInit == FGInit => ShapeInv
<1> SUFFICES ASSUME FGInit PROVE ShapeInv
  OBVIOUS
<1>1. NoEntry \in Entries
  BY DEF NoEntry, Entries
<1>2. DOMAIN codes = {} /\ {} = 1 .. 0 /\ 0 \in 0 .. MaxCodes /\ 0 \in 0 .. MaxCalls
  BY Distinct DEF FGInit
<1>3. codes \in [DOMAIN codes -> CodeStates]
  BY <1>2 DEF FGInit
<1>4. calls \in [Callers -> InFlight \cup {NoCall}]
  BY DEF FGInit
<1> QED
  BY <1>1, <1>2, <1>3, <1>4 DEF FGInit, ShapeInv

(* Every variable has its type, and no secret or call names a code that    *)
(* was not handed out, for any forges, addresses, callers and bounds.      *)
THEOREM ForgeTyped == FGSpec => []FGTypeOK
<1>1. ShapeInv => FGTypeOK
  <2> SUFFICES ASSUME ShapeInv PROVE FGTypeOK
    OBVIOUS
  <2>1. DOMAIN codes \subseteq Codes
    BY CodesAreCodes
  <2> QED
    BY <2>1 DEF ShapeInv, FGTypeOK, Stored, CodeStates
<1> QED
  BY ShapeInit, ShapeStep, <1>1, PTL DEF FGSpec

-----------------------------------------------------------------------------
(***************************************************************************)
(* A token stays home, as long as nothing moves its forge meanwhile: what  *)
(* a call knows of its forge is how the forge still is, whoever is asked   *)
(* is where the forge is, and a configuration that is being saved is the   *)
(* only call there is, and leaves the address of a forge with a token.     *)
(***************************************************************************)
TokensAtHome ==
  \A p \in Providers : token[p] \in Codes => codes[token[p]].host = Address(p, forges[p])

CallKnows(c) ==
  /\ calls[c].at \in {"start", "poll", "list", "mint", "fetch"} =>
       calls[c].entry = forges[calls[c].p]
  /\ calls[c].at \in {"ask", "keepslow", "connect"} =>
       calls[c].to = Address(calls[c].p, forges[calls[c].p])
  /\ calls[c].at = "connect" => codes[calls[c].code].host = calls[c].to

SavesAlone(c) ==
  calls[c].at = "save" =>
    /\ \A d \in Callers \ {c} : calls[d] = NoCall
    /\ \A q \in Providers \ {calls[c].p} : calls[c].file[q] = forges[q]
    /\ token[calls[c].p] \in Codes =>
         calls[c].file[calls[c].p].base = forges[calls[c].p].base

HomeInv ==
  ~moved => /\ strayed = {} /\ TokensAtHome
            /\ \A c \in Callers : CallKnows(c) /\ SavesAlone(c)

(***************************************************************************)
(* Gone is gone: nothing is waited for, no call there is can start to      *)
(* wait, and the token is forgotten, or a call is about to forget it.      *)
(***************************************************************************)
GoneInv ==
  \A p \in Providers : gone[p] =>
    /\ pending[p] \notin Codes
    /\ \A c \in Busy(p) : calls[c].at \in {"poll", "list", "fetch", "forget"}
    /\ (\E c \in Busy(p) : calls[c].at = "forget") \/ token[p] \notin Codes

(***************************************************************************)
(* A code that a person is typing in is the one that is waited for, and    *)
(* nobody is about to replace it or to drop it: whoever writes a code back *)
(* writes this one.                                                        *)
(***************************************************************************)
Harmless(call, n) ==
  /\ call.at \in {"read", "configure", "save", "start", "poll", "ask", "keepslow", "list", "fetch",
                  "forget"}
  /\ call.at \in {"ask", "keepslow"} => call.code = n

(* Where a call in flight can be. *)
Places == {"read", "configure", "save", "start", "mint", "keep", "poll", "ask", "keepslow",
           "connect", "drop", "list", "fetch", "forget"}

TypedInv ==
  \A p \in Providers : typed[p] \in Codes /\ Live(typed[p]) =>
    /\ pending[p] = typed[p]
    /\ \A c \in Busy(p) : Harmless(calls[c], typed[p])

(* A caller that is served sets its own call, and no code moves house.     *)
LEMMA ServeMoves ==
  ASSUME ShapeInv, NEW c \in Callers, Serve(c)
  PROVE  /\ calls[c] # NoCall
         /\ calls' = [calls EXCEPT ![c] = calls'[c]]
         /\ \A d \in Callers \ {c} : calls'[d] = calls[d]
         /\ DOMAIN codes \subseteq DOMAIN codes'
         /\ \A m \in DOMAIN codes : codes'[m].host = codes[m].host
<1> USE DEF keptVars, ghosts
<1>1. calls[c].at # "idle"
  BY DEF Serve, ReadConfig, Configure, SaveConfig, Start, Mint, KeepPending, Poll, Ask,
         KeepSlower, KeepToken, DropPending, ListRepos, FetchLinked, ForgetToken, Is
<1>2. calls[c] # NoCall
  BY <1>1, CallKinds
<1>3. \E r : calls' = [calls EXCEPT ![c] = r]
  <2>1. \A at : GoesOn(c, at) => \E r : calls' = [calls EXCEPT ![c] = r]
    BY DEF GoesOn, ShapeInv
  <2>2. CASE ReadConfig(c) \/ Configure(c) \/ SaveConfig(c) \/ Mint(c) \/ Poll(c)
    BY <2>2 DEF ReadConfig, Configure, SaveConfig, Mint, Poll, Ends
  <2>3. CASE Start(c) \/ KeepToken(c)
    BY <2>1, <2>3 DEF Start, KeepToken, Ends
  <2>4. CASE Ask(c)
    <3>1. Ends(c) \/ GoesOn(c, "connect") \/ GoesOn(c, "keepslow") \/ GoesOn(c, "drop")
      BY <2>4 DEF Ask
    <3> QED
      BY <2>1, <3>1 DEF Ends
  <2>5. CASE KeepPending(c) \/ KeepSlower(c) \/ DropPending(c) \/ ListRepos(c) \/ FetchLinked(c)
             \/ ForgetToken(c)
    BY <2>5 DEF KeepPending, KeepSlower, DropPending, ListRepos, FetchLinked, ForgetToken, Ends
  <2> QED
    BY <2>2, <2>3, <2>4, <2>5 DEF Serve
<1>4. PICK r : calls' = [calls EXCEPT ![c] = r]
  BY <1>3
<1>5. calls'[c] = r /\ \A d \in Callers \ {c} : calls'[d] = calls[d]
  BY <1>4, PutCall
<1>6. /\ DOMAIN codes \subseteq DOMAIN codes'
      /\ \A m \in DOMAIN codes : codes'[m].host = codes[m].host
  <2>1. CASE Mint(c)
    <3>1. calls[c].p \in Providers /\ calls[c].entry \in Entries
      BY <2>1, CallKinds DEF Mint, Is, NoCall
    <3>2. Address(calls[c].p, calls[c].entry) \in Hosts
      BY <3>1, AddressType
    <3> DEFINE n == Cardinality(DOMAIN codes) + 1
               host == Address(calls[c].p, calls[c].entry)
    <3>3. \/ UNCHANGED codes
          \/ /\ Cardinality(DOMAIN codes) < MaxCodes
             /\ codes' = [m \in 1 .. n |-> IF m = n
                            THEN [host |-> host, age |-> "fresh", is |-> "issued"] ELSE codes[m]]
      BY <2>1 DEF Mint
    <3> QED
      BY <3>2, <3>3, NewCode
  <2>2. CASE Ask(c)
    <3>1. calls[c].code \in DOMAIN codes
      BY <2>2, CallKinds DEF Ask, Is
    <3>2. codes' \in {codes, [codes EXCEPT ![calls[c].code].is = "spent"]}
      BY <2>2 DEF Ask
    <3> QED
      BY <3>1, <3>2, CodeChanges
  <2>3. CASE ~Mint(c) /\ ~Ask(c)
    <3>1. UNCHANGED codes
      BY <2>3 DEF Serve, ReadConfig, Configure, SaveConfig, Start, KeepPending, Poll, KeepSlower,
             KeepToken, DropPending, ListRepos, FetchLinked, ForgetToken
    <3> QED
      BY <3>1
  <2> QED
    BY <2>1, <2>2, <2>3
<1> QED
  BY <1>2, <1>4, <1>5, <1>6

(* Calls that no step touches know what they knew, where nothing moved.    *)
LEMMA StillKnows ==
  ASSUME ShapeInv, NEW d \in Callers, CallKnows(d), calls'[d] = calls[d], UNCHANGED forges,
         \A m \in DOMAIN codes : codes'[m].host = codes[m].host
  PROVE  CallKnows(d)'
<1>1. calls[d].at = "connect" => calls[d].code \in DOMAIN codes
  BY CallKinds
<1> QED
  BY <1>1 DEF CallKnows

(* Where nothing moved, a token that is at home, or new from home, stays.  *)
LEMMA StillAtHome ==
  ASSUME ShapeInv, TokensAtHome, UNCHANGED forges,
         \A m \in DOMAIN codes : codes'[m].host = codes[m].host,
         \A p \in Providers : \/ token'[p] = token[p] \/ token'[p] \in {Nothing, CutOff}
                              \/ /\ token'[p] \in DOMAIN codes
                                 /\ codes[token'[p]].host = Address(p, forges[p])
  PROVE  TokensAtHome'
<1>1. \A p \in Providers : token[p] \in Codes => token[p] \in DOMAIN codes
  BY Distinct DEF ShapeInv
<1> QED
  BY <1>1, Distinct DEF TokensAtHome

(* A token that is where its forge is, and is sent there, does not stray.  *)
LEMMA SentHome ==
  ASSUME ShapeInv, NEW p \in Providers, Exists(token[p]), TokensAtHome,
         NEW hosts, hosts \subseteq {Address(p, forges[p])}, Sends(token[p], hosts)
  PROVE  strayed' = strayed
  BY DEF Exists, TokensAtHome, Sends, Astray

(* A call that is served sends no token elsewhere, nor prepares to.        *)
LEMMA HomeServe ==
  ASSUME ShapeInv, HomeInv, NEW c \in Callers, Serve(c) PROVE HomeInv'
<1> USE DEF keptVars, ghosts
<1> SUFFICES ASSUME ~moved'
             PROVE  /\ strayed' = {} /\ TokensAtHome'
                    /\ \A d \in Callers : CallKnows(d)' /\ SavesAlone(d)'
  BY DEF HomeInv
<1>m. ~moved
  BY DEF Serve, ReadConfig, Configure, SaveConfig, Start, Mint, KeepPending, Poll, Ask,
         KeepSlower, KeepToken, DropPending, ListRepos, FetchLinked, ForgetToken
<1>h. /\ strayed = {} /\ TokensAtHome
      /\ \A d \in Callers : CallKnows(d) /\ SavesAlone(d)
  BY <1>m DEF HomeInv
<1>c. /\ calls[c] # NoCall
      /\ \A d \in Callers \ {c} : calls'[d] = calls[d]
      /\ \A m \in DOMAIN codes : codes'[m].host = codes[m].host
  BY ServeMoves
<1>d. \A d \in Callers \ {c} : calls[d].at # "save" /\ SavesAlone(d)'
  BY <1>h, <1>c DEF SavesAlone
<1>e. UNCHANGED forges => \A d \in Callers \ {c} : CallKnows(d)'
  BY <1>h, <1>c, StillKnows
<1>n. calls'[c] = NoCall => CallKnows(c)' /\ SavesAlone(c)'
  BY DEF CallKnows, SavesAlone, NoCall
<1>f. Ends(c) => CallKnows(c)' /\ SavesAlone(c)'
  BY <1>n, PutCall DEF Ends
<1>p. calls[c].p \in Providers /\ (calls[c].at = "connect" => calls[c].code \in DOMAIN codes)
  BY <1>c, CallKinds
<1>t. UNCHANGED <<forges, token>> => TokensAtHome'
  BY <1>h, <1>c, StillAtHome
<1>1. CASE Configure(c)
  <2> DEFINE p == calls[c].p
             file == [forges EXCEPT ![p] = Merged(@, calls[c].entry)]
             r == [at |-> "save", p |-> p, file |-> file]
  <2>1. Alone(c) /\ UNCHANGED <<forges, token, strayed, codes>>
    BY <1>1 DEF Configure
  <2>2. CASE Ends(c)
    BY <1>e, <1>d, <1>f, <1>h, <1>t, <2>1, <2>2
  <2>3. CASE /\ ~(calls[c].entry.base # Nothing /\ Exists(token[p])
                  /\ forges[p].base # calls[c].entry.base)
             /\ calls' = [calls EXCEPT ![c] = r]
    <3>1. r.at = "save" /\ r.p = p /\ r.file = file
      OBVIOUS
    <3> HIDE DEF r
    <3>2. calls'[c].at = "save" /\ calls'[c].p = p /\ calls'[c].file = file
      BY <2>3, <3>1, PutCall
    <3>3. forges \in [Providers -> Entries]
      BY DEF ShapeInv
    <3>4. \A q \in Providers \ {p} : file[q] = forges[q]
      BY <3>3
    <3>5. file[p] = Merged(forges[p], calls[c].entry)
      BY <1>p, <3>3
    <3>6. token[p] \in Codes => file[p].base = forges[p].base
      BY <2>3, <3>5 DEF Merged, Exists
    <3>7. \A d \in Callers \ {c} : calls'[d] = NoCall
      BY <1>c, <2>1 DEF Alone
    <3> HIDE DEF file
    <3>8. SavesAlone(c)'
      BY <2>1, <3>2, <3>4, <3>6, <3>7 DEF SavesAlone
    <3>9. CallKnows(c)'
      BY <3>2 DEF CallKnows
    <3> QED
      BY <1>e, <1>d, <1>h, <1>t, <2>1, <3>8, <3>9
  <2> QED
    BY <1>1, <2>2, <2>3 DEF Configure
<1>2. CASE SaveConfig(c)
  <2> DEFINE p == calls[c].p
             file == calls[c].file
  <2>1. /\ calls[c].at = "save" /\ forges' = file /\ UNCHANGED <<token, strayed, codes>>
        /\ calls' = [calls EXCEPT ![c] = Call("start", p, file[p])]
    BY <1>2 DEF SaveConfig, Is
  <2>2. /\ \A d \in Callers \ {c} : calls[d] = NoCall
        /\ \A q \in Providers \ {p} : file[q] = forges[q]
        /\ token[p] \in Codes => file[p].base = forges[p].base
    BY <1>h, <2>1 DEF SavesAlone
  <2>3. TokensAtHome'
    BY <1>h, <2>1, <2>2 DEF TokensAtHome, Address, Base
  <2>4. calls'[c] = Call("start", p, file[p])
    BY <2>1, PutCall
  <2>5. CallKnows(c)' /\ SavesAlone(c)'
    BY <2>1, <2>4 DEF Call, CallKnows, SavesAlone
  <2>6. \A d \in Callers \ {c} : CallKnows(d)'
    BY <1>c, <2>2 DEF CallKnows, NoCall
  <2> QED
    BY <1>d, <1>h, <2>1, <2>3, <2>5, <2>6
<1>3. CASE Start(c)
  <2>1. Ends(c) \/ GoesOn(c, "mint")
    BY <1>3 DEF Start
  <2>2. calls[c].at = "start" /\ calls[c] \in Reading /\ UNCHANGED <<forges, token, strayed, codes>>
    BY <1>3, CallKinds DEF Start, Is
  <2>3. GoesOn(c, "mint") => CallKnows(c)' /\ SavesAlone(c)'
    BY <1>h, <2>2, GoCall DEF CallKnows, SavesAlone
  <2> QED
    BY <1>d, <1>e, <1>f, <1>h, <1>t, <2>1, <2>2, <2>3
<1>4. CASE Mint(c)
  <2>1. UNCHANGED <<forges, token, strayed>>
    BY <1>4 DEF Mint
  <2>2. CallKnows(c)' /\ SavesAlone(c)'
    <3>1. CASE Ends(c)
      BY <1>f, <3>1
    <3>2. CASE \E n : calls' = [calls EXCEPT ![c] = [at |-> "keep", p |-> calls[c].p, code |-> n]]
      <4>1. PICK n : calls' = [calls EXCEPT ![c] = [at |-> "keep", p |-> calls[c].p, code |-> n]]
        BY <3>2
      <4>2. calls'[c] = [at |-> "keep", p |-> calls[c].p, code |-> n]
        BY <4>1, PutCall
      <4> QED
        BY <4>2 DEF CallKnows, SavesAlone
    <3> QED
      BY <1>4, <3>1, <3>2 DEF Mint
  <2> QED
    BY <1>d, <1>e, <1>h, <1>t, <2>1, <2>2
<1>5. CASE KeepPending(c) \/ KeepSlower(c) \/ DropPending(c)
  <2>1. UNCHANGED <<forges, token, strayed>> /\ Ends(c)
    BY <1>5 DEF KeepPending, KeepSlower, DropPending
  <2> QED
    BY <1>d, <1>e, <1>f, <1>h, <1>t, <2>1
<1>6. CASE Poll(c)
  <2> DEFINE p == calls[c].p
             n == pending[p]
             dropped == [at |-> "drop", p |-> p, code |-> n]
             asked == [at |-> "ask", p |-> p, code |-> n, to |-> Address(p, calls[c].entry)]
  <2>1. calls[c].at = "poll" /\ UNCHANGED <<forges, token, strayed>>
    BY <1>6 DEF Poll, Is
  <2>2. \/ Ends(c) \/ calls' = [calls EXCEPT ![c] = dropped]
        \/ calls' = [calls EXCEPT ![c] = asked]
    BY <1>6 DEF Poll
  <2>3. CASE calls' = [calls EXCEPT ![c] = dropped]
    <3>1. dropped.at = "drop"
      OBVIOUS
    <3> HIDE DEF dropped
    <3>2. calls'[c].at = "drop"
      BY <2>3, <3>1, PutCall
    <3> QED
      BY <1>d, <1>e, <1>h, <1>t, <2>1, <3>2 DEF CallKnows, SavesAlone
  <2>4. CASE calls' = [calls EXCEPT ![c] = asked]
    <3>1. calls'[c] = asked
      BY <2>4, PutCall
    <3>2. calls'[c].at = "ask" /\ calls'[c].p = p /\ calls'[c].to = Address(p, calls[c].entry)
      BY <3>1
    <3>3. calls[c].entry = forges[p]
      BY <1>h, <2>1 DEF CallKnows
    <3> HIDE DEF asked
    <3> QED
      BY <1>d, <1>e, <1>h, <1>t, <2>1, <3>2, <3>3 DEF CallKnows, SavesAlone
  <2> QED
    BY <1>d, <1>e, <1>f, <1>h, <1>t, <2>1, <2>2, <2>3, <2>4
<1>7. CASE Ask(c)
  <2>1. calls[c].at = "ask" /\ calls[c] \in Asking /\ calls[c].code \in DOMAIN codes
        /\ UNCHANGED <<forges, token, strayed>>
    BY <1>7, CallKinds DEF Ask, Is
  <2>2. \/ Ends(c) \/ GoesOn(c, "keepslow") \/ GoesOn(c, "drop")
        \/ GoesOn(c, "connect") /\ codes[calls[c].code].host = calls[c].to
    BY <1>7 DEF Ask, Answers
  <2>3. calls[c].to = Address(calls[c].p, forges[calls[c].p])
    BY <1>h, <2>1 DEF CallKnows
  <2>4. ASSUME GoesOn(c, "keepslow") \/ GoesOn(c, "drop") PROVE CallKnows(c)' /\ SavesAlone(c)'
    BY <2>1, <2>3, <2>4, GoCall DEF CallKnows, SavesAlone
  <2>5. ASSUME GoesOn(c, "connect"), codes[calls[c].code].host = calls[c].to
        PROVE  CallKnows(c)' /\ SavesAlone(c)'
    BY <1>c, <2>1, <2>3, <2>5, GoCall DEF CallKnows, SavesAlone
  <2> QED
    BY <1>d, <1>e, <1>f, <1>h, <1>t, <2>1, <2>2, <2>4, <2>5
<1>8. CASE KeepToken(c)
  <2> DEFINE p == calls[c].p
  <2>1. /\ calls[c].at = "connect" /\ calls[c] \in Asking /\ GoesOn(c, "drop")
        /\ UNCHANGED <<forges, strayed>> /\ token' = [token EXCEPT ![p] = calls[c].code]
    BY <1>8, CallKinds DEF KeepToken, Is
  <2>2. /\ calls[c].code \in DOMAIN codes
        /\ codes[calls[c].code].host = Address(p, forges[p])
    BY <1>h, <1>p, <2>1 DEF CallKnows
  <2>3. CallKnows(c)' /\ SavesAlone(c)'
    BY <2>1, GoCall DEF CallKnows, SavesAlone
  <2>4. \A q \in Providers : \/ token'[q] = token[q]
                             \/ q = p /\ token'[q] = calls[c].code
    BY <2>1 DEF ShapeInv
  <2>5. TokensAtHome'
    BY <1>h, <1>c, <2>1, <2>2, <2>4, StillAtHome
  <2> QED
    BY <1>d, <1>e, <1>h, <2>1, <2>3, <2>5
<1>9. CASE ForgetToken(c)
  <2>1. UNCHANGED <<forges, strayed>> /\ Ends(c)
        /\ token' = [token EXCEPT ![calls[c].p] = Nothing]
    BY <1>9 DEF ForgetToken
  <2>2. \A q \in Providers : token'[q] = token[q] \/ token'[q] = Nothing
    BY <2>1 DEF ShapeInv
  <2>3. TokensAtHome'
    BY <1>h, <1>c, <2>1, <2>2, StillAtHome
  <2> QED
    BY <1>d, <1>e, <1>f, <1>h, <2>1, <2>3
<1>10. CASE ListRepos(c) \/ FetchLinked(c)
  <2> DEFINE p == calls[c].p
  <2>1. Ends(c) /\ UNCHANGED <<forges, token, codes>>
    BY <1>10 DEF ListRepos, FetchLinked
  <2>2. calls[c].entry = forges[p]
    BY <1>h, <1>10 DEF CallKnows, ListRepos, FetchLinked, Is
  <2>3. \/ UNCHANGED strayed
        \/ Exists(token[p]) /\ Sends(token[p], {Address(p, forges[p])})
        \/ Exists(token[p]) /\ Sends(token[p], GitAuth(p, forges[p], calls[c].url))
    BY <1>10, <2>2 DEF ListRepos, FetchLinked
  <2>4. GitAuth(p, forges[p], calls[c].url) \subseteq {Address(p, forges[p])}
    BY DEF GitAuth
  <2>5. strayed' = strayed
    BY <1>h, <1>p, <2>3, <2>4, SentHome
  <2> QED
    BY <1>d, <1>e, <1>f, <1>h, <1>t, <2>1, <2>5
<1>11. CASE ReadConfig(c)
  <2>1. calls' = [calls EXCEPT ![c] = Call("start", calls[c].p, forges[calls[c].p])]
        /\ UNCHANGED <<forges, token, strayed, codes>>
    BY <1>11 DEF ReadConfig, ShapeInv
  <2>2. calls'[c] = Call("start", calls[c].p, forges[calls[c].p])
    BY <2>1, PutCall
  <2>3. CallKnows(c)' /\ SavesAlone(c)'
    BY <2>1, <2>2 DEF Call, CallKnows, SavesAlone
  <2> QED
    BY <1>d, <1>e, <1>h, <1>t, <2>1, <2>3
<1> QED
  BY <1>1, <1>2, <1>3, <1>4, <1>5, <1>6, <1>7, <1>8, <1>9, <1>10, <1>11 DEF Serve

(* A call begins with what its forge is, and not while another one saves.  *)
LEMMA HomeReceive ==
  ASSUME ShapeInv, HomeInv, NEW c \in Callers, NEW p \in Providers, Receive(c, p)
  PROVE  HomeInv'
<1> SUFFICES ASSUME ~moved'
             PROVE  /\ strayed' = {} /\ TokensAtHome'
                    /\ \A d \in Callers : CallKnows(d)' /\ SavesAlone(d)'
  BY DEF HomeInv
<1>1. ~moved /\ (\A d \in Callers : calls[d].at # "save")
      /\ UNCHANGED <<forges, token, codes, strayed>>
      /\ \A d \in Callers \ {c} : calls'[d] = calls[d]
  BY BeginsWith
<1>2. strayed = {} /\ TokensAtHome /\ \A d \in Callers : CallKnows(d)
  BY <1>1 DEF HomeInv
<1>3. strayed' = {} /\ TokensAtHome'
  BY <1>1, <1>2 DEF TokensAtHome
<1>4. \A d \in Callers \ {c} : CallKnows(d)' /\ SavesAlone(d)'
  <2>1. \A d \in Callers \ {c} : CallKnows(d)'
    BY <1>1, <1>2, StillKnows
  <2> QED
    BY <1>1, <2>1 DEF SavesAlone
<1>5. CallKnows(c)' /\ SavesAlone(c)'
  <2>1. CASE calls'[c] = NoCall
    BY <2>1 DEF CallKnows, SavesAlone, NoCall
  <2>2. CASE \E at \in {"poll", "list"} : calls'[c] = Call(at, p, forges[p])
    BY <1>1, <2>2 DEF CallKnows, SavesAlone, Call
  <2>3. CASE \E at \in {"read", "configure"}, asked \in Settings : calls'[c] = Call(at, p, asked)
    BY <2>3 DEF CallKnows, SavesAlone, Call
  <2>4. CASE \E url \in Hosts :
               calls'[c] = [at |-> "fetch", p |-> p, entry |-> forges[p], url |-> url]
    BY <1>1, <2>4 DEF CallKnows, SavesAlone
  <2>5. CASE calls'[c] = [at |-> "forget", p |-> p]
    BY <2>5 DEF CallKnows, SavesAlone
  <2> QED
    BY <2>1, <2>2, <2>3, <2>4, <2>5, BeginsWith
<1> QED
  BY <1>3, <1>4, <1>5

(* What the person answers, and the time that passes, moves no code.       *)
LEMMA HomeCodes ==
  ASSUME ShapeInv, HomeInv, NEW n \in DOMAIN codes,
         Ageing(n) \/ \E how \in {"approved", "spent"} : Answer(n, how)
  PROVE  HomeInv'
<1>1. /\ \A m \in DOMAIN codes : codes'[m].host = codes[m].host
      /\ UNCHANGED <<forges, token, calls, moved, strayed>>
  BY ShapeCodes DEF keptVars, ghosts
<1> SUFFICES ASSUME ~moved
             PROVE  /\ strayed' = {} /\ TokensAtHome'
                    /\ \A d \in Callers : CallKnows(d)' /\ SavesAlone(d)'
  BY <1>1 DEF HomeInv
<1>2. strayed = {} /\ TokensAtHome /\ \A d \in Callers : CallKnows(d) /\ SavesAlone(d)
  BY DEF HomeInv
<1>3. TokensAtHome'
  BY <1>1, <1>2, StillAtHome
<1>4. \A d \in Callers : CallKnows(d)'
  BY <1>1, <1>2, StillKnows
<1>5. \A d \in Callers : SavesAlone(d)'
  BY <1>1, <1>2 DEF SavesAlone
<1> QED
  BY <1>1, <1>2, <1>3, <1>4, <1>5

(* box.toml that is brought back under no call leaves a token where it is.  *)
LEMMA HomeReverts == ASSUME ShapeInv, HomeInv, FileReverts PROVE HomeInv'
<1> SUFFICES ASSUME ~moved'
             PROVE  /\ strayed' = {} /\ TokensAtHome'
                    /\ \A d \in Callers : CallKnows(d)' /\ SavesAlone(d)'
  BY DEF HomeInv
<1>1. /\ ~moved /\ UNCHANGED <<token, codes, calls, strayed>>
      /\ \A d \in Callers : calls[d] = NoCall
      /\ \A p \in Providers : Exists(token[p]) => Address(p, forges'[p]) = Address(p, forges[p])
  BY DEF FileReverts
<1>2. strayed = {} /\ TokensAtHome
  BY <1>1 DEF HomeInv
<1>3. TokensAtHome'
  BY <1>1, <1>2 DEF TokensAtHome, Exists, Codes
<1>4. \A d \in Callers : CallKnows(d)' /\ SavesAlone(d)'
  BY <1>1 DEF CallKnows, SavesAlone, NoCall
<1> QED
  BY <1>1, <1>2, <1>3, <1>4

(* A machine that stops leaves no call, and tears a token or leaves it.    *)
LEMMA HomeCrash == ASSUME ShapeInv, HomeInv, Halts PROVE HomeInv'
<1>1. /\ UNCHANGED <<forges, codes, moved, strayed>>
      /\ \A p \in Providers : token'[p] \in {token[p], CutOff}
      /\ \A c \in Callers : calls'[c] = NoCall
  BY DEF Halts, Cut
<1>2. ~moved => TokensAtHome'
  BY <1>1, StillAtHome DEF HomeInv
<1>3. \A c \in Callers : CallKnows(c)' /\ SavesAlone(c)'
  BY <1>1 DEF CallKnows, SavesAlone, NoCall
<1> QED
  BY <1>1, <1>2, <1>3 DEF HomeInv

(* "So a stored credential is never sent to a new address": as long as no  *)
(* configure overlaps another call, and box.toml is not brought back under *)
(* a call or with another address under a token, the Box itself sends a    *)
(* token only to the address that issued it, for any forges, callers and   *)
(* earlier contents of box.toml.                                           *)
THEOREM TokensKeepHome == FGSpec => []TokenStaysHome
<1>1. FGInit => HomeInv
  BY Distinct DEF FGInit, HomeInv, TokensAtHome, CallKnows, SavesAlone, NoCall
<1>2. ShapeInv /\ HomeInv /\ [FGNext]_fgVars => HomeInv'
  <2>1. ShapeInv /\ HomeInv /\ UNCHANGED fgVars => HomeInv'
    BY DEF HomeInv, TokensAtHome, CallKnows, SavesAlone, fgVars, keptVars, ghosts
  <2> QED
    BY <2>1, HomeServe, HomeReceive, HomeCodes, HomeReverts, HomeCrash DEF FGNext
<1>3. HomeInv => TokenStaysHome
  BY DEF HomeInv, TokenStaysHome
<1> QED
  BY <1>1, <1>2, <1>3, ShapeInit, ShapeStep, PTL DEF FGSpec

-----------------------------------------------------------------------------
(* What is served for one forge leaves the secrets and calls of the others.*)
LEMMA ServeApart ==
  ASSUME ShapeInv, NEW c \in Callers, Serve(c), NEW p \in Providers \ {calls[c].p}
  PROVE  /\ pending'[p] = pending[p] /\ token'[p] = token[p]
         /\ Busy(p)' = Busy(p) /\ \A d \in Busy(p) : calls'[d] = calls[d]
<1> USE DEF keptVars, ghosts
<1>1. pending'[p] = pending[p] /\ token'[p] = token[p]
  BY DEF ShapeInv, Serve, ReadConfig, Configure, SaveConfig, Start, Mint, KeepPending, Poll, Ask,
         KeepSlower, KeepToken, DropPending, ListRepos, FetchLinked, ForgetToken
<1>2. calls'[c] = NoCall \/ calls'[c].p = calls[c].p
  <2>1. Ends(c) => calls'[c] = NoCall
    BY PutCall DEF Ends
  <2>2. CASE Configure(c)
    <3>1. Ends(c) \/ \E file : calls' = [calls EXCEPT ![c] =
                       [at |-> "save", p |-> calls[c].p, file |-> file]]
      BY <2>2 DEF Configure
    <3> QED
      BY <2>1, <3>1, PutCall
  <2>3. CASE SaveConfig(c)
    BY <2>3, PutCall DEF SaveConfig, Call
  <2>4. CASE Start(c)
    BY <2>1, <2>4, GoCall, CallKinds DEF Start, Is
  <2>5. CASE Mint(c)
    <3>1. Ends(c) \/ \E n : calls' = [calls EXCEPT ![c] =
                       [at |-> "keep", p |-> calls[c].p, code |-> n]]
      BY <2>5 DEF Mint
    <3> QED
      BY <2>1, <3>1, PutCall
  <2>6. CASE Poll(c)
    <3>1. \/ Ends(c)
          \/ \E n : calls' = [calls EXCEPT ![c] = [at |-> "drop", p |-> calls[c].p, code |-> n]]
          \/ \E n, to : calls' = [calls EXCEPT ![c] =
                          [at |-> "ask", p |-> calls[c].p, code |-> n, to |-> to]]
      BY <2>6 DEF Poll
    <3> QED
      BY <2>1, <3>1, PutCall
  <2>7. CASE Ask(c)
    <3>1. Ends(c) \/ GoesOn(c, "connect") \/ GoesOn(c, "keepslow") \/ GoesOn(c, "drop")
      BY <2>7 DEF Ask
    <3>2. calls[c] \in Asking
      BY <2>7, CallKinds DEF Ask, Is
    <3> QED
      BY <2>1, <3>1, <3>2, GoCall
  <2>8. CASE KeepToken(c)
    BY <2>8, GoCall, CallKinds DEF KeepToken, Is
  <2>10. CASE ReadConfig(c)
    <3>1. calls' = [calls EXCEPT ![c] = Call("start", calls[c].p, forges[calls[c].p])]
      BY <2>10 DEF ReadConfig, ShapeInv
    <3> QED
      BY <3>1, PutCall DEF Call
  <2>9. CASE KeepPending(c) \/ KeepSlower(c) \/ DropPending(c) \/ ListRepos(c) \/ FetchLinked(c)
             \/ ForgetToken(c)
    BY <2>1, <2>9 DEF KeepPending, KeepSlower, DropPending, ListRepos, FetchLinked, ForgetToken
  <2> QED
    BY <2>2, <2>3, <2>4, <2>5, <2>6, <2>7, <2>8, <2>9, <2>10 DEF Serve
<1>3. \A d \in Callers \ {c} : calls'[d] = calls[d]
  BY ServeMoves
<1> QED
  BY <1>1, <1>2, <1>3 DEF Busy

(* A call that ends is no longer one of its forge.                         *)
LEMMA EndsBusy ==
  ASSUME ShapeInv, NEW c \in Callers, Ends(c), NEW p
  PROVE  Busy(p)' = Busy(p) \ {c} /\ \A d \in Busy(p) \ {c} : calls'[d] = calls[d]
<1>1. calls'[c] = NoCall /\ \A d \in Callers \ {c} : calls'[d] = calls[d]
  BY PutCall DEF Ends
<1> QED
  BY <1>1 DEF Busy

(* What is served for a forge that is gone waits for nothing and keeps no  *)
(* token.                                                                  *)
LEMMA GoneServe ==
  ASSUME ShapeInv, GoneInv, NEW c \in Callers, Serve(c) PROVE GoneInv'
<1> USE DEF keptVars, ghosts
<1> SUFFICES ASSUME NEW p \in Providers, gone'[p]
             PROVE  /\ pending'[p] \notin Codes
                    /\ \A d \in Busy(p)' : calls'[d].at \in {"poll", "list", "fetch", "forget"}
                    /\ (\E d \in Busy(p)' : calls'[d].at = "forget") \/ token'[p] \notin Codes
  BY DEF GoneInv, Codes
<1>1. gone[p]
  BY DEF Serve, ReadConfig, Configure, SaveConfig, Start, Mint, KeepPending, Poll, Ask,
         KeepSlower, KeepToken, DropPending, ListRepos, FetchLinked, ForgetToken
<1>2. /\ pending[p] \notin Codes
      /\ \A d \in Busy(p) : calls[d].at \in {"poll", "list", "fetch", "forget"}
      /\ (\E d \in Busy(p) : calls[d].at = "forget") \/ token[p] \notin Codes
  BY <1>1 DEF GoneInv
<1>3. CASE p # calls[c].p
  BY <1>2, <1>3, ServeApart
<1>4. CASE p = calls[c].p
  <2>1. c \in Busy(p) /\ calls[c].at \in {"poll", "list", "fetch", "forget"}
    BY <1>2, <1>4, ServeMoves DEF Busy
  <2>2. Ends(c) /\ UNCHANGED pending
    BY <1>2, <1>4, <2>1 DEF Serve, ReadConfig, Configure, SaveConfig, Start, Mint, KeepPending,
       Poll, Ask, KeepSlower, KeepToken, DropPending, ListRepos, FetchLinked, ForgetToken, Is
  <2>3. Busy(p)' = Busy(p) \ {c} /\ \A d \in Busy(p) \ {c} : calls'[d] = calls[d]
    BY <2>2, EndsBusy
  <2>4. CASE calls[c].at = "forget"
    <3>1. token' = [token EXCEPT ![p] = Nothing]
      BY <1>4, <2>4 DEF Serve, ReadConfig, Configure, SaveConfig, Start, Mint, KeepPending, Poll,
         Ask, KeepSlower, KeepToken, DropPending, ListRepos, FetchLinked, ForgetToken, Is
    <3>2. token'[p] \notin Codes
      BY <3>1, Distinct DEF ShapeInv
    <3> QED
      BY <1>2, <2>2, <2>3, <3>2
  <2>5. CASE calls[c].at # "forget"
    <3>1. UNCHANGED token
      BY <2>1, <2>5 DEF Serve, ReadConfig, Configure, SaveConfig, Start, Mint, KeepPending, Poll,
         Ask, KeepSlower, KeepToken, DropPending, ListRepos, FetchLinked, ForgetToken, Is
    <3> QED
      BY <1>2, <2>2, <2>3, <2>5, <3>1
  <2> QED
    BY <2>4, <2>5
<1> QED
  BY <1>3, <1>4

(* Whatever begins, only a start makes a forge one that is not gone.       *)
LEMMA GoneReceive ==
  ASSUME ShapeInv, GoneInv, NEW c \in Callers, NEW q \in Providers, Receive(c, q)
  PROVE  GoneInv'
<1> USE DEF keptVars, ghosts
<1> SUFFICES ASSUME NEW p \in Providers, gone'[p]
             PROVE  /\ pending'[p] \notin Codes
                    /\ \A d \in Busy(p)' : calls'[d].at \in {"poll", "list", "fetch", "forget"}
                    /\ (\E d \in Busy(p)' : calls'[d].at = "forget") \/ token'[p] \notin Codes
  BY DEF GoneInv, Codes
<1>1. /\ calls[c] = NoCall /\ UNCHANGED token
      /\ \A d \in Callers \ {c} : calls'[d] = calls[d]
  BY BeginsWith
<1>2. \A r : Asks(c, r) => calls'[c] = r
  BY PutCall DEF Asks
<1>3. \A x : Busy(x) \subseteq Callers \ {c}
  BY <1>1 DEF Busy
<1>4. p # q => Busy(p)' = Busy(p) /\ pending'[p] = pending[p] /\ gone[p]
  <2> SUFFICES ASSUME p # q PROVE Busy(p)' = Busy(p) /\ pending'[p] = pending[p] /\ gone[p]
    OBVIOUS
  <2>1. calls'[c] = NoCall \/ calls'[c].p = q
    <3>1. \A at, entry : Call(at, q, entry).p = q
      BY DEF Call
    <3>2. \A url : [at |-> "fetch", p |-> q, entry |-> forges[q], url |-> url].p = q
      OBVIOUS
    <3>3. CASE \E at \in {"poll", "list"} : calls'[c] = Call(at, q, forges[q])
      BY <3>1, <3>3
    <3>4. CASE \E at \in {"read", "configure"}, asked \in Settings : calls'[c] = Call(at, q, asked)
      BY <3>1, <3>4
    <3>5. CASE \E url \in Hosts :
                 calls'[c] = [at |-> "fetch", p |-> q, entry |-> forges[q], url |-> url]
      BY <3>2, <3>5
    <3>6. CASE calls'[c] = [at |-> "forget", p |-> q]
      BY <3>6
    <3> QED
      BY <3>3, <3>4, <3>5, <3>6, BeginsWith
  <2>2. Busy(p)' = Busy(p)
    BY <1>1, <2>1 DEF Busy
  <2>3. pending'[p] = pending[p] /\ gone'[p] = gone[p]
    BY DEF ShapeInv, Receive, BeginConnect, BeginStatus, BeginList, BeginDisconnect, BeginFetch
  <2> QED
    BY <2>2, <2>3
<1>5. CASE p # q
  BY <1>1, <1>3, <1>4, <1>5 DEF GoneInv
<1>6. CASE p = q
  <2>1. CASE BeginDisconnect(c, q)
    <3>1. Busy(p) = {} /\ pending'[p] = Nothing /\ calls'[c] = [at |-> "forget", p |-> p]
      BY <1>2, <1>6, <2>1 DEF BeginDisconnect, ShapeInv
    <3>2. Busy(p)' = {c}
      BY <1>1, <3>1 DEF Busy, NoCall
    <3> QED
      BY <3>1, <3>2, Distinct
  <2>2. CASE ~BeginDisconnect(c, q)
    <3>1. gone[p] /\ UNCHANGED pending
          /\ \/ calls'[c] = NoCall
             \/ calls'[c].p = p /\ calls'[c].at \in {"poll", "list", "fetch"}
      <4>1. CASE \E asked \in Settings : BeginConnect(c, q, asked)
        BY <1>2, <1>6, <4>1 DEF BeginConnect, ShapeInv
      <4>2. CASE BeginStatus(c, q) \/ BeginList(c, q)
        BY <1>2, <1>6, <4>2 DEF BeginStatus, BeginList, Call
      <4>3. CASE \E url \in Hosts : BeginFetch(c, q, url)
        BY <1>2, <1>6, <4>3 DEF BeginFetch
      <4> QED
        BY <2>2, <4>1, <4>2, <4>3 DEF Receive
    <3>2. Busy(p) \subseteq Busy(p)' /\ Busy(p)' \subseteq Busy(p) \cup {c}
      BY <1>1, <3>1 DEF Busy
    <3>3. c \in Busy(p)' => calls'[c].at \in {"poll", "list", "fetch"}
      BY <3>1 DEF Busy
    <3>4. /\ pending[p] \notin Codes
          /\ \A d \in Busy(p) : calls[d].at \in {"poll", "list", "fetch", "forget"}
          /\ (\E d \in Busy(p) : calls[d].at = "forget") \/ token[p] \notin Codes
      BY <3>1 DEF GoneInv
    <3> QED
      BY <1>1, <1>3, <3>1, <3>2, <3>3, <3>4
  <2> QED
    BY <2>1, <2>2
<1> QED
  BY <1>5, <1>6

(* A machine that stops leaves nothing to wait for, and no call.           *)
LEMMA GoneCrash == ASSUME ShapeInv, GoneInv, Halts PROVE GoneInv'
<1> SUFFICES ASSUME NEW p \in Providers, gone'[p]
             PROVE  pending'[p] \notin Codes /\ Busy(p)' = {} /\ token'[p] \notin Codes
  BY DEF GoneInv, Codes
<1>1. gone[p] /\ \A c \in Busy(p) : calls[c].at # "forget"
  BY DEF Halts, Is
<1>2. pending[p] \notin Codes /\ token[p] \notin Codes
  BY <1>1 DEF GoneInv
<1>3. pending'[p] \in {pending[p], CutOff} /\ token'[p] \in {token[p], CutOff}
  BY DEF Halts, Cut
<1>4. Busy(p)' = {}
  BY DEF Halts, Busy
<1> QED
  BY <1>2, <1>3, <1>4, Distinct

(* Once disconnected with nothing else under way, a forge is connected     *)
(* again by a new start alone, whoever polls or lists meanwhile, whatever  *)
(* the person answers late and wherever the machine stops.                 *)
THEOREM GoneForGood == FGSpec => []GoneIsGone
<1>1. FGInit => GoneInv
  BY DEF FGInit, GoneInv
<1>2. ShapeInv /\ GoneInv /\ [FGNext]_fgVars => GoneInv'
  <2>1. GoneInv /\ UNCHANGED fgVars => GoneInv'
    BY DEF GoneInv, Busy, Codes, fgVars, keptVars, ghosts
  <2>2. ASSUME NEW n \in DOMAIN codes, GoneInv,
               Ageing(n) \/ \E how \in {"approved", "spent"} : Answer(n, how)
        PROVE  GoneInv'
    <3>1. UNCHANGED <<pending, token, calls, gone>>
      BY <2>2 DEF Ageing, Answer, keptVars, ghosts
    <3> QED
      BY <2>2, <3>1 DEF GoneInv, Busy, Codes
  <2>3. GoneInv /\ FileReverts => GoneInv'
    BY DEF GoneInv, Busy, Codes, FileReverts
  <2> QED
    BY <2>1, <2>2, <2>3, GoneServe, GoneReceive, GoneCrash DEF FGNext
<1>3. GoneInv => GoneIsGone
  BY DEF GoneInv, GoneIsGone, Is
<1> QED
  BY <1>1, <1>2, <1>3, ShapeInit, ShapeStep, PTL DEF FGSpec

-----------------------------------------------------------------------------
(* No call that is served makes a code older.                              *)
LEMMA ServeAges ==
  ASSUME ShapeInv, NEW c \in Callers, Serve(c)
  PROVE  \A m \in DOMAIN codes : codes'[m].age = codes[m].age
<1>0. codes \in [DOMAIN codes -> CodeStates]
  BY DEF ShapeInv
<1>1. CASE Mint(c)
  <2>1. calls[c].p \in Providers /\ calls[c].entry \in Entries
    BY <1>1, CallKinds DEF Mint, Is, NoCall
  <2>2. Address(calls[c].p, calls[c].entry) \in Hosts
    BY <2>1, AddressType
  <2> DEFINE n == Cardinality(DOMAIN codes) + 1
             host == Address(calls[c].p, calls[c].entry)
  <2>3. \/ UNCHANGED codes
        \/ /\ Cardinality(DOMAIN codes) < MaxCodes
           /\ codes' = [m \in 1 .. n |-> IF m = n
                          THEN [host |-> host, age |-> "fresh", is |-> "issued"] ELSE codes[m]]
    BY <1>1 DEF Mint
  <2> QED
    BY <2>2, <2>3, NewCode
<1>2. CASE Ask(c)
  <2> DEFINE n == calls[c].code
             r == [codes[n] EXCEPT !.is = "spent"]
  <2>1. n \in DOMAIN codes
    BY <1>2, CallKinds DEF Ask, Is
  <2>2. r.age = codes[n].age
    BY <1>0, <2>1 DEF CodeStates
  <2>3. codes' = codes \/ codes' = [codes EXCEPT ![n] = r]
    BY <1>0, <1>2, <2>1 DEF Ask
  <2> HIDE DEF n, r
  <2> QED
    BY <1>0, <2>1, <2>2, <2>3
<1>3. CASE ~Mint(c) /\ ~Ask(c)
  BY <1>3 DEF Serve, ReadConfig, Configure, SaveConfig, Start, KeepPending, Poll, KeepSlower,
     KeepToken, DropPending, ListRepos, FetchLinked, ForgetToken
<1> QED
  BY <1>1, <1>2, <1>3

(* No call that is served replaces the code that is being typed in.        *)
LEMMA TypedServe ==
  ASSUME ShapeInv, TypedInv, NEW c \in Callers, Serve(c) PROVE TypedInv'
<1> USE DEF keptVars, ghosts
<1> SUFFICES ASSUME NEW p \in Providers, typed'[p] \in Codes, codes'[typed'[p]].age = "fresh"
             PROVE  /\ pending'[p] = typed'[p]
                    /\ \A d \in Busy(p)' : Harmless(calls'[d], typed'[p])
  BY DEF TypedInv, Live, Codes
<1>c. calls[c] # NoCall /\ calls[c].p \in Providers
  BY ServeMoves, CallKinds
<1>d. \A d \in Callers \ {c} : calls'[d] = calls[d]
  BY ServeMoves
<1>k. ASSUME typed'[p] = typed[p]
      PROVE  typed[p] \in Codes /\ Live(typed[p])
  <2>1. typed[p] \in DOMAIN codes
    BY <1>k, Distinct DEF ShapeInv
  <2> QED
    BY <1>k, <2>1, ServeAges DEF Live
<1>1. CASE KeepPending(c) /\ p = calls[c].p
  <2> DEFINE n == calls[c].code
  <2>1. calls[c].at = "keep" /\ pending'[p] = n /\ Ends(c)
    BY <1>1 DEF KeepPending, Is, ShapeInv
  <2>2. typed'[p] = IF typed[p] \in Codes /\ Live(typed[p]) THEN typed[p]
                    ELSE IF SeenByNoOther(c) THEN n ELSE Nothing
    BY <1>1 DEF KeepPending, ShapeInv
  <2>3. c \in Busy(p)
    BY <1>c, <1>1 DEF Busy
  <2>4. ~(typed[p] \in Codes /\ Live(typed[p]))
    BY <2>1, <2>3 DEF TypedInv, Harmless
  <2>5. typed'[p] = n /\ SeenByNoOther(c)
    BY <2>2, <2>4, Distinct
  <2>6. Busy(p)' = Busy(p) \ {c} /\ \A d \in Busy(p) \ {c} : calls'[d] = calls[d]
    BY <2>1, EndsBusy
  <2>7. \A d \in Busy(p) \ {c} :
          calls[d].at \notin {"mint", "keep", "ask", "keepslow", "connect", "drop"}
    BY <1>1, <2>5 DEF SeenByNoOther
  <2>8. \A d \in Busy(p) : calls[d].at \in Places
    BY DEF Busy, ShapeInv, InFlight, Reading, Saving, Keeping, Asking, Fetching, Leaving, Places
  <2>9. \A d \in Busy(p) \ {c} : Harmless(calls[d], n)
    BY <2>7, <2>8 DEF Harmless, Places
  <2> QED
    BY <2>1, <2>5, <2>6, <2>9
<1>2. CASE ~(KeepPending(c) /\ p = calls[c].p)
  <2>1. typed'[p] = typed[p]
    <3>1. typed'[p] \in {typed[p], Nothing}
      BY <1>2 DEF ShapeInv, Serve, ReadConfig, Configure, SaveConfig, Start, Mint, KeepPending,
         Poll, Ask, KeepSlower, KeepToken, DropPending, ListRepos, FetchLinked, ForgetToken
    <3> QED
      BY <3>1, Distinct
  <2>2. /\ typed[p] \in Codes /\ Live(typed[p]) /\ pending[p] = typed[p]
        /\ \A d \in Busy(p) : Harmless(calls[d], typed[p])
    BY <1>k, <2>1 DEF TypedInv
  <2>3. CASE p # calls[c].p
    BY <2>1, <2>2, <2>3, ServeApart
  <2>4. CASE p = calls[c].p
    <3>1. c \in Busy(p) /\ Harmless(calls[c], typed[p])
      BY <1>c, <2>2, <2>4 DEF Busy
    <3>2. ASSUME pending'[p] = pending[p],
                 Ends(c) \/ Harmless(calls'[c], typed[p])
          PROVE  /\ pending'[p] = typed'[p]
                 /\ \A d \in Busy(p)' : Harmless(calls'[d], typed'[p])
      <4>1. \A d \in Busy(p)' \ {c} : d \in Busy(p) /\ calls'[d] = calls[d]
        BY <1>d DEF Busy
      <4>2. Ends(c) => c \notin Busy(p)'
        BY EndsBusy
      <4> QED
        BY <2>1, <2>2, <3>2, <4>1, <4>2
    <3>3. CASE Configure(c)
      <4>1. Ends(c) \/ \E file : calls' = [calls EXCEPT ![c] =
                         [at |-> "save", p |-> calls[c].p, file |-> file]]
        BY <3>3 DEF Configure
      <4>2. Ends(c) \/ calls'[c].at = "save"
        BY <4>1, PutCall
      <4> QED
        BY <3>2, <3>3, <4>2 DEF Configure, Harmless
    <3>4. CASE SaveConfig(c)
      <4> DEFINE r == Call("start", calls[c].p, calls[c].file[calls[c].p])
      <4>1. r.at = "start"
        BY DEF Call
      <4> HIDE DEF r
      <4>2. calls'[c].at = "start" /\ UNCHANGED pending
        BY <3>4, <4>1, PutCall DEF SaveConfig, r
      <4> QED
        BY <3>2, <4>2 DEF Harmless
    <3>5. CASE Start(c)
      BY <2>2, <2>4, <3>2, <3>5 DEF Start
    <3>10. CASE ReadConfig(c)
      <4> DEFINE r == Call("start", calls[c].p, forges[calls[c].p])
      <4>1. r.at = "start"
        BY DEF Call
      <4>2. calls' = [calls EXCEPT ![c] = r] /\ UNCHANGED pending
        BY <3>10 DEF ReadConfig, ShapeInv
      <4> HIDE DEF r
      <4>3. calls'[c].at = "start"
        BY <4>1, <4>2, PutCall
      <4> QED
        BY <3>2, <4>2, <4>3 DEF Harmless
    <3>6. CASE Poll(c)
      <4> DEFINE asked == [at |-> "ask", p |-> p, code |-> pending[p],
                           to |-> Address(p, calls[c].entry)]
      <4>1. Ends(c) \/ calls' = [calls EXCEPT ![c] = asked]
        BY <2>2, <2>4, <3>6 DEF Poll, Live
      <4>2. asked.at = "ask" /\ asked.code = pending[p]
        OBVIOUS
      <4> HIDE DEF asked
      <4>3. Ends(c) \/ (calls'[c].at = "ask" /\ calls'[c].code = pending[p])
        BY <4>1, <4>2, PutCall
      <4> QED
        BY <2>2, <3>2, <3>6, <4>3 DEF Poll, Harmless
    <3>7. CASE Ask(c)
      <4>1. calls[c].at = "ask" /\ calls[c].code = typed[p] /\ UNCHANGED pending
        BY <3>1, <3>7 DEF Ask, Is, Harmless
      <4>2. Ends(c) \/ GoesOn(c, "keepslow")
        <5>1. PICK answer \in {"token", "refused", "waiting", "slow_down", "unreachable"} :
                /\ CASE answer = "token"     -> GoesOn(c, "connect") \/ Ends(c)
                     [] answer = "slow_down" -> GoesOn(c, "keepslow")
                     [] answer = "refused"   -> GoesOn(c, "drop")
                     [] OTHER                -> Ends(c)
                /\ typed' = [q \in Providers |->
                     IF typed[q] = calls[c].code /\ answer \in {"token", "refused"}
                     THEN Nothing ELSE typed[q]]
          BY <3>7 DEF Ask, Answers
        <5>2. answer \notin {"token", "refused"}
          BY <2>1, <2>2, <4>1, <5>1, Distinct
        <5> QED
          BY <5>1, <5>2
      <4>3. Ends(c) \/ Harmless(calls'[c], typed[p])
        BY <4>1, <4>2, GoCall, CallKinds DEF Harmless
      <4> QED
        BY <3>2, <4>1, <4>3
    <3>8. CASE KeepSlower(c)
      <4>1. calls[c].code = typed[p] /\ Ends(c)
        BY <3>1, <3>8 DEF KeepSlower, Is, Harmless
      <4>2. pending'[p] = pending[p]
        BY <2>2, <2>4, <3>8, <4>1 DEF KeepSlower, ShapeInv
      <4> QED
        BY <3>2, <4>1, <4>2
    <3>9. CASE ListRepos(c) \/ FetchLinked(c) \/ ForgetToken(c)
      BY <3>2, <3>9 DEF ListRepos, FetchLinked, ForgetToken
    <3> QED
      BY <2>4, <1>2, <3>1, <3>3, <3>4, <3>5, <3>6, <3>7, <3>8, <3>9, <3>10
         DEF Serve, Mint, KeepPending, KeepToken, DropPending, Is, Harmless
  <2> QED
    BY <2>3, <2>4
<1> QED
  BY <1>1, <1>2

(* What begins waits for no code and drops none, but to forget them all.   *)
LEMMA TypedReceive ==
  ASSUME ShapeInv, TypedInv, NEW c \in Callers, NEW q \in Providers, Receive(c, q)
  PROVE  TypedInv'
<1> USE DEF keptVars, ghosts
<1> SUFFICES ASSUME NEW p \in Providers, typed'[p] \in Codes, codes'[typed'[p]].age = "fresh"
             PROVE  /\ pending'[p] = typed'[p]
                    /\ \A d \in Busy(p)' : Harmless(calls'[d], typed'[p])
  BY DEF TypedInv, Live, Codes
<1>1. /\ calls[c] = NoCall /\ UNCHANGED codes
      /\ \A d \in Callers \ {c} : calls'[d] = calls[d]
  BY BeginsWith
<1>2. typed'[p] = typed[p] /\ pending'[p] = pending[p]
  BY Distinct DEF ShapeInv, Receive, BeginConnect, BeginStatus, BeginList, BeginDisconnect,
                  BeginFetch
<1>3. /\ pending[p] = typed[p]
      /\ \A d \in Busy(p) : Harmless(calls[d], typed[p])
  BY <1>1, <1>2 DEF TypedInv, Live
<1>4. calls'[c] = NoCall \/ Harmless(calls'[c], typed[p])
  <2>1. CASE \E at \in {"poll", "list"} : calls'[c] = Call(at, q, forges[q])
    BY <2>1 DEF Call, Harmless
  <2>2. CASE \E at \in {"read", "configure"}, asked \in Settings : calls'[c] = Call(at, q, asked)
    BY <2>2 DEF Call, Harmless
  <2>3. CASE \E url \in Hosts :
               calls'[c] = [at |-> "fetch", p |-> q, entry |-> forges[q], url |-> url]
    BY <2>3 DEF Harmless
  <2>4. CASE calls'[c] = [at |-> "forget", p |-> q]
    BY <2>4 DEF Harmless
  <2> QED
    BY <2>1, <2>2, <2>3, <2>4, BeginsWith
<1>5. \A d \in Busy(p)' \ {c} : d \in Busy(p) /\ calls'[d] = calls[d]
  BY <1>1 DEF Busy
<1>6. c \in Busy(p)' => calls'[c] # NoCall
  BY DEF Busy
<1> QED
  BY <1>2, <1>3, <1>4, <1>5, <1>6

(* A machine that stops tears the code that is being typed in or keeps it. *)
LEMMA TypedCrash == ASSUME ShapeInv, TypedInv, Halts PROVE TypedInv'
<1> SUFFICES ASSUME NEW p \in Providers, typed'[p] \in Codes, codes'[typed'[p]].age = "fresh"
             PROVE  pending'[p] = typed'[p] /\ Busy(p)' = {}
  BY DEF TypedInv, Live, Codes
<1>1. /\ pending'[p] \in {pending[p], CutOff} /\ UNCHANGED codes
      /\ typed'[p] = IF pending'[p] = CutOff THEN Nothing ELSE typed[p]
      /\ Busy(p)' = {}
  BY DEF Halts, Cut, Busy
<1>2. typed'[p] = typed[p] /\ pending'[p] = pending[p]
  BY <1>1, Distinct
<1> QED
  BY <1>1, <1>2 DEF TypedInv, Live

(* A code that was kept while nobody else acted on what he had seen before *)
(* stays the one the Box waits for, however many agents start, configure   *)
(* and poll from then on, whatever brings box.toml back and wherever the   *)
(* machine stops.                                                          *)
THEOREM TypedCodeWaits == FGSpec => []TypedCodeStands
<1>1. FGInit => TypedInv
  BY Distinct DEF FGInit, TypedInv
<1>2. ShapeInv /\ TypedInv /\ [FGNext]_fgVars => TypedInv'
  <2>1. TypedInv /\ UNCHANGED fgVars => TypedInv'
    BY DEF TypedInv, Live, Harmless, Busy, Codes, fgVars, keptVars, ghosts
  <2>2. ASSUME NEW n \in DOMAIN codes, ShapeInv, TypedInv,
               Ageing(n) \/ \E how \in {"approved", "spent"} : Answer(n, how)
        PROVE  TypedInv'
    <3>1. UNCHANGED <<pending, calls, typed>>
      BY <2>2 DEF Ageing, Answer, keptVars, ghosts
    <3>2. \A p \in Providers : typed[p] \in Codes => typed[p] \in DOMAIN codes
      BY <2>2, Distinct DEF ShapeInv
    <3>3. \A m \in DOMAIN codes : codes'[m].age = "fresh" => codes[m].age = "fresh"
      <4>1. codes \in [DOMAIN codes -> CodeStates]
        BY <2>2 DEF ShapeInv
      <4>2. CASE Ageing(n)
        <5> DEFINE age == IF codes[n].age = "fresh" THEN "dying" ELSE "expired"
                   r == [codes[n] EXCEPT !.age = age]
        <5>1. codes' = [codes EXCEPT ![n] = r] /\ r.age # "fresh"
          BY <4>1, <4>2 DEF Ageing, CodeStates
        <5> HIDE DEF r
        <5> QED
          BY <4>1, <5>1
      <4>3. CASE \E how \in {"approved", "spent"} : Answer(n, how)
        <5>1. PICK how \in {"approved", "spent"} : codes' = [codes EXCEPT ![n].is = how]
          BY <4>3 DEF Answer
        <5> DEFINE r == [codes[n] EXCEPT !.is = how]
        <5>2. codes' = [codes EXCEPT ![n] = r] /\ r.age = codes[n].age
          BY <4>1, <5>1 DEF CodeStates
        <5> HIDE DEF r
        <5> QED
          BY <4>1, <5>2
      <4> QED
        BY <2>2, <4>2, <4>3
    <3> QED
      BY <2>2, <3>1, <3>2, <3>3 DEF TypedInv, Live, Harmless, Busy, Codes
  <2>3. TypedInv /\ FileReverts => TypedInv'
    <3> SUFFICES ASSUME TypedInv, FileReverts, NEW p \in Providers,
                        typed'[p] \in Codes, codes[typed'[p]].age = "fresh"
                 PROVE  /\ pending'[p] = typed'[p]
                        /\ \A d \in Busy(p)' : Harmless(calls'[d], typed'[p])
      BY DEF TypedInv, Live, Codes, FileReverts
    <3>1. typed'[p] = typed[p] /\ UNCHANGED <<pending, calls>>
      BY Distinct DEF FileReverts
    <3> QED
      BY <3>1 DEF TypedInv, Live, Busy
  <2> QED
    BY <2>1, <2>2, <2>3, TypedServe, TypedReceive, TypedCrash DEF FGNext
<1>3. TypedInv => TypedCodeStands
  BY DEF TypedInv, TypedCodeStands
<1> QED
  BY <1>1, <1>2, <1>3, ShapeInit, ShapeStep, PTL DEF FGSpec
===============================================================================
