------------------------------- MODULE ConfigRepo -------------------------------
(***************************************************************************)
(* The Box's secrets at rest, the git remote its configuration is pushed   *)
(* to, and the restore that rebuilds a Box from it.                        *)
(*                                                                         *)
(* A secret is one .age file, sealed to the keys that may open it: the     *)
(* machine's SSH host key, the operators' keys and, for what boxd itself   *)
(* reads, the identity of the Box, which is never pushed.  A restore takes *)
(* the files of the remote and re-keys them one by one with an operator's  *)
(* private key.  It holds the apply lock; a push does not, and neither     *)
(* does who generates the backup key.                                      *)
(***************************************************************************)
EXTENDS Naturals, FiniteSets

CONSTANTS
  Password,       \* the operational secret backup-password
  ServiceSecrets, \* secrets of services, which agenix opens at boot
  Operators,      \* keys of operators
  Restores,       \* jobs that restore
  Initialisers,   \* command lines and handlers that generate the backup key
  MaxMachines, MaxIdentities, MaxValues, MaxRestores, \* bounds
  Absent, Torn    \* no such file; one that was cut off

Secrets == {Password} \cup ServiceSecrets
Keys    == Operators \cup ({"host"} \X (1 .. MaxMachines))
                     \cup ({"box"} \X (1 .. MaxIdentities))
(* A file, and who may open it. *)
SealedFiles == [value : 0 .. MaxValues, to : SUBSET Keys]

ASSUME ConfigRepoAssumption ==
  /\ Password \notin ServiceSecrets
  /\ Absent # Torn /\ {Absent, Torn} \cap (Operators \cup SealedFiles) = {}
  /\ Operators \cap ({"host", "box"} \X (0 .. MaxMachines + MaxIdentities)) = {}
  /\ MaxMachines \in Nat \ {0} /\ {MaxIdentities, MaxValues, MaxRestores} \subseteq Nat

VARIABLES
  machine,    \* which hardware, and so which host key, the Box is on
  authorized, \* /etc/box/authorized_keys
  identity,   \* secrets/boxd-identity.key; 0: there is none
  identities, \* how many were made
  files,      \* the .age files of the data directory
  values,     \* how many backup passwords were generated
  linked,     \* config-remote names the repository
  pushKey,    \* secrets/config-push.key exists
  shipped,    \* the .age files of the repository's main
  keyFile,    \* restore-identity-<pid>, in memory
  restores,   \* the restores under way
  inits,      \* the generations of a backup key under way
  halfway,    \* history: files were fetched and not all of them re-keyed since
  raced,      \* history: a generation ran into another one, or into a restore
  begun       \* how many restores were begun

held  == <<identity, identities, files, values, linked, pushKey>>
generating == <<inits, raced>>
jobs  == <<keyFile, restores, halfway, begun>>
crVars == <<machine, authorized, held, shipped, generating, jobs>>

Host    == <<"host", machine>>
Box(i)  == <<"box", i>>
Sealed(v, to) == [value |-> v, to |-> to]
Files == [Secrets -> SealedFiles \cup {Absent, Torn}]

Opens(key, file) == file \notin {Absent, Torn} /\ key \in file.to

CRTypeOK ==
  /\ machine \in 1 .. MaxMachines /\ authorized \subseteq Operators
  /\ identities \in 0 .. MaxIdentities /\ identity \in 0 .. identities
  /\ files \in Files /\ shipped \in Files
  /\ values \in 0 .. MaxValues /\ begun \in 0 .. MaxRestores
  /\ linked \in BOOLEAN /\ pushKey \in BOOLEAN /\ halfway \in BOOLEAN
  /\ keyFile \in Operators \cup {Absent}
  /\ restores \in [Restores -> [at : {"none", "waits", "rekeys", "builds"},
                                left : SUBSET Secrets]]
  /\ inits \in [Initialisers -> [at : {"none", "generates", "seals"},
                                 to : 0 .. MaxIdentities]]
  /\ \A i \in Initialisers : inits[i].at = "seals" => inits[i].to # 0
  /\ raced \in BOOLEAN

NoInit    == [at |-> "none", to |-> 0]
NoRestore == [at |-> "none", left |-> {}]
NoFiles   == [n \in Secrets |-> Absent]

CRInit ==
  /\ machine = 1 /\ authorized \in SUBSET Operators
  /\ identity = 0 /\ identities = 0
  /\ files = NoFiles /\ shipped = NoFiles /\ values = 0
  /\ linked = FALSE /\ pushKey = FALSE /\ keyFile = Absent
  /\ restores = [j \in Restores |-> NoRestore] /\ halfway = FALSE /\ begun = 0
  /\ inits = [i \in Initialisers |-> NoInit] /\ raced = FALSE

-----------------------------------------------------------------------------
(* Who a secret is sealed to, and the identity that is made on first use.  *)

Recipients         == {Host} \cup authorized
LocalRecipients(i) == Recipients \cup {Box(i)}

EnsureIdentity ==
  IF identity # 0 THEN UNCHANGED <<identity, identities>>
  ELSE /\ identities < MaxIdentities
       /\ identities' = identities + 1 /\ identity' = identities + 1

-----------------------------------------------------------------------------
(* init_key: by the command line, or when a destination is saved.  It      *)
(* looks whether there is a key, generates one, and stores it; nothing     *)
(* keeps two of them, or one and a restore, apart.                         *)
Generates(i) == inits[i].at # "none"
Locked       == \E j \in Restores : restores[j].at \in {"rekeys", "builds"}

(* has_key: a key that cannot be read is no key; to read a file makes the  *)
(* identity it may be sealed to.                                           *)
Reads  == IF files[Password] = Absent THEN UNCHANGED <<identity, identities>> ELSE EnsureIdentity
HasKey == Opens(Box(identity), files[Password])

(* With the guard below; without it, whoever saves a destination generates. *)
Looks(i) ==
  /\ ~Generates(i)
  /\ Reads
  /\ inits' = [inits EXCEPT ![i].at = "generates"]
  /\ raced' = (raced \/ Locked \/ \E k \in Initialisers : Generates(k))
  /\ UNCHANGED <<machine, authorized, files, values, linked, pushKey, shipped, jobs>>

InitLooks(i) == ~HasKey /\ Looks(i)

(* Who it is for: the Box's identity among them.                           *)
InitChooses(i) ==
  /\ inits[i].at = "generates"
  /\ EnsureIdentity
  /\ inits' = [inits EXCEPT ![i] = [at |-> "seals", to |-> identity']]
  /\ UNCHANGED <<machine, authorized, files, values, linked, pushKey, shipped, raced, jobs>>

InitSeals(i) ==
  /\ inits[i].at = "seals" /\ values < MaxValues
  /\ values' = values + 1
  /\ files' = [files EXCEPT ![Password] = Sealed(values + 1, LocalRecipients(inits[i].to))]
  /\ inits' = [inits EXCEPT ![i] = NoInit]
  /\ UNCHANGED <<machine, authorized, identity, identities, linked, pushKey, shipped, raced, jobs>>

(* A command fails, or the process is killed. *)
InitFails(i) ==
  /\ Generates(i)
  /\ inits' = [inits EXCEPT ![i] = NoInit]
  /\ UNCHANGED <<machine, authorized, held, shipped, raced, jobs>>

(* A deploy that seals a service's secret. *)
SealService(n) ==
  /\ files' = [files EXCEPT ![n] = Sealed(0, Recipients)]
  /\ UNCHANGED <<machine, authorized, identity, identities, values, linked, pushKey, shipped,
                 generating, jobs>>

(* The repository is created, or named, and the Box's push key installed. *)
SetRemote ==
  /\ linked' = TRUE /\ pushKey' = TRUE
  /\ shipped' \in {shipped, files}
  /\ UNCHANGED <<machine, authorized, identity, identities, files, values, generating, jobs>>

(* Commit and push --force: on request, or after a deploy.  Without its    *)
(* key the Box cannot push.                                                *)
Pushed == linked /\ pushKey /\ shipped' = files

Push ==
  /\ Pushed
  /\ UNCHANGED <<machine, authorized, held, generating, jobs>>

-----------------------------------------------------------------------------
(* Restore.  The operator's key is put in one file, named for the process, *)
(* before the lock is waited for.                                          *)

BeginRestore(j, k) ==
  /\ restores[j].at = "none" /\ begun < MaxRestores
  /\ begun' = begun + 1
  /\ keyFile' = k
  /\ restores' = [restores EXCEPT ![j].at = "waits"]
  /\ UNCHANGED <<machine, authorized, held, shipped, generating, halfway>>

EndRestore(j) == keyFile' = Absent /\ restores' = [restores EXCEPT ![j] = NoRestore]

(* The path-limited checkout replaces the files the repository has; then   *)
(* everything under secrets/ that is not .age is dropped.                  *)
Taken == [n \in Secrets |-> IF shipped[n] # Absent THEN shipped[n] ELSE files[n]]

(* Mutant: only what the repository has is re-keyed. *)
FetchOnly(j) ==
  /\ restores[j].at = "waits" /\ ~Locked
  /\ files' = Taken
  /\ identity' = 0 /\ pushKey' = FALSE
  /\ restores' = [restores EXCEPT ![j] =
       [at |-> "rekeys", left |-> {n \in Secrets : shipped[n] # Absent}]]
  /\ halfway' = TRUE /\ raced' = (raced \/ \E i \in Initialisers : Generates(i))
  /\ UNCHANGED <<machine, authorized, identities, values, linked, shipped, inits, keyFile, begun>>

Fetch(j) ==
  /\ restores[j].at = "waits" /\ ~Locked
  /\ files' = Taken
  /\ identity' = 0 /\ pushKey' = FALSE
  /\ restores' = [restores EXCEPT ![j] =
       [at |-> "rekeys", left |-> {n \in Secrets : Taken[n] # Absent}]]
  /\ halfway' = TRUE /\ raced' = (raced \/ \E i \in Initialisers : Generates(i))
  /\ UNCHANGED <<machine, authorized, identities, values, linked, shipped, inits, keyFile, begun>>

FetchFails(j) ==
  /\ restores[j].at = "waits" /\ ~Locked
  /\ EndRestore(j)
  /\ UNCHANGED <<machine, authorized, held, shipped, generating, halfway, begun>>

(* Secrets of services first; then the Box's own, to its identity too. *)
Turn(j, n) ==
  /\ restores[j].at = "rekeys" /\ n \in restores[j].left
  /\ n = Password => restores[j].left = {Password}

Rekeyed(n) ==
  IF n = Password THEN EnsureIdentity ELSE UNCHANGED <<identity, identities>>

Rekey(j, n) ==
  /\ Turn(j, n) /\ Opens(keyFile, files[n])
  /\ Rekeyed(n)
  /\ files' = [files EXCEPT ![n] = Sealed(files[n].value,
                 IF n = Password THEN LocalRecipients(identity') ELSE Recipients)]
  /\ restores' = [restores EXCEPT ![j].left = @ \ {n}]
  /\ UNCHANGED <<machine, authorized, values, linked, pushKey, shipped, generating, keyFile,
                 halfway, begun>>

RekeyFails(j, n) ==
  /\ Turn(j, n) /\ ~Opens(keyFile, files[n])
  /\ Rekeyed(n)
  /\ EndRestore(j)
  /\ UNCHANGED <<machine, authorized, files, values, linked, pushKey, shipped, generating,
                 halfway, begun>>

AllRekeyed(j) ==
  /\ restores[j].at = "rekeys" /\ restores[j].left = {}
  /\ EnsureIdentity
  /\ linked' = TRUE /\ halfway' = FALSE
  /\ restores' = [restores EXCEPT ![j].at = "builds"]
  /\ UNCHANGED <<machine, authorized, files, values, pushKey, shipped, generating, keyFile, begun>>

(* The generation is built and switched to, or the build fails; only the   *)
(* first is committed and pushed, if the push succeeds.                    *)
FinishRestore(j) ==
  /\ restores[j].at = "builds"
  /\ EndRestore(j)
  /\ shipped' = shipped \/ Pushed
  /\ UNCHANGED <<machine, authorized, held, generating, halfway, begun>>

-----------------------------------------------------------------------------
(* Faults: the daemon is killed, at worst while a file is being rewritten; *)
(* the machine is lost and its successor starts empty.                     *)

Crash ==
  /\ \E j \in Restores : restores[j].at # "none"
  /\ files' \in {files} \cup {[files EXCEPT ![n] = Torn] :
                     n \in {m \in Secrets : \E j \in Restores : Turn(j, m)}}
  /\ keyFile' = Absent /\ restores' = [j \in Restores |-> NoRestore]
  /\ UNCHANGED <<machine, authorized, identity, identities, values, linked, pushKey,
                 shipped, generating, halfway, begun>>

Destroy ==
  /\ machine < MaxMachines
  /\ machine' = machine + 1 /\ authorized' \in SUBSET Operators
  /\ identity' = 0 /\ pushKey' = FALSE /\ linked' = FALSE /\ files' = NoFiles
  /\ keyFile' = Absent /\ restores' = [j \in Restores |-> NoRestore] /\ halfway' = FALSE
  /\ inits' = [i \in Initialisers |-> NoInit] /\ raced' = FALSE
  /\ UNCHANGED <<identities, values, shipped, begun>>

CRNext ==
  \/ SetRemote \/ Push \/ Crash \/ Destroy
  \/ \E i \in Initialisers : InitLooks(i) \/ InitChooses(i) \/ InitSeals(i) \/ InitFails(i)
  \/ \E n \in ServiceSecrets : SealService(n)
  \/ \E j \in Restores :
       \/ \E k \in Operators : BeginRestore(j, k)
       \/ Fetch(j) \/ FetchFails(j) \/ AllRekeyed(j) \/ FinishRestore(j)
       \/ \E n \in Secrets : Rekey(j, n) \/ RekeyFails(j, n)

CRSpec == CRInit /\ [][CRNext]_crVars

-----------------------------------------------------------------------------
(* Properties.                                                             *)

(* ops::restore: once a restore has re-keyed what it fetched, everything   *)
(* opens unattended, what the repository did not have and what a restore   *)
(* that failed or was killed had left behind included: the Box's identity  *)
(* opens the backup password, the host key the secrets of services.        *)
(* Unless a backup key was being generated meanwhile.                      *)
RestoredIsReadable ==
  ~halfway /\ ~raced => \A n \in Secrets : files[n] # Absent =>
    Opens(IF n = Password THEN Box(identity) ELSE Host, files[n])

(* A step that writes a generated key over a file that holds one. *)
Replaced == files[Password] \notin {Absent, Torn} /\ values' # values

(* init_key: a key that exists is not replaced, whatever fails, is lost or *)
(* comes between: that would orphan the backups made with it.  Only a      *)
(* restore brings another.  Stated while no restore is, or was left, half  *)
(* done, and where no generation ran into another one or into a restore.   *)
KeyIsKept == [][~halfway /\ ~raced => ~Replaced]_crVars

(* backup.rs:33 "Refuses to overwrite an existing key (that would orphan   *)
(* old backups)", in any state: of two generations that both looked, the   *)
(* second replaces the first one's key; and a key that a restore left      *)
(* unreadable counts as none.                                              *)
KeyIsNeverReplaced == [][~Replaced]_crVars
=============================================================================
