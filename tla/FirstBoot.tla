----------------------------- MODULE FirstBoot -----------------------------
(***************************************************************************)
(* The first boots of a Box (nix/firstboot.nix): the orders, which the     *)
(* installer left in /etc/box or the flashed image carries on its boot     *)
(* partition, are applied once. One action is one effect on disk; power    *)
(* may go between any two of them, and a step may fail, which ends the     *)
(* unit and not the boot. Then the daemon is up, the owner redeems the     *)
(* code (auth.rs) and changes what the orders had set.                     *)
(***************************************************************************)
EXTENDS Disks

CONSTANT MaxCuts      \* how often power goes
ASSUME CutsAssumption == MaxCuts \in Nat

VARIABLES
  conf,       \* /etc/box/install-config.json: NoFile, Torn or orders
  claim,      \* box-claim.txt of the boot partition: NoFile, Blank or orders
  stamp,      \* /etc/box/.handoff-applied
  boot,       \* how far this boot is
  codes,      \* copies of the enrollment hash in the credential store
  redeemed,   \* sessions the code gave
  keys,       \* who wrote authorized_keys last
  cuts,       \* boots that ended by a loss of power
  tore,       \* history: the copying of the orders was cut short
  unseeded    \* history: the hash was to go into the store, and is not there

fbvars == <<conf, claim, stamp, boot, codes, redeemed, keys, cuts, tore, unseeded>>

Torn == [orders |-> FALSE, torn |-> TRUE]
Blank == [orders |-> FALSE, blank |-> TRUE]
Named(file) == file.orders /\ Hex64(file.owner)

FBInit(flashed) ==
  /\ conf = NoFile /\ claim = flashed
  /\ stamp = FALSE /\ boot = "off" /\ codes = 0 /\ redeemed = 0
  /\ keys = "none" /\ cuts = 0 /\ tore = FALSE /\ unseeded = FALSE

PowerOn ==
  /\ boot = "off"
  /\ boot' = "begin"
  /\ UNCHANGED <<conf, claim, stamp, codes, redeemed, keys, cuts, tore, unseeded>>

(* Mutant: the stamp is not looked at. *)
TakeClaimAgain ==
  /\ boot = "begin"
  /\ IF conf = NoFile /\ claim.orders
     THEN conf' = Torn /\ boot' = "copy"
     ELSE /\ boot' = IF conf = NoFile THEN "up" ELSE "own"
          /\ UNCHANGED conf
  /\ UNCHANGED <<claim, stamp, codes, redeemed, keys, cuts, tore, unseeded>>

(* Without orders of its own the Box takes those of the boot partition: the *)
(* file is created, and then it is written. The directory may not come to   *)
(* be, nor the writing to its end: the unit is over then.                   *)
TakeClaim ==
  /\ boot = "begin"
  /\ IF conf = NoFile /\ claim.orders
     THEN \/ conf' = Torn /\ boot' = "copy" /\ UNCHANGED unseeded
          \/ boot' = "up" /\ unseeded' = TRUE /\ UNCHANGED conf
     ELSE /\ boot' = IF conf = NoFile \/ stamp THEN "up" ELSE "own"
          /\ UNCHANGED <<conf, unseeded>>
  /\ UNCHANGED <<claim, stamp, codes, redeemed, keys, cuts, tore>>

CopyClaim ==
  /\ boot = "copy"
  /\ \/ conf' = claim /\ boot' = "own" /\ UNCHANGED tore
     \/ boot' = "up" /\ tore' = TRUE /\ UNCHANGED conf
  /\ UNCHANGED <<claim, stamp, codes, redeemed, keys, cuts, unseeded>>

Carries(file) == file.orders /\ file.owner # "none"

(* Ownership first: the hash the orders carry goes into the store, if it is  *)
(* one. What keeps it out is told to the journal and the script goes on,     *)
(* unless it was the directory, which ends the unit. A torn file has none.   *)
SeedOwner ==
  /\ boot = "own"
  /\ \/ /\ Named(conf)
        /\ codes' = codes + 1 /\ unseeded' = FALSE /\ boot' = "settle"
     \/ /\ Carries(conf)
        /\ unseeded' = (codes + redeemed = 0) /\ boot' \in {"settle", "up"}
        /\ UNCHANGED codes
     \/ /\ ~Carries(conf)
        /\ boot' = "settle" /\ UNCHANGED <<codes, unseeded>>
  /\ UNCHANGED <<conf, claim, stamp, redeemed, keys, cuts, tore>>

(* Network, keys and tunnel: it may fail, and the rest is then left out. *)
Settle ==
  /\ boot = "settle"
  /\ \/ keys' = "orders" /\ boot' = "scrub"
     \/ boot' = "up" /\ UNCHANGED keys
  /\ UNCHANGED <<conf, claim, stamp, codes, redeemed, cuts, tore, unseeded>>

(* Mutants: ownership comes after what may fail. *)
SettleFirst ==
  /\ boot = "own"
  /\ \/ keys' = "orders" /\ boot' = "settle"
     \/ boot' = "up" /\ UNCHANGED keys
  /\ UNCHANGED <<conf, claim, stamp, codes, redeemed, cuts, tore, unseeded>>

SeedAfter ==
  /\ boot = "settle"
  /\ codes' = IF Named(conf) THEN codes + 1 ELSE codes
  /\ boot' = "scrub"
  /\ UNCHANGED <<conf, claim, stamp, redeemed, keys, cuts, tore, unseeded>>

ScrubClaim ==
  /\ boot = "scrub"
  /\ claim' = IF claim = NoFile THEN claim ELSE Blank
  /\ boot' = "stamp"
  /\ UNCHANGED <<conf, stamp, codes, redeemed, keys, cuts, tore, unseeded>>

StampApplied ==
  /\ boot = "stamp"
  /\ stamp' = TRUE /\ boot' = "up"
  /\ UNCHANGED <<conf, claim, codes, redeemed, keys, cuts, tore, unseeded>>

(* The daemon is up: one copy of the hash goes with each session. *)
RedeemEnrollment ==
  /\ boot = "up" /\ codes > 0
  /\ codes' = codes - 1 /\ redeemed' = redeemed + 1
  /\ UNCHANGED <<conf, claim, stamp, boot, keys, cuts, tore, unseeded>>

ChangeKeys ==
  /\ boot = "up" /\ redeemed > 0
  /\ keys' = "operator"
  /\ UNCHANGED <<conf, claim, stamp, boot, codes, redeemed, cuts, tore, unseeded>>

PowerCut ==
  /\ boot # "off" /\ cuts < MaxCuts
  /\ boot' = "off" /\ cuts' = cuts + 1
  /\ tore' = (tore \/ boot = "copy")
  /\ UNCHANGED <<conf, claim, stamp, codes, redeemed, keys, unseeded>>

FBStepsLate ==
  \/ PowerOn \/ TakeClaim \/ CopyClaim \/ SettleFirst \/ SeedAfter
  \/ ScrubClaim \/ StampApplied \/ RedeemEnrollment \/ ChangeKeys \/ PowerCut

(* A boot, what the owner does once it is up, and the power. *)
FBSteps ==
  \/ PowerOn \/ TakeClaim \/ CopyClaim \/ SeedOwner \/ Settle \/ ScrubClaim
  \/ StampApplied \/ RedeemEnrollment \/ ChangeKeys \/ PowerCut

-----------------------------------------------------------------------------
(* Ownership comes before whatever else may fail: a Box whose orders name an *)
(* owner is up without one only if that step itself failed, or the copying   *)
(* of the orders before it. However often power went and whatever step after *)
(* it failed, the hash is in the store or was redeemed, unless the hash      *)
(* could not be put there or the directory of the orders not be made         *)
(* (`unseeded`), or the copying was cut short (`tore`, line 46), which       *)
(* leaves an empty file that every later boot takes for the orders.          *)
OwnerArrives ==
  boot = "up" /\ ~tore /\ ~unseeded /\ (Named(conf) \/ Named(claim))
    => codes + redeemed > 0

(* "A Box with no owner ... is the one outcome worth ordering the whole      *)
(* script around" (firstboot.nix:77-79): a failed import is told to the      *)
(* journal (line 84), the stamp is set all the same, and no boot tries again. *)
NeverUpUnowned == stamp /\ Named(conf) => codes + redeemed > 0

(* What the operator changed is not set back by a later boot (lines 61-71). *)
OperatorStands ==
  [][stamp /\ keys = "operator" => keys' = "operator"]_fbvars

(* "A single-use code" (auth.rs:316): it gives one session. *)
SingleUse == redeemed <= 1
=============================================================================
