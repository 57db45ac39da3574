------------------------------- MODULE Disks -------------------------------
(***************************************************************************)
(* What becomes of the disks of a machine: the parse of what lsblk says,   *)
(* the disks a Box may be installed on, the layout an intent resolves to,  *)
(* and the orders that carry it (crates/box-core, crates/box-installer).   *)
(* Sizes are whole numbers of one unit; model and serial number of a disk  *)
(* are shown to people and decide nothing.                                 *)
(***************************************************************************)
EXTENDS Integers, Sequences, FiniteSets

CONSTANTS
  DiskNames,    \* kernel names; /dev/<name> and its by-id path go with the name
  DefaultMin,   \* the smallest disk a Box is installed on (8 GB)
  Overhead      \* ESP and alignment margin on the first disk of a mirror

ASSUME SizesAssumption ==
  /\ DefaultMin \in Nat \ {0}
  /\ Overhead \in 1 .. DefaultMin - 1

LayoutKinds == {"single", "mirror", "pool"}

(* A device as lsblk lists it: <<>> stands for a field it leaves out. *)
Devices == [name : DiskNames, type : {"disk", "part"},
            size : {<<>>} \union Seq(Nat), rm : {<<>>} \union Seq(BOOLEAN)]

OrElse(field, default) == IF field = <<>> THEN default ELSE field[1]

(* Only whole disks, each at its place in the list; without a size a disk has *)
(* none, without a flag it stays.                                             *)
Parsed(devices) ==
  [i \in {p \in DOMAIN devices : devices[p].type = "disk"} |->
     [name |-> devices[i].name,
      size |-> OrElse(devices[i].size, 0),
      removable |-> OrElse(devices[i].rm, FALSE)]]

(* Internal and large enough. *)
Eligible(disks, min) ==
  {i \in DOMAIN disks : ~disks[i].removable /\ disks[i].size >= min}

(* Largest first; equal ones stay in probe order. *)
Before(disks, i, j) ==
  \/ disks[i].size > disks[j].size
  \/ disks[i].size = disks[j].size /\ i < j

Largest(disks, fit, n) ==
  {i \in fit : Cardinality({j \in fit : Before(disks, j, i)}) < n}

(* Disks match when they differ by at most a tenth of the larger. *)
Matched(disks, taken) ==
  \A i, j \in taken : 10 * (disks[i].size - disks[j].size) <= disks[i].size

Refused == [ok |-> FALSE]
Layout(kind, devices) == [ok |-> TRUE, kind |-> kind, devices |-> devices]

Resolve(disks, kind, min) ==
  LET fit   == Eligible(disks, min)
      need  == IF kind = "single" THEN 1 ELSE 2
      taken == IF kind = "pool" THEN fit ELSE Largest(disks, fit, need)
  IN IF Cardinality(taken) >= need /\ (kind = "mirror" => Matched(disks, taken))
     THEN Layout(kind, [i \in taken |-> disks[i]])
     ELSE Refused

Names(layout) == {layout.devices[i].name : i \in DOMAIN layout.devices}

(* What disko is told of a mirror: every member has the size of the smallest *)
(* disk less the overhead, and never less than nothing.                      *)
Smallest(layout) ==
  CHOOSE n \in {layout.devices[i].size : i \in DOMAIN layout.devices} :
    \A i \in DOMAIN layout.devices : n <= layout.devices[i].size

MemberSize(layout) ==
  IF Smallest(layout) <= Overhead THEN 0 ELSE Smallest(layout) - Overhead

-----------------------------------------------------------------------------
(* Orders: consent, the owner's hash, the storage that is asked for, the disk *)
(* that is named, the smallest disk that will do (min_disk_gb), and whether   *)
(* names, keys and addresses are well formed.                                 *)
Owners == {"none", "malformed", "brought", "shown", "unseen"}
NoFile == [orders |-> FALSE]
NoDisk == "auto"

SomeOrders ==
  [orders : {TRUE}, erase : BOOLEAN, owner : Owners,
   layout : LayoutKinds \union {"ask", "absent", "unknown"},
   disk : DiskNames \union {NoDisk}, min : Nat, clean : BOOLEAN,
   chosen : SUBSET DiskNames]

Orders(erase, owner, layout, disk, min, clean) ==
  [orders |-> TRUE, erase |-> erase, owner |-> owner, layout |-> layout,
   disk |-> disk, min |-> min, clean |-> clean, chosen |-> {}]

Hex64(owner) == owner \in {"brought", "shown", "unseen"}

(* The layout that was settled is recorded, consent and a name are set. *)
EffectiveOrders(base, layout) ==
  LET known == IF base = NoFile
               THEN Orders(TRUE, "none", "absent", NoDisk, DefaultMin, TRUE)
               ELSE base
  IN [known EXCEPT !.erase = TRUE, !.layout = layout.kind, !.chosen = Names(layout)]

(* Mutant: orders without an owner are left so. *)
EnrollNobody(orders, minted) == orders

(* Without a hash a code is minted; a hash that is there is not looked into. *)
EnsureEnrollment(orders, minted) ==
  IF orders.owner = "none" THEN [orders EXCEPT !.owner = minted] ELSE orders

ValidateForInstall(orders) ==
  /\ orders.erase
  /\ Hex64(orders.owner)
  /\ orders.clean
  /\ orders.layout \in LayoutKinds \union {"ask", "absent"}

(* An explicit disk wins, whether or not the probe knows it; then the layout, *)
(* then the largest internal disk.                                            *)
ResolvePolicy(orders, disks) ==
  IF orders.disk # NoDisk
  THEN LET known == {i \in DOMAIN disks : disks[i].name = orders.disk}
           made  == [name |-> orders.disk, size |-> 0, removable |-> FALSE]
       IN Layout("single",
                 IF known = {} THEN <<made>>
                 ELSE [i \in {k \in known : \A l \in known : k <= l} |-> disks[i]])
  ELSE Resolve(disks,
               IF orders.layout \in LayoutKinds THEN orders.layout ELSE "single",
               orders.min)
=============================================================================
