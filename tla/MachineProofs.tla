----------------------------- MODULE MachineProofs -----------------------------
(***************************************************************************)
(* Theorems about what becomes of a machine.  How it becomes a Box         *)
(* (Disks, Installer, FirstBoot): the resolver takes the largest disks     *)
(* that will do, only what was agreed to is erased, what an installed      *)
(* system records is what it has, every Box has an owner, and the owner's  *)
(* hash arrives, for any disks, orders and setup codes, any number of      *)
(* starts of the script and of cuts of the power.  Which system            *)
(* it then runs (OsTier): the profile never dangles, the marker tells the  *)
(* truth, and a failed update leaves the pin, for any configs and          *)
(* releases, healthy or not, and every command failing.                    *)
(***************************************************************************)
EXTENDS OsTier, Installer, FiniteSetTheorems, WellFoundedInduction, TLAPS

(***************************************************************************)
(* The values the state is made of: disks and layouts of any machine,      *)
(* orders, and the orders that carry a layout.                             *)
(***************************************************************************)
DiskRecords == [name : DiskNames, size : Nat, removable : BOOLEAN]
DiskLists == UNION {[S -> DiskRecords] : S \in SUBSET Nat}
Layouts == [ok : {TRUE}, kind : LayoutKinds, devices : DiskLists]
Plans == Layouts \union {Refused}

Files == SomeOrders \union {NoFile}
Effective == {o \in SomeOrders : o.layout \in LayoutKinds}

OpenConsoles ==
  [pc : Screens, disks : DiskLists, picked : LayoutKinds, typed : BOOLEAN,
   touched : BOOLEAN, top : BOOLEAN, given : Files]
WritingConsoles == [pc : {"orders", "disko"}, layout : Layouts, given : Files]
Consoles ==
  {NoConsole, [pc |-> "exited"]} \union OpenConsoles \union WritingConsoles

OpenServers == [up : {TRUE}, pin : Nat, given : BOOLEAN]
Servers == {NoServer} \union OpenServers
OpenWrites == [pc : {"orders", "disko", "flag"}, layout : Layouts, effective : Effective]
Writes == {NoWrite} \union OpenWrites

OpenPages == [open : {TRUE}, pin : Nat, plan : Plans]
Pages == {NoPage} \union OpenPages

Places == {"locate", "wizards", "console", "consent", "plan", "closure", "disko",
           "install", "target"} \union Ended

Shape ==
  /\ inventory \in Inventories
  /\ brought \in Files
  /\ script \in Places
  /\ starts \in Nat /\ commits \in Nat
  /\ diskocfg \in BOOLEAN /\ asked \in BOOLEAN /\ flag \in BOOLEAN
  /\ orders \in Files /\ base \in Files
  /\ disko \in Plans /\ erased \in Plans
  /\ console \in Consoles /\ server \in Servers /\ page \in Pages
  /\ writes \in [Commits -> Writes]
  /\ \A n \in Commits : writes[n] # NoWrite => server.up
  /\ script \in {"consent", "plan", "closure", "disko", "install"} => orders \in SomeOrders
  /\ script \in {"locate", "target", "flashed"} => ~asked /\ ~diskocfg

(***************************************************************************)
(* How far the script may be, by the orders it was started with.           *)
(***************************************************************************)
Closed == brought.orders /\ brought.layout # "ask"
ShutDoors ==
  /\ console = NoConsole /\ server = NoServer /\ writes = NoWrites /\ page = NoPage
  /\ chose = {}
Writing == console.pc \in {"orders", "disko"}
Busy == {n \in Commits : writes[n] # NoWrite}
Consented == agreed \union blind

NotBegun ==
  script \in {"target", "flashed"} =>
    ~brought.orders /\ ShutDoors /\ orders = NoFile /\ base = NoFile
    /\ erased = Refused /\ installed = NoFile /\ Consented = {} /\ starts = 1

ByOrders ==
  Closed =>
    /\ ShutDoors /\ ~asked /\ script \notin {"wizards", "console"}
    /\ script \in {"consent", "plan"} => orders = brought
    /\ script = "consent" => ~diskocfg

ByHand ==
  ~brought.orders => ~asked /\ script # "plan" /\ (script = "consent" => diskocfg)

InTurn ==
  /\ script \in {"wizards", "console"} => ~diskocfg
  /\ script = "console" \/ (script = "consent" /\ diskocfg) =>
       orders \in Effective \union {NoFile}
  /\ console.pc \in Screens \/ Writing => script = "console"
  /\ script \in {"closure", "disko", "install"} => diskocfg
  /\ erased.ok => script \in {"install", "failed", "finished"}

Flow == NotBegun /\ ByOrders /\ ByHand /\ InTurn

(***************************************************************************)
(* Everything that may still reach the disks was agreed to.                *)
(***************************************************************************)
Live == script = "console" \/ diskocfg

DoorsAgreed ==
  /\ Writing => Names(console.layout) \in Consented
  /\ \A n \in Busy : /\ Names(writes[n].layout) \in Consented
                     /\ writes[n].effective.chosen = Names(writes[n].layout)

DisksAgreed ==
  /\ Live /\ disko.ok => Names(disko) \in Consented
  /\ erased.ok => Names(erased) \in Consented
  /\ diskocfg => disko.ok
  /\ script = "install" \/ installed.orders => erased.ok

AgreedInv == DoorsAgreed /\ DisksAgreed

(***************************************************************************)
(* ... and fits, by one of the sizes that were asked for.                  *)
(***************************************************************************)
FitFor(layout, min) ==
  /\ \A i \in DOMAIN layout.devices :
       ~layout.devices[i].removable /\ min <= layout.devices[i].size
  /\ DOMAIN layout.devices # {}

DiskNamed == \E o \in Sources : o.disk # NoDisk

Sound(layout) ==
  \/ \E m \in AskedMins : FitFor(layout, m)
  \/ layout.kind = "single" /\ DiskNamed

Origin(o) ==
  brought.orders /\ o.orders =>
    o.min \in AskedMins /\ (o.disk = NoDisk \/ DiskNamed)

DoorsFit ==
  /\ Writing => FitFor(console.layout, DefaultMin) /\ chose # {}
  /\ \A n \in Busy : FitFor(writes[n].layout, DefaultMin) /\ chose # {}

FilesOrigin ==
  /\ console.pc \in Screens \/ Writing => Origin(console.given)
  /\ \A n \in Busy : Origin(writes[n].effective)
  /\ Origin(base)
  /\ script \in {"console", "consent", "plan"} \/ (script = "wizards" /\ asked) =>
       Origin(orders)

DisksFit ==
  /\ Live /\ disko.ok => Sound(disko)
  /\ erased.ok => Sound(erased)

FitInv == DoorsFit /\ FilesOrigin /\ DisksFit

(***************************************************************************)
(* Every choice is a new one, and in the first start what was chosen is    *)
(* what the orders record.                                                 *)
(***************************************************************************)
Choices ==
  /\ starts # 0
  /\ IsFiniteSet(chose)
  /\ \A c \in chose : \/ c[1] = "browser" /\ c[2] \in Nat /\ c[2] < commits
                      \/ c[1] = "console" /\ c[2] \in Nat /\ c[2] <= starts
  /\ <<"console", starts>> \in chose =>
       /\ console.pc \notin Screens
       /\ script \notin {"locate", "wizards"} /\ (script = "consent" => diskocfg)

(* Nobody can have chosen before the doors of the first start are open. *)
NoneYet ==
  starts = 1 /\ ~Closed =>
    /\ script \in {"locate", "wizards"} => ShutDoors
    /\ script = "consent" /\ ~diskocfg => ShutDoors /\ orders = brought
    /\ script # "plan"

Counted ==
  starts = 1 /\ ~Closed =>
    /\ chose = {} => Consented = {}
    /\ \A c : chose = {c} => \E n : Consented = {n}

Recorded ==
  starts = 1 /\ ~Closed =>
    /\ Live /\ orders.orders => orders.chosen \in Consented
    /\ installed.orders => installed.chosen \in Consented

ChoiceInv == Choices /\ NoneYet /\ Counted /\ Recorded

(***************************************************************************)
(* The handoff.                                                            *)
(***************************************************************************)
Taken == {"own", "settle", "scrub", "stamp", "up"}

HandoffType ==
  /\ conf \in Files \union {Torn} /\ claim \in Files \union {Blank}
  /\ boot \in {"off", "begin", "copy"} \union Taken
  /\ codes \in Nat /\ redeemed \in Nat /\ cuts \in Nat
  /\ stamp \in BOOLEAN /\ tore \in BOOLEAN /\ unseeded \in BOOLEAN
  /\ installed \in Files
  /\ helper \in {"none", "waiting", "paired", "gave up"}

(* The machine was not started from its own disk yet. *)
NotStarted ==
  boot = "off" /\ cuts = 0 =>
    /\ ~stamp /\ codes = 0 /\ redeemed = 0 /\ ~tore /\ ~unseeded /\ conf \in Files
    /\ claim.orders => conf = NoFile

(* How the orders get to the Box. *)
OrdersTaken ==
  /\ boot = "copy" => claim.orders /\ conf = Torn /\ ~stamp
  /\ boot \in Taken /\ conf = NoFile => boot = "up" /\ (~claim.orders \/ unseeded)
  /\ conf = Torn /\ ~tore => boot = "copy"
  /\ claim.orders /\ conf.orders => conf = claim

(* Ownership comes before what may fail, and before the stamp. *)
OwnerFirst ==
  /\ codes > 0 \/ redeemed > 0 => Named(conf)
  /\ stamp => boot \in {"off", "begin", "up"} /\ conf # NoFile
  /\ stamp /\ Named(conf) /\ ~unseeded => codes > 0 \/ redeemed > 0
  /\ boot \in Taken \ {"own"} /\ Named(conf) /\ ~unseeded => codes > 0 \/ redeemed > 0

(* Which orders they are, and what the other Box knows of them. *)
WhoseOrders ==
  /\ script # "flashed" => ~claim.orders
  /\ script # "flashed" /\ conf.orders => conf = installed
  /\ helper \in {"waiting", "paired"} => brought \in Shipped /\ script \notin {"target", "flashed"}
  /\ helper = "paired" => redeemed > 0 /\ installed.orders /\ installed.owner = "brought"

HandoffInv == HandoffType /\ NotStarted /\ OrdersTaken /\ OwnerFirst /\ WhoseOrders

(***************************************************************************)
(* Orders that may be installed have an owner, as long as no page committed *)
(* a code with a bad one.                                                  *)
(***************************************************************************)
HasOwner(o) == o.orders => Hex64(o.owner)

(* A place of the script from which orders are installed without being      *)
(* validated again.                                                         *)
Past ==
  \/ script = "wizards" /\ asked
  \/ script \in {"console", "plan", "closure", "disko", "install"}

FilesOwned ==
  /\ Past => HasOwner(orders)
  /\ HasOwner(base) /\ HasOwner(installed)

DoorsOwned ==
  /\ console.pc \in Screens \/ Writing => HasOwner(console.given)
  /\ \A n \in Busy : HasOwner(writes[n].effective)

OwnersInv == ~BadlyPasted => FilesOwned /\ DoorsOwned

-----------------------------------------------------------------------------
(***************************************************************************)
(* Disks and layouts.                                                      *)
(***************************************************************************)

(* A list of disks: what is at its places is a disk, *)
LEMMA ListOfDisks ==
  ASSUME NEW d \in DiskLists
  PROVE  DOMAIN d \subseteq Nat /\ \A i \in DOMAIN d : d[i] \in DiskRecords
  BY DEF DiskLists

(* and some of its places are a list again. *)
LEMMA SomeOfDisks ==
  ASSUME NEW d \in DiskLists, NEW T \in SUBSET DOMAIN d
  PROVE  [i \in T |-> d[i]] \in DiskLists
<1>1. T \in SUBSET Nat /\ \A i \in T : d[i] \in DiskRecords
  BY ListOfDisks
<1>2. [i \in T |-> d[i]] \in [T -> DiskRecords]
  BY <1>1
<1> QED
  BY <1>1, <1>2 DEF DiskLists

(* What a field of lsblk is read as. *)
LEMMA FieldRead ==
  ASSUME NEW T, NEW field \in {<<>>} \union Seq(T), NEW default \in T
  PROVE  OrElse(field, default) \in T
  BY DEF OrElse

(* The probe makes a list of disks, finitely many, of anything that lsblk    *)
(* may list.                                                                 *)
LEMMA Probed ==
  ASSUME NEW v \in Seq(Devices)
  PROVE  Parsed(v) \in DiskLists /\ IsFiniteSet(DOMAIN Parsed(v))
<1> DEFINE whole == {p \in DOMAIN v : v[p].type = "disk"}
<1>1. v \in [1 .. Len(v) -> Devices] /\ Len(v) \in Nat
  OBVIOUS
<1>2. whole \in SUBSET Nat /\ \A i \in whole : v[i] \in Devices
  BY <1>1
<1>3. ASSUME NEW i \in whole
      PROVE  [name |-> v[i].name, size |-> OrElse(v[i].size, 0),
              removable |-> OrElse(v[i].rm, FALSE)] \in DiskRecords
  <2>1. v[i].name \in DiskNames /\ v[i].size \in {<<>>} \union Seq(Nat)
        /\ v[i].rm \in {<<>>} \union Seq(BOOLEAN)
    BY <1>2 DEF Devices
  <2>2. OrElse(v[i].size, 0) \in Nat
    <3>1. 0 \in Nat
      OBVIOUS
    <3> QED
      BY <2>1, <3>1, FieldRead, Zenon
  <2>3. OrElse(v[i].rm, FALSE) \in BOOLEAN
    <3>1. FALSE \in BOOLEAN
      OBVIOUS
    <3> QED
      BY <2>1, <3>1, FieldRead, Zenon
  <2> QED
    BY <2>1, <2>2, <2>3 DEF DiskRecords
<1>4. Parsed(v) \in [whole -> DiskRecords]
  BY <1>3 DEF Parsed
<1>5. IsFiniteSet(whole)
  <2>1. whole \in SUBSET (1 .. Len(v)) /\ IsFiniteSet(1 .. Len(v))
    BY <1>1, FS_Interval
  <2> HIDE DEF whole
  <2> QED
    BY <2>1, FS_Subset
<1>6. DOMAIN Parsed(v) = whole
  BY DEF Parsed
<1> HIDE DEF whole
<1> QED
  BY <1>2, <1>4, <1>5, <1>6 DEF DiskLists

(* So it does on this machine. *)
LEMMA ProbeTyped ==
  ASSUME NEW v \in Inventories
  PROVE  Parsed(v) \in DiskLists
<1>1. v \in Seq(Devices)
  BY OrdersAssumption
<1> QED
  BY <1>1, Probed

(* A layout is the kind and the disks that were put into it. *)
LEMMA LayoutFields ==
  ASSUME NEW kind, NEW devices
  PROVE  /\ Layout(kind, devices).ok = TRUE /\ Layout(kind, devices).kind = kind
         /\ Layout(kind, devices).devices = devices
         /\ kind \in LayoutKinds /\ devices \in DiskLists => Layout(kind, devices) \in Layouts
  BY DEF Layout, Layouts

(* A refusal is a plan that is none. *)
LEMMA RefusedPlan == Refused \in Plans /\ Refused.ok = FALSE
  BY DEF Refused, Plans

(* A plan that is not refused is a layout. *)
LEMMA LayoutOk ==
  ASSUME NEW l \in Plans
  PROVE  l.ok \in BOOLEAN /\ (l.ok => l \in Layouts)
<1>1. CASE l = Refused
  BY <1>1, RefusedPlan
<1>2. CASE l \in Layouts
  BY <1>2 DEF Layouts
<1> QED
  BY <1>1, <1>2 DEF Plans

(* A layout names disks. *)
LEMMA NamesTyped ==
  ASSUME NEW l \in Layouts
  PROVE  Names(l) \in SUBSET DiskNames
<1>1. l.devices \in DiskLists
  BY DEF Layouts
<1>2. \A i \in DOMAIN l.devices : l.devices[i].name \in DiskNames
  BY <1>1, ListOfDisks DEF DiskRecords
<1> QED
  BY <1>2 DEF Names

(* Whatever the machine has, an intent is refused, or resolves to disks that *)
(* are internal and large enough, and at least one.                          *)
LEMMA Resolved ==
  ASSUME NEW disks \in DiskLists, NEW kind \in LayoutKinds, NEW min \in Nat
  PROVE  LET l == Resolve(disks, kind, min)
         IN l \in Plans /\ (l.ok => l.kind = kind /\ FitFor(l, min))
<1> DEFINE fit == Eligible(disks, min)
           need == IF kind = "single" THEN 1 ELSE 2
           taken == IF kind = "pool" THEN fit ELSE Largest(disks, fit, need)
           dev == [i \in taken |-> disks[i]]
           l == Layout(kind, dev)
<1>1. fit \subseteq DOMAIN disks /\ \A i \in fit : ~disks[i].removable /\ min <= disks[i].size
  <2>1. fit \subseteq DOMAIN disks
    BY DEF Eligible
  <2>2. \A i \in DOMAIN disks : disks[i].size \in Nat
    BY ListOfDisks DEF DiskRecords
  <2> QED
    BY <2>1, <2>2 DEF Eligible
<1>2. taken \subseteq fit
  BY DEF Largest
<1>3. dev \in DiskLists
  BY <1>1, <1>2, SomeOfDisks
<1>4. CASE Cardinality(taken) >= need /\ (kind = "mirror" => Matched(disks, taken))
  <2>1. Resolve(disks, kind, min) = l
    BY <1>4 DEF Resolve
  <2>2. taken # {}
    <3>1. SUFFICES ASSUME taken = {} PROVE FALSE
      OBVIOUS
    <3>2. Cardinality(taken) = 0
      BY <3>1, FS_EmptySet
    <3> QED
      BY <1>4, <3>2
  <2>3. l \in Layouts /\ l.kind = kind /\ l.devices = dev
    <3> HIDE DEF dev
    <3> QED
      BY <1>3, LayoutFields
  <2>4. FitFor(l, min)
    BY <1>1, <1>2, <2>2, <2>3 DEF FitFor
  <2> QED
    BY <2>1, <2>3, <2>4 DEF Plans
<1>5. CASE ~(Cardinality(taken) >= need /\ (kind = "mirror" => Matched(disks, taken)))
  <2>1. Resolve(disks, kind, min) = Refused
    BY <1>5 DEF Resolve
  <2> QED
    BY <2>1, RefusedPlan
<1> QED
  BY <1>4, <1>5

(* Orders resolve to a layout that fits what they ask for, or to the disk    *)
(* they name.                                                                *)
LEMMA OrdersResolved ==
  ASSUME NEW o \in SomeOrders, NEW disks \in DiskLists
  PROVE  LET l == ResolvePolicy(o, disks)
         IN /\ l \in Plans
            /\ l.ok => \/ o.disk # NoDisk /\ l.kind = "single"
                       \/ o.disk = NoDisk /\ FitFor(l, o.min)
<1>1. o.disk \in DiskNames \union {NoDisk} /\ o.min \in Nat
  BY DEF SomeOrders
<1>2. CASE o.disk # NoDisk
  <2> DEFINE known == {i \in DOMAIN disks : disks[i].name = o.disk}
             made == [name |-> o.disk, size |-> 0, removable |-> FALSE]
             first == {k \in known : \A l \in known : k <= l}
             dev == IF known = {} THEN <<made>> ELSE [i \in first |-> disks[i]]
  <2>1. made \in DiskRecords
    BY <1>1, <1>2 DEF DiskRecords
  <2>2. <<made>> \in DiskLists
    <3> HIDE DEF made
    <3>1. <<made>> \in [{1} -> DiskRecords] /\ {1} \in SUBSET Nat
      BY <2>1
    <3> QED
      BY <3>1 DEF DiskLists
  <2>3. [i \in first |-> disks[i]] \in DiskLists
    BY SomeOfDisks
  <2>4. dev \in DiskLists
    BY <2>2, <2>3
  <2>5. ResolvePolicy(o, disks) = Layout("single", dev)
    BY <1>2 DEF ResolvePolicy
  <2>6. "single" \in LayoutKinds
    BY DEF LayoutKinds
  <2> HIDE DEF dev
  <2>7. Layout("single", dev) \in Layouts /\ Layout("single", dev).kind = "single"
    BY <2>4, <2>6, LayoutFields
  <2> QED
    BY <1>2, <2>5, <2>7 DEF Plans
<1>3. CASE o.disk = NoDisk
  <2> DEFINE kind == IF o.layout \in LayoutKinds THEN o.layout ELSE "single"
  <2>1. kind \in LayoutKinds
    BY DEF LayoutKinds
  <2>2. ResolvePolicy(o, disks) = Resolve(disks, kind, o.min)
    BY <1>3 DEF ResolvePolicy
  <2> HIDE DEF kind
  <2> QED
    BY <1>1, <1>3, <2>1, <2>2, Resolved
<1> QED
  BY <1>2, <1>3

-----------------------------------------------------------------------------
(***************************************************************************)
(* Which disks the resolver takes.                                         *)
(***************************************************************************)

(* A set of naturals has a least one. *)
LEMMA LeastOfNaturals ==
  ASSUME NEW S \in SUBSET Nat, S # {}
  PROVE  \E n \in S : \A m \in S : n <= m
<1> DEFINE R == OpToRel(<, Nat)
<1>1. IsWellFoundedOn(R, Nat)
  BY NatLessThanWellFounded
<1>2. PICK x \in S : \A y \in S : ~(<<y, x>> \in R)
  <2> HIDE DEF R
  <2> QED
    BY <1>1, WFMin, Zenon
<1>3. \A y \in S : ~(y < x)
  BY <1>2, Zenon DEF OpToRel
<1> QED
  BY <1>3

(* The order the resolver takes disks in is strict and total. *)
LEMMA BeforeOrders ==
  ASSUME NEW d \in DiskLists, NEW i \in DOMAIN d, NEW j \in DOMAIN d, NEW k \in DOMAIN d
  PROVE  /\ ~Before(d, i, i)
         /\ i # j => Before(d, i, j) \/ Before(d, j, i)
         /\ Before(d, i, j) /\ Before(d, j, k) => Before(d, i, k)
         /\ ~Before(d, i, j) => d[i].size <= d[j].size
<1>1. /\ d[i].size \in Nat /\ d[j].size \in Nat /\ d[k].size \in Nat
      /\ i \in Nat /\ j \in Nat /\ k \in Nat
  BY ListOfDisks DEF DiskRecords
<1> QED
  BY <1>1 DEF Before

(* Of finitely many disks one comes first: the one with the fewest before it. *)
LEMMA FirstOfDisks ==
  ASSUME NEW d \in DiskLists, NEW T \in SUBSET DOMAIN d, IsFiniteSet(T), T # {}
  PROVE  \E i \in T : \A j \in T : ~Before(d, j, i)
<1> DEFINE ahead(i) == {j \in T : Before(d, j, i)}
           ranks == {Cardinality(ahead(i)) : i \in T}
<1>1. ASSUME NEW i \in T
      PROVE  IsFiniteSet(ahead(i)) /\ Cardinality(ahead(i)) \in Nat
  <2>1. ahead(i) \in SUBSET T
    OBVIOUS
  <2> HIDE DEF ahead
  <2> QED
    BY <2>1, FS_Subset, FS_CardinalityType
<1>2. ranks \in SUBSET Nat /\ ranks # {}
  BY <1>1
<1>3. PICK n \in ranks : \A m \in ranks : n <= m
  <2> HIDE DEF ranks
  <2> QED
    BY <1>2, LeastOfNaturals
<1>4. PICK i \in T : n = Cardinality(ahead(i))
  OBVIOUS
<1>5. SUFFICES ASSUME NEW j \in T, Before(d, j, i) PROVE FALSE
  OBVIOUS
<1>6. ahead(j) \in SUBSET ahead(i) /\ j \in ahead(i) /\ j \notin ahead(j)
  BY <1>5, BeforeOrders
<1>7. Cardinality(ahead(j)) \in ranks
  OBVIOUS
<1> HIDE DEF ahead, ranks
<1>8. /\ Cardinality(ahead(j)) <= Cardinality(ahead(i))
      /\ Cardinality(ahead(j)) # Cardinality(ahead(i))
  BY <1>1, <1>6, FS_Subset
<1> QED
  BY <1>1, <1>3, <1>4, <1>7, <1>8

(* None of the disks that are left is before one that was taken. *)
LEMMA TakenAreFirst ==
  ASSUME NEW d \in DiskLists, NEW fit \in SUBSET DOMAIN d, IsFiniteSet(fit), NEW n \in Nat,
         NEW i \in Largest(d, fit, n), NEW j \in fit \ Largest(d, fit, n)
  PROVE  Before(d, i, j) /\ d[j].size <= d[i].size
<1> DEFINE ahead(k) == {m \in fit : Before(d, m, k)}
<1>1. /\ i \in fit /\ i # j /\ ~(Cardinality(ahead(j)) < n) /\ Cardinality(ahead(i)) < n
      /\ i \in DOMAIN d /\ j \in DOMAIN d
  BY DEF Largest
<1>2. ahead(i) \in SUBSET fit /\ ahead(j) \in SUBSET fit
  OBVIOUS
<1>3. /\ Cardinality(ahead(i)) \in Nat /\ Cardinality(ahead(j)) \in Nat
      /\ IsFiniteSet(ahead(i))
  <2> HIDE DEF ahead
  <2> QED
    BY <1>2, FS_Subset, FS_CardinalityType
<1>4. ~Before(d, j, i)
  <2> SUFFICES ASSUME Before(d, j, i) PROVE FALSE
    OBVIOUS
  <2>1. ahead(j) \in SUBSET ahead(i)
    BY <1>1, BeforeOrders
  <2> HIDE DEF ahead
  <2>2. Cardinality(ahead(j)) <= Cardinality(ahead(i))
    BY <1>3, <2>1, FS_Subset
  <2> QED
    BY <1>1, <1>3, <2>2
<1> QED
  BY <1>1, <1>4, BeforeOrders

(* The first disk of those that fit is the one nothing is before. *)
LEMMA OneTaken ==
  ASSUME NEW d \in DiskLists, NEW fit \in SUBSET DOMAIN d, IsFiniteSet(fit), fit # {}
  PROVE  \E i \in fit : Largest(d, fit, 1) = {i}
<1> DEFINE ahead(k) == {m \in fit : Before(d, m, k)}
<1>1. PICK i \in fit : \A j \in fit : ~Before(d, j, i)
  BY FirstOfDisks
<1>2. i \in Largest(d, fit, 1)
  <2>1. ahead(i) = {}
    BY <1>1
  <2>2. Cardinality(ahead(i)) = 0
    BY <2>1, FS_EmptySet
  <2> QED
    BY <2>2 DEF Largest
<1>3. ASSUME NEW j \in fit, j # i PROVE j \notin Largest(d, fit, 1)
  <2>1. i \in ahead(j)
    BY <1>1, <1>3, BeforeOrders
  <2>2. ahead(j) \in SUBSET fit
    OBVIOUS
  <2>3. j \in Largest(d, fit, 1) <=> Cardinality(ahead(j)) < 1
    BY DEF Largest
  <2> HIDE DEF ahead
  <2>4. IsFiniteSet(ahead(j)) /\ Cardinality(ahead(j)) \in Nat
    BY <2>2, FS_Subset, FS_CardinalityType
  <2>5. Cardinality(ahead(j)) # 0
    BY <2>1, <2>4, FS_EmptySet
  <2> QED
    BY <2>3, <2>4, <2>5
<1>4. Largest(d, fit, 1) \subseteq fit
  BY DEF Largest
<1> QED
  BY <1>2, <1>3, <1>4

(* Two different things are two. *)
LEMMA TwoOfAPair ==
  ASSUME NEW i, NEW j, i # j
  PROVE  Cardinality({i, j}) = 2
<1> DEFINE S == {i}
<1>1. IsFiniteSet(S) /\ Cardinality(S) = 1
  BY FS_Singleton
<1>2. {i, j} = S \union {j} /\ j \notin S
  OBVIOUS
<1> HIDE DEF S
<1>3. Cardinality(S \union {j}) = 2
  BY <1>1, <1>2, FS_AddElement
<1> QED
  BY <1>2, <1>3

(* The first two are the first one and the first of the others. *)
LEMMA TwoTaken ==
  ASSUME NEW d \in DiskLists, NEW fit \in SUBSET DOMAIN d, IsFiniteSet(fit),
         Cardinality(fit) >= 2
  PROVE  \E i, j \in fit : i # j /\ Largest(d, fit, 2) = {i, j}
<1> DEFINE ahead(k) == {m \in fit : Before(d, m, k)}
<1>1. fit # {}
  BY FS_EmptySet
<1>2. PICK i \in fit : \A k \in fit : ~Before(d, k, i)
  BY <1>1, FirstOfDisks
<1>3. IsFiniteSet(fit \ {i}) /\ fit \ {i} # {}
  <2>1. IsFiniteSet(fit \ {i}) /\ Cardinality(fit \ {i}) = Cardinality(fit) - 1
    BY FS_RemoveElement
  <2>2. Cardinality(fit) \in Nat
    BY FS_CardinalityType
  <2> QED
    BY <2>1, <2>2, FS_EmptySet
<1>4. PICK j \in fit \ {i} : \A k \in fit \ {i} : ~Before(d, k, j)
  BY <1>3, FirstOfDisks
<1>5. Before(d, i, j)
  BY <1>2, <1>4, BeforeOrders
<1>6. i \in Largest(d, fit, 2)
  <2>1. ahead(i) = {}
    BY <1>2
  <2>2. Cardinality(ahead(i)) = 0
    BY <2>1, FS_EmptySet
  <2> QED
    BY <2>2 DEF Largest
<1>7. j \in Largest(d, fit, 2)
  <2>1. ahead(j) = {i}
    BY <1>4, <1>5
  <2>2. Cardinality(ahead(j)) = 1
    BY <2>1, FS_Singleton
  <2> QED
    BY <2>2 DEF Largest
<1>8. ASSUME NEW k \in fit, k # i, k # j PROVE k \notin Largest(d, fit, 2)
  <2>1. {i, j} \in SUBSET ahead(k)
    BY <1>2, <1>4, <1>8, BeforeOrders
  <2>2. ahead(k) \in SUBSET fit
    OBVIOUS
  <2>3. k \in Largest(d, fit, 2) <=> Cardinality(ahead(k)) < 2
    BY DEF Largest
  <2>4. Cardinality({i, j}) = 2
    BY <1>4, TwoOfAPair
  <2> HIDE DEF ahead
  <2>5. IsFiniteSet(ahead(k)) /\ Cardinality(ahead(k)) \in Nat
    BY <2>2, FS_Subset, FS_CardinalityType
  <2>6. Cardinality({i, j}) <= Cardinality(ahead(k))
    BY <2>1, <2>5, FS_Subset
  <2> QED
    BY <2>3, <2>4, <2>5, <2>6
<1>9. Largest(d, fit, 2) \subseteq fit
  BY DEF Largest
<1>10. Largest(d, fit, 2) = {i, j} /\ i # j
  BY <1>4, <1>6, <1>7, <1>8, <1>9
<1> QED
  BY <1>4, <1>10

(* The resolver is right about whatever lsblk lists: it takes one disk, two  *)
(* or every one, of those that will do, and leaves none that is larger than  *)
(* one it takes; and it refuses only when there are too few, or when of the  *)
(* two largest one is more than a tenth larger than the other.               *)
THEOREM TheLargestAreTaken ==
  ASSUME NEW v \in Seq(Devices), NEW kind \in LayoutKinds, NEW min \in Nat
  PROVE  LET disks  == Parsed(v)
             fit    == Eligible(disks, min)
             layout == Resolve(disks, kind, min)
             taken  == DOMAIN layout.devices
         IN IF layout.ok
            THEN /\ taken \subseteq fit /\ layout.devices = [i \in taken |-> disks[i]]
                 /\ kind = "single" => \E i : taken = {i}
                 /\ kind = "mirror" => \E i, j : i # j /\ taken = {i, j}
                 /\ kind = "pool" => taken = fit
                 /\ \A i \in taken, j \in fit \ taken : disks[j].size <= disks[i].size
            ELSE \/ kind = "single" /\ fit = {}
                 \/ kind # "single" /\ Cardinality(fit) < 2
                 \/ kind = "mirror" /\ \E i, j \in fit :
                      /\ \A k \in fit \ {i, j} : /\ disks[k].size <= disks[i].size
                                                 /\ disks[k].size <= disks[j].size
                      /\ 10 * (disks[i].size - disks[j].size) > disks[i].size
<1> DEFINE disks == Parsed(v)
           fit   == Eligible(disks, min)
           need  == IF kind = "single" THEN 1 ELSE 2
           taken == IF kind = "pool" THEN fit ELSE Largest(disks, fit, need)
           dev   == [i \in taken |-> disks[i]]
           l     == Resolve(disks, kind, min)
<1>1. disks \in DiskLists /\ IsFiniteSet(DOMAIN disks)
  BY Probed
<1>2. fit \in SUBSET DOMAIN disks /\ IsFiniteSet(fit)
  <2>1. fit \in SUBSET DOMAIN disks
    BY DEF Eligible
  <2> HIDE DEF fit, disks
  <2> QED
    BY <1>1, <2>1, FS_Subset
<1>3. Cardinality(fit) \in Nat
  <2> HIDE DEF fit
  <2> QED
    BY <1>2, FS_CardinalityType
<1>4. taken \subseteq fit /\ DOMAIN dev = taken
  BY DEF Largest
<1>5. CASE Cardinality(taken) >= need /\ (kind = "mirror" => Matched(disks, taken))
  <2>1. l.ok = TRUE /\ l.devices = dev
    <3>1. l = Layout(kind, dev)
      BY <1>5 DEF Resolve
    <3> HIDE DEF dev, l
    <3> QED
      BY <3>1, LayoutFields
  <2>2. kind = "single" => \E i : taken = {i}
    <3> SUFFICES ASSUME kind = "single" PROVE \E i : taken = {i}
      OBVIOUS
    <3>1. taken = Largest(disks, fit, 1)
      OBVIOUS
    <3>2. fit # {}
      <4>1. SUFFICES ASSUME fit = {} PROVE FALSE
        OBVIOUS
      <4>2. taken = {} /\ Cardinality(taken) >= 1
        BY <1>4, <1>5, <4>1
      <4> HIDE DEF taken
      <4> QED
        BY <4>2, FS_EmptySet
    <3> HIDE DEF disks, fit, taken
    <3> QED
      BY <1>1, <1>2, <3>1, <3>2, OneTaken
  <2>3. kind = "mirror" => \E i, j : i # j /\ taken = {i, j}
    <3> SUFFICES ASSUME kind = "mirror" PROVE \E i, j : i # j /\ taken = {i, j}
      OBVIOUS
    <3>1. taken = Largest(disks, fit, 2) /\ Cardinality(taken) >= 2
      BY <1>5
    <3> HIDE DEF disks, fit, taken
    <3>2. Cardinality(taken) <= Cardinality(fit) /\ Cardinality(taken) \in Nat
      BY <1>2, <1>4, FS_Subset, FS_CardinalityType
    <3>3. Cardinality(fit) >= 2
      BY <1>3, <3>1, <3>2
    <3> QED
      BY <1>1, <1>2, <3>1, <3>3, TwoTaken
  <2>4. kind = "pool" => taken = fit
    OBVIOUS
  <2>5. \A i \in taken, j \in fit \ taken : disks[j].size <= disks[i].size
    <3>1. CASE kind = "pool"
      BY <3>1
    <3>2. CASE kind # "pool"
      <4>1. taken = Largest(disks, fit, need) /\ need \in Nat
        BY <3>2
      <4> HIDE DEF disks, fit, taken, need
      <4> QED
        BY <1>1, <1>2, <4>1, TakenAreFirst
    <3> QED
      BY <3>1, <3>2
  <2>6. DOMAIN l.devices = taken /\ l.devices = [i \in taken |-> disks[i]]
    BY <1>4, <2>1
  <2> HIDE DEF disks, fit, taken, l, dev
  <2>7. l.ok /\ taken \subseteq fit
    BY <1>4, <2>1
  <2> QED
    BY <2>2, <2>3, <2>4, <2>5, <2>6, <2>7 DEF disks, fit, l
<1>6. CASE ~(Cardinality(taken) >= need /\ (kind = "mirror" => Matched(disks, taken)))
  <2>1. l.ok = FALSE
    BY <1>6, RefusedPlan DEF Resolve
  <2>2. CASE kind = "single"
    <3>1. taken = Largest(disks, fit, 1) /\ ~(Cardinality(taken) >= 1)
      BY <1>6, <2>2
    <3>2. fit = {}
      <4>1. SUFFICES ASSUME fit # {} PROVE FALSE
        OBVIOUS
      <4> HIDE DEF disks, fit, taken
      <4>2. PICK i \in fit : taken = {i}
        BY <1>1, <1>2, <3>1, <4>1, OneTaken
      <4>3. Cardinality(taken) = 1
        BY <4>2, FS_Singleton
      <4> QED
        BY <3>1, <4>3
    <3> QED
      BY <2>1, <2>2, <3>2
  <2>3. CASE kind # "single" /\ Cardinality(fit) < 2
    BY <2>1, <2>3
  <2>4. CASE kind # "single" /\ ~(Cardinality(fit) < 2)
    <3>1. Cardinality(fit) >= 2
      BY <1>3, <2>4
    <3>2. CASE kind = "pool"
      BY <1>6, <3>1, <3>2
    <3>3. CASE kind = "mirror"
      <4>1. taken = Largest(disks, fit, 2)
        BY <3>3
      <4>2. PICK a, b \in fit : a # b /\ taken = {a, b}
        <5> HIDE DEF disks, fit, taken
        <5> QED
          BY <1>1, <1>2, <3>1, <4>1, TwoTaken
      <4>3. ~Matched(disks, taken)
        <5>1. Cardinality(taken) = 2
          <6> HIDE DEF taken
          <6> QED
            BY <4>2, TwoOfAPair
        <5> QED
          BY <1>6, <3>3, <5>1
      <4>4. PICK i, j \in taken : ~(10 * (disks[i].size - disks[j].size) <= disks[i].size)
        BY <4>3 DEF Matched
      <4>5. i \in fit /\ j \in fit /\ disks[i].size \in Nat /\ disks[j].size \in Nat
        <5> HIDE DEF taken, fit
        <5>1. i \in DOMAIN disks /\ j \in DOMAIN disks /\ i \in fit /\ j \in fit
          BY <1>2, <1>4, <4>4
        <5> HIDE DEF disks
        <5> QED
          BY <1>1, <5>1, ListOfDisks DEF DiskRecords
      <4> HIDE DEF taken, fit, disks
      <4>6. 10 * (disks[i].size - disks[j].size) > disks[i].size
        BY <4>4, <4>5
      <4>7. {i, j} = taken
        <5>1. i # j
          BY <4>5, <4>6
        <5> QED
          BY <4>2, <4>4, <5>1
      <4>8. ASSUME NEW k \in fit \ {i, j}
            PROVE  disks[k].size <= disks[i].size /\ disks[k].size <= disks[j].size
        <5>1. /\ i \in Largest(disks, fit, 2) /\ j \in Largest(disks, fit, 2)
              /\ k \in fit \ Largest(disks, fit, 2)
          BY <4>1, <4>4, <4>7
        <5> QED
          BY <1>1, <1>2, <5>1, TakenAreFirst
      <4>9. \E x, y \in fit :
              /\ \A k \in fit \ {x, y} : /\ disks[k].size <= disks[x].size
                                         /\ disks[k].size <= disks[y].size
              /\ 10 * (disks[x].size - disks[y].size) > disks[x].size
        BY <4>5, <4>6, <4>8
      <4> HIDE DEF l
      <4> QED
        BY <2>1, <3>3, <4>9 DEF l, fit, disks
    <3> QED
      BY <2>4, <3>2, <3>3 DEF LayoutKinds
  <2> QED
    BY <2>2, <2>3, <2>4
<1> QED
  BY <1>5, <1>6

-----------------------------------------------------------------------------
(***************************************************************************)
(* Orders.                                                                 *)
(***************************************************************************)
LEMMA FilesTyped ==
  /\ NoFile.orders = FALSE
  /\ \A o \in SomeOrders : o.orders = TRUE /\ o # NoFile
  /\ \A o \in Files : o.orders \in BOOLEAN /\ (o.orders => o \in SomeOrders)
  /\ NoFile \in Files
<1>1. NoFile.orders = FALSE
  BY DEF NoFile
<1>2. \A o \in SomeOrders : o.orders = TRUE
  BY DEF SomeOrders
<1>3. \A o \in SomeOrders : o # NoFile
  BY <1>1, <1>2
<1>4. \A o \in Files : o.orders \in BOOLEAN /\ (o.orders => o \in SomeOrders)
  BY <1>1, <1>2 DEF Files
<1>5. NoFile \in Files
  BY DEF Files
<1> QED
  BY <1>1, <1>2, <1>3, <1>4, <1>5

(* The orders a wizard writes record the layout that was settled, whatever   *)
(* base they are made from, and have an owner, unless the base has a bad one. *)
LEMMA WizardOrders ==
  ASSUME NEW b \in Files, NEW l \in Layouts, NEW minted \in {"shown", "unseen"}
  PROVE  LET e == EnsureEnrollment(EffectiveOrders(b, l), minted)
         IN /\ e \in Effective /\ e.chosen = Names(l)
            /\ b.orders => e.min = b.min /\ e.disk = b.disk
            /\ ~b.orders => e.min = DefaultMin /\ e.disk = NoDisk
            /\ (b.orders => b.owner # "malformed") => Hex64(e.owner)
<1> DEFINE known == IF b = NoFile
                    THEN Orders(TRUE, "none", "absent", NoDisk, DefaultMin, TRUE)
                    ELSE b
           f == [known EXCEPT !.erase = TRUE, !.layout = l.kind, !.chosen = Names(l)]
           e == IF f.owner = "none" THEN [f EXCEPT !.owner = minted] ELSE f
<1>1. Names(l) \in SUBSET DiskNames /\ l.kind \in LayoutKinds
  BY NamesTyped DEF Layouts
<1>2. known \in SomeOrders
      /\ ((b.orders => b.owner # "malformed") => known.owner # "malformed")
  <2>1. CASE b = NoFile
    BY <2>1, SizesAssumption DEF Orders, SomeOrders, Owners
  <2>2. CASE b # NoFile
    BY <2>2, FilesTyped DEF Files
  <2> QED
    BY <2>1, <2>2
<1>3. /\ b.orders => known.min = b.min /\ known.disk = b.disk
      /\ ~b.orders => known.min = DefaultMin /\ known.disk = NoDisk
  BY FilesTyped DEF Files, Orders
<1> HIDE DEF known
<1>4. f \in SomeOrders /\ f.chosen = Names(l) /\ f.layout = l.kind /\ f.min = known.min
      /\ f.disk = known.disk /\ f.owner = known.owner
  BY <1>1, <1>2 DEF SomeOrders
<1> HIDE DEF f
<1>5. e \in SomeOrders /\ e.chosen = Names(l) /\ e.layout = l.kind /\ e.min = known.min
      /\ e.disk = known.disk /\ (known.owner # "malformed" => Hex64(e.owner))
  BY <1>2, <1>4 DEF SomeOrders, Owners, Hex64
<1>6. EnsureEnrollment(EffectiveOrders(b, l), minted) = e
  BY DEF EnsureEnrollment, EffectiveOrders, known, f
<1> HIDE DEF e
<1> QED
  BY <1>1, <1>2, <1>3, <1>5, <1>6 DEF Effective

(***************************************************************************)
(* The doors, by where they are.                                           *)
(***************************************************************************)
LEMMA ConsoleKnown ==
  ASSUME NEW c \in Consoles
  PROVE  /\ c.pc \in {"off", "exited", "orders", "disko"} \union Screens
         /\ c.pc \in Screens => c \in OpenConsoles
         /\ c.pc \in {"orders", "disko"} => c \in WritingConsoles
<1>1. CASE c \in {NoConsole, [pc |-> "exited"]}
  BY <1>1 DEF NoConsole, Screens
<1>2. CASE c \in OpenConsoles
  BY <1>2 DEF OpenConsoles, Screens
<1>3. CASE c \in WritingConsoles
  BY <1>3 DEF WritingConsoles, Screens
<1> QED
  BY <1>1, <1>2, <1>3 DEF Consoles

(* ... the server of the browser wizard ... *)
LEMMA ServerKnown ==
  ASSUME NEW s \in Servers
  PROVE  /\ s.up \in BOOLEAN
         /\ s.up => s \in OpenServers /\ s.pin \in Nat /\ s.given \in BOOLEAN
<1>1. CASE s = NoServer
  BY <1>1 DEF NoServer
<1>2. CASE s \in OpenServers
  BY <1>2 DEF OpenServers
<1> QED
  BY <1>1, <1>2 DEF Servers

(* ... a commit it writes ... *)
LEMMA WriteKnown ==
  ASSUME Shape, NEW n \in Commits
  PROVE  /\ n \in Busy <=> writes[n] # NoWrite
         /\ n \in Busy => writes[n] \in OpenWrites /\ server.up
         /\ writes[n].pc \in {"orders", "disko", "flag"} => n \in Busy
<1>1. writes[n] \in Writes /\ (writes[n] # NoWrite => server.up)
  BY DEF Shape
<1>2. NoWrite.pc = "none"
  BY DEF NoWrite
<1> QED
  BY <1>1, <1>2 DEF Busy, Writes

(* ... and the page. *)
LEMMA PageKnown ==
  ASSUME NEW p \in Pages
  PROVE  p.open \in BOOLEAN /\ (p.open => p \in OpenPages)
<1>1. CASE p = NoPage
  BY <1>1 DEF NoPage
<1>2. CASE p \in OpenPages
  BY <1>2 DEF OpenPages
<1> QED
  BY <1>1, <1>2 DEF Pages

(* Doors that are not open, and a console that ended. *)
LEMMA DoorsShut ==
  /\ NoConsole \in Consoles /\ [pc |-> "exited"] \in Consoles
  /\ NoServer \in Servers /\ NoPage \in Pages
  /\ NoWrites \in [Commits -> Writes] /\ \A n \in Commits : NoWrites[n] = NoWrite
  BY DEF Consoles, Servers, Pages, NoWrites, Writes

(***************************************************************************)
(* The state has this shape, and the orders that are installed without     *)
(* being validated again carry an owner.                                   *)
(***************************************************************************)

(* At the start nothing is there but what the machine was started with. *)
LEMMA ShapeStart ==
  InstallerInit => Shape
<1> SUFFICES ASSUME InstallerInit PROVE Shape
  OBVIOUS
<1>1. brought \in Files /\ script \in {"locate", "target", "flashed"}
  BY OrdersAssumption DEF InstallerInit, Files
<1>2. script \in Places
  BY <1>1 DEF Places, Ended
<1> QED
  BY <1>1, <1>2, FilesTyped, RefusedPlan, DoorsShut DEF InstallerInit, Shape

(* The script. *)
LEMMA ShapeScript ==
  ASSUME Shape, Script \/ StartAgain
  PROVE  Shape'
<1> USE DEF files, doors, result
<1>1. CASE Locate
  <2>1. brought # NoFile => brought \in SomeOrders
    BY DEF Shape, Files
  <2> QED
    BY <1>1, <2>1 DEF Shape, Locate, Places, Ended
<1>2. CASE RunWizards
  <2>1. orders' \in Files /\ disko' \in Plans /\ base' \in Files
    BY <1>2, FilesTyped, RefusedPlan DEF Shape, RunWizards
  <2>2. server' \in Servers
    <3>1. CASE server.up
      BY <1>2, <3>1 DEF RunWizards, OpenServer, Shape
    <3>2. CASE ~server.up
      <4>1. server' \in OpenServers
        <5>1. starts \in Nat /\ 0 \in Nat /\ asked \in BOOLEAN
          BY DEF Shape
        <5>2. \E pin \in {starts, 0} : server' = [up |-> TRUE, pin |-> pin, given |-> asked]
          BY <1>2, <3>2 DEF RunWizards, OpenServer, OrdersPin
        <5> QED
          BY <5>1, <5>2 DEF OpenServers
      <4> QED
        BY <4>1 DEF Servers
    <3> QED
      BY <3>1, <3>2
  <2>4. /\ writes' \in [Commits -> Writes]
        /\ \A n \in Commits : writes'[n] # NoWrite => server'.up
    <3>1. server' = server \/ server'.up
      BY <1>2 DEF RunWizards, OpenServer
    <3>2. writes' = writes
      BY <1>2 DEF RunWizards
    <3> QED
      BY <3>1, <3>2 DEF Shape
  <2>3. console' \in Consoles
    <3> DEFINE given == IF asked THEN orders ELSE NoFile
               c == [pc |-> "choose", disks |-> Parsed(inventory), picked |-> "single",
                     typed |-> FALSE, touched |-> FALSE, top |-> TRUE, given |-> given]
    <3>1. given \in Files
      BY <1>2, FilesTyped DEF RunWizards, Shape
    <3>2. Parsed(inventory) \in DiskLists
      BY ProbeTyped DEF Shape
    <3> HIDE DEF given
    <3>3. c \in OpenConsoles
      BY <3>1, <3>2 DEF OpenConsoles, Screens, LayoutKinds
    <3>4. console' \in {c, [pc |-> "exited"]}
      BY <1>2 DEF RunWizards, OpenConsole, given
    <3> QED
      BY <3>3, <3>4, DoorsShut DEF Consoles
  <2> QED
    BY <1>2, <2>1, <2>2, <2>3, <2>4, FilesTyped DEF Shape, RunWizards, Places, Ended
<1>3. CASE FilesThere
  <2>1. orders \in SomeOrders
    BY <1>3, FilesTyped DEF FilesThere, Shape
  <2> QED
    BY <1>3, <2>1 DEF Shape, FilesThere, Places, Ended
<1>4. CASE NobodyChose
  BY <1>4 DEF Shape, NobodyChose, Places, Ended
<1>5. CASE Check
  BY <1>5 DEF Shape, Check, Places, Ended
<1>6. CASE Plan
  <2>1. ResolvePolicy(orders, Parsed(inventory)) \in Plans
    BY <1>6, OrdersResolved, ProbeTyped DEF Shape, Plan
  <2> QED
    BY <1>6, <2>1 DEF Shape, Plan, Places, Ended
<1>7. CASE Closure
  BY <1>7 DEF Shape, Closure, Places, Ended
<1>8. CASE Disko
  BY <1>8 DEF Shape, Disko, Places, Ended
<1>9. CASE Install
  <2>1. \/ UNCHANGED <<server, writes, page>>
        \/ server' = NoServer /\ writes' = NoWrites /\ page' = NoPage
    BY <1>9 DEF Install
  <2>2. /\ server' \in Servers /\ writes' \in [Commits -> Writes] /\ page' \in Pages
        /\ \A n \in Commits : writes'[n] # NoWrite => server'.up
    BY <2>1, DoorsShut DEF Shape
  <2> QED
    BY <1>9, <2>2 DEF Shape, Install, Places, Ended
<1>10. CASE StartAgain
  <2>1. /\ starts' = starts + 1 /\ script' = "locate" /\ diskocfg' = FALSE /\ asked' = FALSE
        /\ UNCHANGED <<inventory, brought, orders, disko, flag, base, console, page,
                       commits, erased>>
    BY <1>10 DEF StartAgain
  <2>2. starts' \in Nat /\ script' \in Places
    BY <2>1 DEF Shape, Places
  <2>3. UNCHANGED <<server, writes>> \/ (server' = NoServer /\ writes' = NoWrites)
    BY <1>10 DEF StartAgain
  <2>4. /\ server' \in Servers /\ writes' \in [Commits -> Writes]
        /\ \A n \in Commits : writes'[n] # NoWrite => server'.up
    BY <2>3, DoorsShut DEF Shape
  <2> QED
    BY <2>1, <2>2, <2>4 DEF Shape
<1> QED
  BY <1>1, <1>2, <1>3, <1>4, <1>5, <1>6, <1>7, <1>8, <1>9, <1>10 DEF Script

(* The console. *)
LEMMA ShapeConsole ==
  ASSUME Shape, Console
  PROVE  Shape'
<1> USE DEF files, doors, result, ConsoleOnly
<1>1. console \in Consoles
  BY DEF Shape
<1>2. CASE console.pc \in Screens /\ (LoopTop \/ Choose \/ Confirm \/ Idle)
  <2>1. console \in OpenConsoles
    BY <1>1, <1>2, ConsoleKnown
  <2>2. console' \in Consoles
    <3>1. CASE LoopTop
      BY <2>1, <3>1, DoorsShut DEF LoopTop, OpenConsoles, Consoles
    <3>2. CASE Choose
      BY <2>1, <3>2, DoorsShut DEF Choose, Press, OpenConsoles, Consoles, Screens
    <3>3. CASE Confirm
      <4>1. ConsolePlan \in Plans
        BY <2>1, Resolved, SizesAssumption DEF ConsolePlan, OpenConsoles
      <4>2. ConsolePlan.ok => ConsolePlan \in Layouts
        BY <4>1, LayoutOk
      <4> HIDE DEF ConsolePlan
      <4>3. CASE Press([console EXCEPT !.pc = "choose"])
                 \/ Press([console EXCEPT !.typed = ~console.typed])
        <5>1. console' \in OpenConsoles
          BY <2>1, <4>3 DEF Press, OpenConsoles, Screens
        <5> QED
          BY <5>1 DEF Consoles
      <4>4. CASE ConsolePlan.ok
                 /\ console' = [pc |-> "orders", layout |-> ConsolePlan, given |-> console.given]
        <5>1. console' \in WritingConsoles
          BY <2>1, <4>2, <4>4 DEF OpenConsoles, WritingConsoles
        <5> QED
          BY <5>1 DEF Consoles
      <4> QED
        BY <3>3, <4>3, <4>4 DEF Confirm
    <3>4. CASE Idle
      BY <3>4, DoorsShut DEF Idle
    <3> QED
      BY <1>2, <3>1, <3>2, <3>3, <3>4
  <2> QED
    BY <1>2, <2>2 DEF Shape, LoopTop, Choose, Confirm, Idle
<1>3. CASE ConsoleOrders
  <2>1. console \in WritingConsoles
    BY <1>1, <1>3, ConsoleKnown DEF ConsoleOrders
  <2>2. orders' \in Effective
    BY <1>3, <2>1, WizardOrders DEF ConsoleOrders, WritingConsoles
  <2>3. orders' \in SomeOrders /\ orders' \in Files
    BY <2>2 DEF Effective, Files
  <2>4. console' \in Consoles
    BY <1>3, <2>1 DEF ConsoleOrders, WritingConsoles, Consoles
  <2> QED
    BY <1>3, <2>3, <2>4 DEF Shape, ConsoleOrders
<1>4. CASE ConsoleDisko
  <2>1. console.layout \in Plans
    BY <1>1, <1>4, ConsoleKnown DEF ConsoleDisko, WritingConsoles, Plans
  <2> QED
    BY <1>4, <2>1, DoorsShut DEF Shape, ConsoleDisko
<1> QED
  BY <1>2, <1>3, <1>4 DEF Console, LoopTop, Choose, Confirm, Idle, Turn

(* The server writes one of the three files of a commit: what that is stays  *)
(* what it was, and no other commit is touched.                              *)
LEMMA ServerWrote ==
  ASSUME Shape, Server
  PROVE  /\ UNCHANGED <<ServerOnly, server, page, commits, agreed, blind, chose>>
         /\ server.up
         /\ writes' \in [Commits -> Writes]
         /\ flag' \in BOOLEAN
         /\ \A m \in Busy' : /\ m \in Busy
                             /\ writes'[m].layout = writes[m].layout
                             /\ writes'[m].effective = writes[m].effective
         /\ \E n \in Busy : /\ writes[n] \in OpenWrites
                            /\ disko' \in {disko, writes[n].layout}
                            /\ orders' \in {orders, writes[n].effective}
<1>1. PICK n \in Commits : WriteOrders(n) \/ WriteDisko(n) \/ WriteFlag(n)
  BY DEF Server
<1>2. n \in Busy /\ writes[n] \in OpenWrites /\ server.up
  BY <1>1, WriteKnown DEF WriteOrders, WriteDisko, WriteFlag
<1>3. /\ UNCHANGED <<ServerOnly, server, page, commits, agreed, blind, chose>>
      /\ flag' \in BOOLEAN
      /\ disko' \in {disko, writes[n].layout} /\ orders' \in {orders, writes[n].effective}
  BY <1>1 DEF WriteOrders, WriteDisko, WriteFlag, Shape
<1>4. writes \in [Commits -> Writes]
  BY DEF Shape
<1>5. PICK w \in Writes : /\ writes' = [writes EXCEPT ![n] = w]
                          /\ w # NoWrite => /\ w.layout = writes[n].layout
                                            /\ w.effective = writes[n].effective
  <2>1. CASE WriteOrders(n)
    <3>1. [writes[n] EXCEPT !.pc = "disko"] \in OpenWrites
      BY <1>2 DEF OpenWrites
    <3> QED
      BY <1>2, <1>4, <2>1, <3>1 DEF WriteOrders, Writes, OpenWrites
  <2>2. CASE WriteDisko(n)
    <3>1. [writes[n] EXCEPT !.pc = "flag"] \in OpenWrites
      BY <1>2 DEF OpenWrites
    <3> QED
      BY <1>2, <1>4, <2>2, <3>1 DEF WriteDisko, Writes, OpenWrites
  <2>3. CASE WriteFlag(n)
    BY <2>3 DEF WriteFlag, Writes
  <2> QED
    BY <1>1, <2>1, <2>2, <2>3
<1>6. writes' \in [Commits -> Writes]
  BY <1>4, <1>5
<1>7. ASSUME NEW m \in Busy'
      PROVE  /\ m \in Busy
             /\ writes'[m].layout = writes[m].layout
             /\ writes'[m].effective = writes[m].effective
  <2>1. m \in Commits /\ writes'[m] # NoWrite
    BY <1>7 DEF Busy
  <2>2. CASE m = n
    BY <1>2, <1>4, <1>5, <2>1, <2>2
  <2>3. CASE m # n
    BY <1>4, <1>5, <2>1, <2>3 DEF Busy
  <2> QED
    BY <2>2, <2>3
<1> QED
  BY <1>2, <1>3, <1>6, <1>7

(* What a commit of a page makes of it: another one is written, of a layout  *)
(* that fits and is consented to from then on, or the layout is refused.     *)
Proposed(kind) == Resolve(Parsed(inventory), kind, DefaultMin)
Rendered(pasted, kind) ==
  EnsureEnrollment(EffectiveOrders(BaseConfig(pasted), Proposed(kind)), "unseen")

LEMMA Committed ==
  ASSUME Shape, NEW p \in Pasted, NEW k \in LayoutKinds, Commit(p, k)
  PROVE  /\ UNCHANGED <<ServerOnly, server, orders, disko, flag>>
         /\ commits \in Commits /\ commits' = commits + 1 /\ page' = NoPage /\ server.up
         /\ \/ UNCHANGED <<writes, agreed, blind, chose>>
            \/ /\ writes' = [writes EXCEPT ![commits] =
                     [pc |-> "orders", layout |-> Proposed(k), effective |-> Rendered(p, k)]]
               /\ Consented' = Consented \union {Names(Proposed(k))}
               /\ chose' = chose \union {<<"browser", commits, BadCode(p)>>}
               /\ Proposed(k) \in Layouts /\ FitFor(Proposed(k), DefaultMin)
               /\ Rendered(p, k) \in Effective
               /\ Rendered(p, k).chosen = Names(Proposed(k))
               /\ BaseConfig(p) \in {p, base, NoFile}
               /\ BaseConfig(p) \in Files
               /\ BaseConfig(p).orders => /\ Rendered(p, k).min = BaseConfig(p).min
                                          /\ Rendered(p, k).disk = BaseConfig(p).disk
               /\ ~BaseConfig(p).orders => /\ Rendered(p, k).min = DefaultMin
                                           /\ Rendered(p, k).disk = NoDisk
               /\ (BaseConfig(p).orders => BaseConfig(p).owner # "malformed")
                     => Hex64(Rendered(p, k).owner)
<1>1. /\ UNCHANGED <<ServerOnly, server, orders, disko, flag>>
      /\ commits' = commits + 1 /\ page' = NoPage /\ server.up
      /\ \/ ~Proposed(k).ok /\ UNCHANGED <<writes, agreed, blind, chose>>
         \/ /\ Proposed(k).ok
            /\ writes' = [writes EXCEPT ![commits] =
                  [pc |-> "orders", layout |-> Proposed(k), effective |-> Rendered(p, k)]]
            /\ \/ agreed' = agreed \union {Names(Proposed(k))} /\ UNCHANGED blind
               \/ blind' = blind \union {Names(Proposed(k))} /\ UNCHANGED agreed
            /\ chose' = chose \union {<<"browser", commits, BadCode(p)>>}
  BY DEF Commit, Admits, Proposed, Rendered
<1>2. commits \in Commits
  BY BoundsAssumption DEF Commit, Shape, Commits
<1>3. SUFFICES ASSUME Proposed(k).ok
               PROVE  /\ Proposed(k) \in Layouts /\ FitFor(Proposed(k), DefaultMin)
                      /\ Rendered(p, k) \in Effective
                      /\ Rendered(p, k).chosen = Names(Proposed(k))
                      /\ BaseConfig(p) \in {p, base, NoFile}
                      /\ BaseConfig(p) \in Files
                      /\ BaseConfig(p).orders => /\ Rendered(p, k).min = BaseConfig(p).min
                                                 /\ Rendered(p, k).disk = BaseConfig(p).disk
                      /\ ~BaseConfig(p).orders => /\ Rendered(p, k).min = DefaultMin
                                                  /\ Rendered(p, k).disk = NoDisk
                      /\ (BaseConfig(p).orders => BaseConfig(p).owner # "malformed")
                            => Hex64(Rendered(p, k).owner)
  BY <1>1, <1>2, Zenon DEF Consented
<1>4. Proposed(k) \in Layouts /\ FitFor(Proposed(k), DefaultMin)
  <2>1. Parsed(inventory) \in DiskLists /\ DefaultMin \in Nat
    BY ProbeTyped, SizesAssumption DEF Shape
  <2>2. Proposed(k) \in Plans /\ FitFor(Proposed(k), DefaultMin)
    BY <1>3, <2>1, Resolved DEF Proposed
  <2> QED
    BY <1>3, <2>2, LayoutOk
<1>5. BaseConfig(p) \in {p, base, NoFile}
  BY DEF BaseConfig
<1>6. BaseConfig(p) \in Files
  <2>1. p \in Files /\ base \in Files
    BY OrdersAssumption DEF Files, Shape
  <2> QED
    BY <1>5, <2>1, FilesTyped
<1> QED
  BY <1>4, <1>5, <1>6, WizardOrders DEF Rendered

(* The commit that is written next, and the others. *)
LEMMA CommitWritten ==
  ASSUME Shape, NEW l, NEW e, commits \in Commits,
         writes' = [writes EXCEPT ![commits] =
           [pc |-> "orders", layout |-> l, effective |-> e]]
  PROVE  \A m \in Busy' : \/ m \in Busy /\ writes'[m] = writes[m]
                          \/ writes'[m].layout = l /\ writes'[m].effective = e
  BY DEF Shape, Busy

(* What neither the server nor a page touches. *)
LEMMA ServerKeeps ==
  ASSUME Shape, Server \/ Page
  PROVE  /\ UNCHANGED <<ServerOnly, server>>
         /\ server.up
         /\ chose \subseteq chose'
<1>1. CASE Server
  BY <1>1, ServerWrote
<1>2. CASE Page
  <2>1. UNCHANGED <<ServerOnly, server>> /\ chose \subseteq chose'
    BY <1>2 DEF Page, OpenPage, PagePlan, Commit
  <2>2. server.up
    BY <1>2 DEF Page, OpenPage, PagePlan, Commit, Admits
  <2> QED
    BY <2>1, <2>2
<1> QED
  BY <1>1, <1>2

(* The browser and its server. *)
LEMMA ShapeServer ==
  ASSUME Shape, Server \/ Page
  PROVE  Shape'
<1> USE DEF files, doors, result, ServerOnly
<1>1. server \in Servers /\ page \in Pages
  BY DEF Shape
<1>2. CASE OpenPage
  <2>1. page' \in OpenPages
    BY <1>1, <1>2, ServerKnown, RefusedPlan DEF OpenPage, OpenPages
  <2> QED
    BY <1>2, <2>1 DEF Shape, OpenPage, Pages
<1>3. ASSUME NEW k \in LayoutKinds, PagePlan(k)
      PROVE  Shape'
  <2>1. Resolve(Parsed(inventory), k, DefaultMin) \in Plans
    BY Resolved, ProbeTyped, SizesAssumption DEF Shape
  <2>2. page' \in OpenPages
    BY <1>1, <1>3, <2>1, PageKnown DEF PagePlan, OpenPages
  <2> QED
    BY <1>3, <2>2 DEF Shape, PagePlan, Pages
<1>4. ASSUME NEW p \in Pasted, NEW k \in LayoutKinds, Commit(p, k)
      PROVE  Shape'
  <2>1. UNCHANGED <<ServerOnly, server, orders, disko, flag>> /\ page' = NoPage /\ server.up
        /\ commits' = commits + 1
    BY <1>4, Committed
  <2>2. writes' \in [Commits -> Writes]
    <3>1. \/ UNCHANGED writes
          \/ /\ writes' = [writes EXCEPT ![commits] =
                  [pc |-> "orders", layout |-> Proposed(k), effective |-> Rendered(p, k)]]
             /\ Proposed(k) \in Layouts /\ Rendered(p, k) \in Effective
      BY <1>4, Committed
    <3>2. writes \in [Commits -> Writes]
      BY DEF Shape
    <3> QED
      BY <3>1, <3>2 DEF Writes, OpenWrites
  <2>3. commits' \in Nat
    BY <2>1 DEF Shape
  <2> QED
    BY <2>1, <2>2, <2>3, DoorsShut DEF Shape
<1>5. CASE Server
  <2>1. PICK n \in Busy : /\ writes[n] \in OpenWrites
                          /\ disko' \in {disko, writes[n].layout}
                          /\ orders' \in {orders, writes[n].effective}
    BY <1>5, ServerWrote
  <2>2. disko' \in Plans
    BY <2>1 DEF Shape, OpenWrites, Plans
  <2>3. orders' \in Files /\ (orders \in SomeOrders => orders' \in SomeOrders)
    BY <2>1 DEF Shape, OpenWrites, Effective, Files
  <2>4. /\ UNCHANGED <<ServerOnly, server, page, commits>> /\ server.up
        /\ writes' \in [Commits -> Writes] /\ flag' \in BOOLEAN
    BY <1>5, ServerWrote
  <2> QED
    BY <2>2, <2>3, <2>4 DEF Shape
<1> QED
  BY <1>2, <1>3, <1>4, <1>5 DEF Page

(* What is not an effect of the installer leaves what the shape is about,    *)
(* but for what is plugged in and what the machine is started with.          *)
LEMMA ShapeRest ==
  ASSUME Shape,
         UNCHANGED ivars \/ Pair \/ Plug \/ \E sent \in Shipped : Ship(sent)
  PROVE  Shape'
<1> USE DEF files, doors, result
<1>1. CASE UNCHANGED ivars
  BY <1>1 DEF Shape, ivars
<1>4. CASE Pair
  BY <1>4 DEF Shape, Pair
<1>2. CASE Plug
  BY <1>2 DEF Shape, Plug
<1>3. ASSUME NEW sent \in Shipped, Ship(sent)
      PROVE  Shape'
  <2>1. brought' \in Files
    BY <1>3, OrdersAssumption DEF Shape, Ship, Files
  <2> QED
    BY <1>3, <2>1 DEF Shape, Ship, Places
<1> QED
  BY <1>1, <1>2, <1>3, <1>4

(* Every step keeps the shape. *)
LEMMA ShapeStep ==
  Shape /\ [InstallerNext]_allvars => Shape'
<1> SUFFICES ASSUME Shape, [InstallerNext]_allvars PROVE Shape'
  OBVIOUS
<1>1. CASE Script \/ StartAgain
  BY <1>1, ShapeScript
<1>2. CASE Console
  BY <1>2, ShapeConsole
<1>3. CASE Server \/ Page
  BY <1>3, ShapeServer
<1>4. CASE Pair \/ Plug \/ \E sent \in Shipped : Ship(sent)
  BY <1>4, ShapeRest
<1>5. CASE First \/ UNCHANGED allvars
  BY <1>5, ShapeRest DEF First, allvars
<1> QED
  BY <1>1, <1>2, <1>3, <1>4, <1>5 DEF InstallerNext

-----------------------------------------------------------------------------
(***************************************************************************)
(* The handoff. The records a Box may find in place of orders have none.   *)
(***************************************************************************)
LEMMA NoOrders ==
  /\ Torn.orders = FALSE /\ Blank.orders = FALSE /\ Torn # NoFile
  /\ \A f \in Files \union {Torn, Blank} :
       f.orders \in BOOLEAN /\ (f.orders => f \in SomeOrders)
<1>1. Torn.orders = FALSE /\ Blank.orders = FALSE
  BY DEF Torn, Blank
<1>2. Torn # NoFile
  <2>1. DOMAIN Torn = {"orders", "torn"} /\ DOMAIN NoFile = {"orders"}
    BY DEF Torn, NoFile
  <2> QED
    BY <2>1
<1> QED
  BY <1>1, <1>2, FilesTyped

(* At the start nothing was handed over. *)
LEMMA HandoffStart ==
  InstallerInit => HandoffInv
<1> SUFFICES ASSUME InstallerInit PROVE HandoffInv
  OBVIOUS
<1>1. /\ conf = NoFile /\ claim \in Files \union {Blank} /\ stamp = FALSE /\ boot = "off"
      /\ codes = 0 /\ redeemed = 0 /\ cuts = 0 /\ tore = FALSE /\ unseeded = FALSE
      /\ script # "flashed" => claim = NoFile
  BY OrdersAssumption, FilesTyped DEF InstallerInit, FBInit, Files
<1>2. installed = NoFile /\ helper = "none"
  BY DEF InstallerInit
<1>3. HandoffType /\ NotStarted
  BY <1>1, <1>2, FilesTyped DEF HandoffType, NotStarted
<1>4. OrdersTaken /\ WhoseOrders
  BY <1>1, <1>2, FilesTyped, NoOrders DEF OrdersTaken, WhoseOrders, Taken
<1>5. OwnerFirst
  BY <1>1, FilesTyped DEF OwnerFirst, Taken
<1> QED
  BY <1>3, <1>4, <1>5 DEF HandoffInv

(* A boot, the owner and the power. *)
LEMMA HandoffBoot ==
  ASSUME HandoffInv, FBSteps, UNCHANGED ivars
  PROVE  HandoffInv'
<1> USE NoOrders, FilesTyped DEF ivars
<1>1. CASE PowerOn
  <2>1. HandoffType' /\ NotStarted'
    BY <1>1 DEF HandoffInv, HandoffType, NotStarted, OrdersTaken, PowerOn, Taken
  <2>2. OrdersTaken'
    BY <1>1 DEF HandoffInv, HandoffType, OrdersTaken, OwnerFirst, PowerOn, Taken
  <2>3. OwnerFirst'
    BY <1>1 DEF HandoffInv, HandoffType, OrdersTaken, OwnerFirst, PowerOn, Taken, Named
  <2>4. WhoseOrders'
    BY <1>1 DEF HandoffInv, HandoffType, OrdersTaken, WhoseOrders, PowerOn
  <2> QED
    BY <2>1, <2>2, <2>3, <2>4 DEF HandoffInv
<1>2. CASE TakeClaim
  <2>1. HandoffType' /\ NotStarted'
    BY <1>2 DEF HandoffInv, HandoffType, NotStarted, OrdersTaken, TakeClaim, Taken
  <2>2. OrdersTaken'
    BY <1>2 DEF HandoffInv, HandoffType, OrdersTaken, OwnerFirst, TakeClaim, Taken
  <2>3. OwnerFirst'
    BY <1>2 DEF HandoffInv, HandoffType, OrdersTaken, OwnerFirst, TakeClaim, Taken, Named
  <2>4. WhoseOrders'
    BY <1>2 DEF HandoffInv, HandoffType, OrdersTaken, WhoseOrders, TakeClaim
  <2> QED
    BY <2>1, <2>2, <2>3, <2>4 DEF HandoffInv
<1>3. CASE CopyClaim
  <2>1. HandoffType' /\ NotStarted'
    BY <1>3 DEF HandoffInv, HandoffType, NotStarted, OrdersTaken, CopyClaim, Taken
  <2>2. OrdersTaken'
    BY <1>3 DEF HandoffInv, HandoffType, OrdersTaken, OwnerFirst, CopyClaim, Taken
  <2>3. OwnerFirst'
    BY <1>3 DEF HandoffInv, HandoffType, OrdersTaken, OwnerFirst, CopyClaim, Taken, Named
  <2>4. WhoseOrders'
    BY <1>3 DEF HandoffInv, HandoffType, OrdersTaken, WhoseOrders, CopyClaim
  <2> QED
    BY <2>1, <2>2, <2>3, <2>4 DEF HandoffInv
<1>4. CASE SeedOwner
  <2>0. /\ codes' \in Nat /\ codes' >= codes /\ unseeded' \in BOOLEAN
        /\ boot' \in {"settle", "up"} /\ (codes' > 0 => codes > 0 \/ Named(conf))
        /\ Named(conf) /\ ~unseeded' => codes' > 0 \/ redeemed > 0
    <3>1. codes \in Nat /\ redeemed \in Nat /\ unseeded \in BOOLEAN
      BY DEF HandoffInv, HandoffType
    <3>2. \/ Named(conf) /\ codes' = codes + 1 /\ unseeded' = FALSE /\ boot' = "settle"
          \/ unseeded' = (codes + redeemed = 0) /\ boot' \in {"settle", "up"} /\ codes' = codes
          \/ /\ ~Carries(conf) /\ boot' = "settle" /\ codes' = codes /\ unseeded' = unseeded
      BY <1>4 DEF SeedOwner
    <3>3. Named(conf) => Carries(conf)
      BY DEF Named, Carries, Hex64
    <3>4. Named(conf) \in BOOLEAN
      BY DEF Named
    <3> HIDE DEF Named, Carries
    <3>5. CASE Named(conf) /\ codes' = codes + 1 /\ unseeded' = FALSE /\ boot' = "settle"
      <4>1. unseeded' \in BOOLEAN /\ Named(conf) /\ boot' \in {"settle", "up"}
        BY <3>5, Zenon
      <4>2. codes' \in Nat /\ codes' >= codes /\ codes' > 0
        BY <3>1, <3>5
      <4> QED
        BY <4>1, <4>2
    <3>6. CASE unseeded' = (codes + redeemed = 0) /\ boot' \in {"settle", "up"} /\ codes' = codes
      <4>1. codes + redeemed # 0 => codes > 0 \/ redeemed > 0
        BY <3>1
      <4>2. unseeded' \in BOOLEAN /\ (~unseeded' => codes + redeemed # 0)
        BY <3>6, Zenon
      <4> QED
        BY <3>1, <3>6, <4>1, <4>2
    <3>7. CASE ~Named(conf) /\ codes' = codes /\ unseeded' = unseeded /\ boot' = "settle"
      BY <3>1, <3>7
    <3> QED
      BY <3>2, <3>3, <3>5, <3>6, <3>7
  <2>1. HandoffType' /\ NotStarted'
    BY <2>0, <1>4 DEF HandoffInv, HandoffType, NotStarted, OrdersTaken, SeedOwner, Taken
  <2>2. OrdersTaken'
    BY <2>0, <1>4 DEF HandoffInv, HandoffType, OrdersTaken, OwnerFirst, SeedOwner, Taken
  <2>3. OwnerFirst'
    <3>1. Named(conf)' <=> Named(conf)
      BY <1>4 DEF SeedOwner, Named
    <3>2. ~stamp'
      BY <1>4 DEF HandoffInv, OwnerFirst, SeedOwner
    <3> QED
      BY <2>0, <3>1, <3>2, <1>4 DEF HandoffInv, OwnerFirst, SeedOwner
  <2>4. WhoseOrders'
    BY <2>0, <1>4 DEF HandoffInv, HandoffType, OrdersTaken, WhoseOrders, SeedOwner
  <2> QED
    BY <2>1, <2>2, <2>3, <2>4 DEF HandoffInv
<1>5. CASE Settle
  <2>1. HandoffType' /\ NotStarted'
    BY <1>5 DEF HandoffInv, HandoffType, NotStarted, OrdersTaken, Settle, Taken
  <2>2. OrdersTaken'
    BY <1>5 DEF HandoffInv, HandoffType, OrdersTaken, OwnerFirst, Settle, Taken
  <2>3. OwnerFirst'
    BY <1>5 DEF HandoffInv, HandoffType, OrdersTaken, OwnerFirst, Settle, Taken, Named
  <2>4. WhoseOrders'
    BY <1>5 DEF HandoffInv, HandoffType, OrdersTaken, WhoseOrders, Settle
  <2> QED
    BY <2>1, <2>2, <2>3, <2>4 DEF HandoffInv
<1>6. CASE ScrubClaim
  <2>1. HandoffType' /\ NotStarted'
    BY <1>6 DEF HandoffInv, HandoffType, NotStarted, OrdersTaken, ScrubClaim, Taken
  <2>2. OrdersTaken'
    BY <1>6 DEF HandoffInv, HandoffType, OrdersTaken, OwnerFirst, ScrubClaim, Taken
  <2>3. OwnerFirst'
    BY <1>6 DEF HandoffInv, HandoffType, OrdersTaken, OwnerFirst, ScrubClaim, Taken, Named
  <2>4. WhoseOrders'
    BY <1>6 DEF HandoffInv, HandoffType, OrdersTaken, WhoseOrders, ScrubClaim
  <2> QED
    BY <2>1, <2>2, <2>3, <2>4 DEF HandoffInv
<1>7. CASE StampApplied
  <2>1. HandoffType' /\ NotStarted'
    BY <1>7 DEF HandoffInv, HandoffType, NotStarted, OrdersTaken, StampApplied, Taken
  <2>2. OrdersTaken'
    BY <1>7 DEF HandoffInv, HandoffType, OrdersTaken, OwnerFirst, StampApplied, Taken
  <2>3. OwnerFirst'
    BY <1>7 DEF HandoffInv, HandoffType, OrdersTaken, OwnerFirst, StampApplied, Taken, Named
  <2>4. WhoseOrders'
    BY <1>7 DEF HandoffInv, HandoffType, OrdersTaken, WhoseOrders, StampApplied
  <2> QED
    BY <2>1, <2>2, <2>3, <2>4 DEF HandoffInv
<1>8. CASE RedeemEnrollment
  <2>0. codes' \in Nat /\ redeemed' \in Nat /\ redeemed' > 0 /\ codes > 0
    <3>1. codes \in Nat /\ redeemed \in Nat
      BY DEF HandoffInv, HandoffType
    <3>2. codes > 0 /\ codes' = codes - 1 /\ redeemed' = redeemed + 1
      BY <1>8 DEF RedeemEnrollment
    <3> QED
      BY <3>1, <3>2
  <2>1. HandoffType' /\ NotStarted'
    BY <2>0, <1>8 DEF HandoffInv, HandoffType, NotStarted, OrdersTaken, RedeemEnrollment, Taken
  <2>2. OrdersTaken'
    BY <2>0, <1>8 DEF HandoffInv, HandoffType, OrdersTaken, OwnerFirst, RedeemEnrollment, Taken
  <2>3. OwnerFirst'
    BY <2>0, <1>8 DEF HandoffInv, HandoffType, OrdersTaken, OwnerFirst, RedeemEnrollment,
                       Taken, Named
  <2>4. WhoseOrders'
    BY <2>0, <1>8 DEF HandoffInv, HandoffType, OrdersTaken, WhoseOrders, RedeemEnrollment
  <2> QED
    BY <2>1, <2>2, <2>3, <2>4 DEF HandoffInv
<1>9. CASE ChangeKeys
  <2>1. HandoffType' /\ NotStarted'
    BY <1>9 DEF HandoffInv, HandoffType, NotStarted, OrdersTaken, ChangeKeys, Taken
  <2>2. OrdersTaken'
    BY <1>9 DEF HandoffInv, HandoffType, OrdersTaken, OwnerFirst, ChangeKeys, Taken
  <2>3. OwnerFirst'
    BY <1>9 DEF HandoffInv, HandoffType, OrdersTaken, OwnerFirst, ChangeKeys, Taken, Named
  <2>4. WhoseOrders'
    BY <1>9 DEF HandoffInv, HandoffType, OrdersTaken, WhoseOrders, ChangeKeys
  <2> QED
    BY <2>1, <2>2, <2>3, <2>4 DEF HandoffInv
<1>10. CASE PowerCut
  <2>0. cuts' \in Nat /\ cuts' # 0 /\ tore' \in BOOLEAN
    <3>1. cuts \in Nat /\ cuts' = cuts + 1
      BY <1>10 DEF HandoffInv, HandoffType, PowerCut
    <3>2. tore' \in BOOLEAN
      BY <1>10 DEF PowerCut
    <3> QED
      BY <3>1, <3>2
  <2>1. HandoffType' /\ NotStarted'
    BY <2>0, <1>10 DEF HandoffInv, HandoffType, NotStarted, OrdersTaken, PowerCut, Taken
  <2>2. OrdersTaken'
    BY <2>0, <1>10 DEF HandoffInv, HandoffType, OrdersTaken, OwnerFirst, PowerCut, Taken
  <2>3. OwnerFirst'
    BY <2>0, <1>10 DEF HandoffInv, HandoffType, OrdersTaken, OwnerFirst, PowerCut, Taken, Named
  <2>4. WhoseOrders'
    BY <2>0, <1>10 DEF HandoffInv, HandoffType, OrdersTaken, WhoseOrders, PowerCut
  <2> QED
    BY <2>1, <2>2, <2>3, <2>4 DEF HandoffInv
<1> QED
  BY <1>1, <1>2, <1>3, <1>4, <1>5, <1>6, <1>7, <1>8, <1>9, <1>10 DEF FBSteps

(* Installing the orders, while the Box has not been started. *)
LEMMA HandoffInstall ==
  ASSUME Shape, HandoffInv, Installing, Install
  PROVE  HandoffInv'
<1>1. orders \in SomeOrders
  BY DEF Shape, Install
<1>2. orders.orders = TRUE /\ orders # Torn /\ orders # NoFile /\ orders \in Files
  BY <1>1, NoOrders, FilesTyped DEF Files
<1>3. boot = "off" /\ cuts = 0 /\ script = "install"
  BY DEF Installing, Install
<1>4. ~stamp /\ codes = 0 /\ redeemed = 0 /\ ~tore /\ ~unseeded
  BY <1>3 DEF HandoffInv, NotStarted
<1>5. ~claim.orders /\ helper # "paired"
  BY <1>3, <1>4 DEF HandoffInv, WhoseOrders
<1>6. /\ UNCHANGED <<brought, helper, claim, stamp, boot, codes, redeemed, cuts, tore, unseeded>>
      /\ script' \in {"finished", "failed"}
      /\ (installed' = orders /\ conf' = orders) \/ UNCHANGED <<installed, conf>>
  BY DEF Install, result
<1>7. HandoffType' /\ NotStarted'
  BY <1>1, <1>2, <1>3, <1>4, <1>5, <1>6 DEF HandoffInv, HandoffType, NotStarted
<1>8. OrdersTaken'
  BY <1>2, <1>3, <1>5, <1>6, NoOrders DEF HandoffInv, OrdersTaken, Taken
<1>9. OwnerFirst'
  BY <1>3, <1>4, <1>6 DEF HandoffInv, OwnerFirst, Taken
<1>10. WhoseOrders'
  BY <1>3, <1>5, <1>6 DEF HandoffInv, WhoseOrders
<1> QED
  BY <1>7, <1>8, <1>9, <1>10 DEF HandoffInv

(* What else the installer does has to do with neither. *)
LEMMA HandoffKept ==
  ASSUME HandoffInv, UNCHANGED fbvars, UNCHANGED <<installed, helper, brought>>,
         script' = script \/ (Installing /\ script' \notin {"target", "flashed"})
  PROVE  HandoffInv'
<1>1. HandoffType' /\ NotStarted' /\ OrdersTaken'
  BY DEF HandoffInv, HandoffType, NotStarted, OrdersTaken, fbvars
<1>2. OwnerFirst'
  BY DEF HandoffInv, OwnerFirst, Named, fbvars
<1>3. WhoseOrders'
  BY DEF HandoffInv, WhoseOrders, Installing, fbvars
<1> QED
  BY <1>1, <1>2, <1>3 DEF HandoffInv

(* For they set nothing of it, and lead to no place before the doors. *)
LEMMA KeepsHandoff ==
  ASSUME Shape,
         Installing /\ (Script \/ StartAgain \/ Console \/ Server \/ Page \/ Plug),
         ~Install
  PROVE  /\ UNCHANGED fbvars /\ UNCHANGED <<installed, helper, brought>>
         /\ script' = script \/ script' \notin {"target", "flashed"}
<1> USE DEF result, ConsoleOnly, ServerOnly
<1>1. CASE Script
  BY <1>1 DEF Script, Locate, RunWizards, FilesThere, NobodyChose, Check, Plan, Closure, Disko
<1>2. CASE StartAgain \/ Plug
  BY <1>2 DEF StartAgain, Plug
<1>3. CASE Console
  BY <1>3 DEF Console, LoopTop, Choose, Confirm, Idle, ConsoleOrders, ConsoleDisko
<1>4. CASE Server
  BY <1>4, ServerWrote
<1>5. CASE Page
  BY <1>5 DEF Page, OpenPage, PagePlan, Commit
<1> QED
  BY <1>1, <1>2, <1>3, <1>4, <1>5

(* Orders are shipped, and the code is given for a session. *)
LEMMA HandoffProvision ==
  ASSUME HandoffInv, Pair \/ \E sent \in Shipped : Ship(sent)
  PROVE  HandoffInv'
<1>1. ASSUME NEW sent \in Shipped, Ship(sent)
      PROVE  HandoffInv'
  <2>1. /\ script = "target" /\ helper = "none" /\ UNCHANGED <<installed, fbvars>>
        /\ \/ helper' = "waiting" /\ brought' = sent /\ script' = "locate"
           \/ helper' = "gave up" /\ UNCHANGED <<brought, script>>
    BY <1>1 DEF Ship
  <2>2. HandoffType' /\ NotStarted' /\ OrdersTaken'
    BY <2>1 DEF HandoffInv, HandoffType, NotStarted, OrdersTaken, fbvars
  <2>3. OwnerFirst'
    BY <2>1 DEF HandoffInv, OwnerFirst, Named, fbvars
  <2>4. WhoseOrders'
    BY <2>1 DEF HandoffInv, WhoseOrders, fbvars
  <2> QED
    BY <2>2, <2>3, <2>4 DEF HandoffInv
<1>2. CASE Pair
  <2>1. CASE boot = "up" /\ codes > 0 /\ conf.owner = "brought"
    <3>1. conf.orders /\ Named(conf)
      BY <2>1 DEF HandoffInv, OwnerFirst, Named
    <3>2. conf = installed
      BY <1>2, <3>1 DEF HandoffInv, WhoseOrders, Pair
    <3>3. codes \in Nat /\ redeemed \in Nat
      BY DEF HandoffInv, HandoffType
    <3>4. /\ codes' = codes - 1 /\ redeemed' = redeemed + 1 /\ helper' \in {"paired", "gave up"}
          /\ UNCHANGED <<conf, claim, stamp, boot, cuts, tore, unseeded, installed, brought, script>>
      BY <1>2, <2>1 DEF Pair
    <3>5. codes' \in Nat /\ redeemed' \in Nat /\ redeemed' > 0
      <4>1. codes > 0 /\ codes' = codes - 1 /\ redeemed' = redeemed + 1
        BY <2>1, <3>4
      <4> QED
        BY <3>3, <4>1
    <3>6. HandoffType'
      BY <3>4, <3>5 DEF HandoffInv, HandoffType
    <3>7. NotStarted' /\ OrdersTaken'
      BY <2>1, <3>4 DEF HandoffInv, NotStarted, OrdersTaken
    <3>8. OwnerFirst'
      BY <2>1, <3>1, <3>4, <3>5 DEF HandoffInv, OwnerFirst, Named
    <3>9. WhoseOrders'
      BY <1>2, <2>1, <3>1, <3>2, <3>4, <3>5 DEF HandoffInv, WhoseOrders, Pair
    <3> QED
      BY <3>6, <3>7, <3>8, <3>9 DEF HandoffInv
  <2>2. CASE ~(boot = "up" /\ codes > 0 /\ conf.owner = "brought")
    <3>1. helper' = "gave up"
          /\ UNCHANGED <<conf, claim, stamp, boot, codes, redeemed, cuts, tore, unseeded,
                         installed, brought, script>>
      BY <1>2, <2>2 DEF Pair
    <3>2. HandoffType' /\ NotStarted' /\ OrdersTaken'
      BY <3>1 DEF HandoffInv, HandoffType, NotStarted, OrdersTaken
    <3>3. OwnerFirst'
      BY <3>1 DEF HandoffInv, OwnerFirst, Named
    <3>4. WhoseOrders'
      BY <3>1 DEF HandoffInv, WhoseOrders
    <3> QED
      BY <3>2, <3>3, <3>4 DEF HandoffInv
  <2> QED
    BY <2>1, <2>2
<1> QED
  BY <1>1, <1>2

(* Every step keeps it. *)
LEMMA HandoffStep ==
  Shape /\ HandoffInv /\ [InstallerNext]_allvars => HandoffInv'
<1> SUFFICES ASSUME Shape, HandoffInv, [InstallerNext]_allvars PROVE HandoffInv'
  OBVIOUS
<1>1. CASE Installing /\ (Script \/ StartAgain \/ Console \/ Server \/ Page \/ Plug)
  <2>1. CASE Install
    BY <1>1, <2>1, HandoffInstall
  <2>2. CASE ~Install
    BY <1>1, <2>2, KeepsHandoff, HandoffKept
  <2> QED
    BY <2>1, <2>2
<1>2. CASE First
  BY <1>2, HandoffBoot DEF First
<1>3. CASE Pair \/ \E sent \in Shipped : Ship(sent)
  BY <1>3, HandoffProvision
<1>4. CASE UNCHANGED allvars
  BY <1>4, HandoffKept DEF allvars, ivars
<1> QED
  BY <1>1, <1>2, <1>3, <1>4 DEF InstallerNext

(* So it holds throughout. *)
LEMMA Handed ==
  InstallerSpec => [](Shape /\ HandoffInv)
<1>1. InstallerInit => Shape /\ HandoffInv
  BY ShapeStart, HandoffStart
<1>2. Shape /\ HandoffInv /\ [InstallerNext]_allvars => (Shape /\ HandoffInv)'
  BY ShapeStep, HandoffStep
<1> QED
  BY <1>1, <1>2, PTL DEF InstallerSpec

(* However often power goes and whatever step after it fails, a Box whose    *)
(* orders name an owner is up with one, unless the seeding of the hash or    *)
(* the copying of the orders was what failed.                                *)
THEOREM TheOwnerArrives == InstallerSpec => []OwnerArrives
<1>1. HandoffInv => OwnerArrives
  <2> SUFFICES ASSUME HandoffInv, boot = "up", ~tore, ~unseeded, Named(conf) \/ Named(claim)
               PROVE  codes + redeemed > 0
    BY DEF OwnerArrives
  <2>1. Named(conf)
    <3>1. SUFFICES ASSUME Named(claim) PROVE Named(conf)
      OBVIOUS
    <3>2. claim.orders /\ conf # NoFile /\ conf # Torn
      BY <3>1 DEF Named, HandoffInv, OrdersTaken, Taken
    <3>3. conf \in SomeOrders
      BY <3>2 DEF HandoffInv, HandoffType, Files
    <3>4. conf = claim
      BY <3>2, <3>3, FilesTyped DEF HandoffInv, OrdersTaken
    <3> QED
      BY <3>1, <3>4
  <2>2. codes > 0 \/ redeemed > 0
    BY <2>1 DEF HandoffInv, OwnerFirst, Taken
  <2>3. codes \in Nat /\ redeemed \in Nat
    BY DEF HandoffInv, HandoffType
  <2> QED
    BY <2>2, <2>3
<1> QED
  BY <1>1, Handed, PTL

(* What the operator changed stands: once the handoff is stamped, no boot    *)
(* comes to the step that writes the keys of the orders.                     *)
THEOREM WhatTheOperatorSetStands == InstallerSpec => OperatorStands
<1>1. HandoffInv /\ [InstallerNext]_allvars
        => [stamp /\ keys = "operator" => keys' = "operator"]_fbvars
  <2> SUFFICES ASSUME HandoffInv, InstallerNext, stamp, keys = "operator"
               PROVE  keys' = "operator" \/ UNCHANGED fbvars
    BY DEF allvars
  <2>1. CASE Installing
    BY <2>1 DEF HandoffInv, HandoffType, NotStarted, OrdersTaken, OwnerFirst,
     WhoseOrders, Installing
  <2>2. CASE First
    <3>1. boot # "settle"
      BY DEF HandoffInv, HandoffType, NotStarted, OrdersTaken, OwnerFirst,
     WhoseOrders
    <3> QED
      BY <2>2, <3>1 DEF First, FBSteps, PowerOn, TakeClaim, CopyClaim, SeedOwner, Settle,
         ScrubClaim, StampApplied, RedeemEnrollment, ChangeKeys, PowerCut
  <2>3. CASE Pair \/ \E sent \in Shipped : Ship(sent)
    BY <2>3 DEF Pair, Ship, fbvars
  <2> QED
    BY <2>1, <2>2, <2>3 DEF InstallerNext
<1> QED
  BY <1>1, Handed, PTL DEF InstallerSpec, OperatorStands

-----------------------------------------------------------------------------
(***************************************************************************)
(* The script comes to its places in turn.                                 *)
(***************************************************************************)

(* What the doors write are orders with a layout. *)
LEMMA DoorsWrite ==
  ASSUME Shape, ConsoleOrders \/ Server
  PROVE  orders' \in Effective \/ orders' = orders
<1>1. CASE ConsoleOrders
  <2>1. console \in WritingConsoles
    BY <1>1, ConsoleKnown DEF Shape, ConsoleOrders
  <2> QED
    BY <1>1, <2>1, WizardOrders DEF ConsoleOrders, WritingConsoles
<1>2. CASE Server
  BY <1>2, ServerWrote DEF OpenWrites
<1> QED
  BY <1>1, <1>2

(* Orders a door wrote have a layout and do not ask for one. *)
LEMMA EffectiveKnown ==
  \A o \in Effective : o \in SomeOrders /\ o.layout # "ask" /\ o.layout \in LayoutKinds
  BY DEF Effective, LayoutKinds

(* Behind shut doors nobody is, and nothing was chosen. *)
LEMMA ShutKnown ==
  ASSUME ShutDoors
  PROVE  /\ console.pc = "off" /\ console.pc \notin Screens /\ ~Writing
         /\ server.up = FALSE /\ page.open = FALSE /\ chose = {} /\ Busy = {}
  BY DEF ShutDoors, NoConsole, NoServer, NoPage, NoWrites, Screens, Writing, Busy

(* At the start only the places a machine may start from are there. *)
LEMMA FlowStart ==
  InstallerInit => Flow
<1> SUFFICES ASSUME InstallerInit PROVE Flow
  OBVIOUS
<1>1. ShutDoors
  BY DEF InstallerInit, ShutDoors
<1>2. NotBegun
  BY <1>1, FilesTyped DEF InstallerInit, NotBegun, Consented
<1>3. ByOrders /\ ByHand
  BY <1>1 DEF InstallerInit, ByOrders, ByHand
<1>4. InTurn
  BY <1>1, ShutKnown, RefusedPlan DEF InstallerInit, InTurn
<1> QED
  BY <1>2, <1>3, <1>4 DEF Flow

(* The script. *)
LEMMA FlowScript ==
  ASSUME Shape, Flow, Installing, Script \/ StartAgain
  PROVE  Flow'
<1> USE DEF files, doors, result
<1>0. NotBegun'
  BY DEF NotBegun, Script, StartAgain, Locate, RunWizards, FilesThere, NobodyChose, Check,
         Plan, Closure, Disko, Install
<1>1. CASE Locate
  <2>1. /\ script = "locate" /\ ~asked /\ ~diskocfg
        /\ brought = NoFile => script' = "wizards"
        /\ brought # NoFile => script' = "consent" /\ orders' = brought
        /\ UNCHANGED <<brought, asked, diskocfg, console, server, writes, page, chose, erased>>
    BY <1>1 DEF Locate, Shape
  <2>2. brought.orders <=> brought # NoFile
    BY FilesTyped DEF Shape, Files
  <2>3. ByOrders' /\ ByHand'
    BY <2>1, <2>2 DEF Flow, ByOrders, ByHand, Closed, ShutDoors
  <2>4. InTurn'
    BY <2>1 DEF Flow, InTurn, Writing
  <2> QED
    BY <1>0, <2>3, <2>4 DEF Flow
<1>2. CASE RunWizards
  <2>1. /\ script = "wizards" /\ script' = "console" /\ orders' = NoFile
        /\ UNCHANGED <<brought, asked, diskocfg, erased>>
    BY <1>2 DEF RunWizards
  <2>2. ByOrders' /\ ByHand'
    BY <2>1 DEF Flow, ByOrders, ByHand, Closed
  <2>3. InTurn'
    BY <2>1 DEF Flow, InTurn
  <2> QED
    BY <1>0, <2>2, <2>3 DEF Flow
<1>3. CASE FilesThere
  <2>1. /\ script = "console" /\ console.pc = "exited" /\ diskocfg' = TRUE
        /\ script' = IF asked THEN "closure" ELSE "consent"
        /\ UNCHANGED <<brought, asked, orders, console, server, writes, page, chose, erased>>
    BY <1>3 DEF FilesThere
  <2>2. ByOrders' /\ ByHand'
    BY <2>1 DEF Flow, ByOrders, ByHand, Closed
  <2>3. console.pc \notin Screens /\ ~Writing
    BY <2>1 DEF Screens, Writing
  <2>4. InTurn'
    BY <2>1, <2>3 DEF Flow, InTurn, Writing
  <2> QED
    BY <1>0, <2>2, <2>4 DEF Flow
<1>4. CASE NobodyChose
  <2>1. /\ script = "console" /\ console.pc = "exited" /\ script' = "refused"
        /\ UNCHANGED <<brought, asked, diskocfg, orders, console, server, writes, page, chose, erased>>
    BY <1>4 DEF NobodyChose
  <2>2. console.pc \notin Screens /\ ~Writing
    BY <2>1 DEF Screens, Writing
  <2> QED
    BY <1>0, <2>1, <2>2 DEF Flow, ByOrders, ByHand, InTurn, Closed, ShutDoors, Writing
<1>5. CASE Check
  <2>1. /\ script = "consent"
        /\ \/ /\ orders.layout = "ask" /\ script' = "wizards" /\ asked' = TRUE
           \/ /\ orders.layout # "ask" /\ asked' = asked
              /\ script' = IF diskocfg THEN "closure" ELSE "plan"
           \/ script' = "refused" /\ asked' = asked
        /\ UNCHANGED <<brought, diskocfg, orders, console, server, writes, page, chose, erased>>
    BY <1>5 DEF Check
  <2>2. orders \in SomeOrders
    BY <2>1 DEF Shape
  <2>3. diskocfg => orders.layout # "ask"
    BY <2>1, <2>2, EffectiveKnown, FilesTyped DEF Flow, InTurn
  <2>4. ByOrders'
    BY <2>1 DEF Flow, ByOrders, Closed, ShutDoors
  <2>5. ByHand'
    BY <2>1, <2>3 DEF Flow, ByHand
  <2>6. InTurn'
    BY <2>1, <2>3 DEF Flow, InTurn, Writing
  <2> QED
    BY <1>0, <2>4, <2>5, <2>6 DEF Flow
<1>6. CASE Plan
  <2>1. /\ script = "plan" /\ ((script' = "closure" /\ diskocfg' = TRUE) \/ script' = "refused")
        /\ UNCHANGED <<brought, asked, orders, console, server, writes, page, chose, erased>>
    BY <1>6 DEF Plan
  <2> QED
    BY <1>0, <2>1 DEF Flow, ByOrders, ByHand, InTurn, Closed, ShutDoors, Writing
<1>7. CASE Closure
  <2>1. /\ script = "closure" /\ script' \in {"disko", "refused"}
        /\ UNCHANGED <<brought, asked, diskocfg, orders, console, server, writes, page, chose, erased>>
    BY <1>7 DEF Closure
  <2> QED
    BY <1>0, <2>1 DEF Flow, ByOrders, ByHand, InTurn, Closed, ShutDoors, Writing
<1>8. CASE Disko
  <2>1. /\ script = "disko" /\ script' \in {"install", "failed"}
        /\ UNCHANGED <<brought, asked, diskocfg, orders, console, server, writes, page, chose>>
    BY <1>8 DEF Disko
  <2> QED
    BY <1>0, <2>1 DEF Flow, ByOrders, ByHand, InTurn, Closed, ShutDoors, Writing
<1>9. CASE Install
  <2>1. /\ script = "install" /\ script' \in {"finished", "failed"}
        /\ \/ UNCHANGED <<server, writes, page>>
           \/ server' = NoServer /\ writes' = NoWrites /\ page' = NoPage
        /\ UNCHANGED <<brought, asked, diskocfg, orders, console, chose, erased>>
    BY <1>9 DEF Install
  <2> QED
    BY <1>0, <2>1 DEF Flow, ByOrders, ByHand, InTurn, Closed, ShutDoors, Writing
<1>10. CASE StartAgain
  <2>1. /\ script = "refused" /\ script' = "locate" /\ diskocfg' = FALSE /\ asked' = FALSE
        /\ \/ UNCHANGED <<server, writes>>
           \/ server' = NoServer /\ writes' = NoWrites
        /\ UNCHANGED <<brought, orders, console, page, chose, erased>>
    BY <1>10 DEF StartAgain
  <2> QED
    BY <1>0, <2>1 DEF Flow, ByOrders, ByHand, InTurn, Closed, ShutDoors, Writing
<1> QED
  BY <1>1, <1>2, <1>3, <1>4, <1>5, <1>6, <1>7, <1>8, <1>9, <1>10 DEF Script

(* The doors move while the script waits for them, or do not move it. *)
LEMMA FlowConsole ==
  ASSUME Shape, Flow, Installing, Console
  PROVE  Flow'
<1> USE DEF files, doors, result, ConsoleOnly
<1>1. console.pc \in Screens \/ Writing
  BY DEF Console, LoopTop, Choose, Confirm, Idle, ConsoleOrders, ConsoleDisko, Turn, Writing
<1>2. script = "console" /\ ~Closed
  BY <1>1 DEF Flow, InTurn, ByOrders
<1>3. UNCHANGED <<brought, script, asked, diskocfg, erased>>
  BY DEF Console, LoopTop, Choose, Confirm, Idle, ConsoleOrders, ConsoleDisko
<1>4. orders' = orders \/ orders' \in Effective
  BY DoorsWrite DEF Console, LoopTop, Choose, Confirm, Idle, ConsoleDisko
<1>5. NotBegun' /\ ByOrders' /\ ByHand'
  BY <1>2, <1>3 DEF Flow, NotBegun, ByOrders, ByHand, Closed
<1>6. InTurn'
  BY <1>2, <1>3, <1>4 DEF Flow, InTurn
<1> QED
  BY <1>5, <1>6 DEF Flow

(* The browser. *)
LEMMA FlowServer ==
  ASSUME Shape, Flow, Installing, Server \/ Page
  PROVE  Flow'
<1> USE DEF files, doors, result, ServerOnly
<1>1. server.up = TRUE
  <2>1. CASE Server
    BY <2>1, ServerWrote, ServerKnown DEF Shape
  <2>2. CASE Page
    BY <2>2, ServerKnown DEF Shape, Page, OpenPage, PagePlan, Commit, Admits
  <2> QED
    BY <2>1, <2>2
<1>2. ~Closed /\ script \notin {"target", "flashed"}
  BY <1>1, ShutKnown DEF Flow, ByOrders, Installing
<1>3. UNCHANGED <<brought, script, asked, diskocfg, erased, console>>
  BY ServerWrote DEF Page, OpenPage, PagePlan, Commit
<1>4. orders' = orders \/ orders' \in Effective
  BY DoorsWrite DEF Page, OpenPage, PagePlan, Commit
<1>5. NotBegun' /\ ByOrders' /\ ByHand'
  BY <1>2, <1>3 DEF Flow, NotBegun, ByOrders, ByHand, Closed
<1>6. InTurn'
  BY <1>3, <1>4 DEF Flow, InTurn, Writing
<1> QED
  BY <1>5, <1>6 DEF Flow

(* The steps beside them. *)
LEMMA FlowRest ==
  ASSUME Shape, Flow,
         UNCHANGED ivars \/ Pair \/ Plug \/ \E sent \in Shipped : Ship(sent)
  PROVE  Flow'
<1> USE DEF files, doors, result
<1>1. CASE UNCHANGED ivars \/ Pair \/ Plug
  <2>1. UNCHANGED <<brought, script, asked, diskocfg, orders, base, console, server, writes, page,
                    chose, erased, installed, agreed, blind, starts>>
    BY <1>1 DEF ivars, Pair, Plug
  <2>2. NotBegun' /\ ByOrders' /\ ByHand'
    BY <2>1 DEF Flow, NotBegun, ByOrders, ByHand, Closed, ShutDoors, Consented
  <2>3. InTurn'
    BY <2>1 DEF Flow, InTurn, Writing
  <2> QED
    BY <2>2, <2>3 DEF Flow
<1>2. ASSUME NEW sent \in Shipped, Ship(sent)
      PROVE  Flow'
  <2>1. /\ script = "target"
        /\ \/ brought' = sent /\ script' = "locate"
           \/ UNCHANGED <<brought, script>>
        /\ UNCHANGED <<asked, diskocfg, orders, base, console, server, writes, page, chose,
                       erased, installed, agreed, blind, starts>>
    BY <1>2 DEF Ship
  <2>2. ShutDoors /\ ~asked /\ ~diskocfg /\ erased = Refused
    BY <2>1 DEF Shape, Flow, NotBegun
  <2>3. ~Writing' /\ console'.pc \notin Screens
    BY <2>1, <2>2, ShutKnown DEF Writing
  <2>4. CASE brought' = sent /\ script' = "locate"
    <3>1. brought'.orders
      BY <2>4, OrdersAssumption, FilesTyped
    <3>2. NotBegun' /\ ByOrders' /\ ByHand'
      BY <2>1, <2>2, <2>4, <3>1 DEF NotBegun, ByOrders, ByHand, ShutDoors
    <3>3. InTurn'
      BY <2>1, <2>2, <2>3, <2>4, RefusedPlan DEF InTurn
    <3> QED
      BY <3>2, <3>3 DEF Flow
  <2>5. CASE UNCHANGED <<brought, script>>
    <3>1. NotBegun' /\ ByOrders' /\ ByHand'
      BY <2>1, <2>5 DEF Flow, NotBegun, ByOrders, ByHand, Closed, ShutDoors, Consented
    <3>2. InTurn'
      BY <2>1, <2>5 DEF Flow, InTurn, Writing
    <3> QED
      BY <3>1, <3>2 DEF Flow
  <2> QED
    BY <2>1, <2>4, <2>5
<1> QED
  BY <1>1, <1>2

(* Every step. *)
LEMMA FlowStep ==
  Shape /\ Flow /\ [InstallerNext]_allvars => Flow'
<1> SUFFICES ASSUME Shape, Flow, [InstallerNext]_allvars PROVE Flow'
  OBVIOUS
<1>1. CASE Installing /\ (Script \/ StartAgain)
  BY <1>1, FlowScript
<1>2. CASE Installing /\ Console
  BY <1>2, FlowConsole
<1>3. CASE Installing /\ (Server \/ Page)
  BY <1>3, FlowServer
<1>4. CASE Pair \/ Plug \/ \E sent \in Shipped : Ship(sent)
  BY <1>4, FlowRest
<1>5. CASE First \/ UNCHANGED allvars
  BY <1>5, FlowRest DEF First, allvars
<1> QED
  BY <1>1, <1>2, <1>3, <1>4, <1>5 DEF InstallerNext

-----------------------------------------------------------------------------
(***************************************************************************)
(* What reaches the disks was agreed to.                                   *)
(***************************************************************************)
LEMMA AgreedStart ==
  InstallerInit => AgreedInv
<1> SUFFICES ASSUME InstallerInit PROVE AgreedInv
  OBVIOUS
<1>1. ShutDoors /\ disko = Refused /\ erased = Refused /\ diskocfg = FALSE /\ installed = NoFile
      /\ script # "install"
  BY DEF InstallerInit, ShutDoors
<1> QED
  BY <1>1, ShutKnown, RefusedPlan, FilesTyped DEF AgreedInv, DoorsAgreed, DisksAgreed

(* The script starts no commit and changes none; a new start may end them. *)
LEMMA ScriptWrites ==
  ASSUME Shape, Script \/ StartAgain
  PROVE  Busy' \subseteq Busy /\ \A n \in Busy' : writes'[n] = writes[n]
<1>1. UNCHANGED writes \/ writes' = NoWrites
  BY DEF Script, StartAgain, Locate, RunWizards, FilesThere, NobodyChose, Check, Plan, Closure,
         Disko, Install, doors, result
<1>2. CASE UNCHANGED writes
  BY <1>2 DEF Busy
<1>3. CASE writes' = NoWrites
  BY <1>3, DoorsShut DEF Busy
<1> QED
  BY <1>1, <1>2, <1>3

(* The commits of an earlier start that are still written: they were         *)
(* consented to in it, and are the ones that count in the next.              *)
LEMMA LateAgreed ==
  ASSUME Shape, AgreedInv, StartAgain
  PROVE  /\ \A n \in Busy' : /\ Names(writes'[n].layout) \in Consented'
                             /\ writes'[n].effective.chosen = Names(writes'[n].layout)
         /\ Busy' \subseteq Busy /\ \A n \in Busy' : writes'[n] = writes[n]
<1>1. Busy' \subseteq Busy /\ \A n \in Busy' : writes'[n] = writes[n]
  BY ScriptWrites
<1>2. ASSUME NEW n \in Busy'
      PROVE  /\ Names(writes'[n].layout) \in Consented'
             /\ writes'[n].effective.chosen = Names(writes'[n].layout)
  <2>1. /\ Names(writes'[n].layout) \in Consented
        /\ writes'[n].effective.chosen = Names(writes'[n].layout)
    BY <1>1, <1>2 DEF AgreedInv, DoorsAgreed
  <2>2. Names(writes'[n].layout) \in Late'
    BY <1>2 DEF Late, Busy
  <2>3. agreed' = agreed \intersect Late' /\ blind' = blind \intersect Late'
    BY DEF StartAgain
  <2> QED
    BY <2>1, <2>2, <2>3 DEF Consented
<1> QED
  BY <1>1, <1>2

(* The script. *)
LEMMA AgreedScript ==
  ASSUME Shape, Flow, AgreedInv, Installing, Script \/ StartAgain
  PROVE  AgreedInv'
<1> USE DEF files, doors, result
<1>2. CASE Locate \/ FilesThere \/ NobodyChose \/ Check \/ Closure
  <2>1. UNCHANGED <<console, writes, agreed, blind, disko, erased, installed>>
    BY <1>2 DEF Locate, FilesThere, NobodyChose, Check, Closure
  <2>2. DoorsAgreed'
    BY <2>1 DEF AgreedInv, DoorsAgreed, Writing, Busy, Consented
  <2>3. (Live' => Live) /\ (diskocfg' => diskocfg \/ disko.ok) /\ script' # "install"
    BY <1>2 DEF Locate, FilesThere, NobodyChose, Check, Closure, Live
  <2>4. DisksAgreed'
    BY <2>1, <2>3 DEF AgreedInv, DisksAgreed, Consented
  <2> QED
    BY <2>2, <2>4 DEF AgreedInv
<1>3. CASE RunWizards
  <2>1. /\ script = "wizards" /\ script' = "console" /\ disko' = Refused
        /\ UNCHANGED <<writes, agreed, blind, erased, installed, diskocfg>>
    BY <1>3 DEF RunWizards
  <2>2. ~Writing'
    BY <1>3 DEF RunWizards, OpenConsole, Writing
  <2>4. DoorsAgreed'
    BY <2>1, <2>2 DEF AgreedInv, DoorsAgreed, Busy, Consented
  <2>5. ~diskocfg
    BY <2>1 DEF Flow, InTurn
  <2>6. DisksAgreed'
    BY <2>1, <2>5, RefusedPlan DEF AgreedInv, DisksAgreed, Consented
  <2> QED
    BY <2>4, <2>6 DEF AgreedInv
<1>4. CASE Plan
  <2> DEFINE layout == ResolvePolicy(orders, Parsed(inventory))
  <2> HIDE DEF layout
  <2>1. /\ script = "plan" /\ UNCHANGED <<console, writes, blind, erased, installed>>
        /\ \/ /\ layout.ok /\ disko' = layout /\ diskocfg' = TRUE /\ script' = "closure"
              /\ agreed' = agreed \union {Names(layout)}
           \/ script' = "refused" /\ UNCHANGED <<disko, diskocfg, agreed>>
    BY <1>4 DEF Plan, layout
  <2>2. DoorsAgreed'
    BY <2>1 DEF AgreedInv, DoorsAgreed, Writing, Busy, Consented
  <2>3. DisksAgreed'
    BY <2>1 DEF AgreedInv, DisksAgreed, Live, Consented
  <2> QED
    BY <2>2, <2>3 DEF AgreedInv
<1>5. CASE Disko
  <2>1. /\ script = "disko" /\ erased' = disko /\ script' \in {"install", "failed"}
        /\ UNCHANGED <<console, writes, agreed, blind, disko, diskocfg, installed>>
    BY <1>5 DEF Disko
  <2>2. DoorsAgreed'
    BY <2>1 DEF AgreedInv, DoorsAgreed, Writing, Busy, Consented
  <2>3. diskocfg
    BY <2>1 DEF Flow, InTurn
  <2>4. DisksAgreed'
    BY <2>1, <2>3 DEF AgreedInv, DisksAgreed, Live, Consented
  <2> QED
    BY <2>2, <2>4 DEF AgreedInv
<1>6. CASE Install
  <2>1. /\ script = "install" /\ script' \in {"finished", "failed"}
        /\ UNCHANGED <<console, agreed, blind, disko, diskocfg, erased>>
        /\ UNCHANGED writes \/ writes' = NoWrites
    BY <1>6 DEF Install
  <2>2. DoorsAgreed'
    BY <2>1, DoorsShut DEF AgreedInv, DoorsAgreed, Writing, Busy, Consented
  <2>3. DisksAgreed'
    BY <2>1 DEF AgreedInv, DisksAgreed, Live, Consented
  <2> QED
    BY <2>2, <2>3 DEF AgreedInv
<1>7. CASE StartAgain
  <2>1. /\ script = "refused" /\ script' = "locate" /\ diskocfg' = FALSE
        /\ UNCHANGED <<console, disko, erased, installed>>
    BY <1>7 DEF StartAgain
  <2>2. ~Writing /\ ~erased.ok
    BY <2>1 DEF Flow, InTurn
  <2>3. DoorsAgreed'
    BY <1>7, <2>1, <2>2, LateAgreed DEF DoorsAgreed, Writing
  <2>4. DisksAgreed'
    BY <2>1, <2>2 DEF AgreedInv, DisksAgreed, Live
  <2> QED
    BY <2>3, <2>4 DEF AgreedInv
<1> QED
  BY <1>2, <1>3, <1>4, <1>5, <1>6, <1>7 DEF Script

(* A key at the console, or none: it stays on its screens, it ends, or ERASE *)
(* is typed under the plan it shows.                                         *)
LEMMA KeyPressed ==
  ASSUME Shape, LoopTop \/ Choose \/ Confirm \/ Idle
  PROVE  /\ console \in OpenConsoles
         /\ UNCHANGED <<ConsoleOnly, orders, disko, flag>>
         /\ \/ /\ ~Writing' /\ UNCHANGED <<agreed, chose>>
               /\ console'.pc \in Screens => console'.given = console.given
            \/ /\ console' = [pc |-> "orders", layout |-> ConsolePlan, given |-> console.given]
               /\ agreed' = agreed \union {Names(ConsolePlan)}
               /\ chose' = chose \union {<<"console", starts>>}
               /\ ConsolePlan \in Layouts /\ FitFor(ConsolePlan, DefaultMin)
               /\ console'.layout = ConsolePlan /\ console'.given = console.given
               /\ console'.pc = "orders"
<1>1. console \in OpenConsoles
  BY ConsoleKnown DEF Shape, LoopTop, Choose, Confirm, Idle, Turn
<1>2. UNCHANGED <<ConsoleOnly, orders, disko, flag>>
  BY DEF LoopTop, Choose, Confirm, Idle
<1>3. CASE console' = [pc |-> "exited"] /\ UNCHANGED <<agreed, chose>>
  <2>1. console'.pc = "exited"
    BY <1>3
  <2> QED
    BY <1>1, <1>2, <1>3, <2>1 DEF Writing, Screens
<1>4. CASE console' \in OpenConsoles /\ console'.given = console.given
           /\ UNCHANGED <<agreed, chose>>
  <2>1. console'.pc \in Screens
    BY <1>4 DEF OpenConsoles
  <2> QED
    BY <1>1, <1>2, <1>4, <2>1 DEF Writing, Screens
<1>5. CASE LoopTop
  <2>1. [console EXCEPT !.top = FALSE] \in OpenConsoles
        /\ [console EXCEPT !.top = FALSE].given = console.given
    BY <1>1 DEF OpenConsoles
  <2> QED
    BY <1>3, <1>4, <1>5, <2>1 DEF LoopTop
<1>6. CASE Choose
  <2>1. console' = [pc |-> "exited"]
        \/ (console' \in OpenConsoles /\ console'.given = console.given)
    BY <1>1, <1>6 DEF Choose, Press, OpenConsoles, Screens
  <2> QED
    BY <1>3, <1>4, <1>6, <2>1 DEF Choose
<1>7. CASE Idle
  BY <1>3, <1>7 DEF Idle
<1>8. CASE Confirm
  <2>1. CASE Press([console EXCEPT !.pc = "choose"]) /\ UNCHANGED <<agreed, chose>>
    <3>1. console' \in OpenConsoles /\ console'.given = console.given
      BY <1>1, <2>1 DEF Press, OpenConsoles, Screens
    <3> QED
      BY <1>4, <2>1, <3>1
  <2>2. CASE Press([console EXCEPT !.typed = ~console.typed]) /\ UNCHANGED <<agreed, chose>>
    <3>1. console' \in OpenConsoles /\ console'.given = console.given
      BY <1>1, <2>2 DEF Press, OpenConsoles
    <3> QED
      BY <1>4, <2>2, <3>1
  <2>3. CASE ConsolePlan.ok
             /\ console' = [pc |-> "orders", layout |-> ConsolePlan, given |-> console.given]
             /\ agreed' = agreed \union {Names(ConsolePlan)}
             /\ chose' = chose \union {<<"console", starts>>}
    <3>1. ConsolePlan \in Plans /\ (ConsolePlan.ok => FitFor(ConsolePlan, DefaultMin))
      BY <1>1, Resolved, SizesAssumption DEF ConsolePlan, OpenConsoles
    <3> HIDE DEF ConsolePlan
    <3>2. ConsolePlan \in Layouts /\ FitFor(ConsolePlan, DefaultMin)
      BY <2>3, <3>1, LayoutOk
    <3>3. console'.layout = ConsolePlan /\ console'.given = console.given
          /\ console'.pc = "orders"
      BY <2>3
    <3> QED
      BY <1>1, <1>2, <2>3, <3>2, <3>3
  <2> HIDE DEF ConsolePlan
  <2> QED
    BY <1>8, <2>1, <2>2, <2>3 DEF Confirm
<1> QED
  BY <1>5, <1>6, <1>7, <1>8

(* The console: what is written is what ERASE was typed under. *)
LEMMA AgreedConsole ==
  ASSUME Shape, Flow, AgreedInv, Console
  PROVE  AgreedInv'
<1> USE DEF doors, result, ConsoleOnly
<1>1. UNCHANGED <<writes, blind, script, diskocfg, erased, installed>>
  BY DEF Console, LoopTop, Choose, Confirm, Idle, ConsoleOrders, ConsoleDisko
<1>3. agreed \subseteq agreed'
  BY DEF Console, LoopTop, Choose, Confirm, Idle, ConsoleOrders, ConsoleDisko
<1>4. Writing' => Names(console'.layout) \in Consented'
  <2>1. console \in Consoles
    BY DEF Shape
  <2>2. CASE LoopTop \/ Choose \/ Confirm \/ Idle
    <3>1. \/ ~Writing'
          \/ agreed' = agreed \union {Names(ConsolePlan)} /\ console'.layout = ConsolePlan
      BY <2>2, KeyPressed, Zenon
    <3>2. CASE agreed' = agreed \union {Names(ConsolePlan)} /\ console'.layout = ConsolePlan
      <4>1. Names(console'.layout) = Names(ConsolePlan)
        BY <3>2
      <4> HIDE DEF ConsolePlan
      <4> QED
        BY <3>2, <4>1 DEF Consented
    <3> QED
      BY <3>1, <3>2
  <2>4. CASE ConsoleOrders
    <3>1. console \in WritingConsoles
      BY <2>1, <2>4, ConsoleKnown DEF ConsoleOrders
    <3> QED
      BY <2>4, <3>1 DEF ConsoleOrders, WritingConsoles, Writing, AgreedInv, DoorsAgreed, Consented
  <2>5. CASE ConsoleDisko
    BY <2>5 DEF ConsoleDisko, Writing
  <2> QED
    BY <2>2, <2>4, <2>5 DEF Console
<1>5. DoorsAgreed'
  BY <1>1, <1>3, <1>4 DEF AgreedInv, DoorsAgreed, Busy, Consented
<1>6. disko' = disko \/ (disko' = console.layout /\ Writing /\ disko'.ok)
  <2>1. ConsoleDisko => disko' = console.layout /\ Writing /\ console \in WritingConsoles
    BY ConsoleKnown DEF ConsoleDisko, Writing, Shape
  <2> QED
    BY <2>1 DEF Console, LoopTop, Choose, Confirm, Idle, ConsoleOrders, WritingConsoles, Layouts
<1>7. DisksAgreed'
  BY <1>1, <1>3, <1>6 DEF AgreedInv, DoorsAgreed, DisksAgreed, Live, Consented
<1> QED
  BY <1>5, <1>7 DEF AgreedInv

(* The browser: what is written is what its commits resolved to. *)
LEMMA AgreedServer ==
  ASSUME Shape, Flow, AgreedInv, Server \/ Page
  PROVE  AgreedInv'
<1> USE DEF doors, result, ServerOnly
<1>1. UNCHANGED <<console, script, diskocfg, erased, installed>>
  BY ServerWrote DEF Page, OpenPage, PagePlan, Commit
<1>4. CASE OpenPage \/ \E k \in LayoutKinds : PagePlan(k)
  <2>1. UNCHANGED <<writes, disko, agreed, blind>>
    BY <1>4 DEF OpenPage, PagePlan
  <2> QED
    BY <1>1, <2>1 DEF AgreedInv, DoorsAgreed, DisksAgreed, Live, Writing, Busy, Consented
<1>6. ASSUME NEW p \in Pasted, NEW k \in LayoutKinds, Commit(p, k)
      PROVE  AgreedInv'
  <2>1. UNCHANGED disko /\ commits \in Commits
        /\ \/ UNCHANGED <<writes, agreed, blind>>
           \/ /\ writes' = [writes EXCEPT ![commits] =
                   [pc |-> "orders", layout |-> Proposed(k), effective |-> Rendered(p, k)]]
              /\ Consented' = Consented \union {Names(Proposed(k))}
              /\ Rendered(p, k).chosen = Names(Proposed(k))
    BY <1>6, Committed
  <2>2. CASE UNCHANGED <<writes, agreed, blind>>
    BY <1>1, <2>1, <2>2 DEF AgreedInv, DoorsAgreed, DisksAgreed, Live, Writing, Busy, Consented
  <2>3. CASE /\ writes' = [writes EXCEPT ![commits] =
                  [pc |-> "orders", layout |-> Proposed(k), effective |-> Rendered(p, k)]]
             /\ Consented' = Consented \union {Names(Proposed(k))}
             /\ Rendered(p, k).chosen = Names(Proposed(k))
    <3>1. \A m \in Busy' : \/ m \in Busy /\ writes'[m] = writes[m]
                           \/ /\ writes'[m].layout = Proposed(k)
                              /\ writes'[m].effective = Rendered(p, k)
      BY <2>1, <2>3, CommitWritten
    <3> HIDE DEF Proposed, Rendered, Consented
    <3>2. \A m \in Busy' : /\ Names(writes'[m].layout) \in Consented'
                           /\ writes'[m].effective.chosen = Names(writes'[m].layout)
      BY <2>3, <3>1 DEF AgreedInv, DoorsAgreed
    <3>3. Consented \subseteq Consented'
      BY <2>3
    <3>4. DoorsAgreed'
      BY <1>1, <3>2, <3>3 DEF AgreedInv, DoorsAgreed, Writing
    <3>5. DisksAgreed'
      BY <1>1, <2>1, <3>3 DEF AgreedInv, DisksAgreed, Live
    <3> QED
      BY <3>4, <3>5 DEF AgreedInv
  <2> QED
    BY <2>1, <2>2, <2>3
<1>7. CASE Server
  <2>1. UNCHANGED <<agreed, blind>>
        /\ \A m \in Busy' : /\ m \in Busy
                            /\ writes'[m].layout = writes[m].layout
                            /\ writes'[m].effective = writes[m].effective
    BY <1>7, ServerWrote
  <2>2. PICK n \in Busy : writes[n] \in OpenWrites /\ disko' \in {disko, writes[n].layout}
    BY <1>7, ServerWrote
  <2>4. DoorsAgreed'
    BY <1>1, <2>1 DEF AgreedInv, DoorsAgreed, Writing, Consented
  <2>5. disko' = disko \/ (Names(disko') \in Consented /\ disko'.ok)
    BY <2>2 DEF AgreedInv, DoorsAgreed, OpenWrites, Layouts
  <2>6. DisksAgreed'
    BY <1>1, <2>1, <2>5 DEF AgreedInv, DisksAgreed, Live, Consented
  <2> QED
    BY <2>4, <2>6 DEF AgreedInv
<1> QED
  BY <1>4, <1>6, <1>7 DEF Page

(* The steps beside the script and the doors. *)
LEMMA AgreedRest ==
  ASSUME Shape, Flow, AgreedInv,
         UNCHANGED ivars \/ Pair \/ Plug \/ \E sent \in Shipped : Ship(sent)
  PROVE  AgreedInv'
<1> USE DEF files, doors, result
<1>1. UNCHANGED <<console, writes, agreed, blind, disko, erased, installed, diskocfg>>
  BY DEF ivars, Pair, Plug, Ship
<1>3. script' = script \/ script' = "locate"
  BY DEF ivars, Pair, Plug, Ship
<1>5. DoorsAgreed'
  BY <1>1 DEF AgreedInv, DoorsAgreed, Writing, Busy, Consented
<1>6. DisksAgreed'
  BY <1>1, <1>3 DEF AgreedInv, DisksAgreed, Live, Consented
<1> QED
  BY <1>5, <1>6 DEF AgreedInv

(* Every step. *)
LEMMA AgreedStep ==
  Shape /\ Flow /\ AgreedInv /\ [InstallerNext]_allvars => AgreedInv'
<1> SUFFICES ASSUME Shape, Flow, AgreedInv, [InstallerNext]_allvars PROVE AgreedInv'
  OBVIOUS
<1>1. CASE Installing /\ (Script \/ StartAgain)
  BY <1>1, AgreedScript
<1>2. CASE Console
  BY <1>2, AgreedConsole
<1>3. CASE Server \/ Page
  BY <1>3, AgreedServer
<1>4. CASE Pair \/ Plug \/ \E sent \in Shipped : Ship(sent)
  BY <1>4, AgreedRest
<1>5. CASE First \/ UNCHANGED allvars
  BY <1>5, AgreedRest DEF First, allvars
<1> QED
  BY <1>1, <1>2, <1>3, <1>4, <1>5 DEF InstallerNext
-----------------------------------------------------------------------------
(***************************************************************************)
(* What reaches the disks fits.                                            *)
(***************************************************************************)

(* What was asked for stays asked for. *)
LEMMA AskedStays ==
  ASSUME UNCHANGED brought, chose \subseteq chose'
  PROVE  AskedMins \subseteq AskedMins' /\ (DiskNamed => DiskNamed')
<1>1. Sources \subseteq Sources'
  BY DEF Sources
<1>2. AskedMins \subseteq AskedMins'
  BY <1>1 DEF AskedMins
<1> QED
  BY <1>1, <1>2 DEF DiskNamed

(* The orders the machine was started with are asked for, *)
LEMMA BroughtAsked ==
  ASSUME Shape
  PROVE  Origin(brought)
<1>1. brought.orders => brought \in Sources
  BY DEF Sources
<1> QED
  BY <1>1 DEF Origin, AskedMins, DiskNamed

(* and once a door chose, the default and what was pasted. *)
LEMMA ChosenAsked ==
  ASSUME chose # {}
  PROVE  DefaultMin \in AskedMins /\ \A p \in Pasted : Origin(p)
<1>1. DefaultMin \in AskedMins
  BY DEF AskedMins
<1>2. \A p \in Pasted : p.orders /\ brought.orders => p \in Sources
  BY DEF Sources
<1> QED
  BY <1>1, <1>2 DEF Origin, AskedMins, DiskNamed

(* At the start there is nothing that could not fit. *)
LEMMA FitStart ==
  InstallerInit => FitInv
<1> SUFFICES ASSUME InstallerInit PROVE FitInv
  OBVIOUS
<1>1. ShutDoors /\ disko = Refused /\ erased = Refused /\ orders = NoFile /\ base = NoFile
  BY DEF InstallerInit, ShutDoors
<1> QED
  BY <1>1, ShutKnown, RefusedPlan, FilesTyped
     DEF FitInv, DoorsFit, FilesOrigin, DisksFit, Origin

(* The script. *)
LEMMA FitScript ==
  ASSUME Shape, Flow, AgreedInv, FitInv, Script \/ StartAgain
  PROVE  FitInv'
<1> USE DEF files, doors, result
<1>1. AskedMins \subseteq AskedMins' /\ (DiskNamed => DiskNamed')
  <2>1. UNCHANGED <<brought, chose>>
    BY DEF Script, StartAgain, Locate, RunWizards, FilesThere, NobodyChose, Check, Plan, Closure,
           Disko, Install
  <2> QED
    BY <2>1, AskedStays
<1>2. UNCHANGED <<brought, chose>>
  BY DEF Script, StartAgain, Locate, RunWizards, FilesThere, NobodyChose, Check, Plan, Closure,
         Disko, Install
<1>0. Busy' \subseteq Busy /\ \A n \in Busy' : writes'[n] = writes[n]
  BY ScriptWrites
<1>3. CASE Locate
  <2>1. /\ script = "locate" /\ ~diskocfg
        /\ \/ script' = "wizards" /\ ~asked'
           \/ script' = "consent" /\ orders' = brought
        /\ UNCHANGED <<console, base, disko, erased, diskocfg>>
    BY <1>3 DEF Locate, Shape
  <2>2. DoorsFit'
    BY <1>0, <1>2, <2>1 DEF FitInv, DoorsFit, Writing
  <2>3. FilesOrigin'
    BY <1>0, <1>1, <1>2, <2>1, BroughtAsked DEF FitInv, FilesOrigin, Writing, Origin
  <2>4. DisksFit'
    BY <1>1, <2>1 DEF FitInv, DisksFit, Live, Sound
  <2> QED
    BY <2>2, <2>3, <2>4 DEF FitInv
<1>4. CASE RunWizards
  <2>1. /\ script = "wizards" /\ script' = "console" /\ disko' = Refused /\ orders' = NoFile
        /\ base' = base \/ (asked /\ base' = orders)
        /\ UNCHANGED erased
    BY <1>4 DEF RunWizards
  <2>2. /\ ~Writing'
        /\ console'.pc \in Screens =>
             console'.given = NoFile \/ (asked /\ console'.given = orders)
    BY <1>4 DEF RunWizards, OpenConsole, Writing, Screens
  <2>4. Origin(base)' /\ (console'.pc \in Screens => Origin(console.given)') /\ Origin(orders)'
    <3>1. asked => Origin(orders)
      BY <2>1 DEF FitInv, FilesOrigin
    <3> QED
      BY <1>1, <1>2, <2>1, <2>2, <3>1, FilesTyped DEF FitInv, FilesOrigin, Origin
  <2>5. DoorsFit'
    BY <1>0, <1>2, <2>2 DEF FitInv, DoorsFit
  <2>6. FilesOrigin'
    BY <1>0, <1>1, <1>2, <2>2, <2>4 DEF FitInv, FilesOrigin, Origin
  <2>7. DisksFit'
    BY <1>1, <2>1, RefusedPlan DEF FitInv, DisksFit, Sound
  <2> QED
    BY <2>5, <2>6, <2>7 DEF FitInv
<1>5. CASE FilesThere \/ NobodyChose \/ Check \/ Closure \/ Install \/ StartAgain
  <2>1. UNCHANGED <<console, base, orders, disko, erased>>
    BY <1>5 DEF FilesThere, NobodyChose, Check, Closure, Install, StartAgain
  <2>2. /\ script' \in {"console", "consent", "plan"} => script \in {"console", "consent"}
        /\ script' = "wizards" => script = "consent"
    BY <1>5 DEF FilesThere, NobodyChose, Check, Closure, Install, StartAgain
  <2>3. Live' => Live
    BY <1>5 DEF FilesThere, NobodyChose, Check, Closure, Install, StartAgain, Live
  <2>4. DoorsFit'
    BY <1>0, <1>2, <2>1 DEF FitInv, DoorsFit, Writing
  <2>5. FilesOrigin'
    BY <1>0, <1>1, <1>2, <2>1, <2>2 DEF FitInv, FilesOrigin, Writing, Origin
  <2>6. DisksFit'
    BY <1>1, <2>1, <2>3 DEF FitInv, DisksFit, Sound
  <2> QED
    BY <2>4, <2>5, <2>6 DEF FitInv
<1>6. CASE Plan
  <2> DEFINE layout == ResolvePolicy(orders, Parsed(inventory))
  <2>1. orders \in SomeOrders /\ orders.orders = TRUE /\ brought.orders /\ Origin(orders)
    <3>1. script = "plan"
      BY <1>6 DEF Plan
    <3>2. orders \in SomeOrders /\ brought.orders /\ Origin(orders)
      BY <3>1 DEF Shape, Flow, ByHand, FitInv, FilesOrigin
    <3> QED
      BY <3>2, FilesTyped
  <2>2. layout.ok => \/ orders.disk # NoDisk /\ layout.kind = "single"
                     \/ FitFor(layout, orders.min)
    BY <2>1, OrdersResolved, ProbeTyped DEF Shape
  <2> HIDE DEF layout
  <2>3. layout.ok => \/ \E m \in AskedMins : FitFor(layout, m)
                     \/ layout.kind = "single" /\ DiskNamed
    BY <2>1, <2>2 DEF Origin
  <2>4. /\ UNCHANGED <<console, base, orders, erased>>
        /\ \/ layout.ok /\ disko' = layout /\ script' = "closure"
           \/ script' = "refused" /\ UNCHANGED <<disko, diskocfg>>
    BY <1>6 DEF Plan, layout
  <2>5. DoorsFit'
    BY <1>0, <1>2, <2>4 DEF FitInv, DoorsFit, Writing
  <2>6. FilesOrigin'
    BY <1>0, <1>1, <1>2, <2>4 DEF FitInv, FilesOrigin, Writing, Origin
  <2>7. DisksFit'
    BY <1>1, <2>3, <2>4 DEF FitInv, DisksFit, Live, Sound
  <2> QED
    BY <2>5, <2>6, <2>7 DEF FitInv
<1>7. CASE Disko
  <2>1. /\ script = "disko" /\ erased' = disko /\ script' \in {"install", "failed"}
        /\ UNCHANGED <<console, base, orders, disko, diskocfg>>
    BY <1>7 DEF Disko
  <2>2. diskocfg
    BY <2>1 DEF Flow, InTurn
  <2>3. DoorsFit'
    BY <1>0, <1>2, <2>1 DEF FitInv, DoorsFit, Writing
  <2>4. FilesOrigin'
    BY <1>0, <1>1, <1>2, <2>1 DEF FitInv, FilesOrigin, Writing, Origin
  <2>5. DisksFit'
    BY <1>1, <2>1, <2>2 DEF FitInv, DisksFit, Live, Sound
  <2> QED
    BY <2>3, <2>4, <2>5 DEF FitInv
<1> QED
  BY <1>3, <1>4, <1>5, <1>6, <1>7 DEF Script
(* What the console writes: the orders it was given, and what was settled. *)
LEMMA ConsoleWrote ==
  ASSUME Shape, ConsoleOrders
  PROVE  /\ console \in WritingConsoles /\ console.given \in Files
         /\ console' = [console EXCEPT !.pc = "disko"]
         /\ console'.layout = console.layout /\ console'.given = console.given
         /\ console'.pc = "disko"
         /\ orders' \in Effective /\ orders'.chosen = Names(console.layout)
         /\ console.given.orders =>
              orders'.min = console.given.min /\ orders'.disk = console.given.disk
         /\ ~console.given.orders => orders'.min = DefaultMin /\ orders'.disk = NoDisk
         /\ HasOwner(console.given) => Hex64(orders'.owner)
         /\ UNCHANGED <<ConsoleOnly, disko, flag, agreed, chose>>
<1>1. console \in WritingConsoles
  BY ConsoleKnown DEF Shape, ConsoleOrders
<1>2. console' = [console EXCEPT !.pc = "disko"]
      /\ UNCHANGED <<ConsoleOnly, disko, flag, agreed, chose>>
  BY DEF ConsoleOrders
<1>3. console'.layout = console.layout /\ console'.given = console.given /\ console'.pc = "disko"
      /\ console.given \in Files /\ console.layout \in Layouts
  BY <1>1, <1>2 DEF WritingConsoles
<1>5. orders' = EnsureEnrollment(EffectiveOrders(console.given, console.layout), "shown")
  BY DEF ConsoleOrders
<1>6. /\ orders' \in Effective /\ orders'.chosen = Names(console.layout)
      /\ console.given.orders =>
           orders'.min = console.given.min /\ orders'.disk = console.given.disk
      /\ ~console.given.orders => orders'.min = DefaultMin /\ orders'.disk = NoDisk
      /\ (console.given.orders => console.given.owner # "malformed") => Hex64(orders'.owner)
  BY <1>3, <1>5, WizardOrders
<1>7. HasOwner(console.given) => (console.given.orders => console.given.owner # "malformed")
  BY DEF HasOwner, Hex64
<1> QED
  BY <1>1, <1>2, <1>3, <1>6, <1>7

(* The console. *)
LEMMA FitConsole ==
  ASSUME Shape, FitInv, Console
  PROVE  FitInv'
<1> USE DEF doors, result
<1>1. UNCHANGED <<brought, writes, base, script, asked, diskocfg, erased>>
  BY DEF Console, LoopTop, Choose, Confirm, Idle, ConsoleOrders, ConsoleDisko, ConsoleOnly
<1>2. chose \subseteq chose'
  BY DEF Console, LoopTop, Choose, Confirm, Idle, ConsoleOrders, ConsoleDisko, ConsoleOnly
<1>3. AskedMins \subseteq AskedMins' /\ (DiskNamed => DiskNamed')
  BY <1>1, <1>2, AskedStays
<1>4. CASE LoopTop \/ Choose \/ Confirm \/ Idle
  <2> HIDE DEF ConsolePlan
  <2>1. /\ console \in OpenConsoles /\ UNCHANGED <<orders, disko>>
        /\ console'.pc \in Screens \/ Writing' => console'.given = console.given
        /\ Writing' => console'.layout = ConsolePlan /\ FitFor(ConsolePlan, DefaultMin)
                       /\ chose' # {}
    <3> HIDE DEF ConsoleOnly
    <3> QED
      BY <1>4, KeyPressed DEF Writing, Screens
  <2>2. Writing' => FitFor(console.layout, DefaultMin)'
    BY <2>1 DEF FitFor
  <2>3. DoorsFit'
    BY <1>1, <1>2, <2>1, <2>2 DEF FitInv, DoorsFit, Busy
  <2>4. console.pc \in Screens
    BY <2>1 DEF OpenConsoles
  <2>5. FilesOrigin'
    BY <1>1, <1>3, <2>1, <2>4 DEF FitInv, FilesOrigin, Busy, Origin
  <2>6. DisksFit'
    BY <1>1, <1>3, <2>1 DEF FitInv, DisksFit, Live, Sound
  <2> QED
    BY <2>3, <2>5, <2>6 DEF FitInv
<1>5. CASE ConsoleOrders
  <2>1. Writing /\ console.pc = "orders"
    BY <1>5 DEF ConsoleOrders, Writing
  <2>2. FitFor(console.layout, DefaultMin) /\ chose # {} /\ Origin(console.given)
    BY <2>1 DEF FitInv, DoorsFit, FilesOrigin
  <2>3. UNCHANGED <<disko, chose>> /\ console'.layout = console.layout
        /\ console'.given = console.given
    BY <1>5, ConsoleWrote
  <2>4. Origin(orders)'
    <3>1. CASE console.given.orders
      <4>1. orders'.min = console.given.min /\ orders'.disk = console.given.disk
        BY <1>5, <3>1, ConsoleWrote
      <4> QED
        BY <1>1, <1>3, <2>2, <3>1, <4>1 DEF Origin
    <3>2. CASE ~console.given.orders
      <4>1. orders'.min = DefaultMin /\ orders'.disk = NoDisk
        BY <1>5, <3>2, ConsoleWrote
      <4>2. DefaultMin \in AskedMins
        BY <2>2, ChosenAsked
      <4> QED
        BY <1>3, <4>1, <4>2 DEF Origin
    <3> QED
      BY <3>1, <3>2
  <2>5. DoorsFit'
    BY <1>1, <2>2, <2>3 DEF FitInv, DoorsFit, Busy, FitFor
  <2>6. FilesOrigin'
    BY <1>1, <1>3, <2>2, <2>3, <2>4 DEF FitInv, FilesOrigin, Busy, Origin
  <2>7. DisksFit'
    BY <1>1, <1>3, <2>3 DEF FitInv, DisksFit, Live, Sound
  <2> QED
    BY <2>5, <2>6, <2>7 DEF FitInv
<1>6. CASE ConsoleDisko
  <2>1. Writing /\ ~Writing' /\ console'.pc \notin Screens /\ disko' = console.layout
        /\ UNCHANGED <<orders, chose>>
    BY <1>6 DEF ConsoleDisko, Writing, Screens
  <2>2. FitFor(console.layout, DefaultMin) /\ DefaultMin \in AskedMins
    BY <2>1, ChosenAsked DEF FitInv, DoorsFit
  <2>3. DoorsFit'
    BY <1>1, <2>1 DEF FitInv, DoorsFit, Busy
  <2>4. FilesOrigin'
    BY <1>1, <1>3, <2>1 DEF FitInv, FilesOrigin, Busy, Origin
  <2>5. Sound(disko)'
    BY <1>3, <2>1, <2>2 DEF Sound, FitFor
  <2>6. DisksFit'
    BY <1>1, <1>3, <2>5 DEF FitInv, DisksFit, Sound
  <2> QED
    BY <2>3, <2>4, <2>6 DEF FitInv
<1> QED
  BY <1>4, <1>5, <1>6 DEF Console

(* The browser. *)
LEMMA FitServer ==
  ASSUME Shape, FitInv, Server \/ Page
  PROVE  FitInv'
<1> USE DEF doors, result, ServerOnly
<1>1. UNCHANGED <<brought, console, base, script, asked, diskocfg, erased>>
  BY ServerKeeps
<1>2. chose \subseteq chose'
  BY ServerKeeps
<1>3. AskedMins \subseteq AskedMins' /\ (DiskNamed => DiskNamed')
  BY <1>1, <1>2, AskedStays
<1>4. CASE UNCHANGED <<writes, orders, disko, chose>>
  <2>2. DoorsFit'
    BY <1>1, <1>4 DEF FitInv, DoorsFit, Writing, Busy
  <2>3. FilesOrigin'
    BY <1>1, <1>3, <1>4 DEF FitInv, FilesOrigin, Writing, Busy, Origin
  <2>4. DisksFit'
    BY <1>1, <1>3, <1>4 DEF FitInv, DisksFit, Live, Sound
  <2> QED
    BY <2>2, <2>3, <2>4 DEF FitInv
<1>5. ASSUME NEW p \in Pasted, NEW k \in LayoutKinds, Commit(p, k)
      PROVE  FitInv'
  <2>1. UNCHANGED <<orders, disko>> /\ commits \in Commits
        /\ \/ UNCHANGED <<writes, chose>>
           \/ /\ writes' = [writes EXCEPT ![commits] =
                   [pc |-> "orders", layout |-> Proposed(k), effective |-> Rendered(p, k)]]
              /\ chose' # {}
              /\ FitFor(Proposed(k), DefaultMin)
              /\ BaseConfig(p) \in {p, base, NoFile}
              /\ BaseConfig(p).orders => /\ Rendered(p, k).min = BaseConfig(p).min
                                         /\ Rendered(p, k).disk = BaseConfig(p).disk
              /\ ~BaseConfig(p).orders => /\ Rendered(p, k).min = DefaultMin
                                          /\ Rendered(p, k).disk = NoDisk
    BY <1>5, Committed
  <2>2. CASE UNCHANGED <<writes, chose>>
    BY <1>4, <2>1, <2>2
  <2> DEFINE l == Proposed(k)
             e == Rendered(p, k)
             b == BaseConfig(p)
  <2>3. CASE /\ writes' = [writes EXCEPT ![commits] = [pc |-> "orders", layout |-> l,
                                                      effective |-> e]]
             /\ chose' # {}
             /\ FitFor(l, DefaultMin)
             /\ b \in {p, base, NoFile}
             /\ b.orders => e.min = b.min /\ e.disk = b.disk
             /\ ~b.orders => e.min = DefaultMin /\ e.disk = NoDisk
    <3> HIDE DEF l, e, b
    <3>1. \A m \in Busy' : \/ m \in Busy /\ writes'[m] = writes[m]
                           \/ writes'[m].layout = l /\ writes'[m].effective = e
      <4>1. commits \in Commits
        BY <2>1
      <4>2. writes' = [writes EXCEPT ![commits] = [pc |-> "orders", layout |-> l,
                                                   effective |-> e]]
        BY <2>3
      <4> QED
        BY <4>1, <4>2, CommitWritten
    <3>2. DefaultMin \in AskedMins'
      BY <2>3 DEF AskedMins
    <3>3. p.orders /\ brought'.orders => p \in Sources'
      BY <2>3 DEF Sources
    <3>4. brought'.orders /\ e.orders =>
            e.min \in AskedMins' /\ (e.disk = NoDisk \/ DiskNamed')
      <4>1. CASE b = p /\ p.orders
        BY <2>3, <3>3, <4>1 DEF AskedMins, DiskNamed
      <4>2. CASE b = base /\ base.orders
        BY <1>1, <1>3, <2>3, <4>2 DEF FitInv, FilesOrigin, Origin
      <4>3. CASE ~b.orders
        BY <2>3, <3>2, <4>3
      <4> QED
        BY <2>3, <4>1, <4>2, <4>3, FilesTyped
    <3>5. \A m \in Busy' : FitFor(writes'[m].layout, DefaultMin) /\ chose' # {}
      BY <2>3, <3>1 DEF FitInv, DoorsFit
    <3>6. DoorsFit'
      BY <1>1, <2>3, <3>5 DEF FitInv, DoorsFit, Writing, FitFor
    <3>7. \A m \in Busy' : Origin(writes[m].effective)'
      BY <1>1, <1>3, <3>1, <3>4 DEF FitInv, FilesOrigin, Origin
    <3>8. FilesOrigin'
      BY <1>1, <1>3, <2>1, <3>7 DEF FitInv, FilesOrigin, Writing, Origin
    <3>9. DisksFit'
      BY <1>1, <1>3, <2>1 DEF FitInv, DisksFit, Live, Sound
    <3> QED
      BY <3>6, <3>8, <3>9 DEF FitInv
  <2> QED
    BY <2>1, <2>2, <2>3
<1>6. CASE Server
  <2>1. UNCHANGED chose
        /\ \A m \in Busy' : /\ m \in Busy
                            /\ writes'[m].layout = writes[m].layout
                            /\ writes'[m].effective = writes[m].effective
    BY <1>6, ServerWrote
  <2>2. PICK n \in Busy : /\ disko' \in {disko, writes[n].layout}
                          /\ orders' \in {orders, writes[n].effective}
    BY <1>6, ServerWrote
  <2>3. FitFor(writes[n].layout, DefaultMin) /\ DefaultMin \in AskedMins
        /\ Origin(writes[n].effective)
    BY ChosenAsked DEF FitInv, DoorsFit, FilesOrigin
  <2>4. DoorsFit'
    BY <1>1, <2>1 DEF FitInv, DoorsFit, Writing, FitFor
  <2>5. FilesOrigin'
    BY <1>1, <1>3, <2>1, <2>2, <2>3 DEF FitInv, FilesOrigin, Writing, Origin
  <2>6. disko' = writes[n].layout => Sound(disko)'
    BY <1>3, <2>3 DEF Sound, FitFor
  <2>7. DisksFit'
    BY <1>1, <1>3, <2>2, <2>6 DEF FitInv, DisksFit, Live, Sound
  <2> QED
    BY <2>4, <2>5, <2>7 DEF FitInv
<1> QED
  BY <1>4, <1>5, <1>6 DEF Page, OpenPage, PagePlan


(* The steps beside the script and the doors. *)
LEMMA FitRest ==
  ASSUME Shape, Flow, FitInv,
         UNCHANGED ivars \/ Pair \/ Plug \/ \E sent \in Shipped : Ship(sent)
  PROVE  FitInv'
<1> USE DEF files, doors, result
<1>1. UNCHANGED <<console, writes, base, orders, disko, erased, diskocfg, asked, chose>>
  BY DEF ivars, Pair, Plug, Ship
<1>2. DoorsFit'
  BY <1>1 DEF FitInv, DoorsFit, Writing, Busy
<1>3. CASE UNCHANGED <<brought, script>>
  <2>1. AskedMins \subseteq AskedMins' /\ (DiskNamed => DiskNamed')
    BY <1>1, <1>3, AskedStays
  <2>2. FilesOrigin'
    BY <1>1, <1>3, <2>1 DEF FitInv, FilesOrigin, Writing, Busy, Origin
  <2>3. DisksFit'
    BY <1>1, <1>3, <2>1 DEF FitInv, DisksFit, Live, Sound
  <2> QED
    BY <1>2, <2>2, <2>3 DEF FitInv
<1>4. CASE script = "target" /\ script' = "locate"
  <2>1. ShutDoors /\ base = NoFile /\ erased = Refused /\ ~diskocfg
    BY <1>4 DEF Shape, Flow, NotBegun
  <2>2. FilesOrigin'
    BY <1>1, <1>4, <2>1, ShutKnown, FilesTyped DEF FilesOrigin, Writing, Busy, Origin
  <2>3. DisksFit'
    BY <1>1, <1>4, <2>1, RefusedPlan DEF DisksFit, Live
  <2> QED
    BY <1>2, <2>2, <2>3 DEF FitInv
<1> QED
  BY <1>3, <1>4 DEF ivars, Pair, Plug, Ship

(* Every step. *)
LEMMA FitStep ==
  Shape /\ Flow /\ AgreedInv /\ FitInv /\ [InstallerNext]_allvars => FitInv'
<1> SUFFICES ASSUME Shape, Flow, AgreedInv, FitInv, [InstallerNext]_allvars PROVE FitInv'
  OBVIOUS
<1>1. CASE Script \/ StartAgain
  BY <1>1, FitScript
<1>2. CASE Console
  BY <1>2, FitConsole
<1>3. CASE Server \/ Page
  BY <1>3, FitServer
<1>4. CASE Pair \/ Plug \/ \E sent \in Shipped : Ship(sent)
  BY <1>4, FitRest
<1>5. CASE First \/ UNCHANGED allvars
  BY <1>5, FitRest DEF First, allvars
<1> QED
  BY <1>1, <1>2, <1>3, <1>4, <1>5 DEF InstallerNext
-----------------------------------------------------------------------------
(***************************************************************************)
(* Every choice is a new one, and what was chosen is recorded.             *)
(***************************************************************************)
LEMMA ChoiceStart ==
  InstallerInit => ChoiceInv
<1> SUFFICES ASSUME InstallerInit PROVE ChoiceInv
  OBVIOUS
<1>1. /\ ShutDoors /\ Consented = {} /\ installed = NoFile /\ diskocfg = FALSE /\ chose = {}
      /\ script \in {"locate", "target", "flashed"} /\ starts = 1
  BY DEF InstallerInit, ShutDoors, Consented
<1>2. Choices
  <2>1. IsFiniteSet(chose)
    BY <1>1, FS_EmptySet
  <2> QED
    BY <1>1, <2>1 DEF Choices
<1>3. NoneYet
  BY <1>1 DEF NoneYet
<1>4. Counted
  BY <1>1 DEF Counted
<1>5. Recorded
  BY <1>1, FilesTyped DEF Recorded, Live
<1> QED
  BY <1>2, <1>3, <1>4, <1>5 DEF ChoiceInv

(* What is chosen anew makes a set of one choice only of an empty set. *)
LEMMA ChosenAnew ==
  ASSUME NEW c, c \notin chose, NEW n, starts = 1 /\ ~Closed => Counted,
         chose' = chose \union {c}, Consented' = Consented \union {n},
         UNCHANGED <<starts, brought>>
  PROVE  Counted'
<1> SUFFICES ASSUME starts = 1, ~Closed
             PROVE  \A d : chose' = {d} => \E m : Consented' = {m}
  BY DEF Counted, Closed
<1>1. SUFFICES ASSUME NEW d, chose' = {d}
               PROVE  \E m : Consented' = {m}
  OBVIOUS
<1>2. chose = {}
  BY <1>1
<1>3. Consented = {}
  BY <1>2 DEF Counted
<1> QED
  BY <1>3

(* The script. *)
LEMMA ChoiceScript ==
  ASSUME Shape, Flow, ChoiceInv, Script
  PROVE  ChoiceInv'
<1> USE DEF files, doors, result
<1>1. UNCHANGED <<brought, starts, chose, commits>>
  BY DEF Script, Locate, RunWizards, FilesThere, NobodyChose, Check, Plan, Closure, Disko, Install
<1>2. orders = brought => (Closed <=> orders.orders /\ orders.layout # "ask")
  BY DEF Closed
<1>3. Check /\ diskocfg => script' # "wizards"
  <2>1. script = "consent" /\ diskocfg =>
          orders \in Effective \union {NoFile} /\ orders \in SomeOrders
    BY DEF Flow, InTurn, Shape
  <2>2. script = "consent" /\ diskocfg => orders.layout # "ask"
    BY <2>1, EffectiveKnown, FilesTyped
  <2> QED
    BY <2>2 DEF Check
<1>4. Choices'
  <2>1. ASSUME <<"console", starts>> \in chose
        PROVE  /\ console'.pc \notin Screens
               /\ script' \notin {"locate", "wizards"} /\ (script' = "consent" => diskocfg')
    <3>1. /\ console.pc \notin Screens
          /\ script \notin {"locate", "wizards"} /\ (script = "consent" => diskocfg)
      BY <2>1 DEF ChoiceInv, Choices
    <3>2. UNCHANGED console
      BY <3>1 DEF Script, Locate, RunWizards, FilesThere, NobodyChose, Check, Plan, Closure,
                  Disko, Install
    <3>3. script' \notin {"locate", "wizards"} /\ (script' = "consent" => diskocfg')
      BY <1>3, <3>1 DEF Script, Locate, RunWizards, FilesThere, NobodyChose, Check, Plan, Closure,
                  Disko, Install
    <3> QED
      BY <3>1, <3>2, <3>3
  <2> QED
    BY <1>1, <2>1 DEF ChoiceInv, Choices
<1>5. NoneYet'
  <2> SUFFICES ASSUME starts = 1, ~Closed
               PROVE  /\ script' \in {"locate", "wizards"} => ShutDoors'
                      /\ script' = "consent" /\ ~diskocfg' => ShutDoors' /\ orders' = brought
                      /\ script' # "plan"
    BY <1>1 DEF NoneYet, Closed
  <2>1. /\ script \in {"locate", "wizards"} => ShutDoors
        /\ script = "consent" /\ ~diskocfg => ShutDoors /\ orders = brought
        /\ script # "plan"
    BY DEF ChoiceInv, NoneYet
  <2>2. CASE Locate
    BY <2>1, <2>2 DEF Locate, ShutDoors
  <2>3. CASE RunWizards
    BY <2>3 DEF RunWizards
  <2>4. CASE FilesThere
    BY <2>4 DEF FilesThere
  <2>5. CASE NobodyChose \/ Closure \/ Disko \/ Install
    BY <2>5 DEF NobodyChose, Closure, Disko, Install
  <2>6. CASE Check
    <3>1. script = "consent" /\ orders \in SomeOrders /\ orders.orders = TRUE
      BY <2>6, FilesTyped DEF Check, Shape
    <3>2. script' = "wizards" => ~diskocfg
      BY <1>3, <2>6
    <3>3. ~diskocfg => orders.layout = "ask"
      BY <1>2, <2>1, <3>1
    <3> QED
      BY <2>1, <2>6, <3>1, <3>2, <3>3 DEF Check, ShutDoors
  <2> QED
    BY <2>1, <2>2, <2>3, <2>4, <2>5, <2>6 DEF Script, Plan
<1>6. Counted' /\ Recorded'
  <2> SUFFICES ASSUME starts = 1, ~Closed
               PROVE  /\ chose = {} => Consented' = {}
                      /\ \A c : chose = {c} => \E n : Consented' = {n}
                      /\ Live' /\ orders'.orders => orders'.chosen \in Consented'
                      /\ installed'.orders => installed'.chosen \in Consented'
    BY <1>1 DEF Counted, Recorded, Closed
  <2>1. ~Plan
    BY DEF ChoiceInv, NoneYet, Plan
  <2>2. UNCHANGED <<agreed, blind>>
    BY <2>1 DEF Script, Locate, RunWizards, FilesThere, NobodyChose, Check, Closure, Disko, Install
  <2>3. /\ chose = {} => Consented = {}
        /\ \A c : chose = {c} => \E n : Consented = {n}
    BY DEF ChoiceInv, Counted
  <2>4. /\ Live /\ orders.orders => orders.chosen \in Consented
        /\ installed.orders => installed.chosen \in Consented
    BY DEF ChoiceInv, Recorded
  <2>5. Live' /\ orders'.orders => Live /\ orders' = orders
    <3>1. script \in {"locate", "target", "flashed"} => ~diskocfg
      BY DEF Shape
    <3> QED
      BY <2>1, <3>1, FilesTyped DEF Script, Locate, RunWizards, FilesThere, NobodyChose, Check,
         Closure, Disko, Install, Live
  <2>6. installed' = installed \/ (installed' = orders /\ Live)
    <3>1. script = "install" => diskocfg
      BY DEF Flow, InTurn
    <3> QED
      BY <2>1, <3>1 DEF Script, Locate, RunWizards, FilesThere, NobodyChose, Check,
         Closure, Disko, Install, Live
  <2> QED
    BY <2>2, <2>3, <2>4, <2>5, <2>6 DEF Consented
<1> QED
  BY <1>4, <1>5, <1>6 DEF ChoiceInv

(* A new start counts on; what was chosen in an earlier one is another choice. *)
LEMMA ChoiceAgain ==
  ASSUME Shape, ChoiceInv, StartAgain
  PROVE  ChoiceInv'
<1>1. starts' = starts + 1 /\ UNCHANGED <<chose, commits, console>>
  BY DEF StartAgain, doors, result
<1>2. starts \in Nat /\ starts # 0
  BY DEF Shape, ChoiceInv, Choices
<1>3. starts' # 1 /\ starts' # 0 /\ starts' \in Nat
  BY <1>1, <1>2
<1>4. NoneYet' /\ Counted' /\ Recorded'
  BY <1>3 DEF NoneYet, Counted, Recorded
<1>5. Choices'
  <2>1. <<"console", starts'>> \notin chose
    <3>1. SUFFICES ASSUME <<"console", starts'>> \in chose PROVE FALSE
      OBVIOUS
    <3>2. starts' <= starts
      BY <3>1 DEF ChoiceInv, Choices
    <3> QED
      BY <1>1, <1>2, <3>2
  <2>2. IsFiniteSet(chose')
    BY <1>1 DEF ChoiceInv, Choices
  <2>3. \A c \in chose' : \/ c[1] = "browser" /\ c[2] \in Nat /\ c[2] < commits'
                          \/ c[1] = "console" /\ c[2] \in Nat /\ c[2] <= starts'
    <3>1. ASSUME NEW n \in Nat, n <= starts PROVE n <= starts'
      BY <1>1, <1>2, <3>1
    <3> QED
      BY <1>1, <3>1 DEF ChoiceInv, Choices
  <2> QED
    BY <1>1, <1>3, <2>1, <2>2, <2>3 DEF Choices
<1> QED
  BY <1>4, <1>5 DEF ChoiceInv
(* The console. *)
LEMMA ChoiceConsole ==
  ASSUME Shape, Flow, AgreedInv, ChoiceInv, Console
  PROVE  ChoiceInv'
<1> USE DEF doors, result
<1>1. UNCHANGED <<brought, script, starts, diskocfg, commits, installed, blind>>
  BY DEF Console, LoopTop, Choose, Confirm, Idle, ConsoleOrders, ConsoleDisko, ConsoleOnly
<1>2. ~ShutDoors
  BY ShutKnown DEF Console, LoopTop, Choose, Confirm, Idle, ConsoleOrders, ConsoleDisko, Turn,
                   Screens
<1>3. script = "console"
  BY DEF Flow, InTurn, Console, LoopTop, Choose, Confirm, Idle, ConsoleOrders, ConsoleDisko, Turn,
         Writing
<1>4. NoneYet'
  BY <1>1, <1>3 DEF ChoiceInv, NoneYet
<1>5. CASE LoopTop \/ Choose \/ Confirm \/ Idle
  <2> HIDE DEF ConsolePlan
  <2>1. /\ console.pc \in Screens /\ UNCHANGED orders
        /\ \/ UNCHANGED <<agreed, chose>>
           \/ /\ agreed' = agreed \union {Names(ConsolePlan)}
              /\ chose' = chose \union {<<"console", starts>>}
              /\ console'.pc = "orders"
    <3> HIDE DEF ConsoleOnly
    <3> QED
      BY <1>5, KeyPressed DEF OpenConsoles
  <2>2. <<"console", starts>> \notin chose
    BY <2>1 DEF ChoiceInv, Choices
  <2>3. CASE UNCHANGED <<agreed, chose>>
    <3>1. Choices'
      BY <1>1, <2>2, <2>3 DEF ChoiceInv, Choices
    <3>2. Counted' /\ Recorded'
      BY <1>1, <2>1, <2>3 DEF ChoiceInv, Counted, Recorded, Live, Closed, Consented
    <3> QED
      BY <1>4, <3>1, <3>2 DEF ChoiceInv
  <2>4. CASE /\ agreed' = agreed \union {Names(ConsolePlan)}
             /\ chose' = chose \union {<<"console", starts>>}
             /\ console'.pc = "orders"
    <3>1. IsFiniteSet(chose')
      BY <2>4, FS_AddElement DEF ChoiceInv, Choices
    <3>2. \A c \in chose' : \/ c[1] = "browser" /\ c[2] \in Nat /\ c[2] < commits'
                            \/ c[1] = "console" /\ c[2] \in Nat /\ c[2] <= starts'
      <4>1. starts \in Nat /\ starts <= starts
        BY DEF Shape
      <4> QED
        BY <1>1, <2>4, <4>1 DEF ChoiceInv, Choices
    <3>3. Choices'
      BY <1>1, <1>3, <2>4, <3>1, <3>2 DEF ChoiceInv, Choices, Screens
    <3>4. Counted'
      <4>1. Consented' = Consented \union {Names(ConsolePlan)}
        BY <1>1, <2>4 DEF Consented
      <4> QED
        BY <1>1, <2>2, <2>4, <4>1, ChosenAnew DEF ChoiceInv
    <3>5. Recorded'
      BY <1>1, <2>1, <2>4 DEF ChoiceInv, Recorded, Live, Closed, Consented
    <3> QED
      BY <1>4, <3>3, <3>4, <3>5 DEF ChoiceInv
  <2> QED
    BY <2>1, <2>3, <2>4
<1>6. CASE ConsoleOrders \/ ConsoleDisko
  <2>1. UNCHANGED <<agreed, chose>> /\ console'.pc \notin Screens
    BY <1>6, ConsoleWrote DEF ConsoleDisko, Screens, ConsoleOrders
  <2>2. Choices'
    BY <1>1, <1>3, <2>1 DEF ChoiceInv, Choices
  <2>3. Counted'
    BY <1>1, <2>1 DEF ChoiceInv, Counted, Closed, Consented
  <2>4. UNCHANGED orders \/ orders'.chosen \in Consented
    <3>1. CASE ConsoleOrders
      <4>1. orders'.chosen = Names(console.layout) /\ Writing
        BY <3>1, ConsoleWrote DEF WritingConsoles, Writing
      <4> QED
        BY <4>1 DEF AgreedInv, DoorsAgreed
    <3>2. CASE ConsoleDisko
      BY <3>2 DEF ConsoleDisko
    <3> QED
      BY <1>6, <3>1, <3>2
  <2>5. Recorded'
    BY <1>1, <2>1, <2>4 DEF ChoiceInv, Recorded, Live, Closed, Consented
  <2> QED
    BY <1>4, <2>2, <2>3, <2>5 DEF ChoiceInv
<1> QED
  BY <1>5, <1>6 DEF Console

(* The browser. *)
LEMMA ChoiceServer ==
  ASSUME Shape, Flow, AgreedInv, ChoiceInv, Server \/ Page
  PROVE  ChoiceInv'
<1> USE DEF doors, result, ServerOnly
<1>1. UNCHANGED <<brought, script, starts, diskocfg, console, installed>>
  BY ServerKeeps
<1>2. ~ShutDoors
  BY ServerKeeps, ShutKnown
<1>3. NoneYet'
  BY <1>1, <1>2 DEF ChoiceInv, NoneYet, Closed
<1>4. CASE UNCHANGED <<agreed, blind, chose, orders>> /\ commits' \in {commits, commits + 1}
  <2>1. \A n \in Nat : n < commits => n < commits'
    BY <1>4 DEF Shape
  <2>2. Choices'
    BY <1>1, <1>4, <2>1 DEF ChoiceInv, Choices
  <2>3. Counted' /\ Recorded'
    BY <1>1, <1>4 DEF ChoiceInv, Counted, Recorded, Live, Closed, Consented
  <2> QED
    BY <1>3, <2>2, <2>3 DEF ChoiceInv
<1>5. CASE Server
  <2>1. UNCHANGED <<agreed, blind, chose, commits>>
    BY <1>5, ServerWrote
  <2>2. Choices'
    BY <1>1, <2>1 DEF ChoiceInv, Choices
  <2>3. Counted'
    BY <1>1, <2>1 DEF ChoiceInv, Counted, Closed, Consented
  <2>4. UNCHANGED orders \/ orders'.chosen \in Consented
    <3>1. PICK n \in Busy : orders' \in {orders, writes[n].effective}
      BY <1>5, ServerWrote
    <3>2. writes[n].effective.chosen \in Consented
      BY DEF AgreedInv, DoorsAgreed
    <3> QED
      BY <3>1, <3>2
  <2>5. Recorded'
    BY <1>1, <2>1, <2>4 DEF ChoiceInv, Recorded, Live, Closed, Consented
  <2> QED
    BY <1>3, <2>2, <2>3, <2>5 DEF ChoiceInv
<1>6. ASSUME NEW p \in Pasted, NEW k \in LayoutKinds, Commit(p, k)
      PROVE  ChoiceInv'
  <2>1. /\ commits' = commits + 1 /\ UNCHANGED orders
        /\ \/ UNCHANGED <<agreed, blind, chose>>
           \/ /\ Consented' = Consented \union {Names(Proposed(k))}
              /\ chose' = chose \union {<<"browser", commits, BadCode(p)>>}
    BY <1>6, Committed
  <2>2. CASE UNCHANGED <<agreed, blind, chose>>
    BY <1>4, <2>1, <2>2
  <2>3. CASE /\ Consented' = Consented \union {Names(Proposed(k))}
             /\ chose' = chose \union {<<"browser", commits, BadCode(p)>>}
    <3> HIDE DEF Consented
    <3>2. commits \in Nat
      BY DEF Shape
    <3>3. commits < commits' /\ \A n \in Nat : n < commits => n < commits'
      BY <2>1, <3>2
    <3>4. <<"browser", commits, BadCode(p)>> \notin chose
      <4>1. SUFFICES ASSUME <<"browser", commits, BadCode(p)>> \in chose PROVE FALSE
        OBVIOUS
      <4>2. commits < commits
        BY <4>1 DEF ChoiceInv, Choices
      <4> QED
        BY <3>2, <4>2
    <3>5. IsFiniteSet(chose')
      BY <2>3, FS_AddElement DEF ChoiceInv, Choices
    <3>6. \A c \in chose' : \/ c[1] = "browser" /\ c[2] \in Nat /\ c[2] < commits'
                            \/ c[1] = "console" /\ c[2] \in Nat /\ c[2] <= starts'
      BY <1>1, <2>3, <3>2, <3>3 DEF ChoiceInv, Choices
    <3>7. Choices'
      <4>1. <<"console", starts>>[1] # <<"browser", commits, BadCode(p)>>[1]
        OBVIOUS
      <4> QED
        BY <1>1, <2>3, <3>5, <3>6, <4>1 DEF ChoiceInv, Choices
    <3>8. Counted'
      BY <1>1, <2>3, <3>4, ChosenAnew DEF ChoiceInv
    <3>9. Recorded'
      BY <1>1, <2>1, <2>3 DEF ChoiceInv, Recorded, Live, Closed
    <3> QED
      BY <1>3, <3>7, <3>8, <3>9 DEF ChoiceInv
  <2> QED
    BY <2>1, <2>2, <2>3
<1>7. CASE OpenPage \/ \E k \in LayoutKinds : PagePlan(k)
  BY <1>4, <1>7 DEF OpenPage, PagePlan
<1> QED
  BY <1>5, <1>6, <1>7 DEF Page


(* The steps beside the script and the doors. *)
LEMMA ChoiceRest ==
  ASSUME Shape, Flow, ChoiceInv,
         UNCHANGED ivars \/ Pair \/ Plug \/ \E sent \in Shipped : Ship(sent)
  PROVE  ChoiceInv'
<1> USE DEF files, doors, result
<1>1. UNCHANGED <<starts, commits, console, server, writes, page, agreed, blind, chose, diskocfg,
                  orders, installed>>
  BY DEF ivars, Pair, Plug, Ship
<1>2. CASE UNCHANGED <<brought, script>>
  <2>1. Choices'
    BY <1>1, <1>2 DEF ChoiceInv, Choices
  <2>2. NoneYet'
    BY <1>1, <1>2 DEF ChoiceInv, NoneYet, ShutDoors, Closed
  <2>3. Counted' /\ Recorded'
    BY <1>1, <1>2 DEF ChoiceInv, Counted, Recorded, Live, Closed, Consented
  <2> QED
    BY <2>1, <2>2, <2>3 DEF ChoiceInv
<1>3. CASE script = "target" /\ script' = "locate"
  <2>1. ShutDoors /\ chose = {} /\ Consented = {} /\ orders = NoFile /\ installed = NoFile
    BY <1>3, ShutKnown DEF Flow, NotBegun
  <2>2. Choices'
    BY <1>1, <2>1 DEF ChoiceInv, Choices
  <2>3. NoneYet'
    BY <1>1, <1>3, <2>1 DEF NoneYet, ShutDoors
  <2>4. Counted'
    BY <1>1, <2>1 DEF Counted, Consented
  <2>5. Recorded'
    BY <1>1, <2>1, FilesTyped DEF Recorded
  <2> QED
    BY <2>2, <2>3, <2>4, <2>5 DEF ChoiceInv
<1> QED
  BY <1>2, <1>3 DEF ivars, Pair, Plug, Ship

(* Every step. *)
LEMMA ChoiceStep ==
  Shape /\ Flow /\ AgreedInv /\ ChoiceInv /\ [InstallerNext]_allvars => ChoiceInv'
<1> SUFFICES ASSUME Shape, Flow, AgreedInv, ChoiceInv, [InstallerNext]_allvars PROVE ChoiceInv'
  OBVIOUS
<1>1. CASE Script
  BY <1>1, ChoiceScript
<1>2. CASE StartAgain
  BY <1>2, ChoiceAgain
<1>3. CASE Console
  BY <1>3, ChoiceConsole
<1>4. CASE Server \/ Page
  BY <1>4, ChoiceServer
<1>5. CASE Pair \/ Plug \/ \E sent \in Shipped : Ship(sent)
  BY <1>5, ChoiceRest
<1>6. CASE First \/ UNCHANGED allvars
  BY <1>6, ChoiceRest DEF First, allvars
<1> QED
  BY <1>1, <1>2, <1>3, <1>4, <1>5, <1>6 DEF InstallerNext
-----------------------------------------------------------------------------
(***************************************************************************)
(* What may be installed has an owner.                                     *)
(***************************************************************************)
LEMMA NoneOwned ==
  HasOwner(NoFile)
  BY FilesTyped DEF HasOwner

(* At the start nothing but what the machine was started with is there. *)
LEMMA OwnersStart ==
  InstallerInit => OwnersInv
<1> SUFFICES ASSUME InstallerInit PROVE FilesOwned /\ DoorsOwned
  BY DEF OwnersInv
<1>1. ShutDoors /\ base = NoFile /\ installed = NoFile /\ ~Past
  BY DEF InstallerInit, ShutDoors, Past
<1> QED
  BY <1>1, ShutKnown, NoneOwned DEF FilesOwned, DoorsOwned

(* A bad code that was pasted stays pasted. *)
LEMMA PastedStays ==
  ASSUME OwnersInv, chose \subseteq chose', ~BadlyPasted'
  PROVE  ~BadlyPasted /\ FilesOwned /\ DoorsOwned
  BY DEF OwnersInv, BadlyPasted

(* The script installs what it has checked, or what the doors wrote. *)
LEMMA OwnersScript ==
  ASSUME Shape, Flow, OwnersInv, Script \/ StartAgain
  PROVE  OwnersInv'
<1> USE DEF files, doors, result
<1> SUFFICES ASSUME ~BadlyPasted' PROVE FilesOwned' /\ DoorsOwned'
  BY DEF OwnersInv
<1>1. UNCHANGED chose
  BY DEF Script, StartAgain, Locate, RunWizards, FilesThere, NobodyChose, Check, Plan, Closure,
         Disko, Install
<1>2. FilesOwned /\ DoorsOwned
  BY <1>1, PastedStays
<1>0. Busy' \subseteq Busy /\ \A n \in Busy' : writes'[n] = writes[n]
  BY ScriptWrites
<1>3. CASE Locate
  <2>1. script' \in {"wizards", "consent"} /\ ~asked'
        /\ UNCHANGED <<console, base, installed>>
    BY <1>3 DEF Locate, Shape
  <2> QED
    BY <1>0, <1>2, <2>1 DEF FilesOwned, DoorsOwned, Past, Writing
<1>4. CASE RunWizards
  <2>1. /\ script = "wizards" /\ orders' = NoFile /\ UNCHANGED installed
        /\ base' = base \/ (asked /\ base' = orders)
    BY <1>4 DEF RunWizards
  <2>2. /\ ~Writing'
        /\ console'.pc \in Screens =>
             console'.given = NoFile \/ (asked /\ console'.given = orders)
    BY <1>4 DEF RunWizards, OpenConsole, Writing, Screens
  <2>4. asked => HasOwner(orders)
    BY <1>2, <2>1 DEF FilesOwned, Past
  <2>5. FilesOwned'
    BY <1>2, <2>1, <2>4, FilesTyped DEF FilesOwned, HasOwner
  <2>6. DoorsOwned'
    BY <1>0, <1>2, <2>2, <2>4, FilesTyped DEF DoorsOwned, HasOwner
  <2> QED
    BY <2>5, <2>6
<1>5. CASE Check
  <2>1. Past' => HasOwner(orders)
    BY <1>5 DEF Check, Past, ValidateForInstall, HasOwner
  <2>2. UNCHANGED <<orders, console, base, installed>>
    BY <1>5 DEF Check
  <2> QED
    BY <1>0, <1>2, <2>1, <2>2 DEF FilesOwned, DoorsOwned, Writing
<1>6. CASE FilesThere \/ NobodyChose \/ Plan \/ Closure \/ Disko \/ StartAgain
  <2>1. (Past' => Past) /\ UNCHANGED <<orders, console, base, installed>>
    BY <1>6 DEF FilesThere, NobodyChose, Plan, Closure, Disko, StartAgain, Past
  <2> QED
    BY <1>0, <1>2, <2>1 DEF FilesOwned, DoorsOwned, Writing
<1>7. CASE Install
  <2>1. Past /\ ~Past' /\ UNCHANGED <<console, base>>
        /\ installed' \in {installed, orders}
    BY <1>7 DEF Install, Past
  <2> QED
    BY <1>0, <1>2, <2>1 DEF FilesOwned, DoorsOwned, Writing
<1> QED
  BY <1>3, <1>4, <1>5, <1>6, <1>7 DEF Script

(* The console writes what it was given, or mints a code. *)
LEMMA OwnersConsole ==
  ASSUME Shape, OwnersInv, Console
  PROVE  OwnersInv'
<1> USE DEF doors, result
<1> SUFFICES ASSUME ~BadlyPasted' PROVE FilesOwned' /\ DoorsOwned'
  BY DEF OwnersInv
<1>1. UNCHANGED <<writes, base, script, asked, installed>>
  BY DEF Console, LoopTop, Choose, Confirm, Idle, ConsoleOrders, ConsoleDisko, ConsoleOnly
<1>2. chose \subseteq chose'
  BY DEF Console, LoopTop, Choose, Confirm, Idle, ConsoleOrders, ConsoleDisko, ConsoleOnly
<1>3. FilesOwned /\ DoorsOwned
  BY <1>2, PastedStays
<1>4. CASE LoopTop \/ Choose \/ Confirm \/ Idle
  <2> HIDE DEF ConsolePlan
  <2>1. /\ console \in OpenConsoles /\ UNCHANGED orders
        /\ console'.pc \in Screens \/ Writing' => console'.given = console.given
    <3> HIDE DEF ConsoleOnly
    <3> QED
      BY <1>4, KeyPressed DEF Writing, Screens
  <2>2. HasOwner(console.given)
    BY <1>3, <2>1 DEF DoorsOwned, OpenConsoles
  <2> QED
    BY <1>1, <1>3, <2>1, <2>2 DEF FilesOwned, DoorsOwned, Busy, Past
<1>5. CASE ConsoleOrders
  <2>1. HasOwner(console.given)
    BY <1>3, <1>5 DEF DoorsOwned, Writing, ConsoleOrders
  <2>2. Hex64(orders'.owner) /\ console'.given = console.given
    BY <1>5, <2>1, ConsoleWrote
  <2> QED
    BY <1>1, <1>3, <2>1, <2>2 DEF FilesOwned, DoorsOwned, Busy, HasOwner
<1>6. CASE ConsoleDisko
  <2>1. console'.pc \notin Screens /\ ~Writing' /\ UNCHANGED orders
    BY <1>6 DEF ConsoleDisko, Screens, Writing
  <2> QED
    BY <1>1, <1>3, <2>1 DEF FilesOwned, DoorsOwned, Busy, Past
<1> QED
  BY <1>4, <1>5, <1>6 DEF Console

(* The server too, or what was pasted. *)
LEMMA OwnersServer ==
  ASSUME Shape, OwnersInv, Server \/ Page
  PROVE  OwnersInv'
<1> USE DEF doors, result, ServerOnly
<1> SUFFICES ASSUME ~BadlyPasted' PROVE FilesOwned' /\ DoorsOwned'
  BY DEF OwnersInv
<1>1. UNCHANGED <<console, base, script, asked, installed>>
  BY ServerKeeps
<1>2. chose \subseteq chose'
  BY ServerKeeps
<1>3. FilesOwned /\ DoorsOwned
  BY <1>2, PastedStays
<1>4. CASE UNCHANGED <<writes, orders>>
  BY <1>1, <1>3, <1>4 DEF FilesOwned, DoorsOwned, Writing, Busy, Past
<1>5. ASSUME NEW p \in Pasted, NEW k \in LayoutKinds, Commit(p, k)
      PROVE  FilesOwned' /\ DoorsOwned'
  <2> DEFINE l == Proposed(k)
             e == Rendered(p, k)
  <2>1. UNCHANGED orders /\ commits \in Commits
        /\ \/ UNCHANGED writes
           \/ /\ writes' = [writes EXCEPT ![commits] = [pc |-> "orders", layout |-> l,
                                                       effective |-> e]]
              /\ chose' = chose \union {<<"browser", commits, BadCode(p)>>}
              /\ (BaseConfig(p).orders => BaseConfig(p).owner # "malformed") => Hex64(e.owner)
    BY <1>5, Committed
  <2>2. CASE UNCHANGED writes
    BY <1>4, <2>1, <2>2
  <2>3. CASE /\ writes' = [writes EXCEPT ![commits] = [pc |-> "orders", layout |-> l,
                                                      effective |-> e]]
             /\ chose' = chose \union {<<"browser", commits, BadCode(p)>>}
             /\ (BaseConfig(p).orders => BaseConfig(p).owner # "malformed") => Hex64(e.owner)
    <3> HIDE DEF l, e
    <3>1. ~BadCode(p)
      <4>1. SUFFICES ASSUME BadCode(p) = TRUE PROVE FALSE
        BY DEF BadCode
      <4>2. <<"browser", commits, TRUE>> \in chose'
        BY <2>3, <4>1
      <4>3. commits \in 0 .. MaxCommits - 1
        BY <2>1 DEF Commits
      <4> QED
        BY <4>2, <4>3 DEF BadlyPasted
    <3>2. BaseConfig(p).orders => BaseConfig(p).owner # "malformed"
      <4>1. p.orders => p.owner # "malformed"
        BY <3>1 DEF BadCode
      <4>2. base.orders => base.owner # "malformed"
        BY <1>3 DEF FilesOwned, HasOwner, Hex64
      <4> QED
        BY <4>1, <4>2, FilesTyped DEF BaseConfig
    <3>3. HasOwner(e)
      BY <2>3, <3>2 DEF HasOwner
    <3>4. \A m \in Busy' : \/ m \in Busy /\ writes'[m] = writes[m]
                           \/ writes'[m].layout = l /\ writes'[m].effective = e
      BY <2>1, <2>3, CommitWritten
    <3>5. \A m \in Busy' : HasOwner(writes'[m].effective)
      BY <1>3, <3>3, <3>4 DEF DoorsOwned
    <3> QED
      BY <1>1, <1>3, <2>1, <3>5 DEF FilesOwned, DoorsOwned, Writing, HasOwner, Past
  <2> QED
    BY <2>1, <2>2, <2>3
<1>6. CASE Server
  <2>1. \A m \in Busy' : m \in Busy /\ writes'[m].effective = writes[m].effective
    BY <1>6, ServerWrote
  <2>2. PICK n \in Busy : orders' \in {orders, writes[n].effective}
    BY <1>6, ServerWrote
  <2>3. HasOwner(writes[n].effective)
    BY <1>3 DEF DoorsOwned
  <2> QED
    BY <1>1, <1>3, <2>1, <2>2, <2>3 DEF FilesOwned, DoorsOwned, Writing, HasOwner, Past
<1> QED
  BY <1>4, <1>5, <1>6 DEF Page, OpenPage, PagePlan


(* Every step keeps the orders that are on their way, and those installed,  *)
(* owned, unless a page committed a bad code.                              *)
LEMMA OwnersStep ==
  Shape /\ Flow /\ AgreedInv /\ OwnersInv /\ [InstallerNext]_allvars => OwnersInv'
<1> SUFFICES ASSUME Shape, Flow, AgreedInv, OwnersInv, [InstallerNext]_allvars PROVE OwnersInv'
  OBVIOUS
<1>1. CASE Script \/ StartAgain
  BY <1>1, OwnersScript
<1>2. CASE Console
  BY <1>2, OwnersConsole
<1>3. CASE Server \/ Page
  BY <1>3, OwnersServer
<1>4. CASE Pair \/ Plug \/ First \/ UNCHANGED allvars \/ \E sent \in Shipped : Ship(sent)
  <2>1. /\ UNCHANGED <<orders, console, writes, base, installed, chose, asked>>
        /\ script' = script \/ script' = "locate"
    BY <1>4 DEF Pair, Plug, First, allvars, ivars, Ship, files, doors, result
  <2>2. ~BadlyPasted' => FilesOwned /\ DoorsOwned
    BY <2>1, PastedStays
  <2> QED
    BY <2>1, <2>2 DEF OwnersInv, FilesOwned, DoorsOwned, Writing, Busy, Past
<1> QED
  BY <1>1, <1>2, <1>3, <1>4 DEF InstallerNext

-----------------------------------------------------------------------------
(***************************************************************************)
(* The results.                                                            *)
(***************************************************************************)

(* Of the disks of a mirror one is the smallest, and the members leave room  *)
(* for the overhead on it.                                                   *)
LEMMA MembersFit ==
  ASSUME NEW l \in Layouts, NEW m \in Nat, m > Overhead, FitFor(l, m)
  PROVE  MemberSize(l) + Overhead <= Smallest(l) /\ MemberSize(l) > 0
<1> DEFINE sizes == {l.devices[i].size : i \in DOMAIN l.devices}
<1>1. \A i \in DOMAIN l.devices : l.devices[i].size \in Nat
  BY ListOfDisks DEF Layouts, DiskRecords
<1>2. sizes \in SUBSET Nat /\ sizes # {}
  BY <1>1 DEF FitFor
<1>3. \E n \in sizes : \A k \in sizes : n <= k
  <2> HIDE DEF sizes
  <2> QED
    BY <1>2, LeastOfNaturals
<1>4. Smallest(l) \in sizes
  BY <1>3 DEF Smallest
<1>5. Smallest(l) \in Nat /\ m <= Smallest(l)
  BY <1>1, <1>4 DEF FitFor
<1>6. Overhead \in Nat
  BY SizesAssumption
<1>7. ~(Smallest(l) <= Overhead)
  BY <1>5, <1>6
<1>8. MemberSize(l) = Smallest(l) - Overhead
  BY <1>7 DEF MemberSize
<1> QED
  BY <1>5, <1>6, <1>8

(* The parts of the invariant hold together. *)
InstallerInv == Shape /\ Flow /\ AgreedInv /\ FitInv /\ ChoiceInv /\ OwnersInv

(* And they hold in every state of every behaviour. *)
LEMMA Installed ==
  InstallerSpec => []InstallerInv
<1>1. InstallerInit => InstallerInv
  BY ShapeStart, FlowStart, AgreedStart, FitStart, ChoiceStart, OwnersStart DEF InstallerInv
<1>2. InstallerInv /\ [InstallerNext]_allvars => InstallerInv'
  BY ShapeStep, FlowStep, AgreedStep, FitStep, ChoiceStep, OwnersStep DEF InstallerInv
<1> QED
  BY <1>1, <1>2, PTL DEF InstallerSpec

(* The sizes that are asked for are numbers. *)
LEMMA MinsAreNaturals ==
  ASSUME Shape
  PROVE  AskedMins \subseteq Nat
<1>1. Sources \subseteq SomeOrders
  BY OrdersAssumption, FilesTyped DEF Shape, Sources, Files
<1>2. \A o \in SomeOrders : o.min \in Nat
  BY DEF SomeOrders
<1> QED
  BY <1>1, <1>2, SizesAssumption DEF AskedMins

(* Only what was agreed to is erased, or what a commit of the browser's door *)
(* resolved to where the plan on its page showed something else, and only    *)
(* what fits: with whatever orders and setup codes, disks that come and go   *)
(* at any moment, and any order of the script, the console and the commits,  *)
(* which may be written side by side.                                        *)
THEOREM OnlyWhatWasAgreed == InstallerSpec => []ErasedAsAgreed
<1>1. InstallerInv => ErasedAsAgreed
  <2> SUFFICES ASSUME Shape, AgreedInv, FitInv PROVE ErasedAsAgreed
    BY DEF InstallerInv
  <2>1. erased.ok => Names(erased) \in agreed \union blind
    BY DEF AgreedInv, DisksAgreed, Consented
  <2>2. erased.ok => erased \in Layouts /\ Sound(erased)
    BY LayoutOk DEF Shape, FitInv, DisksFit
  <2>3. NeverUnfit
    <3> SUFFICES ASSUME erased.ok, \A o \in Sources : o.disk = NoDisk,
                        NEW i \in DOMAIN erased.devices
                 PROVE  /\ ~erased.devices[i].removable
                        /\ \E m \in AskedMins : m <= erased.devices[i].size
      BY DEF NeverUnfit
    <3>1. PICK m \in AskedMins : FitFor(erased, m)
      BY <2>2 DEF Sound, DiskNamed
    <3> QED
      BY <3>1 DEF FitFor
  <2>4. MirrorFits
    <3> SUFFICES ASSUME erased.ok, erased.kind = "mirror", \A m \in AskedMins : m > Overhead
                 PROVE  /\ MemberSize(erased) + Overhead <= Smallest(erased)
                        /\ MemberSize(erased) > 0
      BY DEF MirrorFits
    <3>1. PICK m \in AskedMins : FitFor(erased, m)
      BY <2>2 DEF Sound
    <3>2. m \in Nat /\ m > Overhead
      BY <3>1, MinsAreNaturals
    <3> QED
      BY <2>2, <3>1, <3>2, MembersFit
  <2> QED
    BY <2>1, <2>3, <2>4 DEF ErasedAsAgreed
<1> QED
  BY <1>1, Installed, PTL

(* No Box without an owner: whatever the orders and the order of the doors,  *)
(* the orders an installed system carries have a hash a code can match,      *)
(* unless a page committed a setup code with a bad one, and a provision that *)
(* reports a Box had its code redeemed.                                      *)
THEOREM EveryBoxIsOwned == InstallerSpec => []Owned
<1>1. InstallerInv => EveryBoxHasAnOwner
  BY DEF InstallerInv, OwnersInv, FilesOwned, HasOwner, EveryBoxHasAnOwner
<1>2. HandoffInv => ProvisionedIsInstalled
  BY DEF HandoffInv, HandoffType, NotStarted, OrdersTaken, OwnerFirst, WhoseOrders,
         ProvisionedIsInstalled
<1>3. InstallerInv /\ HandoffInv => Owned
  BY <1>1, <1>2 DEF Owned
<1> QED
  BY <1>3, Installed, Handed, PTL

(* The storage an installed system records is the one that was formatted, if *)
(* one door committed once, and the script was started once.                 *)
THEOREM TheRecordIsTrue == InstallerSpec => []RecordedAsFormatted
<1>1. InstallerInv => RecordedAsFormatted
  <2> SUFFICES ASSUME Flow, AgreedInv, ChoiceInv,
                      installed.orders, Cardinality(chose) = 1, starts = 1
               PROVE  installed.chosen = Names(erased)
    BY DEF InstallerInv, RecordedAsFormatted
  <2>1. chose # {}
    BY FS_EmptySet
  <2>2. ~Closed
    BY <2>1, ShutKnown DEF Flow, ByOrders
  <2>3. PICK c : chose = {c}
    BY FS_Singleton DEF ChoiceInv, Choices
  <2>4. PICK n : Consented = {n}
    BY <2>2, <2>3 DEF ChoiceInv, Counted
  <2>5. installed.chosen \in Consented
    BY <2>2 DEF ChoiceInv, Recorded
  <2>6. Names(erased) \in Consented
    BY DEF AgreedInv, DisksAgreed
  <2> QED
    BY <2>4, <2>5, <2>6
<1> QED
  BY <1>1, Installed, PTL
(* The base a server was given is there: the orders that leave the storage   *)
(* open are kept beside the ones the doors write.                            *)
BaseKept ==
  /\ brought \in Brought \union Shipped \union {NoFile}
  /\ script = "wizards" /\ asked => orders.orders
  /\ server.up /\ server.given => base.orders

(* Every step keeps the base. *)
LEMMA BaseStep ==
  Shape /\ BaseKept /\ [InstallerNext]_allvars => BaseKept'
<1> SUFFICES ASSUME Shape, BaseKept, [InstallerNext]_allvars PROVE BaseKept'
  OBVIOUS
<1> USE DEF files, doors, result
<1>1. CASE Script \/ StartAgain
  <2>1. brought' = brought
    BY <1>1 DEF Script, StartAgain, Locate, RunWizards, FilesThere, NobodyChose, Check, Plan,
                Closure, Disko, Install
  <2>2. script' = "wizards" /\ asked' => orders'.orders
    BY <1>1, FilesTyped DEF Script, StartAgain, Locate, RunWizards, FilesThere, NobodyChose, Check,
                Plan, Closure, Disko, Install, Shape
  <2>3. server'.up /\ server'.given => base'.orders
    <3>1. CASE RunWizards
      <4>1. server' = server \/ server'.given = asked
        BY <3>1 DEF RunWizards, OpenServer
      <4>2. base' = IF asked THEN orders ELSE base
        BY <3>1 DEF RunWizards
      <4>3. script = "wizards" /\ (asked => orders.orders)
        BY <3>1 DEF RunWizards, BaseKept
      <4> QED
        BY <4>1, <4>2, <4>3 DEF BaseKept
    <3>2. CASE ~RunWizards
      <4>1. (server' = server \/ server' = NoServer) /\ UNCHANGED base
        BY <1>1, <3>2 DEF Script, StartAgain, Locate, FilesThere, NobodyChose, Check, Plan,
                          Closure, Disko, Install
      <4> QED
        BY <4>1 DEF BaseKept, NoServer
    <3> QED
      BY <3>1, <3>2
  <2> QED
    BY <2>1, <2>2, <2>3 DEF BaseKept
<1>2. CASE Console
  <2>1. UNCHANGED <<brought, script, asked, server, base>>
    BY <1>2 DEF Console, LoopTop, Choose, Confirm, Idle, ConsoleOrders, ConsoleDisko, ConsoleOnly
  <2>2. orders'.orders \/ orders' = orders
    <3>1. ConsoleOrders => orders' \in Effective \/ orders' = orders
      BY DoorsWrite
    <3> QED
      BY <1>2, <3>1, EffectiveKnown, FilesTyped
         DEF Console, LoopTop, Choose, Confirm, Idle, ConsoleDisko
  <2> QED
    BY <2>1, <2>2 DEF BaseKept
<1>3. CASE Server \/ Page
  <2>1. UNCHANGED <<brought, script, asked, base, server>>
    BY <1>3, ServerKeeps DEF ServerOnly
  <2>2. orders'.orders \/ orders' = orders
    <3>1. Server => orders' \in Effective \/ orders' = orders
      BY DoorsWrite
    <3>2. Page => orders' = orders
      BY DEF Page, OpenPage, PagePlan, Commit
    <3> QED
      BY <1>3, <3>1, <3>2, EffectiveKnown, FilesTyped
  <2> QED
    BY <2>1, <2>2 DEF BaseKept
<1>4. CASE Pair \/ Plug \/ First \/ UNCHANGED allvars \/ \E sent \in Shipped : Ship(sent)
  <2>1. UNCHANGED <<server, base, asked, orders>>
    BY <1>4 DEF Pair, Plug, First, allvars, ivars, Ship
  <2>2. brought' = brought \/ brought' \in Shipped
    BY <1>4 DEF Pair, Plug, First, allvars, ivars, Ship
  <2>3. script' = script \/ script' = "locate"
    BY <1>4 DEF Pair, Plug, First, allvars, ivars, Ship
  <2> QED
    BY <2>1, <2>2, <2>3 DEF BaseKept
<1> QED
  BY <1>1, <1>2, <1>3, <1>4 DEF InstallerNext

(* The state is what it is meant to be: the orders the machine was started   *)
(* with are those it could be given, what is erased are disks, and a server  *)
(* that was given orders finds them.                                         *)
THEOREM TheInstallerIsTyped == InstallerSpec => []InstallerTypeOK
<1>1. InstallerInit => Shape /\ BaseKept
  <2>1. InstallerInit => BaseKept
    BY FilesTyped DEF InstallerInit, BaseKept, NoServer
  <2> QED
    BY <2>1, ShapeStart
<1>2. Shape /\ BaseKept /\ [InstallerNext]_allvars => (Shape /\ BaseKept)'
  BY ShapeStep, BaseStep
<1>3. Shape /\ BaseKept => InstallerTypeOK
  <2> SUFFICES ASSUME Shape, BaseKept PROVE InstallerTypeOK
    OBVIOUS
  <2>1. console.pc \in {"off", "exited", "orders", "disko"} \union Screens
    BY ConsoleKnown DEF Shape
  <2>2. erased.ok => Names(erased) \subseteq DiskNames
    BY LayoutOk, NamesTyped DEF Shape
  <2> QED
    BY <2>1, <2>2 DEF Shape, BaseKept, InstallerTypeOK, Places
<1> QED
  BY <1>1, <1>2, <1>3, PTL DEF InstallerSpec

-----------------------------------------------------------------------------
(***************************************************************************)
(* The OS tier.                                                            *)
(***************************************************************************)
(* The record of a unit that is off. *)
LEMMA OffTyped == Off \in UnitStates
  BY OsTierAssumption DEF Off, UnitStates, UnitPlaces, Pins, Systems, Releases

(* ... in its fields. *)
LEMMA OffFields ==
  Off.at = "off" /\ Off.added = FALSE
  BY DEF Off

(* A step of a unit changes the record of that unit. *)
LEMMA SetUnit ==
  ASSUME NEW u \in Units, NEW r \in UnitStates, NEW x \in [Units -> UnitStates], NEW y,
         y = [x EXCEPT ![u] = r]
  PROVE  y \in [Units -> UnitStates] /\ y[u] = r /\ \A v \in Units \ {u} : y[v] = x[v]
  OBVIOUS

(***************************************************************************)
(* What the steps that set more than the place of a unit make of its       *)
(* record, and that they leave the other's alone.                          *)
(***************************************************************************)
LEMMA WipedUnit ==
  ASSUME NEW u \in Units, TypeOK, RepoWiped(u)
  PROVE  /\ unit' \in [Units -> UnitStates]
         /\ \A v \in Units \ {u} : unit'[v] = unit[v]
         /\ unit'[u].at = "write"
         /\ unit'[u].pin = repo.pin
         /\ unit'[u].config = unit[u].config
         /\ unit'[u].built = unit[u].built
         /\ unit'[u].added = unit[u].added
<1> DEFINE r == [unit[u] EXCEPT !.at = "write", !.pin = repo.pin]
<1>p. "write" \in UnitPlaces
  BY DEF UnitPlaces
<1>1. r \in UnitStates
  BY <1>p DEF UnitStates, TypeOK, Units
<1>2. unit' = [unit EXCEPT ![u] = r]
  BY DEF RepoWiped, TypeOK, UnitStates
<1>3. r.at = "write" /\ r.pin = repo.pin
      /\ r.config = unit[u].config /\ r.built = unit[u].built /\ r.added = unit[u].added
  BY DEF TypeOK, UnitStates, Units
<1> HIDE DEF r
<1> QED
  BY <1>1, <1>2, <1>3, SetUnit DEF TypeOK, Units

(* A unit that failed to delete the repository. *)
LEMMA WipeFailedUnit ==
  ASSUME NEW u \in Units, TypeOK, WipeFails(u)
  PROVE  /\ unit' \in [Units -> UnitStates]
         /\ \A v \in Units \ {u} : unit'[v] = unit[v]
         /\ unit'[u].at = "unwritten"
         /\ unit'[u].pin = repo.pin
         /\ unit'[u].config = unit[u].config
         /\ unit'[u].built = unit[u].built
         /\ unit'[u].added = unit[u].added
<1> DEFINE r == [unit[u] EXCEPT !.at = "unwritten", !.pin = repo.pin]
<1>p. "unwritten" \in UnitPlaces
  BY DEF UnitPlaces
<1>1. r \in UnitStates
  BY <1>p DEF UnitStates, TypeOK, Units
<1>2. unit' = [unit EXCEPT ![u] = r]
  BY DEF WipeFails, TypeOK, UnitStates
<1>3. r.at = "unwritten" /\ r.pin = repo.pin
      /\ r.config = unit[u].config /\ r.built = unit[u].built /\ r.added = unit[u].added
  BY DEF TypeOK, UnitStates, Units
<1> HIDE DEF r
<1> QED
  BY <1>1, <1>2, <1>3, SetUnit DEF TypeOK, Units

(* What the repository is where that, or the writing of it, failed. *)
LEMMA Unwritten ==
  ASSUME NEW u \in Units, TypeOK, WipeFails(u) \/ WriteFails(u)
  PROVE  /\ repo' \in [config : Configs \cup {NoConfig}, pin : Pins]
         /\ repo'.pin \in {repo.pin, NoPin}
         /\ WriteFails(u) => repo'.pin = repo.pin
<1>t. /\ repo \in [config : Configs \cup {NoConfig}, pin : Pins]
      /\ unit[u].config \in Configs \cup {NoConfig} /\ NoPin \in Pins
  BY DEF TypeOK, UnitStates, Pins
<1>1. CASE WipeFails(u)
  <2>1. repo' = repo \/ \E q \in {repo.pin, NoPin} : repo' = [config |-> NoConfig, pin |-> q]
    BY <1>1 DEF WipeFails
  <2>2. unit[u].at = "wipe"
    BY <1>1 DEF WipeFails
  <2>3. ~WriteFails(u)
    BY <2>2 DEF WriteFails, Goto
  <2> QED
    BY <2>1, <2>3, <1>t
<1>2. CASE WriteFails(u)
  BY <1>2, <1>t DEF WriteFails
<1> QED
  BY <1>1, <1>2

(* What a build makes of the repository as it stands. *)
BuiltSystem == [config  |-> repo.config,
                release |-> IF repo.pin = NoPin THEN upstream ELSE repo.pin]

(* A build that came out well. *)
LEMMA BuiltUnit ==
  ASSUME NEW u \in Units, TypeOK, Built(u)
  PROVE  /\ unit' \in [Units -> UnitStates]
         /\ \A v \in Units \ {u} : unit'[v] = unit[v]
         /\ unit'[u].at = "register"
         /\ unit'[u].built = BuiltSystem
         /\ unit'[u].pin = unit[u].pin
         /\ unit'[u].saved = unit[u].saved
         /\ unit'[u].added = unit[u].added
<1>0. BuiltSystem \in Systems
  BY DEF BuiltSystem, Built, TypeOK, Systems, Pins
<1> DEFINE r == [unit[u] EXCEPT !.at = "register", !.built = BuiltSystem]
<1>p. "register" \in UnitPlaces
  BY DEF UnitPlaces
<1>1. r \in UnitStates
  BY <1>p, <1>0 DEF UnitStates, TypeOK, Units
<1>2. unit' = [unit EXCEPT ![u] = r]
  BY DEF Built, BuiltSystem, TypeOK, UnitStates
<1>3. r.at = "register" /\ r.built = BuiltSystem
      /\ r.pin = unit[u].pin /\ r.saved = unit[u].saved /\ r.added = unit[u].added
  BY DEF TypeOK, UnitStates, Units
<1> HIDE DEF r
<1> QED
  BY <1>1, <1>2, <1>3, SetUnit DEF TypeOK, Units

(* A generation that was registered. *)
LEMMA RegisteredUnit ==
  ASSUME NEW u \in Units, TypeOK, Registered(u)
  PROVE  /\ unit' \in [Units -> UnitStates]
         /\ \A v \in Units \ {u} : unit'[v] = unit[v]
         /\ unit'[u].at = "switch"
         /\ unit'[u].added = (profile' # profile)
         /\ unit'[u].built = unit[u].built
         /\ unit'[u].pin = unit[u].pin
         /\ unit'[u].saved = unit[u].saved
<1> DEFINE r == [unit[u] EXCEPT !.at = "switch", !.added = profile' # profile]
<1>p. "switch" \in UnitPlaces
  BY DEF UnitPlaces
<1>1. r \in UnitStates
  BY <1>p DEF UnitStates, TypeOK, Units
<1>2. unit' = [unit EXCEPT ![u] = r]
  BY DEF Registered, TypeOK, UnitStates
<1>3. r.at = "switch" /\ r.added = (profile' # profile)
      /\ r.built = unit[u].built /\ r.pin = unit[u].pin /\ r.saved = unit[u].saved
  BY DEF TypeOK, UnitStates, Units
<1> HIDE DEF r
<1> QED
  BY <1>1, <1>2, <1>3, SetUnit DEF TypeOK, Units

(* A pin that was bumped. *)
LEMMA BumpedUnit ==
  ASSUME TypeOK, PinBumped
  PROVE  /\ unit' \in [Units -> UnitStates]
         /\ \A v \in Units \ {"update"} : unit'[v] = unit[v]
         /\ unit'["update"].at = "build"
         /\ unit'["update"].saved = repo.pin
         /\ unit'["update"].pin = unit["update"].pin
         /\ unit'["update"].added = unit["update"].added
<1> DEFINE r == [unit["update"] EXCEPT !.at = "build", !.saved = repo.pin]
<1>1. r \in UnitStates
  BY DEF UnitStates, UnitPlaces, TypeOK, Units
<1>2. unit' = [unit EXCEPT !["update"] = r]
  BY DEF PinBumped, TypeOK, UnitStates
<1>3. r.at = "build" /\ r.saved = repo.pin
      /\ r.pin = unit["update"].pin /\ r.added = unit["update"].added
  BY DEF TypeOK, UnitStates, Units
<1> HIDE DEF r
<1> QED
  BY <1>1, <1>2, <1>3, SetUnit DEF TypeOK, Units

(* A pin that was put back. *)
LEMMA UnbumpedUnit ==
  ASSUME TypeOK, BumpFails
  PROVE  /\ unit' \in [Units -> UnitStates]
         /\ \A v \in Units \ {"update"} : unit'[v] = unit[v]
         /\ unit'["update"].at = "restore_pin"
         /\ unit'["update"].saved = repo.pin
         /\ unit'["update"].pin = unit["update"].pin
         /\ unit'["update"].added = unit["update"].added
<1> DEFINE r == [unit["update"] EXCEPT !.at = "restore_pin", !.saved = repo.pin]
<1>1. r \in UnitStates
  BY DEF UnitStates, UnitPlaces, TypeOK, Units
<1>2. unit' = [unit EXCEPT !["update"] = r]
  BY DEF BumpFails, TypeOK, UnitStates
<1>3. r.at = "restore_pin" /\ r.saved = repo.pin
      /\ r.pin = unit["update"].pin /\ r.added = unit["update"].added
  BY DEF TypeOK, UnitStates, Units
<1> HIDE DEF r
<1> QED
  BY <1>1, <1>2, <1>3, SetUnit DEF TypeOK, Units

(* A unit that goes somewhere, and sets nothing but that. *)
LEMMA GotoTyped ==
  ASSUME NEW u \in Units, NEW from, NEW to \in UnitPlaces, TypeOK, Goto(u, from, to)
  PROVE  /\ unit' \in [Units -> UnitStates]
         /\ unit[u].at = from /\ unit'[u].at = to
         /\ \A v \in Units : /\ unit'[v].config = unit[v].config /\ unit'[v].pin = unit[v].pin
                             /\ unit'[v].saved = unit[v].saved /\ unit'[v].built = unit[v].built
                             /\ unit'[v].added = unit[v].added
                             /\ v # u => unit'[v].at = unit[v].at
  BY DEF Goto, TypeOK, UnitStates

(* Where a failure leads is a place. *)
LEMMA FailurePlaces ==
  ASSUME NEW u \in Units
  PROVE  Failure(u) \in UnitPlaces /\ ActivateFailure(u) \in UnitPlaces
  BY DEF Failure, ActivateFailure, UnitPlaces

(* TypeOK holds at first, and every step keeps it. *)
LEMMA TypeInit == Init => TypeOK
<1> SUFFICES ASSUME Init PROVE TypeOK
  OBVIOUS
<1>1. [config |-> FirstConfig, release |-> 1] \in Systems
  BY OsTierAssumption DEF Systems, Releases
<1>2. profile \in Seq(Systems) /\ Len(profile) = 1 /\ profile[1] \in Systems
  BY <1>1 DEF Init
<1>3. /\ declared \in Configs /\ upstream \in Releases
      /\ repo \in [config : Configs \cup {NoConfig}, pin : Pins]
  BY OsTierAssumption DEF Init, Releases, Pins
<1>4. selected \in 1 .. Len(profile) /\ running \in Systems
  BY <1>2 DEF Init
<1>5. unit \in [Units -> UnitStates]
  BY OffTyped DEF Init
<1> QED
  BY <1>2, <1>3, <1>4, <1>5 DEF Init, TypeOK

(* What else touches the machine keeps the types. *)
LEMMA DisturbTyped ==
  ASSUME NEW kind, TypeOK, Disturb(kind) PROVE disturbed' \subseteq Kinds
  BY OsTierAssumption DEF Disturb, TypeOK

(* So do the starts of the units. *)
LEMMA StartsTyped ==
  ASSUME NEW u \in Units, TypeOK, Starts(u)
  PROVE  unit' \in [Units -> UnitStates] /\ disturbed' \subseteq Kinds
<1>1. [Off EXCEPT !.at = "wipe", !.config = declared] \in UnitStates
  BY OffTyped DEF UnitStates, UnitPlaces, TypeOK
<1>2. unit' = [unit EXCEPT ![u] = [Off EXCEPT !.at = "wipe", !.config = declared]]
  BY DEF Starts
<1>3. unit' \in [Units -> UnitStates]
  BY <1>1, <1>2, SetUnit DEF TypeOK
<1>4. disturbed' \subseteq Kinds
  BY DisturbTyped DEF Starts, TypeOK
<1> QED
  BY <1>3, <1>4

(* Every step keeps the types. *)
LEMMA TypeStep == TypeOK /\ [Next]_vars => TypeOK'
<1> SUFFICES ASSUME TypeOK, [Next]_vars PROVE TypeOK'
  OBVIOUS
<1>t. /\ declared \in Configs /\ upstream \in Releases
      /\ repo \in [config : Configs \cup {NoConfig}, pin : Pins]
      /\ profile \in Seq(Systems) /\ selected \in 1 .. Len(profile)
      /\ running \in Systems /\ pending \in BOOLEAN
      /\ daemon \in {"idle", "asking", "waiting", "applied", "refused"}
      /\ unit \in [Units -> UnitStates] /\ overdone \in BOOLEAN
      /\ disturbed \subseteq Kinds
  BY DEF TypeOK
<1>u. "update" \in Units /\ "apply" \in Units
  BY DEF Units
<1>1. CASE UNCHANGED vars
  BY <1>1, <1>t DEF vars, TypeOK
<1>2. ASSUME NEW u \in Units, UnitStep(u) PROVE TypeOK'
  <2>1. CASE RepoWiped(u)
    <3>1. unit' = [unit EXCEPT ![u].at = "write", ![u].pin = repo.pin]
          /\ repo' = [config |-> NoConfig, pin |-> NoPin]
          /\ UNCHANGED <<declared, upstream, systemVars, pending, daemon, disturbed>>
      BY <2>1 DEF RepoWiped
    <3>2. unit' \in [Units -> UnitStates]
      BY <2>1, WipedUnit
    <3>3. repo' \in [config : Configs \cup {NoConfig}, pin : Pins]
      BY <3>1 DEF Pins
    <3> QED
      BY <3>1, <3>2, <3>3, <1>t DEF TypeOK, systemVars
  <2>2. CASE RepoWritten(u)
    <3>1. unit' \in [Units -> UnitStates]
      BY <2>2, GotoTyped DEF RepoWritten, UnitPlaces
    <3>2. unit[u].config \in Configs \cup {NoConfig} /\ unit[u].pin \in Pins
      BY <1>t DEF UnitStates
    <3>3. repo' \in [config : Configs \cup {NoConfig}, pin : Pins]
      BY <2>2, <3>2, <1>t DEF RepoWritten
    <3> QED
      BY <2>2, <3>1, <3>3, <1>t DEF RepoWritten, TypeOK, systemVars
  <2>3. CASE Built(u)
    <3>3. unit' \in [Units -> UnitStates] /\ unit'[u].built \in Systems
      BY <2>3, BuiltUnit DEF UnitStates
    <3>4. unit'[u].built.release \in Pins
      BY <3>3 DEF Systems, Pins
    <3>5. repo' \in [config : Configs \cup {NoConfig}, pin : Pins]
      BY <2>3, <3>4, <1>t DEF Built
    <3> QED
      BY <2>3, <3>3, <3>5, <1>t DEF Built, TypeOK, systemVars
  <2>4. CASE Registered(u)
    <3>1. unit[u].built \in Systems
      BY <1>t DEF UnitStates
    <3>2. profile' \in Seq(Systems) /\ Len(profile') >= 1 /\ Len(profile') \in Nat
      BY <2>4, <3>1, <1>t DEF Registered
    <3>3. unit' \in [Units -> UnitStates]
      BY <2>4, RegisteredUnit
    <3>4. selected' \in 1 .. Len(profile')
      BY <2>4, <3>2 DEF Registered
    <3> QED
      BY <2>4, <3>2, <3>3, <3>4, <1>t DEF Registered, TypeOK
  <2>5. CASE \/ BuildFails(u) \/ RegisterFails(u) \/ HealthPasses(u) \/ HealthFails(u)
    <3>1. unit' \in [Units -> UnitStates]
      BY <2>5, GotoTyped, FailurePlaces
      DEF BuildFails, RegisterFails, HealthPasses, HealthFails, UnitPlaces
    <3> QED
      BY <2>5, <3>1, <1>t
      DEF BuildFails, RegisterFails, HealthPasses, HealthFails, TypeOK, systemVars
  <2>6. CASE Switched(u) \/ SwitchFails(u) \/ Reactivated(u)
    <3>1. unit' \in [Units -> UnitStates]
      BY <2>6, GotoTyped, FailurePlaces DEF Switched, SwitchFails, Reactivated, UnitPlaces
    <3>2. unit[u].built \in Systems /\ profile[selected] \in Systems
      BY <1>t DEF UnitStates
    <3>3. running' \in Systems
      BY <2>6, <3>2, <1>t DEF Switched, SwitchFails, Reactivated
    <3> QED
      BY <2>6, <3>1, <3>3, <1>t DEF Switched, SwitchFails, Reactivated, TypeOK
  <2>7. CASE ProfileRolledBack(u)
    <3>1. unit' \in [Units -> UnitStates]
      BY <2>7, GotoTyped DEF ProfileRolledBack, UnitPlaces
    <3>2. selected' \in 1 .. Len(profile')
      BY <2>7, <1>t DEF ProfileRolledBack
    <3>3. unit[u].added \in BOOLEAN
      BY <1>t DEF UnitStates
    <3>4. overdone' \in BOOLEAN
      BY <2>7 DEF ProfileRolledBack
    <3> QED
      BY <2>7, <3>1, <3>2, <3>4, <1>t DEF ProfileRolledBack, TypeOK
  <2>8. CASE RollbackFails(u)
    <3>1. unit' \in [Units -> UnitStates]
      BY <2>8, <1>t, FailurePlaces DEF RollbackFails, UnitStates
    <3> QED
      BY <2>8, <3>1, <1>t DEF RollbackFails, TypeOK, systemVars
  <2>9. CASE WipeFails(u) \/ WriteFails(u)
    <3>1. unit' \in [Units -> UnitStates]
      BY <2>9, WipeFailedUnit, GotoTyped DEF WriteFails, UnitPlaces
    <3>2. repo' \in [config : Configs \cup {NoConfig}, pin : Pins]
      BY <2>9, Unwritten
    <3>3. UNCHANGED <<declared, upstream, systemVars, pending, daemon, disturbed>>
      BY <2>9 DEF WipeFails, WriteFails
    <3> QED
      BY <3>1, <3>2, <3>3, <1>t DEF TypeOK, systemVars
  <2> QED
    BY <1>2, <2>1, <2>2, <2>3, <2>4, <2>5, <2>6, <2>7, <2>8, <2>9 DEF UnitStep
<1>3. CASE PinBumped
  <2>1. unit' \in [Units -> UnitStates]
    BY <1>3, BumpedUnit
  <2>2. repo' \in [config : Configs \cup {NoConfig}, pin : Pins]
    BY <1>3, <1>t DEF PinBumped, Pins
  <2> QED
    BY <1>3, <2>1, <2>2, <1>t DEF PinBumped, TypeOK, systemVars
<1>4. CASE BumpFails
  <2>1. unit' \in [Units -> UnitStates]
    BY <1>4, UnbumpedUnit
  <2>2. repo' \in [config : Configs \cup {NoConfig}, pin : Pins]
    BY <1>4, <1>t DEF BumpFails, Pins
  <2> QED
    BY <1>4, <2>1, <2>2, <1>t DEF BumpFails, TypeOK, systemVars
<1>5. CASE PinRestored
  <2>1. unit' \in [Units -> UnitStates] /\ unit["update"].saved \in Pins
    BY <1>5, <1>t, <1>u, GotoTyped DEF PinRestored, UnitPlaces, UnitStates
  <2>2. repo' \in [config : Configs \cup {NoConfig}, pin : Pins]
    BY <1>5, <1>t, <2>1 DEF PinRestored
  <2> QED
    BY <1>5, <2>1, <2>2, <1>t DEF PinRestored, TypeOK, systemVars
<1>6. CASE UpdateEnds
  BY <1>6, <1>t, <1>u, OffTyped DEF UpdateEnds, TypeOK, systemVars
<1>7. CASE ApplyEnds
  <2>1. pending' \in BOOLEAN
    BY <1>7 DEF ApplyEnds
  <2>2. unit' \in [Units -> UnitStates]
    BY <1>7, <1>t, <1>u, OffTyped DEF ApplyEnds
  <2>3. daemon' \in {daemon, "applied", "refused"}
    BY <1>7 DEF ApplyEnds
  <2> QED
    BY <1>7, <2>1, <2>2, <2>3, <1>t DEF ApplyEnds, TypeOK, systemVars
<1>8. CASE Ask
  <2>1. unit' \in [Units -> UnitStates] /\ disturbed' \subseteq Kinds
    BY <1>8, <1>t, <1>u, StartsTyped DEF Ask
  <2> QED
    BY <1>8, <2>1, <1>t DEF Ask, TypeOK, systemVars
<1>9. CASE AskFails \/ Told
  <2>1. pending' \in BOOLEAN
    BY <1>9 DEF AskFails, Told
  <2> QED
    BY <1>9, <2>1, <1>t DEF AskFails, Told, TypeOK, systemVars
<1>10. ASSUME NEW c \in Configs, Deploy(c) PROVE TypeOK'
  BY <1>10, <1>t DEF Deploy, TypeOK, systemVars
<1>11. ASSUME NEW c \in Configs, ContentRollback(c) PROVE TypeOK'
  BY <1>11, <1>t, DisturbTyped DEF ContentRollback, TypeOK, systemVars
<1>12. ASSUME NEW forced \in BOOLEAN, UpdateStarts(forced) PROVE TypeOK'
  <2>1. unit' \in [Units -> UnitStates] /\ disturbed' \subseteq Kinds
    BY <1>12, <1>u, StartsTyped DEF UpdateStarts
  <2> QED
    BY <1>12, <2>1, <1>t DEF UpdateStarts, TypeOK, systemVars
<1>13. CASE ChannelAdvances
  <2>1. upstream' \in Releases
    BY <1>13, <1>t, OsTierAssumption DEF ChannelAdvances, Releases
  <2> QED
    BY <1>13, <2>1, <1>t DEF ChannelAdvances, TypeOK, systemVars
<1>14. CASE DaemonRestarts
  BY <1>14, <1>t, DisturbTyped DEF DaemonRestarts, TypeOK, systemVars
<1>15. CASE PowerLoss
  <2>1. running' \in Systems
    BY <1>15, <1>t DEF PowerLoss
  <2>2. unit' \in [Units -> UnitStates]
    BY <1>15, OffTyped DEF PowerLoss
  <2> QED
    BY <1>15, <2>1, <2>2, <1>t, DisturbTyped DEF PowerLoss, TypeOK
<1> QED
  BY <1>1, <1>2, <1>3, <1>4, <1>5, <1>6, <1>7, <1>8, <1>9, <1>10, <1>11, <1>12, <1>13, <1>14,
     <1>15
  DEF Next, UpdateStep, ApplyStep, DaemonStep, Request, Environment

(* Every variable has its type; in particular the system profile, which    *)
(* two unsynchronized oneshots register in and roll back, never selects a  *)
(* generation that was not registered.                                     *)
THEOREM SystemsTyped == Spec => []TypeOK
  BY TypeInit, TypeStep, PTL DEF Spec
-----------------------------------------------------------------------------
(***************************************************************************)
(* As long as the oneshots did not overlap, the pin a failed update leaves *)
(* is the one it found.  What it found travels: write_host_repo takes it   *)
(* out of the repository and puts it back, the update saves it before it   *)
(* bumps it, and writes it back whichever step fails.                      *)
(***************************************************************************)
OneAtATime == unit["apply"].at = "off" \/ unit["update"].at = "off"

PinInv ==
  "overlap" \notin disturbed =>
    /\ OneAtATime
    /\ unit["update"].at = "write" => repo.pin = NoPin
    /\ unit["update"].at = "bump" => repo.pin = unit["update"].pin
    /\ unit["update"].at \in {"build", "register", "switch", "health", "rollback",
                              "reactivate", "restore_pin"}
         => unit["update"].saved = unit["update"].pin
    /\ unit["update"].at = "failed" => repo.pin = unit["update"].pin
    /\ unit["update"].at = "unwritten" => repo.pin \in {unit["update"].pin, NoPin}

(***************************************************************************)
(* When nothing is known to be missing, what runs is what box.toml asks    *)
(* for, the newest system generation is, too, and whatever an update that  *)
(* is under way registers or falls back to.  An apply that a deploy waits  *)
(* for carries the new config through all of its steps.                    *)
(***************************************************************************)
Settled == daemon = "applied" \/ (daemon = "idle" /\ ~pending)

Newest == profile[Len(profile)]

Brings(u) ==
  /\ unit[u].at \in {"wipe", "write"} => unit[u].config = declared
  /\ unit[u].at \in {"bump", "build"} => repo.config = declared
  /\ unit[u].at = "register" => unit[u].built.config = declared
  /\ unit[u].at = "switch" => /\ unit[u].built.config = declared
                              /\ Newest.config = declared
  /\ unit[u].at \in {"health", "done"} => /\ running.config = declared
                                          /\ Newest.config = declared

FallsBack ==
  /\ unit["update"].at \in {"wipe", "write", "bump", "build", "register"}
       => ~unit["update"].added
  /\ unit["update"].at \in {"switch", "health", "rollback"} /\ unit["update"].added
       => /\ selected = Len(profile)
          /\ Len(profile) > 1
          /\ profile[Len(profile) - 1].config = declared
  /\ unit["update"].at = "reactivate" => profile[selected].config = declared

MarkerInv ==
  disturbed = {} /\ ~overdone =>
    /\ unit["apply"].at # "off" <=> daemon = "waiting"
    /\ daemon = "waiting" => Brings("apply")
    /\ Settled => /\ running.config = declared /\ Newest.config = declared
                  /\ Brings("update")
                  /\ FallsBack

(* What has disturbed a behaviour stays, and a second oneshot disturbs it. *)
LEMMA DisturbedGrows == [Next]_vars => disturbed \subseteq disturbed'
<1> SUFFICES ASSUME [Next]_vars PROVE disturbed \subseteq disturbed'
  OBVIOUS
<1> USE DEF Disturb, Starts
<1>1. CASE UNCHANGED vars
  BY <1>1 DEF vars
<1>2. ASSUME NEW u \in Units, UnitStep(u) PROVE disturbed' = disturbed
  BY <1>2 DEF UnitStep, RepoWiped, WipeFails, RepoWritten, WriteFails, Built,
              BuildFails, Registered, RegisterFails,
              Switched, SwitchFails, HealthPasses, HealthFails, ProfileRolledBack,
              RollbackFails, Reactivated
<1>3. CASE UpdateStep \/ ApplyStep
  BY <1>3 DEF UpdateStep, ApplyStep, PinBumped, BumpFails, PinRestored, UpdateEnds, ApplyEnds
<1>4. CASE DaemonStep
  BY <1>4 DEF DaemonStep, Ask, AskFails, Told
<1>5. CASE Request
  BY <1>5 DEF Request, Deploy, ContentRollback, UpdateStarts
<1>6. CASE Environment
  BY <1>6 DEF Environment, ChannelAdvances, DaemonRestarts, PowerLoss
<1> QED
  BY <1>1, <1>2, <1>3, <1>4, <1>5, <1>6 DEF Next

(* A start that disturbs nothing finds every unit off. *)
LEMMA StartsAlone ==
  ASSUME NEW u \in Units, TypeOK, Starts(u), "overlap" \notin disturbed'
  PROVE  /\ \A v \in Units : unit[v].at = "off"
         /\ unit'[u].at = "wipe" /\ unit'[u].config = declared /\ ~unit'[u].added
         /\ \A v \in Units \ {u} : unit'[v] = unit[v]
         /\ disturbed' = disturbed
<1> DEFINE r == [Off EXCEPT !.at = "wipe", !.config = declared]
<1>1. r.at = "wipe" /\ r.config = declared /\ r.added = FALSE
  BY DEF Off
<1>2. unit' = [unit EXCEPT ![u] = r]
  BY DEF Starts
<1> HIDE DEF r
<1>3. unit'[u] = r /\ \A v \in Units \ {u} : unit'[v] = unit[v]
  BY <1>2 DEF TypeOK
<1>4. ~Disturb("overlap")
  BY DEF Disturb
<1>5. \A v \in Units \ {u} : unit[v].at = "off"
  BY <1>4 DEF Starts
<1>6. disturbed' = disturbed
  BY <1>5 DEF Starts
<1> QED
  BY <1>1, <1>3, <1>5, <1>6 DEF Starts

(* While one oneshot is on, the other's record is the empty one's. *)
LEMMA OtherIsOff ==
  ASSUME OneAtATime, NEW u \in Units, unit[u].at # "off", NEW v \in Units \ {u}
  PROVE  unit[v].at = "off"
  BY DEF OneAtATime, Units

(* A step of a oneshot stays within it. *)
LEMMA UnitKeeps ==
  ASSUME NEW u \in Units, TypeOK, UnitStep(u)
  PROVE  /\ UNCHANGED <<declared, daemon, pending>>
         /\ unit'[u].at # "off" /\ unit[u].at # "off"
         /\ \A v \in Units \ {u} : unit'[v] = unit[v]
<1>t. unit \in [Units -> UnitStates]
  BY DEF TypeOK
<1>1. UNCHANGED <<declared, daemon, pending>>
  BY DEF UnitStep, RepoWiped, WipeFails, RepoWritten, WriteFails, Built,
              BuildFails, Registered, RegisterFails,
         Switched, SwitchFails, HealthPasses, HealthFails, ProfileRolledBack, RollbackFails,
         Reactivated
<1>2. unit[u].at # "off"
  BY DEF UnitStep, RepoWiped, WipeFails, RepoWritten, WriteFails, Built,
              BuildFails, Registered, RegisterFails,
         Switched, SwitchFails, HealthPasses, HealthFails, ProfileRolledBack, RollbackFails,
         Reactivated, Goto
<1>3. CASE RepoWiped(u) \/ WipeFails(u) \/ Built(u) \/ Registered(u)
  BY <1>1, <1>2, <1>3, WipedUnit, WipeFailedUnit, BuiltUnit, RegisteredUnit
<1>4. ASSUME NEW to \in UnitPlaces \ {"off"}, unit' = [unit EXCEPT ![u].at = to]
      PROVE  unit'[u].at # "off" /\ \A v \in Units \ {u} : unit'[v] = unit[v]
  BY <1>4, <1>t DEF UnitStates
<1>5. Failure(u) \in UnitPlaces \ {"off"} /\ ActivateFailure(u) \in UnitPlaces \ {"off"}
  BY DEF Failure, ActivateFailure, UnitPlaces
<1>6. CASE ~(RepoWiped(u) \/ WipeFails(u) \/ Built(u) \/ Registered(u))
  <2>1. \E to \in UnitPlaces \ {"off"} : unit' = [unit EXCEPT ![u].at = to]
    BY <1>5, <1>6
    DEF UnitStep, RepoWritten, WriteFails, BuildFails, RegisterFails, Switched, SwitchFails, HealthPasses,
        HealthFails, ProfileRolledBack, RollbackFails, Reactivated, Goto, UnitPlaces
  <2> QED
    BY <1>1, <1>2, <1>4, <2>1
<1> QED
  BY <1>3, <1>6

(* PinInv holds at first, and every step keeps it. *)
LEMMA PinInit == Init => PinInv
  BY OffFields DEF Init, PinInv, OneAtATime, Units

(* Every step keeps the invariant of the pin. *)
LEMMA PinStep == TypeOK /\ PinInv /\ [Next]_vars => PinInv'
<1> SUFFICES ASSUME TypeOK, PinInv, [Next]_vars, "overlap" \notin disturbed'
             PROVE  PinInv'
  BY DEF PinInv
<1>i. /\ OneAtATime
      /\ unit["update"].at = "write" => repo.pin = NoPin
      /\ unit["update"].at = "bump" => repo.pin = unit["update"].pin
      /\ unit["update"].at \in {"build", "register", "switch", "health", "rollback",
                                "reactivate", "restore_pin"}
           => unit["update"].saved = unit["update"].pin
      /\ unit["update"].at = "failed" => repo.pin = unit["update"].pin
      /\ unit["update"].at = "unwritten" => repo.pin \in {unit["update"].pin, NoPin}
  BY DisturbedGrows DEF PinInv
<1>u. "update" \in Units /\ "apply" \in Units
  BY DEF Units
<1> SUFFICES
      /\ unit'["apply"].at = "off" \/ unit'["update"].at = "off"
      /\ unit'["update"].at = "write" => repo'.pin = NoPin
      /\ unit'["update"].at = "bump" => repo'.pin = unit'["update"].pin
      /\ unit'["update"].at \in {"build", "register", "switch", "health", "rollback",
                                 "reactivate", "restore_pin"}
           => unit'["update"].saved = unit'["update"].pin
      /\ unit'["update"].at = "failed" => repo'.pin = unit'["update"].pin
      /\ unit'["update"].at = "unwritten" => repo'.pin \in {unit'["update"].pin, NoPin}
  BY DEF PinInv, OneAtATime
<1>1. CASE UNCHANGED vars
  BY <1>1, <1>i DEF vars, OneAtATime
<1>2. CASE UnitStep("apply")
  <2>1. unit["apply"].at # "off"
    BY <1>2 DEF UnitStep, RepoWiped, WipeFails, RepoWritten, WriteFails, Built,
              BuildFails, Registered,
                RegisterFails, Switched, SwitchFails, HealthPasses, HealthFails,
                ProfileRolledBack, RollbackFails, Reactivated, Goto
  <2>2. unit'["update"] = unit["update"]
    BY <1>2 DEF UnitStep, RepoWiped, WipeFails, RepoWritten, WriteFails, Built,
              BuildFails, Registered,
                RegisterFails, Switched, SwitchFails, HealthPasses, HealthFails,
                ProfileRolledBack, RollbackFails, Reactivated, Goto, TypeOK, Units
  <2>3. unit'["update"].at = "off"
    BY <2>1, <2>2, <1>i DEF OneAtATime
  <2> QED
    BY <2>3
<1>3. CASE UnitStep("update")
  <2>0. unit["update"].at # "off"
    BY <1>3 DEF UnitStep, RepoWiped, WipeFails, RepoWritten, WriteFails, Built,
              BuildFails, Registered,
                RegisterFails, Switched, SwitchFails, HealthPasses, HealthFails,
                ProfileRolledBack, RollbackFails, Reactivated, Goto
  <2>1. unit'["apply"].at = "off"
    <3>1. unit'["apply"] = unit["apply"]
      BY <1>3 DEF UnitStep, RepoWiped, WipeFails, RepoWritten, WriteFails, Built,
              BuildFails, Registered,
                  RegisterFails, Switched, SwitchFails, HealthPasses, HealthFails,
                  ProfileRolledBack, RollbackFails, Reactivated, Goto, TypeOK, Units
    <3> QED
      BY <3>1, <2>0, <1>i DEF OneAtATime
  <2>2. CASE RepoWiped("update")
    BY <2>1, <2>2, <1>u, WipedUnit DEF RepoWiped
  <2>3. CASE RepoWritten("update")
    <3>1. unit'["update"].at = "bump" /\ unit'["update"].pin = unit["update"].pin
          /\ unit["update"].at = "write"
      BY <2>3, <1>u, GotoTyped DEF RepoWritten, UnitPlaces
    <3>2. repo'.pin = unit["update"].pin
      BY <2>3, <3>1, <1>i DEF RepoWritten
    <3> QED
      BY <2>1, <3>1, <3>2
  <2>4. CASE Built("update")
    BY <2>1, <2>4, <1>u, <1>i, BuiltUnit DEF Built
  <2>5. CASE Registered("update")
    BY <2>1, <2>5, <1>u, <1>i, RegisteredUnit DEF Registered
  <2>6. ASSUME NEW from \in {"build", "register", "switch", "health", "rollback", "reactivate"},
               NEW to \in {"health", "done", "rollback", "reactivate", "restore_pin"},
               Goto("update", from, to), repo' = repo
        PROVE  PinInv'
    <3>1. unit'["update"].at = to /\ unit["update"].at = from
          /\ unit'["update"].pin = unit["update"].pin
          /\ unit'["update"].saved = unit["update"].saved
      BY <2>6, <1>u, GotoTyped DEF UnitPlaces
    <3> QED
      BY <2>1, <3>1, <1>i DEF PinInv, OneAtATime
  <2>7. Failure("update") = "restore_pin" /\ ActivateFailure("update") = "rollback"
    BY DEF Failure, ActivateFailure
  <2>8. CASE BuildFails("update") \/ RegisterFails("update") \/ Switched("update")
             \/ SwitchFails("update") \/ HealthPasses("update") \/ HealthFails("update")
             \/ ProfileRolledBack("update") \/ Reactivated("update")
    BY <2>6, <2>7, <2>8
    DEF BuildFails, RegisterFails, Switched, SwitchFails, HealthPasses, HealthFails,
        ProfileRolledBack, Reactivated, PinInv, OneAtATime
  <2>9. CASE RollbackFails("update")
    <3>1. Goto("update", unit["update"].at, "restore_pin") /\ repo' = repo
          /\ unit["update"].at \in {"rollback", "reactivate"}
      BY <2>7, <2>9 DEF RollbackFails, Goto
    <3> QED
      BY <3>1, <2>6 DEF PinInv, OneAtATime
  <2>10. CASE WipeFails("update")
    <3>1. unit'["update"].at = "unwritten" /\ unit'["update"].pin = repo.pin
      BY <2>10, <1>u, WipeFailedUnit
    <3>2. repo'.pin \in {repo.pin, NoPin}
      BY <2>10, <1>u, Unwritten
    <3> QED
      BY <2>1, <3>1, <3>2
  <2>11. CASE WriteFails("update")
    <3>1. unit'["update"].at = "unwritten" /\ unit["update"].at = "write"
      BY <2>11, <1>u, GotoTyped DEF WriteFails, UnitPlaces
    <3>2. repo'.pin = NoPin
      BY <2>11, <1>u, <1>i, <3>1, Unwritten
    <3> QED
      BY <2>1, <3>1, <3>2
  <2> QED
    BY <1>3, <2>2, <2>3, <2>4, <2>5, <2>8, <2>9, <2>10, <2>11 DEF UnitStep
<1>4. CASE PinBumped \/ BumpFails
  <2>1. unit'["apply"] = unit["apply"] /\ unit["update"].at = "bump"
    BY <1>4, BumpedUnit, UnbumpedUnit, <1>u DEF PinBumped, BumpFails
  <2>2. unit'["update"].saved = repo.pin /\ unit'["update"].pin = unit["update"].pin
        /\ unit'["update"].at \in {"build", "restore_pin"}
    BY <1>4, BumpedUnit, UnbumpedUnit
  <2> QED
    BY <2>1, <2>2, <1>i DEF OneAtATime
<1>5. CASE PinRestored
  <2>1. /\ unit'["update"].at = "failed" /\ unit["update"].at = "restore_pin"
        /\ unit'["update"].pin = unit["update"].pin
        /\ unit'["apply"].at = unit["apply"].at
    BY <1>5, <1>u, GotoTyped DEF PinRestored, UnitPlaces
  <2>2. repo'.pin = unit["update"].saved
    BY <1>5 DEF PinRestored, TypeOK
  <2> QED
    BY <2>1, <2>2, <1>i DEF OneAtATime
<1>6. CASE UpdateEnds
  <2>1. unit'["update"].at = "off"
    BY <1>6, <1>u, OffFields DEF UpdateEnds, TypeOK
  <2> QED
    BY <2>1
<1>7. CASE ApplyEnds
  <2>1. unit'["apply"].at = "off" /\ unit'["update"] = unit["update"] /\ repo' = repo
    BY <1>7, <1>u, OffFields DEF ApplyEnds, TypeOK
  <2> QED
    BY <2>1, <1>i
<1>8. ASSUME NEW u \in Units, Starts(u), repo' = repo PROVE PinInv'
  <2>1. /\ \A v \in Units : unit[v].at = "off"
        /\ unit'[u].at = "wipe"
        /\ \A v \in Units \ {u} : unit'[v] = unit[v]
    BY <1>8, StartsAlone
  <2> QED
    BY <2>1, <1>u DEF PinInv, OneAtATime, Units
<1>9. CASE Ask
  <2>1. CASE unit' = unit
    BY <1>9, <2>1, <1>i DEF Ask, OneAtATime
  <2>2. CASE Starts("apply")
    BY <1>9, <2>2, <1>8, <1>u DEF Ask, PinInv, OneAtATime
  <2> QED
    BY <1>9, <2>1, <2>2 DEF Ask
<1>10. CASE \E forced \in BOOLEAN : UpdateStarts(forced)
  BY <1>10, <1>8, <1>u DEF UpdateStarts, PinInv, OneAtATime
<1>11. CASE \/ AskFails \/ Told \/ ChannelAdvances \/ DaemonRestarts
            \/ \E c \in Configs : Deploy(c) \/ ContentRollback(c)
  BY <1>11, <1>i DEF AskFails, Told, ChannelAdvances, DaemonRestarts, Deploy,
                     ContentRollback, OneAtATime
<1>12. CASE PowerLoss
  BY <1>12, <1>u, OffFields DEF PowerLoss
<1> QED
  BY <1>1, <1>2, <1>3, <1>4, <1>5, <1>6, <1>7, <1>9, <1>10, <1>11, <1>12
  DEF Next, Units, UpdateStep, ApplyStep, DaemonStep, Request, Environment

(* An update that fails, at whichever step, leaves the pin it found or, if *)
(* the regeneration failed, perhaps none, and never the one it tried; also *)
(* after a power loss in the middle of an earlier one, unless an apply     *)
(* overlapped it.                                                          *)
THEOREM PinIsKept == Spec => FailedUpdateKeepsPin
<1>1. ASSUME TypeOK, PinInv, [Next]_vars, unit["update"].at \in Failed,
             unit'["update"].at = "off", "overlap" \notin disturbed
      PROVE  \/ repo'.pin = unit["update"].pin
             \/ unit["update"].at = "unwritten" /\ repo'.pin = NoPin
  <2>1. \/ repo.pin = unit["update"].pin
        \/ unit["update"].at = "unwritten" /\ repo.pin = NoPin
    BY <1>1 DEF PinInv, Failed
  <2>2. CASE \E u \in Units : UnitStep(u)
    <3>1. unit'["update"].at # "off"
      BY <1>1, <2>2, UnitKeeps DEF Units, Failed
    <3> QED
      BY <1>1, <3>1
  <2>3. CASE PinBumped \/ BumpFails \/ PinRestored
    BY <1>1, <2>3 DEF PinBumped, BumpFails, PinRestored, Goto, Failed
  <2>4. CASE \/ UpdateEnds \/ ApplyEnds \/ DaemonStep \/ Request \/ Environment
             \/ UNCHANGED vars
    <3>1. repo' = repo
      BY <2>4 DEF UpdateEnds, ApplyEnds, DaemonStep, Ask, AskFails, Told, Request, Deploy,
                  ContentRollback, UpdateStarts, Environment, ChannelAdvances,
                  DaemonRestarts, PowerLoss, vars
    <3> QED
      BY <2>1, <3>1
  <2> QED
    BY <1>1, <2>1, <2>2, <2>3, <2>4 DEF Next, UpdateStep, ApplyStep
<1> QED
  BY TypeInit, TypeStep, PinInit, PinStep, <1>1, PTL DEF Spec, FailedUpdateKeepsPin
-----------------------------------------------------------------------------
(* What a registration makes of the profile. *)
LEMMA ProfileGrows ==
  ASSUME NEW u \in Units, TypeOK, Registered(u)
  PROVE  /\ profile'[Len(profile')] = unit[u].built
         /\ selected' = Len(profile')
         /\ profile' # profile => /\ Len(profile') > 1
                                  /\ profile'[Len(profile') - 1] = profile[Len(profile)]
<1>1. profile \in Seq(Systems) /\ Len(profile) >= 1 /\ unit[u].built \in Systems
  BY DEF TypeOK, UnitStates
<1>2. CASE profile' = profile
  BY <1>1, <1>2 DEF Registered
<1>3. CASE profile' = Append(profile, unit[u].built)
  <2>1. Len(profile') = Len(profile) + 1 /\ profile'[Len(profile')] = unit[u].built
        /\ profile'[Len(profile)] = profile[Len(profile)]
    BY <1>1, <1>3
  <2> QED
    BY <1>1, <2>1 DEF Registered
<1> QED
  BY <1>2, <1>3 DEF Registered

(* MarkerInv holds at first ... *)
LEMMA MarkerInit == Init => MarkerInv
<1> SUFFICES ASSUME Init PROVE MarkerInv
  OBVIOUS
<1>1. /\ profile = <<[config |-> FirstConfig, release |-> 1]>>
      /\ running = profile[1] /\ declared = FirstConfig
  BY DEF Init
<1>2. Newest.config = declared /\ running.config = declared
  BY <1>1 DEF Newest
<1>3. \A u \in Units : unit[u].at = "off"
  BY OffFields DEF Init
<1> QED
  BY <1>2, <1>3 DEF Init, MarkerInv, Brings, FallsBack, Units

(***************************************************************************)
(* A step of a oneshot that carries the declared config goes on carrying   *)
(* it, and does no harm to what runs and what is newest.                   *)
(***************************************************************************)
LEMMA BringsOn ==
  ASSUME NEW u \in Units, TypeOK, Brings(u), UnitStep(u)
  PROVE  /\ declared' = declared /\ daemon' = daemon /\ pending' = pending
         /\ unit'[u].at # "off" /\ unit[u].at # "off"
         /\ \A v \in Units \ {u} : unit'[v] = unit[v]
         /\ Brings(u)'
<1>t. /\ unit \in [Units -> UnitStates] /\ profile \in Seq(Systems)
  BY DEF TypeOK
<1>b. /\ unit[u].at \in {"wipe", "write"} => unit[u].config = declared
      /\ unit[u].at \in {"bump", "build"} => repo.config = declared
      /\ unit[u].at = "register" => unit[u].built.config = declared
      /\ unit[u].at = "switch" => /\ unit[u].built.config = declared
                                  /\ profile[Len(profile)].config = declared
      /\ unit[u].at \in {"health", "done"} => /\ running.config = declared
                                              /\ profile[Len(profile)].config = declared
  BY DEF Brings, Newest
<1> SUFFICES
      /\ declared' = declared /\ daemon' = daemon /\ pending' = pending
      /\ unit'[u].at # "off" /\ unit[u].at # "off"
      /\ \A v \in Units \ {u} : unit'[v] = unit[v]
      /\ unit'[u].at \in {"wipe", "write"} => unit'[u].config = declared
      /\ unit'[u].at \in {"bump", "build"} => repo'.config = declared
      /\ unit'[u].at = "register" => unit'[u].built.config = declared
      /\ unit'[u].at = "switch" => /\ unit'[u].built.config = declared
                                   /\ profile'[Len(profile')].config = declared
      /\ unit'[u].at \in {"health", "done"} => /\ running'.config = declared
                                               /\ profile'[Len(profile')].config = declared
  BY DEF Brings, Newest
<1> USE DEF systemVars
<1>1. CASE RepoWiped(u)
  BY <1>1, <1>b, WipedUnit DEF RepoWiped
<1>2. CASE RepoWritten(u)
  <2>1. /\ unit'[u].at \in {"bump", "build"} /\ unit[u].at = "write"
        /\ \A v \in Units \ {u} : unit'[v] = unit[v]
    BY <1>2, <1>t DEF RepoWritten, Goto, UnitStates
  <2>2. repo'.config = unit[u].config
    BY <1>2 DEF RepoWritten
  <2> QED
    BY <1>2, <1>b, <2>1, <2>2 DEF RepoWritten
<1>3. CASE Built(u)
  <2>1. unit'[u].at = "register" /\ unit[u].at = "build"
        /\ \A v \in Units \ {u} : unit'[v] = unit[v]
    BY <1>3, BuiltUnit DEF Built
  <2>2. unit'[u].built.config = repo.config
    BY <1>3, BuiltUnit DEF BuiltSystem
  <2> QED
    BY <1>3, <1>b, <2>1, <2>2 DEF Built
<1>4. CASE Registered(u)
  BY <1>4, <1>b, RegisteredUnit, ProfileGrows DEF Registered
<1>5. ASSUME NEW from \in UnitPlaces \ {"off"},
             NEW to \in {"done", "rollback", "reactivate", "restore_pin", "failed",
                         "unwritten"},
             Goto(u, from, to), to = "done" => from = "health",
             UNCHANGED <<declared, daemon, pending, profile>>,
             to = "done" => running' = running
      PROVE  /\ declared' = declared /\ daemon' = daemon /\ pending' = pending
             /\ Brings(u)'
             /\ unit'[u].at # "off" /\ unit[u].at # "off"
             /\ \A v \in Units \ {u} : unit'[v] = unit[v]
  <2>1. unit'[u].at = to /\ unit[u].at = from /\ \A v \in Units \ {u} : unit'[v] = unit[v]
    BY <1>5, <1>t DEF Goto, UnitStates
  <2> QED
    BY <1>5, <1>b, <2>1 DEF Brings, Newest
<1>6. CASE Switched(u)
  <2>1. /\ unit'[u].at = "health" /\ unit[u].at = "switch"
        /\ \A v \in Units \ {u} : unit'[v] = unit[v]
    BY <1>6, <1>t DEF Switched, Goto, UnitStates
  <2> QED
    BY <1>6, <1>b, <2>1 DEF Switched
<1>7. /\ Failure(u) \in {"restore_pin", "failed"}
      /\ ActivateFailure(u) \in {"rollback", "failed"}
  BY DEF Failure, ActivateFailure
<1>8. CASE BuildFails(u) \/ RegisterFails(u) \/ SwitchFails(u) \/ HealthPasses(u)
           \/ HealthFails(u) \/ ProfileRolledBack(u) \/ Reactivated(u)
  BY <1>5, <1>7, <1>8
  DEF BuildFails, RegisterFails, SwitchFails, HealthPasses, HealthFails, ProfileRolledBack,
      Reactivated, Brings, Newest, UnitPlaces
<1>10. CASE WipeFails(u)
  BY <1>10, <1>b, WipeFailedUnit DEF WipeFails
<1>11. CASE WriteFails(u)
  BY <1>5, <1>11 DEF WriteFails, Brings, Newest, UnitPlaces
<1>9. CASE RollbackFails(u)
  <2>1. Goto(u, unit[u].at, Failure(u)) /\ unit[u].at \in {"rollback", "reactivate"}
        /\ UNCHANGED <<declared, daemon, pending, profile>>
    BY <1>9 DEF RollbackFails, Goto
  <2> QED
    BY <1>5, <1>7, <2>1 DEF Brings, Newest, UnitPlaces
<1> QED
  BY <1>1, <1>2, <1>3, <1>4, <1>6, <1>8, <1>9, <1>10, <1>11 DEF UnitStep
(***************************************************************************)
(* A step of an update that found everything as declared leaves what runs, *)
(* what is newest and what it would fall back to as declared, unless it    *)
(* rolls back what it has not added.                                       *)
(***************************************************************************)
LEMMA FallsBackOn ==
  ASSUME TypeOK, Brings("update"), FallsBack, running.config = declared,
         Newest.config = declared, UnitStep("update"), ~overdone'
  PROVE  running'.config = declared /\ Newest'.config = declared /\ FallsBack'
<1>u. "update" \in Units
  BY DEF Units
<1>t. /\ unit \in [Units -> UnitStates] /\ profile \in Seq(Systems)
      /\ selected \in 1 .. Len(profile)
  BY DEF TypeOK
<1>b. /\ unit["update"].at = "register" => unit["update"].built.config = declared
      /\ unit["update"].at = "switch" => unit["update"].built.config = declared
      /\ unit["update"].at \in {"wipe", "write", "bump", "build", "register"}
           => ~unit["update"].added
      /\ unit["update"].at \in {"switch", "health", "rollback"} /\ unit["update"].added
           => /\ selected = Len(profile) /\ Len(profile) > 1
              /\ profile[Len(profile) - 1].config = declared
      /\ unit["update"].at = "reactivate" => profile[selected].config = declared
      /\ running.config = declared /\ profile[Len(profile)].config = declared
  BY DEF Brings, FallsBack, Newest
<1> SUFFICES
      /\ running'.config = declared /\ profile'[Len(profile')].config = declared
      /\ declared' = declared
      /\ unit'["update"].at \in {"wipe", "write", "bump", "build", "register"}
           => ~unit'["update"].added
      /\ unit'["update"].at \in {"switch", "health", "rollback"} /\ unit'["update"].added
           => /\ selected' = Len(profile') /\ Len(profile') > 1
              /\ profile'[Len(profile') - 1].config = declared
      /\ unit'["update"].at = "reactivate" => profile'[selected'].config = declared
  BY DEF FallsBack, Newest
<1> USE DEF systemVars
<1>1. CASE RepoWiped("update")
  BY <1>1, <1>b, <1>u, WipedUnit DEF RepoWiped
<1>2. CASE RepoWritten("update")
  <2>1. unit'["update"].at = "bump" /\ unit["update"].at = "write"
        /\ unit'["update"].added = unit["update"].added
    BY <1>2, <1>u, GotoTyped DEF RepoWritten, UnitPlaces
  <2> QED
    BY <1>2, <1>b, <2>1 DEF RepoWritten
<1>3. CASE Built("update")
  BY <1>3, <1>b, <1>u, BuiltUnit DEF Built
<1>4. CASE Registered("update")
  <2>1. /\ unit'["update"].at = "switch" /\ unit["update"].at = "register"
        /\ unit'["update"].added = (profile' # profile)
    BY <1>4, <1>u, RegisteredUnit DEF Registered
  <2>2. /\ profile'[Len(profile')].config = declared
        /\ selected' = Len(profile')
        /\ profile' # profile => /\ Len(profile') > 1
                                 /\ profile'[Len(profile') - 1].config = declared
    BY <1>4, <1>b, <1>u, ProfileGrows DEF Registered
  <2> QED
    BY <1>4, <1>b, <2>1, <2>2 DEF Registered
<1>5. ASSUME NEW from \in {"build", "register", "switch", "health"},
             NEW to \in {"health", "done", "rollback", "restore_pin"},
             Goto("update", from, to),
             to \in {"health", "rollback"} => from # "build",
             UNCHANGED <<declared, profile, selected>>,
             running' = running \/ (from = "switch" /\ running' = unit["update"].built)
      PROVE  /\ running'.config = declared /\ Newest'.config = declared
             /\ declared' = declared /\ FallsBack'
  <2>1. /\ unit'["update"].at = to /\ unit["update"].at = from
        /\ unit'["update"].added = unit["update"].added
    BY <1>5, <1>u, GotoTyped DEF UnitPlaces
  <2>2. running'.config = declared /\ profile'[Len(profile')].config = declared
    BY <1>5, <1>b, <2>1
  <2>3. CASE from = "register"
    BY <1>5, <1>b, <2>1, <2>2, <2>3 DEF FallsBack, Newest
  <2>4. CASE from # "register"
    BY <1>5, <1>b, <2>1, <2>2, <2>4 DEF FallsBack, Newest
  <2> QED
    BY <2>3, <2>4
<1>6. Failure("update") = "restore_pin" /\ ActivateFailure("update") = "rollback"
  BY DEF Failure, ActivateFailure
<1>7. CASE \/ BuildFails("update") \/ RegisterFails("update") \/ Switched("update")
           \/ SwitchFails("update") \/ HealthPasses("update") \/ HealthFails("update")
  BY <1>5, <1>6, <1>7
  DEF BuildFails, RegisterFails, Switched, SwitchFails, HealthPasses, HealthFails, FallsBack,
      Newest
<1>8. CASE ProfileRolledBack("update")
  <2>1. /\ unit'["update"].at = "reactivate" /\ unit["update"].at = "rollback"
    BY <1>8, <1>u, GotoTyped DEF ProfileRolledBack, UnitPlaces
  <2>2. unit["update"].added
    BY <1>8 DEF ProfileRolledBack
  <2>3. selected' = Len(profile) - 1 /\ profile' = profile
    BY <1>8, <1>b, <2>1, <2>2 DEF ProfileRolledBack
  <2> QED
    BY <1>8, <1>b, <2>1, <2>2, <2>3 DEF ProfileRolledBack
<1>9. CASE RollbackFails("update")
  <2>1. unit'["update"].at = "restore_pin"
    BY <1>9, <1>6, <1>t, <1>u DEF RollbackFails, UnitStates
  <2> QED
    BY <1>9, <1>b, <2>1 DEF RollbackFails
<1>10. CASE Reactivated("update")
  <2>1. unit'["update"].at = "restore_pin" /\ unit["update"].at = "reactivate"
    BY <1>10, <1>6, <1>u, GotoTyped DEF Reactivated, UnitPlaces
  <2> QED
    BY <1>10, <1>b, <2>1 DEF Reactivated
<1>11. CASE WipeFails("update") \/ WriteFails("update")
  <2>1. unit'["update"].at = "unwritten"
    BY <1>11, <1>u, WipeFailedUnit, GotoTyped DEF WriteFails, UnitPlaces
  <2>2. UNCHANGED <<running, profile, selected, declared>>
    BY <1>11 DEF WipeFails, WriteFails
  <2> QED
    BY <1>b, <2>1, <2>2
<1> QED
  BY <1>1, <1>2, <1>3, <1>4, <1>7, <1>8, <1>9, <1>10, <1>11 DEF UnitStep

(* A rollback that took back too much is not forgotten. *)
LEMMA OverdoneStays == TypeOK /\ [Next]_vars /\ ~overdone' => ~overdone
<1> SUFFICES ASSUME [Next]_vars, ~overdone' PROVE ~overdone
  OBVIOUS
<1> USE DEF systemVars
<1>1. CASE UNCHANGED vars
  BY <1>1 DEF vars
<1>2. ASSUME NEW u \in Units, UnitStep(u) PROVE ~overdone
  BY <1>2 DEF UnitStep, RepoWiped, WipeFails, RepoWritten, WriteFails, Built,
              BuildFails, Registered, RegisterFails,
              Switched, SwitchFails, HealthPasses, HealthFails, ProfileRolledBack,
              RollbackFails, Reactivated
<1>3. CASE UpdateStep \/ ApplyStep \/ DaemonStep
  BY <1>3 DEF UpdateStep, ApplyStep, PinBumped, BumpFails, PinRestored, UpdateEnds, ApplyEnds,
              DaemonStep, Ask, AskFails, Told
<1>4. CASE Request \/ Environment
  BY <1>4 DEF Request, Deploy, ContentRollback, UpdateStarts, Environment, ChannelAdvances,
              DaemonRestarts, PowerLoss
<1> QED
  BY <1>1, <1>2, <1>3, <1>4 DEF Next

(* ... and every step keeps it. *)
LEMMA MarkerStep == TypeOK /\ PinInv /\ MarkerInv /\ [Next]_vars => MarkerInv'
<1> SUFFICES ASSUME TypeOK, PinInv, MarkerInv, [Next]_vars, disturbed' = {}, ~overdone'
             PROVE  MarkerInv'
  BY DEF MarkerInv
<1>d. disturbed = {} /\ ~overdone
  BY DisturbedGrows, OverdoneStays
<1>i. /\ unit["apply"].at # "off" <=> daemon = "waiting"
      /\ daemon = "waiting" => Brings("apply")
      /\ Settled => /\ running.config = declared /\ Newest.config = declared
                    /\ Brings("update")
                    /\ FallsBack
  BY <1>d DEF MarkerInv
<1>o. OneAtATime
  BY <1>d DEF PinInv
<1>u. "update" \in Units /\ "apply" \in Units /\ Units = {"apply", "update"}
  BY DEF Units
<1> SUFFICES
      /\ unit'["apply"].at # "off" <=> daemon' = "waiting"
      /\ daemon' = "waiting" => Brings("apply")'
      /\ Settled' => /\ running'.config = declared' /\ Newest'.config = declared'
                     /\ Brings("update")'
                     /\ FallsBack'
  BY DEF MarkerInv
(* An update that is off brings nothing and falls back to nothing. *)
<1>f. ASSUME unit'["update"].at = "off" PROVE Brings("update")' /\ FallsBack'
  BY <1>f DEF Brings, FallsBack
<1>1. CASE UNCHANGED vars
  BY <1>1, <1>i DEF vars, Settled, Brings, FallsBack, Newest
<1>2. CASE UnitStep("apply")
  <2>1. /\ UNCHANGED <<declared, daemon, pending>>
        /\ unit'["apply"].at # "off" /\ unit["apply"].at # "off"
    BY <1>2, <1>u, UnitKeeps
  <2>2. daemon = "waiting" /\ Brings("apply")'
    BY <1>2, <1>i, <1>u, <2>1, BringsOn
  <2>3. ~Settled'
    BY <2>1, <2>2 DEF Settled
  <2> QED
    BY <2>1, <2>2, <2>3
<1>3. CASE UnitStep("update")
  <2>1. /\ UNCHANGED <<declared, daemon, pending>>
        /\ unit'["update"].at # "off" /\ unit["update"].at # "off"
        /\ unit'["apply"] = unit["apply"]
    BY <1>3, <1>u, UnitKeeps
  <2>2. daemon # "waiting" /\ unit'["apply"].at = "off"
    BY <1>i, <1>o, <2>1 DEF OneAtATime
  <2>3. Settled' = Settled
    BY <2>1 DEF Settled
  <2>4. ASSUME Settled
        PROVE  /\ running'.config = declared' /\ Newest'.config = declared'
               /\ Brings("update")' /\ FallsBack'
    BY <1>3, <1>i, <1>u, <2>1, <2>4, BringsOn, FallsBackOn
  <2> QED
    BY <2>1, <2>2, <2>3, <2>4
<1>4. CASE PinBumped \/ BumpFails
  <2>1. /\ unit["update"].at = "bump" /\ unit'["update"].at \in {"build", "restore_pin"}
        /\ unit'["update"].added = unit["update"].added
        /\ unit'["apply"] = unit["apply"]
    BY <1>4, <1>u, BumpedUnit, UnbumpedUnit DEF PinBumped, BumpFails
  <2>2. UNCHANGED <<declared, systemVars, pending, daemon>> /\ repo'.config = repo.config
    BY <1>4 DEF PinBumped, BumpFails, TypeOK
  <2>3. Settled' = Settled /\ running' = running /\ Newest' = Newest
    BY <2>2 DEF Settled, systemVars, Newest
  <2>4. unit'["apply"].at # "off" <=> daemon' = "waiting"
    BY <1>i, <2>1, <2>2
  <2>5. daemon' # "waiting"
    BY <1>i, <1>o, <2>1, <2>2 DEF OneAtATime
  <2>6. ASSUME Settled PROVE Brings("update")' /\ FallsBack'
    BY <1>i, <2>1, <2>2, <2>6 DEF Brings, FallsBack
  <2> QED
    BY <1>i, <2>2, <2>3, <2>4, <2>5, <2>6
<1>5. CASE PinRestored
  <2>1. /\ unit'["update"].at = "failed" /\ unit["update"].at = "restore_pin"
        /\ unit'["apply"] = unit["apply"]
    BY <1>5, <1>u DEF PinRestored, Goto, TypeOK, UnitStates
  <2>2. UNCHANGED <<declared, systemVars, pending, daemon>>
    BY <1>5 DEF PinRestored
  <2>3. Settled' = Settled /\ running' = running /\ Newest' = Newest
    BY <2>2 DEF Settled, systemVars, Newest
  <2>4. daemon' # "waiting" /\ unit'["apply"].at = "off"
    BY <1>i, <1>o, <2>1, <2>2 DEF OneAtATime
  <2>5. Brings("update")' /\ FallsBack'
    BY <2>1 DEF Brings, FallsBack
  <2> QED
    BY <1>i, <2>2, <2>3, <2>4, <2>5
<1>6. CASE UpdateEnds
  <2>1. /\ unit["update"].at # "off" /\ unit'["update"].at = "off"
        /\ unit'["apply"] = unit["apply"]
        /\ UNCHANGED <<declared, systemVars, pending, daemon>>
    BY <1>6, <1>u, OffFields DEF UpdateEnds, TypeOK, Failed
  <2>2. Settled' = Settled /\ running' = running /\ Newest' = Newest
    BY <2>1 DEF Settled, systemVars, Newest
  <2>3. daemon' # "waiting" /\ unit'["apply"].at = "off"
    BY <1>i, <1>o, <2>1 DEF OneAtATime
  <2> QED
    BY <1>i, <1>f, <2>1, <2>2, <2>3
<1>7. CASE ApplyEnds
  <2>1. /\ unit["apply"].at \in {"done"} \cup Failed /\ unit'["apply"].at = "off"
        /\ unit'["update"] = unit["update"]
        /\ UNCHANGED <<declared, systemVars>>
    BY <1>7, <1>u, OffFields DEF ApplyEnds, TypeOK
  <2>2. daemon = "waiting" /\ Brings("apply") /\ unit'["update"].at = "off"
    BY <1>i, <1>o, <2>1 DEF OneAtATime, Failed
  <2>3. /\ unit["apply"].at = "done" => daemon' = "applied"
        /\ unit["apply"].at \in Failed => daemon' = "refused"
    BY <1>7, <2>2 DEF ApplyEnds, Failed
  <2>4. Settled' => unit["apply"].at = "done"
    BY <2>1, <2>3 DEF Settled
  <2>5. Settled' => running'.config = declared' /\ Newest'.config = declared'
    BY <2>1, <2>2, <2>4 DEF Brings, Newest, systemVars
  <2> QED
    BY <1>f, <2>1, <2>2, <2>3, <2>5
<1>8. CASE Ask
  <2>1. daemon = "asking" /\ daemon' = "waiting" /\ Starts("apply") /\ declared' = declared
    BY <1>8, <1>i DEF Ask
  <2>2. unit'["apply"].at = "wipe" /\ unit'["apply"].config = declared
    BY <1>u, <2>1, StartsAlone
  <2> QED
    BY <2>1, <2>2 DEF Settled, Brings
<1>9. CASE AskFails
  BY <1>9, <1>i DEF AskFails, Settled
<1>10. CASE Told
  <2>1. UNCHANGED <<declared, repo, systemVars, unit>> /\ daemon' = "idle"
        /\ daemon \in {"applied", "refused"} /\ pending' = (daemon = "refused")
    BY <1>10 DEF Told
  <2>2. Settled' => Settled
    BY <2>1 DEF Settled
  <2>3. /\ running' = running /\ Newest' = Newest
        /\ Brings("update") => Brings("update")'
        /\ FallsBack => FallsBack'
    BY <2>1 DEF systemVars, Newest, Brings, FallsBack
  <2> QED
    BY <1>i, <2>1, <2>2, <2>3
<1>11. ASSUME NEW c \in Configs, Deploy(c)
       PROVE  /\ unit'["apply"].at # "off" <=> daemon' = "waiting"
              /\ daemon' # "waiting" /\ ~Settled'
  BY <1>11, <1>i DEF Deploy, Settled
<1>12. ASSUME NEW forced \in BOOLEAN, UpdateStarts(forced) PROVE MarkerInv'
  <2>1. UNCHANGED <<declared, repo, systemVars, pending, daemon>> /\ Starts("update")
    BY <1>12 DEF UpdateStarts
  <2>2. /\ unit["apply"].at = "off" /\ unit'["apply"] = unit["apply"]
        /\ unit'["update"].at = "wipe" /\ unit'["update"].config = declared
        /\ ~unit'["update"].added
    BY <1>u, <2>1, StartsAlone
  <2>3. Settled' = Settled /\ running' = running /\ Newest' = Newest
    BY <2>1 DEF Settled, systemVars, Newest
  <2>4. Brings("update")' /\ FallsBack'
    BY <2>1, <2>2 DEF Brings, FallsBack
  <2> QED
    BY <1>i, <2>1, <2>2, <2>3, <2>4 DEF MarkerInv
<1>13. CASE ChannelAdvances
  BY <1>13, <1>i DEF ChannelAdvances, Settled, systemVars, Newest, Brings, FallsBack
<1>14. CASE DaemonRestarts \/ PowerLoss \/ \E c \in Configs : ContentRollback(c)
  BY <1>14 DEF DaemonRestarts, PowerLoss, ContentRollback, Disturb
<1> QED
  BY <1>1, <1>2, <1>3, <1>4, <1>5, <1>6, <1>7, <1>8, <1>9, <1>10, <1>11, <1>12, <1>13, <1>14
  DEF Next, Units, UpdateStep, ApplyStep, DaemonStep, Request, Environment, MarkerInv

(* With nothing under way and no marker, what runs is what box.toml asks   *)
(* for, whichever steps of applies and updates failed before, unless an    *)
(* update has rolled the profile back that had not added to it.            *)
THEOREM MarkerIsTrue == Spec => []UnmarkedMeansCurrent
<1>1. MarkerInv => UnmarkedMeansCurrent
  BY DEF MarkerInv, Settled, UnmarkedMeansCurrent, AtRest
<1> QED
  BY TypeInit, TypeStep, PinInit, PinStep, MarkerInit, MarkerStep, <1>1, PTL DEF Spec
================================================================================
