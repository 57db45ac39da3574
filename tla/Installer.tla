----------------------------- MODULE Installer -----------------------------
(***************************************************************************)
(* A machine becomes a Box. The script of the installer image              *)
(* (nix/installer.nix) looks for orders; without any, or when they leave   *)
(* the storage open, it opens two doors, the console wizard                *)
(* (box-installer/src/wizard.rs) and the browser wizard                    *)
(* (boxd/src/web/wizard.rs), takes the files one of them wrote, checks     *)
(* them, and only then gives the disks to disko. The doors, the script and *)
(* the person run at the same time and share five files in /tmp; one       *)
(* action is one write of one of them, or one reading of one.              *)
(*                                                                         *)
(* The script may be started again after a refusal (it says so itself),    *)
(* with the files and the web server of the earlier start still there.     *)
(***************************************************************************)
EXTENDS FirstBoot

CONSTANTS
  Inventories,   \* what lsblk may list on this machine, by turns
  Brought,       \* the orders a machine may be started with (NoFile: none)
  Flashed,       \* what the claim file of a flashed image may hold
  Shipped,       \* the orders another Box's `provision` may send to this machine
  Pasted,        \* the setup codes a person may paste (NoFile: none)
  MaxCommits,    \* how often a page commits
  MaxStarts      \* how often the script is started

ASSUME BoundsAssumption == MaxCommits \in Nat /\ MaxStarts \in Nat \ {0}

ASSUME OrdersAssumption ==
  /\ Inventories \subseteq Seq(Devices)
  /\ Brought \subseteq SomeOrders \union {NoFile} /\ Shipped \subseteq SomeOrders
  /\ Flashed \subseteq SomeOrders \union {Blank}
  /\ Pasted \subseteq SomeOrders \union {NoFile}

VARIABLES
  inventory,   \* what is plugged in
  brought,     \* the orders on the kernel command line, a volume or a URL
  script,      \* how far the script is
  starts,      \* which start of the script this is
  diskocfg,    \* the script has a disko config
  asked,       \* the orders left the storage open
  orders,      \* /tmp/box-install.json
  disko,       \* /tmp/box-disko.nix: the layout it renders, or Refused
  flag,        \* /tmp/box-wizard.commit
  base,        \* /tmp/box-base.json
  console,     \* the console wizard
  server,      \* the browser wizard and its PIN
  writes,      \* the commits it is writing, side by side
  page,        \* the browser's page: its PIN and the plan it shows
  commits,     \* commits of pages so far
  agreed,      \* history: layouts that were consented to since the start
  blind,       \* history: layouts a page committed that its plan did not show
  chose,       \* history: the commits of the two doors
  erased,      \* the layout disko was given, or Refused
  installed,   \* the orders the installed system carries, or NoFile
  helper       \* boxd provision on another machine, waiting for this one

ivars == <<inventory, brought, script, starts, diskocfg, asked, orders, disko,
           flag, base, console, server, writes, page, commits, agreed, blind,
           chose, erased, installed, helper>>
doors == <<console, server, writes, page, commits, agreed, blind, chose>>
result == <<erased, installed, helper>>
files == <<orders, disko, flag, base>>
allvars == <<ivars, fbvars>>

NoConsole == [pc |-> "off"]
NoServer == [up |-> FALSE]
NoPage == [open |-> FALSE]
Commits == 0 .. MaxCommits - 1
NoWrite == [pc |-> "none"]
NoWrites == [n \in Commits |-> NoWrite]
Ended == {"refused", "failed", "finished", "flashed"}

InstallerInit ==
  /\ inventory \in Inventories
  /\ \/ brought \in Brought /\ script = "locate" /\ FBInit(NoFile)
     \/ brought = NoFile /\ script = "target" /\ FBInit(NoFile)
     \/ brought = NoFile /\ script = "flashed" /\ \E c \in Flashed : FBInit(c)
  /\ starts = 1 /\ diskocfg = FALSE /\ asked = FALSE
  /\ orders = NoFile /\ disko = Refused /\ flag = FALSE /\ base = NoFile
  /\ console = NoConsole /\ server = NoServer /\ writes = NoWrites
  /\ page = NoPage /\ commits = 0 /\ agreed = {} /\ blind = {} /\ chose = {}
  /\ erased = Refused /\ installed = NoFile /\ helper = "none"

-----------------------------------------------------------------------------
(* Provisioning: orders are built and validated here, sent over ssh, and the *)
(* installer takes the machine over, or the machine was not reached.         *)
Ship(sent) ==
  /\ script = "target" /\ helper = "none"
  /\ \/ /\ ValidateForInstall(sent)
        /\ brought' = sent /\ script' = "locate" /\ helper' = "waiting"
     \/ helper' = "gave up" /\ UNCHANGED <<brought, script>>
  /\ UNCHANGED <<inventory, starts, diskocfg, asked, files, doors, erased,
                 installed, fbvars>>

(* It waits until something answers at the address as a Box, which may be a *)
(* Box the machine was before, and gives its code for a session once.       *)
Pair ==
  /\ helper = "waiting"
  /\ IF boot = "up" /\ codes > 0 /\ conf.owner = "brought"
     THEN /\ codes' = codes - 1 /\ redeemed' = redeemed + 1
          /\ helper' \in {"paired", "gave up"}
     ELSE helper' = "gave up" /\ UNCHANGED <<codes, redeemed>>
  /\ UNCHANGED <<inventory, brought, script, starts, diskocfg, asked, files, doors,
                 erased, installed, conf, claim, stamp, boot, keys, cuts, tore,
                 unseeded>>

-----------------------------------------------------------------------------
(* The script. *)

Locate ==
  /\ script = "locate"
  /\ orders' = IF brought = NoFile THEN orders ELSE brought
  /\ script' = IF brought = NoFile THEN "wizards" ELSE "consent"
  /\ UNCHANGED <<inventory, brought, starts, diskocfg, asked, disko, flag,
                 base, doors, result, fbvars>>

(* The PIN is made up for this start, or it is the one the orders carry. If  *)
(* the server of an earlier start still holds the port, with its own PIN and *)
(* base, the new one does not come up, and the script does not notice.       *)
OrdersPin == 0
OpenServer ==
  IF server.up THEN UNCHANGED server
  ELSE \E pin \in {starts} \union (IF asked THEN {OrdersPin} ELSE {}) :
         server' = [up |-> TRUE, pin |-> pin, given |-> asked]

OpenConsole(given) ==
  \/ console' = [pc |-> "choose", disks |-> Parsed(inventory), picked |-> "single",
                 typed |-> FALSE, touched |-> FALSE, top |-> TRUE, given |-> given]
  \/ console' = [pc |-> "exited"]

(* Mutant: the files of an earlier start are left. *)
RunWizardsDirty ==
  /\ script = "wizards"
  /\ base' = IF asked THEN orders ELSE base
  /\ flag' = FALSE
  /\ OpenServer /\ OpenConsole(IF asked THEN orders ELSE NoFile)
  /\ script' = "console"
  /\ UNCHANGED <<inventory, brought, starts, diskocfg, asked, orders, disko, writes,
                 page, commits, agreed, blind, chose, result, fbvars>>

(* The files of an earlier start are removed, the flag with them; then the  *)
(* doors are opened.                                                        *)
RunWizards ==
  /\ script = "wizards"
  /\ base' = IF asked THEN orders ELSE base
  /\ orders' = NoFile /\ disko' = Refused /\ flag' = FALSE
  /\ OpenServer /\ OpenConsole(IF asked THEN orders ELSE NoFile)
  /\ script' = "console"
  /\ UNCHANGED <<inventory, brought, starts, diskocfg, asked, writes, page, commits,
                 agreed, blind, chose, result, fbvars>>

(* Mutant: the layout is resolved again instead of read from the file. *)
FilesTherePlan ==
  /\ script = "console" /\ console.pc = "exited"
  /\ orders.orders /\ disko.ok
  /\ diskocfg' = FALSE
  /\ script' = IF asked THEN "plan" ELSE "consent"
  /\ UNCHANGED <<inventory, brought, starts, asked, files, doors, result, fbvars>>

(* The console wizard ended, however it ended: the files decide, and they are *)
(* waited for for five seconds.                                               *)
FilesThere ==
  /\ script = "console" /\ console.pc = "exited"
  /\ orders.orders /\ disko.ok
  /\ diskocfg' = TRUE
  /\ script' = IF asked THEN "closure" ELSE "consent"
  /\ UNCHANGED <<inventory, brought, starts, asked, files, doors, result, fbvars>>

NobodyChose ==
  /\ script = "console" /\ console.pc = "exited"
  /\ ~(orders.orders /\ disko.ok)
  /\ script' = "refused"
  /\ UNCHANGED <<inventory, brought, starts, diskocfg, asked, files, doors,
                 result, fbvars>>

(* Consent, the validator, and firmware that can start a Box. *)
Check ==
  /\ script = "consent"
  /\ \/ /\ orders.erase /\ ValidateForInstall(orders)
        /\ IF orders.layout = "ask"
           THEN script' = "wizards" /\ asked' = TRUE
           ELSE script' = (IF diskocfg THEN "closure" ELSE "plan") /\ UNCHANGED asked
     \/ script' = "refused" /\ UNCHANGED asked
  /\ UNCHANGED <<inventory, brought, starts, diskocfg, files, doors, result, fbvars>>

Plan ==
  /\ script = "plan"
  /\ LET layout == ResolvePolicy(orders, Parsed(inventory))
     IN IF layout.ok
        THEN /\ disko' = layout /\ diskocfg' = TRUE /\ script' = "closure"
             /\ agreed' = agreed \union {Names(layout)}
        ELSE script' = "refused" /\ UNCHANGED <<disko, diskocfg, agreed>>
  /\ UNCHANGED <<inventory, brought, starts, asked, orders, flag, base, console,
                 server, writes, page, commits, blind, chose, result, fbvars>>

(* The system can be fetched, or the disks are not touched. *)
Closure ==
  /\ script = "closure"
  /\ script' \in {"disko", "refused"}
  /\ UNCHANGED <<inventory, brought, starts, diskocfg, asked, files, doors,
                 result, fbvars>>

Disko ==
  /\ script = "disko"
  /\ erased' = disko
  /\ script' \in {"install", "failed"}
  /\ UNCHANGED <<inventory, brought, starts, diskocfg, asked, files, doors,
                 installed, helper, fbvars>>

(* The orders go with the system, and the machine starts from its own disk: *)
(* the doors are gone with the installer.                                   *)
Install ==
  /\ script = "install"
  /\ \/ /\ installed' = orders /\ conf' = orders /\ script' = "finished"
        /\ server' = NoServer /\ writes' = NoWrites /\ page' = NoPage
     \/ script' = "failed" /\ UNCHANGED <<installed, conf, server, writes, page>>
  /\ UNCHANGED <<inventory, brought, starts, diskocfg, asked, files, console, commits,
                 agreed, blind, chose, erased, helper, claim, stamp, boot, codes,
                 redeemed, keys, cuts, tore, unseeded>>

(* What the commits that are being written will have disko do. *)
Late == {Names(writes[n].layout) : n \in {m \in Commits : writes[m] # NoWrite}}

(* "Run this again": a new start with the files of the last. Its server, and *)
(* the commits that one is still writing, are there too, unless the unit     *)
(* failed: its processes were ended with it.                                 *)
StartAgain ==
  /\ script = "refused" /\ starts < MaxStarts
  /\ starts' = starts + 1 /\ script' = "locate"
  /\ diskocfg' = FALSE /\ asked' = FALSE
  /\ \/ UNCHANGED <<server, writes>>
     \/ server' = NoServer /\ writes' = NoWrites
  /\ agreed' = agreed \intersect Late' /\ blind' = blind \intersect Late'
  /\ UNCHANGED <<inventory, brought, files, console, page, commits, chose, result,
                 fbvars>>

Script ==
  \/ Locate \/ RunWizards \/ FilesThere \/ NobodyChose \/ Check \/ Plan \/ Closure
  \/ Disko \/ Install

-----------------------------------------------------------------------------
(* The console wizard: its disks are those of its start, one key a turn, and *)
(* before every turn it looks whether a browser has committed.               *)

ConsoleOnly == <<inventory, brought, script, starts, diskocfg, asked, base,
                 server, writes, page, commits, blind, result, fbvars>>

ConsolePlan == Resolve(console.disks, console.picked, DefaultMin)
Screens == {"choose", "confirm"}

LoopTop ==
  /\ console.pc \in Screens /\ console.top
  /\ console' = IF flag THEN [pc |-> "exited"] ELSE [console EXCEPT !.top = FALSE]
  /\ UNCHANGED <<ConsoleOnly, orders, disko, flag, agreed, chose>>

Turn == console.pc \in Screens /\ ~console.top
Press(next) == console' = [next EXCEPT !.touched = TRUE, !.top = TRUE]

Choose ==
  /\ Turn /\ console.pc = "choose"
  /\ \/ \E k \in LayoutKinds : Press([console EXCEPT !.picked = k])
     \/ ConsolePlan.ok /\ Press([console EXCEPT !.pc = "confirm", !.typed = FALSE])
     \/ console' = [pc |-> "exited"]
  /\ UNCHANGED <<ConsoleOnly, orders, disko, flag, agreed, chose>>

Confirm ==
  /\ Turn /\ console.pc = "confirm"
  /\ \/ Press([console EXCEPT !.pc = "choose"]) /\ UNCHANGED <<agreed, chose>>
     \/ Press([console EXCEPT !.typed = ~console.typed]) /\ UNCHANGED <<agreed, chose>>
     \/ /\ console.typed /\ ConsolePlan.ok
        /\ console' = [pc |-> "orders", layout |-> ConsolePlan, given |-> console.given]
        /\ agreed' = agreed \union {Names(ConsolePlan)}
        /\ chose' = chose \union {<<"console", starts>>}
  /\ UNCHANGED <<ConsoleOnly, orders, disko, flag>>

(* Mutant: only the confirmation times out. *)
IdleAtConfirm ==
  /\ Turn /\ ~console.touched /\ console.pc = "confirm"
  /\ console' = [pc |-> "exited"]
  /\ UNCHANGED <<ConsoleOnly, orders, disko, flag, agreed, chose>>

(* Nobody touched a key for 300 seconds. *)
Idle ==
  /\ Turn /\ ~console.touched
  /\ console' = [pc |-> "exited"]
  /\ UNCHANGED <<ConsoleOnly, orders, disko, flag, agreed, chose>>

(* A minted code is put on the screen. *)
ConsoleOrders ==
  /\ console.pc = "orders"
  /\ orders' = EnsureEnrollment(EffectiveOrders(console.given, console.layout), "shown")
  /\ console' = [console EXCEPT !.pc = "disko"]
  /\ UNCHANGED <<ConsoleOnly, disko, flag, agreed, chose>>

ConsoleDisko ==
  /\ console.pc = "disko"
  /\ disko' = console.layout
  /\ console' = [pc |-> "exited"]
  /\ UNCHANGED <<ConsoleOnly, orders, flag, agreed, chose>>

Console ==
  LoopTop \/ Choose \/ Confirm \/ Idle \/ ConsoleOrders \/ ConsoleDisko

-----------------------------------------------------------------------------
(* The browser wizard. *)

ServerOnly == <<inventory, brought, script, starts, diskocfg, asked, base,
                console, result, fbvars>>

Admits(pin) == server.up /\ pin = server.pin

(* The page is opened with the PIN that is on the screen, or in the orders. *)
OpenPage ==
  /\ server.up /\ server.pin \in {starts, OrdersPin} /\ ~page.open
  /\ commits < MaxCommits
  /\ page' = [open |-> TRUE, pin |-> server.pin, plan |-> Refused]
  /\ UNCHANGED <<ServerOnly, server, writes, orders, disko, flag, commits, agreed,
                 blind, chose>>

(* It shows what a layout would erase ... *)
PagePlan(kind) ==
  /\ page.open /\ Admits(page.pin)
  /\ page' = [page EXCEPT !.plan = Resolve(Parsed(inventory), kind, DefaultMin)]
  /\ UNCHANGED <<ServerOnly, server, writes, orders, disko, flag, commits, agreed,
                 blind, chose>>

BaseConfig(pasted) ==
  CASE pasted # NoFile -> pasted
    [] pasted = NoFile /\ server.given -> base
    [] OTHER -> NoFile

(* The server looks into a pasted code as little as into the orders it was *)
(* given;  but those the script has checked.                               *)
BadCode(pasted) == pasted.orders /\ pasted.owner = "malformed"

(* ... and commits a layout. The server probes and resolves again; it asks  *)
(* neither for a plan nor for ERASE, which are the page's own, and nothing  *)
(* keeps another commit from coming while this one is written.              *)
Commit(pasted, kind) ==
  /\ page.open /\ Admits(page.pin) /\ commits < MaxCommits
  /\ commits' = commits + 1
  /\ LET layout == Resolve(Parsed(inventory), kind, DefaultMin)
     IN IF layout.ok
        THEN /\ writes' = [writes EXCEPT ![commits] =
                  [pc |-> "orders", layout |-> layout,
                   effective |-> EnsureEnrollment(
                     EffectiveOrders(BaseConfig(pasted), layout), "unseen")]]
             /\ IF layout = page.plan
                THEN agreed' = agreed \union {Names(layout)} /\ UNCHANGED blind
                ELSE blind' = blind \union {Names(layout)} /\ UNCHANGED agreed
             /\ chose' = chose \union {<<"browser", commits, BadCode(pasted)>>}
        ELSE UNCHANGED <<writes, agreed, blind, chose>>
  /\ page' = NoPage
  /\ UNCHANGED <<ServerOnly, server, orders, disko, flag>>

(* A commit is three files, the flag last. *)
WriteOrders(n) ==
  /\ writes[n].pc = "orders"
  /\ orders' = writes[n].effective
  /\ writes' = [writes EXCEPT ![n].pc = "disko"]
  /\ UNCHANGED <<ServerOnly, server, page, disko, flag, commits, agreed, blind, chose>>

WriteDisko(n) ==
  /\ writes[n].pc = "disko"
  /\ disko' = writes[n].layout
  /\ writes' = [writes EXCEPT ![n].pc = "flag"]
  /\ UNCHANGED <<ServerOnly, server, page, orders, flag, commits, agreed, blind, chose>>

WriteFlag(n) ==
  /\ writes[n].pc = "flag"
  /\ flag' = TRUE
  /\ writes' = [writes EXCEPT ![n] = NoWrite]
  /\ UNCHANGED <<ServerOnly, server, page, orders, disko, commits, agreed, blind, chose>>

Server == \E n \in Commits : WriteOrders(n) \/ WriteDisko(n) \/ WriteFlag(n)
Page ==
  \/ OpenPage
  \/ \E k \in LayoutKinds : PagePlan(k) \/ \E b \in Pasted : Commit(b, k)

-----------------------------------------------------------------------------
(* A disk comes or goes, also between a plan and its commit. *)
Plug ==
  /\ inventory' \in Inventories \ {inventory}
  /\ script \notin Ended
  /\ UNCHANGED <<brought, script, starts, diskocfg, asked, files, doors, result,
                 fbvars>>

(* The installer is gone once the machine has started from its own disk. *)
Installing == boot = "off" /\ cuts = 0 /\ script \notin {"flashed", "target"}

First ==
  /\ conf.orders \/ script = "flashed" \/ boot # "off" \/ cuts > 0
  /\ FBSteps
  /\ UNCHANGED ivars

InstallerNext ==
  \/ Installing /\ (Script \/ StartAgain \/ Console \/ Server \/ Page \/ Plug)
  \/ First
  \/ \E sent \in Shipped : Ship(sent)
  \/ Pair

InstallerSpec == InstallerInit /\ [][InstallerNext]_allvars /\ WF_allvars(Installing /\ Script)
             /\ WF_allvars(Installing /\ LoopTop) /\ WF_allvars(Installing /\ Idle)
             /\ WF_allvars(Installing /\ (ConsoleOrders \/ ConsoleDisko))

-----------------------------------------------------------------------------
InstallerTypeOK ==
  /\ inventory \in Inventories /\ brought \in Brought \union Shipped \union {NoFile}
  /\ script \in {"locate", "wizards", "console", "consent", "plan", "closure",
                 "disko", "install", "target"} \union Ended
  /\ console.pc \in {"off", "exited", "orders", "disko"} \union Screens
  /\ erased.ok => Names(erased) \subseteq DiskNames
  /\ server.up /\ server.given => base.orders

(* The orders a layout may come from, and the smallest disks they ask for. *)
Sources ==
  {o \in {brought} \union Pasted :
     o.orders /\ brought.orders /\ (o = brought \/ chose # {})}
AskedMins == {o.min : o \in Sources} \union (IF chose = {} THEN {} ELSE {DefaultMin})

NeverUnfit ==
  erased.ok /\ (\A o \in Sources : o.disk = NoDisk) =>
    \A i \in DOMAIN erased.devices :
      /\ ~erased.devices[i].removable
      /\ \E m \in AskedMins : m <= erased.devices[i].size

MirrorFits ==
  erased.ok /\ erased.kind = "mirror" /\ (\A m \in AskedMins : m > Overhead) =>
    /\ MemberSize(erased) + Overhead <= Smallest(erased)
    /\ MemberSize(erased) > 0

(* Only what somebody agreed to since the script was started is erased: the  *)
(* layout typed ERASE under at the console, the plan a page showed, what the *)
(* orders the machine was started with resolve to, or what a commit of the   *)
(* browser's door resolved to on the disks of that moment when it was not    *)
(* what the plan showed (`blind`). A cancelled or unattended setup, a refused *)
(* commit and files an earlier start left erase nothing. And agreed or not,  *)
(* no removable disk and none too small, unless orders name it; the members  *)
(* of a mirror fit their disks, the first beside the ESP, unless orders will *)
(* do with a disk that has no room for it.                                   *)
ErasedAsAgreed ==
  /\ erased.ok => Names(erased) \in agreed \union blind
  /\ NeverUnfit
  /\ MirrorFits

(* "Committing wipes disks, so it demands an explicit ERASE confirmation"    *)
(* (web/wizard.rs:8), given under a list of the disks (line 351): the server *)
(* resolves again at the commit and erases what nobody was shown.            *)
ErasedAsShown == erased.ok => Names(erased) \in agreed

(* A page committed a setup code whose hash is none. *)
BadlyPasted == \E n \in 0 .. MaxCommits - 1 : <<"browser", n, TRUE>> \in chose

EveryBoxHasAnOwner == installed.orders => Hex64(installed.owner) \/ BadlyPasted

(* A machine at which nobody ever touches a key does not hang. *)
NeverHangs ==
  (<>[](console.pc \in Screens => ~console.touched) /\ [](boot = "off")
      /\ <>(script # "target"))
    => <>(script \in Ended)

ProvisionedIsInstalled ==
  helper = "paired" => /\ installed.orders /\ installed.owner = "brought"
                       /\ brought \in Shipped /\ redeemed > 0

(* No Box without an owner: every way to an installed system, the one that  *)
(* leaves the storage open and skips the second validation too, gives it a  *)
(* hash a code can match, unless a page committed a code with a bad one;    *)
(* and a provision that reports a Box has one, which was installed with its *)
(* orders and gave the session for its code.                                *)
Owned == EveryBoxHasAnOwner /\ ProvisionedIsInstalled

(* The storage the Box records is the one it has, if one door committed in *)
(* the first start of the script, whose server no other start has to do with. *)
RecordedAsFormatted ==
  installed.orders /\ Cardinality(chose) = 1 /\ starts = 1
    => installed.chosen = Names(erased)

(* "Never install a Box nobody owns" (web/wizard.rs:228): a bad code is taken. *)
NeverOwnerless == installed.orders => Hex64(installed.owner)

(* "Hand the code back and let the page show it": a code that was minted is  *)
(* seen by somebody (web/wizard.rs:231). The page drops it.                  *)
OwnerCanClaim == installed.orders => installed.owner # "unseen"

(* "So the two doors never both drive an install" (web/wizard.rs:36). *)
DoorsNeverMix == installed.orders /\ installed.chosen # {} => installed.chosen = Names(erased)
=============================================================================
