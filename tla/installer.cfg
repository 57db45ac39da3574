SPECIFICATION InstallerSpec
CONSTANTS
  DiskNames = {"sda", "sdb", "usb"}
  DefaultMin = 8
  Overhead = 1
  MaxCuts = 1
  MaxCommits = 1
  MaxStarts = 2
  Inventories <- MCInventories
  Brought <- MCBrought
  Flashed <- MCFlashed
  Shipped <- MCShipped
  Pasted <- MCPasted
INVARIANTS ErasedAsAgreed Owned RecordedAsFormatted OwnerArrives
PROPERTIES OperatorStands NeverHangs
CHECK_DEADLOCK FALSE
