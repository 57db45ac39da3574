---------------------------- MODULE MCInstaller ----------------------------
(* A machine with two internal disks that match and a stick that is in or  *)
(* out; it may be started with nothing, complete orders, or open storage.  *)
EXTENDS Installer

Dev(n, s, r) == [name |-> n, type |-> "disk", size |-> <<s>>, rm |-> r]
Part(n) == [name |-> n, type |-> "part", size |-> <<20>>, rm |-> <<>>]
MCInventories ==
  {<<Dev("sda", 20, <<FALSE>>), Part("sda"), Dev("sdb", 21, <<>>)>>,
   <<Dev("usb", 30, <<TRUE>>), Dev("sda", 20, <<FALSE>>), Part("sda")>>}
MCBrought == {NoFile,
              Orders(TRUE, "brought", "mirror", NoDisk, 8, TRUE),
              Orders(TRUE, "brought", "ask", NoDisk, 8, TRUE),
              Orders(FALSE, "brought", "absent", NoDisk, 8, TRUE),
              Orders(TRUE, "malformed", "single", "usb", 8, TRUE),
              Orders(TRUE, "brought", "absent", "usb", 8, TRUE)}
MCShipped == {Orders(TRUE, "brought", "single", NoDisk, 8, TRUE)}
MCFlashed == {Blank, Orders(TRUE, "brought", "absent", NoDisk, 8, TRUE),
              Orders(TRUE, "malformed", "absent", NoDisk, 8, TRUE)}
MCPasted == {NoFile, Orders(FALSE, "none", "absent", NoDisk, 8, TRUE),
             Orders(FALSE, "malformed", "absent", NoDisk, 8, TRUE)}
=============================================================================
