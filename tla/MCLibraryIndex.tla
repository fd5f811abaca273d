--------------------------- MODULE MCLibraryIndex ---------------------------
(***************************************************************************)
(* LibraryIndex for TLC: a manual category, walked recursively, and a drive *)
(* with a subdirectory, both found automatically.                           *)
(***************************************************************************)
EXTENDS LibraryIndex, TLC

MCCategories == {"films", "auto::usb", "auto::usb::kids"}
MCAuto == {"auto::usb", "auto::usb::kids"}
MCChildren == [c \in MCAuto |-> IF c = "auto::usb" THEN {"auto::usb::kids"} ELSE {}]
MCHome == [f \in Files |-> IF f = "cartoon" THEN "auto::usb::kids" ELSE "films"]
=============================================================================
