--------------------------- MODULE MCBoardUpgrade ---------------------------
(***************************************************************************)
(* Instances of BoardUpgrade for TLC: the packages that updates may carry. *)
(***************************************************************************)
EXTENDS BoardUpgrade

\* Root file systems of every kind, with a kernel and a U-Boot that work.
RootfsPackages == [rootfs : Os, kernel : {"good"}]
=============================================================================
