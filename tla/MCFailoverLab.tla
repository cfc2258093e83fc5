--------------------------- MODULE MCFailoverLab ---------------------------
(***************************************************************************)
(* Instances of FailoverLab for TLC.                                       *)
(***************************************************************************)
EXTENDS FailoverLab

RootfsPackages == [rootfs : {"good", "dead"}, kernel : {"good"}]
=============================================================================
