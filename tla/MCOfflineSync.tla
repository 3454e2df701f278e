--------------------------- MODULE MCOfflineSync ----------------------------
(***************************************************************************)
(* Instances of OfflineSync: one or two saves and one or two flushes, each *)
(* of which may be called again.                                           *)
(***************************************************************************)
EXTENDS OfflineSync

CONSTANTS i1, i2, f1, f2
=============================================================================
