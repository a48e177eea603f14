-------------------------- MODULE MCPluginTransfers --------------------------
(***************************************************************************)
(* PluginTransfers for TLC: two jobs of the lane whose jobs report their   *)
(* progress.  That the lanes do not disturb each other is the subject of   *)
(* MCTransferManager.                                                      *)
(***************************************************************************)
EXTENDS PluginTransfers

MCOps == {"Upload"}
=============================================================================
