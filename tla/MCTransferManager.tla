-------------------------- MODULE MCTransferManager --------------------------
(***************************************************************************)
(* TransferManager for TLC: three jobs, each of either lane.               *)
(***************************************************************************)
EXTENDS TransferManager

MCOps == {"Head", "Upload"}
=============================================================================
