------------------------------ MODULE MCSaveFlow ------------------------------
(***************************************************************************)
(* SaveFlow for TLC.                                                       *)
(***************************************************************************)
EXTENDS SaveFlow
=============================================================================
