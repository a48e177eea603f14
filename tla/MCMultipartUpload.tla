-------------------------- MODULE MCMultipartUpload --------------------------
(***************************************************************************)
(* MultipartUpload for TLC.                                                *)
(***************************************************************************)
EXTENDS MultipartUpload
=============================================================================
