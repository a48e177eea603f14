------------------------------ MODULE MCBulkOps ------------------------------
(***************************************************************************)
(* BulkOps for TLC: keys 1 to 3 under the prefix, the first a folder       *)
(* marker, and two pages.                                                  *)
(***************************************************************************)
EXTENDS BulkOps
MCBelow == 1 .. 3
MCFolders == {1}
MCUploads == {1, 2}
=============================================================================
