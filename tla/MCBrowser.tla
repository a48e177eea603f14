------------------------------ MODULE MCBrowser ------------------------------
(* A bucket with a folder and two objects, one row per page, so that the last *)
(* object is past the last page.                                              *)
EXTENDS Browser

MCContent == [c \in {"bkt", "dir"} |-> IF c = "bkt" THEN <<"dir", "x", "y">> ELSE <<"x">>]
MCHandles == 1..6
=============================================================================
