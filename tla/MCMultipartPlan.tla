--------------------------- MODULE MCMultipartPlan ---------------------------
(***************************************************************************)
(* MultipartPlan for TLC, in small numbers: part sizes of 3 to 12 bytes, a *)
(* unit of 2, a protocol limit of 5 parts.  Among the inputs are files     *)
(* shorter than a part, of whole parts, of whole parts and a byte, files   *)
(* for which the part size has to grow, and files that are too large.      *)
(***************************************************************************)
EXTENDS MultipartPlan

MCFileSizes == 0 .. 62
MCDesiredSizes == 0 .. 8
MCPartLimits == 0 .. 6
=============================================================================
