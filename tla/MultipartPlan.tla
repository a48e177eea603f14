---------------------------- MODULE MultipartPlan ----------------------------
(***************************************************************************)
(* How a file is cut into the parts of a multipart upload                  *)
(* (src/src/storage/MultipartUpload.cpp: PlanMultipartUpload, PartOffset,  *)
(* PartLength), and the loop of MultipartUploader::Upload that walks the   *)
(* parts, with what is sent and resumed left out.                          *)
(*                                                                         *)
(* The code computes in uint64_t.  A file is shorter than 2^63 bytes and a *)
(* part limit is an int, so no sum or product here wraps around.           *)
(***************************************************************************)
EXTENDS Naturals

CONSTANTS MinPartSize,  \* kMinPartSize, 5 MiB
          MaxPartSize,  \* kMaxPartSize, 5 GiB
          MaxParts,     \* kMaxParts, 10000
          Unit,         \* kMiB, the granularity of grown part sizes
          FileSizes, DesiredSizes, PartLimits  \* the inputs considered

ASSUME SizesAssumption ==
  /\ Unit \in Nat \ {0} /\ MaxParts \in Nat \ {0}
  /\ MinPartSize \in Nat \ {0} /\ MaxPartSize \in Nat
  /\ MinPartSize <= MaxPartSize
  /\ MaxPartSize % Unit = 0
ASSUME InputsAssumption ==
  /\ FileSizes \subseteq Nat /\ DesiredSizes \subseteq Nat
  /\ PartLimits \subseteq Nat

CeilDiv(a, b) == (a + b - 1) \div b

\* The cap on the number of parts: an absent limit (0) means the protocol's.
Cap(m) == IF m = 0 THEN MaxParts ELSE m

\* Fault: the part size is not grown.
PartSizeUngrown(f, d, m) ==
  IF d < MinPartSize THEN MinPartSize ELSE d

\* The part size: the desired one, at least the minimum, grown to a whole
\* number of units when it would need more than the capped number of parts.
PartSize(f, d, m) ==
  LET wanted == IF d < MinPartSize THEN MinPartSize ELSE d
      needed == CeilDiv(f, Cap(m))
  IN IF needed > wanted THEN CeilDiv(needed, Unit) * Unit ELSE wanted

\* A plan is refused for an empty file and for one that is too large.
Plannable(f, d, m) ==
  f # 0 /\ PartSize(f, d, m) <= MaxPartSize

\* Faults: the number of parts rounded down, or always rounded up.
PartCountDown(f, s) == IF f < s THEN 1 ELSE f \div s
PartCountUp(f, s) == f \div s + 1

PartCount(f, s) == CeilDiv(f, s)

\* Fault: parts are taken to be numbered from 0.
PartOffsetFromZero(s, part) == part * s

\* The byte range of a part, numbered from 1, of an f-byte file in parts of
\* s bytes.
PartOffset(s, part) == (part - 1) * s
PartLength(f, s, part) ==
  IF PartOffset(s, part) >= f THEN 0
  ELSE IF f - PartOffset(s, part) < s THEN f - PartOffset(s, part)
  ELSE s

-----------------------------------------------------------------------------
VARIABLES fileSize, desired, maxParts,  \* the inputs
          number,                       \* the part the loop is at
          transferred                   \* the bytes of the parts before it

vars == <<fileSize, desired, maxParts, number, transferred>>

size == PartSize(fileSize, desired, maxParts)
count == PartCount(fileSize, size)

Init ==
  /\ fileSize \in FileSizes /\ desired \in DesiredSizes
  /\ maxParts \in PartLimits
  /\ Plannable(fileSize, desired, maxParts)
  /\ number = 1 /\ transferred = 0

\* One turn of the loop; an empty part would end it early.
NextPart ==
  /\ number <= count
  /\ PartLength(fileSize, size, number) # 0
  /\ transferred' = transferred + PartLength(fileSize, size, number)
  /\ number' = number + 1
  /\ UNCHANGED <<fileSize, desired, maxParts>>

Spec == Init /\ [][NextPart]_vars

-----------------------------------------------------------------------------
(* Properties *)

\* The service's limits are kept: the number and the size of the parts.
WithinLimits ==
  /\ count \in 1 .. Cap(maxParts)
  /\ size \in MinPartSize .. MaxPartSize

\* Every byte of the file is in exactly one part (so the object that is
\* assembled from the parts is the file, no byte lost or doubled).
PartsTileFile ==
  \A b \in 0 .. fileSize - 1 : \E p \in 1 .. count :
    \A q \in 1 .. count :
      (PartOffset(size, q) <= b
         /\ b < PartOffset(size, q) + PartLength(fileSize, size, q)) <=> q = p

\* MultipartUpload.h: "every part except the last [is] the same size", as R2
\* requires, and the last one is not empty.
UniformParts ==
  /\ \A p \in 1 .. count - 1 : PartLength(fileSize, size, p) = size
  /\ PartLength(fileSize, size, count) \in 1 .. size

\* The loop's progress is the offset of the part it is at, and it ends with
\* the whole file.
ProgressIsOffset ==
  /\ number \in 1 .. count + 1
  /\ transferred = IF number <= count THEN PartOffset(size, number)
                   ELSE fileSize
=============================================================================
