------------------------- MODULE MultipartPlanProofs -------------------------
(***************************************************************************)
(* The layout of the parts, for every file size, desired part size, part   *)
(* limit and protocol constant.                                            *)
(***************************************************************************)
EXTENDS MultipartPlan, TLAPS

-----------------------------------------------------------------------------
(* Division *)

\* What \div computes.
LEMMA DivBounds ==
  ASSUME NEW a \in Nat, NEW b \in Nat \ {0}
  PROVE  /\ a \div b \in Nat
         /\ (a \div b) * b <= a
         /\ a < (a \div b) * b + b
OBVIOUS

\* CeilDiv rounds up.
LEMMA CeilDivBounds ==
  ASSUME NEW a \in Nat \ {0}, NEW b \in Nat \ {0}
  PROVE  /\ CeilDiv(a, b) \in Nat \ {0}
         /\ a <= CeilDiv(a, b) * b
         /\ (CeilDiv(a, b) - 1) * b < a
<1> DEFINE c == CeilDiv(a, b)
<1>1. a + b - 1 \in Nat
  OBVIOUS
<1>2. c \in Nat /\ c * b <= a + b - 1 /\ a + b - 1 < c * b + b
  BY <1>1, DivBounds DEF CeilDiv
<1>3. c # 0
  BY <1>2
<1>4. (c - 1) * b = c * b - b
  BY <1>2
<1> QED
  BY <1>2, <1>3, <1>4

\* Products are monotone, strictly so for strict factors.
LEMMA TimesMonotone ==
  ASSUME NEW a \in Nat, NEW b \in Nat, NEW c \in Nat \ {0}
  PROVE  /\ a <= b => a * c <= b * c
         /\ a < b => a * c + c <= b * c
         /\ a * c < b * c => a < b
OBVIOUS

-----------------------------------------------------------------------------
(* The operators *)

\* A plan keeps the limits of the service.
LEMMA PlanBounds ==
  ASSUME NEW f \in Nat \ {0}, NEW d \in Nat, NEW m \in Nat, Plannable(f, d, m)
  PROVE  /\ PartSize(f, d, m) \in MinPartSize .. MaxPartSize
         /\ PartCount(f, PartSize(f, d, m)) \in 1 .. Cap(m)
<1> DEFINE cap == Cap(m)
           needed == CeilDiv(f, cap)
           s == PartSize(f, d, m)
           n == CeilDiv(f, s)
<1>1. cap \in Nat \ {0}
  BY SizesAssumption DEF Cap
<1>2. needed \in Nat \ {0} /\ f <= needed * cap
  BY <1>1, CeilDivBounds
<1>3. s \in Nat /\ MinPartSize <= s /\ needed <= s
  <2> DEFINE wanted == IF d < MinPartSize THEN MinPartSize ELSE d
             grown == CeilDiv(needed, Unit) * Unit
  <2>1. wanted \in Nat /\ MinPartSize <= wanted
    BY SizesAssumption
  <2>2. grown \in Nat /\ needed <= grown
    <3>1. CeilDiv(needed, Unit) \in Nat /\ needed <= CeilDiv(needed, Unit) * Unit
      BY <1>2, SizesAssumption, CeilDivBounds
    <3> QED
      BY <3>1, SizesAssumption
  <2>3. s = IF needed > wanted THEN grown ELSE wanted
    BY DEF PartSize
  <2> HIDE DEF wanted, grown, needed, s
  <2> QED
    BY <1>2, <2>1, <2>2, <2>3, SizesAssumption
<1>4. s <= MaxPartSize
  BY DEF Plannable
<1>5. s \in Nat \ {0}
  BY <1>3, SizesAssumption
<1> HIDE DEF cap, needed, s
<1>6. n \in Nat \ {0} /\ (n - 1) * s < f
  BY <1>5, CeilDivBounds
<1> HIDE DEF n
<1>7. f <= cap * s
  <2>1. needed * cap <= s * cap
    BY <1>1, <1>2, <1>3, TimesMonotone
  <2>2. needed * cap \in Nat /\ s * cap = cap * s /\ s * cap \in Nat
    BY <1>1, <1>2, <1>3
  <2> QED
    BY <1>2, <2>1, <2>2
<1>8. n - 1 < cap
  <2>1. (n - 1) * s < cap * s
    <3>1. (n - 1) * s \in Nat /\ cap * s \in Nat
      BY <1>1, <1>3, <1>6
    <3> QED
      BY <3>1, <1>6, <1>7
  <2> QED
    BY <1>1, <1>5, <1>6, <2>1, TimesMonotone
<1>9. s \in MinPartSize .. MaxPartSize /\ n \in 1 .. cap
  BY <1>1, <1>3, <1>4, <1>6, <1>8, SizesAssumption
<1> QED
  BY <1>9 DEF cap, s, n, PartCount

\* Parts before the last are full, the last is not empty and ends the file.
LEMMA PartLengths ==
  ASSUME NEW f \in Nat \ {0}, NEW s \in Nat \ {0}
  PROVE  /\ PartCount(f, s) \in Nat \ {0}
         /\ \A p \in 1 .. PartCount(f, s) :
              /\ PartOffset(s, p) \in Nat /\ PartOffset(s, p) < f
              /\ p < PartCount(f, s) => /\ PartLength(f, s, p) = s
                                       /\ PartOffset(s, p) + s = PartOffset(s, p + 1)
              /\ p = PartCount(f, s) => /\ PartLength(f, s, p) \in 1 .. s
                                       /\ PartOffset(s, p) + PartLength(f, s, p) = f
<1> DEFINE n == PartCount(f, s)
<1>1. n \in Nat \ {0} /\ f <= n * s /\ (n - 1) * s < f
  BY CeilDivBounds DEF PartCount
<1> HIDE DEF n
<1>2. ASSUME NEW p \in 1 .. n
      PROVE  /\ PartOffset(s, p) \in Nat /\ PartOffset(s, p) < f
             /\ p < n => /\ PartLength(f, s, p) = s
                        /\ PartOffset(s, p) + s = PartOffset(s, p + 1)
             /\ p = n => /\ PartLength(f, s, p) \in 1 .. s
                        /\ PartOffset(s, p) + PartLength(f, s, p) = f
  <2> DEFINE o == (p - 1) * s
  <2>1. p - 1 \in Nat /\ n - 1 \in Nat /\ p - 1 <= n - 1
    BY <1>1
  <2>2. o \in Nat /\ o <= (n - 1) * s /\ (n - 1) * s \in Nat
    BY <2>1, TimesMonotone
  <2>3. o < f
    BY <1>1, <2>2
  <2>4. o + s = p * s /\ n * s = (n - 1) * s + s /\ (p + 1) - 1 = p
    BY <1>1, <2>1
  <2>5. p < n => o + s <= (n - 1) * s
    <3>1. p < n => p - 1 < n - 1
      BY <1>1
    <3> QED
      BY <2>1, <3>1, TimesMonotone
  <2>6. PartOffset(s, p) = o /\ PartOffset(s, p + 1) = p * s
    BY <2>4 DEF PartOffset
  <2>7. PartLength(f, s, p) = IF f - o < s THEN f - o ELSE s
    BY <2>3, <2>6, <2>2 DEF PartLength
  <2> HIDE DEF o
  <2>8. CASE p < n
    BY <1>1, <2>2, <2>3, <2>4, <2>5, <2>6, <2>7, <2>8
  <2>9. CASE p = n
    <3>1. o = (n - 1) * s
      BY <2>9 DEF o
    <3> QED
      BY <1>1, <2>2, <2>3, <2>4, <2>6, <2>7, <2>9, <3>1
  <2>10. p < n \/ p = n
    BY <1>1
  <2> QED
    BY <2>8, <2>9, <2>10
<1> QED
  BY <1>1, <1>2 DEF n

\* Every byte of the file is in exactly one part.
LEMMA Tiling ==
  ASSUME NEW f \in Nat \ {0}, NEW s \in Nat \ {0}, NEW b \in 0 .. f - 1
  PROVE  \E p \in 1 .. PartCount(f, s) : \A q \in 1 .. PartCount(f, s) :
           (PartOffset(s, q) <= b
              /\ b < PartOffset(s, q) + PartLength(f, s, q)) <=> q = p
<1> DEFINE n == PartCount(f, s)
           p == b \div s + 1
<1>1. b \in Nat /\ b < f
  OBVIOUS
<1>2. p \in Nat \ {0} /\ (p - 1) * s <= b /\ b < (p - 1) * s + s
      /\ (p - 1) * s \in Nat
  <2>1. b \div s \in Nat /\ (b \div s) * s <= b /\ b < (b \div s) * s + s
    BY <1>1, DivBounds
  <2>2. p - 1 = b \div s
    BY <2>1
  <2> QED
    BY <2>1, <2>2
<1>3. n \in Nat \ {0} /\ f <= n * s
  BY CeilDivBounds DEF PartCount
<1> HIDE DEF n, p
<1>4. p \in 1 .. n
  <2>1. (p - 1) * s < n * s
    BY <1>1, <1>2, <1>3
  <2>2. p - 1 < n
    BY <1>2, <1>3, <2>1, TimesMonotone
  <2> QED
    BY <1>2, <1>3, <2>2
<1>5. ASSUME NEW q \in 1 .. n
      PROVE  (PartOffset(s, q) <= b
                /\ b < PartOffset(s, q) + PartLength(f, s, q)) <=> q = p
  <2> DEFINE o == PartOffset(s, q)
             e == o + PartLength(f, s, q)
  <2>1. o = (q - 1) * s /\ o \in Nat /\ q - 1 \in Nat
    BY <1>3 DEF PartOffset
  <2>2. q < n => e = o + s
    BY PartLengths DEF n
  <2>3. q = n => e = f
    BY PartLengths DEF n
  <2> HIDE DEF o, e
  <2>4. CASE q = p
    BY <1>1, <1>2, <1>3, <2>1, <2>2, <2>3, <2>4 DEF o, e
  <2>5. CASE q < p
    <3>1. o + s <= (p - 1) * s
      BY <1>2, <2>1, <2>5, TimesMonotone
    <3>2. q < n
      BY <1>3, <1>4, <2>5
    <3> QED
      BY <1>1, <1>2, <2>1, <2>2, <2>5, <3>1, <3>2 DEF o, e
  <2>6. CASE p < q
    <3>1. (p - 1) * s + s <= o
      BY <1>2, <2>1, <2>6, TimesMonotone
    <3> QED
      BY <1>1, <1>2, <2>1, <2>6, <3>1 DEF o, e
  <2>7. q < p \/ q = p \/ p < q
    BY <1>2, <1>3
  <2> QED
    BY <2>4, <2>5, <2>6, <2>7
<1> QED
  BY <1>4, <1>5 DEF n

-----------------------------------------------------------------------------
(* The loop *)

\* The inputs of the loop do not change, and they have a plan.
Inputs ==
  /\ fileSize \in Nat \ {0} /\ desired \in Nat /\ maxParts \in Nat
  /\ Plannable(fileSize, desired, maxParts)

LEMMA InputsStay == Spec => []Inputs
<1>1. Init => Inputs
  BY InputsAssumption DEF Init, Inputs, Plannable
<1>2. Inputs /\ [NextPart]_vars => Inputs'
  BY DEF Inputs, NextPart, vars, Plannable, PartSize, CeilDiv, Cap
<1> QED
  BY <1>1, <1>2, PTL DEF Spec

\* The size and the number of parts in a reachable state.
LEMMA PlanTypes == Inputs => /\ size \in Nat \ {0}
                             /\ count \in Nat \ {0}
                             /\ WithinLimits
<1> SUFFICES ASSUME Inputs PROVE /\ size \in Nat \ {0}
                                 /\ count \in Nat \ {0}
                                 /\ WithinLimits
  OBVIOUS
<1>1. WithinLimits
  BY PlanBounds DEF Inputs, WithinLimits, size, count
<1>2. Cap(maxParts) \in Nat
  BY SizesAssumption DEF Inputs, Cap
<1> QED
  BY <1>1, <1>2, SizesAssumption DEF WithinLimits

\* The service's limits on parts are kept.
THEOREM LimitsKept == Spec => []WithinLimits
BY InputsStay, PlanTypes, PTL

\* The parts cover the file without gap or overlap.
THEOREM FileIsTiled == Spec => []PartsTileFile
<1>1. Inputs => PartsTileFile
  <2> SUFFICES ASSUME Inputs, NEW b \in 0 .. fileSize - 1
               PROVE  \E p \in 1 .. count : \A q \in 1 .. count :
                        (PartOffset(size, q) <= b
                          /\ b < PartOffset(size, q)
                                   + PartLength(fileSize, size, q)) <=> q = p
    BY DEF PartsTileFile
  <2>1. size \in Nat \ {0} /\ fileSize \in Nat \ {0}
    BY PlanTypes DEF Inputs
  <2> QED
    BY <2>1, Tiling DEF count
<1> QED
  BY <1>1, InputsStay, PTL

\* All parts but the last have the same size, and the last is not empty.
THEOREM PartsAreUniform == Spec => []UniformParts
<1>1. Inputs => UniformParts
  <2> SUFFICES ASSUME Inputs PROVE UniformParts
    OBVIOUS
  <2>1. size \in Nat \ {0} /\ fileSize \in Nat \ {0} /\ count \in Nat \ {0}
    BY PlanTypes DEF Inputs
  <2>2. \A p \in 1 .. count :
          /\ p < count => PartLength(fileSize, size, p) = size
          /\ p = count => PartLength(fileSize, size, p) \in 1 .. size
    BY <2>1, PartLengths DEF count
  <2> QED
    BY <2>1, <2>2 DEF UniformParts
<1> QED
  BY <1>1, InputsStay, PTL

\* The loop's progress is exact in every step, and ends with the file size.
THEOREM ProgressIsExact == Spec => []ProgressIsOffset
<1>1. Init /\ Inputs => ProgressIsOffset
  BY PlanTypes DEF Init, ProgressIsOffset, PartOffset
<1>2. Inputs /\ ProgressIsOffset /\ [NextPart]_vars => ProgressIsOffset'
  <2> SUFFICES ASSUME Inputs, ProgressIsOffset, [NextPart]_vars
               PROVE  ProgressIsOffset'
    OBVIOUS
  <2>1. size \in Nat \ {0} /\ fileSize \in Nat \ {0} /\ count \in Nat \ {0}
    BY PlanTypes DEF Inputs
  <2>2. size' = size /\ count' = count /\ fileSize' = fileSize
    BY DEF NextPart, vars, size, count
  <2>3. CASE NextPart
    <3>1. number \in 1 .. count /\ transferred = PartOffset(size, number)
          /\ number' = number + 1
          /\ transferred' = transferred + PartLength(fileSize, size, number)
      BY <2>1, <2>3 DEF NextPart, ProgressIsOffset
    <3>2. /\ number < count =>
               transferred' = PartOffset(size, number + 1)
          /\ number = count => transferred' = fileSize
      BY <2>1, <3>1, PartLengths DEF count
    <3> QED
      BY <2>1, <2>2, <3>1, <3>2 DEF ProgressIsOffset
  <2>4. CASE UNCHANGED vars
    BY <2>2, <2>4 DEF vars, ProgressIsOffset
  <2> QED
    BY <2>3, <2>4
<1> QED
  BY <1>1, <1>2, InputsStay, PTL DEF Spec
=============================================================================
