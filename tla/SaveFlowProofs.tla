---------------------------- MODULE SaveFlowProofs ----------------------------
(***************************************************************************)
(* Theorems about saving, for any number of saves, writes by somebody else *)
(* and downloads of the document, and over any number of restarts.         *)
(***************************************************************************)
EXTENDS SaveFlow, FiniteSetTheorems, TLAPS

\* How many elements of a sequence are in a set: none, or one.
NoneIn(s, P) == \A i \in 1 .. Len(s) : s[i] \notin P
OneIn(s, P) ==
  \E i \in 1 .. Len(s) :
    s[i] \in P /\ \A j \in 1 .. Len(s) : j # i => s[j] \notin P

\* An upload is hashed, or sent.
SomeHash == \E k \in UploadKinds : HashFile(k)
SomePut == \E k \in UploadKinds : PutObject(k)

SaveCompletions == {m \in Completions : m.kind \in SaveKinds}

\* The places where a save can be.
Places == {"queue0", "queue1", "work0", "work1", "inbox", "dialog"}

NoneAt(p) ==
  /\ p = "queue0" => NoneIn(queue[0], SaveKinds)
  /\ p = "queue1" => NoneIn(queue[1], SaveKinds)
  /\ p = "work0" => work[0] \notin SaveKinds
  /\ p = "work1" => work[1] \notin SaveKinds
  /\ p = "inbox" => NoneIn(inbox, SaveCompletions)
  /\ p = "dialog" => dialog = "none"

OneAt(p) ==
  /\ p = "queue0" => OneIn(queue[0], SaveKinds)
  /\ p = "queue1" => OneIn(queue[1], SaveKinds)
  /\ p = "work0" => work[0] \in SaveKinds
  /\ p = "work1" => work[1] \in SaveKinds
  /\ p = "inbox" => OneIn(inbox, SaveCompletions)
  /\ p = "dialog" => dialog # "none"

OnlyAt(p) == OneAt(p) /\ \A q \in Places \ {p} : NoneAt(q)
NoSave == \A q \in Places : NoneAt(q)

\* One save is somewhere while the document's state says so, else none is.
SaveIsSomewhere ==
  /\ missed => inFlight
  /\ IF inFlight /\ ~missed THEN \E p \in Places : OnlyAt(p) ELSE NoSave

\* Jobs are in their lanes, and a worker answers for the job it executes.
JobsFit ==
  /\ \A l \in Lanes : \A i \in 1 .. Len(queue[l]) : LaneOf(queue[l][i]) = l
  /\ \A l \in Lanes : work[l] # "none" => LaneOf(work[l]) = l
  /\ \A l \in Lanes : answer[l] # Idle =>
       answer[l] \in Completions /\ answer[l].kind = work[l]
  /\ hashed # Nothing => work[1] \in UploadKinds /\ answer[1] = Idle

\* The completions that are not dispatched.
Pending(m) ==
  \/ m \in {answer[0], answer[1]} /\ m # Idle
  \/ \E i \in 1 .. Len(inbox) : m = inbox[i]

\* Successful completions carry an ETag; only a Head finds the object gone.
PendingFits ==
  \A m \in Completions : Pending(m) =>
    /\ m.result = "ok" => m.tag # Nothing
    /\ m.result = "gone" => m.kind = "Head"

\* A content that counts as not saved yet is in the file, and an upload of
\* it is reported only after it has been counted as saved.
DueIsFile ==
  /\ due # Nothing => file = due
  /\ due # Nothing /\ hasProfile /\ ~unheard => inFlight
  /\ due # Nothing =>
       again \/ work[1] # "Upload" \/ hashed \in {Nothing, due}
  /\ \A m \in Completions :
       Pending(m) /\ m.kind = "Upload" /\ m.result = "ok"
         => again \/ due = Nothing

\* Contents that have been used.
Used(t) == t <= latest
ContentsUsed ==
  /\ Used(remote) /\ Used(file) /\ Used(etag) /\ Used(etagDisk)
  /\ \A m \in Completions : Pending(m) => Used(m.tag)

\* A completion whose ETag will be recorded.
Records(m) == m.kind \notin {"Head", "Manual"} /\ m.result = "ok"

\* ETags are recorded in the order in which they were read: when the object
\* or the file is a content that is on record, or that will be, so is every
\* ETag that is recorded later.
InOrder(x) ==
  /\ x = etag =>
       /\ \A i \in 1 .. Len(inbox) : Records(inbox[i]) => inbox[i].tag = x
       /\ Records(answer[1]) => answer[1].tag = x
  /\ \A i \in 1 .. Len(inbox) : Records(inbox[i]) /\ inbox[i].tag = x =>
       /\ \A j \in 1 .. Len(inbox) :
            i < j /\ Records(inbox[j]) => inbox[j].tag = x
       /\ Records(answer[1]) => answer[1].tag = x
RecordsInOrder == \A x \in {remote, file} : InOrder(x)

\* Without interference the object is what is on record or what an upload
\* will have recorded.
ObjectIsKnown ==
  ~intruded /\ ~missed =>
    \/ remote = etag
    \/ \E m \in Completions :
         Pending(m) /\ m.kind = "Upload" /\ m.result = "ok" /\ m.tag = remote

\* What a Head has seen is still so, if nobody wrote the object since.
HeadIsCurrent ==
  /\ late => intruded
  /\ ~late => \A m \in Completions : Pending(m) /\ m.kind = "Head" =>
       /\ m.result = "ok" => m.tag = remote
       /\ m.result = "gone" => remote = Absent
  /\ ~late /\ dialog # "none" => shown = remote

\* An upload that has not been answered replaces what may be replaced.
UploadWaits ==
  \/ \E i \in 1 .. Len(queue[1]) : queue[1][i] = "Upload"
  \/ work[1] = "Upload" /\ answer[1] = Idle
Allowed ==
  \/ remote \in {etag, Absent} \cup confirmed
  \/ work[1] = "Upload" /\ remote = hashed
UploadIsChecked == UploadWaits /\ ~late => Allowed

SaveInv == /\ TypeOK
           /\ JobsFit /\ PendingFits /\ SaveIsSomewhere
           /\ DueIsFile /\ ContentsUsed /\ RecordsInOrder
           /\ ObjectIsKnown /\ SavesDoNotConflict
           /\ HeadIsCurrent /\ UploadIsChecked

-----------------------------------------------------------------------------
(* Sequences *)

LEMMA AppendFacts ==
  ASSUME NEW S, NEW s \in Seq(S), NEW e \in S
  PROVE  /\ Append(s, e) \in Seq(S)
         /\ Len(s) \in Nat /\ Len(Append(s, e)) = Len(s) + 1
         /\ \A i \in 1 .. Len(s) : Append(s, e)[i] = s[i]
         /\ Append(s, e)[Len(s) + 1] = e
OBVIOUS

LEMMA TailFacts ==
  ASSUME NEW S, NEW s \in Seq(S), s # << >>
  PROVE  /\ Head(s) \in S /\ Head(s) = s[1]
         /\ Tail(s) \in Seq(S)
         /\ Len(s) \in Nat \ {0}
         /\ Len(Tail(s)) = Len(s) - 1
         /\ \A i \in 1 .. Len(s) - 1 : Tail(s)[i] = s[i + 1]
OBVIOUS

\* Every element of Append(s, e) is e or one of s, and of Tail(s) one of s.
LEMMA AppendElements ==
  ASSUME NEW S, NEW s \in Seq(S), NEW e \in S,
         NEW i \in 1 .. Len(Append(s, e))
  PROVE  \/ i \in 1 .. Len(s) /\ Append(s, e)[i] = s[i]
         \/ i = Len(s) + 1 /\ Append(s, e)[i] = e
BY AppendFacts

LEMMA TailElements ==
  ASSUME NEW S, NEW s \in Seq(S), s # << >>, NEW i \in 1 .. Len(Tail(s))
  PROVE  /\ i \in Nat \ {0} /\ i + 1 \in 1 .. Len(s)
         /\ Tail(s)[i] = s[i + 1]
BY TailFacts

LEMMA AppendNone ==
  ASSUME NEW S, NEW s \in Seq(S), NEW e \in S, NEW P
  PROVE  /\ NoneIn(s, P) /\ e \notin P => NoneIn(Append(s, e), P)
         /\ NoneIn(s, P) /\ e \in P => OneIn(Append(s, e), P)
<1>1. ASSUME NoneIn(s, P), e \notin P
      PROVE  NoneIn(Append(s, e), P)
  BY <1>1, AppendElements DEF NoneIn
<1>2. ASSUME NoneIn(s, P), e \in P
      PROVE  OneIn(Append(s, e), P)
  <2>1. /\ Len(s) + 1 \in 1 .. Len(Append(s, e))
        /\ Append(s, e)[Len(s) + 1] \in P
    BY <1>2, AppendFacts
  <2>2. \A j \in 1 .. Len(Append(s, e)) : j # Len(s) + 1 => Append(s, e)[j] \notin P
    BY <1>2, AppendElements DEF NoneIn
  <2> QED
    BY <2>1, <2>2 DEF OneIn
<1> QED
  BY <1>1, <1>2

LEMMA AppendOne ==
  ASSUME NEW S, NEW s \in Seq(S), NEW e \in S, NEW P,
         OneIn(s, P), e \notin P
  PROVE  OneIn(Append(s, e), P)
<1>1. PICK i \in 1 .. Len(s) :
        s[i] \in P /\ \A j \in 1 .. Len(s) : j # i => s[j] \notin P
  BY DEF OneIn
<1>2. i \in 1 .. Len(Append(s, e)) /\ Append(s, e)[i] \in P
  BY <1>1, AppendFacts
<1>3. \A j \in 1 .. Len(Append(s, e)) : j # i => Append(s, e)[j] \notin P
  BY <1>1, AppendElements
<1> QED
  BY <1>2, <1>3 DEF OneIn

LEMMA TailNone ==
  ASSUME NEW S, NEW s \in Seq(S), s # << >>, NEW P
  PROVE  /\ NoneIn(s, P) => NoneIn(Tail(s), P) /\ Head(s) \notin P
         /\ OneIn(s, P) /\ Head(s) \in P => NoneIn(Tail(s), P)
         /\ OneIn(s, P) /\ Head(s) \notin P => OneIn(Tail(s), P)
<1>0. Len(s) \in Nat \ {0} /\ Head(s) = s[1] /\ 1 \in 1 .. Len(s)
  BY TailFacts
<1>1. ASSUME NoneIn(s, P)
      PROVE  NoneIn(Tail(s), P) /\ Head(s) \notin P
  BY <1>0, <1>1, TailElements DEF NoneIn
<1>2. ASSUME OneIn(s, P), Head(s) \in P
      PROVE  NoneIn(Tail(s), P)
  <2>1. \A j \in 1 .. Len(s) : j # 1 => s[j] \notin P
    BY <1>0, <1>2 DEF OneIn
  <2> SUFFICES ASSUME NEW i \in 1 .. Len(Tail(s)) PROVE Tail(s)[i] \notin P
    BY DEF NoneIn
  <2>2. i + 1 \in 1 .. Len(s) /\ i + 1 # 1 /\ Tail(s)[i] = s[i + 1]
    BY TailElements
  <2> QED
    BY <2>1, <2>2
<1>3. ASSUME OneIn(s, P), Head(s) \notin P
      PROVE  OneIn(Tail(s), P)
  <2>1. PICK i \in 1 .. Len(s) :
          s[i] \in P /\ \A j \in 1 .. Len(s) : j # i => s[j] \notin P
    BY <1>3 DEF OneIn
  <2>2. i # 1
    BY <1>0, <1>3, <2>1
  <2>3. i - 1 \in 1 .. Len(Tail(s)) /\ (i - 1) + 1 = i
    BY <1>0, <2>2, TailFacts
  <2>4. Tail(s)[i - 1] \in P
    BY <2>1, <2>3, TailElements
  <2>5. \A j \in 1 .. Len(Tail(s)) : j # i - 1 => Tail(s)[j] \notin P
    <3> SUFFICES ASSUME NEW j \in 1 .. Len(Tail(s)), j # i - 1
                 PROVE  Tail(s)[j] \notin P
      OBVIOUS
    <3>1. j \in Nat /\ j + 1 \in 1 .. Len(s) /\ Tail(s)[j] = s[j + 1]
      BY TailElements
    <3>2. j + 1 # i
      BY <3>1, <2>3
    <3> QED
      BY <2>1, <3>1, <3>2
  <2> QED
    BY <2>3, <2>4, <2>5 DEF OneIn
<1> QED
  BY <1>1, <1>2, <1>3

LEMMA EmptyNone ==
  ASSUME NEW P
  PROVE  NoneIn(<< >>, P)
BY DEF NoneIn

-----------------------------------------------------------------------------
(* Types *)

LEMMA KindFacts ==
  /\ SaveKinds \subseteq Kinds /\ "none" \notin Kinds
  /\ UploadKinds \subseteq Kinds /\ \A k \in UploadKinds : LaneOf(k) = 1
  /\ LaneOf("Head") = 0 /\ LaneOf("Upload") = 1
  /\ \A k \in Kinds : LaneOf(k) \in Lanes
  /\ \A k \in Kinds : LaneOf(k) = 0 => k = "Head"
  /\ \A k \in Kinds : LaneOf(k) = 1 => k # "Head"
  /\ Lanes = {0, 1}
BY DEF Kinds, SaveKinds, UploadKinds, LaneOf, Lanes

LEMMA IdleFacts == Idle \notin Completions
BY DEF Idle, Completions, Kinds

LEMMA CompletionFacts ==
  /\ \A m \in Completions : /\ m.kind \in Kinds
                            /\ m.result \in {"ok", "gone", "failed"}
                            /\ m.tag \in Contents \cup {Nothing}
  /\ \A k \in Kinds, r \in {"ok", "gone", "failed"}, t \in Contents \cup {Nothing} :
       LET m == [kind |-> k, result |-> r, tag |-> t]
       IN  m \in Completions /\ m.kind = k /\ m.result = r /\ m.tag = t
BY DEF Completions

\* The first completion of the inbox is one that is not dispatched yet.
LEMMA HeadIsPending ==
  ASSUME TypeOK, inbox # << >>
  PROVE  Head(inbox) \in Completions /\ Pending(Head(inbox))
<1>1. inbox \in Seq(Completions)
  BY DEF TypeOK
<1>2. Head(inbox) \in Completions /\ Head(inbox) = inbox[1]
      /\ Len(inbox) \in Nat \ {0}
  BY <1>1, TailFacts
<1> QED
  BY <1>2 DEF Pending

LEMMA QueueTypes ==
  ASSUME TypeOK
  PROVE  /\ queue[0] \in Seq(Kinds) /\ queue[1] \in Seq(Kinds)
         /\ \A k \in Kinds : EnqueueJob(k) => queue' \in [Lanes -> Seq(Kinds)]
         /\ \A l \in Lanes : queue[l] # << >> =>
              /\ Head(queue[l]) \in Kinds
              /\ [queue EXCEPT ![l] = Tail(@)] \in [Lanes -> Seq(Kinds)]
<1>1. \A l \in Lanes : queue[l] \in Seq(Kinds)
  BY DEF TypeOK
<1>2. \A l \in Lanes : queue[l] # << >> =>
        Head(queue[l]) \in Kinds /\ Tail(queue[l]) \in Seq(Kinds)
  BY <1>1, TailFacts
<1>3. \A k \in Kinds : LaneOf(k) \in Lanes /\ Append(queue[LaneOf(k)], k) \in Seq(Kinds)
  BY <1>1, KindFacts, AppendFacts
<1>4. \A k \in Kinds : EnqueueJob(k) => queue' \in [Lanes -> Seq(Kinds)]
  BY <1>3 DEF EnqueueJob, TypeOK
<1> QED
  BY <1>1, <1>2, <1>4, KindFacts DEF TypeOK

\* What starting, ending and going on with a save leaves of the types.
LEMMA StartTypes ==
  ASSUME TypeOK, NEW d \in Contents \cup {Nothing}, StartSaveUpload(d)
  PROVE  /\ queue' \in [Lanes -> Seq(Kinds)]
         /\ inFlight' \in BOOLEAN /\ again' \in BOOLEAN
         /\ due' \in Contents \cup {Nothing} /\ unheard' \in BOOLEAN
         /\ confirmed' \subseteq Contents \cup {Absent}
<1>1. queue' \in [Lanes -> Seq(Kinds)]
  BY QueueTypes DEF StartSaveUpload, Kinds, TypeOK
<1> QED
  BY <1>1 DEF StartSaveUpload

LEMMA FinishTypes ==
  ASSUME TypeOK, NEW r \in BOOLEAN, NEW d \in Contents \cup {Nothing},
         FinishSave(r, d)
  PROVE  /\ queue' \in [Lanes -> Seq(Kinds)]
         /\ inFlight' \in BOOLEAN /\ again' \in BOOLEAN
         /\ due' \in Contents \cup {Nothing} /\ unheard' \in BOOLEAN
         /\ confirmed' \subseteq Contents \cup {Absent}
<1>1. CASE again /\ r
  BY <1>1, StartTypes DEF FinishSave
<1>2. CASE ~(again /\ r)
  BY <1>2 DEF FinishSave, TypeOK
<1> QED
  BY <1>1, <1>2

LEMMA ProceedTypes ==
  ASSUME TypeOK, Proceed
  PROVE  /\ queue' \in [Lanes -> Seq(Kinds)]
         /\ inFlight' \in BOOLEAN /\ again' \in BOOLEAN
         /\ due' \in Contents \cup {Nothing} /\ unheard' \in BOOLEAN
         /\ confirmed' \subseteq Contents \cup {Absent}
<1>1. CASE EnqueueJob("Upload") /\ UNCHANGED <<saveVars, dueVars, confirmed>>
  BY <1>1, QueueTypes DEF Kinds, hostVars, dueVars, saveVars, TypeOK
<1>2. CASE FinishSave(FALSE, Discarded)
  <2>1. Discarded \in Contents \cup {Nothing}
    BY DEF Discarded, TypeOK
  <2> QED
    BY <1>2, <2>1, FinishTypes
<1> QED
  BY <1>1, <1>2 DEF Proceed

LEMMA AnswerTypes ==
  ASSUME TypeOK, NEW k \in Kinds, NEW r \in {"ok", "gone", "failed"},
         NEW t \in Contents \cup {Nothing}, Answer(k, r, t)
  PROVE  answer' \in [Lanes -> Completions \cup {Idle}]
BY CompletionFacts, KindFacts DEF Answer, TypeOK

\* A successful completion about to be dispatched has an ETag.
LEMMA DispatchTypes ==
  ASSUME TypeOK, PendingFits, NEW k, Dispatch(k)
  PROVE  /\ inbox' \in Seq(Completions)
         /\ Head(inbox) \in Completions
         /\ Head(inbox).result = "ok" => Head(inbox).tag \in Contents
<1>1. inbox # << >> /\ inbox' = Tail(inbox) /\ inbox \in Seq(Completions)
  BY DEF Dispatch, TypeOK
<1>2. Head(inbox) \in Completions /\ Pending(Head(inbox))
  BY <1>1, HeadIsPending
<1> QED
  BY <1>1, <1>2, TailFacts, CompletionFacts DEF PendingFits

LEMMA WorkTypes ==
  ASSUME TypeOK, NEW l \in Lanes, Take(l) \/ OnTransferEvent(l)
  PROVE  TypeOK'
<1>1. CASE Take(l)
  <2>1. /\ queue' \in [Lanes -> Seq(Kinds)] /\ work' \in [Lanes -> Kinds \cup {"none"}]
    BY <1>1, QueueTypes DEF Take, TypeOK
  <2> QED
    BY <1>1, <2>1 DEF Take, TypeOK, hostVars, dueVars, storeVars, docVars,
      saveVars, dialogVars, checkVars
<1>2. CASE OnTransferEvent(l)
  <2>1. answer[l] \in Completions /\ inbox \in Seq(Completions)
    BY <1>2 DEF OnTransferEvent, TypeOK
  <2>2. inbox' \in Seq(Completions)
    BY <1>2, <2>1, AppendFacts DEF OnTransferEvent
  <2>3. /\ answer' \in [Lanes -> Completions \cup {Idle}]
        /\ work' \in [Lanes -> Kinds \cup {"none"}] /\ missed' \in BOOLEAN
    BY <1>2 DEF OnTransferEvent, TypeOK
  <2> QED
    BY <1>2, <2>2, <2>3
    DEF OnTransferEvent, TypeOK, hostVars, dueVars, storeVars, docVars,
      saveVars, dialogVars, checkVars
<1> QED
  BY <1>1, <1>2

LEMMA JobTypes ==
  ASSUME TypeOK, NEW k \in Kinds,
         Fail(k) \/ DownloadObject(k) \/ HeadObject \/ SomeHash \/ SomePut
  PROVE  TypeOK'
<1>1. CASE Fail(k)
  <2>1. answer' \in [Lanes -> Completions \cup {Idle}]
    BY <1>1, AnswerTypes DEF Fail
  <2> QED
    BY <1>1, <2>1 DEF Fail, TypeOK, hostVars, dueVars, storeVars, docVars,
      saveVars, dialogVars, checkVars
<1>2. CASE DownloadObject(k)
  <2>1. remote \in Contents
    BY <1>2 DEF DownloadObject, TypeOK
  <2>2. answer' \in [Lanes -> Completions \cup {Idle}]
    BY <1>2, <2>1, AnswerTypes DEF DownloadObject
  <2> QED
    BY <1>2, <2>1, <2>2 DEF DownloadObject, TypeOK, hostVars, dueVars, docVars,
      saveVars, dialogVars, checkVars
<1>3. CASE HeadObject
  <2>1. answer' \in [Lanes -> Completions \cup {Idle}]
    BY <1>3, AnswerTypes DEF HeadObject, TypeOK, Kinds, Absent, Nothing
  <2>2. late' \in BOOLEAN /\ confirmed' = confirmed /\ intruded' = intruded
    BY <1>3 DEF HeadObject
  <2>3. UNCHANGED <<storeVars, docVars, saveVars, dialogVars, hostVars, queue,
                    work, hashed, inbox, dueVars, missed>>
    BY <1>3 DEF HeadObject
  <2> QED
    BY <2>1, <2>2, <2>3 DEF TypeOK, hostVars, dueVars, storeVars, docVars,
      saveVars, dialogVars
<1>4. CASE SomeHash
  BY <1>4 DEF SomeHash, HashFile, TypeOK, hostVars, dueVars, storeVars,
    docVars, saveVars, dialogVars, checkVars
<1>5. CASE SomePut
  <2>0. PICK j \in UploadKinds : PutObject(j)
    BY <1>5 DEF SomePut
  <2>1. hashed \in Contents
    BY <2>0 DEF PutObject, TypeOK
  <2>2. answer' \in [Lanes -> Completions \cup {Idle}]
    <3>1. CASE UNCHANGED answer
      BY <3>1 DEF TypeOK
    <3>2. CASE Answer(j, "ok", hashed) \/ Answer(j, "failed", Nothing)
      BY <2>1, <3>2, AnswerTypes, KindFacts
    <3> QED
      BY <2>0, <3>1, <3>2 DEF PutObject
  <2>3. /\ hashed' \in Contents \cup {Nothing} /\ intruded' \in BOOLEAN
        /\ due' \in Contents \cup {Nothing} /\ unheard' \in BOOLEAN
    BY <1>5 DEF SomePut, PutObject, TypeOK
  <2> QED
    BY <1>5, <2>1, <2>2, <2>3 DEF SomePut, PutObject, TypeOK, hostVars,
      dueVars, docVars, saveVars, dialogVars
<1> QED
  BY <1>1, <1>2, <1>3, <1>4, <1>5

LEMMA CompletionTypes ==
  ASSUME TypeOK, PendingFits, HandleCompletion
  PROVE  TypeOK'
<1>1. CASE HandleHead
  <2>1. /\ queue' \in [Lanes -> Seq(Kinds)]
        /\ inFlight' \in BOOLEAN /\ again' \in BOOLEAN
        /\ due' \in Contents \cup {Nothing} /\ unheard' \in BOOLEAN
        /\ confirmed' \subseteq Contents \cup {Absent}
        /\ dialog' \in {"none", "changed", "gone"}
        /\ shown' \in Contents \cup {Nothing}
    <3> DEFINE m == Head(inbox)
    <3>0. m \in Completions /\ (m.result = "ok" => m.tag \in Contents)
      BY <1>1, DispatchTypes DEF HandleHead
    <3>1. CASE Proceed /\ UNCHANGED dialogVars
      BY <3>1, ProceedTypes DEF hostVars, dueVars, dialogVars, TypeOK
    <3>2. CASE FinishSave(FALSE, Nothing) /\ UNCHANGED dialogVars
      BY <3>2, FinishTypes DEF hostVars, dueVars, dialogVars, TypeOK
    <3>3. CASE /\ UNCHANGED <<saveVars, queue, dueVars, confirmed>>
               /\ \/ m.result = "ok" /\ dialog' = "changed" /\ shown' = m.tag
                  \/ dialog' = "gone" /\ shown' = Absent
      BY <3>0, <3>3 DEF hostVars, dueVars, saveVars, TypeOK, Absent, Nothing
    <3> QED
      BY <1>1, <3>1, <3>2, <3>3 DEF HandleHead
  <2>2. inbox' \in Seq(Completions)
    BY <1>1, DispatchTypes DEF HandleHead
  <2> QED
    BY <1>1, <2>1, <2>2 DEF HandleHead, Dispatch, TypeOK, hostVars, dueVars,
      storeVars, docVars
<1>2. CASE HandleUpload
  <2> DEFINE m == Head(inbox)
             d == IF m.result = "ok" \/ again THEN due ELSE Nothing
  <2>1. d \in Contents \cup {Nothing}
    BY DEF TypeOK
  <2>2. /\ queue' \in [Lanes -> Seq(Kinds)]
        /\ inFlight' \in BOOLEAN /\ again' \in BOOLEAN
        /\ due' \in Contents \cup {Nothing} /\ unheard' \in BOOLEAN
        /\ confirmed' \subseteq Contents \cup {Absent}
    <3> HIDE DEF d
    <3>1. FinishSave(TRUE, d)
      BY <1>2 DEF HandleUpload, d
    <3> QED
      BY <2>1, <3>1, FinishTypes
  <2>3. inbox' \in Seq(Completions) /\ (m.result = "ok" => m.tag \in Contents)
    BY <1>2, DispatchTypes DEF HandleUpload
  <2>4. etag' \in Contents /\ etagDisk' \in Contents
    BY <1>2, <2>3 DEF HandleUpload, RecordETag, hostVars, dueVars, docVars, TypeOK
  <2> QED
    BY <1>2, <2>2, <2>3, <2>4 DEF HandleUpload, Dispatch, TypeOK, hostVars,
      dueVars, storeVars, dialogVars
<1>3. ASSUME NEW k, RecordDownload(k)
      PROVE  TypeOK'
  <2>1. /\ inbox' \in Seq(Completions)
        /\ Head(inbox).result = "ok" => Head(inbox).tag \in Contents
    BY <1>3, DispatchTypes DEF RecordDownload
  <2>2. etag' \in Contents /\ etagDisk' \in Contents
    BY <1>3, <2>1 DEF RecordDownload, RecordETag, hostVars, dueVars, docVars, TypeOK
  <2> QED
    BY <1>3, <2>1, <2>2
    DEF RecordDownload, Dispatch, TypeOK, hostVars, dueVars, storeVars,
      saveVars, dialogVars
<1>4. CASE HandleUploadManual
  <2>1. inbox' \in Seq(Completions)
    BY <1>4, DispatchTypes DEF HandleUploadManual
  <2> QED
    BY <1>4, <2>1
    DEF HandleUploadManual, Dispatch, TypeOK, storeVars, docVars, saveVars,
      dialogVars, hostVars, dueVars
<1> QED
  BY <1>1, <1>2, <1>3, <1>4
  DEF HandleCompletion, HandleDownloadOpen, HandleConflictDownload

LEMMA DialogTypes ==
  ASSUME TypeOK, AnswerDialog
  PROVE  TypeOK'
<1>1. /\ queue' \in [Lanes -> Seq(Kinds)]
      /\ inFlight' \in BOOLEAN /\ again' \in BOOLEAN
      /\ due' \in Contents \cup {Nothing} /\ unheard' \in BOOLEAN
      /\ confirmed' \subseteq Contents \cup {Absent}
  <2>1. CASE FinishSave(FALSE, Nothing) \/ FinishSave(FALSE, Discarded)
    <3>1. Discarded \in Contents \cup {Nothing}
      BY DEF Discarded, TypeOK
    <3> QED
      BY <2>1, <3>1, FinishTypes
  <2>2. CASE /\ EnqueueJob("Upload") /\ confirmed' = {shown}
             /\ UNCHANGED <<saveVars, dueVars>>
    BY <2>2, QueueTypes DEF Kinds, hostVars, dueVars, saveVars, TypeOK, Absent,
      Nothing
  <2>3. CASE ChooseDownloadRemote
    BY <2>3, QueueTypes DEF ChooseDownloadRemote, Kinds, TypeOK
  <2> QED
    BY <2>1, <2>2, <2>3 DEF AnswerDialog, ChooseOverwrite, ChooseCancel
<1>2. CloseDialog
  BY DEF AnswerDialog, ChooseOverwrite, ChooseDownloadRemote, ChooseCancel
<1> QED
  BY <1>1, <1>2 DEF CloseDialog, TypeOK, hostVars, dueVars, storeVars, docVars

LEMMA RestartTypes ==
  ASSUME TypeOK, Restart
  PROVE  TypeOK'
<1>1. /\ queue' \in [Lanes -> Seq(Kinds)]
      /\ work' \in [Lanes -> Kinds \cup {"none"}]
      /\ answer' \in [Lanes -> Completions \cup {Idle}]
      /\ inbox' \in Seq(Completions)
  BY DEF Restart
<1>2. etag' \in Contents /\ etagDisk' \in Contents /\ intruded' \in BOOLEAN
  BY DEF Restart, TypeOK
<1> QED
  BY <1>1, <1>2 DEF Restart, TypeOK, hostVars, dueVars, storeVars

LEMMA TypeStep ==
  ASSUME TypeOK, PendingFits, [Next]_vars
  PROVE  TypeOK'
<1>1. CASE HandleFileSaved
  <2>1. latest + 1 \in Contents
    BY <1>1, SaveBoundsAssumption DEF HandleFileSaved, TypeOK, Contents
  <2>2. /\ queue' \in [Lanes -> Seq(Kinds)]
        /\ inFlight' \in BOOLEAN /\ again' \in BOOLEAN
        /\ due' \in Contents \cup {Nothing} /\ unheard' \in BOOLEAN
        /\ confirmed' \subseteq Contents \cup {Absent}
    <3>1. CASE inFlight
      BY <1>1, <2>1, <3>1 DEF HandleFileSaved, TypeOK
    <3>2. CASE ~inFlight
      BY <1>1, <2>1, <3>2, StartTypes DEF HandleFileSaved
    <3> QED
      BY <3>1, <3>2
  <2> QED
    BY <1>1, <2>1, <2>2 DEF HandleFileSaved, TypeOK, hostVars, dueVars,
      docVars, dialogVars
<1>2. CASE OpenObject \/ CmdUploadCurrent
  <2>1. queue' \in [Lanes -> Seq(Kinds)]
    BY <1>2, QueueTypes DEF OpenObject, CmdUploadCurrent, UserAsks, Kinds
  <2>2. UserAsks("Open") \/ UserAsks("Manual")
    BY <1>2 DEF OpenObject, CmdUploadCurrent
  <2>3. UNCHANGED <<storeVars, docVars, saveVars, dialogVars, hostVars, work,
                    hashed, answer, inbox, dueVars, missed, checkVars>>
    BY <2>2 DEF UserAsks
  <2> QED
    BY <2>1, <2>3
    DEF TypeOK, storeVars, docVars, saveVars, dialogVars, hostVars, dueVars,
      checkVars
<1>3. CASE CmdShowPanel \/ DeleteProfile
  <2>1. UNCHANGED <<storeVars, docVars, saveVars, dialogVars, jobVars, dueVars,
                    missed, checkVars>>
    BY <1>3 DEF CmdShowPanel, DeleteProfile
  <2>2. panel' \in BOOLEAN /\ hasProfile' \in BOOLEAN
    BY <1>3 DEF CmdShowPanel, DeleteProfile, TypeOK
  <2> QED
    BY <2>1, <2>2
    DEF TypeOK, storeVars, docVars, saveVars, dialogVars, jobVars, dueVars,
      checkVars
<1>4. CASE ForeignWrite
  <2>1. latest + 1 \in Contents
    BY <1>4, SaveBoundsAssumption DEF ForeignWrite, TypeOK, Contents
  <2> QED
    BY <1>4, <2>1 DEF ForeignWrite, TypeOK, hostVars, dueVars, docVars,
      saveVars, dialogVars, jobVars
<1>5. CASE UNCHANGED vars
  BY <1>5 DEF vars, TypeOK, hostVars, dueVars, storeVars, docVars, saveVars,
    dialogVars, jobVars,
              checkVars
<1>6. CASE \E l \in Lanes : LaneStep(l)
  BY <1>6, WorkTypes, JobTypes DEF LaneStep, Kinds, SomePut, SomeHash
<1> QED
  BY <1>1, <1>2, <1>3, <1>4, <1>5, <1>6, CompletionTypes, DialogTypes,
     RestartTypes DEF Next

-----------------------------------------------------------------------------
(* Jobs and completions *)

\* The completions that a step adds.
Answered(m) ==
  \/ m.result = "failed" /\ m.tag = Nothing
  \/ /\ DownloadObject(m.kind) /\ m.kind \in {"Open", "Fetch"}
     /\ m.result = "ok" /\ m.tag = remote /\ remote # Absent
  \/ /\ HeadObject /\ m.kind = "Head"
     /\ IF remote = Absent THEN m.result = "gone" /\ m.tag = Nothing
        ELSE m.result = "ok" /\ m.tag = remote
  \/ PutObject(m.kind) /\ m.result = "ok" /\ m.tag = hashed

\* An answer is given on the lane of its job.
LEMMA AnswerIs ==
  ASSUME TypeOK, NEW k \in Kinds, NEW r \in {"ok", "gone", "failed"},
         NEW t \in Contents \cup {Nothing}, Answer(k, r, t)
  PROVE  \A l \in Lanes : answer'[l] =
           IF l = LaneOf(k) THEN [kind |-> k, result |-> r, tag |-> t]
           ELSE answer[l]
BY KindFacts DEF Answer, TypeOK

\* What a job that is executed answers: its kind, a result and an ETag.
LEMMA JobAnswers ==
  ASSUME TypeOK, NEW k \in Kinds,
         Fail(k) \/ DownloadObject(k) \/ (k = "Head" /\ HeadObject)
           \/ PutObject(k),
         answer' # answer
  PROVE  \E m \in Completions :
           /\ m.kind = k /\ Answered(m)
           /\ \A l \in Lanes : answer'[l] = IF l = LaneOf(k) THEN m ELSE answer[l]
<1>1. CASE Fail(k)
  <2> DEFINE m == [kind |-> k, result |-> "failed", tag |-> Nothing]
  <2>1. m \in Completions /\ m.kind = k /\ m.result = "failed" /\ m.tag = Nothing
    BY CompletionFacts
  <2>2. \A l \in Lanes : answer'[l] = IF l = LaneOf(k) THEN m ELSE answer[l]
    BY <1>1, AnswerIs DEF Fail
  <2> QED
    BY <2>1, <2>2 DEF Answered
<1>2. CASE DownloadObject(k)
  <2> DEFINE m == [kind |-> k, result |-> "ok", tag |-> remote]
  <2>0. remote \in Contents /\ remote # Absent /\ k \in {"Open", "Fetch"}
    BY <1>2 DEF DownloadObject, TypeOK
  <2>1. m \in Completions /\ m.kind = k /\ m.result = "ok" /\ m.tag = remote
    BY <2>0, CompletionFacts
  <2>2. \A l \in Lanes : answer'[l] = IF l = LaneOf(k) THEN m ELSE answer[l]
    BY <1>2, <2>0, AnswerIs DEF DownloadObject
  <2> QED
    BY <1>2, <2>0, <2>1, <2>2 DEF Answered
<1>3. CASE k = "Head" /\ HeadObject
  <2>1. CASE remote = Absent
    <3> DEFINE m == [kind |-> k, result |-> "gone", tag |-> Nothing]
    <3>1. m \in Completions /\ m.kind = k /\ m.result = "gone" /\ m.tag = Nothing
      BY CompletionFacts
    <3>2. \A l \in Lanes : answer'[l] = IF l = LaneOf(k) THEN m ELSE answer[l]
      BY <1>3, <2>1, AnswerIs DEF HeadObject
    <3> QED
      BY <1>3, <2>1, <3>1, <3>2 DEF Answered
  <2>2. CASE remote # Absent
    <3> DEFINE m == [kind |-> k, result |-> "ok", tag |-> remote]
    <3>0. remote \in Contents
      BY <2>2 DEF TypeOK
    <3>1. m \in Completions /\ m.kind = k /\ m.result = "ok" /\ m.tag = remote
      BY <3>0, CompletionFacts
    <3>2. \A l \in Lanes : answer'[l] = IF l = LaneOf(k) THEN m ELSE answer[l]
      BY <1>3, <2>2, <3>0, AnswerIs DEF HeadObject
    <3> QED
      BY <1>3, <2>2, <3>1, <3>2 DEF Answered
  <2> QED
    BY <2>1, <2>2
<1>4. CASE PutObject(k)
  <2>0. hashed \in Contents
    BY <1>4 DEF PutObject, TypeOK
  <2>1. CASE Answer(k, "ok", hashed)
    <3> DEFINE m == [kind |-> k, result |-> "ok", tag |-> hashed]
    <3>1. m \in Completions /\ m.kind = k /\ m.result = "ok" /\ m.tag = hashed
      BY <2>0, CompletionFacts
    <3>2. \A l \in Lanes : answer'[l] = IF l = LaneOf(k) THEN m ELSE answer[l]
      BY <1>4, <2>0, <2>1, AnswerIs
    <3> QED
      BY <1>4, <3>1, <3>2 DEF Answered
  <2>2. CASE Answer(k, "failed", Nothing)
    <3> DEFINE m == [kind |-> k, result |-> "failed", tag |-> Nothing]
    <3>1. m \in Completions /\ m.kind = k /\ m.result = "failed" /\ m.tag = Nothing
      BY CompletionFacts
    <3>2. \A l \in Lanes : answer'[l] = IF l = LaneOf(k) THEN m ELSE answer[l]
      BY <1>4, <2>2, AnswerIs
    <3> QED
      BY <3>1, <3>2 DEF Answered
  <2>3. answer' = answer \/ Answer(k, "ok", hashed) \/ Answer(k, "failed", Nothing)
    BY <1>4 DEF PutObject
  <2> QED
    BY <2>1, <2>2, <2>3
<1> QED
  BY <1>1, <1>2, <1>3, <1>4

\* Steps that answer nothing, and steps that only shorten the inbox.
Silent ==
  \/ HandleFileSaved \/ OpenObject \/ CmdUploadCurrent
  \/ CmdShowPanel \/ DeleteProfile \/ AnswerDialog
  \/ ForeignWrite \/ SomeHash \/ UNCHANGED vars \/ \E l \in Lanes : Take(l)

LEMMA SilentStep ==
  ASSUME Silent
  PROVE  answer' = answer /\ inbox' = inbox
BY DEF Silent, HandleFileSaved, OpenObject, CmdUploadCurrent, DeleteProfile,
  UserAsks, CmdShowPanel, AnswerDialog,
  ChooseOverwrite, ChooseDownloadRemote, ChooseCancel, CloseDialog,
  ForeignWrite, SomeHash, HashFile, Take, vars, hostVars, dueVars, jobVars

LEMMA CompletionStep ==
  ASSUME HandleCompletion
  PROVE  /\ \E k \in Kinds : Dispatch(k)
         /\ answer' = answer /\ inbox # << >> /\ inbox' = Tail(inbox)
         /\ work' = work /\ hashed' = hashed /\ remote' = remote /\ file' = file
         /\ latest' = latest /\ panel' = panel /\ missed' = missed
         /\ late' = late /\ intruded' = intruded
<1>1. \E k \in Kinds : Dispatch(k)
  BY DEF HandleCompletion, HandleHead, HandleUpload, HandleDownloadOpen,
         HandleConflictDownload, HandleUploadManual, RecordDownload, Kinds
<1> QED
  BY <1>1 DEF Dispatch, hostVars, dueVars, storeVars

\* A step is one of these.
LEMMA StepCases ==
  ASSUME [Next]_vars
  PROVE  \/ Silent \/ HandleCompletion \/ Restart
         \/ \E l \in Lanes : OnTransferEvent(l)
         \/ \E k \in Kinds : Fail(k) \/ DownloadObject(k)
                               \/ (k = "Head" /\ HeadObject)
                               \/ PutObject(k)
<1>1. "Head" \in Kinds /\ UploadKinds \subseteq Kinds
  BY DEF Kinds, UploadKinds
<1> QED
  BY <1>1 DEF Next, LaneStep, Silent, SomeHash

LEMMA PendingStep ==
  ASSUME TypeOK, [Next]_vars
  PROVE  \A m \in Completions : Pending(m)' => Pending(m) \/ Answered(m)
<1> SUFFICES ASSUME NEW m \in Completions, Pending(m)'
             PROVE  Pending(m) \/ Answered(m)
  OBVIOUS
<1>0. inbox \in Seq(Completions) /\ Lanes = {0, 1} /\ m # Idle
  BY IdleFacts DEF TypeOK, Lanes
<1>1. CASE Silent
  BY <1>1, SilentStep DEF Pending
<1>2. CASE HandleCompletion
  <2>1. answer' = answer /\ inbox # << >> /\ inbox' = Tail(inbox)
    BY <1>2, CompletionStep
  <2>2. \A i \in 1 .. Len(inbox') : i + 1 \in 1 .. Len(inbox) /\ inbox'[i] = inbox[i + 1]
    BY <1>0, <2>1, TailElements
  <2> QED
    BY <2>1, <2>2 DEF Pending
<1>3. CASE Restart
  BY <1>0, <1>3 DEF Restart, Pending
<1>4. ASSUME NEW l \in Lanes, OnTransferEvent(l)
      PROVE  Pending(m)
  <2>1. /\ answer[l] # Idle /\ answer[l] \in Completions
        /\ inbox' = Append(inbox, answer[l]) \/ inbox' = inbox
        /\ \A w \in Lanes : answer'[w] \in {answer[w], Idle}
    BY <1>4 DEF OnTransferEvent, TypeOK
  <2>2. \A i \in 1 .. Len(inbox') :
          \/ i \in 1 .. Len(inbox) /\ inbox'[i] = inbox[i]
          \/ inbox'[i] = answer[l]
    BY <1>0, <2>1, AppendElements
  <2>3. CASE m \in {answer'[0], answer'[1]}
    BY <1>0, <2>1, <2>3 DEF Pending
  <2>4. CASE \E i \in 1 .. Len(inbox') : m = inbox'[i]
    BY <1>0, <2>1, <2>2, <2>4 DEF Pending
  <2> QED
    BY <2>3, <2>4 DEF Pending
<1>5. ASSUME NEW k \in Kinds,
             Fail(k) \/ DownloadObject(k) \/ (k = "Head" /\ HeadObject)
               \/ PutObject(k)
      PROVE  Pending(m) \/ Answered(m)
  <2>1. inbox' = inbox
    BY <1>5 DEF Fail, DownloadObject, HeadObject, SomePut, PutObject
  <2>2. CASE answer' = answer
    BY <2>1, <2>2 DEF Pending
  <2>3. CASE answer' # answer
    <3>1. PICK a \in Completions :
            /\ Answered(a)
            /\ \A l \in Lanes : answer'[l] = IF l = LaneOf(k) THEN a ELSE answer[l]
      BY <1>5, <2>3, JobAnswers
    <3>2. answer'[0] \in {answer[0], a} /\ answer'[1] \in {answer[1], a}
      BY <1>0, <3>1
    <3> QED
      BY <1>0, <2>1, <3>1, <3>2 DEF Pending
  <2> QED
    BY <2>2, <2>3
<1> QED
  BY <1>1, <1>2, <1>3, <1>4, <1>5, StepCases

LEMMA PendingFitsStep ==
  ASSUME TypeOK, PendingFits, [Next]_vars
  PROVE  PendingFits'
<1> SUFFICES ASSUME NEW m \in Completions, Pending(m) \/ Answered(m)
             PROVE  /\ m.result = "ok" => m.tag # Nothing
                    /\ m.result = "gone" => m.kind = "Head"
  BY PendingStep DEF PendingFits
<1>1. CASE Pending(m)
  BY <1>1 DEF PendingFits
<1>2. CASE Answered(m)
  BY <1>2 DEF Answered, SomePut, PutObject, Absent, Nothing
<1> QED
  BY <1>1, <1>2

\* What a step can do to the queues.
LEMMA QueueStep ==
  ASSUME [Next]_vars
  PROVE  \/ queue' = queue
         \/ \E k \in Kinds : EnqueueJob(k)
         \/ \E l \in Lanes : Take(l)
         \/ Restart
<1>0. /\ "Head" \in Kinds /\ "Upload" \in Kinds /\ "Open" \in Kinds
      /\ "Fetch" \in Kinds /\ "Manual" \in Kinds
  BY DEF Kinds
<1>1. CASE HandleFileSaved \/ OpenObject \/ CmdUploadCurrent
  BY <1>0, <1>1 DEF HandleFileSaved, StartSaveUpload, OpenObject,
    CmdUploadCurrent, DeleteProfile, UserAsks
<1>2. CASE HandleCompletion
  BY <1>0, <1>2 DEF HandleCompletion, HandleHead, HandleUpload, HandleDownloadOpen,
    HandleConflictDownload, HandleUploadManual, RecordDownload, Proceed,
    FinishSave, StartSaveUpload
<1>3. CASE AnswerDialog
  BY <1>0, <1>3 DEF AnswerDialog, ChooseOverwrite, ChooseDownloadRemote,
    ChooseCancel, FinishSave, StartSaveUpload
<1>4. CASE \/ CmdShowPanel \/ DeleteProfile \/ ForeignWrite \/ SomeHash
           \/ UNCHANGED vars
  BY <1>4 DEF CmdShowPanel, DeleteProfile, ForeignWrite, SomeHash, HashFile,
    vars, hostVars, dueVars, jobVars
<1>5. CASE \/ \E l \in Lanes : OnTransferEvent(l)
           \/ \E k \in Kinds : Fail(k) \/ DownloadObject(k) \/ HeadObject \/ PutObject(k)
  BY <1>5 DEF OnTransferEvent, Fail, DownloadObject, HeadObject, PutObject
<1> QED
  BY <1>1, <1>2, <1>3, <1>4, <1>5, StepCases DEF Silent

LEMMA QueueFits ==
  ASSUME TypeOK, JobsFit, [Next]_vars
  PROVE  \A l \in Lanes : \A i \in 1 .. Len(queue'[l]) : LaneOf(queue'[l][i]) = l
<1> SUFFICES ASSUME NEW l \in Lanes, NEW i \in 1 .. Len(queue'[l])
             PROVE  LaneOf(queue'[l][i]) = l
  OBVIOUS
<1>0. queue[l] \in Seq(Kinds) /\ \A j \in 1 .. Len(queue[l]) : LaneOf(queue[l][j]) = l
  BY DEF TypeOK, JobsFit
<1>1. CASE queue' = queue
  BY <1>0, <1>1
<1>2. ASSUME NEW k \in Kinds, EnqueueJob(k)
      PROVE  LaneOf(queue'[l][i]) = l
  <2>1. CASE LaneOf(k) = l
    <3>1. queue'[l] = Append(queue[l], k)
      BY <1>2, <2>1 DEF EnqueueJob, TypeOK
    <3> QED
      BY <1>0, <2>1, <3>1, AppendElements
  <2>2. CASE LaneOf(k) # l
    <3>1. queue'[l] = queue[l]
      BY <1>2, <2>2, KindFacts DEF EnqueueJob, TypeOK
    <3> QED
      BY <1>0, <3>1
  <2> QED
    BY <2>1, <2>2
<1>3. ASSUME NEW w \in Lanes, Take(w)
      PROVE  LaneOf(queue'[l][i]) = l
  <2>1. CASE w = l
    <3>1. queue[l] # << >> /\ queue'[l] = Tail(queue[l])
      BY <1>3, <2>1 DEF Take, TypeOK
    <3>2. i + 1 \in 1 .. Len(queue[l]) /\ queue'[l][i] = queue[l][i + 1]
      BY <1>0, <3>1, TailElements
    <3> QED
      BY <1>0, <3>2
  <2>2. CASE w # l
    <3>1. queue'[l] = queue[l]
      BY <1>3, <2>2 DEF Take, TypeOK
    <3> QED
      BY <1>0, <3>1
  <2> QED
    BY <2>1, <2>2
<1>4. CASE Restart
  BY <1>4 DEF Restart
<1> QED
  BY <1>1, <1>2, <1>3, <1>4, QueueStep

LEMMA JobsFitStep ==
  ASSUME TypeOK, JobsFit, [Next]_vars
  PROVE  JobsFit'
<1> SUFFICES /\ \A l \in Lanes : work'[l] # "none" => LaneOf(work'[l]) = l
             /\ \A l \in Lanes : answer'[l] # Idle =>
                  answer'[l] \in Completions /\ answer'[l].kind = work'[l]
             /\ hashed' # Nothing => work'[1] \in UploadKinds /\ answer'[1] = Idle
  BY QueueFits DEF JobsFit
<1>0. /\ Lanes = {0, 1} /\ DOMAIN work = Lanes /\ DOMAIN answer = Lanes
      /\ Idle \notin Completions
  BY IdleFacts DEF TypeOK, Lanes
<1>1. CASE UNCHANGED <<work, answer, hashed>>
  BY <1>1 DEF JobsFit
<1>2. ASSUME NEW w \in Lanes, Take(w)
      PROVE  /\ \A l \in Lanes : work'[l] # "none" => LaneOf(work'[l]) = l
             /\ answer' = answer /\ \A l \in Lanes : answer[l] # Idle => work'[l] = work[l]
             /\ hashed' = hashed /\ (hashed # Nothing => work'[1] \in UploadKinds)
  <2>1. /\ work[w] = "none" /\ \A l \in Lanes : l # w => work'[l] = work[l]
        /\ work'[w] = Head(queue[w]) /\ queue[w] # << >>
        /\ answer' = answer /\ hashed' = hashed
    BY <1>0, <1>2 DEF Take
  <2>2. LaneOf(Head(queue[w])) = w
    <3>1. queue[w] \in Seq(Kinds)
      BY DEF TypeOK
    <3>2. Head(queue[w]) = queue[w][1] /\ Len(queue[w]) \in Nat \ {0}
      BY <2>1, <3>1, TailFacts
    <3> QED
      BY <3>2 DEF JobsFit
  <2>3. /\ "none" \notin {m.kind : m \in Completions} /\ "none" \notin UploadKinds
    BY CompletionFacts, KindFacts
  <2> QED
    BY <1>0, <2>1, <2>2, <2>3 DEF JobsFit
<1>3. ASSUME NEW w \in Lanes, OnTransferEvent(w)
      PROVE  /\ \A l \in Lanes : work'[l] # "none" => LaneOf(work'[l]) = l
             /\ \A l \in Lanes : answer'[l] # Idle =>
                  answer'[l] = answer[l] /\ work'[l] = work[l]
             /\ hashed' = hashed
             /\ hashed # Nothing => work'[1] = work[1] /\ answer'[1] = Idle
  <2>1. /\ answer[w] # Idle /\ hashed' = hashed
        /\ answer'[w] = Idle /\ work'[w] = "none"
        /\ \A l \in Lanes : l # w => work'[l] = work[l] /\ answer'[l] = answer[l]
    BY <1>0, <1>3 DEF OnTransferEvent
  <2> QED
    BY <1>0, <2>1 DEF JobsFit
<1>4. CASE SomeHash
  <2>1. work[1] \in UploadKinds /\ answer[1] = Idle /\ work' = work /\ answer' = answer
    BY <1>4, KindFacts DEF SomeHash, HashFile, Executing
  <2> QED
    BY <2>1 DEF JobsFit
<1>5. ASSUME NEW k \in Kinds,
             Fail(k) \/ DownloadObject(k) \/ (k = "Head" /\ HeadObject)
               \/ PutObject(k)
      PROVE  /\ work' = work
             /\ \A l \in Lanes : answer'[l] # Idle =>
                  answer'[l] \in Completions /\ answer'[l].kind = work[l]
             /\ hashed' # Nothing => work[1] \in UploadKinds /\ answer'[1] = Idle
  <2>1. /\ work' = work /\ LaneOf(k) \in Lanes /\ work[LaneOf(k)] = k
        /\ answer[LaneOf(k)] = Idle
        /\ hashed' \in {hashed, Nothing}
    BY <1>5, KindFacts DEF Fail, DownloadObject, HeadObject, SomePut,
      PutObject, Executing
  <2>2. CASE answer' = answer
    BY <2>1, <2>2 DEF JobsFit
  <2>3. CASE answer' # answer
    <3>1. PICK a \in Completions :
            /\ a.kind = k
            /\ \A l \in Lanes : answer'[l] = IF l = LaneOf(k) THEN a ELSE answer[l]
      BY <1>5, <2>3, JobAnswers
    <3>2. k \in UploadKinds => hashed' = Nothing
      BY <1>5, <2>3 DEF Fail, DownloadObject, PutObject, UploadKinds
    <3>3. k \notin UploadKinds /\ hashed' # Nothing => LaneOf(k) # 1
      BY <2>1 DEF JobsFit
    <3> QED
      BY <1>0, <2>1, <3>1, <3>2, <3>3, KindFacts DEF JobsFit
  <2> QED
    BY <2>2, <2>3
<1>6. CASE Restart
  BY <1>0, <1>6 DEF Restart
<1>7. CASE HandleCompletion
  BY <1>1, <1>7, CompletionStep
<1>8. CASE \/ HandleFileSaved \/ OpenObject \/ CmdUploadCurrent \/ CmdShowPanel
           \/ DeleteProfile \/ AnswerDialog \/ ForeignWrite \/ UNCHANGED vars
  BY <1>1, <1>8 DEF HandleFileSaved, OpenObject, CmdUploadCurrent,
    DeleteProfile, UserAsks, CmdShowPanel, AnswerDialog,
    ChooseOverwrite, ChooseDownloadRemote, ChooseCancel, CloseDialog,
    ForeignWrite, vars, hostVars, dueVars, jobVars
<1> QED
  BY <1>2, <1>3, <1>4, <1>5, <1>6, <1>7, <1>8, StepCases DEF Silent, JobsFit

-----------------------------------------------------------------------------
(* Where the save is *)

\* What the step leaves of none, or of one save, at a place.
Keeps(p) == (NoneAt(p) => NoneAt(p)') /\ (OneAt(p) => OneAt(p)')

LEMMA PlaceFacts ==
  ASSUME NEW p \in Places
  PROVE  ~(OneAt(p) /\ NoneAt(p))
BY DEF Places, OneAt, NoneAt, OneIn, NoneIn

LEMMA KeepsFacts ==
  /\ queue'[0] = queue[0] => Keeps("queue0")
  /\ queue'[1] = queue[1] => Keeps("queue1")
  /\ work'[0] = work[0] => Keeps("work0")
  /\ work'[1] = work[1] => Keeps("work1")
  /\ inbox' = inbox => Keeps("inbox")
  /\ dialog' = dialog => Keeps("dialog")
BY DEF Keeps, NoneAt, OneAt

\* A save found at a place is the only one, and the state knows of it.
LEMMA SaveAt ==
  ASSUME SaveIsSomewhere, NEW p \in Places, ~NoneAt(p)
  PROVE  inFlight /\ ~missed /\ OneAt(p) /\ \A q \in Places \ {p} : NoneAt(q)
<1>1. inFlight /\ ~missed
  BY DEF SaveIsSomewhere, NoSave
<1>2. PICK q \in Places : OnlyAt(q)
  BY <1>1 DEF SaveIsSomewhere
<1>3. p = q
  BY <1>2 DEF OnlyAt
<1> QED
  BY <1>1, <1>2, <1>3 DEF OnlyAt

LEMMA NoSaveIsNoSave ==
  ASSUME SaveIsSomewhere, ~inFlight \/ missed
  PROVE  \A q \in Places : NoneAt(q)
BY DEF SaveIsSomewhere, NoSave

LEMMA SaveStays ==
  ASSUME SaveIsSomewhere, \A p \in Places : Keeps(p),
         inFlight' = inFlight, missed' = missed
  PROVE  SaveIsSomewhere'
<1>1. CASE inFlight /\ ~missed
  <2>1. PICK p \in Places : OnlyAt(p)
    BY <1>1 DEF SaveIsSomewhere
  <2>2. OneAt(p)' /\ \A q \in Places \ {p} : NoneAt(q)'
    BY <2>1 DEF OnlyAt, Keeps
  <2> QED
    BY <1>1, <2>2 DEF SaveIsSomewhere, OnlyAt
<1>2. CASE ~(inFlight /\ ~missed)
  <2>1. \A q \in Places : NoneAt(q)'
    BY <1>2 DEF SaveIsSomewhere, NoSave, Keeps
  <2> QED
    BY <1>2, <2>1 DEF SaveIsSomewhere, NoSave
<1> QED
  BY <1>1, <1>2

LEMMA SaveGoesTo ==
  ASSUME NEW p \in Places, OneAt(p)', \A q \in Places \ {p} : NoneAt(q)',
         inFlight', ~missed'
  PROVE  SaveIsSomewhere'
BY DEF SaveIsSomewhere, OnlyAt

LEMMA SaveIsOver ==
  ASSUME \A q \in Places : NoneAt(q)', ~inFlight' \/ missed', missed' => inFlight'
  PROVE  SaveIsSomewhere'
BY DEF SaveIsSomewhere, NoSave

\* Entering a job into its queue.
LEMMA EnqueuePlaces ==
  ASSUME TypeOK
  PROVE  /\ EnqueueJob("Open") \/ EnqueueJob("Fetch") \/ EnqueueJob("Manual") =>
              Keeps("queue0") /\ Keeps("queue1")
         /\ EnqueueJob("Head") =>
              /\ Keeps("queue1")
              /\ NoneAt("queue0") => OneAt("queue0")'
         /\ EnqueueJob("Upload") =>
              /\ Keeps("queue0")
              /\ NoneAt("queue1") => OneAt("queue1")'
<1>0. queue[0] \in Seq(Kinds) /\ queue[1] \in Seq(Kinds)
      /\ DOMAIN queue = {0, 1}
  BY QueueTypes DEF TypeOK, Lanes
<1>1. ASSUME NEW k \in {"Open", "Fetch", "Manual"}, EnqueueJob(k)
      PROVE  Keeps("queue0") /\ Keeps("queue1")
  <2>1. queue'[0] = queue[0] /\ queue'[1] = Append(queue[1], k)
    BY <1>0, <1>1 DEF EnqueueJob, LaneOf
  <2>2. k \in Kinds /\ k \notin SaveKinds
    BY DEF Kinds, SaveKinds
  <2>3. Keeps("queue1")
    BY <1>0, <2>1, <2>2, AppendNone, AppendOne DEF Keeps, NoneAt, OneAt
  <2> QED
    BY <2>1, <2>3, KeepsFacts
<1>2. ASSUME EnqueueJob("Head")
      PROVE  Keeps("queue1") /\ (NoneAt("queue0") => OneAt("queue0")')
  <2>1. queue'[1] = queue[1] /\ queue'[0] = Append(queue[0], "Head")
    BY <1>0, <1>2 DEF EnqueueJob, LaneOf
  <2>2. "Head" \in Kinds /\ "Head" \in SaveKinds
    BY DEF Kinds, SaveKinds
  <2>3. NoneAt("queue0") => OneAt("queue0")'
    BY <1>0, <2>1, <2>2, AppendNone DEF NoneAt, OneAt
  <2> QED
    BY <2>1, <2>3, KeepsFacts
<1>3. ASSUME EnqueueJob("Upload")
      PROVE  Keeps("queue0") /\ (NoneAt("queue1") => OneAt("queue1")')
  <2>1. queue'[0] = queue[0] /\ queue'[1] = Append(queue[1], "Upload")
    BY <1>0, <1>3 DEF EnqueueJob, LaneOf
  <2>2. "Upload" \in Kinds /\ "Upload" \in SaveKinds
    BY DEF Kinds, SaveKinds
  <2>3. NoneAt("queue1") => OneAt("queue1")'
    BY <1>0, <2>1, <2>2, AppendNone DEF NoneAt, OneAt
  <2> QED
    BY <2>1, <2>3, KeepsFacts
<1> QED
  BY <1>1, <1>2, <1>3

\* When no save is left, FinishSave, or StartSaveUpload, makes one or none.
LEMMA StartPlaces ==
  ASSUME TypeOK, NEW d, StartSaveUpload(d),
         NoneAt("queue0"), NoneAt("queue1"),
         \A p \in {"work0", "work1", "inbox", "dialog"} : NoneAt(p)',
         ~missed'
  PROVE  SaveIsSomewhere'
<1>1. CASE EnqueueJob("Head") /\ inFlight'
  <2>1. OneAt("queue0")' /\ NoneAt("queue1")'
    BY <1>1, EnqueuePlaces DEF Keeps
  <2>2. \A q \in Places \ {"queue0"} : NoneAt(q)'
    BY <2>1 DEF Places
  <2>3. "queue0" \in Places
    BY DEF Places
  <2> QED
    BY <1>1, <2>1, <2>2, <2>3, SaveGoesTo
<1>2. CASE ~inFlight' /\ queue' = queue
  <2>1. NoneAt("queue0")' /\ NoneAt("queue1")'
    BY <1>2, KeepsFacts DEF Keeps
  <2>2. \A q \in Places : NoneAt(q)'
    BY <2>1 DEF Places
  <2> QED
    BY <1>2, <2>2, SaveIsOver
<1> QED
  BY <1>1, <1>2 DEF StartSaveUpload

LEMMA FinishPlaces ==
  ASSUME TypeOK, NEW r, NEW d, FinishSave(r, d),
         NoneAt("queue0"), NoneAt("queue1"),
         \A p \in {"work0", "work1", "inbox", "dialog"} : NoneAt(p)',
         ~missed'
  PROVE  SaveIsSomewhere'
<1>1. CASE StartSaveUpload(d)
  BY <1>1, StartPlaces
<1>2. CASE ~inFlight' /\ queue' = queue
  <2>1. NoneAt("queue0")' /\ NoneAt("queue1")'
    BY <1>2, KeepsFacts DEF Keeps
  <2>2. \A q \in Places : NoneAt(q)'
    BY <2>1 DEF Places
  <2> QED
    BY <1>2, <2>2, SaveIsOver
<1> QED
  BY <1>1, <1>2 DEF FinishSave

\* Going on with an upload.
LEMMA UploadPlaces ==
  ASSUME TypeOK, EnqueueJob("Upload"), inFlight',
         NoneAt("queue0"), NoneAt("queue1"),
         \A p \in {"work0", "work1", "inbox", "dialog"} : NoneAt(p)',
         ~missed'
  PROVE  SaveIsSomewhere'
<1>1. OneAt("queue1")' /\ NoneAt("queue0")'
  BY EnqueuePlaces DEF Keeps
<1>2. \A q \in Places \ {"queue1"} : NoneAt(q)'
  BY <1>1 DEF Places
<1>3. "queue1" \in Places
  BY DEF Places
<1> QED
  BY <1>1, <1>2, <1>3, SaveGoesTo

\* A worker takes a job: the save goes along if the job is one.
LEMMA TakePlaces ==
  ASSUME TypeOK, SaveIsSomewhere, NEW l \in Lanes, Take(l)
  PROVE  SaveIsSomewhere'
<1> PICK from \in Places, to \in Places :
      \/ l = 0 /\ from = "queue0" /\ to = "work0"
      \/ l = 1 /\ from = "queue1" /\ to = "work1"
  BY DEF Lanes, Places
<1>0. /\ l = 0 \/ l = 1
      /\ DOMAIN queue = {0, 1} /\ DOMAIN work = {0, 1}
      /\ queue[l] \in Seq(Kinds) /\ queue[l] # << >> /\ work[l] = "none"
  BY DEF TypeOK, Take, Lanes
<1>1. /\ queue'[l] = Tail(queue[l]) /\ work'[l] = Head(queue[l])
      /\ \A w \in {0, 1} : w # l => queue'[w] = queue[w] /\ work'[w] = work[w]
      /\ inbox' = inbox /\ dialog' = dialog
      /\ inFlight' = inFlight /\ missed' = missed
  BY <1>0 DEF Take, hostVars, dueVars, dialogVars, saveVars
<1>2. \A p \in Places \ {from, to} : Keeps(p)
  <2>1. CASE l = 0
    BY <1>1, <2>1, KeepsFacts DEF Places
  <2>2. CASE l = 1
    BY <1>1, <2>2, KeepsFacts DEF Places
  <2> QED
    BY <1>0, <2>1, <2>2
<1>3. CASE Head(queue[l]) \notin SaveKinds
  <2>1. Keeps(from)
    BY <1>0, <1>1, <1>3, TailNone DEF Keeps, NoneAt, OneAt
  <2>2. Keeps(to)
    BY <1>0, <1>1, <1>3 DEF Keeps, NoneAt, OneAt, SaveKinds
  <2> QED
    BY <1>1, <1>2, <2>1, <2>2, SaveStays
<1>4. CASE Head(queue[l]) \in SaveKinds
  <2>1. ~NoneIn(queue[l], SaveKinds)
    BY <1>0, <1>4, TailNone
  <2>2. ~NoneAt(from)
    BY <1>0, <2>1 DEF NoneAt
  <2>3. /\ inFlight /\ ~missed /\ OneAt(from)
        /\ \A q \in Places \ {from} : NoneAt(q)
    BY <1>0, <2>2, SaveAt
  <2>4. OneIn(queue[l], SaveKinds)
    BY <1>0, <2>3 DEF OneAt
  <2>5. NoneIn(queue'[l], SaveKinds)
    BY <1>0, <1>1, <1>4, <2>4, TailNone
  <2>6. NoneAt(from)'
    BY <1>0, <2>5 DEF NoneAt
  <2>7. OneAt(to)'
    BY <1>0, <1>1, <1>4 DEF OneAt
  <2>8. \A q \in Places \ {to} : NoneAt(q)'
    BY <1>0, <1>2, <2>3, <2>6 DEF Keeps
  <2> QED
    BY <1>0, <1>1, <2>3, <2>7, <2>8, SaveGoesTo
<1> QED
  BY <1>3, <1>4

\* A job is finished: its completion goes to the inbox or nowhere.
LEMMA FinishedPlaces ==
  ASSUME TypeOK, JobsFit, SaveIsSomewhere, NEW l \in Lanes, OnTransferEvent(l)
  PROVE  SaveIsSomewhere'
<1> DEFINE m == answer[l]
<1> PICK from \in Places :
      \/ l = 0 /\ from = "work0"
      \/ l = 1 /\ from = "work1"
  BY DEF Lanes, Places
<1>0. /\ l = 0 \/ l = 1
      /\ DOMAIN work = {0, 1} /\ inbox \in Seq(Completions)
      /\ "inbox" \in Places
      /\ m \in Completions /\ m.kind = work[l]
      /\ m \in SaveCompletions <=> work[l] \in SaveKinds
  BY DEF TypeOK, OnTransferEvent, Lanes, Places, JobsFit, SaveCompletions
<1>1. /\ work'[l] = "none" /\ "none" \notin SaveKinds
      /\ \A w \in {0, 1} : w # l => work'[w] = work[w]
      /\ queue' = queue /\ dialog' = dialog /\ inFlight' = inFlight
      /\ \/ inbox' = Append(inbox, m) /\ missed' = missed
         \/ inbox' = inbox /\ missed' = (missed \/ m.kind \in SaveKinds)
  BY <1>0 DEF OnTransferEvent, hostVars, dueVars, dialogVars, saveVars, SaveKinds
<1>2. \A p \in Places \ {from, "inbox"} : Keeps(p)
  <2>1. CASE l = 0
    BY <1>1, <2>1, KeepsFacts DEF Places
  <2>2. CASE l = 1
    BY <1>1, <2>2, KeepsFacts DEF Places
  <2> QED
    BY <1>0, <2>1, <2>2
<1>3. NoneAt(from)'
  BY <1>0, <1>1 DEF NoneAt
<1>4. CASE work[l] \notin SaveKinds
  <2>1. Keeps(from)
    BY <1>0, <1>3, <1>4 DEF Keeps, OneAt
  <2>2. Keeps("inbox")
    <3>1. CASE inbox' = inbox
      BY <3>1, KeepsFacts
    <3>2. CASE inbox' = Append(inbox, m)
      BY <1>0, <1>4, <3>2, AppendNone, AppendOne DEF Keeps, NoneAt, OneAt
    <3> QED
      BY <1>1, <3>1, <3>2
  <2>3. missed' = missed
    BY <1>0, <1>1, <1>4 DEF TypeOK
  <2> QED
    BY <1>1, <1>2, <2>1, <2>2, <2>3, SaveStays
<1>5. CASE work[l] \in SaveKinds
  <2>1. ~NoneAt(from)
    BY <1>0, <1>5 DEF NoneAt
  <2>2. /\ inFlight /\ ~missed
        /\ \A q \in Places \ {from} : NoneAt(q)
    BY <1>0, <2>1, SaveAt
  <2>3. \A q \in Places \ {"inbox"} : NoneAt(q)'
    BY <1>0, <1>2, <1>3, <2>2 DEF Keeps
  <2>4. NoneIn(inbox, SaveCompletions)
    BY <1>0, <2>2 DEF NoneAt
  <2>5. CASE inbox' = Append(inbox, m) /\ missed' = missed
    <3>1. OneIn(inbox', SaveCompletions)
      BY <1>0, <1>5, <2>4, <2>5, AppendNone
    <3>2. OneAt("inbox")'
      BY <3>1 DEF OneAt
    <3> QED
      BY <1>0, <1>1, <2>2, <2>3, <2>5, <3>2, SaveGoesTo
  <2>6. CASE inbox' = inbox /\ missed' = (missed \/ m.kind \in SaveKinds)
    <3>1. NoneAt("inbox")'
      BY <2>4, <2>6 DEF NoneAt
    <3>2. missed' /\ inFlight'
      BY <1>0, <1>1, <1>5, <2>2, <2>6
    <3> QED
      BY <2>3, <3>1, <3>2, SaveIsOver
  <2> QED
    BY <1>1, <2>5, <2>6
<1> QED
  BY <1>4, <1>5

\* The completion of a save is dispatched: no save is left but what the
\* handler makes.
LEMMA DispatchPlaces ==
  ASSUME TypeOK, SaveIsSomewhere, NEW k, Dispatch(k)
  PROVE  /\ k \notin SaveKinds => Keeps("inbox")
         /\ k \in SaveKinds =>
              /\ inFlight /\ ~missed /\ ~missed'
              /\ NoneAt("queue0") /\ NoneAt("queue1")
              /\ NoneAt("work0")' /\ NoneAt("work1")' /\ NoneAt("inbox")'
              /\ dialog = "none"
<1>0. /\ inbox \in Seq(Completions) /\ inbox # << >> /\ inbox' = Tail(inbox)
      /\ Head(inbox) \in Completions /\ Head(inbox).kind = k
      /\ Head(inbox) \in SaveCompletions <=> k \in SaveKinds
      /\ work' = work /\ missed' = missed
  BY TailFacts DEF TypeOK, Dispatch, SaveCompletions
<1>1. k \notin SaveKinds => Keeps("inbox")
  BY <1>0, TailNone DEF Keeps, NoneAt, OneAt
<1>2. ASSUME k \in SaveKinds
      PROVE  /\ inFlight /\ ~missed /\ ~missed'
             /\ NoneAt("queue0") /\ NoneAt("queue1")
             /\ NoneAt("work0")' /\ NoneAt("work1")' /\ NoneAt("inbox")'
             /\ dialog = "none"
  <2>1. ~NoneIn(inbox, SaveCompletions)
    BY <1>0, <1>2, TailNone
  <2>2. ~NoneAt("inbox") /\ "inbox" \in Places
    BY <2>1 DEF NoneAt, Places
  <2>3. /\ inFlight /\ ~missed /\ OneAt("inbox")
        /\ \A q \in Places \ {"inbox"} : NoneAt(q)
    BY <2>2, SaveAt
  <2>4. NoneIn(inbox', SaveCompletions)
    BY <1>0, <1>2, <2>3, TailNone DEF OneAt
  <2>5. /\ NoneAt("queue0") /\ NoneAt("queue1") /\ NoneAt("dialog")
        /\ NoneAt("work0") /\ NoneAt("work1")
    BY <2>3 DEF Places
  <2> QED
    BY <1>0, <2>3, <2>4, <2>5, KeepsFacts DEF NoneAt, Keeps
<1> QED
  BY <1>1, <1>2

\* The handlers that end a save or go on with it.
LEMMA HandlerPlaces ==
  ASSUME TypeOK, SaveIsSomewhere, HandleHead \/ HandleUpload
  PROVE  SaveIsSomewhere'
<1>1. PICK k \in SaveKinds : Dispatch(k)
  BY DEF HandleHead, HandleUpload, SaveKinds
<1>2. /\ inFlight /\ ~missed /\ ~missed'
      /\ NoneAt("queue0") /\ NoneAt("queue1")
      /\ NoneAt("work0")' /\ NoneAt("work1")' /\ NoneAt("inbox")'
      /\ dialog = "none"
  BY <1>1, DispatchPlaces
<1>3. CASE dialog' = dialog
  <2>1. \A p \in {"work0", "work1", "inbox", "dialog"} : NoneAt(p)'
    BY <1>2, <1>3 DEF NoneAt
  <2>2. CASE EnqueueJob("Upload") /\ UNCHANGED saveVars
    BY <1>2, <2>1, <2>2, UploadPlaces DEF hostVars, dueVars, saveVars
  <2>3. ASSUME NEW r, NEW d, FinishSave(r, d)
        PROVE  SaveIsSomewhere'
    BY <1>2, <2>1, <2>3, FinishPlaces
  <2>4. \/ EnqueueJob("Upload") /\ UNCHANGED saveVars
        \/ \E r, d : FinishSave(r, d)
        \/ dialog' # dialog
    BY <1>2 DEF HandleHead, HandleUpload, Proceed
  <2> QED
    BY <1>3, <2>2, <2>3, <2>4
<1>4. CASE dialog' # dialog
  <2>1. queue' = queue /\ inFlight' = inFlight /\ dialog' # "none"
    BY <1>2, <1>4 DEF HandleHead, HandleUpload, hostVars, dueVars, dialogVars,
      saveVars
  <2>2. NoneAt("queue0")' /\ NoneAt("queue1")'
    BY <1>2, <2>1, KeepsFacts DEF Keeps
  <2>3. \A q \in Places \ {"dialog"} : NoneAt(q)'
    BY <1>2, <2>2 DEF Places
  <2>4. OneAt("dialog")' /\ "dialog" \in Places
    BY <2>1 DEF OneAt, Places
  <2> QED
    BY <1>2, <2>1, <2>3, <2>4, SaveGoesTo
<1> QED
  BY <1>3, <1>4

LEMMA DialogPlaces ==
  ASSUME TypeOK, SaveIsSomewhere, AnswerDialog
  PROVE  SaveIsSomewhere'
<1>1. CloseDialog
  BY DEF AnswerDialog, ChooseOverwrite, ChooseDownloadRemote, ChooseCancel
<1>2. /\ dialog # "none" /\ dialog' = "none" /\ work' = work /\ inbox' = inbox
      /\ missed' = missed
  BY <1>1 DEF CloseDialog
<1>3. ~NoneAt("dialog") /\ "dialog" \in Places
  BY <1>2 DEF NoneAt, Places
<1>4. /\ inFlight /\ ~missed
      /\ \A q \in Places \ {"dialog"} : NoneAt(q)
  BY <1>3, SaveAt
<1>5. /\ NoneAt("queue0") /\ NoneAt("queue1")
      /\ NoneAt("work0") /\ NoneAt("work1") /\ NoneAt("inbox")
  BY <1>4 DEF Places
<1>6. \A p \in {"work0", "work1", "inbox", "dialog"} : NoneAt(p)'
  BY <1>2, <1>5 DEF NoneAt
<1>7. CASE EnqueueJob("Upload") /\ UNCHANGED saveVars
  BY <1>2, <1>4, <1>5, <1>6, <1>7, UploadPlaces DEF hostVars, dueVars, saveVars
<1>8. ASSUME NEW d, FinishSave(FALSE, d)
      PROVE  SaveIsSomewhere'
  BY <1>2, <1>4, <1>5, <1>6, <1>8, FinishPlaces
<1>9. CASE EnqueueJob("Fetch") /\ ~inFlight'
  <2>1. NoneAt("queue0")' /\ NoneAt("queue1")'
    BY <1>5, <1>9, EnqueuePlaces DEF Keeps
  <2>2. \A q \in Places : NoneAt(q)'
    BY <1>6, <2>1 DEF Places
  <2> QED
    BY <1>2, <1>4, <1>9, <2>2, SaveIsOver
<1> QED
  BY <1>7, <1>8, <1>9 DEF AnswerDialog, ChooseOverwrite, ChooseDownloadRemote,
                          ChooseCancel

LEMMA SaveStep ==
  ASSUME TypeOK, JobsFit, SaveIsSomewhere, [Next]_vars
  PROVE  SaveIsSomewhere'
<1>1. CASE UNCHANGED <<queue, work, inbox, dialog, inFlight, missed>>
  <2>1. \A p \in Places : Keeps(p)
    BY <1>1, KeepsFacts DEF Places
  <2> QED
    BY <1>1, <2>1, SaveStays
<1>2. CASE HandleFileSaved
  <2>1. work' = work /\ inbox' = inbox /\ dialog' = dialog /\ missed' = missed
    BY <1>2 DEF HandleFileSaved, hostVars, dueVars, dialogVars
  <2>2. CASE inFlight
    BY <1>1, <1>2, <2>1, <2>2 DEF HandleFileSaved
  <2>3. CASE ~inFlight
    <3>1. ~missed /\ \A q \in Places : NoneAt(q)
      BY <2>3, NoSaveIsNoSave DEF SaveIsSomewhere
    <3>2. /\ NoneAt("queue0") /\ NoneAt("queue1") /\ NoneAt("dialog")
          /\ NoneAt("work0") /\ NoneAt("work1") /\ NoneAt("inbox")
      BY <3>1 DEF Places
    <3>3. \A p \in {"work0", "work1", "inbox", "dialog"} : NoneAt(p)'
      BY <2>1, <3>2 DEF NoneAt
    <3>4. StartSaveUpload(latest + 1)
      BY <1>2, <2>3 DEF HandleFileSaved
    <3> QED
      BY <2>1, <3>1, <3>2, <3>3, <3>4, StartPlaces
  <2> QED
    BY <2>2, <2>3
<1>3. CASE OpenObject \/ CmdUploadCurrent
  <2>1. /\ EnqueueJob("Open") \/ EnqueueJob("Manual")
        /\ work' = work /\ inbox' = inbox
        /\ dialog' = dialog /\ inFlight' = inFlight /\ missed' = missed
    BY <1>3 DEF OpenObject, CmdUploadCurrent, DeleteProfile, UserAsks,
      hostVars, dueVars, saveVars, dialogVars
  <2>2. \A p \in Places : Keeps(p)
    BY <2>1, KeepsFacts, EnqueuePlaces DEF Places
  <2> QED
    BY <2>1, <2>2, SaveStays
<1>4. ASSUME NEW k \in {"Open", "Fetch", "Manual"},
             RecordDownload(k) \/ (k = "Manual" /\ HandleUploadManual)
      PROVE  SaveIsSomewhere'
  <2>1. /\ Dispatch(k) /\ k \notin SaveKinds /\ queue' = queue /\ work' = work
        /\ dialog' = dialog /\ inFlight' = inFlight /\ missed' = missed
    BY <1>4 DEF RecordDownload, HandleUploadManual, Dispatch, saveVars,
      dialogVars, SaveKinds
  <2>2. \A p \in Places : Keeps(p)
    BY <2>1, KeepsFacts, DispatchPlaces DEF Places
  <2> QED
    BY <2>1, <2>2, SaveStays
<1>5. CASE Restart
  <2>1. /\ queue'[0] = << >> /\ queue'[1] = << >>
        /\ work'[0] = "none" /\ work'[1] = "none"
        /\ inbox' = << >> /\ dialog' = "none" /\ ~inFlight' /\ ~missed'
    BY <1>5 DEF Restart, Lanes
  <2>2. \A q \in Places : NoneAt(q)'
    BY <2>1, EmptyNone DEF NoneAt, SaveKinds
  <2> QED
    BY <2>1, <2>2, SaveIsOver
<1>6. CASE \/ CmdShowPanel \/ DeleteProfile \/ ForeignWrite \/ SomeHash
           \/ UNCHANGED vars
  BY <1>1, <1>6 DEF CmdShowPanel, DeleteProfile, ForeignWrite, SomeHash,
    HashFile, vars, hostVars, dueVars, jobVars,
    saveVars, dialogVars
<1>7. ASSUME NEW k, Fail(k) \/ DownloadObject(k) \/ HeadObject \/ PutObject(k)
      PROVE  SaveIsSomewhere'
  BY <1>1, <1>7 DEF Fail, DownloadObject, HeadObject, SomePut, PutObject,
    hostVars, dueVars, saveVars,
    dialogVars
<1>8. CASE HandleCompletion
  BY <1>4, <1>8, HandlerPlaces DEF HandleCompletion, HandleDownloadOpen,
    HandleConflictDownload, HandleUploadManual
<1> QED
  BY <1>2, <1>3, <1>5, <1>6, <1>7, <1>8, TakePlaces, FinishedPlaces,
     DialogPlaces, StepCases DEF Silent

-----------------------------------------------------------------------------
(* The saves under way *)

LEMMA SaveMembers ==
  ASSUME TypeOK
  PROVE  \A x : x \in SavesUnderWay <=>
    \/ \E l \in Lanes : \E i \in 1 .. Len(queue[l]) :
         queue[l][i] \in SaveKinds /\ x = <<"queue", l, i>>
    \/ \E l \in Lanes : work[l] \in SaveKinds /\ x = <<"work", l, 0>>
    \/ \E i \in 1 .. Len(inbox) :
         inbox[i] \in SaveCompletions /\ x = <<"inbox", 0, i>>
    \/ dialog # "none" /\ x = <<"dialog", 0, 0>>
<1>1. \A i \in 1 .. Len(inbox) : inbox[i] \in SaveCompletions <=> inbox[i].kind \in SaveKinds
  BY DEF TypeOK, SaveCompletions
<1> DEFINE Q(l) == {<<"queue", l, i>> : i \in {j \in 1 .. Len(queue[l]) :
                                               queue[l][j] \in SaveKinds}}
           W == {<<"work", l, 0>> : l \in {m \in Lanes : work[m] \in SaveKinds}}
           I == {<<"inbox", 0, i>> : i \in {j \in 1 .. Len(inbox) :
                                             inbox[j].kind \in SaveKinds}}
           D == IF dialog = "none" THEN {} ELSE {<<"dialog", 0, 0>>}
<1>2. SavesUnderWay = (UNION {Q(l) : l \in Lanes}) \cup W \cup I \cup D
  BY DEF SavesUnderWay, JobsUnderWay
<1> SUFFICES ASSUME NEW x
             PROVE  x \in SavesUnderWay <=>
    \/ \E l \in Lanes : \E i \in 1 .. Len(queue[l]) :
         queue[l][i] \in SaveKinds /\ x = <<"queue", l, i>>
    \/ \E l \in Lanes : work[l] \in SaveKinds /\ x = <<"work", l, 0>>
    \/ \E i \in 1 .. Len(inbox) :
         inbox[i] \in SaveCompletions /\ x = <<"inbox", 0, i>>
    \/ dialog # "none" /\ x = <<"dialog", 0, 0>>
  OBVIOUS
<1>3. \A l \in Lanes : x \in Q(l) <=>
        \E i \in 1 .. Len(queue[l]) :
          queue[l][i] \in SaveKinds /\ x = <<"queue", l, i>>
  OBVIOUS
<1>4. x \in W <=> \E l \in Lanes : work[l] \in SaveKinds /\ x = <<"work", l, 0>>
  OBVIOUS
<1>5. x \in I <=> \E i \in 1 .. Len(inbox) :
                    inbox[i] \in SaveCompletions /\ x = <<"inbox", 0, i>>
  BY <1>1
<1>6. x \in D <=> dialog # "none" /\ x = <<"dialog", 0, 0>>
  OBVIOUS
<1> HIDE DEF Q, W, I, D
<1>7. x \in UNION {Q(l) : l \in Lanes} <=> \E l \in Lanes : x \in Q(l)
  OBVIOUS
<1> QED
  BY <1>2, <1>3, <1>4, <1>5, <1>6, <1>7

LEMMA NoSaveIsEmpty ==
  ASSUME TypeOK, NoSave
  PROVE  SavesUnderWay = {}
<1>1. \A l \in Lanes : NoneIn(queue[l], SaveKinds) /\ work[l] \notin SaveKinds
  BY DEF NoSave, NoneAt, Places, Lanes
<1>2. NoneIn(inbox, SaveCompletions) /\ dialog = "none"
  BY DEF NoSave, NoneAt, Places
<1>3. \A x : x \notin SavesUnderWay
  BY <1>1, <1>2, SaveMembers DEF NoneIn
<1> QED
  BY <1>3

LEMMA OnlyIsSingle ==
  ASSUME TypeOK, NEW p \in Places, OnlyAt(p)
  PROVE  \E x : SavesUnderWay = {x}
<1>0. Lanes = {0, 1}
  BY DEF Lanes
<1>a. /\ p # "queue0" => NoneIn(queue[0], SaveKinds)
      /\ p # "queue1" => NoneIn(queue[1], SaveKinds)
      /\ p # "work0" => work[0] \notin SaveKinds
      /\ p # "work1" => work[1] \notin SaveKinds
      /\ p # "inbox" => NoneIn(inbox, SaveCompletions)
      /\ p # "dialog" => dialog = "none"
  BY DEF OnlyAt, NoneAt, Places
<1>b. OneAt(p)
  BY DEF OnlyAt
<1>1. ASSUME NEW l \in Lanes, OneIn(queue[l], SaveKinds),
             p \in {"queue0", "queue1"},
             \A m \in Lanes : m # l => NoneIn(queue[m], SaveKinds)
      PROVE  \E x : SavesUnderWay = {x}
  <2>1. PICK i \in 1 .. Len(queue[l]) :
          /\ queue[l][i] \in SaveKinds
          /\ \A j \in 1 .. Len(queue[l]) : j # i => queue[l][j] \notin SaveKinds
    BY <1>1 DEF OneIn
  <2>2. /\ \A m \in Lanes : work[m] \notin SaveKinds
        /\ NoneIn(inbox, SaveCompletions) /\ dialog = "none"
    BY <1>0, <1>a, <1>1
  <2>3. \A x : x \in SavesUnderWay => x = <<"queue", l, i>>
    <3> SUFFICES ASSUME NEW x, x \in SavesUnderWay PROVE x = <<"queue", l, i>>
      OBVIOUS
    <3>1. \/ \E m \in Lanes : \E j \in 1 .. Len(queue[m]) :
               queue[m][j] \in SaveKinds /\ x = <<"queue", m, j>>
          \/ \E m \in Lanes : work[m] \in SaveKinds /\ x = <<"work", m, 0>>
          \/ \E j \in 1 .. Len(inbox) :
               inbox[j] \in SaveCompletions /\ x = <<"inbox", 0, j>>
          \/ dialog # "none" /\ x = <<"dialog", 0, 0>>
      BY SaveMembers
    <3> QED
      BY <1>1, <2>1, <2>2, <3>1 DEF NoneIn
  <2>4. <<"queue", l, i>> \in SavesUnderWay
    BY <1>1, <2>1, <2>2, SaveMembers
  <2>5. SavesUnderWay = {<<"queue", l, i>>}
    BY <2>3, <2>4
  <2> QED
    BY <2>5
<1>2. CASE p = "queue0"
  BY <1>0, <1>a, <1>b, <1>1, <1>2 DEF OneAt
<1>3. CASE p = "queue1"
  BY <1>0, <1>a, <1>b, <1>1, <1>3 DEF OneAt
<1>4. ASSUME NEW l \in Lanes, work[l] \in SaveKinds, p \in {"work0", "work1"},
             \A m \in Lanes : m # l => work[m] \notin SaveKinds
      PROVE  \E x : SavesUnderWay = {x}
  <2>1. /\ \A m \in Lanes : NoneIn(queue[m], SaveKinds)
        /\ NoneIn(inbox, SaveCompletions) /\ dialog = "none"
    BY <1>0, <1>a, <1>4
  <2>2. \A x : x \in SavesUnderWay => x = <<"work", l, 0>>
    <3> SUFFICES ASSUME NEW x, x \in SavesUnderWay PROVE x = <<"work", l, 0>>
      OBVIOUS
    <3>1. \/ \E m \in Lanes : \E j \in 1 .. Len(queue[m]) :
               queue[m][j] \in SaveKinds /\ x = <<"queue", m, j>>
          \/ \E m \in Lanes : work[m] \in SaveKinds /\ x = <<"work", m, 0>>
          \/ \E j \in 1 .. Len(inbox) :
               inbox[j] \in SaveCompletions /\ x = <<"inbox", 0, j>>
          \/ dialog # "none" /\ x = <<"dialog", 0, 0>>
      BY SaveMembers
    <3> QED
      BY <1>4, <2>1, <3>1 DEF NoneIn
  <2>3. <<"work", l, 0>> \in SavesUnderWay
    BY <1>4, <2>1, SaveMembers
  <2>4. SavesUnderWay = {<<"work", l, 0>>}
    BY <2>2, <2>3
  <2> QED
    BY <2>4
<1>5. CASE p = "work0"
  BY <1>0, <1>a, <1>b, <1>4, <1>5 DEF OneAt
<1>6. CASE p = "work1"
  BY <1>0, <1>a, <1>b, <1>4, <1>6 DEF OneAt
<1>7. CASE p = "inbox"
  <2>1. PICK i \in 1 .. Len(inbox) :
          /\ inbox[i] \in SaveCompletions
          /\ \A j \in 1 .. Len(inbox) : j # i => inbox[j] \notin SaveCompletions
    BY <1>b, <1>7 DEF OneAt, OneIn
  <2>2. /\ \A m \in Lanes : NoneIn(queue[m], SaveKinds) /\ work[m] \notin SaveKinds
        /\ dialog = "none"
    BY <1>0, <1>a, <1>7
  <2>3. \A x : x \in SavesUnderWay => x = <<"inbox", 0, i>>
    <3> SUFFICES ASSUME NEW x, x \in SavesUnderWay PROVE x = <<"inbox", 0, i>>
      OBVIOUS
    <3>1. \/ \E m \in Lanes : \E j \in 1 .. Len(queue[m]) :
               queue[m][j] \in SaveKinds /\ x = <<"queue", m, j>>
          \/ \E m \in Lanes : work[m] \in SaveKinds /\ x = <<"work", m, 0>>
          \/ \E j \in 1 .. Len(inbox) :
               inbox[j] \in SaveCompletions /\ x = <<"inbox", 0, j>>
          \/ dialog # "none" /\ x = <<"dialog", 0, 0>>
      BY SaveMembers
    <3> QED
      BY <2>1, <2>2, <3>1 DEF NoneIn
  <2>4. <<"inbox", 0, i>> \in SavesUnderWay
    BY <2>1, <2>2, SaveMembers
  <2>5. SavesUnderWay = {<<"inbox", 0, i>>}
    BY <2>3, <2>4
  <2> QED
    BY <2>5
<1>8. CASE p = "dialog"
  <2>1. /\ \A m \in Lanes : NoneIn(queue[m], SaveKinds) /\ work[m] \notin SaveKinds
        /\ NoneIn(inbox, SaveCompletions)
    BY <1>0, <1>a, <1>8
  <2>2. dialog # "none"
    BY <1>b, <1>8 DEF OneAt
  <2>3. \A x : x \in SavesUnderWay => x = <<"dialog", 0, 0>>
    <3> SUFFICES ASSUME NEW x, x \in SavesUnderWay PROVE x = <<"dialog", 0, 0>>
      OBVIOUS
    <3>1. \/ \E m \in Lanes : \E j \in 1 .. Len(queue[m]) :
               queue[m][j] \in SaveKinds /\ x = <<"queue", m, j>>
          \/ \E m \in Lanes : work[m] \in SaveKinds /\ x = <<"work", m, 0>>
          \/ \E j \in 1 .. Len(inbox) :
               inbox[j] \in SaveCompletions /\ x = <<"inbox", 0, j>>
          \/ dialog # "none" /\ x = <<"dialog", 0, 0>>
      BY SaveMembers
    <3> QED
      BY <2>1, <2>2, <3>1 DEF NoneIn
  <2>4. <<"dialog", 0, 0>> \in SavesUnderWay
    BY <2>1, <2>2, SaveMembers
  <2>5. SavesUnderWay = {<<"dialog", 0, 0>>}
    BY <2>3, <2>4
  <2> QED
    BY <2>5
<1> QED
  BY <1>2, <1>3, <1>5, <1>6, <1>7, <1>8 DEF Places

\* The saves under way, counted.
LEMMA SavesCounted ==
  ASSUME TypeOK, SaveIsSomewhere
  PROVE  /\ OneSaveAtATime
         /\ inFlight /\ ~missed => SavesUnderWay # {}
<1>1. CASE inFlight /\ ~missed
  <2>1. PICK x : SavesUnderWay = {x}
    BY <1>1, OnlyIsSingle DEF SaveIsSomewhere
  <2> QED
    BY <1>1, <2>1, FS_Singleton DEF OneSaveAtATime
<1>2. CASE ~(inFlight /\ ~missed)
  <2>1. SavesUnderWay = {}
    BY <1>2, NoSaveIsEmpty DEF SaveIsSomewhere
  <2> QED
    BY <1>2, <2>1, FS_EmptySet DEF OneSaveAtATime
<1> QED
  BY <1>1, <1>2

-----------------------------------------------------------------------------
(* What the one save excludes *)

PendingSave(m) == m \in Completions /\ Pending(m) /\ m.kind \in SaveKinds

\* A save that is finished is at the worker that finished it or in the inbox.
LEMMA PendingPlace ==
  ASSUME TypeOK, JobsFit, NEW m, PendingSave(m)
  PROVE  \/ m = answer[0] /\ ~NoneAt("work0")
         \/ m = answer[1] /\ ~NoneAt("work1")
         \/ (\E i \in 1 .. Len(inbox) : m = inbox[i]) /\ ~NoneAt("inbox")
<1>0. Lanes = {0, 1} /\ m # Idle /\ m \in SaveCompletions
  BY IdleFacts DEF Lanes, PendingSave, SaveCompletions
<1>1. CASE m = answer[0]
  BY <1>0, <1>1 DEF JobsFit, NoneAt, PendingSave
<1>2. CASE m = answer[1]
  BY <1>0, <1>2 DEF JobsFit, NoneAt, PendingSave
<1>3. CASE \E i \in 1 .. Len(inbox) : m = inbox[i]
  BY <1>0, <1>3 DEF NoneAt, NoneIn
<1> QED
  BY <1>1, <1>2, <1>3 DEF PendingSave, Pending

\* A save at one place is at no other.
LEMMA PlacesExclude ==
  ASSUME SaveIsSomewhere, NEW p \in Places, NEW q \in Places,
         ~NoneAt(p), ~NoneAt(q)
  PROVE  p = q
BY SaveAt

LEMMA PlaceNames ==
  {"queue0", "queue1", "work0", "work1", "inbox", "dialog"} = Places
BY DEF Places

LEMMA OnePendingSave ==
  ASSUME TypeOK, JobsFit, SaveIsSomewhere,
         NEW m, PendingSave(m), NEW n, PendingSave(n)
  PROVE  m = n
<1>1. CASE NoneAt("inbox")
  BY <1>1, PendingPlace, PlacesExclude, PlaceNames
<1>2. CASE ~NoneAt("inbox")
  <2>1. NoneAt("work0") /\ NoneAt("work1")
    BY <1>2, PlacesExclude, PlaceNames
  <2>2. PICK i \in 1 .. Len(inbox) : m = inbox[i]
    BY <2>1, PendingPlace
  <2>3. PICK j \in 1 .. Len(inbox) : n = inbox[j]
    BY <2>1, PendingPlace
  <2>4. OneIn(inbox, SaveCompletions)
    BY <1>2, SaveAt, PlaceNames DEF OneAt
  <2>5. m \in SaveCompletions /\ n \in SaveCompletions
    BY DEF PendingSave, SaveCompletions
  <2>6. i = j
    BY <2>2, <2>3, <2>4, <2>5 DEF OneIn
  <2> QED
    BY <2>2, <2>3, <2>6
<1> QED
  BY <1>1, <1>2

\* A finished save leaves none to be done and no dialog; nor does any job of
\* a save that has not been answered leave a finished one.
LEMMA PendingExcludes ==
  ASSUME TypeOK, JobsFit, SaveIsSomewhere, NEW m, PendingSave(m)
  PROVE  /\ inFlight /\ ~missed /\ dialog = "none"
         /\ ~UploadWaits /\ ~Executing("Head")
         /\ work[1] = "Upload" => hashed = Nothing
<1>1. inFlight /\ ~missed
  BY PendingPlace, SaveAt, PlaceNames
<1>2. NoneAt("dialog") /\ NoneAt("queue1")
  BY PendingPlace, PlacesExclude, PlaceNames
<1>3. dialog = "none" /\ \A i \in 1 .. Len(queue[1]) : queue[1][i] # "Upload"
  BY <1>2 DEF NoneAt, NoneIn, SaveKinds
<1>4. "Upload" \in SaveKinds /\ "Head" \in SaveKinds /\ LaneOf("Head") = 0 /\ m # Idle
  BY IdleFacts DEF SaveKinds, LaneOf, PendingSave
<1>5. ~(work[1] = "Upload" /\ answer[1] = Idle)
  <2> SUFFICES ASSUME work[1] = "Upload", answer[1] = Idle PROVE FALSE
    OBVIOUS
  <2>1. ~NoneAt("work1")
    BY <1>4 DEF NoneAt
  <2>2. NoneAt("work0") /\ NoneAt("inbox")
    BY <2>1, PlacesExclude, PlaceNames
  <2> QED
    BY <1>4, <2>2, PendingPlace
<1>6. ~(work[0] = "Head" /\ answer[0] = Idle)
  <2> SUFFICES ASSUME work[0] = "Head", answer[0] = Idle PROVE FALSE
    OBVIOUS
  <2>1. ~NoneAt("work0")
    BY <1>4 DEF NoneAt
  <2>2. NoneAt("work1") /\ NoneAt("inbox")
    BY <2>1, PlacesExclude, PlaceNames
  <2> QED
    BY <1>4, <2>2, PendingPlace
<1> QED
  BY <1>1, <1>3, <1>4, <1>5, <1>6 DEF UploadWaits, Executing, JobsFit

LEMMA WaitingExcludes ==
  ASSUME TypeOK, JobsFit, SaveIsSomewhere, UploadWaits
  PROVE  /\ inFlight /\ ~missed /\ dialog = "none" /\ ~Executing("Head")
         /\ \A m : ~PendingSave(m)
         /\ work[1] = "Upload" => NoneAt("queue1")
<1>1. ~NoneAt("queue1") \/ ~NoneAt("work1")
  BY DEF UploadWaits, NoneAt, NoneIn, SaveKinds
<1>2. inFlight /\ ~missed /\ NoneAt("dialog") /\ NoneAt("work0")
  BY <1>1, SaveAt, PlacesExclude, PlaceNames
<1>3. dialog = "none" /\ ~Executing("Head")
  BY <1>2 DEF NoneAt, Executing, LaneOf, SaveKinds
<1>4. work[1] = "Upload" => NoneAt("queue1")
  <2>1. work[1] = "Upload" => ~NoneAt("work1")
    BY DEF NoneAt, SaveKinds
  <2> QED
    BY <2>1, PlacesExclude, PlaceNames
<1> QED
  BY <1>2, <1>3, <1>4, PendingExcludes

LEMMA AskingExcludes ==
  ASSUME TypeOK, JobsFit, SaveIsSomewhere, Executing("Head") \/ dialog # "none"
  PROVE  /\ inFlight /\ ~missed /\ ~UploadWaits
         /\ \A m : ~PendingSave(m)
         /\ Executing("Head") => dialog = "none"
<1>1. Executing("Head") => ~NoneAt("work0")
  BY DEF Executing, LaneOf, NoneAt, SaveKinds
<1>2. dialog # "none" => ~NoneAt("dialog")
  BY DEF NoneAt
<1>3. inFlight /\ ~missed
  BY <1>1, <1>2, SaveAt, PlaceNames
<1>4. Executing("Head") => NoneAt("dialog")
  BY <1>1, PlacesExclude, PlaceNames
<1>5. Executing("Head") => dialog = "none"
  BY <1>4 DEF NoneAt
<1> QED
  BY <1>3, <1>5, PendingExcludes, WaitingExcludes

\* The completion of a save that is dispatched was the only one.
LEMMA DispatchExcludes ==
  ASSUME TypeOK, JobsFit, SaveIsSomewhere, NEW k \in SaveKinds, Dispatch(k)
  PROVE  /\ Head(inbox) \in Completions /\ Head(inbox).kind = k
         /\ PendingSave(Head(inbox))
         /\ inFlight /\ ~missed /\ dialog = "none"
         /\ work[1] = "Upload" => hashed = Nothing
         /\ ~UploadWaits
         /\ \A m : PendingSave(m) => m = Head(inbox)
<1>1. PendingSave(Head(inbox)) /\ Head(inbox).kind = k
  BY HeadIsPending DEF Dispatch, PendingSave
<1> QED
  BY <1>1, PendingExcludes, OnePendingSave DEF PendingSave

\* After it, none is.
LEMMA DispatchLeavesNone ==
  ASSUME TypeOK, JobsFit, SaveIsSomewhere, NEW k \in SaveKinds, Dispatch(k)
  PROVE  \A m \in Completions : m.kind \in SaveKinds => ~Pending(m)'
<1> SUFFICES ASSUME NEW m \in Completions, m.kind \in SaveKinds, Pending(m)'
             PROVE  FALSE
  OBVIOUS
<1>1. /\ NoneAt("work0")' /\ NoneAt("work1")' /\ NoneAt("inbox")'
      /\ work' = work /\ answer' = answer
  BY DispatchPlaces DEF Dispatch
<1>2. /\ work[0] \notin SaveKinds /\ work[1] \notin SaveKinds
      /\ NoneIn(inbox', SaveCompletions)
  BY <1>1 DEF NoneAt
<1>3. m # Idle /\ m \in SaveCompletions /\ Lanes = {0, 1}
  BY IdleFacts DEF SaveCompletions, Lanes
<1>4. m # answer[0] /\ m # answer[1]
  BY <1>2, <1>3 DEF JobsFit
<1> QED
  BY <1>1, <1>2, <1>3, <1>4 DEF Pending, NoneIn

-----------------------------------------------------------------------------
(* The content that is not saved yet *)

LEMMA DueStays ==
  ASSUME TypeOK, DueIsFile, [Next]_vars,
         UNCHANGED <<due, unheard, inFlight, file, again>>,
         hasProfile' => hasProfile,
         hashed' \in {hashed, Nothing} \/ SomeHash, ~SomePut,
         work'[1] = work[1] \/ work'[1] # "Upload" \/ hashed' = Nothing
  PROVE  DueIsFile'
<1>1. \A m \in Completions : Pending(m)' /\ m.kind = "Upload" /\ m.result = "ok"
                               => Pending(m)
  BY PendingStep DEF Answered, SomePut, UploadKinds
<1>2. SomeHash => hashed' = file
  BY DEF SomeHash, HashFile
<1> QED
  BY <1>1, <1>2 DEF DueIsFile

\* Nothing is waited for, or no upload of a save is under way.
LEMMA DueSettled ==
  ASSUME \/ due' = Nothing
         \/ /\ file' = due'
            /\ hasProfile' /\ ~unheard' => inFlight'
            /\ work'[1] = "Upload" => hashed' = Nothing
            /\ \A m \in Completions : m.kind = "Upload" => ~Pending(m)'
  PROVE  DueIsFile'
BY DEF DueIsFile

\* A content whose save starts is waited for, unless it was given up.
LEMMA StartDue ==
  ASSUME NEW d, StartSaveUpload(d), UNCHANGED hostVars
  PROVE  \/ due' = Nothing
         \/ due' = d /\ (hasProfile' /\ ~unheard' => inFlight')
BY DEF StartSaveUpload, hostVars

LEMMA DueStep ==
  ASSUME TypeOK, JobsFit, SaveIsSomewhere, DueIsFile, [Next]_vars
  PROVE  DueIsFile'
<1>0. "Upload" \in SaveKinds /\ "Head" \in SaveKinds /\ Lanes = {0, 1}
  BY DEF SaveKinds, Lanes
<1>1. CASE HandleFileSaved
  <2>1. /\ file' = latest + 1 /\ hashed' = hashed /\ work' = work
        /\ answer' = answer /\ inbox' = inbox /\ UNCHANGED hostVars
    BY <1>1 DEF HandleFileSaved
  <2>2. CASE inFlight
    <3>1. inFlight' /\ again' /\ due' = latest + 1
      BY <1>1, <2>2 DEF HandleFileSaved
    <3> QED
      BY <2>1, <3>1 DEF DueIsFile
  <2>3. CASE ~inFlight
    <3>1. StartSaveUpload(latest + 1)
      BY <1>1, <2>3 DEF HandleFileSaved
    <3>2. ~UploadWaits /\ \A m : ~PendingSave(m)
      BY <2>3, WaitingExcludes, PendingExcludes
    <3>3. work'[1] = "Upload" => hashed' = Nothing
      BY <2>1, <3>2 DEF JobsFit, UploadWaits
    <3>4. \A m \in Completions : m.kind = "Upload" => ~Pending(m)'
      BY <1>0, <2>1, <3>2 DEF Pending, PendingSave
    <3> QED
      BY <2>1, <3>1, <3>3, <3>4, StartDue, DueSettled
  <2> QED
    BY <2>2, <2>3
<1>2. CASE due' = Nothing
  BY <1>2, DueSettled
<1>3. CASE HandleHead
  <2>1. /\ file' = file /\ hashed' = hashed /\ work' = work
        /\ hasProfile' = hasProfile /\ answer' = answer /\ Dispatch("Head")
    BY <1>3 DEF HandleHead, Dispatch, storeVars, hostVars
  <2>2. \/ due' = Nothing
        \/ UNCHANGED <<due, unheard, inFlight, again>>
        \/ ~hasProfile /\ due' = due
    BY <1>3 DEF HandleHead, Proceed, FinishSave, Discarded, dueVars, saveVars
  <2>3. ~SomePut
    BY <2>1, KindFacts DEF SomePut, PutObject, Dispatch, storeVars, dueVars,
      Executing, Answer, TypeOK
  <2>4. CASE ~hasProfile /\ due' = due
    <3>1. work[1] = "Upload" => hashed = Nothing
      BY <1>0, <2>1, DispatchExcludes
    <3>2. \A m \in Completions : m.kind = "Upload" => ~Pending(m)'
      BY <1>0, <2>1, DispatchLeavesNone
    <3> QED
      BY <2>1, <2>4, <3>1, <3>2, DueSettled DEF DueIsFile
  <2> QED
    BY <1>2, <2>1, <2>2, <2>3, <2>4, DueStays
<1>4. CASE HandleUpload
  <2> DEFINE d == IF Head(inbox).result = "ok" \/ again THEN due ELSE Nothing
  <2>1. /\ file' = file /\ hashed' = hashed /\ work' = work /\ Dispatch("Upload")
        /\ FinishSave(TRUE, d) /\ UNCHANGED hostVars
    BY <1>4 DEF HandleUpload, Dispatch, storeVars
  <2>3. /\ work[1] = "Upload" => hashed = Nothing
        /\ Head(inbox) \in Completions
        /\ Head(inbox).kind = "Upload" /\ Pending(Head(inbox))
    BY <1>0, <2>1, DispatchExcludes DEF PendingSave
  <2>4. \A m \in Completions : m.kind = "Upload" => ~Pending(m)'
    BY <1>0, <2>1, DispatchLeavesNone
  <2>5. CASE again
    <3>1. d = due /\ StartSaveUpload(d)
      BY <2>1, <2>5 DEF FinishSave
    <3>2. \/ due' = Nothing
          \/ due' = due /\ (hasProfile' /\ ~unheard' => inFlight')
      BY <2>1, <3>1, StartDue
    <3> QED
      BY <1>2, <2>1, <2>3, <2>4, <3>2, DueSettled DEF DueIsFile
  <2>6. CASE ~again
    <3>1. due' = d
      BY <2>1, <2>6 DEF FinishSave
    <3>2. d = Nothing
      BY <2>3, <2>6 DEF DueIsFile
    <3> QED
      BY <1>2, <3>1, <3>2
  <2> QED
    BY <2>5, <2>6
<1>5. CASE AnswerDialog
  <2>1. /\ file' = file /\ hashed' = hashed /\ work' = work
        /\ answer' = answer /\ inbox' = inbox /\ hasProfile' = hasProfile
        /\ dialog # "none" /\ dialog' = "none"
    BY <1>5 DEF AnswerDialog, ChooseOverwrite, ChooseDownloadRemote,
      ChooseCancel, CloseDialog, storeVars, hostVars
  <2>2. \/ due' = Nothing
        \/ UNCHANGED <<due, unheard, inFlight, again>>
        \/ ~hasProfile /\ due' = due
    BY <1>5 DEF AnswerDialog, ChooseOverwrite, ChooseDownloadRemote,
      ChooseCancel, FinishSave, Discarded, dueVars, saveVars
  <2>3. ~SomePut
    BY <2>1 DEF SomePut, PutObject, dialogVars
  <2>4. CASE ~hasProfile /\ due' = due
    <3>1. ~UploadWaits /\ \A m : ~PendingSave(m)
      BY <2>1, AskingExcludes
    <3>2. work[1] = "Upload" => hashed = Nothing
      BY <1>0, <3>1 DEF JobsFit, UploadWaits
    <3>3. \A m \in Completions : m.kind = "Upload" => ~Pending(m)'
      BY <1>0, <2>1, <3>1 DEF Pending, PendingSave
    <3> QED
      BY <2>1, <2>4, <3>2, <3>3, DueSettled DEF DueIsFile
  <2> QED
    BY <1>2, <2>1, <2>2, <2>3, <2>4, DueStays
<1>6. ASSUME NEW k \in UploadKinds, PutObject(k)
      PROVE  DueIsFile'
  <2>1. /\ hashed # Nothing /\ file' = file /\ work' = work /\ work[1] = k
        /\ due' = IF due = hashed THEN Nothing ELSE due
        /\ inFlight' = inFlight /\ again' = again
        /\ hasProfile' = hasProfile /\ unheard' = unheard
        /\ hashed' \in {hashed, Nothing}
    BY <1>6, KindFacts DEF PutObject, Executing, saveVars, hostVars
  <2>2. CASE k = "Upload"
    <3>1. due' # Nothing => again
      BY <2>1, <2>2 DEF DueIsFile
    <3> QED
      BY <2>1, <3>1 DEF DueIsFile
  <2>3. CASE k = "Manual"
    <3>1. \A m \in Completions :
            Pending(m)' /\ m.kind = "Upload" /\ m.result = "ok" => Pending(m)
      BY <2>1, <2>3, KindFacts, PendingStep
      DEF Answered, PutObject, Executing, DownloadObject
    <3> QED
      BY <2>1, <2>3, <3>1 DEF DueIsFile
  <2> QED
    BY <2>2, <2>3 DEF UploadKinds
<1>7. CASE Restart \/ \E k \in Kinds : DownloadObject(k)
  BY <1>2, <1>7 DEF Restart, DownloadObject
<1>8. CASE \/ \E l \in Lanes : Take(l) \/ OnTransferEvent(l)
           \/ \E k \in Kinds : Fail(k)
           \/ HeadObject \/ SomeHash
  <2>1. /\ UNCHANGED <<due, unheard, inFlight, file, again, hasProfile>>
        /\ hashed' \in {hashed, Nothing} \/ SomeHash
    BY <1>8 DEF Take, OnTransferEvent, Fail, HeadObject, SomeHash, HashFile,
      hostVars, dueVars, storeVars, saveVars
  <2>2. work'[1] = work[1] \/ work'[1] # "Upload" \/ hashed' = Nothing
    <3>1. ASSUME NEW l \in Lanes, Take(l)
          PROVE  work'[1] = work[1] \/ hashed' = Nothing
      <4>1. l = 0 => work'[1] = work[1]
        BY <1>0, <3>1 DEF Take, TypeOK
      <4>2. l = 1 => work[1] = "none" /\ hashed' = hashed
        BY <3>1 DEF Take
      <4>3. work[1] = "none" => hashed = Nothing
        BY KindFacts DEF JobsFit
      <4> QED
        BY <1>0, <4>1, <4>2, <4>3
    <3>2. ASSUME NEW l \in Lanes, OnTransferEvent(l)
          PROVE  work'[1] = work[1] \/ work'[1] # "Upload"
      BY <1>0, <3>2 DEF OnTransferEvent, TypeOK
    <3>3. ASSUME \/ \E k \in Kinds : Fail(k)
                 \/ HeadObject \/ SomeHash
          PROVE  work'[1] = work[1]
      BY <3>3 DEF Fail, HeadObject, SomeHash, HashFile
    <3> QED
      BY <1>8, <3>1, <3>2, <3>3
  <2> QED
    BY <1>6, <2>1, <2>2, DueStays DEF SomePut
<1>9. CASE \/ OpenObject \/ CmdUploadCurrent \/ DeleteProfile \/ CmdShowPanel
           \/ ForeignWrite \/ UNCHANGED vars
           \/ HandleDownloadOpen \/ HandleConflictDownload \/ HandleUploadManual
  <2>1. /\ UNCHANGED <<due, unheard, inFlight, file, again, hashed, work>>
        /\ hasProfile' => hasProfile
    BY <1>9 DEF OpenObject, CmdUploadCurrent, DeleteProfile, UserAsks,
      CmdShowPanel, ForeignWrite, vars, HandleDownloadOpen,
      HandleConflictDownload, HandleUploadManual, RecordDownload, Dispatch,
      hostVars, dueVars, storeVars, saveVars, jobVars
  <2> QED
    BY <1>6, <2>1, DueStays DEF SomePut
<1>10. \A k \in UploadKinds : k \in Kinds
  BY KindFacts
<1> QED
  BY <1>1, <1>3, <1>4, <1>5, <1>6, <1>7, <1>8, <1>9, <1>10, StepCases
  DEF Silent, HandleCompletion, PutObject

-----------------------------------------------------------------------------
(* Contents and ETags *)

\* Where the contents of a step come from.
LEMMA ContentSources ==
  ASSUME TypeOK, [Next]_vars
  PROVE  /\ latest \in Nat /\ latest' \in Nat /\ latest <= latest'
         /\ remote' \in {remote, file, latest', Absent}
         /\ file' \in {file, remote, latest'}
         /\ etag' \in {etag, etagDisk, Head(inbox).tag}
         /\ etagDisk' \in {etag, etagDisk, Head(inbox).tag}
         /\ \/ inbox # << >>
            \/ etag' \in {etag, etagDisk} /\ etagDisk' \in {etag, etagDisk}
<1>0. latest \in Nat
  BY DEF TypeOK, Contents
<1>1. CASE HandleFileSaved \/ ForeignWrite
  BY <1>0, <1>1 DEF HandleFileSaved, ForeignWrite, hostVars, dueVars, docVars
<1>2. CASE HandleCompletion
  <2>1. remote' = remote /\ file' = file /\ latest' = latest /\ inbox # << >>
    BY <1>2, CompletionStep
  <2>2. /\ etag' \in {etag, Head(inbox).tag}
        /\ etagDisk' \in {etagDisk, Head(inbox).tag}
    BY <1>2 DEF HandleCompletion, HandleHead, HandleUpload,
      HandleDownloadOpen, HandleConflictDownload, HandleUploadManual,
      RecordDownload, RecordETag,
      hostVars, dueVars, docVars
  <2> QED
    BY <1>0, <2>1, <2>2
<1>3. CASE Restart
  BY <1>0, <1>3 DEF Restart, hostVars, dueVars, storeVars
<1>4. CASE \/ OpenObject \/ CmdUploadCurrent \/ DeleteProfile \/ CmdShowPanel \/ AnswerDialog
           \/ SomeHash \/ UNCHANGED vars \/ \E l \in Lanes : Take(l) \/ OnTransferEvent(l)
  <2>1. UNCHANGED <<storeVars, docVars>>
    BY <1>4 DEF OpenObject, CmdUploadCurrent, DeleteProfile, UserAsks,
      CmdShowPanel, AnswerDialog, ChooseOverwrite,
      ChooseDownloadRemote, ChooseCancel, CloseDialog, SomeHash, HashFile, Take,
      OnTransferEvent, vars
  <2> QED
    BY <1>0, <2>1 DEF hostVars, dueVars, storeVars, docVars
<1>5. ASSUME NEW k, Fail(k) \/ DownloadObject(k) \/ HeadObject \/ PutObject(k)
      PROVE  /\ latest' = latest
             /\ remote' \in {remote, file} /\ file' \in {file, remote}
             /\ etag' = etag /\ etagDisk' = etagDisk
  BY <1>5 DEF Fail, DownloadObject, HeadObject, SomePut, PutObject, hostVars,
    dueVars, storeVars, docVars
<1> QED
  BY <1>0, <1>1, <1>2, <1>3, <1>4, <1>5, StepCases DEF Silent

LEMMA ContentsStep ==
  ASSUME TypeOK, PendingFits, ContentsUsed, [Next]_vars
  PROVE  ContentsUsed'
<1>0. /\ latest \in Nat /\ latest' \in Nat /\ latest <= latest'
      /\ remote \in Nat /\ file \in Nat /\ etag \in Nat /\ etagDisk \in Nat
      /\ remote <= latest /\ file <= latest /\ etag <= latest
      /\ etagDisk <= latest /\ Absent <= latest'
  BY ContentSources DEF ContentsUsed, Used, TypeOK, Contents, Absent
<1>1. /\ remote' <= latest' /\ file' <= latest'
  BY <1>0, ContentSources
<1>2. etag' <= latest' /\ etagDisk' <= latest'
  <2>1. CASE etag' \in {etag, etagDisk} /\ etagDisk' \in {etag, etagDisk}
    BY <1>0, <2>1
  <2>2. CASE inbox # << >>
    <3>1. Head(inbox).tag \in Nat /\ Head(inbox).tag <= latest
      BY <2>2, HeadIsPending, CompletionFacts
      DEF ContentsUsed, Used, Contents, Nothing
    <3> QED
      BY <1>0, <3>1, ContentSources
  <2> QED
    BY <2>1, <2>2, ContentSources
<1>3. ASSUME NEW m \in Completions, Pending(m)'
      PROVE  m.tag <= latest'
  <2>1. CASE Pending(m)
    <3>1. m.tag \in Nat /\ m.tag <= latest
      BY <2>1, CompletionFacts DEF ContentsUsed, Used, Contents, Nothing
    <3> QED
      BY <1>0, <3>1
  <2>2. CASE Answered(m)
    <3>1. m.tag \in {Nothing, remote, file}
      BY <2>2 DEF Answered, SomePut, PutObject
    <3> QED
      BY <1>0, <3>1 DEF Nothing, Absent
  <2> QED
    BY <1>3, <2>1, <2>2, PendingStep
<1> QED
  BY <1>1, <1>2, <1>3 DEF ContentsUsed, Used

-----------------------------------------------------------------------------
(* The order of the ETags *)

\* A content that nothing is about is in order.
LEMMA FreshIsInOrder ==
  ASSUME NEW x, x # etag,
         \A i \in 1 .. Len(inbox) : Records(inbox[i]) => inbox[i].tag # x
  PROVE  InOrder(x)
BY DEF InOrder

\* So does a content stay when the worker of uploads answers nothing that is
\* recorded, or that content.
LEMMA OrderKept ==
  ASSUME NEW x, InOrder(x), etag' = etag, inbox' = inbox,
         Records(answer'[1]) => answer'[1] = answer[1] \/ answer'[1].tag = x
  PROVE  InOrder(x)'
BY DEF InOrder, Records

LEMMA IdleRecordsNothing == ~Records(Idle)
BY DEF Records, Idle

LEMMA OrderPosted ==
  ASSUME TypeOK, JobsFit, NEW x, InOrder(x), NEW l \in Lanes, OnTransferEvent(l)
  PROVE  InOrder(x)'
<1>0. /\ inbox \in Seq(Completions) /\ Lanes = {0, 1} /\ DOMAIN answer = Lanes
      /\ etag' = etag /\ answer[l] # Idle /\ answer[l] \in Completions
      /\ answer' = [answer EXCEPT ![l] = Idle]
      /\ inbox' = Append(inbox, answer[l]) \/ inbox' = inbox
  BY DEF OnTransferEvent, TypeOK, Lanes, hostVars, dueVars, docVars
<1>1. Records(answer'[1]) => answer'[1] = answer[1]
  BY <1>0, IdleRecordsNothing
<1>2. CASE inbox' = inbox
  BY <1>0, <1>1, <1>2, OrderKept
<1>3. CASE inbox' = Append(inbox, answer[l])
  <2>1. \A i \in 1 .. Len(inbox') :
          \/ i \in 1 .. Len(inbox) /\ inbox'[i] = inbox[i]
          \/ i = Len(inbox) + 1 /\ inbox'[i] = answer[l]
    BY <1>0, <1>3, AppendElements
  <2>2. Records(answer[l]) => l = 1
    <3>1. l = 0 => answer[0].kind = "Head"
      BY <1>0, KindFacts, CompletionFacts DEF JobsFit
    <3> QED
      BY <1>0, <3>1 DEF Records
  <2>3. Len(inbox) \in Nat
    BY <1>0
  <2>4. ASSUME x = etag
        PROVE  /\ \A i \in 1 .. Len(inbox') : Records(inbox'[i]) => inbox'[i].tag = x
               /\ Records(answer'[1]) => answer'[1].tag = x
    BY <1>1, <2>1, <2>2, <2>4 DEF InOrder
  <2>5. ASSUME NEW i \in 1 .. Len(inbox'), Records(inbox'[i]), inbox'[i].tag = x
        PROVE  /\ \A j \in 1 .. Len(inbox') :
                    i < j /\ Records(inbox'[j]) => inbox'[j].tag = x
               /\ Records(answer'[1]) => answer'[1].tag = x
    <3>1. CASE i \in 1 .. Len(inbox) /\ inbox'[i] = inbox[i]
      <4>1. Records(answer[1]) => answer[1].tag = x
        BY <2>5, <3>1 DEF InOrder
      <4>2. \A j \in 1 .. Len(inbox) : i < j /\ Records(inbox[j]) => inbox[j].tag = x
        BY <2>5, <3>1 DEF InOrder
      <4> QED
        BY <1>1, <2>1, <2>2, <4>1, <4>2
    <3>2. CASE i = Len(inbox) + 1 /\ inbox'[i] = answer[l]
      <4>1. \A j \in 1 .. Len(inbox') : ~(i < j)
        BY <2>1, <2>3, <3>2
      <4>2. ~Records(answer'[1])
        BY <1>0, <2>2, <2>5, <3>2, IdleRecordsNothing
      <4> QED
        BY <4>1, <4>2
    <3> QED
      BY <2>1, <3>1, <3>2
  <2> QED
    BY <1>0, <2>4, <2>5 DEF InOrder, Records
<1> QED
  BY <1>0, <1>2, <1>3

\* What a handler does with the recorded ETag.
LEMMA RecordStep ==
  ASSUME HandleCompletion
  PROVE  \/ etag' = etag
         \/ Records(Head(inbox)) /\ etag' = Head(inbox).tag
BY DEF HandleCompletion, HandleHead, HandleUpload, HandleDownloadOpen,
  HandleConflictDownload, HandleUploadManual, RecordDownload, RecordETag,
  Dispatch, Records, hostVars, dueVars, docVars

LEMMA OrderDispatched ==
  ASSUME TypeOK, NEW x, InOrder(x), HandleCompletion
  PROVE  InOrder(x)'
<1>0. /\ inbox \in Seq(Completions) /\ inbox # << >> /\ inbox' = Tail(inbox)
      /\ answer' = answer
  BY CompletionStep DEF TypeOK
<1>1. /\ Len(inbox) \in Nat \ {0} /\ Head(inbox) = inbox[1] /\ 1 \in 1 .. Len(inbox)
  BY <1>0, TailFacts
<1>2. \A i \in 1 .. Len(inbox') :
        i \in Nat \ {0} /\ i + 1 \in 1 .. Len(inbox) /\ inbox'[i] = inbox[i + 1]
  BY <1>0, TailElements
<1>3. ASSUME x = etag'
      PROVE  /\ \A i \in 1 .. Len(inbox') : Records(inbox'[i]) => inbox'[i].tag = x
             /\ Records(answer'[1]) => answer'[1].tag = x
  <2>1. CASE etag' = etag
    BY <1>0, <1>2, <1>3, <2>1 DEF InOrder
  <2>2. CASE Records(inbox[1]) /\ etag' = inbox[1].tag
    <3>1. /\ \A j \in 1 .. Len(inbox) : 1 < j /\ Records(inbox[j]) => inbox[j].tag = x
          /\ Records(answer[1]) => answer[1].tag = x
      BY <1>1, <1>3, <2>2 DEF InOrder
    <3>2. \A i \in 1 .. Len(inbox') : 1 < i + 1
      BY <1>2
    <3> QED
      BY <1>0, <1>2, <3>1, <3>2
  <2> QED
    BY <1>1, <2>1, <2>2, RecordStep
<1>4. ASSUME NEW i \in 1 .. Len(inbox'), Records(inbox'[i]), inbox'[i].tag = x
      PROVE  /\ \A j \in 1 .. Len(inbox') :
                  i < j /\ Records(inbox'[j]) => inbox'[j].tag = x
             /\ Records(answer'[1]) => answer'[1].tag = x
  <2>1. i + 1 \in 1 .. Len(inbox) /\ Records(inbox[i + 1]) /\ inbox[i + 1].tag = x
    BY <1>2, <1>4
  <2>2. /\ \A j \in 1 .. Len(inbox) :
             i + 1 < j /\ Records(inbox[j]) => inbox[j].tag = x
        /\ Records(answer[1]) => answer[1].tag = x
    BY <2>1 DEF InOrder
  <2>3. \A j \in 1 .. Len(inbox') : i < j => i + 1 < j + 1
    BY <1>2
  <2> QED
    BY <1>0, <1>2, <2>2, <2>3
<1> QED
  BY <1>3, <1>4 DEF InOrder, Records

LEMMA RecordsStep ==
  ASSUME TypeOK, JobsFit, PendingFits, ContentsUsed, RecordsInOrder, [Next]_vars
  PROVE  RecordsInOrder'
<1> SUFFICES ASSUME NEW x, x = remote' \/ x = file'
             PROVE  InOrder(x)'
  BY DEF RecordsInOrder
<1>0. InOrder(remote) /\ InOrder(file)
  BY DEF RecordsInOrder
<1>1. CASE HandleCompletion
  BY <1>0, <1>1, CompletionStep, OrderDispatched
<1>2. CASE Restart
  <2>1. inbox' = << >> /\ answer'[1] = Idle
    BY <1>2 DEF Restart, Lanes
  <2> QED
    BY <2>1, IdleRecordsNothing DEF InOrder, Records
<1>3. ASSUME NEW l \in Lanes, OnTransferEvent(l)
      PROVE  InOrder(x)'
  <2>1. remote' = remote /\ file' = file
    BY <1>3 DEF OnTransferEvent, hostVars, dueVars, storeVars
  <2> QED
    BY <1>0, <1>3, <2>1, OrderPosted
<1>4. ASSUME NEW k \in Kinds,
             Fail(k) \/ DownloadObject(k) \/ (k = "Head" /\ HeadObject)
               \/ PutObject(k)
      PROVE  InOrder(x)'
  <2>1. etag' = etag /\ inbox' = inbox
    BY <1>4 DEF Fail, DownloadObject, HeadObject, SomePut, PutObject, hostVars,
      dueVars, docVars
  <2>2. x \in {remote, file}
    BY <1>4 DEF Fail, DownloadObject, HeadObject, SomePut, PutObject, hostVars,
      dueVars, storeVars
  <2>3. CASE answer' = answer
    BY <1>0, <2>1, <2>2, <2>3, OrderKept
  <2>4. CASE answer' # answer
    <3>1. PICK a \in Completions :
            /\ a.kind = k /\ Answered(a)
            /\ \A l \in Lanes : answer'[l] = IF l = LaneOf(k) THEN a ELSE answer[l]
      BY <1>4, <2>4, JobAnswers
    <3>2. answer'[1] = answer[1] \/ (answer'[1] = a /\ k # "Head")
      BY <3>1, KindFacts
    <3>3. k # "Head" /\ a.result = "ok" => a.tag = x
      BY <1>4, <3>1 DEF Answered, DownloadObject, SomePut, PutObject, Fail
    <3> QED
      BY <1>0, <2>1, <2>2, <3>1, <3>2, <3>3, OrderKept DEF Records
  <2> QED
    BY <2>3, <2>4
<1>5. CASE Silent
  <2>1. etag' = etag /\ inbox' = inbox /\ answer' = answer
    BY <1>5, SilentStep DEF Silent, HandleFileSaved, OpenObject,
      CmdUploadCurrent, DeleteProfile, UserAsks, CmdShowPanel,
      AnswerDialog, ChooseOverwrite, ChooseDownloadRemote, ChooseCancel,
      CloseDialog, ForeignWrite, SomeHash, HashFile, Take, vars, hostVars,
      dueVars, docVars
  <2>2. CASE x \in {remote, file}
    BY <1>0, <2>1, <2>2, OrderKept
  <2>3. CASE x = latest + 1 \/ x = Absent
    <3>1. x # etag
      BY <2>3 DEF ContentsUsed, Used, TypeOK, Contents, Absent
    <3>2. ASSUME NEW i \in 1 .. Len(inbox), Records(inbox[i])
          PROVE  inbox[i].tag # x
      <4>1. inbox[i] \in Completions /\ Pending(inbox[i])
        <5>1. inbox \in Seq(Completions)
          BY DEF TypeOK
        <5> QED
          BY <5>1 DEF Pending
      <4>2. inbox[i].tag <= latest /\ inbox[i].tag # Nothing /\ inbox[i].tag \in Contents
        BY <3>2, <4>1, CompletionFacts
        DEF ContentsUsed, Used, PendingFits, Records
      <4> QED
        BY <2>3, <4>2 DEF TypeOK, Contents, Absent
    <3>3. InOrder(x)
      BY <3>1, <3>2, FreshIsInOrder
    <3> QED
      BY <2>1, <3>3, OrderKept
  <2>4. x \in {remote, file, latest + 1, Absent}
    BY <1>5 DEF Silent, HandleFileSaved, OpenObject, CmdUploadCurrent,
      DeleteProfile, UserAsks, CmdShowPanel,
      AnswerDialog, ChooseOverwrite, ChooseDownloadRemote, ChooseCancel,
      CloseDialog, ForeignWrite, SomeHash, HashFile, Take, vars, hostVars,
      dueVars, storeVars
  <2> QED
    BY <2>2, <2>3, <2>4
<1> QED
  BY <1>1, <1>2, <1>3, <1>4, <1>5, StepCases

-----------------------------------------------------------------------------
(* Conflicts *)

UploadOf(m, x) == m.kind = "Upload" /\ m.result = "ok" /\ m.tag = x

\* A completion that is not dispatched, nor posted to no panel, stays.
LEMMA PendingStays ==
  ASSUME TypeOK, [Next]_vars, ~Restart,
         NEW m \in Completions, Pending(m),
         HandleCompletion => m # Head(inbox),
         m.kind \in SaveKinds, ~missed'
  PROVE  Pending(m)'
<1>0. inbox \in Seq(Completions) /\ Lanes = {0, 1} /\ DOMAIN answer = Lanes /\ m # Idle
  BY IdleFacts DEF TypeOK, Lanes
<1>1. CASE Silent
  BY <1>1, SilentStep DEF Pending
<1>2. CASE HandleCompletion
  <2>1. answer' = answer /\ inbox # << >> /\ inbox' = Tail(inbox)
    BY <1>2, CompletionStep
  <2>2. CASE m \in {answer[0], answer[1]}
    BY <1>0, <2>1, <2>2 DEF Pending
  <2>3. ASSUME NEW i \in 1 .. Len(inbox), m = inbox[i]
        PROVE  Pending(m)'
    <3>1. /\ Head(inbox) = inbox[1] /\ Len(inbox') = Len(inbox) - 1
          /\ Len(inbox) \in Nat
          /\ \A j \in 1 .. Len(inbox) - 1 : inbox'[j] = inbox[j + 1]
      BY <1>0, <2>1, TailFacts
    <3>2. i # 1
      BY <1>2, <2>3, <3>1
    <3>3. i - 1 \in 1 .. Len(inbox) - 1 /\ (i - 1) + 1 = i
      BY <3>1, <3>2
    <3>4. i - 1 \in 1 .. Len(inbox') /\ m = inbox'[i - 1]
      BY <2>3, <3>1, <3>3
    <3> QED
      BY <3>4 DEF Pending
  <2> QED
    BY <2>2, <2>3 DEF Pending
<1>3. ASSUME NEW l \in Lanes, OnTransferEvent(l)
      PROVE  Pending(m)'
  <2>1. /\ answer[l] # Idle /\ answer[l] \in Completions
        /\ \/ inbox' = Append(inbox, answer[l])
           \/ inbox' = inbox /\ answer[l].kind \notin SaveKinds
        /\ \A w \in Lanes : w # l => answer'[w] = answer[w]
    BY <1>0, <1>3 DEF OnTransferEvent, TypeOK
  <2>2. CASE m \in {answer[0], answer[1]} /\ m # answer[l]
    BY <1>0, <2>1, <2>2 DEF Pending
  <2>3. CASE m = answer[l]
    <3>1. inbox' = Append(inbox, m)
      BY <2>1, <2>3
    <3>2. Len(inbox) + 1 \in 1 .. Len(inbox') /\ inbox'[Len(inbox) + 1] = m
      BY <1>0, <3>1, AppendFacts
    <3> QED
      BY <3>2 DEF Pending
  <2>4. CASE \E i \in 1 .. Len(inbox) : m = inbox[i]
    <3>1. PICK i \in 1 .. Len(inbox) : m = inbox[i]
      BY <2>4
    <3>2. i \in 1 .. Len(inbox') /\ inbox'[i] = m
      BY <1>0, <2>1, <3>1, AppendFacts
    <3> QED
      BY <3>2 DEF Pending
  <2> QED
    BY <2>2, <2>3, <2>4 DEF Pending
<1>4. ASSUME NEW k \in Kinds,
             Fail(k) \/ DownloadObject(k) \/ (k = "Head" /\ HeadObject)
               \/ PutObject(k)
      PROVE  Pending(m)'
  <2>1. inbox' = inbox /\ answer[LaneOf(k)] = Idle
    BY <1>4 DEF Fail, DownloadObject, HeadObject, SomePut, PutObject, Executing
  <2>2. CASE answer' = answer
    BY <2>1, <2>2 DEF Pending
  <2>3. CASE answer' # answer
    <3>1. PICK a :
            \A l \in Lanes : answer'[l] = IF l = LaneOf(k) THEN a ELSE answer[l]
      BY <1>4, <2>3, JobAnswers
    <3> QED
      BY <1>0, <2>1, <3>1 DEF Pending
  <2> QED
    BY <2>2, <2>3
<1> QED
  BY <1>1, <1>2, <1>3, <1>4, StepCases

\* The recorded ETag, if it is that of the object, remains it.
LEMMA RecordStays ==
  ASSUME TypeOK, RecordsInOrder, HandleCompletion, remote = etag
  PROVE  etag' = remote
<1>1. /\ inbox # << >> /\ inbox \in Seq(Completions)
  BY CompletionStep DEF TypeOK
<1>2. Head(inbox) = inbox[1] /\ 1 \in 1 .. Len(inbox)
  BY <1>1, TailFacts
<1>3. Records(Head(inbox)) => Head(inbox).tag = remote
  BY <1>2 DEF RecordsInOrder, InOrder
<1> QED
  BY <1>3, RecordStep

LEMMA KnownStep ==
  ASSUME TypeOK, JobsFit, SaveIsSomewhere, RecordsInOrder, ObjectIsKnown,
         [Next]_vars
  PROVE  ObjectIsKnown'
<1> SUFFICES ASSUME ~intruded', ~missed'
             PROVE  \/ remote' = etag'
                    \/ \E m \in Completions : Pending(m)' /\ UploadOf(m, remote')
  BY DEF ObjectIsKnown, UploadOf
<1>0. "Upload" \in SaveKinds
  BY DEF SaveKinds
<1>1. CASE Restart
  BY <1>1 DEF Restart, hostVars, dueVars, storeVars
<1>2. CASE HandleCompletion /\ ~Restart
  <2>1. /\ remote' = remote /\ ~intruded /\ ~missed
    BY <1>2, CompletionStep
  <2>2. CASE remote = etag
    BY <1>2, <2>1, <2>2, RecordStays
  <2>3. ASSUME NEW m \in Completions, Pending(m), UploadOf(m, remote)
        PROVE  remote' = etag' \/ Pending(m)'
    <3>1. CASE m = Head(inbox)
      <4>1. HandleUpload
        BY <1>2, <2>3, <3>1 DEF HandleCompletion, HandleHead,
          HandleDownloadOpen, HandleConflictDownload, HandleUploadManual,
          RecordDownload, Dispatch,
          UploadOf
      <4> QED
        BY <2>1, <2>3, <3>1, <4>1 DEF HandleUpload, RecordETag, UploadOf
    <3>2. CASE m # Head(inbox)
      BY <1>0, <1>2, <2>3, <3>2, PendingStays DEF UploadOf
    <3> QED
      BY <3>1, <3>2
  <2> QED
    BY <2>1, <2>2, <2>3 DEF ObjectIsKnown, UploadOf
<1>3. CASE SomePut
  <2>1. hashed # Nothing /\ remote' = hashed /\ Answer("Upload", "ok", hashed)
    BY <1>3 DEF SomePut, PutObject, UploadKinds
  <2> DEFINE a == [kind |-> "Upload", result |-> "ok", tag |-> hashed]
  <2>2. a \in Completions /\ UploadOf(a, remote') /\ a # Idle
    BY <2>1, CompletionFacts, IdleFacts DEF TypeOK, UploadOf, Kinds
  <2>3. answer'[1] = a
    BY <2>1, KindFacts DEF Answer, TypeOK
  <2> QED
    BY <2>2, <2>3 DEF Pending
<1>4. CASE ~HandleCompletion /\ ~Restart /\ ~SomePut
  <2>1. /\ remote' = remote /\ etag' = etag /\ intruded' = intruded
        /\ missed' = missed \/ \E l \in Lanes : OnTransferEvent(l)
    <3>1. CASE Silent
      BY <3>1 DEF Silent, HandleFileSaved, OpenObject, CmdUploadCurrent,
        DeleteProfile, UserAsks, CmdShowPanel,
        AnswerDialog, ChooseOverwrite, ChooseDownloadRemote, ChooseCancel,
        CloseDialog, ForeignWrite, SomeHash, HashFile, Take, vars, hostVars,
        dueVars, storeVars, docVars,
        checkVars
    <3>2. CASE \/ \E l \in Lanes : OnTransferEvent(l)
               \/ \E k \in Kinds : Fail(k) \/ DownloadObject(k) \/ HeadObject
      BY <3>2 DEF OnTransferEvent, Fail, DownloadObject, HeadObject, hostVars,
        dueVars, storeVars,
        docVars, checkVars
    <3>3. (\E k \in Kinds : PutObject(k)) => SomePut
      BY DEF PutObject, SomePut
    <3> QED
      BY <1>4, <3>1, <3>2, <3>3, StepCases
  <2>2. ~missed
    BY <2>1 DEF OnTransferEvent, TypeOK
  <2>3. \A m \in Completions : Pending(m) /\ UploadOf(m, remote) => Pending(m)'
    BY <1>0, <1>4, PendingStays DEF UploadOf
  <2> QED
    BY <2>1, <2>2, <2>3 DEF ObjectIsKnown, UploadOf
<1> QED
  BY <1>1, <1>2, <1>3, <1>4

\* A step other than these leaves the object and what is known of it alone.
LEMMA ObjectStays ==
  ASSUME [Next]_vars, ~SomePut, ~ForeignWrite, ~Restart
  PROVE  /\ remote' = remote /\ intruded' = intruded
         /\ HeadObject \/ late' = late
<1>1. CASE Silent
  BY <1>1 DEF Silent, HandleFileSaved, OpenObject, CmdUploadCurrent,
    DeleteProfile, UserAsks, CmdShowPanel, AnswerDialog,
    ChooseOverwrite, ChooseDownloadRemote, ChooseCancel, CloseDialog, SomeHash,
    HashFile,
    Take, vars, hostVars, dueVars, storeVars, checkVars
<1>2. CASE \/ \E l \in Lanes : OnTransferEvent(l)
           \/ \E k \in Kinds : Fail(k) \/ DownloadObject(k) \/ HeadObject
  BY <1>2 DEF OnTransferEvent, Fail, DownloadObject, HeadObject, hostVars,
    dueVars, storeVars,
    checkVars
<1>3. CASE HandleCompletion
  BY <1>3, CompletionStep
<1>4. (\E k \in Kinds : PutObject(k)) => SomePut
  BY DEF PutObject, SomePut
<1> QED
  BY <1>1, <1>2, <1>3, <1>4, StepCases

\* The dialog is opened by HandleHead only.
LEMMA DialogStays ==
  ASSUME [Next]_vars, ~HandleHead
  PROVE  dialog' = "none" \/ UNCHANGED <<dialog, shown>>
<1>1. CASE Silent
  BY <1>1 DEF Silent, HandleFileSaved, OpenObject, CmdUploadCurrent,
    DeleteProfile, UserAsks, CmdShowPanel, AnswerDialog,
    ChooseOverwrite, ChooseDownloadRemote, ChooseCancel, CloseDialog,
    ForeignWrite, SomeHash, HashFile, Take, vars, hostVars, dueVars, dialogVars
<1>2. CASE \/ \E l \in Lanes : OnTransferEvent(l)
           \/ \E k \in Kinds : Fail(k) \/ DownloadObject(k) \/ HeadObject \/ PutObject(k)
           \/ Restart
  BY <1>2 DEF OnTransferEvent, Fail, DownloadObject, HeadObject, PutObject,
    Restart, hostVars, dueVars, dialogVars
<1>3. CASE HandleUpload \/ HandleDownloadOpen \/ HandleConflictDownload \/ HandleUploadManual
  BY <1>3 DEF HandleUpload, HandleDownloadOpen, HandleConflictDownload,
    HandleUploadManual,
    RecordDownload, hostVars, dueVars, dialogVars
<1> QED
  BY <1>1, <1>2, <1>3, StepCases DEF HandleCompletion

LEMMA HeadCurrentStep ==
  ASSUME TypeOK, JobsFit, SaveIsSomewhere, HeadIsCurrent, [Next]_vars
  PROVE  HeadIsCurrent'
<1>0. "Head" \in SaveKinds
  BY DEF SaveKinds
<1>1. CASE ForeignWrite
  BY <1>1 DEF ForeignWrite, HeadIsCurrent
<1>2. CASE Restart
  <2>1. ~late' /\ dialog' = "none" /\ inbox' = << >>
        /\ answer'[0] = Idle /\ answer'[1] = Idle
    BY <1>2 DEF Restart, Lanes
  <2> QED
    BY <2>1 DEF HeadIsCurrent, Pending
<1>3. CASE PutObject("Upload")
  <2>1. late' = late /\ intruded' \in {intruded, TRUE} /\ dialog' = dialog
    BY <1>3 DEF PutObject, dialogVars, TypeOK
  <2>2. UploadWaits
    BY <1>3, KindFacts DEF PutObject, Executing, UploadWaits
  <2>3. dialog = "none" /\ ~Executing("Head") /\ \A m : ~PendingSave(m)
    BY <2>2, WaitingExcludes
  <2>4. \A m \in Completions : Pending(m)' /\ m.kind = "Head" => m.result = "failed"
    BY <1>0, <2>3, PendingStep
    DEF PendingSave, Answered, HeadObject, PutObject, UploadKinds
  <2> QED
    BY <2>1, <2>3, <2>4 DEF HeadIsCurrent
<1>6. CASE PutObject("Manual")
  BY <1>6 DEF PutObject, HeadIsCurrent
<1>7. SomePut => PutObject("Upload") \/ PutObject("Manual")
  BY DEF SomePut, UploadKinds
<1>4. CASE HeadObject /\ ~SomePut /\ ~ForeignWrite /\ ~Restart
  <2>1. remote' = remote /\ ~late' /\ dialog' = dialog
    BY <1>4 DEF HeadObject, hostVars, dueVars, storeVars, dialogVars
  <2>2. dialog = "none" /\ \A m : ~PendingSave(m)
    BY <1>4, AskingExcludes DEF HeadObject
  <2>3. \A m \in Completions : Pending(m)' /\ m.kind = "Head" =>
          /\ m.result = "ok" => m.tag = remote
          /\ m.result = "gone" => remote = Absent
    BY <1>0, <2>2, PendingStep DEF PendingSave, Answered, PutObject, UploadKinds
  <2> QED
    BY <2>1, <2>2, <2>3 DEF HeadIsCurrent
<1>5. CASE ~HeadObject /\ ~SomePut /\ ~ForeignWrite /\ ~Restart
  <2>1. remote' = remote /\ late' = late /\ intruded' = intruded
    BY <1>5, ObjectStays
  <2>2. \A m \in Completions : Pending(m)' /\ m.kind = "Head" =>
          Pending(m) \/ m.result = "failed"
    BY <1>5, PendingStep DEF Answered, PutObject, UploadKinds
  <2>3. ~late /\ dialog' # "none" => shown' = remote
    <3>1. CASE HandleHead
      <4>1. Dispatch("Head")
        BY <3>1 DEF HandleHead
      <4>2. /\ dialog = "none" /\ Head(inbox) \in Completions
            /\ Pending(Head(inbox)) /\ Head(inbox).kind = "Head"
        BY <1>0, <4>1, DispatchExcludes DEF PendingSave
      <4>3. \/ dialog' = dialog
            \/ Head(inbox).result = "ok" /\ shown' = Head(inbox).tag
            \/ Head(inbox).result = "gone" /\ shown' = Absent
        BY <3>1 DEF HandleHead, hostVars, dueVars, dialogVars
      <4> QED
        BY <4>2, <4>3 DEF HeadIsCurrent
    <3>2. CASE ~HandleHead
      BY <3>2, DialogStays DEF HeadIsCurrent
    <3> QED
      BY <3>1, <3>2
  <2> QED
    BY <2>1, <2>2, <2>3 DEF HeadIsCurrent
<1> QED
  BY <1>1, <1>2, <1>3, <1>4, <1>5, <1>6, <1>7

\* The dialog is opened when the object is not what is on record.
LEMMA ConflictStep ==
  ASSUME TypeOK, JobsFit, SaveIsSomewhere, ObjectIsKnown, HeadIsCurrent,
         SavesDoNotConflict, ContentsUsed, [Next]_vars
  PROVE  SavesDoNotConflict'
<1>1. CASE HandleHead
  <2>1. Dispatch("Head") /\ intruded' = intruded
    BY <1>1 DEF HandleHead, Dispatch
  <2> DEFINE m == Head(inbox)
  <2>2. /\ dialog = "none" /\ ~missed /\ m \in Completions /\ Pending(m)
        /\ m.kind = "Head" /\ \A n : PendingSave(n) => n = m
    BY <2>1, DispatchExcludes DEF PendingSave, SaveKinds
  <2>3. ~intruded => remote = etag
    BY <2>2 DEF ObjectIsKnown, PendingSave, SaveKinds
  <2>4. ~intruded => /\ m.result = "ok" => m.tag = etag
                     /\ m.result # "gone"
    <3>1. etag # Absent
      BY DEF TypeOK, Contents, Absent
    <3> QED
      BY <2>2, <2>3, <3>1 DEF HeadIsCurrent
  <2>5. dialog' = dialog \/ m.result = "gone" \/ (m.result = "ok" /\ m.tag # etag)
    BY <1>1 DEF HandleHead, hostVars, dueVars, dialogVars
  <2> QED
    BY <2>1, <2>2, <2>4, <2>5 DEF SavesDoNotConflict
<1>2. CASE ~HandleHead
  <2>1. dialog' = "none" \/ dialog' = dialog
    BY <1>2, DialogStays
  <2>2. intruded' \in {intruded, TRUE} \/ Restart
    <3>1. SomePut \/ ForeignWrite => intruded' \in {intruded, TRUE}
      BY DEF SomePut, PutObject, ForeignWrite, TypeOK
    <3> QED
      BY <3>1, ObjectStays
  <2>3. Restart => dialog' = "none"
    BY DEF Restart
  <2> QED
    BY <2>1, <2>2, <2>3 DEF SavesDoNotConflict
<1> QED
  BY <1>1, <1>2

-----------------------------------------------------------------------------
(* Uploads *)

LEMMA UploadWaitsStill ==
  ASSUME TypeOK, work' = work, answer' = answer, UploadWaits',
         queue' = queue \/ \E k \in Kinds \ {"Upload"} : EnqueueJob(k)
  PROVE  UploadWaits
<1>1. queue[1] \in Seq(Kinds) /\ Lanes = {0, 1}
  BY DEF TypeOK, Lanes
<1>2. \A i \in 1 .. Len(queue'[1]) : queue'[1][i] = "Upload" =>
        i \in 1 .. Len(queue[1]) /\ queue[1][i] = "Upload"
  <2>1. CASE queue'[1] = queue[1]
    BY <2>1
  <2>2. ASSUME NEW k \in Kinds \ {"Upload"}, queue'[1] = Append(queue[1], k)
        PROVE  \A i \in 1 .. Len(queue'[1]) : queue'[1][i] = "Upload" =>
                 i \in 1 .. Len(queue[1]) /\ queue[1][i] = "Upload"
    BY <1>1, <2>2, AppendElements
  <2>3. ASSUME NEW k \in Kinds \ {"Upload"}, EnqueueJob(k)
        PROVE  queue'[1] = queue[1] \/ queue'[1] = Append(queue[1], k)
    BY <1>1, <2>3 DEF EnqueueJob, LaneOf, TypeOK
  <2> QED
    BY <2>1, <2>2, <2>3
<1> QED
  BY <1>2 DEF UploadWaits

\* The two ways to an upload: the ETag is the one on record, or the user has
\* agreed to overwrite what the dialog is about.
Agreed ==
  /\ HandleHead
  /\ Head(inbox).result = "ok" /\ Head(inbox).tag = etag
Confirmed ==
  /\ ChooseOverwrite
  /\ confirmed' = {shown}

LEMMA UploadSource ==
  ASSUME TypeOK, [Next]_vars, UploadWaits'
  PROVE  UploadWaits \/ Agreed \/ Confirmed
<1>0. /\ "Head" \in Kinds \ {"Upload"} /\ "Open" \in Kinds \ {"Upload"}
      /\ "Fetch" \in Kinds \ {"Upload"} /\ "Manual" \in Kinds \ {"Upload"}
      /\ Lanes = {0, 1}
      /\ DOMAIN work = Lanes /\ DOMAIN answer = Lanes
  BY DEF Kinds, Lanes, TypeOK
<1>1. ASSUME NEW r, NEW d, FinishSave(r, d)
      PROVE  queue' = queue \/ EnqueueJob("Head")
  BY <1>1 DEF FinishSave, StartSaveUpload
<1>2. CASE HandleCompletion
  <2>1. work' = work /\ answer' = answer
    BY <1>2, CompletionStep
  <2>2. CASE queue' = queue \/ EnqueueJob("Head")
    BY <1>0, <2>1, <2>2, UploadWaitsStill
  <2>3. CASE HandleUpload
    BY <1>1, <2>2, <2>3 DEF HandleUpload
  <2>4. CASE HandleHead
    BY <1>1, <2>2, <2>4 DEF HandleHead, Proceed, Agreed
  <2>5. CASE HandleDownloadOpen \/ HandleConflictDownload \/ HandleUploadManual
    BY <2>2, <2>5 DEF HandleDownloadOpen, HandleConflictDownload,
      HandleUploadManual, RecordDownload
  <2> QED
    BY <1>2, <2>3, <2>4, <2>5 DEF HandleCompletion
<1>3. CASE AnswerDialog
  <2>1. work' = work /\ answer' = answer
    BY <1>3 DEF AnswerDialog, ChooseOverwrite, ChooseDownloadRemote,
      ChooseCancel, CloseDialog
  <2>2. \/ queue' = queue \/ EnqueueJob("Head") \/ EnqueueJob("Fetch")
        \/ Confirmed
    BY <1>1, <1>3 DEF AnswerDialog, ChooseOverwrite, ChooseDownloadRemote,
      ChooseCancel, Confirmed
  <2> QED
    BY <1>0, <2>1, <2>2, UploadWaitsStill
<1>4. CASE \/ HandleFileSaved \/ OpenObject \/ CmdUploadCurrent \/ DeleteProfile \/ CmdShowPanel
           \/ ForeignWrite \/ SomeHash \/ UNCHANGED vars
  <2>1. /\ work' = work /\ answer' = answer
        /\ \/ queue' = queue \/ EnqueueJob("Head") \/ EnqueueJob("Open")
           \/ EnqueueJob("Manual")
    BY <1>4 DEF HandleFileSaved, StartSaveUpload, OpenObject, CmdUploadCurrent,
      DeleteProfile, UserAsks, CmdShowPanel,
      ForeignWrite, SomeHash, HashFile, vars, hostVars, dueVars, jobVars
  <2> QED
    BY <1>0, <2>1, UploadWaitsStill
<1>5. ASSUME NEW l \in Lanes, Take(l)
      PROVE  UploadWaits
  <2>1. /\ queue[l] \in Seq(Kinds) /\ queue[l] # << >>
        /\ queue'[l] = Tail(queue[l]) /\ work'[l] = Head(queue[l])
        /\ answer' = answer
        /\ \A w \in Lanes : w # l => queue'[w] = queue[w] /\ work'[w] = work[w]
    BY <1>0, <1>5 DEF Take, TypeOK
  <2>2. CASE l = 0
    BY <1>0, <2>1, <2>2 DEF UploadWaits
  <2>3. CASE l = 1
    <3>0. /\ queue[1] \in Seq(Kinds) /\ queue[1] # << >>
          /\ queue'[1] = Tail(queue[1])
      BY <2>1, <2>3
    <3>1. /\ Head(queue[1]) = queue[1][1] /\ 1 \in 1 .. Len(queue[1])
      BY <3>0, TailFacts
    <3>2. \A i \in 1 .. Len(queue'[1]) :
            i + 1 \in 1 .. Len(queue[1]) /\ queue'[1][i] = queue[1][i + 1]
      BY <3>0, TailElements
    <3> QED
      BY <2>1, <2>3, <3>1, <3>2 DEF UploadWaits
  <2> QED
    BY <1>0, <2>2, <2>3
<1>6. ASSUME NEW l \in Lanes, OnTransferEvent(l)
      PROVE  UploadWaits
  <2>1. /\ queue' = queue /\ work'[l] = "none"
        /\ \A w \in Lanes : w # l => answer'[w] = answer[w] /\ work'[w] = work[w]
    BY <1>0, <1>6 DEF OnTransferEvent
  <2> QED
    BY <1>0, <2>1 DEF UploadWaits
<1>7. ASSUME NEW k \in Kinds,
             Fail(k) \/ DownloadObject(k) \/ (k = "Head" /\ HeadObject)
               \/ PutObject(k)
      PROVE  UploadWaits
  <2>1. queue' = queue /\ work' = work
    BY <1>7 DEF Fail, DownloadObject, HeadObject, SomePut, PutObject
  <2>2. CASE answer' = answer
    BY <2>1, <2>2, UploadWaitsStill
  <2>3. CASE answer' # answer
    <3>1. PICK a \in Completions :
            \A l \in Lanes : answer'[l] = IF l = LaneOf(k) THEN a ELSE answer[l]
      BY <1>7, <2>3, JobAnswers
    <3>2. answer'[1] = Idle => answer[1] = Idle
      BY <1>0, <3>1, IdleFacts
    <3> QED
      BY <2>1, <3>2 DEF UploadWaits
  <2> QED
    BY <2>2, <2>3
<1>8. CASE Restart
  BY <1>0, <1>8 DEF Restart, UploadWaits
<1> QED
  BY <1>2, <1>3, <1>4, <1>5, <1>6, <1>7, <1>8, StepCases DEF Silent

\* An upload that is answered does not wait any more, nor does another.
LEMMA AnsweredWaitsNot ==
  ASSUME TypeOK, JobsFit, SaveIsSomewhere, Executing("Upload"),
         queue' = queue, Answer("Upload", "failed", Nothing)
           \/ (Answer("Upload", "ok", hashed) /\ hashed # Nothing)
  PROVE  ~UploadWaits'
<1>1. work[1] = "Upload" /\ answer[1] = Idle
  BY KindFacts DEF Executing
<1>2. NoneAt("queue1")
  BY <1>1, WaitingExcludes DEF UploadWaits
<1>3. \A i \in 1 .. Len(queue'[1]) : queue'[1][i] # "Upload"
  BY <1>2 DEF NoneAt, NoneIn, SaveKinds
<1>4. answer'[1] # Idle
  <2>1. PICK r \in {"ok", "failed"}, t \in Contents \cup {Nothing} :
          Answer("Upload", r, t)
    BY DEF TypeOK
  <2>2. [kind |-> "Upload", result |-> r, tag |-> t] \in Completions
    BY CompletionFacts DEF Kinds
  <2>3. answer'[1] = [kind |-> "Upload", result |-> r, tag |-> t]
    BY <2>1, KindFacts DEF Answer, TypeOK
  <2> QED
    BY <2>2, <2>3, IdleFacts
<1> QED
  BY <1>3, <1>4 DEF UploadWaits

LEMMA UploadCheckedStep ==
  ASSUME TypeOK, JobsFit, SaveIsSomewhere, RecordsInOrder, HeadIsCurrent,
         UploadIsChecked, [Next]_vars
  PROVE  UploadIsChecked'
<1> SUFFICES ASSUME UploadWaits', ~late'
             PROVE  Allowed'
  BY DEF UploadIsChecked
<1>1. CASE Agreed
  <2> DEFINE m == Head(inbox)
  <2>1. /\ Dispatch("Head") /\ m.result = "ok" /\ m.tag = etag /\ etag' = etag
        /\ remote' = remote /\ ~late
    BY <1>1 DEF Agreed, HandleHead, Dispatch, hostVars, dueVars, storeVars, docVars
  <2>2. m \in Completions /\ Pending(m) /\ m.kind = "Head"
    BY <2>1, DispatchExcludes DEF PendingSave, SaveKinds
  <2> QED
    BY <2>1, <2>2 DEF HeadIsCurrent, Allowed
<1>2. CASE Confirmed
  <2>1. dialog # "none" /\ remote' = remote /\ ~late /\ confirmed' = {shown}
    BY <1>2 DEF Confirmed, ChooseOverwrite, CloseDialog, hostVars, dueVars,
      storeVars
  <2> QED
    BY <2>1 DEF HeadIsCurrent, Allowed
<1>3. CASE UploadWaits
  <2>0. /\ inFlight /\ dialog = "none" /\ ~Executing("Head")
        /\ \A m : ~PendingSave(m)
    BY <1>3, WaitingExcludes
  <2>1. CASE /\ ~late /\ remote' = remote /\ confirmed' = confirmed
             /\ remote = etag => etag' = remote
             /\ work[1] = "Upload" =>
                  hashed = Nothing \/ (work'[1] = "Upload" /\ hashed' = hashed)
    BY <1>3, <2>1 DEF UploadIsChecked, Allowed, Nothing, Absent
  <2>2. CASE HandleFileSaved
    BY <2>0, <2>1, <2>2 DEF HandleFileSaved, hostVars, dueVars, docVars
  <2>3. CASE \/ OpenObject \/ CmdUploadCurrent \/ DeleteProfile \/ CmdShowPanel
             \/ UNCHANGED vars
    BY <2>1, <2>3 DEF OpenObject, CmdUploadCurrent, DeleteProfile, UserAsks,
      CmdShowPanel, vars, storeVars, docVars, jobVars, checkVars
  <2>11. CASE \E l \in Lanes : Take(l) \/ OnTransferEvent(l)
    <3>1. PICK l \in Lanes : Take(l) \/ OnTransferEvent(l)
      BY <2>11
    <3>2. /\ ~late /\ remote' = remote /\ confirmed' = confirmed /\ etag' = etag
          /\ hashed' = hashed
      BY <3>1 DEF Take, OnTransferEvent, storeVars, docVars, checkVars
    <3>3. work[1] = "Upload" => hashed = Nothing \/ work'[1] = "Upload"
      BY <3>1, KindFacts DEF Take, OnTransferEvent, JobsFit, TypeOK
    <3> QED
      BY <2>1, <3>2, <3>3
  <2>12. CASE SomeHash
    <3>1. hashed = Nothing
      BY <2>12 DEF SomeHash, HashFile
    <3> QED
      BY <2>1, <2>12, <3>1 DEF SomeHash, HashFile, storeVars, docVars, checkVars
  <2>4. CASE AnswerDialog \/ HeadObject
    BY <2>0, <2>4 DEF AnswerDialog, ChooseOverwrite, ChooseDownloadRemote,
      ChooseCancel, CloseDialog, HeadObject
  <2>5. CASE ForeignWrite
    BY <2>5 DEF ForeignWrite
  <2>6. CASE HandleCompletion
    <3>1. ~HandleHead /\ ~HandleUpload
      BY <2>0, DispatchExcludes DEF HandleHead, HandleUpload, SaveKinds
    <3>2. /\ remote' = remote /\ hashed' = hashed /\ ~late /\ work' = work
          /\ confirmed' = confirmed
      BY <2>6, <3>1, CompletionStep DEF HandleCompletion, HandleDownloadOpen,
        HandleConflictDownload, HandleUploadManual, RecordDownload
    <3>3. remote = etag => etag' = remote
      BY <2>6, RecordStays
    <3> QED
      BY <2>1, <3>2, <3>3
  <2>7. ASSUME NEW k \in Kinds, Fail(k)
        PROVE  Allowed'
    <3>1. k # "Upload"
      BY <2>7, AnsweredWaitsNot DEF Fail
    <3>2. /\ ~late /\ remote' = remote /\ confirmed' = confirmed /\ etag' = etag
          /\ work' = work /\ (k = "Manual" => work[1] = k)
          /\ k # "Manual" => hashed' = hashed
      BY <2>7, <3>1 DEF Fail, Executing, LaneOf, UploadKinds, storeVars, docVars,
        checkVars
    <3> QED
      BY <2>1, <3>2
  <2>8. ASSUME NEW k \in Kinds, DownloadObject(k)
        PROVE  Allowed'
    BY <2>1, <2>8 DEF DownloadObject, docVars, checkVars
  <2>9. CASE PutObject("Upload")
    <3>1. hashed' = hashed /\ work' = work /\ work[1] = "Upload"
      BY <2>9, KindFacts, AnsweredWaitsNot DEF PutObject, Executing
    <3> QED
      BY <2>9, <3>1 DEF PutObject, Allowed
  <2>13. ~PutObject("Manual")
    BY DEF PutObject
  <2>10. CASE Restart
    BY <2>10 DEF Restart, UploadWaits, Lanes
  <2> QED
    BY <2>2, <2>3, <2>4, <2>5, <2>6, <2>7, <2>8, <2>9, <2>10, <2>11, <2>12,
       <2>13, StepCases DEF Silent, PutObject, UploadKinds
<1> QED
  BY <1>1, <1>2, <1>3, UploadSource

-----------------------------------------------------------------------------
(* The theorems *)

LEMMA SaveInit ==
  ASSUME Init
  PROVE  SaveInv
<1>0. /\ queue[0] = << >> /\ queue[1] = << >> /\ inbox = << >>
      /\ work[0] = "none" /\ work[1] = "none"
      /\ answer[0] = Idle /\ answer[1] = Idle
      /\ dialog = "none" /\ Lanes = {0, 1}
  BY DEF Init, Lanes
<1>1. TypeOK
  <2>1. 1 \in Contents
    BY SaveBoundsAssumption DEF Contents
  <2>2. /\ queue \in [Lanes -> Seq(Kinds)]
        /\ work \in [Lanes -> Kinds \cup {"none"}]
        /\ answer \in [Lanes -> Completions \cup {Idle}]
        /\ inbox \in Seq(Completions)
    BY DEF Init
  <2> QED
    BY <2>1, <2>2 DEF Init, TypeOK
<1>2. JobsFit
  BY <1>0 DEF Init, JobsFit
<1>3. \A m \in Completions : ~Pending(m)
  BY <1>0, IdleFacts DEF Pending
<1>4. NoSave
  BY <1>0, EmptyNone DEF NoSave, NoneAt, SaveKinds
<1>5. RecordsInOrder
  BY <1>0, IdleRecordsNothing DEF RecordsInOrder, InOrder
<1>6. ContentsUsed
  BY <1>3 DEF Init, ContentsUsed, Used
<1>7. ~UploadWaits
  BY <1>0 DEF UploadWaits
<1> QED
  BY <1>1, <1>2, <1>3, <1>4, <1>5, <1>6, <1>7
  DEF Init, SaveInv, PendingFits, SaveIsSomewhere, DueIsFile, ObjectIsKnown,
      SavesDoNotConflict, HeadIsCurrent, UploadIsChecked

LEMMA SaveNext ==
  ASSUME SaveInv, [Next]_vars
  PROVE  SaveInv'
BY TypeStep, JobsFitStep, PendingFitsStep, SaveStep, DueStep, ContentsStep,
   RecordsStep, KnownStep, ConflictStep, HeadCurrentStep, UploadCheckedStep
DEF SaveInv

LEMMA AlwaysSaveInv == Spec => []SaveInv
BY SaveInit, SaveNext, PTL DEF Spec

\* The variables of the document, of its save state and of the transfers of
\* NppS3Plugin.cpp have their types.
THEOREM SaveTypes == Spec => []TypeOK
BY AlwaysSaveInv, PTL DEF SaveInv

\* SaveState.inFlight of NppS3Plugin.cpp is set exactly while one Head, one
\* Upload or one conflict dialog of the document is under way, be the job
\* queued, executed or its completion posted, or, with none under way, after
\* a completion of a save did not reach the panel (OnTransferEvent):
\* HandleFileSaved starts no second save, and no handler leaves the end of one
\* out, so that two uploads of saves of the document never race, however often
\* it is saved, opened again, uploaded by hand or written by others.
THEOREM OneSave == Spec => []OneSaveAtATime
<1>1. SaveInv => OneSaveAtATime
  BY SavesCounted DEF SaveInv
<1> QED
  BY <1>1, AlwaysSaveInv, PTL

\* SaveState.again and FinishSave of NppS3Plugin.cpp: while the content of the
\* last save is neither at the service nor replaced or given up with a word to
\* the user, a save is under way, which has not read an older content of the
\* file unless it will be repeated.  Not covered are the saves given up without
\* a word: the profile was deleted (lines 1157-1161, 1403-1411), there was no
\* panel to show the word, or a completion was lost.
THEOREM OwedSavesAreUnderWay == Spec => []SaveIsNotForgotten
<1>1. SaveInv => SaveIsNotForgotten
  BY SavesCounted DEF SaveInv, DueIsFile, SaveIsNotForgotten, Owed
<1> QED
  BY <1>1, AlwaysSaveInv, PTL

\* HandleHead of NppS3Plugin.cpp asks the user about a conflict only if the
\* object was written by another client or by an explicit upload, an upload's
\* answer was lost, or a recorded ETag was: the plugin's saves and downloads,
\* whose ETags are recorded in the order they were read, do not make each other
\* ask.
THEOREM SavesConflictWithOthersOnly == Spec => []SavesDoNotConflict
BY AlwaysSaveInv, PTL DEF SaveInv

\* The PUT of a save of NppS3Plugin.cpp replaces what is on record, what the
\* user agreed to overwrite, nothing, itself when it is sent again, or what
\* was written after HeadForSave had looked: the comparison made before the
\* upload was enqueued still holds when a worker sends it.
THEOREM UploadsAreChecked == Spec => OverwriteIsChecked
<1>1. ASSUME SaveInv, PutObject("Upload")
      PROVE  remote \in {etag, Absent, hashed} \cup confirmed \/ late
  <2>1. UploadWaits
    BY <1>1, KindFacts DEF PutObject, Executing, UploadWaits
  <2> QED
    BY <1>1, <2>1 DEF SaveInv, UploadIsChecked, Allowed
<1>2. SaveInv /\ [Next]_vars =>
        [PutObject("Upload") =>
           \/ remote \in {etag, Absent, hashed} \cup confirmed
           \/ late]_vars
  BY <1>1
<1> QED
  BY <1>2, AlwaysSaveInv, PTL DEF Spec, OverwriteIsChecked
=============================================================================
