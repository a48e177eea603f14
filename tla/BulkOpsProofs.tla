----------------------------- MODULE BulkOpsProofs -----------------------------
(***************************************************************************)
(* Theorems about the operations on many objects, for any number of        *)
(* accounts, keys, uploads and requests, and any size of a page.           *)
(***************************************************************************)
EXTENDS BulkOps, FiniteSetTheorems, FunctionTheorems, TLAPS

\* What a job is about goes with its kind.
Fits(j) ==
  /\ j.kind \in {"DeletePrefixPage", "DownloadPrefixPage"} =>
       /\ j.page \subseteq j.scope /\ j.scope \subseteq Keys /\ j.key \in Keys \cup {0}
       /\ j.more => j.page # {}
  /\ j.kind = "DownloadPrefixPage" => j.scope = Below
  /\ j.kind = "ListIncompleteUploads" => j.page \subseteq Uploads
  /\ j.kind = "AbortIncompleteUpload" => j.key \in Uploads
  /\ j.kind \in Deletes \cup {"RenameCopy", "CreateObject", "UploadManual"} => j.key \in Keys
  /\ j.kind = "RenameCopy" => j.dst \in Keys

\* Jobs that count for a bulk belong to one of its kind, and no others do.
BulkFits(j) ==
  /\ j.kind \in {"DownloadPrefixPage", "DownloadPrefixItem"} =>
       j.bulk \in DOMAIN bulks /\ bulks[j.bulk].kind = "FolderDownload"
  /\ j.kind \in {"ListIncompleteUploads", "AbortIncompleteUpload"} =>
       j.bulk \in DOMAIN bulks /\ bulks[j.bulk].kind = "AbortUploads"
  /\ j.kind = "DeletePrefixPage" => j.bulk = 0

\* No two jobs have the same id.
IdsFit ==
  /\ \A j \in jobs : j.id < nextId
  /\ \A i, j \in jobs : i.id = j.id => i = j

\* Error boxes are those of bulks whose listing failed.
BoxesFit == \A i \in DOMAIN boxes : boxes[i] # 0 => bulks[boxes[i]].boxed

\* A key that an account has no more was deleted.
MissingIsGone ==
  \A a \in Accounts : \A k \in Below \ objects[a] : <<a, k>> \in gone

\* A page holds all keys from its token to its last one, or to the end, that
\* were not deleted or left out.
Reaches(j, k) == j.more => \E q \in j.page : k <= q
WholePage(j, lost) ==
  \A k \in Below : k > j.key /\ Reaches(j, k) /\ k \notin j.page => <<j.acct, k>> \in lost
PageFits(j) ==
  j.kind = "DownloadPrefixPage" =>
    /\ \A k \in j.page : k > j.key
    /\ j.status = "Completed" => WholePage(j, gone)

\* The keys that a folder download has been told of: all, or those up to the
\* token of the page that is outstanding.
Told(pages) == {k \in Below \ Folders : \A j \in pages : k <= j.key}
Kept(acct, lost) == {k \in Below : <<acct, k>> \notin lost}
Taken(b) == b.done + b.failed + b.pending

\* The state of a bulk agrees with its items and its pages: the counters and the
\* reports, and what it has counted with what it has been told of.
Counts(b, items, pages) ==
  /\ b.pending = Cardinality(items)
  /\ b.listing <=> pages # {}
  /\ \A i, j \in pages : i = j
Reports(b, items, pages) ==
  b.reports > 0 => items = {} /\ pages = {} /\ (b.reports = 1 \/ b.boxed)
AddsUp(b, pages, lost) ==
  IF b.kind = "FolderDownload"
  THEN /\ Taken(b) <= Cardinality(Told(pages))
       /\ b.whole => /\ Taken(b) >= Cardinality(Told(pages) \cap Kept(b.acct, lost))
                     /\ \A j \in pages : j.acct = b.acct
  ELSE Taken(b) <= Cardinality(b.claimed)
Sound(b, items, pages, lost) ==
  Counts(b, items, pages) /\ Reports(b, items, pages) /\ AddsUp(b, pages, lost)
BulksAreSound ==
  \A b \in DOMAIN bulks : Sound(bulks[b], JobsOf(b), Listings(b), gone)

\* Only a session that has an account is connected or asks for a confirmation.
ConnectedFits == connected \/ dialog # NoDialog => config \in Accounts

\* What a chain of jobs deletes was asked for in the session of the chain, or
\* named by a command that had lost its item.
Wanted(a, k) == switched \/ <<a, k>> \in asked \cup misnamed
IsAsked(j) ==
  /\ j.kind \in Deletes => Wanted(j.acct, j.key)
  /\ j.kind = "DeletePrefixPage" => \A k \in j.scope : Wanted(j.acct, k)
  /\ j.kind = "RenameCopy" /\ j.status = "Completed" => Wanted(j.acct, j.key)
  /\ j.kind \in {"DeletePrefixPage", "RenameCopy"} => switched \/ j.acct = config

JobFits(j) == Fits(j) /\ BulkFits(j) /\ PageFits(j) /\ IsAsked(j)
JobsFit == \A j \in jobs : JobFits(j)

\* The inductive invariant.
BulkInv ==
  /\ TypeOK /\ ConnectedFits /\ JobsFit /\ IdsFit /\ BoxesFit /\ BulksAreSound
  /\ MissingIsGone

-----------------------------------------------------------------------------
(* Finite sets *)

SetsIn(F, S) == F # {} /\ \A X \in F : X \subseteq S

\* Of finite sets one is minimal: induction over the size of a set is done with
\* a smallest counterexample.
LEMMA MinimalSet ==
  ASSUME NEW S, IsFiniteSet(S), NEW F, SetsIn(F, S)
  PROVE  \E X \in F : \A Y \in F : Y \subseteq X => Y = X
<1>1. IsWellFoundedOn(StrictSubsetOrdering(S), SUBSET S)
  BY FS_StrictSubsetOrderingWellFounded, FS_FiniteSubsetsOfFinite
<1>2. F \subseteq SUBSET S /\ F # {}
  BY DEF SetsIn
<1>3. PICK X \in F : \A Y \in F : ~ (<<Y, X>> \in StrictSubsetOrdering(S))
  BY <1>1, <1>2, WFMin
<1> QED
  BY <1>2, <1>3 DEF StrictSubsetOrdering

\* A finite set of numbers that is not empty has a largest and a smallest one.
LEMMA Extremes ==
  ASSUME NEW S, IsFiniteSet(S), S \subseteq Nat, S # {}
  PROVE  /\ \E k \in S : \A q \in S : q <= k
         /\ \E k \in S : \A q \in S : k <= q
<1> DEFINE Good(T) == /\ \E k \in T : \A q \in T : q <= k
                      /\ \E k \in T : \A q \in T : k <= q
           F == {T \in SUBSET S : T # {} /\ ~Good(T)}
<1> SUFFICES ASSUME F # {} PROVE FALSE
  OBVIOUS
<1>0. SetsIn(F, S)
  BY DEF SetsIn
<1>1. PICK X \in F : \A Y \in F : Y \subseteq X => Y = X
  <2> HIDE DEF F
  <2> QED
    BY <1>0, MinimalSet
<1>2. PICK x \in X : TRUE
  OBVIOUS
<1>3. X \ {x} \notin F
  BY <1>1, <1>2
<1>4. CASE X \ {x} = {}
  BY <1>2, <1>4
<1>5. CASE Good(X \ {x})
  <2>1. PICK k \in X \ {x} : \A q \in X \ {x} : q <= k
    BY <1>5
  <2>2. PICK l \in X \ {x} : \A q \in X \ {x} : l <= q
    BY <1>5
  <2>3. X \subseteq Nat
    OBVIOUS
  <2>4. \E m \in X : \A q \in X : q <= m
    <3>1. CASE x <= k
      BY <2>1, <2>3, <3>1
    <3>2. CASE ~(x <= k)
      <4>1. \A q \in X : q <= x
        BY <1>2, <2>1, <2>3, <3>2
      <4> QED
        BY <1>2, <4>1
    <3> QED
      BY <3>1, <3>2
  <2>5. \E m \in X : \A q \in X : m <= q
    <3>1. CASE l <= x
      BY <2>2, <2>3, <3>1
    <3>2. CASE ~(l <= x)
      <4>1. \A q \in X : x <= q
        BY <1>2, <2>2, <2>3, <3>2
      <4> QED
        BY <1>2, <4>1
    <3> QED
      BY <3>1, <3>2
  <2> QED
    BY <2>4, <2>5
<1> QED
  BY <1>3, <1>4, <1>5

\* Counting a set of which one element is taken away, and others added.
LEMMA CountReplaced ==
  ASSUME NEW S, IsFiniteSet(S), NEW x, NEW N, IsFiniteSet(N), N \cap S = {}
  PROVE  /\ IsFiniteSet((S \ {x}) \cup N)
         /\ Cardinality(S) \in Nat /\ Cardinality(N) \in Nat
         /\ Cardinality((S \ {x}) \cup N) =
              (IF x \in S THEN Cardinality(S) - 1 ELSE Cardinality(S)) + Cardinality(N)
         /\ x \in S => Cardinality(S) > 0
<1>1. /\ IsFiniteSet(S \ {x})
      /\ Cardinality(S \ {x}) = IF x \in S THEN Cardinality(S) - 1 ELSE Cardinality(S)
  BY FS_RemoveElement
<1>2. (S \ {x}) \cap N = {}
  OBVIOUS
<1>3. /\ IsFiniteSet((S \ {x}) \cup N)
      /\ Cardinality((S \ {x}) \cup N)
           = Cardinality(S \ {x}) + Cardinality(N) - Cardinality((S \ {x}) \cap N)
  BY <1>1, FS_Union
<1>4. Cardinality((S \ {x}) \cap N) = 0
  BY <1>2, FS_EmptySet
<1>5. /\ Cardinality(S) \in Nat /\ Cardinality(N) \in Nat
      /\ Cardinality(S \ {x}) \in Nat
  BY <1>1, FS_CardinalityType
<1> QED
  BY <1>1, <1>3, <1>4, <1>5

\* Counting a set to which others are added.
LEMMA CountAdded ==
  ASSUME NEW S, IsFiniteSet(S), NEW N, IsFiniteSet(N), N \cap S = {}
  PROVE  /\ IsFiniteSet(S \cup N)
         /\ Cardinality(S) \in Nat /\ Cardinality(N) \in Nat
         /\ Cardinality(S \cup N) = Cardinality(S) + Cardinality(N)
<1>1. S \cap N = {}
  OBVIOUS
<1>2. Cardinality(S \cap N) = 0
  BY <1>1, FS_EmptySet
<1> QED
  <2>1. Cardinality(S) \in Nat /\ Cardinality(N) \in Nat
    BY FS_CardinalityType
  <2>2. /\ IsFiniteSet(S \cup N)
        /\ Cardinality(S \cup N)
             = Cardinality(S) + Cardinality(N) - Cardinality(S \cap N)
    BY FS_Union
  <2> QED
    BY <1>2, <2>1, <2>2

\* How many are smaller: fewer than all, and fewer for a smaller one.
LEMMA CountSmaller ==
  ASSUME NEW S, IsFiniteSet(S), S \subseteq Nat, NEW k \in S
  PROVE  /\ Cardinality({q \in S : q < k}) \in Nat
         /\ Cardinality({q \in S : q < k}) < Cardinality(S)
         /\ \A l \in S : k < l =>
              Cardinality({q \in S : q < k}) < Cardinality({q \in S : q < l})
<1> DEFINE L(m) == {q \in S : q < m}
<1>1. \A m \in S : IsFiniteSet(L(m)) /\ Cardinality(L(m)) \in Nat
  BY FS_Subset, FS_CardinalityType
<1>2. Cardinality(L(k)) < Cardinality(S)
  <2>1. k \notin L(k) /\ L(k) \in SUBSET S
    OBVIOUS
  <2>2. Cardinality(L(k)) <= Cardinality(S) /\ Cardinality(L(k)) # Cardinality(S)
    BY <2>1, FS_Subset
  <2> QED
    BY <1>1, <2>2, FS_CardinalityType
<1>3. ASSUME NEW l \in S, k < l
      PROVE  Cardinality(L(k)) < Cardinality(L(l))
  <2>1. k \in L(l) /\ k \notin L(k) /\ L(k) \in SUBSET L(l)
    <3>1. k \in Nat /\ l \in Nat /\ \A q \in S : q \in Nat
      OBVIOUS
    <3>2. \A q \in S : q < k => q < l
      BY <1>3, <3>1
    <3>3. k \in L(l) /\ k \notin L(k)
      BY <1>3, <3>1
    <3>4. \A q \in L(k) : q \in L(l)
      BY <3>2
    <3> QED
      BY <3>3, <3>4
  <2>2. /\ Cardinality(L(k)) <= Cardinality(L(l))
        /\ Cardinality(L(k)) # Cardinality(L(l))
    BY <1>1, <2>1, FS_Subset
  <2> QED
    BY <1>1, <2>2
<1> QED
  BY <1>1, <1>2, <1>3

-----------------------------------------------------------------------------
(* New jobs *)

\* Jobs that are enqueued together have the next ids.
Waits(j) == j.status = "queued" /\ j.page = {} /\ ~j.more
Batch(new) ==
  /\ IsFiniteSet(new) /\ new \subseteq JobType
  /\ \A j \in new : /\ Waits(j)
                    /\ nextId <= j.id /\ j.id < nextId + Cardinality(new)
  /\ \A i, j \in new : i.id = j.id => i = j

\* The kinds of jobs, and that pages, items and deletes are apart.
LEMMA KindFacts ==
  /\ Kinds = Pages \cup Items \cup Deletes
               \cup {"RenameCopy", "CreateObject", "UploadManual", "DownloadAs", "PropertiesHead"}
  /\ Pages \cap Items = {} /\ Pages \cap Deletes = {} /\ Items \cap Deletes = {}
BY DEF Kinds, Pages, Items, Deletes, Asks

\* Keys and uploads are numbers, and finitely many; 0 is no key.
LEMMA KeyFacts ==
  /\ Keys \subseteq Nat /\ Below \subseteq Keys /\ Uploads \subseteq Nat
  /\ IsFiniteSet(Below) /\ IsFiniteSet(Uploads) /\ 0 \notin Below
  /\ IsFiniteSet(Keys) /\ \A scope \in Scopes : scope \subseteq Keys
<1>1. IsFiniteSet({Outside}) /\ Keys = Below \cup {Outside} /\ IsFiniteSet(Below)
  BY KeysAssumption, FS_Singleton DEF Keys
<1>2. IsFiniteSet(Keys)
  BY <1>1, FS_Union
<1>3. \A scope \in Scopes : scope \subseteq Keys
  BY DEF Scopes, Keys
<1> QED
  BY <1>2, <1>3, KeysAssumption, UploadsAssumption DEF Keys

\* The fields of a job.
LEMMA JobFacts ==
  ASSUME TypeOK, NEW j \in jobs
  PROVE  /\ j \in JobType /\ j.kind \in Kinds /\ j.acct \in Accounts \cup {NoAccount}
         /\ j.key \in Nat /\ j.bulk \in Nat /\ j.page \subseteq Keys \cup Uploads
<1>1. j \in JobType
  BY DEF TypeOK
<1>2. j.key \in Keys \cup Uploads \cup {0}
  BY <1>1 DEF JobType
<1>3. Keys \cup Uploads \cup {0} \subseteq Nat
  BY KeyFacts
<1> QED
  BY <1>1, <1>2, <1>3 DEF JobType

\* No jobs are a batch.
LEMMA NoBatch == Batch({}) /\ Cardinality({}) = 0
BY FS_EmptySet DEF Batch

\* So is a job that has the next id.
LEMMA BatchOfOne ==
  ASSUME TypeOK, NEW j \in JobType, Waits(j), j.id = nextId
  PROVE  Batch({j}) /\ Cardinality({j}) = 1
<1>1. IsFiniteSet({j}) /\ Cardinality({j}) = 1
  BY FS_Singleton
<1>2. nextId \in Nat
  BY DEF TypeOK
<1> QED
  BY <1>1, <1>2 DEF Batch

\* So is a batch with the job whose id follows.
LEMMA BatchPlus ==
  ASSUME TypeOK, NEW new, Batch(new),
         NEW j \in JobType, Waits(j), j.id = nextId + Cardinality(new)
  PROVE  Batch(new \cup {j}) /\ Cardinality(new \cup {j}) = Cardinality(new) + 1
<1>1. nextId \in Nat /\ IsFiniteSet(new) /\ Cardinality(new) \in Nat
      /\ \A i \in new : i.id \in Nat /\ i.id < nextId + Cardinality(new)
  BY FS_CardinalityType DEF TypeOK, Batch, JobType
<1>2. j \notin new
  BY <1>1
<1>3. /\ IsFiniteSet(new \cup {j})
      /\ Cardinality(new \cup {j}) = Cardinality(new) + 1
  BY <1>1, <1>2, FS_AddElement
<1>4. \A i \in new : i.id # j.id
  BY <1>1
<1> QED
  BY <1>1, <1>3, <1>4 DEF Batch

\* The jobs for keys are one for each.
LEMMA BatchFor ==
  ASSUME TypeOK, NEW kind \in Kinds, NEW keys, keys \subseteq Keys \cup Uploads,
         IsFiniteSet(keys), NEW bulk \in Nat, NEW new, new = JobsFor(kind, keys, bulk)
  PROVE  /\ Batch(new) /\ Cardinality(new) = Cardinality(keys)
         /\ \A j \in new : /\ j.kind = kind /\ j.acct = config /\ j.key \in keys
                           /\ j.dst = 0 /\ j.bulk = bulk
<1> DEFINE place(k) == nextId + Cardinality({q \in keys : q < k})
           J(k) == Job(place(k), kind, k, 0, bulk)
<1>1. keys \subseteq Nat /\ nextId \in Nat \ {0} /\ Cardinality(keys) \in Nat
  BY KeyFacts, FS_CardinalityType DEF TypeOK
<1>2. \A k \in keys : /\ place(k) \in Nat \ {0}
                      /\ nextId <= place(k) /\ place(k) < nextId + Cardinality(keys)
  <2> SUFFICES ASSUME NEW k \in keys
               PROVE  /\ place(k) \in Nat \ {0}
                      /\ nextId <= place(k) /\ place(k) < nextId + Cardinality(keys)
    OBVIOUS
  <2>1. /\ Cardinality({q \in keys : q < k}) \in Nat
        /\ Cardinality({q \in keys : q < k}) < Cardinality(keys)
    BY <1>1, CountSmaller
  <2> QED
    BY <1>1, <2>1
<1>3. \A k, l \in keys : place(k) = place(l) => k = l
  <2> SUFFICES ASSUME NEW k \in keys, NEW l \in keys, k < l
               PROVE  place(k) # place(l)
    BY <1>1
  <2>1. /\ Cardinality({q \in keys : q < k}) \in Nat
        /\ Cardinality({q \in keys : q < l}) \in Nat
        /\ Cardinality({q \in keys : q < k}) < Cardinality({q \in keys : q < l})
    BY <1>1, CountSmaller
  <2> QED
    BY <1>1, <2>1
<1>4. \A k \in keys : /\ J(k) \in JobType /\ Waits(J(k))
                      /\ J(k).id = place(k) /\ J(k).kind = kind /\ J(k).acct = config
                      /\ J(k).key = k /\ J(k).dst = 0 /\ J(k).bulk = bulk
  <2> SUFFICES ASSUME NEW k \in keys
               PROVE  /\ J(k) \in JobType /\ Waits(J(k))
                      /\ J(k).id = place(k) /\ J(k).kind = kind /\ J(k).acct = config
                      /\ J(k).key = k /\ J(k).dst = 0 /\ J(k).bulk = bulk
    OBVIOUS
  <2>1. place(k) \in Nat \ {0}
    BY <1>2
  <2>2. PICK p : p = place(k)
    OBVIOUS
  <2>3. k \in Keys \cup Uploads \cup {0} /\ 0 \in Keys \cup {0} /\ p \in Nat \ {0}
    BY <2>1, <2>2
  <2>4. PICK x : x = Job(p, kind, k, 0, bulk)
    OBVIOUS
  <2>5. /\ x \in JobType /\ Waits(x)
        /\ x.id = p /\ x.kind = kind /\ x.acct = config /\ x.key = k
        /\ x.dst = 0 /\ x.bulk = bulk
    BY <2>3, <2>4, KeyFacts DEF Job, JobType, TypeOK, Waits
  <2>6. J(k) = x
    BY <2>2, <2>4
  <2> HIDE DEF J, place
  <2> QED
    BY <2>2, <2>5, <2>6
<1>5. new = {J(k) : k \in keys}
  BY DEF JobsFor
<1> HIDE DEF J, place
<1>6. IsFiniteSet(new) /\ Cardinality(new) = Cardinality(keys)
  <2> DEFINE f == [k \in keys |-> J(k)]
  <2>1. f \in Bijection(keys, new)
    <3>1. f \in [keys -> new]
      BY <1>5
    <3>2. \A k, l \in keys : f[k] = f[l] => k = l
      BY <1>4
    <3>3. \A j \in new : \E k \in keys : f[k] = j
      BY <1>5
    <3> QED
      BY <3>1, <3>2, <3>3, Fun_IsBij
  <2> QED
    BY <2>1, FS_Bijection DEF ExistsBijection
<1>7. /\ new \subseteq JobType
      /\ \A j \in new : /\ Waits(j) /\ nextId <= j.id
                        /\ j.id < nextId + Cardinality(new)
  <2> SUFFICES ASSUME NEW j \in new
               PROVE  /\ j \in JobType /\ Waits(j) /\ nextId <= j.id
                      /\ j.id < nextId + Cardinality(new)
    OBVIOUS
  <2>1. PICK k \in keys : j = J(k)
    BY <1>5
  <2>2. nextId <= place(k) /\ place(k) < nextId + Cardinality(keys)
    BY <1>2
  <2>3. j.id = place(k) /\ j \in JobType /\ Waits(j)
    BY <1>4, <2>1
  <2> QED
    BY <1>6, <2>2, <2>3
<1>8. \A i, j \in new : i.id = j.id => i = j
  BY <1>3, <1>4, <1>5
<1>9. Batch(new)
  BY <1>6, <1>7, <1>8 DEF Batch
<1> QED
  BY <1>4, <1>5, <1>6, <1>9

-----------------------------------------------------------------------------
(* The state of a bulk *)

\* The summary is due only when nothing is outstanding.
LEMMA FinishIsSound ==
  ASSUME NEW b \in BulkType, NEW items, NEW pages, NEW lost, IsFiniteSet(items),
         Sound(b, items, pages, lost), b.reports = 0 \/ b.boxed
  PROVE  /\ FinishBulkIfDone(b) \in BulkType
         /\ Sound(FinishBulkIfDone(b), items, pages, lost)
         /\ FinishBulkIfDone(b).kind = b.kind /\ FinishBulkIfDone(b).boxed = b.boxed
<1> DEFINE f == [b EXCEPT !.reports = @ + 1]
<1>1. /\ f \in BulkType /\ f.reports = b.reports + 1
      /\ f.kind = b.kind /\ f.boxed = b.boxed /\ f.acct = b.acct /\ f.listing = b.listing
      /\ f.pending = b.pending /\ f.done = b.done /\ f.failed = b.failed
      /\ f.claimed = b.claimed /\ f.whole = b.whole
  BY DEF BulkType
<1>2. b.pending \in Nat /\ b.reports \in Nat /\ b.listing \in BOOLEAN
  BY DEF BulkType
<1> HIDE DEF f
<1>3. CASE b.listing \/ b.pending > 0
  <2>1. FinishBulkIfDone(b) = b
    BY <1>3 DEF FinishBulkIfDone
  <2> QED
    BY <2>1
<1>4. CASE ~(b.listing \/ b.pending > 0)
  <2>1. FinishBulkIfDone(b) = f
    BY <1>4 DEF FinishBulkIfDone, f
  <2>2. Counts(b, items, pages) /\ Reports(b, items, pages) /\ AddsUp(b, pages, lost)
    BY DEF Sound
  <2>3. items = {} /\ pages = {}
    <3>1. Cardinality(items) = 0
      BY <1>2, <1>4, <2>2 DEF Counts
    <3> QED
      BY <1>4, <2>2, <3>1, FS_EmptySet DEF Counts
  <2>4. Counts(f, items, pages) /\ AddsUp(f, pages, lost)
    BY <1>1, <2>2 DEF Counts, AddsUp, Taken
  <2>5. Reports(f, items, pages)
    BY <1>1, <1>2, <2>3 DEF Reports
  <2> QED
    BY <1>1, <2>1, <2>4, <2>5 DEF Sound
<1> QED
  BY <1>3, <1>4

\* The keys that were told are finitely many.
LEMMA ToldFacts ==
  ASSUME NEW pages, NEW acct, NEW lost
  PROVE  /\ IsFiniteSet(Told(pages)) /\ Cardinality(Told(pages)) \in Nat
         /\ IsFiniteSet(Told(pages) \cap Kept(acct, lost))
         /\ Cardinality(Told(pages) \cap Kept(acct, lost)) \in Nat
<1>1. Told(pages) \in SUBSET Below /\ Told(pages) \cap Kept(acct, lost) \in SUBSET Below
  BY DEF Told
<1>2. IsFiniteSet(Told(pages)) /\ IsFiniteSet(Told(pages) \cap Kept(acct, lost))
  BY <1>1, KeyFacts, FS_Subset
<1> QED
  BY <1>2, FS_CardinalityType

\* Nothing that is deleted makes a count wrong.
LEMMA LossIsSound ==
  ASSUME NEW b \in BulkType, NEW pages, NEW lost, NEW more, lost \subseteq more,
         AddsUp(b, pages, lost)
  PROVE  AddsUp(b, pages, more)
<1>1. Told(pages) \cap Kept(b.acct, more) \in SUBSET (Told(pages) \cap Kept(b.acct, lost))
  BY DEF Kept
<1>2. Cardinality(Told(pages) \cap Kept(b.acct, more))
        <= Cardinality(Told(pages) \cap Kept(b.acct, lost))
  BY <1>1, ToldFacts, FS_Subset
<1>3. /\ Cardinality(Told(pages) \cap Kept(b.acct, more)) \in Nat
      /\ Cardinality(Told(pages) \cap Kept(b.acct, lost)) \in Nat
  BY ToldFacts
<1>4. Taken(b) \in Nat
  BY DEF Taken, BulkType
<1> QED
  BY <1>2, <1>3, <1>4 DEF AddsUp

\* A page or an item that was executed is still one.
LEMMA ExecutedIsSound ==
  ASSUME NEW b \in BulkType, NEW items, NEW pages, NEW lost, NEW more, lost \subseteq more,
         IsFiniteSet(items), Sound(b, items, pages, lost),
         NEW j, NEW e, e.key = j.key, e.acct = j.acct,
         NEW items2, IF j \in items THEN e \notin items /\ items2 = (items \ {j}) \cup {e}
                                    ELSE items2 = items,
         NEW pages2, IF j \in pages THEN pages2 = (pages \ {j}) \cup {e} ELSE pages2 = pages
  PROVE  Sound(b, items2, pages2, more)
<1>1. Counts(b, items, pages) /\ Reports(b, items, pages) /\ AddsUp(b, pages, more)
  BY LossIsSound DEF Sound
<1>2. IsFiniteSet({e}) /\ Cardinality({e}) = 1
  BY FS_Singleton
<1>3. Cardinality(items2) = Cardinality(items)
  <2>1. CASE j \in items
    <3>1. PICK one : one = {e}
      OBVIOUS
    <3>2. one \cap items = {} /\ items2 = (items \ {j}) \cup one
      BY <2>1, <3>1
    <3>3. IsFiniteSet(one) /\ Cardinality(one) = 1
      BY <1>2, <3>1
    <3>4. /\ Cardinality(items) \in Nat
          /\ Cardinality((items \ {j}) \cup one) = Cardinality(items) - 1 + Cardinality(one)
      BY <2>1, <3>2, <3>3, CountReplaced
    <3> QED
      BY <3>2, <3>3, <3>4
  <2> QED
    BY <2>1
<1>4. pages2 # {} <=> pages # {}
  OBVIOUS
<1>5. \A x, y \in pages2 : x = y
  BY <1>1 DEF Counts
<1>6. items2 # {} <=> items # {}
  OBVIOUS
<1>7. \A x \in pages2 : \E y \in pages : x.key = y.key /\ x.acct = y.acct
  OBVIOUS
<1>8. \A y \in pages : \E x \in pages2 : x.key = y.key /\ x.acct = y.acct
  OBVIOUS
<1>9. Told(pages2) = Told(pages)
  BY <1>7, <1>8 DEF Told
<1>10. AddsUp(b, pages2, more)
  <2>1. (\A y \in pages : y.acct = b.acct) => (\A x \in pages2 : x.acct = b.acct)
    BY <1>7
  <2> QED
    BY <1>1, <1>9, <2>1 DEF AddsUp
<1>11. Counts(b, items2, pages2)
  BY <1>1, <1>3, <1>4, <1>5 DEF Counts
<1>12. Reports(b, items2, pages2)
  BY <1>1, <1>4, <1>6 DEF Reports
<1> QED
  BY <1>10, <1>11, <1>12 DEF Sound

\* What a handler adds to the keys that were told, and to the counts.
LEMMA UnionCounts ==
  ASSUME NEW S, IsFiniteSet(S), NEW N, IsFiniteSet(N), NEW T, IsFiniteSet(T)
  PROVE  /\ Cardinality(S) \in Nat /\ Cardinality(N) \in Nat /\ Cardinality(T) \in Nat
         /\ S \cap N = {} /\ S \subseteq T /\ N \subseteq T =>
              Cardinality(S) + Cardinality(N) <= Cardinality(T)
         /\ T \subseteq S \cup N => Cardinality(T) <= Cardinality(S) + Cardinality(N)
<1>1. Cardinality(S) \in Nat /\ Cardinality(N) \in Nat /\ Cardinality(T) \in Nat
  BY FS_CardinalityType
<1>2. ASSUME S \cap N = {}, S \subseteq T, N \subseteq T
      PROVE  Cardinality(S) + Cardinality(N) <= Cardinality(T)
  <2>1. N \cap S = {} /\ S \cup N \in SUBSET T
    BY <1>2
  <2>2. Cardinality(S \cup N) = Cardinality(S) + Cardinality(N)
    BY <2>1, CountAdded
  <2>3. Cardinality(S \cup N) <= Cardinality(T)
    BY <2>1, FS_Subset
  <2> QED
    BY <2>2, <2>3
<1>3. ASSUME T \subseteq S \cup N
      PROVE  Cardinality(T) <= Cardinality(S) + Cardinality(N)
  <2>1. /\ IsFiniteSet(S \cup N)
        /\ Cardinality(S \cup N)
             = Cardinality(S) + Cardinality(N) - Cardinality(S \cap N)
    BY FS_Union
  <2>2. S \cap N \in SUBSET S /\ T \in SUBSET (S \cup N)
    BY <1>3
  <2>3. Cardinality(S \cap N) \in Nat /\ Cardinality(S \cup N) \in Nat
    BY <2>1, <2>2, FS_Subset, FS_CardinalityType
  <2>4. Cardinality(T) <= Cardinality(S \cup N)
    BY <2>1, <2>2, FS_Subset
  <2> QED
    BY <1>1, <2>1, <2>3, <2>4
<1> QED
  BY <1>1, <1>2, <1>3

\* A page tells of its files, and of each for the first time.
LEMMA PageTells ==
  ASSUME NEW pages, NEW j \in pages, \A x, y \in pages : x = y,
         j.page \subseteq Below, j.key \in Nat, \A k \in j.page : k > j.key,
         NEW pages2, IF j.more THEN \E p : /\ pages2 = {p} /\ p.key \in j.page
                                           /\ \A q \in j.page : q <= p.key
                               ELSE pages2 = {},
         NEW lost
  PROVE  LET listed == j.page \ Folders
         IN  /\ Cardinality(Told(pages)) + Cardinality(listed) <= Cardinality(Told(pages2))
             /\ WholePage(j, lost) =>
                  Cardinality(Told(pages2) \cap Kept(j.acct, lost))
                    <= Cardinality(Told(pages) \cap Kept(j.acct, lost)) + Cardinality(listed)
<1> DEFINE listed == j.page \ Folders
           kept == Kept(j.acct, lost)
<1>1. listed \in SUBSET Below
  OBVIOUS
<1>2. IsFiniteSet(listed)
  BY <1>1, KeyFacts, FS_Subset
<1>3. \A k \in Below : k \in Nat
  BY KeyFacts
<1>4. \A k : k \in Told(pages) <=> k \in Below \ Folders /\ k <= j.key
  BY DEF Told
<1>5. \A k : k \in Told(pages2) <=> k \in Below \ Folders /\ Reaches(j, k)
  <2>1. CASE j.more
    <3>1. PICK p : pages2 = {p} /\ p.key \in j.page /\ \A q \in j.page : q <= p.key
      BY <2>1
    <3>2. \A k \in Below : k <= p.key <=> \E q \in j.page : k <= q
      <4> SUFFICES ASSUME NEW k \in Below, NEW q \in j.page, k <= q PROVE k <= p.key
        BY <3>1
      <4>1. k \in Nat /\ q \in Nat /\ p.key \in Nat /\ q <= p.key
        BY <1>3, <3>1
      <4> QED
        BY <4>1
    <3>3. \A k : k \in Told(pages2) <=> k \in Below \ Folders /\ k <= p.key
      BY <3>1 DEF Told
    <3> QED
      BY <2>1, <3>2, <3>3 DEF Reaches
  <2>2. CASE ~j.more
    BY <2>2 DEF Told, Reaches
  <2> QED
    BY <2>1, <2>2
<1>6. Told(pages) \cap listed = {}
  <2> SUFFICES ASSUME NEW k \in Told(pages), k \in listed PROVE FALSE
    OBVIOUS
  <2>1. k \in Nat /\ k <= j.key /\ k > j.key
    BY <1>3, <1>4
  <2> QED
    BY <2>1
<1>7. Told(pages) \subseteq Told(pages2)
  <2> SUFFICES ASSUME NEW k \in Told(pages) PROVE k \in Told(pages2)
    OBVIOUS
  <2>1. k \in Below \ Folders /\ k \in Nat /\ k <= j.key
    BY <1>3, <1>4
  <2>2. Reaches(j, k)
    <3>1. CASE j.more
      <4>1. PICK q \in j.page : TRUE
        BY <3>1
      <4>2. q \in Nat /\ q > j.key
        BY <1>3
      <4>3. k <= q
        BY <2>1, <4>2
      <4> QED
        BY <4>3 DEF Reaches
    <3>2. CASE ~j.more
      BY <3>2 DEF Reaches
    <3> QED
      BY <3>1, <3>2
  <2> QED
    BY <1>5, <2>1, <2>2
<1>8. listed \subseteq Told(pages2)
  <2> SUFFICES ASSUME NEW k \in listed PROVE k \in Told(pages2)
    OBVIOUS
  <2>1. k \in j.page /\ k \in Nat /\ k <= k
    BY <1>3
  <2>2. Reaches(j, k)
    BY <2>1 DEF Reaches
  <2> QED
    BY <1>5, <2>2
<1>9. Cardinality(Told(pages)) + Cardinality(listed) <= Cardinality(Told(pages2))
  <2>1. IsFiniteSet(Told(pages)) /\ IsFiniteSet(Told(pages2))
    BY ToldFacts
  <2> HIDE DEF listed
  <2> QED
    BY <1>2, <1>6, <1>7, <1>8, <2>1, UnionCounts
<1>10. ASSUME WholePage(j, lost)
       PROVE  Cardinality(Told(pages2) \cap kept)
                <= Cardinality(Told(pages) \cap kept) + Cardinality(listed)
  <2>1. Told(pages2) \cap kept \subseteq (Told(pages) \cap kept) \cup listed
    <3> SUFFICES ASSUME NEW k \in Told(pages2), k \in kept, k \notin listed
                 PROVE  k \in Told(pages)
      OBVIOUS
    <3>1. k \in Below \ Folders /\ Reaches(j, k) /\ k \in Nat /\ k \notin j.page
      BY <1>3, <1>5
    <3>2. <<j.acct, k>> \notin lost
      BY DEF Kept
    <3>3. ~(k > j.key)
      BY <1>10, <3>1, <3>2 DEF WholePage
    <3> QED
      BY <1>4, <3>1, <3>3
  <2>2. IsFiniteSet(Told(pages2) \cap kept) /\ IsFiniteSet(Told(pages) \cap kept)
    BY ToldFacts
  <2> HIDE DEF kept, listed
  <2> QED
    BY <1>2, <2>1, <2>2, UnionCounts
<1> QED
  BY <1>9, <1>10

\* The handlers of a folder download's pages keep its bulk sound.
ListedAs(c, b, j, bad, new, next) ==
  /\ bad \subseteq j.page \ Folders /\ IsFiniteSet(new)
  /\ Cardinality(new) = Cardinality((j.page \ Folders) \ bad)
  /\ IF j.more THEN \E p : next = {p} /\ p.key \in j.page /\ \A q \in j.page : q <= p.key
               ELSE next = {}
  /\ c \in BulkType /\ c.kind = b.kind /\ c.acct = b.acct /\ c.reports = b.reports
  /\ c.done = b.done /\ c.failed = b.failed + Cardinality(bad)
  /\ c.pending = b.pending + Cardinality(new)
  /\ c.listing <=> j.more
  /\ c.whole => b.whole /\ \A p \in next : p.acct = b.acct
\* A listed page: its files are taken and the next page is told.
LEMMA ListedIsSound ==
  ASSUME NEW b \in BulkType, NEW items, NEW pages, NEW lost, IsFiniteSet(items),
         Sound(b, items, pages, lost), b.kind = "FolderDownload",
         NEW j \in pages, j.page \subseteq Below, j.key \in Nat,
         \A k \in j.page : k > j.key, WholePage(j, lost),
         NEW bad, NEW new, NEW pages2, NEW c, ListedAs(c, b, j, bad, new, pages2),
         new \cap items = {}
  PROVE  Sound(c, items \cup new, pages2, lost) /\ c.reports = 0
<1>0. /\ bad \in SUBSET (j.page \ Folders) /\ IsFiniteSet(new)
      /\ Cardinality(new) = Cardinality((j.page \ Folders) \ bad)
      /\ IF j.more THEN \E p : pages2 = {p} /\ p.key \in j.page /\ \A q \in j.page : q <= p.key
                   ELSE pages2 = {}
      /\ c \in BulkType /\ c.kind = b.kind /\ c.acct = b.acct /\ c.reports = b.reports
      /\ c.done = b.done /\ c.failed = b.failed + Cardinality(bad)
      /\ c.pending = b.pending + Cardinality(new)
      /\ c.listing <=> j.more
      /\ c.whole => b.whole /\ \A p \in pages2 : p.acct = b.acct
  BY DEF ListedAs
<1> DEFINE listed == j.page \ Folders
<1>1. Counts(b, items, pages) /\ Reports(b, items, pages) /\ AddsUp(b, pages, lost)
  BY DEF Sound
<1>2. b.reports = 0
  BY <1>1 DEF Reports, BulkType
<1>3. Cardinality(bad) + Cardinality(new) = Cardinality(listed) /\ Cardinality(listed) \in Nat
      /\ Cardinality(bad) \in Nat /\ Cardinality(new) \in Nat
  <2>1. IsFiniteSet(listed)
    <3>1. listed \in SUBSET Below
      OBVIOUS
    <3> QED
      BY <3>1, KeyFacts, FS_Subset
  <2>0. bad \subseteq listed /\ Cardinality(new) = Cardinality(listed \ bad)
    BY <1>0
  <2>2. PICK rest : rest = listed \ bad
    OBVIOUS
  <2>3. IsFiniteSet(bad) /\ IsFiniteSet(rest)
    <3>1. bad \in SUBSET listed /\ rest \in SUBSET listed
      BY <2>2, <2>0
    <3> HIDE DEF listed
    <3> QED
      BY <2>1, <3>1, FS_Subset
  <2>4. rest \cap bad = {} /\ bad \cup rest = listed
    BY <2>2, <2>0
  <2>5. /\ Cardinality(bad) \in Nat /\ Cardinality(rest) \in Nat
        /\ Cardinality(bad \cup rest) = Cardinality(bad) + Cardinality(rest)
    BY <2>3, <2>4, CountAdded
  <2>6. Cardinality(new) = Cardinality(rest)
    BY <2>2, <2>0
  <2> HIDE DEF listed
  <2>8. PICK m, n : m = Cardinality(bad) /\ n = Cardinality(rest)
    OBVIOUS
  <2>9. Cardinality(listed) = Cardinality(bad \cup rest)
    BY <2>4, Zenon
  <2>10. Cardinality(listed) = m + n /\ m \in Nat /\ n \in Nat
    BY <2>5, <2>8, <2>9
  <2> QED
    BY <2>6, <2>8, <2>10
<1>4. /\ IsFiniteSet(items \cup new)
      /\ Cardinality(items \cup new) = Cardinality(items) + Cardinality(new)
  BY <1>0, CountAdded
<1>5. Counts(c, items \cup new, pages2)
  <2>1. c.pending = Cardinality(items \cup new)
    BY <1>0, <1>1, <1>4 DEF Counts
  <2>2. c.listing <=> pages2 # {}
    BY <1>0
  <2>3. \A x, y \in pages2 : x = y
    BY <1>0
  <2> QED
    BY <2>1, <2>2, <2>3 DEF Counts
<1>6. Reports(c, items \cup new, pages2) /\ c.reports = 0
  BY <1>0, <1>2 DEF Reports
<1>7. Taken(c) = Taken(b) + Cardinality(listed) /\ Taken(b) \in Nat
  BY <1>0, <1>3 DEF Taken, BulkType
<1>8. \A x, y \in pages : x = y
  BY <1>1 DEF Counts
<1>9. /\ Cardinality(Told(pages)) + Cardinality(listed) <= Cardinality(Told(pages2))
      /\ Cardinality(Told(pages2) \cap Kept(j.acct, lost))
           <= Cardinality(Told(pages) \cap Kept(j.acct, lost)) + Cardinality(listed)
  BY <1>0, <1>8, PageTells
<1>10. AddsUp(c, pages2, lost)
  <2>1. /\ Cardinality(Told(pages)) \in Nat /\ Cardinality(Told(pages2)) \in Nat
        /\ Cardinality(Told(pages) \cap Kept(b.acct, lost)) \in Nat
        /\ Cardinality(Told(pages2) \cap Kept(b.acct, lost)) \in Nat
    BY ToldFacts
  <2>2. Taken(c) <= Cardinality(Told(pages2))
    BY <1>0, <1>1, <1>3, <1>7, <1>9, <2>1 DEF AddsUp
  <2>3. ASSUME c.whole
        PROVE  /\ Taken(c) >= Cardinality(Told(pages2) \cap Kept(c.acct, lost))
               /\ \A p \in pages2 : p.acct = c.acct
    <3>1. j.acct = b.acct
      BY <1>0, <1>1, <2>3 DEF AddsUp
    <3>2. Taken(b) >= Cardinality(Told(pages) \cap Kept(b.acct, lost))
      BY <1>0, <1>1, <2>3 DEF AddsUp
    <3>3. Cardinality(Told(pages2) \cap Kept(b.acct, lost))
            <= Cardinality(Told(pages) \cap Kept(b.acct, lost)) + Cardinality(listed)
      BY <1>9, <3>1
    <3> HIDE DEF listed
    <3> QED
      BY <1>0, <1>3, <1>7, <2>1, <2>3, <3>2, <3>3
  <2> QED
    BY <1>0, <2>2, <2>3 DEF AddsUp
<1> QED
  BY <1>5, <1>6, <1>10 DEF Sound

\* A listing that failed leaves the bulk sound.
LEMMA NotListedIsSound ==
  ASSUME NEW b \in BulkType, NEW items, NEW pages, NEW lost, IsFiniteSet(items),
         Sound(b, items, pages, lost), b.kind = "FolderDownload", pages # {},
         NEW c \in BulkType, c.kind = b.kind, c.reports = b.reports,
         c.done = b.done, c.failed = b.failed, c.pending = b.pending, ~c.listing, ~c.whole
  PROVE  Sound(c, items, {}, lost) /\ c.reports = 0
<1>1. Counts(b, items, pages) /\ Reports(b, items, pages) /\ AddsUp(b, pages, lost)
  BY DEF Sound
<1>2. c.reports = 0
  BY <1>1 DEF Reports, BulkType
<1>3. Counts(c, items, {})
  BY <1>1 DEF Counts
<1>4. Cardinality(Told(pages)) <= Cardinality(Told({}))
  <2>1. Told(pages) \in SUBSET Told({})
    BY DEF Told
  <2> QED
    BY <2>1, ToldFacts, FS_Subset
<1>5. AddsUp(c, {}, lost)
  <2>1. Cardinality(Told(pages)) \in Nat /\ Cardinality(Told({})) \in Nat
    BY ToldFacts
  <2>2. Taken(c) = Taken(b) /\ Taken(b) \in Nat
    BY DEF Taken, BulkType
  <2>3. Taken(c) <= Cardinality(Told({}))
    BY <1>1, <1>4, <2>1, <2>2 DEF AddsUp
  <2> QED
    BY <2>3 DEF AddsUp
<1> QED
  BY <1>2, <1>3, <1>5 DEF Sound, Reports

\* So do the handlers of a clean-up's listing, and of an item.
LEMMA ClaimedIsSound ==
  ASSUME NEW b \in BulkType, NEW items, NEW pages, NEW lost, IsFiniteSet(items),
         Sound(b, items, pages, lost), b.kind = "AbortUploads", pages # {},
         NEW claims \in SUBSET Uploads, claims \cap b.claimed = {},
         NEW new, IsFiniteSet(new), new \cap items = {},
         Cardinality(new) = Cardinality(claims),
         NEW c \in BulkType, c.kind = b.kind, c.reports = b.reports,
         c.done = b.done, c.failed = b.failed, c.pending = b.pending + Cardinality(claims),
         c.claimed = b.claimed \cup claims, ~c.listing
  PROVE  Sound(c, items \cup new, {}, lost) /\ c.reports = 0
<1>1. Counts(b, items, pages) /\ Reports(b, items, pages) /\ AddsUp(b, pages, lost)
  BY DEF Sound
<1>2. c.reports = 0
  BY <1>1 DEF Reports, BulkType
<1>3. Counts(c, items \cup new, {})
  <2>1. /\ IsFiniteSet(items \cup new)
        /\ Cardinality(items \cup new) = Cardinality(items) + Cardinality(new)
    BY CountAdded
  <2> QED
    BY <1>1, <2>1 DEF Counts
<1>4. /\ Cardinality(b.claimed) \in Nat /\ Cardinality(claims) \in Nat
      /\ Cardinality(c.claimed) = Cardinality(b.claimed) + Cardinality(claims)
  <2>1. IsFiniteSet(b.claimed) /\ IsFiniteSet(claims)
    <3>1. b.claimed \in SUBSET Uploads
      BY DEF BulkType
    <3> QED
      BY <3>1, KeyFacts, FS_Subset
  <2>2. PICK old : old = b.claimed
    OBVIOUS
  <2>3. claims \cap old = {} /\ IsFiniteSet(old) /\ c.claimed = old \cup claims
    BY <2>1, <2>2
  <2>4. /\ Cardinality(old) \in Nat /\ Cardinality(claims) \in Nat
        /\ Cardinality(old \cup claims) = Cardinality(old) + Cardinality(claims)
    BY <2>1, <2>3, CountAdded
  <2> QED
    BY <2>2, <2>3, <2>4
<1>5. AddsUp(c, {}, lost)
  <2>1. Taken(c) = Taken(b) + Cardinality(claims) /\ Taken(b) \in Nat
    BY <1>4 DEF Taken, BulkType
  <2>2. Taken(b) <= Cardinality(b.claimed)
    BY <1>1 DEF AddsUp
  <2>3. Taken(c) <= Cardinality(c.claimed)
    BY <1>4, <2>1, <2>2
  <2> QED
    BY <2>3 DEF AddsUp
<1> QED
  BY <1>2, <1>3, <1>5 DEF Sound, Reports

\* A handled item leaves the bulk sound: it moves from pending to done or failed.
LEMMA CountedIsSound ==
  ASSUME NEW b \in BulkType, NEW items, NEW pages, NEW lost, IsFiniteSet(items),
         Sound(b, items, pages, lost), NEW j \in items,
         NEW c \in BulkType, c.kind = b.kind, c.acct = b.acct, c.reports = b.reports,
         c.listing = b.listing, c.claimed = b.claimed, c.whole = b.whole,
         c.pending = b.pending - 1,
         \/ c.done = b.done + 1 /\ c.failed = b.failed
         \/ c.done = b.done /\ c.failed = b.failed + 1
         \/ c.done = b.done /\ c.failed = b.failed /\ b.kind # "FolderDownload"
  PROVE  Sound(c, items \ {j}, pages, lost) /\ c.reports = 0
<1>1. Counts(b, items, pages) /\ Reports(b, items, pages) /\ AddsUp(b, pages, lost)
  BY DEF Sound
<1>2. c.reports = 0
  BY <1>1 DEF Reports, BulkType
<1>3. Cardinality(items \ {j}) = Cardinality(items) - 1
  BY FS_RemoveElement
<1>4. Counts(c, items \ {j}, pages)
  BY <1>1, <1>3 DEF Counts
<1>5. AddsUp(c, pages, lost)
  <2>1. /\ Taken(b) \in Nat /\ Taken(c) \in Nat /\ Taken(c) <= Taken(b)
        /\ b.kind = "FolderDownload" => Taken(c) = Taken(b)
    BY DEF Taken, BulkType
  <2>2. CASE b.kind = "FolderDownload"
    BY <1>1, <2>1, <2>2 DEF AddsUp
  <2>3. CASE b.kind # "FolderDownload"
    <3>1. Cardinality(b.claimed) \in Nat
      <4>1. b.claimed \in SUBSET Uploads
        BY DEF BulkType
      <4> QED
        BY <4>1, KeyFacts, FS_Subset, FS_CardinalityType
    <3>2. Taken(b) <= Cardinality(b.claimed)
      BY <1>1, <2>3 DEF AddsUp
    <3> QED
      BY <2>1, <2>3, <3>1, <3>2 DEF AddsUp
  <2> QED
    BY <2>2, <2>3
<1> QED
  BY <1>2, <1>4, <1>5 DEF Sound, Reports

-----------------------------------------------------------------------------
(* What the steps do to the jobs *)

\* Whatever a step takes away, new jobs have ids of their own.
LEMMA NewIds ==
  ASSUME TypeOK, IdsFit, NEW old, old \subseteq jobs, NEW new, Batch(new),
         jobs' = old \cup new, nextId' = nextId + Cardinality(new)
  PROVE  /\ IdsFit' /\ jobs' \subseteq JobType /\ IsFiniteSet(jobs')
         /\ nextId' \in Nat \ {0} /\ new \cap jobs = {}
<1>1. /\ nextId \in Nat \ {0} /\ jobs \subseteq JobType /\ IsFiniteSet(jobs)
      /\ new \subseteq JobType /\ IsFiniteSet(new) /\ Cardinality(new) \in Nat
  BY FS_CardinalityType DEF TypeOK, Batch
<1>2. \A j \in jobs : j.id \in Nat /\ j.id < nextId /\ j.id < nextId'
  BY <1>1 DEF IdsFit, JobType
<1>3. \A j \in new : j.id \in Nat /\ nextId <= j.id /\ j.id < nextId'
  BY <1>1 DEF Batch, JobType
<1>4. new \cap jobs = {}
  <2> SUFFICES ASSUME NEW j \in new, j \in jobs PROVE FALSE
    OBVIOUS
  <2>1. j.id < nextId /\ nextId <= j.id /\ j.id \in Nat
    BY <1>2, <1>3
  <2> QED
    BY <1>1, <2>1
<1>5. \A i \in jobs, j \in new : i.id # j.id
  <2> SUFFICES ASSUME NEW i \in jobs, NEW j \in new, i.id = j.id PROVE FALSE
    OBVIOUS
  <2>1. i.id < nextId /\ nextId <= j.id /\ j.id \in Nat
    BY <1>2, <1>3
  <2> QED
    BY <1>1, <2>1
<1>6. IdsFit'
  <2>1. \A j \in jobs' : j.id < nextId'
    BY <1>2, <1>3
  <2>2. ASSUME NEW i \in jobs', NEW j \in jobs', i.id = j.id PROVE i = j
    <3>1. (i \in jobs \/ i \in new) /\ (j \in jobs \/ j \in new)
      OBVIOUS
    <3>2. \A k, l \in jobs : k.id = l.id => k = l
      BY DEF IdsFit
    <3>3. \A k, l \in new : k.id = l.id => k = l
      BY DEF Batch
    <3> QED
      BY <1>5, <2>2, <3>1, <3>2, <3>3
  <2> QED
    BY <2>1, <2>2 DEF IdsFit
<1>7. IsFiniteSet(jobs')
  <2>1. IsFiniteSet(old)
    BY <1>1, FS_Subset
  <2> QED
    BY <1>1, <2>1, FS_Union
<1> QED
  BY <1>1, <1>4, <1>6, <1>7

\* The items of a bulk can be counted.
LEMMA BulkJobsFinite ==
  ASSUME TypeOK, NEW b
  PROVE  IsFiniteSet(JobsOf(b)) /\ IsFiniteSet(Listings(b))
<1>1. JobsOf(b) \in SUBSET jobs /\ Listings(b) \in SUBSET jobs
  BY DEF JobsOf, Listings
<1> QED
  BY <1>1, FS_Subset DEF TypeOK

\* What holds of a job goes on holding while its bulk keeps its kind, and while
\* nothing is undeleted, and nothing that was asked for is forgotten.
LEMMA JobLasts ==
  ASSUME NEW j, JobFits(j),
         \A b \in DOMAIN bulks : b \in DOMAIN bulks' /\ bulks'[b].kind = bulks[b].kind,
         gone \subseteq gone', asked \subseteq asked', misnamed \subseteq misnamed',
         switched => switched', switched' \/ config' = config
  PROVE  JobFits(j)'
<1>1. Fits(j)'
  BY DEF JobFits, Fits
<1>2. BulkFits(j)'
  BY DEF JobFits, BulkFits
<1>3. PageFits(j)'
  BY DEF JobFits, PageFits, WholePage
<1>4. IsAsked(j)'
  BY DEF JobFits, IsAsked, Wanted
<1> QED
  BY <1>1, <1>2, <1>3, <1>4 DEF JobFits

-----------------------------------------------------------------------------
(* Executing a job *)

\* A page is the first keys after its token.
LEMMA PageFacts ==
  ASSUME TypeOK, NEW a \in Accounts, NEW token \in Nat, NEW scope \in SUBSET Keys
  PROVE  LET rest == {k \in objects[a] \cap scope : k > token}
         IN  /\ Page(a, token, scope) \subseteq rest
             /\ rest # {} => Page(a, token, scope) # {}
             /\ \A k \in rest, q \in Page(a, token, scope) : k <= q => k \in Page(a, token, scope)
<1> DEFINE rest == {k \in objects[a] \cap scope : k > token}
           L(k) == {q \in rest : q < k}
<1>1. rest \in SUBSET Keys
  OBVIOUS
<1>2. IsFiniteSet(rest) /\ rest \subseteq Nat
  BY <1>1, KeyFacts, FS_Subset
<1>3. Page(a, token, scope) = {k \in rest : Cardinality(L(k)) < PageSize}
  BY DEF Page
<1>4. PageSize \in Nat \ {0}
  BY BulkBoundsAssumption
<1> HIDE DEF rest
<1>5. ASSUME rest # {} PROVE Page(a, token, scope) # {}
  <2>1. PICK k \in rest : \A q \in rest : k <= q
    BY <1>2, <1>5, Extremes
  <2>2. L(k) = {}
    <3> SUFFICES ASSUME NEW q \in rest, q < k PROVE FALSE
      OBVIOUS
    <3>1. k \in Nat /\ q \in Nat /\ k <= q
      BY <1>2, <2>1
    <3> QED
      BY <3>1
  <2>3. Cardinality(L(k)) = 0
    BY <2>2, FS_EmptySet
  <2> HIDE DEF L
  <2> QED
    BY <1>3, <1>4, <2>1, <2>3
<1>6. ASSUME NEW k \in rest, NEW q \in Page(a, token, scope), k <= q
      PROVE  k \in Page(a, token, scope)
  <2>1. q \in rest /\ Cardinality(L(q)) < PageSize
    BY <1>3
  <2>2. CASE k = q
    BY <2>2
  <2>3. CASE k < q
    <3>1. /\ Cardinality(L(k)) \in Nat
          /\ \A l \in rest : k < l => Cardinality(L(k)) < Cardinality(L(l))
      BY <1>2, CountSmaller
    <3>2. Cardinality(L(q)) \in Nat
      BY <1>2, <2>1, CountSmaller
    <3> HIDE DEF L
    <3>3. Cardinality(L(k)) < PageSize
      BY <1>4, <2>1, <2>3, <3>1, <3>2
    <3> QED
      BY <1>3, <3>3
  <2>4. k \in Nat /\ q \in Nat
    BY <1>2, <2>1
  <2> QED
    BY <1>6, <2>2, <2>3, <2>4
<1>7. Page(a, token, scope) \subseteq rest
  BY <1>3
<1> QED
  BY <1>5, <1>6, <1>7 DEF rest

\* The keys that a page which says so leaves to no other.
Left(j, token) == IF token THEN {} ELSE Unlisted(j)

\* A job that was executed: what it is about stays, and what it found is whole
\* but for what was left out.
LEMMA FoundIsWhole ==
  ASSUME TypeOK, MissingIsGone, NEW j \in jobs, JobFits(j), Possible(j),
         j.kind \in {"DeletePrefixPage", "DownloadPrefixPage"},
         NEW token \in BOOLEAN, NEW e, e.acct = j.acct, e.key = j.key, e.page = Listing(j),
         e.more <=> token /\ Unlisted(j) # {}
  PROVE  /\ e.page \subseteq j.scope
         /\ e.more => e.page # {}
         /\ \A k \in e.page : k > e.key
         /\ j.scope = Below => WholePage(e, gone \cup ({j.acct} \X Left(j, token)))
<1> DEFINE rest == {k \in objects[j.acct] \cap j.scope : k > j.key}
           lost == gone \cup ({j.acct} \X Left(j, token))
<1>1. j.acct \in Accounts /\ j.key \in Nat /\ j.scope \in SUBSET Keys
  BY JobFacts DEF Possible, JobFits, Fits
<1>2. e.page = Page(j.acct, j.key, j.scope)
  BY DEF Listing, Pages
<1>3. /\ e.page \subseteq rest
      /\ rest # {} => e.page # {}
      /\ \A k \in rest, q \in e.page : k <= q => k \in e.page
  BY <1>1, <1>2, PageFacts
<1>4. Unlisted(j) = {k \in rest : k \notin e.page}
  BY DEF Unlisted
<1>5. ASSUME j.scope = Below PROVE WholePage(e, lost)
  <2> SUFFICES ASSUME NEW k \in Below, k > e.key, Reaches(e, k), k \notin e.page
               PROVE  <<e.acct, k>> \in lost
    BY DEF WholePage
  <2>1. CASE k \in rest
    <3>1. k \in Unlisted(j)
      BY <1>4, <2>1
    <3>2. CASE token
      <4>1. e.more
        BY <3>1, <3>2
      <4>2. PICK q \in e.page : k <= q
        BY <4>1 DEF Reaches
      <4> HIDE DEF rest
      <4> QED
        BY <1>3, <2>1, <4>2
    <3>3. CASE ~token
      BY <3>1, <3>3 DEF Left
    <3> QED
      BY <3>2, <3>3
  <2>2. CASE k \notin rest
    <3>1. k \notin objects[j.acct]
      BY <1>5, <2>2
    <3> QED
      BY <1>1, <3>1 DEF MissingIsGone
  <2> QED
    BY <2>1, <2>2
<1>6. e.page \subseteq j.scope /\ (e.more => e.page # {}) /\ \A k \in e.page : k > e.key
  <2>1. \A k \in rest : k \in j.scope /\ k > e.key
    OBVIOUS
  <2>2. e.more => rest # {}
    BY <1>4
  <2> HIDE DEF rest
  <2> QED
    BY <1>3, <2>1, <2>2
<1> QED
  BY <1>5, <1>6

\* What a request does at the service keeps what is missing accounted for.
LEMMA ApplyKeeps ==
  ASSUME TypeOK, MissingIsGone, NEW j \in jobs, JobFits(j), Possible(j),
         NEW left \in SUBSET Keys, Apply(j, left)
  PROVE  /\ objects' \in [Accounts -> SUBSET Keys]
         /\ incomplete' \in [Accounts -> SUBSET Uploads]
         /\ gone' \subseteq Accounts \X Keys /\ gone \subseteq gone' /\ MissingIsGone'
<1>1. /\ objects \in [Accounts -> SUBSET Keys] /\ incomplete \in [Accounts -> SUBSET Uploads]
      /\ gone \subseteq Accounts \X Keys /\ j.acct \in Accounts
  BY DEF TypeOK, JobType, Possible
<1>2. /\ j.kind \in Deletes \cup {"CreateObject", "UploadManual"} => j.key \in Keys
      /\ j.kind = "RenameCopy" => j.dst \in Keys
  BY DEF JobFits, Fits
<1>3. incomplete' \in [Accounts -> SUBSET Uploads]
  BY <1>1 DEF Apply
<1>4. CASE j.kind \in Deletes
  <2>1. /\ objects' = [objects EXCEPT ![j.acct] = objects[j.acct] \ {j.key}]
        /\ gone' = gone \cup ({j.acct} \X (left \cup {j.key}))
    BY <1>4 DEF Apply, Deletes
  <2>2. MissingIsGone'
    BY <1>1, <2>1 DEF MissingIsGone
  <2> QED
    BY <1>1, <1>2, <1>3, <1>4, <2>1, <2>2
<1>5. CASE j.kind \notin Deletes
  <2>1. gone' = gone \cup ({j.acct} \X left)
    BY <1>5 DEF Apply
  <2>2. \E k \in Keys : \/ objects' = [objects EXCEPT ![j.acct] = objects[j.acct] \cup {k}]
                        \/ objects' = objects
    <3>1. CASE j.kind = "RenameCopy"
      BY <1>2, <1>5, <3>1 DEF Apply
    <3>2. CASE j.kind \in {"CreateObject", "UploadManual"}
      BY <1>2, <1>5, <3>2 DEF Apply
    <3>3. CASE j.kind \notin {"RenameCopy", "CreateObject", "UploadManual"}
      BY <1>5, <3>3 DEF Apply, Keys
    <3> QED
      BY <3>1, <3>2, <3>3
  <2>3. \A a \in Accounts : objects[a] \subseteq objects'[a]
    BY <1>1, <2>2
  <2>4. MissingIsGone'
    BY <2>1, <2>3 DEF MissingIsGone
  <2> QED
    BY <1>1, <1>3, <2>1, <2>2, <2>4
<1> QED
  BY <1>4, <1>5

\* A job that was executed has its outcome, and fits.
SameJob(e, j) ==
  /\ e \in JobType /\ e.id = j.id /\ e.kind = j.kind /\ e.acct = j.acct
  /\ e.key = j.key /\ e.dst = j.dst /\ e.bulk = j.bulk /\ e.scope = j.scope
  /\ e.status \in Results

\* What a job that ended leaves of the records of keys.
RecordsGrow ==
  /\ gone \subseteq gone' /\ asked \subseteq asked' /\ asked' \subseteq Accounts \X Keys
  /\ misnamed' = misnamed

\* The keys that follow a page are keys.
LEMMA UnlistedAreKeys ==
  ASSUME TypeOK, NEW j \in jobs, j.acct \in Accounts, NEW token \in BOOLEAN
  PROVE  Left(j, token) \in SUBSET Keys
<1>1. objects[j.acct] \subseteq Keys
  BY DEF TypeOK
<1>2. Unlisted(j) \subseteq objects[j.acct]
  BY DEF Unlisted
<1> QED
  BY <1>1, <1>2 DEF Left

\* What a successful job did at the service.
LEMMA SucceedApplies ==
  ASSUME BulkInv, NEW j \in jobs, Possible(j), NEW token \in BOOLEAN,
         \/ Apply(j, Left(j, token))
         \/ j.kind = "RenameCopy" /\ UNCHANGED <<objects, incomplete, gone>>
  PROVE  /\ objects' \in [Accounts -> SUBSET Keys]
         /\ incomplete' \in [Accounts -> SUBSET Uploads]
         /\ gone' \subseteq Accounts \X Keys /\ gone \subseteq gone' /\ MissingIsGone'
         /\ j.kind # "RenameCopy" => {j.acct} \X Left(j, token) \subseteq gone'
<1>1. TypeOK /\ MissingIsGone /\ JobFits(j) /\ j.acct \in Accounts
  BY JobFacts DEF BulkInv, JobsFit, Possible
<1>2. CASE Apply(j, Left(j, token))
  <2>1. PICK left \in SUBSET Keys : left = Left(j, token)
    BY <1>1, UnlistedAreKeys
  <2>2. Apply(j, left)
    BY <1>2, <2>1
  <2>3. {j.acct} \X left \subseteq gone'
    BY <2>2 DEF Apply
  <2> QED
    BY <1>1, <2>1, <2>2, <2>3, ApplyKeeps
<1>3. CASE j.kind = "RenameCopy" /\ UNCHANGED <<objects, incomplete, gone>>
  BY <1>1, <1>3 DEF TypeOK, MissingIsGone
<1> QED
  BY <1>2, <1>3

\* What a successful job leaves: only its status and its page change.
LEMMA SucceedIs ==
  ASSUME BulkInv, NEW j \in jobs, Succeed(j), UNCHANGED <<sessionVars, bulks, misnamed>>
  PROVE  \E e : /\ SameJob(e, j) /\ jobs' = (jobs \ {j}) \cup {e} /\ JobFits(e)'
                /\ RecordsGrow
<1>1. /\ TypeOK /\ MissingIsGone /\ JobFits(j) /\ Possible(j) /\ misnamed' = misnamed
      /\ switched' = switched /\ config' = config /\ bulks' = bulks
  BY DEF BulkInv, JobsFit, Succeed, sessionVars
<1>2. j \in JobType /\ j.acct \in Accounts
  BY <1>1, JobFacts DEF Possible
<1>0. PICK token \in BOOLEAN :
        /\ jobs' = (jobs \ {j}) \cup {[j EXCEPT
             !.status = "Completed", !.page = Listing(j), !.more = token /\ Unlisted(j) # {}]}
        /\ \/ Apply(j, Left(j, token))
           \/ j.kind = "RenameCopy" /\ UNCHANGED <<objects, incomplete, gone>>
  BY DEF Succeed, Left
<1>3. PICK e : e = [j EXCEPT !.status = "Completed", !.page = Listing(j),
                             !.more = token /\ Unlisted(j) # {}]
  OBVIOUS
<1>4. /\ e.id = j.id /\ e.kind = j.kind /\ e.acct = j.acct /\ e.key = j.key
      /\ e.dst = j.dst /\ e.bulk = j.bulk /\ e.scope = j.scope
      /\ e.status = "Completed" /\ e.page = Listing(j) /\ e.more \in BOOLEAN
      /\ e.more <=> token /\ Unlisted(j) # {}
  BY <1>2, <1>3 DEF JobType
<1>5. jobs' = (jobs \ {j}) \cup {e}
  BY <1>0, <1>3
<1>6. /\ gone \subseteq gone' /\ MissingIsGone'
      /\ j.kind # "RenameCopy" => {j.acct} \X Left(j, token) \subseteq gone'
  BY <1>0, <1>1, SucceedApplies
<1>7. /\ j.kind \in {"DeletePrefixPage", "DownloadPrefixPage"} =>
           /\ e.page \subseteq j.scope
           /\ e.more => e.page # {}
           /\ \A k \in e.page : k > e.key
           /\ j.scope = Below => WholePage(e, gone \cup ({j.acct} \X Left(j, token)))
      /\ j.kind = "ListIncompleteUploads" => e.page \subseteq Uploads
      /\ j.kind \notin Pages => e.page = {}
  <2>1. ASSUME j.kind \in {"DeletePrefixPage", "DownloadPrefixPage"}
        PROVE  /\ e.page \subseteq j.scope
               /\ e.more => e.page # {}
               /\ \A k \in e.page : k > e.key
               /\ j.scope = Below => WholePage(e, gone \cup ({j.acct} \X Left(j, token)))
    BY <1>1, <1>4, <2>1, FoundIsWhole
  <2>2. ASSUME j.kind = "ListIncompleteUploads" PROVE e.page \subseteq Uploads
    <3>1. incomplete \in [Accounts -> SUBSET Uploads]
      BY <1>1 DEF TypeOK
    <3>2. incomplete[j.acct] \subseteq Uploads
      BY <1>2, <3>1
    <3>3. e.page = incomplete[j.acct]
      BY <1>4, <2>2 DEF Listing
    <3> QED
      BY <3>2, <3>3
  <2>3. ASSUME j.kind \notin Pages PROVE e.page = {}
    BY <1>4, <2>3 DEF Listing, Pages
  <2> QED
    BY <2>1, <2>2, <2>3
<1>8. e.page \subseteq Keys \cup Uploads
  <2>1. j.kind \in {"DeletePrefixPage", "DownloadPrefixPage"} => j.scope \subseteq Keys
    BY <1>1 DEF JobFits, Fits
  <2> QED
    BY <1>4, <1>7, <2>1 DEF Pages
<1>9. SameJob(e, j)
  <2>1. e \in JobType
    BY <1>2, <1>3, <1>4, <1>8 DEF JobType, Results
  <2> QED
    BY <1>4, <2>1 DEF SameJob, Results
<1>10. asked \subseteq asked' /\ asked' \subseteq Accounts \X Keys
  <2>1. asked \subseteq Accounts \X Keys
    BY <1>1 DEF TypeOK
  <2>2. j.kind = "RenameCopy" => j.key \in Keys
    BY <1>1 DEF JobFits, Fits
  <2>3. asked' = IF j.kind = "RenameCopy" THEN asked \cup {<<j.acct, j.key>>} ELSE asked
    BY DEF Succeed
  <2> QED
    BY <1>2, <2>1, <2>2, <2>3
<1>11. JobFits(e)'
  <2>1. Fits(e)'
    BY <1>1, <1>4, <1>7 DEF JobFits, Fits
  <2>2. BulkFits(e)'
    BY <1>1, <1>4 DEF JobFits, BulkFits
  <2>3. PageFits(e)'
    <3> SUFFICES ASSUME e.kind = "DownloadPrefixPage"
                 PROVE  (\A k \in e.page : k > e.key) /\ WholePage(e, gone')
      BY DEF PageFits
    <3>1. j.scope = Below
      BY <1>1, <1>4 DEF JobFits, Fits
    <3>2. gone \cup ({j.acct} \X Left(j, token)) \subseteq gone'
      BY <1>4, <1>6
    <3>3. WholePage(e, gone \cup ({j.acct} \X Left(j, token))) /\ \A k \in e.page : k > e.key
      BY <1>4, <1>7, <3>1
    <3> QED
      BY <3>2, <3>3 DEF WholePage
  <2>4. IsAsked(e)'
    <3>1. j.kind = "RenameCopy" => <<j.acct, j.key>> \in asked'
      BY DEF Succeed
    <3> QED
      BY <1>1, <1>4, <1>10, <3>1 DEF JobFits, IsAsked, Wanted
  <2> QED
    BY <2>1, <2>2, <2>3, <2>4 DEF JobFits
<1> QED
  BY <1>1, <1>5, <1>6, <1>9, <1>10, <1>11 DEF RecordsGrow

\* What a failed job leaves: only its status changes.
LEMMA NotSucceedIs ==
  ASSUME BulkInv, NEW j \in jobs, NotSucceed(j), UNCHANGED <<sessionVars, bulks, misnamed>>
  PROVE  \E e : /\ SameJob(e, j) /\ jobs' = (jobs \ {j}) \cup {e} /\ JobFits(e)'
                /\ RecordsGrow
<1>1. /\ TypeOK /\ MissingIsGone /\ JobFits(j) /\ asked' = asked /\ misnamed' = misnamed
      /\ switched' = switched /\ config' = config /\ bulks' = bulks
  BY DEF BulkInv, JobsFit, NotSucceed, sessionVars
<1>2. PICK r \in Results \ {"Completed"} :
        /\ jobs' = (jobs \ {j}) \cup {[j EXCEPT !.status = r]}
        /\ \/ UNCHANGED <<objects, incomplete, gone>>
           \/ r # "Denied" /\ Possible(j) /\ Apply(j, {})
  BY DEF NotSucceed
<1>3. j \in JobType
  BY <1>1, JobFacts
<1>4. PICK e : e = [j EXCEPT !.status = r]
  OBVIOUS
<1>5. /\ e \in JobType /\ e.id = j.id /\ e.kind = j.kind /\ e.acct = j.acct
      /\ e.key = j.key /\ e.dst = j.dst /\ e.bulk = j.bulk /\ e.scope = j.scope
      /\ e.status = r /\ e.page = j.page /\ e.more = j.more
  BY <1>2, <1>3, <1>4 DEF JobType
<1>6. SameJob(e, j) /\ e.status # "Completed"
  BY <1>2, <1>5 DEF SameJob
<1>7. gone \subseteq gone'
  BY <1>2 DEF Apply
<1>8. JobFits(e)'
  <2>1. Fits(e)'
    BY <1>1, <1>5 DEF JobFits, Fits
  <2>2. BulkFits(e)'
    BY <1>1, <1>5 DEF JobFits, BulkFits
  <2>3. PageFits(e)'
    BY <1>1, <1>5, <1>6 DEF JobFits, PageFits
  <2>4. IsAsked(e)'
    BY <1>1, <1>5, <1>6 DEF JobFits, IsAsked, Wanted
  <2> QED
    BY <2>1, <2>2, <2>3, <2>4 DEF JobFits
<1>9. asked \subseteq Accounts \X Keys
  BY <1>1 DEF TypeOK
<1> QED
  BY <1>1, <1>2, <1>4, <1>6, <1>7, <1>8, <1>9 DEF RecordsGrow

\* A request at the service keeps the types of what the accounts hold.
LEMMA StoreKeeps ==
  ASSUME BulkInv, NEW j \in jobs, Succeed(j) \/ NotSucceed(j)
  PROVE  /\ objects' \in [Accounts -> SUBSET Keys]
         /\ incomplete' \in [Accounts -> SUBSET Uploads]
         /\ gone' \subseteq Accounts \X Keys /\ MissingIsGone'
<1>1. TypeOK /\ MissingIsGone /\ JobFits(j)
  BY DEF BulkInv, JobsFit
<1>2. CASE Succeed(j)
  <2>1. Possible(j) /\ \E token \in BOOLEAN :
          \/ Apply(j, Left(j, token))
          \/ j.kind = "RenameCopy" /\ UNCHANGED <<objects, incomplete, gone>>
    BY <1>2 DEF Succeed, Left
  <2> QED
    BY <2>1, SucceedApplies
<1>3. CASE NotSucceed(j)
  <2>1. CASE UNCHANGED <<objects, incomplete, gone>>
    BY <1>1, <2>1 DEF TypeOK, MissingIsGone
  <2>2. CASE Possible(j) /\ Apply(j, {})
    <3>1. PICK left \in SUBSET Keys : left = {}
      OBVIOUS
    <3> QED
      BY <1>1, <2>2, <3>1, ApplyKeeps
  <2> QED
    BY <1>3, <2>1, <2>2 DEF NotSucceed
<1> QED
  BY <1>2, <1>3

\* The type and the place of a bulk.
LEMMA BulkFacts ==
  ASSUME TypeOK, NEW b \in DOMAIN bulks
  PROVE  bulks[b] \in BulkType /\ b \in Nat /\ b > 0 /\ b <= Len(bulks)
BY DEF TypeOK

\* The workers keep the invariant.
LEMMA ExecuteKeeps ==
  ASSUME BulkInv, NEW lane, Execute(lane)
  PROVE  BulkInv'
<1>1. PICK j \in jobs :
        /\ j.status = "queued" /\ (Succeed(j) \/ NotSucceed(j))
        /\ UNCHANGED <<sessionVars, journal, nextId, bulks, boxes, dialog, asks, misnamed>>
  BY DEF Execute
<1>2. /\ UNCHANGED <<sessionVars, bulks, misnamed>>
      /\ config' = config /\ connected' = connected /\ switches' = switches
      /\ switched' = switched /\ journal' = journal /\ nextId' = nextId
      /\ bulks' = bulks /\ boxes' = boxes /\ dialog' = dialog /\ asks' = asks
  BY <1>1 DEF sessionVars
<1>3. PICK e : /\ SameJob(e, j) /\ jobs' = (jobs \ {j}) \cup {e} /\ JobFits(e)'
               /\ gone \subseteq gone' /\ asked \subseteq asked'
               /\ asked' \subseteq Accounts \X Keys /\ misnamed' = misnamed
  BY <1>1, <1>2, SucceedIs, NotSucceedIs DEF RecordsGrow
<1>4. /\ objects' \in [Accounts -> SUBSET Keys]
      /\ incomplete' \in [Accounts -> SUBSET Uploads]
      /\ gone' \subseteq Accounts \X Keys /\ MissingIsGone'
  BY <1>1, StoreKeeps
<1>5. /\ TypeOK /\ ConnectedFits /\ JobsFit /\ IdsFit /\ BoxesFit /\ BulksAreSound
  BY DEF BulkInv
<1>6. /\ e.id = j.id /\ e.kind = j.kind /\ e.acct = j.acct /\ e.key = j.key
      /\ e.bulk = j.bulk /\ e.status # "queued" /\ e \in JobType
  BY <1>3 DEF SameJob, Results
<1>7. e \notin jobs
  BY <1>1, <1>5, <1>6 DEF IdsFit
<1>8. TypeOK'
  <2>1. jobs' \subseteq JobType /\ IsFiniteSet(jobs')
    <3>1. jobs \subseteq JobType /\ IsFiniteSet(jobs)
      BY <1>5 DEF TypeOK
    <3>2. IsFiniteSet(jobs \ {j})
      BY <3>1, FS_RemoveElement
    <3>3. IsFiniteSet((jobs \ {j}) \cup {e})
      BY <3>2, FS_AddElement
    <3> QED
      BY <1>3, <1>6, <3>1, <3>3
  <2> QED
    BY <1>2, <1>3, <1>4, <1>5, <2>1 DEF TypeOK
<1>9. JobsFit'
  <2> SUFFICES ASSUME NEW i \in jobs' PROVE JobFits(i)'
    BY DEF JobsFit
  <2>1. CASE i \in jobs
    <3>1. JobFits(i)
      BY <1>5, <2>1 DEF JobsFit
    <3> QED
      BY <1>2, <1>3, <3>1, JobLasts
  <2>2. CASE i = e
    BY <1>3, <2>2
  <2> QED
    BY <1>3, <2>1, <2>2
<1>10. IdsFit'
  BY <1>2, <1>3, <1>5, <1>6 DEF IdsFit
<1>11. BulksAreSound'
  <2> SUFFICES ASSUME NEW b \in DOMAIN bulks
               PROVE  Sound(bulks[b], JobsOf(b)', Listings(b)', gone')
    BY <1>2 DEF BulksAreSound
  <2>1. bulks[b] \in BulkType /\ Sound(bulks[b], JobsOf(b), Listings(b), gone)
    BY <1>5, BulkFacts DEF BulksAreSound
  <2>2. IF j \in JobsOf(b)
        THEN e \notin JobsOf(b) /\ JobsOf(b)' = (JobsOf(b) \ {j}) \cup {e}
        ELSE JobsOf(b)' = JobsOf(b)
    BY <1>3, <1>6, <1>7 DEF JobsOf
  <2>3. IF j \in Listings(b) THEN Listings(b)' = (Listings(b) \ {j}) \cup {e}
                             ELSE Listings(b)' = Listings(b)
    BY <1>3, <1>6, <1>7 DEF Listings
  <2>4. IsFiniteSet(JobsOf(b))
    BY <1>5, BulkJobsFinite
  <2> QED
    BY <1>3, <1>6, <2>1, <2>2, <2>3, <2>4, ExecutedIsSound
<1>12. ConnectedFits' /\ BoxesFit'
  BY <1>2, <1>5 DEF ConnectedFits, BoxesFit
<1> QED
  BY <1>4, <1>8, <1>9, <1>10, <1>11, <1>12 DEF BulkInv

-----------------------------------------------------------------------------
(* Handling a completion *)

\* Replacing a member of a sequence, and adding one.
LEMMA SeqFacts ==
  ASSUME NEW S, NEW s \in Seq(S)
  PROVE  /\ \A i \in DOMAIN s, v \in S :
              /\ [s EXCEPT ![i] = v] \in Seq(S) /\ Len([s EXCEPT ![i] = v]) = Len(s)
              /\ DOMAIN [s EXCEPT ![i] = v] = DOMAIN s
         /\ \A v \in S :
              /\ Append(s, v) \in Seq(S) /\ Len(Append(s, v)) = Len(s) + 1
              /\ \A i \in DOMAIN Append(s, v) :
                   \/ i \in DOMAIN s /\ Append(s, v)[i] = s[i]
                   \/ i = Len(s) + 1 /\ Append(s, v)[i] = v
         /\ s # << >> => /\ Len(s) \in Nat \ {0} /\ s[Len(s)] \in S
                         /\ SubSeq(s, 1, Len(s) - 1) \in Seq(S)
                         /\ \A i \in DOMAIN SubSeq(s, 1, Len(s) - 1) :
                              i \in DOMAIN s /\ SubSeq(s, 1, Len(s) - 1)[i] = s[i]
<1>1. ASSUME NEW i \in DOMAIN s, NEW v \in S
      PROVE  /\ [s EXCEPT ![i] = v] \in Seq(S) /\ Len([s EXCEPT ![i] = v]) = Len(s)
             /\ DOMAIN [s EXCEPT ![i] = v] = DOMAIN s
  OBVIOUS
<1>2. ASSUME NEW v \in S
      PROVE  /\ Append(s, v) \in Seq(S) /\ Len(Append(s, v)) = Len(s) + 1
             /\ \A i \in DOMAIN Append(s, v) :
                   \/ i \in DOMAIN s /\ Append(s, v)[i] = s[i]
                   \/ i = Len(s) + 1 /\ Append(s, v)[i] = v
  OBVIOUS
<1>3. ASSUME s # << >>
      PROVE  /\ Len(s) \in Nat \ {0} /\ s[Len(s)] \in S
             /\ SubSeq(s, 1, Len(s) - 1) \in Seq(S)
             /\ \A i \in DOMAIN SubSeq(s, 1, Len(s) - 1) :
                  i \in DOMAIN s /\ SubSeq(s, 1, Len(s) - 1)[i] = s[i]
  BY <1>3
<1> QED
  BY <1>1, <1>2, <1>3

\* What no handler changes, but that it may remove the item of a dialog.
HandlerFrame ==
  /\ UNCHANGED <<sessionVars, objects, incomplete, asks, asked, misnamed, gone>>
  /\ dialog' = dialog \/ RemoveItems

\* A dialog keeps its type, and is still open, when its item is removed.
LEMMA DialogLasts ==
  ASSUME TypeOK, dialog' = dialog \/ RemoveItems
  PROVE  dialog' \in DialogType /\ (dialog' # NoDialog => dialog # NoDialog)
BY DEF TypeOK, DialogType, RemoveItems

\* A handler keeps the invariant if its new jobs fit and the bulks stay sound.
LEMMA HandledKeeps ==
  ASSUME BulkInv, NEW j \in jobs, NEW new, Batch(new),
         jobs' = (jobs \ {j}) \cup new, nextId' = nextId + Cardinality(new),
         HandlerFrame,
         \A i \in new : JobFits(i)',
         bulks' \in Seq(BulkType), Len(bulks') = Len(bulks),
         \A b \in DOMAIN bulks :
           /\ bulks'[b].kind = bulks[b].kind /\ (bulks[b].boxed => bulks'[b].boxed)
           /\ Sound(bulks'[b], JobsOf(b)', Listings(b)', gone),
         NEW box, \/ boxes' = boxes
                  \/ boxes' = Append(boxes, 0)
                  \/ boxes' = Append(boxes, box) /\ box \in DOMAIN bulks /\ bulks'[box].boxed,
         journal' \subseteq Accounts \X Uploads
  PROVE  BulkInv'
<1>1. /\ TypeOK /\ ConnectedFits /\ JobsFit /\ IdsFit /\ BoxesFit /\ MissingIsGone
  BY DEF BulkInv
<1>2. /\ config' = config /\ connected' = connected /\ switches' = switches
      /\ switched' = switched /\ objects' = objects /\ incomplete' = incomplete
      /\ asks' = asks /\ asked' = asked /\ misnamed' = misnamed /\ gone' = gone
      /\ dialog' \in DialogType /\ (dialog' # NoDialog => dialog # NoDialog)
  BY <1>1, DialogLasts DEF HandlerFrame, sessionVars
<1>3. bulks \in Seq(BulkType) /\ boxes \in Seq(0 .. Len(bulks))
  BY <1>1 DEF TypeOK
<1>4. DOMAIN bulks' = DOMAIN bulks /\ DOMAIN bulks = 1 .. Len(bulks) /\ Len(bulks) \in Nat
  BY <1>3
<1>5. /\ IdsFit' /\ jobs' \subseteq JobType /\ IsFiniteSet(jobs') /\ nextId' \in Nat \ {0}
  <2>1. jobs \ {j} \subseteq jobs
    OBVIOUS
  <2> QED
    BY <1>1, <2>1, NewIds
<1>6. boxes' \in Seq(0 .. Len(bulks)) /\ BoxesFit'
  <2>1. \A i \in DOMAIN boxes : boxes[i] \in 0 .. Len(bulks)
    BY <1>3
  <2>2. \A i \in DOMAIN boxes : boxes[i] # 0 => bulks'[boxes[i]].boxed
    BY <1>1, <1>4, <2>1 DEF BoxesFit
  <2>3. CASE boxes' = boxes
    BY <1>3, <2>2, <2>3 DEF BoxesFit
  <2>4. ASSUME NEW v \in 0 .. Len(bulks), boxes' = Append(boxes, v),
               v # 0 => bulks'[v].boxed
        PROVE  boxes' \in Seq(0 .. Len(bulks)) /\ BoxesFit'
    <3>1. /\ boxes' \in Seq(0 .. Len(bulks))
          /\ \A i \in DOMAIN boxes' : (i \in DOMAIN boxes /\ boxes'[i] = boxes[i]) \/ boxes'[i] = v
      BY <1>3, <2>4, SeqFacts
    <3> QED
      BY <2>2, <2>4, <3>1 DEF BoxesFit
  <2>5. 0 \in 0 .. Len(bulks) /\ (box \in DOMAIN bulks => box \in 0 .. Len(bulks))
    BY <1>4
  <2> QED
    BY <2>3, <2>4, <2>5
<1>7. TypeOK'
  BY <1>1, <1>2, <1>4, <1>5, <1>6 DEF TypeOK
<1>8. JobsFit'
  <2> SUFFICES ASSUME NEW i \in jobs' PROVE JobFits(i)'
    BY DEF JobsFit
  <2>1. CASE i \in jobs
    <3>1. JobFits(i)
      BY <1>1, <2>1 DEF JobsFit
    <3> QED
      BY <1>2, <1>4, <3>1, JobLasts
  <2>2. CASE i \in new
    BY <2>2
  <2> QED
    BY <2>1, <2>2
<1>9. BulksAreSound'
  BY <1>2, <1>4 DEF BulksAreSound
<1>10. ConnectedFits' /\ MissingIsGone'
  BY <1>1, <1>2 DEF ConnectedFits, MissingIsGone
<1> QED
  BY <1>5, <1>6, <1>7, <1>8, <1>9, <1>10 DEF BulkInv

\* Other bulks than that of a job do not notice that it was handled.
LEMMA OthersAreSound ==
  ASSUME BulkInv, NEW j \in jobs, NEW new, jobs' = (jobs \ {j}) \cup new,
         NEW b \in DOMAIN bulks,
         j.bulk # b \/ j.kind \notin Items \cup Pages,
         \A i \in new : i.bulk # b \/ i.kind \notin Items \cup Pages
  PROVE  /\ JobsOf(b)' = JobsOf(b) /\ Listings(b)' = Listings(b)
         /\ Sound(bulks[b], JobsOf(b)', Listings(b)', gone)
<1>1. JobsOf(b)' = JobsOf(b) /\ Listings(b)' = Listings(b)
  BY DEF JobsOf, Listings
<1>2. Sound(bulks[b], JobsOf(b), Listings(b), gone)
  BY DEF BulkInv, BulksAreSound
<1> QED
  BY <1>1, <1>2

\* A handler that no bulk waits for.
LEMMA NoBulkKeeps ==
  ASSUME BulkInv, NEW j \in jobs, NEW new, Batch(new),
         jobs' = (jobs \ {j}) \cup new, nextId' = nextId + Cardinality(new),
         HandlerFrame,
         UNCHANGED <<journal, bulks>>,
         boxes' = boxes \/ boxes' = Append(boxes, 0),
         j.bulk = 0 \/ j.kind \notin Items \cup Pages,
         \A i \in new : JobFits(i)' /\ (i.bulk = 0 \/ i.kind \notin Items \cup Pages)
  PROVE  BulkInv'
<1>1. TypeOK
  BY DEF BulkInv
<1>2. bulks \in Seq(BulkType) /\ journal \subseteq Accounts \X Uploads
  BY <1>1 DEF TypeOK
<1>3. \A b \in DOMAIN bulks : b # 0
  BY <1>2
<1>4. \A b \in DOMAIN bulks : Sound(bulks[b], JobsOf(b)', Listings(b)', gone)
  BY <1>3, OthersAreSound
<1> QED
  BY <1>2, <1>4, HandledKeeps

\* A handler that goes on with the bulk of its job.
LEMMA OwnBulkKeeps ==
  ASSUME BulkInv, NEW j \in jobs, NEW new, Batch(new), j.bulk \in DOMAIN bulks,
         jobs' = (jobs \ {j}) \cup new, nextId' = nextId + Cardinality(new),
         HandlerFrame,
         NEW c \in BulkType, bulks' = [bulks EXCEPT ![j.bulk] = c],
         c.kind = bulks[j.bulk].kind, bulks[j.bulk].boxed => c.boxed,
         Sound(c, JobsOf(j.bulk)', Listings(j.bulk)', gone),
         \/ boxes' = boxes
         \/ boxes' = Append(boxes, 0)
         \/ boxes' = Append(boxes, j.bulk) /\ c.boxed,
         journal' \subseteq Accounts \X Uploads,
         \A i \in new : JobFits(i)' /\ i.bulk = j.bulk
  PROVE  BulkInv'
<1>1. TypeOK
  BY DEF BulkInv
<1>2. bulks \in Seq(BulkType)
  BY <1>1 DEF TypeOK
<1>3. bulks' \in Seq(BulkType) /\ Len(bulks') = Len(bulks)
  BY <1>2, SeqFacts
<1>4. /\ bulks'[j.bulk] = c
      /\ \A b \in DOMAIN bulks : b # j.bulk => bulks'[b] = bulks[b]
  BY <1>2
<1>5. ASSUME NEW b \in DOMAIN bulks
      PROVE  /\ bulks'[b].kind = bulks[b].kind /\ (bulks[b].boxed => bulks'[b].boxed)
             /\ Sound(bulks'[b], JobsOf(b)', Listings(b)', gone)
  <2>1. CASE b = j.bulk
    BY <1>4, <2>1
  <2>2. CASE b # j.bulk
    <3>1. Sound(bulks[b], JobsOf(b)', Listings(b)', gone)
      BY <2>2, OthersAreSound
    <3> QED
      BY <1>4, <2>2, <3>1
  <2> QED
    BY <2>1, <2>2
<1>6. \/ boxes' = boxes
      \/ boxes' = Append(boxes, 0)
      \/ boxes' = Append(boxes, j.bulk) /\ j.bulk \in DOMAIN bulks /\ bulks'[j.bulk].boxed
  BY <1>4
<1> QED
  BY <1>3, <1>5, <1>6, HandledKeeps

\* A handled job and what follows it, for the bulk that the job counts for.
LEMMA OwnBulkEnds ==
  ASSUME BulkInv, NEW j \in jobs, j.bulk \in DOMAIN bulks,
         jobs' = (jobs \ {j}) \cup {}, nextId' = nextId + Cardinality({}),
         HandlerFrame,
         NEW c \in BulkType, bulks' = [bulks EXCEPT ![j.bulk] = c],
         c.kind = bulks[j.bulk].kind, bulks[j.bulk].boxed => c.boxed,
         Sound(c, JobsOf(j.bulk)', Listings(j.bulk)', gone'),
         \/ boxes' = boxes
         \/ boxes' = Append(boxes, 0)
         \/ boxes' = Append(boxes, j.bulk) /\ c.boxed,
         journal' \subseteq Accounts \X Uploads
  PROVE  BulkInv'
<1>1. PICK none : none = {}
  OBVIOUS
<1>2. /\ Batch(none) /\ jobs' = (jobs \ {j}) \cup none
      /\ nextId' = nextId + Cardinality(none)
      /\ \A i \in none : JobFits(i)' /\ i.bulk = j.bulk
  BY <1>1, NoBatch
<1>3. Sound(c, JobsOf(j.bulk)', Listings(j.bulk)', gone)
  BY DEF HandlerFrame
<1> QED
  BY <1>2, <1>3, OwnBulkKeeps

\* The jobs that follow a page: those for its keys, and the next page.
FollowUp(j, kind, keys, items, next) ==
  /\ Batch(items \cup next)
  /\ IsFiniteSet(items) /\ Cardinality(items) = Cardinality(keys)
  /\ \A i \in items : /\ Waits(i) /\ i.kind = kind /\ i.acct = config
                      /\ i.key \in keys /\ i.bulk = j.bulk
  /\ IF j.more
     THEN \E p : /\ next = {p} /\ Waits(p) /\ p.kind = j.kind /\ p.acct = config
                 /\ p.key \in j.page /\ (\A q \in j.page : q <= p.key)
                 /\ p.bulk = j.bulk /\ p.scope = j.scope
     ELSE next = {}

\* The jobs that follow a listed page: one for each file, and its next page.
LEMMA PageJobs ==
  ASSUME TypeOK, NEW j \in jobs, JobFits(j),
         j.kind \in {"DeletePrefixPage", "DownloadPrefixPage"},
         NEW kind \in Kinds, NEW keys, keys \subseteq j.page,
         NEW items, items = JobsFor(kind, keys, j.bulk),
         NEW next, next = IF j.more THEN NextPage(j, items) ELSE {}
  PROVE  FollowUp(j, kind, keys, items, next)
<1>1. j \in JobType /\ j.bulk \in Nat
  BY JobFacts
<1>2. j.page \subseteq Keys /\ (j.more => j.page # {})
  BY DEF JobFits, Fits
<1>3. IsFiniteSet(keys) /\ keys \subseteq Keys \cup Uploads
  <2>1. keys \in SUBSET Keys
    BY <1>2
  <2> QED
    BY <2>1, KeyFacts, FS_Subset
<1>4. /\ Batch(items) /\ Cardinality(items) = Cardinality(keys)
      /\ \A i \in items : /\ i.kind = kind /\ i.acct = config /\ i.key \in keys
                          /\ i.dst = 0 /\ i.bulk = j.bulk
  BY <1>1, <1>3, BatchFor
<1>5. IsFiniteSet(items) /\ \A i \in items : i \in JobType /\ Waits(i)
  BY <1>4 DEF Batch
<1>6. CASE ~j.more
  <2>1. next = {} /\ items \cup next = items
    BY <1>6
  <2> QED
    BY <1>4, <1>5, <1>6, <2>1 DEF FollowUp
<1>7. CASE j.more
  <2>1. nextId \in Nat \ {0} /\ config \in Accounts \cup {NoAccount}
        /\ Cardinality(items) \in Nat
    BY <1>5, FS_CardinalityType DEF TypeOK
  <2>2. IsFiniteSet(j.page) /\ j.page \subseteq Nat
    <3>1. j.page \in SUBSET Keys
      BY <1>2
    <3> QED
      BY <3>1, KeyFacts, FS_Subset
  <2>3. \E k \in j.page : \A q \in j.page : q <= k
    BY <1>2, <1>7, <2>2, Extremes
  <2>4. PICK last : last = CHOOSE k \in j.page : \A q \in j.page : q <= k
    OBVIOUS
  <2>5. last \in j.page /\ \A q \in j.page : q <= last
    BY <2>3, <2>4
  <2>6. PICK id : id = nextId + Cardinality(items)
    OBVIOUS
  <2>7. PICK p : p = [j EXCEPT !.id = id, !.acct = config, !.key = last,
                               !.status = "queued", !.page = {}, !.more = FALSE]
    OBVIOUS
  <2>8. next = {p}
    BY <1>7, <2>4, <2>6, <2>7 DEF NextPage
  <2>9. id \in Nat \ {0} /\ last \in Keys
    <3>1. last \in Keys
      BY <1>2, <2>5, KeyFacts
    <3>2. id \in Nat \ {0}
      BY <2>1, <2>6
    <3> QED
      BY <3>1, <3>2
  <2>10. /\ p \in JobType /\ Waits(p) /\ p.kind = j.kind /\ p.acct = config
         /\ p.key = last /\ p.bulk = j.bulk /\ p.id = id /\ p.scope = j.scope
    BY <1>1, <2>1, <2>7, <2>9 DEF JobType, Waits
  <2>11. Batch(items \cup {p})
    BY <1>4, <2>6, <2>10, BatchPlus
  <2> QED
    BY <1>4, <1>5, <1>7, <2>5, <2>8, <2>10, <2>11 DEF FollowUp
<1> QED
  BY <1>6, <1>7

\* A listed page of a prefix delete, or its failure.
LEMMA DeletePrefixPageKeeps ==
  ASSUME BulkInv, NEW j \in jobs, HandleDeletePrefixPage(j),
         HandlerFrame
  PROVE  BulkInv'
<1>1. TypeOK /\ JobFits(j) /\ j.kind = "DeletePrefixPage" /\ j.bulk = 0
      /\ j.page \subseteq j.scope /\ j.scope \subseteq Keys
  BY DEF BulkInv, JobsFit, JobFits, Fits, BulkFits, HandleDeletePrefixPage
<1>2. /\ config' = config /\ switched' = switched /\ gone' = gone /\ asked' = asked
      /\ misnamed' = misnamed /\ UNCHANGED <<journal, bulks>>
  BY DEF HandleDeletePrefixPage, HandlerFrame, sessionVars
<1>3. CASE j.status # "Completed"
  <2>1. /\ jobs' = (jobs \ {j}) \cup {} /\ nextId' = nextId + Cardinality({})
        /\ (boxes' = boxes \/ boxes' = Append(boxes, 0))
    BY <1>3 DEF HandleDeletePrefixPage, Replace, Add, Show
  <2> QED
    BY <1>1, <1>2, <2>1, NoBatch, NoBulkKeeps
<1>4. CASE j.status = "Completed"
  <2>1. PICK items : items = JobsFor("DeletePrefixItem", j.page, j.bulk)
    OBVIOUS
  <2>2. PICK next : next = IF j.more THEN NextPage(j, items) ELSE {}
    OBVIOUS
  <2>3. PICK new : new = items \cup next
    OBVIOUS
  <2>4. /\ jobs' = (jobs \ {j}) \cup new /\ nextId' = nextId + Cardinality(new)
        /\ boxes' = boxes
    BY <1>1, <1>4, <2>1, <2>2, <2>3 DEF HandleDeletePrefixPage, Replace, Add
  <2>5. /\ Batch(new)
        /\ \A i \in items : /\ Waits(i) /\ i.kind = "DeletePrefixItem" /\ i.acct = config
                            /\ i.key \in j.page /\ i.bulk = j.bulk
        /\ IF j.more
            THEN \E p : /\ next = {p} /\ Waits(p) /\ p.kind = j.kind /\ p.acct = config
                        /\ p.key \in j.page /\ (\A q \in j.page : q <= p.key)
                        /\ p.bulk = j.bulk /\ p.scope = j.scope
            ELSE next = {}
    <3>1. PICK kind : kind = "DeletePrefixItem"
      OBVIOUS
    <3>2. PICK keys : keys = j.page
      OBVIOUS
    <3>3. kind \in Kinds /\ keys \subseteq j.page
          /\ j.kind \in {"DeletePrefixPage", "DownloadPrefixPage"}
      BY <1>1, <3>1, <3>2 DEF Kinds, Deletes
    <3>4. items = JobsFor(kind, keys, j.bulk)
      BY <2>1, <3>1, <3>2
    <3>5. FollowUp(j, kind, keys, items, next)
      BY <1>1, <2>2, <3>3, <3>4, PageJobs
    <3> QED
      BY <2>3, <3>1, <3>2, <3>5 DEF FollowUp
  <2>6. \A k \in j.scope : switched' \/ <<config, k>> \in asked' \cup misnamed'
    BY <1>1, <1>2 DEF JobFits, IsAsked, Wanted
  <2>7. ASSUME NEW i \in items PROVE JobFits(i)'
    <3>1. /\ Waits(i) /\ i.kind = "DeletePrefixItem" /\ i.acct = config
          /\ i.key \in j.scope /\ i.bulk = 0
      BY <1>1, <2>5
    <3>2. i.key \in Keys
      BY <1>1, <3>1
    <3>3. Wanted(i.acct, i.key)'
      BY <2>6, <3>1 DEF Wanted
    <3> QED
      BY <3>1, <3>2, <3>3 DEF JobFits, Fits, BulkFits, PageFits, IsAsked, Deletes, Waits
  <2>8. ASSUME NEW p \in next PROVE JobFits(p)' /\ p.bulk = 0
    <3>1. /\ Waits(p) /\ p.kind = "DeletePrefixPage" /\ p.acct = config
          /\ p.key \in Keys /\ p.bulk = 0 /\ p.scope = j.scope
      BY <1>1, <2>5, <2>8
    <3>2. \A k \in p.scope : Wanted(p.acct, k)'
      BY <2>6, <3>1 DEF Wanted
    <3> QED
      BY <1>1, <1>2, <3>1, <3>2 DEF JobFits, Fits, BulkFits, PageFits, IsAsked, Deletes, Waits
  <2>9. \A i \in new : JobFits(i)' /\ i.bulk = 0
    BY <1>1, <2>3, <2>5, <2>7, <2>8
  <2> QED
    BY <1>1, <1>2, <2>4, <2>5, <2>9, NoBulkKeeps
<1> QED
  BY <1>3, <1>4

\* The jobs of a bulk after its page was handled.
LEMMA PageReplaced ==
  ASSUME BulkInv, NEW j \in jobs, j.bulk \in DOMAIN bulks, j.kind \in Pages,
         NEW items, NEW next, Batch(items \cup next),
         jobs' = (jobs \ {j}) \cup (items \cup next),
         nextId' = nextId + Cardinality(items \cup next),
         \A i \in items : i.kind \in Items /\ i.bulk = j.bulk,
         \A p \in next : p.kind \in Pages /\ p.bulk = j.bulk
  PROVE  /\ JobsOf(j.bulk)' = JobsOf(j.bulk) \cup items /\ items \cap JobsOf(j.bulk) = {}
         /\ Listings(j.bulk)' = next /\ j \in Listings(j.bulk)
         /\ IsFiniteSet(JobsOf(j.bulk)) /\ bulks[j.bulk] \in BulkType
         /\ Sound(bulks[j.bulk], JobsOf(j.bulk), Listings(j.bulk), gone)
<1>1. TypeOK /\ IdsFit /\ BulksAreSound
  BY DEF BulkInv
<1>2. /\ IsFiniteSet(JobsOf(j.bulk)) /\ bulks[j.bulk] \in BulkType
      /\ Sound(bulks[j.bulk], JobsOf(j.bulk), Listings(j.bulk), gone)
  BY <1>1, BulkFacts, BulkJobsFinite DEF BulksAreSound
<1>3. (items \cup next) \cap jobs = {}
  <2>1. jobs \ {j} \subseteq jobs
    OBVIOUS
  <2> QED
    BY <1>1, <2>1, NewIds
<1>4. j \in Listings(j.bulk) /\ \A i \in Listings(j.bulk) : i = j
  <2>1. j \in Listings(j.bulk)
    BY DEF Listings
  <2> QED
    BY <1>2, <2>1 DEF Sound, Counts
<1>5. \A i \in items : i.kind \notin Pages
  BY KindFacts
<1>6. \A p \in next : p.kind \notin Items
  BY KindFacts
<1>7. j.kind \notin Items
  BY KindFacts
<1>8. JobsOf(j.bulk)' = JobsOf(j.bulk) \cup items
  BY <1>6, <1>7 DEF JobsOf
<1>9. Listings(j.bulk)' = next
  BY <1>4, <1>5 DEF Listings
<1>10. items \cap JobsOf(j.bulk) = {}
  BY <1>3 DEF JobsOf
<1> QED
  BY <1>2, <1>4, <1>8, <1>9, <1>10

\* A listed page of a folder download.
LEMMA ListedKeeps ==
  ASSUME BulkInv, NEW j \in jobs, j.kind = "DownloadPrefixPage",
         ListedForDownload(j, bulks[j.bulk]),
         HandlerFrame,
         UNCHANGED journal
  PROVE  BulkInv'
<1> DEFINE listed == j.page \ Folders
<1>1. PICK bad \in SUBSET listed :
        LET files == listed \ bad
            items == JobsFor("DownloadPrefixItem", files, j.bulk)
            counted == [bulks[j.bulk] EXCEPT !.failed = @ + Cardinality(bad),
                                             !.pending = @ + Cardinality(files)]
        IN  /\ Replace(j, items \cup IF j.more THEN NextPage(j, items) ELSE {})
            /\ bulks' = [bulks EXCEPT ![j.bulk] =
                 IF j.more THEN [counted EXCEPT !.whole = @ /\ config = bulks[j.bulk].acct]
                           ELSE FinishBulkIfDone([counted EXCEPT !.listing = FALSE])]
  BY DEF ListedForDownload, Unplaceable
<1>2. PICK files : files = listed \ bad
  OBVIOUS
<1>3. PICK items : items = JobsFor("DownloadPrefixItem", files, j.bulk)
  OBVIOUS
<1>4. PICK next : next = IF j.more THEN NextPage(j, items) ELSE {}
  OBVIOUS
<1>5. PICK b : b = bulks[j.bulk]
  OBVIOUS
<1>6. PICK counted : counted = [b EXCEPT !.failed = @ + Cardinality(bad),
                                         !.pending = @ + Cardinality(files)]
  OBVIOUS
<1>7. PICK c : c = IF j.more THEN [counted EXCEPT !.whole = @ /\ config = b.acct]
                             ELSE [counted EXCEPT !.listing = FALSE]
  OBVIOUS
<1>8. PICK d : d = IF j.more THEN c ELSE FinishBulkIfDone(c)
  OBVIOUS
<1>9. /\ jobs' = (jobs \ {j}) \cup (items \cup next)
      /\ nextId' = nextId + Cardinality(items \cup next)
      /\ bulks' = [bulks EXCEPT ![j.bulk] = d]
  BY <1>1, <1>2, <1>3, <1>4, <1>5, <1>6, <1>7, <1>8 DEF Replace, Add
<1>10. /\ TypeOK /\ JobFits(j) /\ j \in JobType /\ j.bulk \in DOMAIN bulks
       /\ j.page \subseteq Below /\ j.scope = Below /\ j.key \in Nat
       /\ config' = config /\ gone' = gone /\ boxes' = boxes /\ journal' = journal
       /\ bulks[j.bulk].kind = "FolderDownload" /\ j.status = "Completed"
  <2>1. TypeOK /\ JobFits(j)
    BY DEF BulkInv, JobsFit
  <2>2. boxes' = boxes /\ j.status = "Completed" /\ config' = config /\ gone' = gone
    BY DEF ListedForDownload, HandlerFrame, sessionVars
  <2>3. j.scope = Below
    BY <2>1 DEF JobFits, Fits
  <2> QED
    BY <2>1, <2>2, <2>3, JobFacts DEF JobFits, Fits, BulkFits
<1>11. FollowUp(j, "DownloadPrefixItem", files, items, next)
  <2>1. PICK kind : kind = "DownloadPrefixItem"
    OBVIOUS
  <2>2. kind \in Kinds /\ files \subseteq j.page
        /\ j.kind \in {"DeletePrefixPage", "DownloadPrefixPage"}
    BY <1>2, <2>1 DEF Kinds, Items
  <2>3. items = JobsFor(kind, files, j.bulk)
    BY <1>3, <2>1
  <2>4. FollowUp(j, kind, files, items, next)
    BY <1>4, <1>10, <2>2, <2>3, PageJobs
  <2> QED
    BY <2>1, <2>4
<1>12. /\ Batch(items \cup next) /\ IsFiniteSet(items) /\ Cardinality(items) = Cardinality(files)
       /\ \A i \in items : /\ Waits(i) /\ i.kind = "DownloadPrefixItem" /\ i.acct = config
                           /\ i.key \in files /\ i.bulk = j.bulk
       /\ IF j.more
          THEN \E p : /\ next = {p} /\ Waits(p) /\ p.kind = j.kind /\ p.acct = config
                      /\ p.key \in j.page /\ (\A q \in j.page : q <= p.key)
                      /\ p.bulk = j.bulk /\ p.scope = Below
          ELSE next = {}
  BY <1>10, <1>11 DEF FollowUp
<1>13. \A p \in next : /\ Waits(p) /\ p.kind = "DownloadPrefixPage" /\ p.acct = config
                       /\ p.key \in j.page /\ p.bulk = j.bulk /\ p.scope = Below
  BY <1>12
<1>14. /\ JobsOf(j.bulk)' = JobsOf(j.bulk) \cup items /\ items \cap JobsOf(j.bulk) = {}
       /\ Listings(j.bulk)' = next /\ j \in Listings(j.bulk)
       /\ IsFiniteSet(JobsOf(j.bulk)) /\ bulks[j.bulk] \in BulkType
       /\ Sound(bulks[j.bulk], JobsOf(j.bulk), Listings(j.bulk), gone)
  <2>1. j.kind \in Pages /\ \A i \in items : i.kind \in Items /\ i.bulk = j.bulk
    BY <1>12 DEF Pages, Items
  <2>2. \A p \in next : p.kind \in Pages /\ p.bulk = j.bulk
    BY <1>13 DEF Pages
  <2> QED
    BY <1>9, <1>10, <1>12, <2>1, <2>2, PageReplaced
<1>15. /\ c \in BulkType /\ c.kind = b.kind /\ c.acct = b.acct /\ c.reports = b.reports
       /\ c.done = b.done /\ c.failed = b.failed + Cardinality(bad)
       /\ c.pending = b.pending + Cardinality(items) /\ c.boxed = b.boxed
       /\ c.listing <=> j.more
       /\ c.whole => b.whole /\ \A p \in next : p.acct = b.acct
  <2>1. Cardinality(bad) \in Nat /\ Cardinality(items) \in Nat
        /\ Cardinality(files) = Cardinality(items)
    <3>1. bad \in SUBSET Below
      BY <1>10
    <3>2. IsFiniteSet(bad)
      BY <3>1, KeyFacts, FS_Subset
    <3> QED
      BY <1>12, <3>2, FS_CardinalityType
  <2>2. b \in BulkType /\ b.listing
    BY <1>5, <1>14 DEF Sound, Counts, BulkType
  <2>3. PICK m \in Nat, n \in Nat : m = Cardinality(bad) /\ n = Cardinality(items)
    BY <2>1
  <2>4. PICK f, l : f = b.failed + m /\ l = b.pending + n
    OBVIOUS
  <2>8. f \in Nat /\ l \in Nat
    BY <2>2, <2>3, <2>4 DEF BulkType
  <2>9. counted = [b EXCEPT !.failed = f, !.pending = l]
    BY <1>6, <2>1, <2>3, <2>4
  <2>5. /\ counted \in BulkType /\ counted.kind = b.kind /\ counted.acct = b.acct
        /\ counted.reports = b.reports /\ counted.done = b.done
        /\ counted.failed = f /\ counted.pending = l
        /\ counted.boxed = b.boxed /\ counted.listing = b.listing /\ counted.whole = b.whole
    BY <2>2, <2>8, <2>9 DEF BulkType
  <2>6. CASE j.more
    <3>1. c = [counted EXCEPT !.whole = @ /\ config = b.acct]
      BY <1>7, <2>6
    <3> QED
      BY <1>13, <2>2, <2>3, <2>4, <2>5, <2>6, <3>1 DEF BulkType
  <2>7. CASE ~j.more
    <3>1. c = [counted EXCEPT !.listing = FALSE] /\ next = {}
      BY <1>7, <1>12, <2>7
    <3> QED
      BY <2>2, <2>3, <2>4, <2>5, <2>7, <3>1 DEF BulkType
  <2> QED
    BY <2>6, <2>7
<1> HIDE DEF listed
<1>16. Sound(c, JobsOf(j.bulk)', Listings(j.bulk)', gone') /\ c.reports = 0
  <2>1. \A k \in j.page : k > j.key
    BY <1>10 DEF JobFits, PageFits
  <2>2. WholePage(j, gone)
    BY <1>10 DEF JobFits, PageFits
  <2>3. bad \in SUBSET (j.page \ Folders)
        /\ Cardinality(items) = Cardinality((j.page \ Folders) \ bad)
    BY <1>2, <1>12 DEF listed
  <2>4. IF j.more THEN \E p : /\ next = {p} /\ p.key \in j.page
                              /\ \A q \in j.page : q <= p.key
                  ELSE next = {}
    BY <1>12
  <2>5. PICK held : held = JobsOf(j.bulk)
    OBVIOUS
  <2>6. PICK pages : pages = Listings(j.bulk)
    OBVIOUS
  <2>7. /\ IsFiniteSet(held) /\ Sound(b, held, pages, gone) /\ b \in BulkType
        /\ b.kind = "FolderDownload" /\ j \in pages /\ items \cap held = {}
    BY <1>5, <1>10, <1>14, <2>5, <2>6
  <2>8. ListedAs(c, b, j, bad, items, next)
    BY <1>12, <1>15, <2>3, <2>4 DEF ListedAs
  <2>9. Sound(c, held \cup items, next, gone) /\ c.reports = 0
    BY <1>10, <2>1, <2>2, <2>7, <2>8, ListedIsSound
  <2> QED
    BY <1>10, <1>14, <2>5, <2>9
<1>17. /\ d \in BulkType /\ d.kind = bulks[j.bulk].kind /\ d.boxed = bulks[j.bulk].boxed
       /\ Sound(d, JobsOf(j.bulk)', Listings(j.bulk)', gone')
  <2>1. IsFiniteSet(JobsOf(j.bulk)')
    BY <1>12, <1>14, FS_Union
  <2> QED
    BY <1>5, <1>8, <1>15, <1>16, <2>1, FinishIsSound
<1>18. \A i \in items \cup next : JobFits(i)' /\ i.bulk = j.bulk
  <2>1. DOMAIN bulks' = DOMAIN bulks /\ bulks'[j.bulk].kind = "FolderDownload"
    BY <1>9, <1>10, <1>17, SeqFacts DEF TypeOK
  <2>2. ASSUME NEW i \in items PROVE JobFits(i)' /\ i.bulk = j.bulk
    BY <1>10, <1>12, <2>1 DEF JobFits, Fits, BulkFits, PageFits, IsAsked, Deletes, Waits
  <2>3. ASSUME NEW p \in next PROVE JobFits(p)' /\ p.bulk = j.bulk
    BY <1>10, <1>13, <2>1, KeyFacts DEF JobFits, Fits, BulkFits, PageFits, IsAsked, Deletes, Waits
  <2> QED
    BY <2>2, <2>3
<1> QED
  <2>1. journal' \subseteq Accounts \X Uploads
    BY <1>10 DEF TypeOK
  <2>2. PICK new : new = items \cup next
    OBVIOUS
  <2> QED
    BY <1>9, <1>10, <1>12, <1>17, <1>18, <2>1, <2>2, OwnBulkKeeps

\* A listing of a folder download that failed.
LEMMA NotListedKeeps ==
  ASSUME BulkInv, NEW j \in jobs, j.kind = "DownloadPrefixPage",
         NotListedForDownload(j, bulks[j.bulk]),
         HandlerFrame,
         UNCHANGED journal
  PROVE  BulkInv'
<1>1. PICK b : b = bulks[j.bulk]
  OBVIOUS
<1>2. PICK c : c = [b EXCEPT !.listing = FALSE, !.whole = FALSE]
  OBVIOUS
<1>3. PICK d : d = IF j.status = "Denied" THEN [c EXCEPT !.boxed = TRUE] ELSE FinishBulkIfDone(c)
  OBVIOUS
<1>4. /\ jobs' = (jobs \ {j}) \cup {} /\ nextId' = nextId + Cardinality({})
      /\ bulks' = [bulks EXCEPT ![j.bulk] = d]
      /\ boxes' = IF j.status = "Denied" THEN Append(boxes, j.bulk) ELSE boxes
  BY <1>1, <1>2, <1>3 DEF NotListedForDownload, Replace, Add, Show
<1>5. /\ TypeOK /\ j.bulk \in DOMAIN bulks /\ gone' = gone /\ journal' = journal
      /\ bulks[j.bulk].kind = "FolderDownload"
  BY DEF BulkInv, JobsFit, JobFits, BulkFits, HandlerFrame
<1>6. Batch({} \cup {}) /\ {} \cup {} = {}
  BY NoBatch
<1>7. /\ JobsOf(j.bulk)' = JobsOf(j.bulk) \cup {} /\ Listings(j.bulk)' = {}
      /\ j \in Listings(j.bulk) /\ IsFiniteSet(JobsOf(j.bulk)) /\ b \in BulkType
      /\ Sound(b, JobsOf(j.bulk), Listings(j.bulk), gone)
  <2>1. PICK none : none = {}
    OBVIOUS
  <2>2. /\ Batch(none \cup none) /\ jobs' = (jobs \ {j}) \cup (none \cup none)
        /\ nextId' = nextId + Cardinality(none \cup none)
        /\ \A i \in none : i.kind \in Items /\ i.bulk = j.bulk
        /\ \A i \in none : i.kind \in Pages /\ i.bulk = j.bulk
    BY <1>4, <1>6, <2>1
  <2>3. j.kind \in Pages
    BY DEF Pages
  <2>4. /\ JobsOf(j.bulk)' = JobsOf(j.bulk) \cup none /\ Listings(j.bulk)' = none
        /\ j \in Listings(j.bulk) /\ IsFiniteSet(JobsOf(j.bulk)) /\ bulks[j.bulk] \in BulkType
        /\ Sound(bulks[j.bulk], JobsOf(j.bulk), Listings(j.bulk), gone)
    BY <1>5, <2>2, <2>3, PageReplaced
  <2> QED
    BY <1>1, <2>1, <2>4
<1>8. /\ c \in BulkType /\ c.kind = b.kind /\ c.acct = b.acct /\ c.reports = b.reports
      /\ c.done = b.done /\ c.failed = b.failed /\ c.pending = b.pending
      /\ c.boxed = b.boxed /\ ~c.listing /\ ~c.whole
  BY <1>2, <1>7 DEF BulkType
<1>9. Sound(c, JobsOf(j.bulk)', Listings(j.bulk)', gone') /\ c.reports = 0
  <2>1. PICK held : held = JobsOf(j.bulk)
    OBVIOUS
  <2>2. PICK pages : pages = Listings(j.bulk)
    OBVIOUS
  <2>3. /\ IsFiniteSet(held) /\ Sound(b, held, pages, gone) /\ b \in BulkType
        /\ b.kind = "FolderDownload" /\ pages # {}
        /\ JobsOf(j.bulk)' = held /\ Listings(j.bulk)' = {}
    BY <1>1, <1>5, <1>7, <2>1, <2>2
  <2>4. Sound(c, held, {}, gone) /\ c.reports = 0
    BY <1>8, <2>3, NotListedIsSound
  <2> QED
    BY <1>5, <2>3, <2>4
<1>10. IsFiniteSet(JobsOf(j.bulk)')
  BY <1>7
<1>11. /\ d \in BulkType /\ d.kind = bulks[j.bulk].kind
       /\ (bulks[j.bulk].boxed => d.boxed) /\ (j.status = "Denied" => d.boxed)
       /\ Sound(d, JobsOf(j.bulk)', Listings(j.bulk)', gone')
  <2>1. CASE j.status = "Denied"
    <3>1. d = [c EXCEPT !.boxed = TRUE]
      BY <1>3, <2>1
    <3>2. /\ d \in BulkType /\ d.kind = c.kind /\ d.acct = c.acct /\ d.reports = c.reports
          /\ d.done = c.done /\ d.failed = c.failed /\ d.pending = c.pending
          /\ d.boxed = TRUE /\ d.listing = c.listing /\ d.whole = c.whole
          /\ d.claimed = c.claimed
      BY <1>8, <3>1 DEF BulkType
    <3>3. Sound(d, JobsOf(j.bulk)', Listings(j.bulk)', gone')
      BY <1>9, <3>2 DEF Sound, Counts, Reports, AddsUp, Taken
    <3> QED
      BY <1>1, <1>8, <3>2, <3>3
  <2>2. CASE j.status # "Denied"
    <3>1. d = FinishBulkIfDone(c)
      BY <1>3, <2>2
    <3> QED
      BY <1>1, <1>8, <1>9, <1>10, <2>2, <3>1, FinishIsSound
  <2> QED
    BY <2>1, <2>2
<1> QED
  <2>1. journal' \subseteq Accounts \X Uploads
    BY <1>5 DEF TypeOK
  <2>2. \/ boxes' = boxes
        \/ boxes' = Append(boxes, 0)
        \/ boxes' = Append(boxes, j.bulk) /\ d.boxed
    BY <1>4, <1>11
  <2> QED
    BY <1>4, <1>5, <1>11, <2>1, <2>2, OwnBulkEnds

\* An item counts down.
LEMMA CountedKeeps ==
  ASSUME BulkInv, NEW j \in jobs, j.kind \in Items,
         jobs' = (jobs \ {j}) \cup {}, nextId' = nextId + Cardinality({}),
         HandlerFrame,
         journal' \subseteq Accounts \X Uploads, boxes' = boxes,
         NEW c, c \in {[bulks[j.bulk] EXCEPT !.done = @ + 1, !.pending = @ - 1],
                       [bulks[j.bulk] EXCEPT !.failed = @ + 1, !.pending = @ - 1],
                       [bulks[j.bulk] EXCEPT !.pending = @ - 1]},
         j.kind = "DownloadPrefixItem" => c # [bulks[j.bulk] EXCEPT !.pending = @ - 1],
         bulks' = [bulks EXCEPT ![j.bulk] = FinishBulkIfDone(c)]
  PROVE  BulkInv'
<1>1. /\ TypeOK /\ JobFits(j) /\ BulksAreSound /\ gone' = gone
      /\ journal' \subseteq Accounts \X Uploads
  BY DEF BulkInv, JobsFit, HandlerFrame
<1>2. j.bulk \in DOMAIN bulks
      /\ (bulks[j.bulk].kind = "FolderDownload" => j.kind = "DownloadPrefixItem")
  BY <1>1 DEF JobFits, BulkFits, Items
<1>3. PICK b : b = bulks[j.bulk]
  OBVIOUS
<1>4. PICK held, pages : held = JobsOf(j.bulk) /\ pages = Listings(j.bulk)
  OBVIOUS
<1>5. /\ b \in BulkType /\ IsFiniteSet(held) /\ Sound(b, held, pages, gone) /\ j \in held
  <2>1. j \in JobsOf(j.bulk)
    BY DEF JobsOf
  <2>2. IsFiniteSet(JobsOf(j.bulk))
    BY <1>1, BulkJobsFinite
  <2> QED
    BY <1>1, <1>2, <1>3, <1>4, <2>1, <2>2, BulkFacts DEF BulksAreSound
<1>6. JobsOf(j.bulk)' = held \ {j} /\ Listings(j.bulk)' = pages
  <2>1. j.kind \notin Pages
    BY KindFacts
  <2> QED
    BY <1>4, <2>1 DEF JobsOf, Listings
<1>7. b.pending \in Nat /\ b.pending > 0
  <2>1. Cardinality(held) \in Nat /\ Cardinality(held) > 0
    BY <1>5, FS_EmptySet, FS_CardinalityType
  <2> QED
    BY <1>5, <2>1 DEF Sound, Counts
<1>8. /\ c \in BulkType /\ c.kind = b.kind /\ c.acct = b.acct /\ c.reports = b.reports
      /\ c.listing = b.listing /\ c.claimed = b.claimed /\ c.whole = b.whole
      /\ c.boxed = b.boxed /\ c.pending = b.pending - 1
      /\ \/ c.done = b.done + 1 /\ c.failed = b.failed
         \/ c.done = b.done /\ c.failed = b.failed + 1
         \/ c.done = b.done /\ c.failed = b.failed /\ b.kind # "FolderDownload"
  <2>1. b.done + 1 \in Nat /\ b.failed + 1 \in Nat /\ b.pending - 1 \in Nat
    BY <1>5, <1>7 DEF BulkType
  <2>2. PICK done, failed, pending :
          done = b.done + 1 /\ failed = b.failed + 1 /\ pending = b.pending - 1
    OBVIOUS
  <2>3. done \in Nat /\ failed \in Nat /\ pending \in Nat
    BY <2>1, <2>2
  <2>4. CASE c = [b EXCEPT !.done = done, !.pending = pending]
    BY <1>5, <2>2, <2>3, <2>4 DEF BulkType
  <2>5. CASE c = [b EXCEPT !.failed = failed, !.pending = pending]
    BY <1>5, <2>2, <2>3, <2>5 DEF BulkType
  <2>6. CASE c = [b EXCEPT !.pending = pending] /\ b.kind # "FolderDownload"
    BY <1>5, <2>2, <2>3, <2>6 DEF BulkType
  <2>7. \/ c = [b EXCEPT !.done = done, !.pending = pending]
        \/ c = [b EXCEPT !.failed = failed, !.pending = pending]
        \/ c = [b EXCEPT !.pending = pending] /\ b.kind # "FolderDownload"
    BY <1>2, <1>3, <2>2
  <2> QED
    BY <2>4, <2>5, <2>6, <2>7
<1>9. Sound(c, held \ {j}, pages, gone) /\ c.reports = 0
  BY <1>5, <1>8, CountedIsSound
<1>10. PICK d : d = FinishBulkIfDone(c)
  OBVIOUS
<1>11. /\ d \in BulkType /\ d.kind = b.kind /\ d.boxed = b.boxed
       /\ Sound(d, JobsOf(j.bulk)', Listings(j.bulk)', gone')
  <2>1. IsFiniteSet(held \ {j})
    BY <1>5, FS_RemoveElement
  <2> QED
    BY <1>1, <1>6, <1>8, <1>9, <1>10, <2>1, FinishIsSound
<1> QED
  <2>2. bulks' = [bulks EXCEPT ![j.bulk] = d]
    BY <1>10
  <2>4. d.kind = bulks[j.bulk].kind /\ (bulks[j.bulk].boxed => d.boxed) /\ d \in BulkType
    BY <1>3, <1>11
  <2>5. Sound(d, JobsOf(j.bulk)', Listings(j.bulk)', gone')
    BY <1>11
  <2> QED
    BY <1>1, <1>2, <2>2, <2>4, <2>5, OwnBulkEnds

\* The uploads that the service lists are claimed, or the listing failed.
LEMMA ListIncompleteUploadsKeeps ==
  ASSUME BulkInv, NEW j \in jobs, HandleListIncompleteUploads(j),
         HandlerFrame
  PROVE  BulkInv'
<1>1. PICK b : b = bulks[j.bulk]
  OBVIOUS
<1>2. PICK claims : claims = IF j.status = "Completed" THEN j.page \ b.claimed ELSE {}
  OBVIOUS
<1>3. PICK items : items = JobsFor("AbortIncompleteUpload", claims, j.bulk)
  OBVIOUS
<1>4. PICK c : c = [b EXCEPT !.claimed = @ \cup claims, !.pending = @ + Cardinality(claims),
                             !.listing = FALSE]
  OBVIOUS
<1>5. PICK d : d = FinishBulkIfDone(c)
  OBVIOUS
<1>6. /\ jobs' = (jobs \ {j}) \cup items /\ nextId' = nextId + Cardinality(items)
      /\ bulks' = [bulks EXCEPT ![j.bulk] = d] /\ boxes' = boxes /\ journal' = journal
  BY <1>1, <1>2, <1>3, <1>4, <1>5 DEF HandleListIncompleteUploads, Replace, Add
<1>7. /\ TypeOK /\ JobFits(j) /\ j.kind = "ListIncompleteUploads" /\ j.bulk \in DOMAIN bulks
      /\ bulks[j.bulk].kind = "AbortUploads" /\ gone' = gone /\ j.page \subseteq Uploads
      /\ j.bulk \in Nat
  <2>1. TypeOK /\ JobFits(j) /\ j.kind = "ListIncompleteUploads" /\ gone' = gone
    BY DEF BulkInv, JobsFit, HandleListIncompleteUploads, HandlerFrame
  <2> QED
    BY <2>1, JobFacts DEF JobFits, Fits, BulkFits
<1>8. /\ claims \in SUBSET Uploads /\ claims \cap b.claimed = {} /\ IsFiniteSet(claims)
      /\ Cardinality(claims) \in Nat
  <2>1. claims \in SUBSET Uploads /\ claims \cap b.claimed = {}
    BY <1>2, <1>7
  <2> QED
    BY <2>1, KeyFacts, FS_Subset, FS_CardinalityType
<1>9. /\ Batch(items) /\ Cardinality(items) = Cardinality(claims) /\ IsFiniteSet(items)
      /\ \A i \in items : /\ i.kind = "AbortIncompleteUpload" /\ i.acct = config
                          /\ i.key \in claims /\ i.bulk = j.bulk
  <2>1. PICK kind : kind = "AbortIncompleteUpload"
    OBVIOUS
  <2>2. kind \in Kinds /\ claims \subseteq Keys \cup Uploads
        /\ items = JobsFor(kind, claims, j.bulk)
    BY <1>3, <1>8, <2>1 DEF Kinds, Items
  <2>3. /\ Batch(items) /\ Cardinality(items) = Cardinality(claims)
        /\ \A i \in items : /\ i.kind = kind /\ i.acct = config /\ i.key \in claims
                            /\ i.dst = 0 /\ i.bulk = j.bulk
    BY <1>7, <1>8, <2>2, BatchFor
  <2> QED
    BY <2>1, <2>3 DEF Batch
<1>10. PICK held, pages : held = JobsOf(j.bulk) /\ pages = Listings(j.bulk)
  OBVIOUS
<1>11. /\ JobsOf(j.bulk)' = held \cup items /\ items \cap held = {}
       /\ Listings(j.bulk)' = {} /\ j \in pages
       /\ IsFiniteSet(held) /\ b \in BulkType /\ Sound(b, held, pages, gone)
  <2>1. PICK none : none = {}
    OBVIOUS
  <2>2. items \cup none = items
    BY <2>1
  <2>3. /\ Batch(items \cup none) /\ jobs' = (jobs \ {j}) \cup (items \cup none)
        /\ nextId' = nextId + Cardinality(items \cup none)
        /\ \A i \in items : i.kind \in Items /\ i.bulk = j.bulk
        /\ \A i \in none : i.kind \in Pages /\ i.bulk = j.bulk
    BY <1>6, <1>9, <2>1, <2>2 DEF Items
  <2>4. j.kind \in Pages
    BY <1>7 DEF Pages
  <2>5. /\ JobsOf(j.bulk)' = JobsOf(j.bulk) \cup items /\ items \cap JobsOf(j.bulk) = {}
        /\ Listings(j.bulk)' = none /\ j \in Listings(j.bulk)
        /\ IsFiniteSet(JobsOf(j.bulk)) /\ bulks[j.bulk] \in BulkType
        /\ Sound(bulks[j.bulk], JobsOf(j.bulk), Listings(j.bulk), gone)
    BY <1>7, <2>3, <2>4, PageReplaced
  <2> QED
    BY <1>1, <1>10, <2>1, <2>5
<1>12. /\ c \in BulkType /\ c.kind = b.kind /\ c.reports = b.reports
       /\ c.done = b.done /\ c.failed = b.failed /\ c.pending = b.pending + Cardinality(claims)
       /\ c.claimed = b.claimed \cup claims /\ ~c.listing /\ c.boxed = b.boxed
  <2>1. PICK more, pending :
          more = b.claimed \cup claims /\ pending = b.pending + Cardinality(claims)
    OBVIOUS
  <2>2. more \in SUBSET Uploads /\ pending \in Nat
    BY <1>8, <1>11, <2>1 DEF BulkType
  <2>3. c = [b EXCEPT !.claimed = more, !.pending = pending, !.listing = FALSE]
    BY <1>4, <2>1
  <2> QED
    BY <1>11, <2>1, <2>2, <2>3 DEF BulkType
<1>13. Sound(c, held \cup items, {}, gone) /\ c.reports = 0
  <2>1. pages # {} /\ b.kind = "AbortUploads"
    BY <1>1, <1>7, <1>11
  <2>2. /\ IsFiniteSet(held) /\ Sound(b, held, pages, gone) /\ b \in BulkType
        /\ IsFiniteSet(items) /\ items \cap held = {}
        /\ Cardinality(items) = Cardinality(claims)
        /\ claims \in SUBSET Uploads /\ claims \cap b.claimed = {}
    BY <1>8, <1>9, <1>11
  <2> QED
    BY <1>12, <2>1, <2>2, ClaimedIsSound
<1>14. /\ d \in BulkType /\ d.kind = bulks[j.bulk].kind /\ d.boxed = bulks[j.bulk].boxed
       /\ Sound(d, JobsOf(j.bulk)', Listings(j.bulk)', gone')
  <2>1. IsFiniteSet(held \cup items)
    BY <1>9, <1>11, FS_Union
  <2>2. /\ d \in BulkType /\ Sound(d, held \cup items, {}, gone)
        /\ d.kind = c.kind /\ d.boxed = c.boxed
    BY <1>5, <1>12, <1>13, <2>1, FinishIsSound
  <2> QED
    BY <1>1, <1>7, <1>11, <1>12, <2>2
<1>15. \A i \in items : JobFits(i)' /\ i.bulk = j.bulk
  <2>1. j.bulk \in DOMAIN bulks' /\ bulks'[j.bulk].kind = "AbortUploads"
    BY <1>6, <1>7, <1>14, SeqFacts DEF TypeOK
  <2> QED
    BY <1>8, <1>9, <2>1 DEF JobFits, Fits, BulkFits, PageFits, IsAsked, Deletes
<1> QED
  <2>1. journal' \subseteq Accounts \X Uploads
    BY <1>6, <1>7 DEF TypeOK
  <2>2. (bulks[j.bulk].boxed => d.boxed) /\ d \in BulkType /\ d.kind = bulks[j.bulk].kind
    BY <1>14
  <2>3. Sound(d, JobsOf(j.bulk)', Listings(j.bulk)', gone')
    BY <1>14
  <2> QED
    BY <1>6, <1>7, <1>9, <1>15, <2>1, <2>2, <2>3, OwnBulkKeeps

\* An abort of a clean-up has ended.
LEMMA AbortIncompleteUploadKeeps ==
  ASSUME BulkInv, NEW j \in jobs, HandleAbortIncompleteUpload(j),
         HandlerFrame
  PROVE  BulkInv'
<1>1. /\ jobs' = (jobs \ {j}) \cup {} /\ nextId' = nextId + Cardinality({})
      /\ boxes' = boxes /\ j.kind = "AbortIncompleteUpload" /\ j.kind \in Items
  BY DEF HandleAbortIncompleteUpload, Replace, Add, Items
<1>2. journal' \subseteq Accounts \X Uploads
  <2>1. journal \subseteq Accounts \X Uploads
    BY DEF BulkInv, TypeOK
  <2> QED
    BY <2>1 DEF HandleAbortIncompleteUpload
<1>3. PICK c : c = CASE j.status = "Completed" ->
                          [bulks[j.bulk] EXCEPT !.done = @ + 1, !.pending = @ - 1]
                     [] j.status = "Cancelled" -> [bulks[j.bulk] EXCEPT !.pending = @ - 1]
                     [] OTHER -> [bulks[j.bulk] EXCEPT !.failed = @ + 1, !.pending = @ - 1]
  OBVIOUS
<1>4. c \in {[bulks[j.bulk] EXCEPT !.done = @ + 1, !.pending = @ - 1],
             [bulks[j.bulk] EXCEPT !.failed = @ + 1, !.pending = @ - 1],
             [bulks[j.bulk] EXCEPT !.pending = @ - 1]}
  BY <1>3
<1>5. bulks' = [bulks EXCEPT ![j.bulk] = FinishBulkIfDone(c)]
  <2>1. bulks' = [bulks EXCEPT ![j.bulk] = FinishBulkIfDone(
          CASE j.status = "Completed" -> [bulks[j.bulk] EXCEPT !.done = @ + 1, !.pending = @ - 1]
            [] j.status = "Cancelled" -> [bulks[j.bulk] EXCEPT !.pending = @ - 1]
            [] OTHER -> [bulks[j.bulk] EXCEPT !.failed = @ + 1, !.pending = @ - 1])]
    BY DEF HandleAbortIncompleteUpload
  <2> QED
    BY <1>3, <2>1
<1> QED
  BY <1>1, <1>2, <1>4, <1>5, CountedKeeps

\* A file of a folder download has ended.
LEMMA DownloadPrefixItemKeeps ==
  ASSUME BulkInv, NEW j \in jobs, HandleDownloadPrefixItem(j),
         HandlerFrame
  PROVE  BulkInv'
<1>1. /\ jobs' = (jobs \ {j}) \cup {} /\ nextId' = nextId + Cardinality({})
      /\ boxes' = boxes /\ j.kind = "DownloadPrefixItem" /\ j.kind \in Items
      /\ journal' = journal
  BY DEF HandleDownloadPrefixItem, Replace, Add, Items
<1>2. journal' \subseteq Accounts \X Uploads
  BY <1>1 DEF BulkInv, TypeOK
<1>3. PICK b : b = bulks[j.bulk]
  OBVIOUS
<1>4. PICK c : c = IF j.status = "Completed" THEN [b EXCEPT !.done = @ + 1, !.pending = @ - 1]
                                             ELSE [b EXCEPT !.failed = @ + 1, !.pending = @ - 1]
  OBVIOUS
<1>5. bulks' = [bulks EXCEPT ![j.bulk] = FinishBulkIfDone(c)]
  <2>1. bulks' = [bulks EXCEPT ![j.bulk] = FinishBulkIfDone(
          IF j.status = "Completed" THEN [bulks[j.bulk] EXCEPT !.done = @ + 1, !.pending = @ - 1]
                                    ELSE [bulks[j.bulk] EXCEPT !.failed = @ + 1, !.pending = @ - 1])]
    BY DEF HandleDownloadPrefixItem
  <2> QED
    BY <1>3, <1>4, <2>1
<1>6. b \in BulkType
  <2>1. TypeOK /\ JobFits(j)
    BY DEF BulkInv, JobsFit
  <2>2. j.bulk \in DOMAIN bulks
    BY <1>1, <2>1 DEF JobFits, BulkFits
  <2> QED
    BY <1>3, <2>1, <2>2, BulkFacts
<1>7. c # [b EXCEPT !.pending = @ - 1]
  <2>1. /\ b.done + 1 # b.done /\ b.failed + 1 # b.failed
    BY <1>6 DEF BulkType
  <2>2. [b EXCEPT !.pending = @ - 1].done = b.done /\ [b EXCEPT !.pending = @ - 1].failed = b.failed
    BY <1>6 DEF BulkType
  <2>3. [b EXCEPT !.done = @ + 1, !.pending = @ - 1].done = b.done + 1
    BY <1>6 DEF BulkType
  <2>4. [b EXCEPT !.failed = @ + 1, !.pending = @ - 1].failed = b.failed + 1
    BY <1>6 DEF BulkType
  <2> QED
    BY <1>4, <2>1, <2>2, <2>3, <2>4
<1> QED
  BY <1>1, <1>2, <1>3, <1>4, <1>5, <1>7, CountedKeeps

\* A handler that only shows its error, or its result.
LEMMA EndsKeeps ==
  ASSUME BulkInv, NEW j \in jobs, j.kind \notin Items \cup Pages,
         jobs' = (jobs \ {j}) \cup {}, nextId' = nextId + Cardinality({}),
         HandlerFrame,
         UNCHANGED <<journal, bulks>>,
         boxes' = boxes \/ boxes' = Append(boxes, 0)
  PROVE  BulkInv'
<1>1. PICK none : none = {}
  OBVIOUS
<1>2. /\ Batch(none) /\ jobs' = (jobs \ {j}) \cup none
      /\ nextId' = nextId + Cardinality(none)
      /\ \A i \in none : JobFits(i)' /\ (i.bulk = 0 \/ i.kind \notin Items \cup Pages)
  BY <1>1, NoBatch
<1> QED
  BY <1>2, NoBulkKeeps

\* A copy has ended, and the delete of its source follows if it succeeded.
LEMMA RenameCopyKeeps ==
  ASSUME BulkInv, NEW j \in jobs, HandleRenameCopy(j),
         HandlerFrame
  PROVE  BulkInv'
<1>1. /\ j.kind = "RenameCopy" /\ j.kind \notin Items \cup Pages
      /\ UNCHANGED <<journal, bulks>>
      /\ (boxes' = boxes \/ boxes' = Append(boxes, 0))
      /\ config' = config /\ switched' = switched /\ asked' = asked
      /\ misnamed' = misnamed
  BY DEF HandleRenameCopy, Show, Items, Pages, HandlerFrame, sessionVars
<1>2. TypeOK /\ JobFits(j) /\ j.key \in Keys /\ j.dst \in Keys
  BY <1>1 DEF BulkInv, JobsFit, JobFits, Fits
<1>3. CASE j.status # "Completed"
  <2>1. jobs' = (jobs \ {j}) \cup {} /\ nextId' = nextId + Cardinality({})
    BY <1>3 DEF HandleRenameCopy, Replace, Add
  <2> QED
    BY <1>1, <2>1, EndsKeeps
<1>4. CASE j.status = "Completed"
  <2>1. PICK p : p = Job(nextId, "RenameDelete", j.key, j.dst, 0)
    OBVIOUS
  <2>2. PICK new : new = {p}
    OBVIOUS
  <2>3. jobs' = (jobs \ {j}) \cup new /\ nextId' = nextId + Cardinality(new)
    BY <1>4, <2>1, <2>2 DEF HandleRenameCopy, Replace, Add
  <2>4. nextId \in Nat \ {0} /\ config \in Accounts \cup {NoAccount}
    BY <1>2 DEF TypeOK
  <2>5. /\ p \in JobType /\ Waits(p) /\ p.id = nextId /\ p.kind = "RenameDelete"
        /\ p.acct = config /\ p.key = j.key /\ p.bulk = 0
    BY <1>2, <2>1, <2>4, KeyFacts DEF Job, JobType, Waits, Kinds, Deletes
  <2>6. Batch(new)
    BY <1>2, <2>2, <2>5, BatchOfOne
  <2>7. switched' \/ <<config, j.key>> \in asked' \cup misnamed'
    BY <1>1, <1>2, <1>4 DEF JobFits, IsAsked, Wanted
  <2>8. JobFits(p)'
    BY <1>2, <2>5, <2>7 DEF JobFits, Fits, BulkFits, PageFits, IsAsked, Wanted, Deletes
  <2>9. \A i \in new : JobFits(i)' /\ (i.bulk = 0 \/ i.kind \notin Items \cup Pages)
    BY <2>2, <2>5, <2>8
  <2>10. j.bulk = 0 \/ j.kind \notin Items \cup Pages
    BY <1>1
  <2> QED
    BY <1>1, <2>3, <2>6, <2>9, <2>10, NoBulkKeeps
<1> QED
  BY <1>3, <1>4

\* Every completion keeps the invariant.
LEMMA HandleKeeps ==
  ASSUME BulkInv, HandleTransferEventUi
  PROVE  BulkInv'
<1>1. PICK j \in jobs :
        /\ j.status # "queued"
        /\ \/ HandleDeletePrefixPage(j) \/ HandleDownloadPrefixPage(j)
           \/ HandleDownloadPrefixItem(j) \/ HandleListIncompleteUploads(j)
           \/ HandleAbortIncompleteUpload(j) \/ HandleRenameCopy(j) \/ HandleDeleted(j)
           \/ HandlePropertiesHead(j) \/ HandleLast(j)
  BY DEF HandleTransferEventUi
<1>2. HandlerFrame
  BY DEF HandleTransferEventUi, HandlerFrame
<1>3. CASE HandleDeletePrefixPage(j)
  BY <1>2, <1>3, DeletePrefixPageKeeps
<1>4. CASE HandleDownloadPrefixPage(j)
  <2>1. j.kind = "DownloadPrefixPage" /\ UNCHANGED journal
    BY <1>4 DEF HandleDownloadPrefixPage
  <2>2. CASE ListedForDownload(j, bulks[j.bulk])
    BY <1>2, <2>1, <2>2, ListedKeeps
  <2>3. CASE NotListedForDownload(j, bulks[j.bulk])
    BY <1>2, <2>1, <2>3, NotListedKeeps
  <2> QED
    BY <1>4, <2>2, <2>3 DEF HandleDownloadPrefixPage
<1>5. CASE HandleDownloadPrefixItem(j)
  BY <1>2, <1>5, DownloadPrefixItemKeeps
<1>6. CASE HandleListIncompleteUploads(j)
  BY <1>2, <1>6, ListIncompleteUploadsKeeps
<1>7. CASE HandleAbortIncompleteUpload(j)
  BY <1>2, <1>7, AbortIncompleteUploadKeeps
<1>8. CASE HandleRenameCopy(j)
  BY <1>2, <1>8, RenameCopyKeeps
<1>9. CASE HandleDeleted(j) \/ HandleLast(j)
  <2>1. j.kind \in Deletes \cup {"CreateObject", "UploadManual", "DownloadAs"} /\ Finished(j)
    BY <1>9 DEF HandleDeleted, HandleLast, Deletes
  <2>2. j.kind \notin Items \cup Pages
    BY <2>1 DEF Deletes, Items, Pages
  <2>3. /\ jobs' = (jobs \ {j}) \cup {} /\ nextId' = nextId + Cardinality({})
        /\ UNCHANGED <<journal, bulks>> /\ (boxes' = boxes \/ boxes' = Append(boxes, 0))
    BY <2>1 DEF Finished, Replace, Add, Show
  <2> QED
    BY <1>2, <2>2, <2>3, EndsKeeps
<1>10. CASE HandlePropertiesHead(j)
  <2>1. j.kind \notin Items \cup Pages
    BY <1>10 DEF HandlePropertiesHead, Items, Pages
  <2>2. /\ jobs' = (jobs \ {j}) \cup {} /\ nextId' = nextId + Cardinality({})
        /\ UNCHANGED <<journal, bulks>> /\ (boxes' = boxes \/ boxes' = Append(boxes, 0))
    BY <1>10 DEF HandlePropertiesHead, Replace, Add
  <2> QED
    BY <1>2, <2>1, <2>2, EndsKeeps
<1> QED
  BY <1>1, <1>3, <1>4, <1>5, <1>6, <1>7, <1>8, <1>9, <1>10

\* Closing a box, after which the handler goes on with the bulk.
LEMMA CloseBoxKeeps ==
  ASSUME BulkInv, CloseBox
  PROVE  BulkInv'
<1>1. /\ TypeOK /\ ConnectedFits /\ JobsFit /\ IdsFit /\ BoxesFit /\ MissingIsGone
      /\ BulksAreSound
  BY DEF BulkInv
<1>2. /\ config' = config /\ connected' = connected /\ switches' = switches
      /\ switched' = switched /\ objects' = objects /\ incomplete' = incomplete
      /\ journal' = journal /\ jobs' = jobs /\ nextId' = nextId
      /\ asks' = asks /\ asked' = asked /\ misnamed' = misnamed /\ gone' = gone
      /\ dialog' = dialog
  BY DEF CloseBox, sessionVars, storeVars
<1>3. PICK box : box = boxes[Len(boxes)]
  OBVIOUS
<1>4. /\ boxes # << >> /\ boxes' = SubSeq(boxes, 1, Len(boxes) - 1)
      /\ bulks' = IF box = 0 THEN bulks ELSE [bulks EXCEPT ![box] = FinishBulkIfDone(bulks[box])]
  BY <1>3 DEF CloseBox
<1>5. bulks \in Seq(BulkType) /\ boxes \in Seq(0 .. Len(bulks)) /\ Len(bulks) \in Nat
      /\ DOMAIN bulks = 1 .. Len(bulks)
  BY <1>1 DEF TypeOK
<1>6. /\ box \in 0 .. Len(bulks) /\ boxes' \in Seq(0 .. Len(bulks)) /\ Len(boxes) \in DOMAIN boxes
      /\ \A i \in DOMAIN boxes' : i \in DOMAIN boxes /\ boxes'[i] = boxes[i]
  <2>1. /\ Len(boxes) \in Nat \ {0} /\ box \in 0 .. Len(bulks)
        /\ boxes' \in Seq(0 .. Len(bulks))
        /\ \A i \in DOMAIN boxes' : i \in DOMAIN boxes /\ boxes'[i] = boxes[i]
    BY <1>3, <1>4, <1>5, SeqFacts
  <2> QED
    BY <1>5, <2>1
<1>7. \A b \in DOMAIN bulks : Sound(bulks[b], JobsOf(b)', Listings(b)', gone')
  <2> SUFFICES ASSUME NEW b \in DOMAIN bulks
               PROVE  Sound(bulks[b], JobsOf(b)', Listings(b)', gone')
    OBVIOUS
  <2>1. JobsOf(b)' = JobsOf(b) /\ Listings(b)' = Listings(b)
    BY <1>2 DEF JobsOf, Listings
  <2> QED
    BY <1>1, <1>2, <2>1 DEF BulksAreSound
<1>8. /\ bulks' \in Seq(BulkType) /\ Len(bulks') = Len(bulks) /\ DOMAIN bulks' = DOMAIN bulks
      /\ \A b \in DOMAIN bulks :
           /\ bulks'[b].kind = bulks[b].kind /\ bulks'[b].boxed = bulks[b].boxed
           /\ Sound(bulks'[b], JobsOf(b)', Listings(b)', gone')
  <2>1. CASE box = 0
    BY <1>4, <1>5, <1>7, <2>1
  <2>2. CASE box # 0
    <3>1. box \in DOMAIN bulks /\ bulks[box] \in BulkType /\ bulks[box].boxed
      BY <1>1, <1>3, <1>5, <1>6, <2>2 DEF BoxesFit
    <3>2. PICK d : d = FinishBulkIfDone(bulks[box])
      OBVIOUS
    <3>3. IsFiniteSet(JobsOf(box)')
      <4>1. JobsOf(box)' = JobsOf(box)
        BY <1>2 DEF JobsOf
      <4> QED
        BY <1>1, <4>1, BulkJobsFinite
    <3>4. /\ d \in BulkType /\ Sound(d, JobsOf(box)', Listings(box)', gone')
          /\ d.kind = bulks[box].kind /\ d.boxed = bulks[box].boxed
      BY <1>7, <3>1, <3>2, <3>3, FinishIsSound
    <3>5. bulks' = [bulks EXCEPT ![box] = d]
      BY <1>4, <2>2, <3>2
    <3>6. bulks' \in Seq(BulkType) /\ Len(bulks') = Len(bulks) /\ DOMAIN bulks' = DOMAIN bulks
      BY <1>5, <3>1, <3>4, <3>5, SeqFacts
    <3>7. bulks'[box] = d /\ \A b \in DOMAIN bulks : b # box => bulks'[b] = bulks[b]
      BY <1>5, <3>1, <3>5
    <3> QED
      BY <1>7, <3>4, <3>6, <3>7
  <2> QED
    BY <2>1, <2>2
<1>9. BoxesFit'
  <2> SUFFICES ASSUME NEW i \in DOMAIN boxes', boxes'[i] # 0
               PROVE  bulks'[boxes'[i]].boxed
    BY DEF BoxesFit
  <2>1. i \in DOMAIN boxes /\ boxes'[i] = boxes[i] /\ boxes[i] \in 0 .. Len(bulks)
    BY <1>5, <1>6
  <2>2. boxes[i] \in DOMAIN bulks /\ bulks[boxes[i]].boxed
    BY <1>1, <1>5, <2>1 DEF BoxesFit
  <2> QED
    BY <1>8, <2>1, <2>2
<1>10. TypeOK'
  BY <1>1, <1>2, <1>6, <1>8 DEF TypeOK
<1>11. JobsFit'
  <2> SUFFICES ASSUME NEW i \in jobs PROVE JobFits(i)'
    BY <1>2 DEF JobsFit
  <2>1. JobFits(i)
    BY <1>1 DEF JobsFit
  <2> QED
    BY <1>2, <1>8, <2>1, JobLasts
<1>12. IdsFit' /\ ConnectedFits' /\ MissingIsGone'
  BY <1>1, <1>2 DEF IdsFit, ConnectedFits, MissingIsGone
<1>13. BulksAreSound'
  BY <1>8 DEF BulksAreSound
<1> QED
  BY <1>9, <1>10, <1>11, <1>12, <1>13 DEF BulkInv

-----------------------------------------------------------------------------
(* The user *)

\* A command goes on at once, opens its dialog, or goes on after that.
Goes ==
  \/ \E kind : /\ Request(kind)
               /\ dialog' = dialog \/ (connected /\ dialog' \in DialogType)
  \/ CloseDialog

\* What the user does leaves more keys asked for or misnamed.
AskedGrows ==
  /\ asked \subseteq asked' /\ asked' \subseteq Accounts \X Keys
  /\ misnamed \subseteq misnamed' /\ misnamed' \subseteq Accounts \X Keys

\* What a command leaves alone.
LEMMA GoesOn ==
  ASSUME TypeOK, ConnectedFits, Goes
  PROVE  /\ config' = config /\ connected' = connected /\ switches' = switches
         /\ objects' = objects /\ incomplete' = incomplete /\ journal' = journal
         /\ gone' = gone /\ boxes = << >> /\ boxes' = << >>
         /\ asks' \in 0 .. MaxAsks /\ switched' \in BOOLEAN
         /\ jobs # {} => switched' = switched
         /\ dialog' \in DialogType /\ ConnectedFits'
<1>1. ASSUME NEW kind, Request(kind), dialog' = dialog \/ (connected /\ dialog' \in DialogType)
      PROVE  /\ config' = config /\ connected' = connected /\ switches' = switches
             /\ objects' = objects /\ incomplete' = incomplete /\ journal' = journal
             /\ gone' = gone /\ boxes = << >> /\ boxes' = << >>
             /\ asks' = asks + 1 /\ asks < MaxAsks
             /\ switched' = (switched /\ jobs # {})
             /\ dialog' \in DialogType /\ (dialog' # NoDialog => connected)
  BY <1>1 DEF Request, storeVars, TypeOK
<1>2. ASSUME CloseDialog
      PROVE  /\ config' = config /\ connected' = connected /\ switches' = switches
             /\ objects' = objects /\ incomplete' = incomplete /\ journal' = journal
             /\ gone' = gone /\ boxes = << >> /\ boxes' = << >>
             /\ asks' = asks /\ switched' = switched /\ dialog' = NoDialog
  BY <1>2 DEF CloseDialog, storeVars, sessionVars
<1>3. NoDialog \in DialogType
  BY DEF NoDialog, DialogType
<1>4. asks \in 0 .. MaxAsks /\ switched \in BOOLEAN
  BY DEF TypeOK
<1>5. ASSUME NEW n, n = asks + 1, asks < MaxAsks PROVE n \in 0 .. MaxAsks
  BY <1>4, <1>5, BulkBoundsAssumption
<1>6. CASE \E kind : Request(kind) /\ (dialog' = dialog \/ (connected /\ dialog' \in DialogType))
  <2>1. /\ config' = config /\ connected' = connected /\ switches' = switches
        /\ objects' = objects /\ incomplete' = incomplete /\ journal' = journal
        /\ gone' = gone /\ boxes = << >> /\ boxes' = << >>
        /\ asks' = asks + 1 /\ asks < MaxAsks
        /\ switched' = (switched /\ jobs # {})
        /\ dialog' \in DialogType /\ (dialog' # NoDialog => connected)
    BY <1>1, <1>6
  <2>2. asks' \in 0 .. MaxAsks
    BY <1>5, <2>1
  <2>3. switched' \in BOOLEAN /\ (jobs # {} => switched' = switched)
    BY <1>4, <2>1, Zenon
  <2>4. ConnectedFits'
    BY <2>1 DEF ConnectedFits
  <2> QED
    BY <2>1, <2>2, <2>3, <2>4
<1>7. CASE CloseDialog
  BY <1>2, <1>3, <1>4, <1>7 DEF ConnectedFits
<1> QED
  BY <1>6, <1>7 DEF Goes

\* A request keeps the invariant if its jobs fit and a bulk it starts is sound.
LEMMA RequestKeeps ==
  ASSUME BulkInv, Goes, NEW new, Batch(new), Enqueue(new), AskedGrows,
         \A i \in new : JobFits(i)',
         bulks' \in Seq(BulkType), Len(bulks) <= Len(bulks'),
         \A b \in DOMAIN bulks : bulks'[b] = bulks[b],
         \A b \in DOMAIN bulks' :
           b \in DOMAIN bulks \/ Sound(bulks'[b], JobsOf(b)', Listings(b)', gone),
         \A i \in new : i.bulk \notin DOMAIN bulks \/ i.kind \notin Items \cup Pages
  PROVE  BulkInv'
<1>1. /\ TypeOK /\ ConnectedFits /\ JobsFit /\ IdsFit /\ BoxesFit /\ MissingIsGone
      /\ BulksAreSound
  BY DEF BulkInv
<1>2. /\ config' = config /\ connected' = connected /\ switches' = switches
      /\ objects' = objects /\ incomplete' = incomplete /\ journal' = journal
      /\ gone' = gone /\ boxes = << >> /\ boxes' = << >>
      /\ asks' \in 0 .. MaxAsks /\ switched' \in BOOLEAN
      /\ jobs # {} => switched' = switched
      /\ dialog' \in DialogType /\ ConnectedFits'
      /\ jobs' = jobs \cup new /\ nextId' = nextId + Cardinality(new)
  BY <1>1, GoesOn DEF Enqueue, Add
<1>3. /\ IdsFit' /\ jobs' \subseteq JobType /\ IsFiniteSet(jobs') /\ nextId' \in Nat \ {0}
  BY <1>1, <1>2, NewIds
<1>4. bulks \in Seq(BulkType) /\ DOMAIN bulks \subseteq DOMAIN bulks'
  BY <1>1 DEF TypeOK
<1>5. TypeOK'
  <2>1. boxes' \in Seq(0 .. Len(bulks'))
    BY <1>2
  <2> QED
    BY <1>1, <1>2, <1>3, <2>1 DEF TypeOK, AskedGrows
<1>6. JobsFit'
  <2> SUFFICES ASSUME NEW i \in jobs' PROVE JobFits(i)'
    BY DEF JobsFit
  <2>1. CASE i \in jobs
    <3>1. JobFits(i)
      BY <1>1, <2>1 DEF JobsFit
    <3>2. switched' = switched
      BY <1>2, <2>1
    <3> QED
      BY <1>2, <1>4, <3>1, <3>2, JobLasts DEF AskedGrows
  <2>2. CASE i \in new
    BY <2>2
  <2> QED
    BY <1>2, <2>1, <2>2
<1>7. BulksAreSound'
  <2> SUFFICES ASSUME NEW b \in DOMAIN bulks'
               PROVE  Sound(bulks'[b], JobsOf(b)', Listings(b)', gone')
    BY DEF BulksAreSound
  <2>1. CASE b \in DOMAIN bulks
    <3>1. JobsOf(b)' = JobsOf(b) /\ Listings(b)' = Listings(b)
      BY <1>2, <2>1 DEF JobsOf, Listings
    <3> QED
      BY <1>1, <1>2, <2>1, <3>1 DEF BulksAreSound
  <2>2. CASE b \notin DOMAIN bulks
    BY <1>2, <2>2
  <2> QED
    BY <2>1, <2>2
<1>8. ConnectedFits' /\ BoxesFit' /\ MissingIsGone'
  BY <1>1, <1>2 DEF BoxesFit, MissingIsGone
<1> QED
  BY <1>3, <1>5, <1>6, <1>7, <1>8 DEF BulkInv

\* A request of one job that no bulk waits for.
LEMMA OneJobKeeps ==
  ASSUME BulkInv, Goes, NEW j \in JobType, Waits(j), j.id = nextId,
         Enqueue({j}), bulks' = bulks, AskedGrows,
         JobFits(j)', j.bulk = 0
  PROVE  BulkInv'
<1>1. TypeOK
  BY DEF BulkInv
<1>2. bulks \in Seq(BulkType)
  BY <1>1 DEF TypeOK
<1>3. PICK new : new = {j}
  OBVIOUS
<1>4. Batch(new) /\ Enqueue(new) /\ \A i \in new : JobFits(i)'
  BY <1>1, <1>3, BatchOfOne
<1>5. \A i \in new : i.bulk \notin DOMAIN bulks \/ i.kind \notin Items \cup Pages
  BY <1>2, <1>3
<1>6. /\ bulks' \in Seq(BulkType) /\ Len(bulks) <= Len(bulks')
      /\ \A b \in DOMAIN bulks : bulks'[b] = bulks[b]
      /\ \A b \in DOMAIN bulks' :
           b \in DOMAIN bulks \/ Sound(bulks'[b], JobsOf(b)', Listings(b)', gone)
  BY <1>2
<1> QED
  BY <1>4, <1>5, <1>6, RequestKeeps

\* A request that starts a bulk.
LEMMA StartsKeeps ==
  ASSUME BulkInv, Goes, NEW new, Batch(new), Enqueue(new), UNCHANGED <<asked, misnamed>>,
         NEW c \in BulkType, bulks' = Append(bulks, c),
         \A i \in new : JobFits(i)' /\ i.bulk = Len(bulks) + 1,
         Sound(c, {i \in new : i.kind \in Items}, {i \in new : i.kind \in Pages}, gone)
  PROVE  BulkInv'
<1>1. TypeOK /\ JobsFit /\ AskedGrows
  BY DEF BulkInv, TypeOK, AskedGrows
<1>2. bulks \in Seq(BulkType) /\ DOMAIN bulks = 1 .. Len(bulks) /\ Len(bulks) \in Nat
  BY <1>1 DEF TypeOK
<1>3. PICK n : n = Len(bulks) + 1
  OBVIOUS
<1>4. /\ bulks' \in Seq(BulkType) /\ Len(bulks') = n /\ bulks'[n] = c
      /\ \A b \in DOMAIN bulks : bulks'[b] = bulks[b]
      /\ \A b \in DOMAIN bulks' : b \in DOMAIN bulks \/ b = n
      /\ n \notin DOMAIN bulks /\ n # 0 /\ Len(bulks) <= n
  BY <1>2, <1>3
<1>5. \A i \in jobs : i.bulk = n => i.kind \notin Items \cup Pages
  BY <1>1, <1>4 DEF JobsFit, JobFits, BulkFits, Items, Pages
<1>6. jobs' = jobs \cup new
  BY DEF Enqueue
<1>7. /\ JobsOf(n)' = {i \in new : i.kind \in Items}
      /\ Listings(n)' = {i \in new : i.kind \in Pages}
  BY <1>3, <1>5, <1>6 DEF JobsOf, Listings
<1>8. \A b \in DOMAIN bulks' :
        b \in DOMAIN bulks \/ Sound(bulks'[b], JobsOf(b)', Listings(b)', gone)
  BY <1>4, <1>7
<1>9. \A i \in new : JobFits(i)' /\ (i.bulk \notin DOMAIN bulks \/ i.kind \notin Items \cup Pages)
  BY <1>3, <1>4
<1> QED
  BY <1>1, <1>4, <1>8, <1>9, RequestKeeps

\* A dialog opens, or is closed without an effect.
LEMMA DialogKeeps ==
  ASSUME BulkInv, (\E kind \in Menu \ {"PropertiesHead"} : Ask(kind)) \/ Decline
  PROVE  BulkInv'
<1>1. TypeOK /\ bulks \in Seq(BulkType)
  BY DEF BulkInv, TypeOK
<1>2. UNCHANGED <<jobs, nextId, bulks, asked, misnamed>> /\ Goes
  <2>1. ASSUME NEW kind \in Menu \ {"PropertiesHead"}, Ask(kind)
        PROVE  UNCHANGED <<jobs, nextId, bulks, asked, misnamed>> /\ Goes
    <3>1. /\ connected /\ Request(kind) /\ UNCHANGED <<jobs, nextId, bulks, asked, misnamed>>
          /\ \E k \in ItemsOf(kind) : dialog' = [kind |-> kind, key |-> k, freed |-> FALSE]
      BY <2>1 DEF Ask, Request
    <3>2. ItemsOf(kind) \subseteq Keys \cup {0} /\ kind \in Asks
      BY BulkBoundsAssumption DEF ItemsOf
    <3>3. dialog' \in DialogType
      BY <3>1, <3>2 DEF DialogType
    <3> QED
      BY <3>1, <3>3 DEF Goes
  <2>2. Decline => UNCHANGED <<jobs, nextId, bulks, asked, misnamed>> /\ Goes
    BY DEF Decline, Goes
  <2> QED
    BY <2>1, <2>2
<1>3. PICK new : new = {}
  OBVIOUS
<1>4. Batch(new) /\ Cardinality(new) = 0 /\ nextId \in Nat
  BY <1>1, <1>3, NoBatch DEF TypeOK
<1>5. Enqueue(new) /\ AskedGrows
  BY <1>1, <1>2, <1>3, <1>4 DEF Enqueue, Add, AskedGrows, TypeOK
<1> QED
  BY <1>1, <1>2, <1>3, <1>4, <1>5, RequestKeeps

\* A command whose dialog is closed asks in the account of the session.
LEMMA ConfirmFacts ==
  ASSUME TypeOK, ConnectedFits, NEW kind, Confirm(kind)
  PROVE  /\ Goes /\ config \in Accounts /\ config' = config /\ switched' = switched
         /\ dialog.key \in Keys \cup {0} /\ KeysRead \subseteq Keys \cup {0}
BY DEF Confirm, CloseDialog, Goes, ConnectedFits, sessionVars, KeysRead, TypeOK, DialogType

\* The user agrees to delete a prefix.
LEMMA DeletePrefixAskKeeps ==
  ASSUME BulkInv, DeletePrefixAsk
  PROVE  BulkInv'
<1>1. /\ TypeOK /\ ConnectedFits /\ Confirm("DeletePrefixPage")
      /\ asked' = asked \cup ({config} \X Below) /\ bulks' = bulks
  BY DEF BulkInv, DeletePrefixAsk
<1>2. Goes /\ config \in Accounts /\ config' = config
  BY <1>1, ConfirmFacts
<1>3. PICK scope \in Scopes :
        /\ Enqueue({[Job(nextId, "DeletePrefixPage", 0, 0, 0) EXCEPT !.scope = scope]})
        /\ misnamed' = misnamed \cup ({config} \X (scope \ Below))
  BY DEF DeletePrefixAsk, Scopes
<1>4. scope \in SUBSET Keys
  BY KeyFacts
<1>5. PICK p : p = [Job(nextId, "DeletePrefixPage", 0, 0, 0) EXCEPT !.scope = scope]
  OBVIOUS
<1>6. Enqueue({p})
  BY <1>3, <1>5
<1>7. /\ p \in JobType /\ Waits(p) /\ p.id = nextId /\ p.kind = "DeletePrefixPage"
      /\ p.acct = config /\ p.key = 0 /\ p.bulk = 0 /\ p.scope = scope
  <2>1. nextId \in Nat \ {0} /\ config \in Accounts \cup {NoAccount}
    BY <1>1 DEF TypeOK
  <2> QED
    BY <1>4, <1>5, <2>1 DEF Job, JobType, Waits, Kinds, Asks
<1>8. \A k \in scope : <<config, k>> \in asked' \cup misnamed'
  BY <1>1, <1>3
<1>9. JobFits(p)'
  BY <1>2, <1>4, <1>7, <1>8 DEF JobFits, Fits, BulkFits, PageFits, IsAsked, Wanted,
    Deletes, Waits
<1>10. AskedGrows
  <2>1. asked \subseteq Accounts \X Keys /\ misnamed \subseteq Accounts \X Keys
    BY <1>1 DEF TypeOK
  <2> QED
    BY <1>1, <1>2, <1>3, <1>4, <2>1, KeyFacts DEF AskedGrows
<1> QED
  BY <1>1, <1>2, <1>6, <1>7, <1>9, <1>10, OneJobKeeps

\* The commands that take one job keep the invariant.
LEMMA SingleAsksKeep ==
  ASSUME BulkInv,
         RenameObjectAsk \/ DeleteObjectAsk \/ OneJobAsk \/ CmdUploadCurrent
           \/ DownloadObjectAs \/ ShowProperties
  PROVE  BulkInv'
<1>1. /\ TypeOK /\ ConnectedFits
      /\ asked \subseteq Accounts \X Keys /\ misnamed \subseteq Accounts \X Keys
  BY DEF BulkInv, TypeOK
<1>2. nextId \in Nat \ {0} /\ config \in Accounts \cup {NoAccount}
  BY <1>1 DEF TypeOK
<1>3. ASSUME NEW kind \in {"CreateObject", "UploadManual", "DownloadAs", "PropertiesHead"},
             Goes, NEW k \in Keys, NEW a \in Accounts \cup {NoAccount}, NEW p,
             \/ p = Job(nextId, kind, k, 0, 0)
             \/ p = [Job(nextId, kind, k, 0, 0) EXCEPT !.acct = a],
             Enqueue({p}), UNCHANGED <<bulks, asked, misnamed>>
      PROVE  BulkInv'
  <2>1. /\ p \in JobType /\ Waits(p) /\ p.id = nextId /\ p.kind = kind /\ p.key = k /\ p.bulk = 0
    <3>1. PICK q : q = Job(nextId, kind, k, 0, 0)
      OBVIOUS
    <3>2. kind \in Kinds
      BY <1>3 DEF Kinds, Asks
    <3>3. /\ q \in JobType /\ Waits(q) /\ q.id = nextId /\ q.kind = kind /\ q.key = k
          /\ q.bulk = 0
      BY <1>2, <3>1, <3>2, KeyFacts DEF Job, JobType, Waits
    <3>4. p = q \/ p = [q EXCEPT !.acct = a]
      BY <1>3, <3>1
    <3>5. CASE p = [q EXCEPT !.acct = a]
      BY <3>3, <3>5 DEF JobType, Waits
    <3> QED
      BY <3>3, <3>4, <3>5
  <2>2. JobFits(p)'
    BY <1>3, <2>1 DEF JobFits, Fits, BulkFits, PageFits, IsAsked, Deletes
  <2>3. bulks' = bulks /\ AskedGrows
    BY <1>1, <1>3 DEF AskedGrows
  <2> QED
    BY <1>3, <2>1, <2>2, <2>3, OneJobKeeps
<1>4. CASE RenameObjectAsk
  <2>1. PICK k \in KeysRead, d \in Keys :
          /\ Enqueue({Job(nextId, "RenameCopy", k, d, 0)})
          /\ misnamed' = misnamed \cup ({config} \X ({k} \ {dialog.key}))
    BY <1>4 DEF RenameObjectAsk
  <2>2. Confirm("RenameCopy") /\ bulks' = bulks /\ asked' = asked
    BY <1>4 DEF RenameObjectAsk
  <2>3. Goes /\ config \in Accounts /\ config' = config
    BY <1>1, <2>2, ConfirmFacts
  <2>4. k \in Keys
    BY <1>1, <2>1, <2>2 DEF KeysRead, Confirm, TypeOK, DialogType, ItemsOf
  <2>5. PICK p : p = Job(nextId, "RenameCopy", k, d, 0)
    OBVIOUS
  <2>6. /\ p \in JobType /\ Waits(p) /\ p.id = nextId /\ p.kind = "RenameCopy"
        /\ p.acct = config /\ p.key = k /\ p.dst = d /\ p.bulk = 0 /\ p.status = "queued"
    BY <1>2, <2>4, <2>5, KeyFacts DEF Job, JobType, Waits, Kinds, Asks
  <2>7. JobFits(p)'
    BY <2>3, <2>4, <2>6 DEF JobFits, Fits, BulkFits, PageFits, IsAsked, Deletes
  <2>8. Enqueue({p})
    BY <2>1, <2>5
  <2>9. AskedGrows
    BY <1>1, <2>1, <2>2, <2>3, <2>4 DEF AskedGrows
  <2> QED
    BY <2>2, <2>3, <2>6, <2>7, <2>8, <2>9, OneJobKeeps
<1>5. CASE DeleteObjectAsk
  <2>1. PICK k \in KeysRead :
          /\ Enqueue({Job(nextId, "DeleteOne", k, 0, 0)})
          /\ misnamed' = misnamed \cup ({config} \X ({k} \ {dialog.key}))
    BY <1>5 DEF DeleteObjectAsk
  <2>2. Confirm("DeleteOne") /\ bulks' = bulks /\ asked' = asked \cup {<<config, dialog.key>>}
    BY <1>5 DEF DeleteObjectAsk
  <2>3. Goes /\ config \in Accounts /\ config' = config
    BY <1>1, <2>2, ConfirmFacts
  <2>4. k \in Keys /\ dialog.key \in Keys
    BY <1>1, <2>1, <2>2 DEF KeysRead, Confirm, TypeOK, DialogType, ItemsOf
  <2>5. PICK p : p = Job(nextId, "DeleteOne", k, 0, 0)
    OBVIOUS
  <2>6. /\ p \in JobType /\ Waits(p) /\ p.id = nextId /\ p.kind = "DeleteOne"
        /\ p.acct = config /\ p.key = k /\ p.bulk = 0
    BY <1>2, <2>4, <2>5, KeyFacts DEF Job, JobType, Waits, Kinds, Deletes, Asks
  <2>7. <<config, k>> \in asked' \cup misnamed'
    BY <2>1, <2>2
  <2>8. JobFits(p)'
    BY <2>3, <2>4, <2>6, <2>7 DEF JobFits, Fits, BulkFits, PageFits, IsAsked, Wanted, Deletes
  <2>9. Enqueue({p})
    BY <2>1, <2>5
  <2>10. AskedGrows
    BY <1>1, <2>1, <2>2, <2>3, <2>4 DEF AskedGrows
  <2> QED
    BY <2>2, <2>3, <2>6, <2>8, <2>9, <2>10, OneJobKeeps
<1>6. CASE OneJobAsk
  <2>1. PICK kind \in {"CreateObject", "UploadManual"}, k \in Keys :
          Confirm(kind) /\ Enqueue({Job(nextId, kind, k, 0, 0)})
    BY <1>6 DEF OneJobAsk
  <2>2. Goes /\ UNCHANGED <<bulks, asked, misnamed>>
    BY <1>1, <1>6, <2>1, ConfirmFacts DEF OneJobAsk
  <2> QED
    BY <1>2, <1>3, <2>1, <2>2
<1>7. CASE CmdUploadCurrent
  <2>1. PICK x \in UploadChoices :
          Enqueue({[Job(nextId, "UploadManual", x[2], 0, 0) EXCEPT !.acct = x[1]]})
    BY <1>7 DEF CmdUploadCurrent
  <2>2. x[1] \in Accounts \cup {NoAccount} /\ x[2] \in Keys
    BY <2>1 DEF UploadChoices
  <2>3. Goes /\ UNCHANGED <<bulks, asked, misnamed>>
    BY <1>7 DEF CmdUploadCurrent, Goes, Request
  <2>4. PICK p : p = [Job(nextId, "UploadManual", x[2], 0, 0) EXCEPT !.acct = x[1]]
    OBVIOUS
  <2>5. Enqueue({p})
    BY <2>1, <2>4
  <2> QED
    BY <1>3, <2>2, <2>3, <2>4, <2>5
<1>8. CASE DownloadObjectAs
  <2>1. PICK k \in Keys : Enqueue({Job(nextId, "DownloadAs", k, 0, 0)})
    BY <1>8 DEF DownloadObjectAs
  <2>2. Goes /\ UNCHANGED <<bulks, asked, misnamed>>
    BY <1>1, <1>8, ConfirmFacts DEF DownloadObjectAs
  <2> QED
    BY <1>2, <1>3, <2>1, <2>2
<1>9. CASE ShowProperties
  <2>1. PICK k \in Keys : Enqueue({Job(nextId, "PropertiesHead", k, 0, 0)})
    BY <1>9 DEF ShowProperties
  <2>2. Goes /\ UNCHANGED <<bulks, asked, misnamed>>
    BY <1>9 DEF ShowProperties, Goes, Request
  <2> QED
    BY <1>2, <1>3, <2>1, <2>2
<1> QED
  BY <1>4, <1>5, <1>6, <1>7, <1>8, <1>9

\* A bulk that was started.
Started(c, kind, claimed) ==
  /\ c \in BulkType /\ c.kind = kind /\ c.acct = config /\ c.listing = TRUE
  /\ c.pending = Cardinality(claimed) /\ c.done = 0 /\ c.failed = 0
  /\ c.claimed = claimed /\ c.reports = 0

\* What BulkState makes.
LEMMA BulkStateIs ==
  ASSUME TypeOK, NEW kind \in BulkKinds, NEW claimed \in SUBSET Uploads
  PROVE  Started(BulkState(kind, claimed), kind, claimed)
<1>1. Cardinality(claimed) \in Nat
  BY KeyFacts, FS_Subset, FS_CardinalityType
<1>2. config \in Accounts \cup {NoAccount}
  BY DEF TypeOK
<1> QED
  BY <1>1, <1>2 DEF BulkState, BulkType, Started

\* The user asks to download a prefix.
LEMMA DownloadPrefixAskKeeps ==
  ASSUME BulkInv, DownloadPrefixAsk
  PROVE  BulkInv'
<1>1. /\ TypeOK /\ Goes /\ config' = config /\ UNCHANGED <<asked, misnamed>>
      /\ bulks \in Seq(BulkType) /\ Len(bulks) + 1 \in Nat
  <2>1. TypeOK /\ ConnectedFits /\ Confirm("DownloadPrefixPage") /\ UNCHANGED <<asked, misnamed>>
    BY DEF BulkInv, DownloadPrefixAsk
  <2>2. bulks \in Seq(BulkType)
    BY <2>1 DEF TypeOK
  <2> QED
    BY <2>1, <2>2, ConfirmFacts
<1>2. PICK n : n = Len(bulks) + 1
  OBVIOUS
<1>3. PICK p : p = Job(nextId, "DownloadPrefixPage", 0, 0, n)
  OBVIOUS
<1>4. PICK c : c = BulkState("FolderDownload", {})
  OBVIOUS
<1>5. Enqueue({p}) /\ bulks' = Append(bulks, c)
  BY <1>2, <1>3, <1>4 DEF DownloadPrefixAsk
<1>6. /\ p \in JobType /\ Waits(p) /\ p.id = nextId /\ p.kind = "DownloadPrefixPage"
      /\ p.acct = config /\ p.key = 0 /\ p.bulk = n /\ p.scope = Below
  <2>1. nextId \in Nat \ {0} /\ config \in Accounts \cup {NoAccount}
    BY <1>1 DEF TypeOK
  <2> QED
    BY <1>1, <1>2, <1>3, <2>1, KeyFacts DEF Job, JobType, Waits, Kinds, Asks
<1>7. /\ c \in BulkType /\ c.kind = "FolderDownload" /\ c.acct = config /\ c.listing = TRUE
      /\ c.pending = 0 /\ c.done = 0 /\ c.failed = 0 /\ c.reports = 0
  <2>1. PICK kind : kind = "FolderDownload"
    OBVIOUS
  <2>2. PICK none : none = {}
    OBVIOUS
  <2>3. kind \in BulkKinds /\ none \in SUBSET Uploads /\ Cardinality(none) = 0
    BY <2>1, <2>2, FS_EmptySet DEF BulkKinds
  <2>4. c = BulkState(kind, none)
    BY <1>4, <2>1, <2>2
  <2>5. Started(c, kind, none)
    BY <1>1, <2>3, <2>4, BulkStateIs
  <2> QED
    BY <2>1, <2>3, <2>5 DEF Started
<1>8. PICK new : new = {p}
  OBVIOUS
<1>9. {i \in new : i.kind \in Items} = {} /\ {i \in new : i.kind \in Pages} = {p}
  BY <1>6, <1>8 DEF Items, Pages
<1>10. Sound(c, {}, {p}, gone)
  <2>1. Told({p}) = {}
    <3> SUFFICES ASSUME NEW k \in Told({p}) PROVE FALSE
      OBVIOUS
    <3>1. k \in Below /\ k <= 0
      BY <1>6 DEF Told
    <3>2. k \in Nat \ {0}
      BY <3>1, KeysAssumption
    <3> QED
      BY <3>1, <3>2
  <2>2. Cardinality(Told({p})) = 0 /\ Cardinality(Told({p}) \cap Kept(c.acct, gone)) = 0
    <3>1. Told({p}) \cap Kept(c.acct, gone) = {}
      BY <2>1
    <3> QED
      BY <2>1, <3>1, FS_EmptySet
  <2>3. AddsUp(c, {p}, gone)
    BY <1>6, <1>7, <2>2 DEF AddsUp, Taken
  <2>4. Counts(c, {}, {p}) /\ Reports(c, {}, {p})
    BY <1>7, FS_EmptySet DEF Counts, Reports
  <2> QED
    BY <2>3, <2>4 DEF Sound
<1>11. JobFits(p)'
  <2>1. n \in DOMAIN bulks' /\ bulks'[n].kind = "FolderDownload"
    BY <1>1, <1>2, <1>5, <1>7
  <2> QED
    BY <1>1, <1>6, <2>1, KeyFacts DEF JobFits, Fits, BulkFits, PageFits, IsAsked, Deletes, Waits
<1>12. /\ Batch(new) /\ Enqueue(new)
       /\ \A i \in new : JobFits(i)' /\ i.bulk = Len(bulks) + 1
  BY <1>1, <1>2, <1>5, <1>6, <1>8, <1>11, BatchOfOne
<1>13. Sound(c, {i \in new : i.kind \in Items}, {i \in new : i.kind \in Pages}, gone)
  BY <1>9, <1>10
<1> QED
  BY <1>1, <1>5, <1>7, <1>12, <1>13, StartsKeeps

\* The user asks to clean up: the uploads of the journal, then those listed.
LEMMA AbortUploadsAskKeeps ==
  ASSUME BulkInv, AbortIncompleteUploadsAsk
  PROVE  BulkInv'
<1>1. /\ TypeOK /\ Goes /\ config' = config /\ UNCHANGED <<asked, misnamed>>
      /\ bulks \in Seq(BulkType) /\ Len(bulks) + 1 \in Nat
  <2>1. /\ TypeOK /\ ConnectedFits /\ Confirm("ListIncompleteUploads")
        /\ UNCHANGED <<asked, misnamed>>
    BY DEF BulkInv, AbortIncompleteUploadsAsk
  <2>2. bulks \in Seq(BulkType)
    BY <2>1 DEF TypeOK
  <2> QED
    BY <2>1, <2>2, ConfirmFacts
<1>2. PICK n : n = Len(bulks) + 1
  OBVIOUS
<1>3. PICK known : known = {u \in Uploads : \E a \in Accounts : <<a, u>> \in journal}
  OBVIOUS
<1>4. PICK items : items = JobsFor("AbortIncompleteUpload", known, n)
  OBVIOUS
<1>5. PICK id : id = nextId + Cardinality(items)
  OBVIOUS
<1>6. PICK p : p = Job(id, "ListIncompleteUploads", 0, 0, n)
  OBVIOUS
<1>7. PICK c : c = BulkState("AbortUploads", known)
  OBVIOUS
<1>8. PICK new : new = items \cup {p}
  OBVIOUS
<1>9. Enqueue(new) /\ bulks' = Append(bulks, c)
  BY <1>2, <1>3, <1>4, <1>5, <1>6, <1>7, <1>8 DEF AbortIncompleteUploadsAsk
<1>10. known \in SUBSET Uploads /\ IsFiniteSet(known)
  <2>1. known \in SUBSET Uploads
    BY <1>3
  <2> QED
    BY <2>1, KeyFacts, FS_Subset
<1>11. /\ Batch(items) /\ Cardinality(items) = Cardinality(known) /\ Cardinality(items) \in Nat
       /\ \A i \in items : /\ i.kind = "AbortIncompleteUpload" /\ i.acct = config
                           /\ i.key \in known /\ i.bulk = n
  <2>1. PICK kind : kind = "AbortIncompleteUpload"
    OBVIOUS
  <2>2. kind \in Kinds /\ known \subseteq Keys \cup Uploads /\ n \in Nat
        /\ items = JobsFor(kind, known, n)
    BY <1>1, <1>2, <1>4, <1>10, <2>1 DEF Kinds, Items
  <2>3. /\ Batch(items) /\ Cardinality(items) = Cardinality(known)
        /\ \A i \in items : /\ i.kind = kind /\ i.acct = config /\ i.key \in known
                            /\ i.dst = 0 /\ i.bulk = n
    BY <1>1, <1>10, <2>2, BatchFor
  <2> QED
    BY <1>10, <2>1, <2>3, FS_CardinalityType
<1>12. /\ p \in JobType /\ Waits(p) /\ p.id = id /\ p.kind = "ListIncompleteUploads"
       /\ p.acct = config /\ p.bulk = n /\ p.page = {}
  <2>1. id \in Nat \ {0} /\ config \in Accounts \cup {NoAccount}
    BY <1>1, <1>5, <1>11 DEF TypeOK
  <2> QED
    BY <1>1, <1>2, <1>6, <2>1, KeyFacts DEF Job, JobType, Waits, Kinds, Asks
<1>13. Batch(new)
  BY <1>1, <1>5, <1>8, <1>11, <1>12, BatchPlus
<1>14. /\ c \in BulkType /\ c.kind = "AbortUploads" /\ c.acct = config /\ c.listing = TRUE
       /\ c.pending = Cardinality(known) /\ c.done = 0 /\ c.failed = 0 /\ c.reports = 0
       /\ c.claimed = known
  <2>1. PICK kind : kind = "AbortUploads"
    OBVIOUS
  <2>2. kind \in BulkKinds /\ c = BulkState(kind, known)
    BY <1>7, <2>1 DEF BulkKinds
  <2>3. Started(c, kind, known)
    BY <1>1, <1>10, <2>2, BulkStateIs
  <2> QED
    BY <2>1, <2>3 DEF Started
<1>15. {i \in new : i.kind \in Items} = items /\ {i \in new : i.kind \in Pages} = {p}
  BY <1>8, <1>11, <1>12 DEF Items, Pages
<1>16. Sound(c, items, {p}, gone)
  <2>1. Counts(c, items, {p})
    BY <1>11, <1>14 DEF Counts
  <2>2. Reports(c, items, {p})
    BY <1>14 DEF Reports
  <2>3. AddsUp(c, {p}, gone)
    BY <1>11, <1>14 DEF AddsUp, Taken
  <2> QED
    BY <2>1, <2>2, <2>3 DEF Sound
<1>17. \A i \in new : JobFits(i)' /\ i.bulk = Len(bulks) + 1
  <2>1. n \in DOMAIN bulks' /\ bulks'[n].kind = "AbortUploads"
    BY <1>1, <1>2, <1>9, <1>14
  <2>2. ASSUME NEW i \in items PROVE JobFits(i)' /\ i.bulk = n
    BY <1>10, <1>11, <2>1 DEF JobFits, Fits, BulkFits, PageFits, IsAsked, Deletes
  <2>3. JobFits(p)' /\ p.bulk = n
    BY <1>12, <2>1 DEF JobFits, Fits, BulkFits, PageFits, IsAsked, Deletes
  <2> QED
    BY <1>2, <1>8, <2>2, <2>3
<1>18. Sound(c, {i \in new : i.kind \in Items}, {i \in new : i.kind \in Pages}, gone)
  BY <1>15, <1>16
<1> QED
  BY <1>1, <1>9, <1>13, <1>14, <1>17, <1>18, StartsKeeps

\* The session changes, or a connection test ends.
LEMMA SessionKeeps ==
  ASSUME BulkInv, Switch \/ ConnectTest
  PROVE  BulkInv'
<1>1. /\ TypeOK /\ ConnectedFits /\ JobsFit /\ IdsFit /\ BoxesFit /\ MissingIsGone
      /\ BulksAreSound
  BY DEF BulkInv
<1>2. /\ objects' = objects /\ incomplete' = incomplete /\ journal' = journal
      /\ jobs' = jobs /\ nextId' = nextId /\ bulks' = bulks /\ boxes' = boxes
      /\ asks' = asks /\ asked' = asked /\ misnamed' = misnamed /\ gone' = gone
  BY DEF Switch, ConnectTest, storeVars
<1>3. /\ config \in Accounts \cup {NoAccount} /\ connected \in BOOLEAN /\ switched \in BOOLEAN
      /\ switches \in 0 .. MaxSwitches /\ MaxSwitches \in Nat
  BY <1>1, BulkBoundsAssumption DEF TypeOK
<1>4. /\ config' \in Accounts \cup {NoAccount} /\ connected' \in BOOLEAN
      /\ switches' \in 0 .. MaxSwitches /\ switched' \in BOOLEAN
      /\ ConnectedFits' /\ dialog' \in DialogType
      /\ (switched => switched') /\ (switched' \/ config' = config)
  <2>1. CASE Switch
    <3>1. switched' = (switched \/ config' # config) /\ dialog = NoDialog /\ dialog' = dialog
      BY <2>1 DEF Switch
    <3>2. /\ config' \in Accounts \cup {NoAccount} /\ connected' = FALSE
          /\ switches' \in 0 .. MaxSwitches
      <4>1. CASE connected /\ config' = NoAccount /\ connected' = FALSE /\ switches' = switches
        BY <1>3, <4>1
      <4>2. CASE connected /\ connected' = FALSE /\ config' = config /\ switches' = switches
        BY <1>3, <4>2
      <4>3. CASE /\ ~connected /\ config' \in Accounts /\ connected' = connected
                 /\ switches < MaxSwitches /\ switches' = switches + 1
        <5>1. switches' \in 0 .. MaxSwitches
          BY <1>3, <4>3
        <5> QED
          BY <1>3, <4>3, <5>1
      <4> QED
        BY <2>1, <4>1, <4>2, <4>3 DEF Switch
    <3>3. dialog' \in DialogType
      BY <1>1, <3>1 DEF TypeOK
    <3> QED
      BY <1>3, <3>1, <3>2, <3>3 DEF ConnectedFits
  <2>2. CASE ConnectTest
    <3>1. /\ config # NoAccount /\ connected' \in BOOLEAN /\ RemoveItems
          /\ config' = config /\ switches' = switches /\ switched' = switched
      BY <2>2 DEF ConnectTest
    <3>2. dialog' \in DialogType
      BY <1>1, <3>1, DialogLasts
    <3> QED
      BY <1>3, <3>1, <3>2 DEF ConnectedFits
  <2> QED
    BY <2>1, <2>2
<1>5. TypeOK'
  BY <1>1, <1>2, <1>4 DEF TypeOK
<1>6. JobsFit'
  <2> SUFFICES ASSUME NEW i \in jobs PROVE JobFits(i)'
    BY <1>2 DEF JobsFit
  <2>1. JobFits(i)
    BY <1>1 DEF JobsFit
  <2> QED
    BY <1>2, <1>4, <2>1, JobLasts
<1>7. BulksAreSound'
  BY <1>1, <1>2 DEF BulksAreSound, JobsOf, Listings
<1>8. IdsFit' /\ BoxesFit' /\ MissingIsGone'
  BY <1>1, <1>2 DEF IdsFit, BoxesFit, MissingIsGone
<1> QED
  BY <1>4, <1>5, <1>6, <1>7, <1>8 DEF BulkInv

-----------------------------------------------------------------------------
(* The invariant *)

\* The program starts in the invariant.
LEMMA InitHolds == Init => BulkInv
<1> SUFFICES ASSUME Init PROVE BulkInv
  OBVIOUS
<1>1. /\ config \in Accounts /\ connected = TRUE
      /\ objects = [a \in Accounts |-> Below] /\ incomplete = [a \in Accounts |-> Uploads]
      /\ journal \in SUBSET (Accounts \X Uploads) /\ jobs = {} /\ nextId = 1
      /\ bulks = << >> /\ boxes = << >> /\ dialog = NoDialog /\ asks = 0 /\ switches = 0
      /\ asked = {} /\ misnamed = {} /\ gone = {} /\ switched = FALSE
  BY DEF Init
<1>2. TypeOK
  <2>1. objects \in [Accounts -> SUBSET Keys] /\ incomplete \in [Accounts -> SUBSET Uploads]
    BY <1>1, KeyFacts
  <2>2. IsFiniteSet(jobs) /\ jobs \subseteq JobType
    BY <1>1, FS_EmptySet
  <2>3. bulks \in Seq(BulkType) /\ boxes \in Seq(0 .. Len(bulks))
    BY <1>1
  <2>4. asks \in 0 .. MaxAsks /\ switches \in 0 .. MaxSwitches
    BY <1>1, BulkBoundsAssumption
  <2>5. config \in Accounts \cup {NoAccount} /\ nextId \in Nat \ {0}
    BY <1>1
  <2>6. connected \in BOOLEAN /\ switched \in BOOLEAN
    BY <1>1
  <2>7. journal \subseteq (Accounts \X Uploads)
    BY <1>1
  <2>8. /\ asked \subseteq Accounts \X Keys /\ misnamed \subseteq Accounts \X Keys
        /\ gone \subseteq Accounts \X Keys
    BY <1>1
  <2>9. dialog \in DialogType
    BY <1>1 DEF NoDialog, DialogType
  <2> QED
    BY <2>1, <2>2, <2>3, <2>4, <2>5, <2>6, <2>7, <2>8, <2>9 DEF TypeOK
<1>3. JobsFit /\ IdsFit /\ ConnectedFits /\ MissingIsGone
  BY <1>1 DEF JobsFit, IdsFit, ConnectedFits, MissingIsGone
<1>4. BoxesFit /\ BulksAreSound
  BY <1>1 DEF BoxesFit, BulksAreSound
<1> QED
  BY <1>2, <1>3, <1>4 DEF BulkInv

\* Every step keeps the invariant.
LEMMA NextKeeps == BulkInv /\ [Next]_vars => BulkInv'
<1> SUFFICES ASSUME BulkInv, [Next]_vars PROVE BulkInv'
  OBVIOUS
<1>1. CASE \E lane \in {0, 1} : Execute(lane)
  BY <1>1, ExecuteKeeps
<1>2. CASE HandleTransferEventUi
  BY <1>2, HandleKeeps
<1>3. CASE CloseBox
  BY <1>3, CloseBoxKeeps
<1>4. CASE DeletePrefixAsk
  BY <1>4, DeletePrefixAskKeeps
<1>5. CASE DownloadPrefixAsk
  BY <1>5, DownloadPrefixAskKeeps
<1>6. CASE AbortIncompleteUploadsAsk
  BY <1>6, AbortUploadsAskKeeps
<1>7. CASE RenameObjectAsk \/ DeleteObjectAsk \/ OneJobAsk \/ CmdUploadCurrent
             \/ DownloadObjectAs \/ ShowProperties
  BY <1>7, SingleAsksKeep
<1>8. CASE Switch \/ ConnectTest
  BY <1>8, SessionKeeps
<1>10. CASE (\E kind \in Menu \ {"PropertiesHead"} : Ask(kind)) \/ Decline
  BY <1>10, DialogKeeps
<1>9. CASE UNCHANGED vars
  <2>1. /\ config' = config /\ connected' = connected /\ switches' = switches
        /\ switched' = switched /\ objects' = objects /\ incomplete' = incomplete
        /\ journal' = journal /\ jobs' = jobs /\ nextId' = nextId /\ bulks' = bulks
        /\ boxes' = boxes /\ asks' = asks /\ asked' = asked /\ gone' = gone
        /\ dialog' = dialog /\ misnamed' = misnamed
    BY <1>9 DEF vars, sessionVars, storeVars
  <2>2. TypeOK' /\ ConnectedFits' /\ IdsFit' /\ BoxesFit' /\ MissingIsGone'
    BY <2>1 DEF BulkInv, TypeOK, ConnectedFits, IdsFit, BoxesFit, MissingIsGone
  <2>3. JobsFit'
    <3> SUFFICES ASSUME NEW i \in jobs PROVE JobFits(i)'
      BY <2>1 DEF JobsFit
    <3>1. JobFits(i)
      BY DEF BulkInv, JobsFit
    <3> QED
      BY <2>1, <3>1, JobLasts
  <2>4. BulksAreSound'
    BY <2>1 DEF BulkInv, BulksAreSound, JobsOf, Listings
  <2> QED
    BY <2>2, <2>3, <2>4 DEF BulkInv
<1> QED
  BY <1>1, <1>2, <1>3, <1>4, <1>5, <1>6, <1>7, <1>8, <1>9, <1>10 DEF Next

\* The invariant holds in every reachable state of BulkOps, the bulk operations
\* of NppS3Plugin.cpp.
THEOREM BulkInvariant == Spec => []BulkInv
<1>1. Init => BulkInv
  BY InitHolds
<1>2. BulkInv /\ [Next]_vars => BulkInv'
  BY NextKeeps
<1> QED
  BY <1>1, <1>2, PTL DEF Spec

-----------------------------------------------------------------------------
(* What follows from it *)

\* What the invariant says of one bulk.
LEMMA OneBulk ==
  ASSUME BulkInv, NEW b \in DOMAIN bulks
  PROVE  Sound(bulks[b], JobsOf(b), Listings(b), gone) /\ bulks[b] \in BulkType
BY DEF BulkInv, BulksAreSound, TypeOK

\* The sums of a sound bulk.
LEMMA SumsHold ==
  ASSUME NEW c \in BulkType, NEW items, NEW pages, NEW lost, Sound(c, items, pages, lost)
  PROVE  IF c.kind = "FolderDownload"
         THEN /\ c.done + c.failed <= Cardinality(Below \ Folders)
              /\ c.reports > 0 /\ c.whole =>
                   c.done + c.failed
                     >= Cardinality({k \in Below \ Folders : <<c.acct, k>> \notin lost})
         ELSE c.done + c.failed + c.pending <= Cardinality(Uploads)
<1>1. /\ Counts(c, items, pages) /\ Reports(c, items, pages) /\ AddsUp(c, pages, lost)
      /\ c.done \in Nat /\ c.failed \in Nat /\ c.pending \in Nat
      /\ Taken(c) = c.done + c.failed + c.pending
  BY DEF Sound, BulkType, Taken
<1>2. CASE c.kind = "FolderDownload"
  <2>1. PICK all : all = Below \ Folders
    OBVIOUS
  <2>2. IsFiniteSet(all) /\ Told(pages) \in SUBSET all
    BY <2>1, KeyFacts, FS_Subset DEF Told
  <2>3. /\ Cardinality(Told(pages)) <= Cardinality(all)
        /\ Cardinality(Told(pages)) \in Nat /\ Cardinality(all) \in Nat
    BY <2>2, FS_Subset, FS_CardinalityType
  <2>4. Taken(c) <= Cardinality(Told(pages))
    BY <1>1, <1>2 DEF AddsUp
  <2>5. c.done + c.failed <= Cardinality(all)
    <3>1. PICK t : t = Taken(c)
      OBVIOUS
    <3>2. c.done + c.failed <= t /\ t \in Nat /\ c.done + c.failed \in Nat
      BY <1>1, <3>1
    <3>3. t <= Cardinality(Told(pages))
      BY <2>4, <3>1
    <3> QED
      BY <2>3, <3>2, <3>3
  <2>6. ASSUME c.reports > 0, c.whole
        PROVE  c.done + c.failed >= Cardinality({k \in all : <<c.acct, k>> \notin lost})
    <3>1. items = {} /\ pages = {}
      BY <1>1, <2>6 DEF Reports
    <3>2. c.pending = 0
      BY <1>1, <3>1, FS_EmptySet DEF Counts
    <3>3. Taken(c) >= Cardinality(Told(pages) \cap Kept(c.acct, lost))
      BY <1>1, <1>2, <2>6 DEF AddsUp
    <3>4. Told(pages) \cap Kept(c.acct, lost) = {k \in all : <<c.acct, k>> \notin lost}
      BY <2>1, <3>1 DEF Told, Kept
    <3>5. Taken(c) = c.done + c.failed
      BY <1>1, <3>2
    <3> QED
      BY <3>3, <3>4, <3>5
  <2> QED
    BY <1>2, <2>1, <2>5, <2>6
<1>3. CASE c.kind # "FolderDownload"
  <2>1. c.claimed \in SUBSET Uploads
    BY DEF BulkType
  <2>2. /\ Cardinality(c.claimed) <= Cardinality(Uploads)
        /\ Cardinality(c.claimed) \in Nat /\ Cardinality(Uploads) \in Nat
    BY <2>1, KeyFacts, FS_Subset, FS_CardinalityType
  <2>3. Taken(c) <= Cardinality(c.claimed)
    BY <1>1, <1>3 DEF AddsUp
  <2>4. PICK t : t = c.done + c.failed + c.pending
    OBVIOUS
  <2>5. t \in Nat /\ t <= Cardinality(c.claimed)
    BY <1>1, <2>3, <2>4
  <2>6. t <= Cardinality(Uploads)
    BY <2>2, <2>5
  <2> QED
    BY <1>3, <2>4, <2>6
<1> QED
  BY <1>2, <1>3

\* An object disappears only when a job that deletes is executed.
LEMMA OnlyWantedGo ==
  ASSUME BulkInv, [Next]_vars, NEW a \in Accounts, NEW k \in objects[a] \ objects'[a]
  PROVE  Wanted(a, k)
<1>1. TypeOK /\ JobsFit
  BY DEF BulkInv
<1>2. CASE \E lane \in {0, 1} : Execute(lane)
  <2>1. PICK lane \in {0, 1} : Execute(lane)
    BY <1>2
  <2>2. PICK j \in jobs : Succeed(j) \/ NotSucceed(j)
    BY <2>1 DEF Execute
  <2>3. IsAsked(j)
    BY <1>1 DEF JobsFit, JobFits
  <2>4. (\E left : Apply(j, left)) \/ objects' = objects
    BY <2>2 DEF Succeed, NotSucceed
  <2>5. PICK left : Apply(j, left)
    BY <2>4
  <2>6. objects \in [Accounts -> SUBSET Keys]
    BY <1>1 DEF TypeOK
  <2>7. CASE j.kind \in Deletes
    <3>1. objects' = [objects EXCEPT ![j.acct] = @ \ {j.key}]
      BY <2>5, <2>7 DEF Apply
    <3>2. a = j.acct /\ k = j.key
      BY <2>6, <3>1
    <3> QED
      BY <2>3, <2>7, <3>2 DEF IsAsked
  <2>8. CASE j.kind \notin Deletes
    <3>1. \/ objects' = [objects EXCEPT ![j.acct] = @ \cup {j.dst}]
          \/ objects' = [objects EXCEPT ![j.acct] = @ \cup {j.key}]
          \/ objects' = objects
      <4>1. CASE j.kind = "RenameCopy"
        BY <2>5, <2>8, <4>1 DEF Apply
      <4>2. CASE j.kind \in {"CreateObject", "UploadManual"}
        BY <2>5, <2>8, <4>2 DEF Apply
      <4>3. CASE j.kind \notin {"RenameCopy", "CreateObject", "UploadManual"}
        BY <2>5, <2>8, <4>3 DEF Apply
      <4> QED
        BY <4>1, <4>2, <4>3
    <3>2. \A q \in objects[a] : q \in objects'[a]
      BY <2>6, <3>1
    <3> QED
      BY <3>2
  <2> QED
    BY <2>7, <2>8
<1>3. CASE HandleTransferEventUi
  BY <1>3 DEF HandleTransferEventUi
<1>4. CASE CloseBox
  BY <1>4 DEF CloseBox, storeVars
<1>5. CASE \/ (\E kind \in Menu \ {"PropertiesHead"} : Ask(kind)) \/ Decline
           \/ DeletePrefixAsk \/ DownloadPrefixAsk \/ AbortIncompleteUploadsAsk
           \/ RenameObjectAsk \/ DeleteObjectAsk \/ OneJobAsk \/ CmdUploadCurrent
           \/ DownloadObjectAs \/ ShowProperties
  <2>1. (\E kind : Request(kind)) \/ CloseDialog
    BY <1>5 DEF Ask, Decline, DeletePrefixAsk, DownloadPrefixAsk, AbortIncompleteUploadsAsk,
                RenameObjectAsk, DeleteObjectAsk, OneJobAsk, CmdUploadCurrent,
                DownloadObjectAs, ShowProperties, Confirm
  <2> QED
    BY <2>1 DEF Request, CloseDialog, storeVars
<1>6. CASE Switch \/ ConnectTest
  BY <1>6 DEF Switch, ConnectTest, storeVars
<1>7. CASE UNCHANGED vars
  BY <1>7 DEF vars, storeVars
<1> QED
  BY <1>2, <1>3, <1>4, <1>5, <1>6, <1>7 DEF Next

-----------------------------------------------------------------------------
(* The theorems *)

\* In every reachable state the variables have their types, and no count of a
\* BulkState (NppS3Plugin.cpp) has fallen below zero, however completions,
\* boxes and requests interleave.
THEOREM BulkTypes == Spec => []TypeOK
<1>1. BulkInv => TypeOK
  BY DEF BulkInv
<1> QED
  BY <1>1, BulkInvariant, PTL

\* BulkState::pending is the number of jobs of the bulk that are not handled
\* yet, and BulkState::listing says whether a page is outstanding, for any
\* number of bulks at once, whatever became of their jobs.
THEOREM CountersAreTrue == Spec => []PendingCountsJobs
<1>1. BulkInv => PendingCountsJobs
  <2> SUFFICES ASSUME BulkInv, NEW b \in DOMAIN bulks
               PROVE  /\ bulks[b].pending = Cardinality(JobsOf(b))
                      /\ bulks[b].listing <=> Listings(b) # {}
    BY DEF PendingCountsJobs
  <2>1. Sound(bulks[b], JobsOf(b), Listings(b), gone)
    BY OneBulk
  <2> QED
    BY <2>1 DEF Sound, Counts
<1> QED
  BY <1>1, BulkInvariant, PTL

\* FinishBulkIfDone shows the summary of a bulk when nothing of it is left, and
\* once, unless the box of its failed listing was open when its last item came.
THEOREM SummaryComesLast == Spec => []ReportIsComplete
<1>1. BulkInv => ReportIsComplete
  <2> SUFFICES ASSUME BulkInv, NEW b \in DOMAIN bulks, bulks[b].reports > 0
               PROVE  /\ JobsOf(b) = {} /\ Listings(b) = {}
                      /\ bulks[b].reports = 1 \/ bulks[b].boxed
    BY DEF ReportIsComplete
  <2>1. Sound(bulks[b], JobsOf(b), Listings(b), gone)
    BY OneBulk
  <2> QED
    BY <2>1 DEF Sound, Reports
<1> QED
  BY <1>1, BulkInvariant, PTL

\* The summary of a folder download counts no file twice and, when all pages
\* were listed in one session, leaves out none that was there all the time,
\* unless a listing ended early because the service named no token for what
\* followed; a clean-up (AbortIncompleteUploadsAsk) aborts no upload twice.  For
\* any page size and any order in which the jobs end.
THEOREM SummaryIsRight == Spec => []SummaryAddsUp
<1>1. BulkInv => SummaryAddsUp
  <2> SUFFICES ASSUME BulkInv PROVE SummaryAddsUp
    OBVIOUS
  <2>1. ASSUME NEW b \in DOMAIN bulks
        PROVE  IF bulks[b].kind = "FolderDownload"
               THEN /\ bulks[b].done + bulks[b].failed <= Cardinality(Below \ Folders)
                    /\ bulks[b].reports > 0 /\ bulks[b].whole =>
                         bulks[b].done + bulks[b].failed
                           >= Cardinality({k \in Below \ Folders : <<bulks[b].acct, k>> \notin gone})
               ELSE bulks[b].done + bulks[b].failed + bulks[b].pending <= Cardinality(Uploads)
    <3>1. Sound(bulks[b], JobsOf(b), Listings(b), gone) /\ bulks[b] \in BulkType
      BY OneBulk
    <3> QED
      BY <3>1, SumsHold
  <2> QED
    BY <2>1 DEF SummaryAddsUp
<1> QED
  BY <1>1, BulkInvariant, PTL

\* As long as the session does not change, an object disappears only if the user
\* confirmed the deletion of its key or of its prefix, or if the service had
\* answered with success that it was copied (DeletePrefixAsk, DeleteObjectAsk,
\* RenameObjectAsk), whatever failed, was cancelled or lost its answer.  Two
\* things it does not say: the copy may be missing although it was answered, and
\* a command whose tree item was removed behind its dialog may name another
\* object, which is then deleted (misnamed).
THEOREM OnlyAskedIsDeleted == Spec => NothingDeletedUnasked
<1>1. BulkInv /\ [Next]_vars =>
        [\A a \in Accounts : \A k \in objects[a] \ objects'[a] :
           switched \/ <<a, k>> \in asked \cup misnamed]_vars
  BY OnlyWantedGo DEF Wanted
<1> QED
  BY <1>1, BulkInvariant, PTL DEF Spec, NothingDeletedUnasked
=============================================================================
