----------------------------- MODULE BrowserProofs -----------------------------
(***************************************************************************)
(* Theorems about the session and the object tree, for any number of       *)
(* profiles, tree handles and actions of the user, any containers with any *)
(* content, and any size and number of pages.                              *)
(***************************************************************************)
EXTENDS Browser, FiniteSetTheorems, WellFoundedInduction, TLAPS

\* The items n are a tree with root r: every other item hangs below a live one,
\* and knows all that are above it.
Hangs(n, h) ==
  /\ n[h].kind # "Root" /\ n[h].up \in DOMAIN n
  /\ n[h].above = n[n[h].up].above \cup {n[h].up}
  /\ h \notin n[h].above
IsRoot(n, r) == r \in DOMAIN n /\ n[r].kind = "Root" /\ n[r].up = 0 /\ n[r].above = {}
ItemFits(n, r, h) ==
  /\ n[h] \in Items /\ n[h].above \subseteq DOMAIN n
  /\ h # r => Hangs(n, h) /\ r \in n[h].above
  /\ \A a \in n[h].above : n[a].above \subseteq n[h].above
TreeFits(n, r) ==
  /\ DOMAIN n \subseteq Handles /\ IsRoot(n, r)
  /\ \A h \in DOMAIN n : ItemFits(n, r, h)

\* The first m rows of a container, and how often an item shows a row.
First(c, m) == {Content[c][i] : i \in {i \in DOMAIN Content[c] : i <= m}}
Named(n, h, c) == {g \in Children(n, h) : n[g].name = c}
Times(x, s) == IF x \in s THEN 1 ELSE 0
Shows(n, h, s) ==
  /\ \A o \in Objects : n[h].rows[o] = Times(o, s)
  /\ \A c \in Containers : Cardinality(Named(n, h, c)) = Times(c, s)

\* Of the one listing j of an item h, the pages before j's are shown.
Listed(n, h, j, acct, live) ==
  /\ live /\ j.acct = acct /\ j.name = n[h].name
  /\ n[h].loading /\ ~n[h].loaded
  /\ Shows(n, h, First(j.name, j.page * PageSize))
  /\ n[h].from = IF j.page = 0 THEN {} ELSE {acct}
Complete(n, h) ==
  /\ Shows(n, h, Visible(n[h].name, n[h].ends))
  /\ \E a \in Accounts : n[h].from = {a}

\* The jobs q and the items n of a session agree: an item on which no two
\* listings met is listed at most once, and as far as its job says.
ListingFits(n, q, h, acct, live) ==
  n[h].kind # "Root" /\ ~n[h].mixed =>
    /\ \A i, k \in DOMAIN q : q[i].item = h /\ q[k].item = h => i = k
    /\ \A i \in DOMAIN q : q[i].item = h => Listed(n, h, q[i], acct, live)
    /\ n[h].loaded => Complete(n, h) /\ ~Refers(q, h)
IsClean(n, h) == ~HasRows(n, h) => n[h].from = {}
ListingsFit(n, q, acct, live) ==
  \A h \in DOMAIN n : IsClean(n, h) /\ ListingFits(n, q, h, acct, live)

\* Listings are of items, and of pages that have rows.
JobFits(j) ==
  IF j.kind = "ListNode" THEN j.item \in Handles /\ j.page * PageSize < Len(Content[j.name])
                         ELSE j.item = 0
QueueFits(q) == q \in Seq(Jobs) /\ \A i \in DOMAIN q : JobFits(q[i])

\* What OpenObject notes: the profile shown as active is that of the session.
Opens == [acct : Accounts, path : Profiles \X Objects, crossed : BOOLEAN]
OpenFits(o) == ~o.crossed => o.path[1] = o.acct
OpensFit(q) == q \in Seq(Opens) /\ \A i \in DOMAIN q : OpenFits(q[i])

\* Everything that is outstanding, and everything in the tree, is of one account.
OwnJobs(q, acct, profile) == \A i \in DOMAIN q : q[i].acct = acct /\ q[i].acct = profile
OwnItem(e, acct) == e.kind # "Root" => e.acct = acct /\ e.from \subseteq {acct}
OwnItems(n, acct) == \A g \in DOMAIN n : OwnItem(n[g], acct)

\* The parts of the inductive invariant.
SessionInv ==
  /\ profiles \subseteq Profiles /\ active \in profiles \cup {NoProfile}
  /\ config \in Accounts /\ connected \in BOOLEAN
  /\ dialog \in BOOLEAN /\ crossed \in BOOLEAN /\ label \in Labels
  /\ connected /\ ~crossed => config = active
TreeInv ==
  /\ TreeFits(nodes, root) /\ ListingsFit(nodes, jobs, config, connected)
  /\ ~crossed => OwnItems(nodes, config)
QueueInv ==
  /\ QueueFits(jobs) /\ OpensFit(opens)
  /\ ~crossed => OwnJobs(jobs, config, active) /\ OwnJobs(opens, config, active)
DocsFit(d) ==
  \A p \in DOMAIN d :
    /\ p \in Accounts \X Objects /\ d[p].profile \in Accounts
    /\ ~d[p].crossed => d[p].profile = d[p].acct /\ p[1] = d[p].acct
BrowserInv == SessionInv /\ TreeInv /\ QueueInv /\ DocsFit(docs)

-----------------------------------------------------------------------------
(* Pages *)

\* The sizes are numbers.
LEMMA SizesFacts ==
  PageSize \in Nat \ {0} /\ LastPage \in Nat
BY BrowserBoundsAssumption

\* The row with index i is on page (i - 1) \div PageSize.
LEMMA PageOfRow ==
  ASSUME NEW i \in Nat \ {0}, NEW s \in Nat \ {0}, NEW p \in Nat
  PROVE  /\ (i - 1) \div s = p <=> p * s < i /\ i <= (p + 1) * s
         /\ p * s \in Nat /\ (p + 1) * s = p * s + s
<1>1. PICK a : a = i - 1
  OBVIOUS
<1>2. PICK d : d = a \div s
  OBVIOUS
<1>3. a \in Nat /\ d \in Nat /\ d * s <= a /\ a < d * s + s
  BY <1>1, <1>2
<1>4. p * s \in Nat /\ (p + 1) * s = p * s + s
  OBVIOUS
<1>5. d = p => p * s < i /\ i <= (p + 1) * s
  BY <1>1, <1>3, <1>4
<1>6. ASSUME p * s < i, i <= (p + 1) * s PROVE d = p
  <2>1. p * s <= a /\ a < p * s + s
    BY <1>1, <1>4, <1>6
  <2>2. CASE d < p
    <3>1. d + 1 <= p
      BY <1>3, <2>2
    <3>2. (d + 1) * s <= p * s
      BY <1>3, <3>1
    <3> QED
      BY <1>3, <2>1, <3>2
  <2>3. CASE p < d
    <3>1. p + 1 <= d
      BY <1>3, <2>3
    <3>2. (p + 1) * s <= d * s
      BY <1>3, <3>1
    <3> QED
      BY <1>3, <2>1, <3>2
  <2> QED
    BY <1>3, <2>2, <2>3
<1> QED
  BY <1>1, <1>2, <1>4, <1>5, <1>6

\* The rows of a page follow those of the pages before it.
LEMMA PageAddsRows ==
  ASSUME NEW j, j.name \in Containers, j.page \in Nat
  PROVE  /\ First(j.name, (j.page + 1) * PageSize) = First(j.name, j.page * PageSize) \cup Page(j)
         /\ First(j.name, j.page * PageSize) \cap Page(j) = {}
         /\ Page(j) \subseteq Rows
         /\ j.page * PageSize < Len(Content[j.name]) => Page(j) # {}
<1>1. PICK c : c = Content[j.name]
  OBVIOUS
<1>2. /\ c \in Seq(Rows) /\ DOMAIN c = 1 .. Len(c) /\ Len(c) \in Nat
      /\ \A i, k \in DOMAIN c : c[i] = c[k] => i = k
  BY <1>1, ContentAssumption
<1>3. PICK s : s = j.page * PageSize
  OBVIOUS
<1>4. PICK t : t = (j.page + 1) * PageSize
  OBVIOUS
<1>5. s \in Nat /\ t \in Nat /\ s < t
  BY <1>3, <1>4, SizesFacts
<1>6. \A i \in DOMAIN c : (i - 1) \div PageSize = j.page <=> s < i /\ i <= t
  <2> SUFFICES ASSUME NEW i \in DOMAIN c
               PROVE  (i - 1) \div PageSize = j.page <=> s < i /\ i <= t
    OBVIOUS
  <2>1. i \in Nat \ {0}
    BY <1>2
  <2>2. (i - 1) \div PageSize = j.page
          <=> j.page * PageSize < i /\ i <= (j.page + 1) * PageSize
    BY ONLY <2>1, SizesFacts, j.page \in Nat, PageOfRow, Zenon
  <2> QED
    BY <2>2, <1>3, <1>4
<1>7. Page(j) = {c[i] : i \in {i \in DOMAIN c : s < i /\ i <= t}}
  BY <1>1, <1>6 DEF Page
<1>8. /\ First(j.name, s) = {c[i] : i \in {i \in DOMAIN c : i <= s}}
      /\ First(j.name, t) = {c[i] : i \in {i \in DOMAIN c : i <= t}}
  BY <1>1 DEF First
<1>9. First(j.name, t) = First(j.name, s) \cup Page(j)
  BY <1>2, <1>5, <1>7, <1>8
<1>10. First(j.name, s) \cap Page(j) = {}
  BY <1>2, <1>5, <1>7, <1>8
<1>11. Page(j) \subseteq Rows
  BY <1>2, <1>7
<1>12. s < Len(c) => Page(j) # {}
  <2> SUFFICES ASSUME s < Len(c) PROVE s + 1 \in {i \in DOMAIN c : s < i /\ i <= t}
    BY <1>7
  <2> QED
    BY <1>2, <1>5
<1> QED
  BY <1>1, <1>3, <1>4, <1>9, <1>10, <1>11, <1>12

\* A listing ends with the page that is there, or with the last one asked for.
LEMMA EndsFacts ==
  ASSUME NEW j, j.page \in 0 .. LastPage, NEW ends \in Ends(j)
  PROVE  ends \in 0 .. LastPage /\ j.page <= ends /\ (j.page < ends => ends = LastPage)
BY SizesFacts DEF Ends

\* Nothing comes before the first page, and after the one that ends the listing
\* the item shows what is visible up to it.
LEMMA FirstAndLastPage ==
  ASSUME NEW j, j.name \in Containers, j.page \in 0 .. LastPage
  PROVE  /\ First(j.name, 0 * PageSize) = {}
         /\ \A ends \in Ends(j) : ~(Truncated(j) /\ j.page < ends) =>
              First(j.name, (j.page + 1) * PageSize) = Visible(j.name, ends)
<1>1. PICK c : c = Content[j.name]
  OBVIOUS
<1>2. DOMAIN c = 1 .. Len(c) /\ Len(c) \in Nat
  BY <1>1, ContentAssumption
<1>3. First(j.name, 0 * PageSize) = {}
  BY <1>1, <1>2, SizesFacts DEF First
<1>4. ASSUME NEW ends \in Ends(j), ~(Truncated(j) /\ j.page < ends)
      PROVE  First(j.name, (j.page + 1) * PageSize) = Visible(j.name, ends)
  <2>1. PICK t : t = (j.page + 1) * PageSize
    OBVIOUS
  <2>2. PICK u : u = PageSize * (ends + 1)
    OBVIOUS
  <2>3. ends \in 0 .. LastPage /\ j.page <= ends
    BY EndsFacts
  <2>4. t \in Nat /\ u \in Nat /\ t <= u
    BY <2>1, <2>2, <2>3, SizesFacts
  <2>5. t = u \/ Len(c) <= t
    <3>1. CASE j.page = ends
      BY <2>1, <2>2, <3>1, SizesFacts
    <3>2. CASE j.page # ends
      BY <1>1, <1>2, <1>4, <2>1, <2>3, <2>4, <3>2, SizesFacts DEF Truncated
    <3> QED
      BY <3>1, <3>2
  <2>6. \A i \in DOMAIN c : i <= t <=> i <= u
    BY <1>2, <2>4, <2>5
  <2>7. Visible(j.name, ends) = {c[i] : i \in {i \in DOMAIN c : i <= u}}
    BY <1>1, <2>2 DEF Visible
  <2> QED
    BY <1>1, <2>1, <2>6, <2>7 DEF First
<1> QED
  BY <1>3, <1>4

-----------------------------------------------------------------------------
(* The tree *)

\* What an item is and where it hangs does not change while it lives.
SamePlace(n2, n, g) ==
  n2[g] \in Items /\ n2[g].kind = n[g].kind /\ n2[g].up = n[g].up /\ n2[g].above = n[g].above

\* A new item: nothing is known of what it holds.
IsItem(e, kind, name, up, above, acct, mixed) ==
  /\ e \in Items /\ e.kind = kind /\ e.name = name /\ e.up = up /\ e.above = above
  /\ e.acct = acct /\ e.mixed = mixed
  /\ e.loaded = FALSE /\ e.loading = FALSE /\ e.from = {}

\* An item that is made is such an item.
LEMMA ItemIs ==
  ASSUME NEW kind \in {"Root", "Bucket", "Prefix"}, NEW name \in Containers,
         NEW up \in Handles \cup {0}, NEW above \in SUBSET Handles, NEW acct \in Accounts,
         NEW mixed, mixed \in BOOLEAN
  PROVE  IsItem(Item(kind, name, up, above, acct, mixed), kind, name, up, above, acct, mixed)
BY SizesFacts DEF IsItem, Item, Items, Placeholders

\* New items below a live one leave a tree.
LEMMA TreeGrows ==
  ASSUME NEW n, NEW r, TreeFits(n, r), NEW h \in DOMAIN n,
         NEW new \in SUBSET (Handles \ DOMAIN n),
         NEW n2, DOMAIN n2 = (DOMAIN n) \cup new,
         \A g \in DOMAIN n : SamePlace(n2, n, g),
         \A g \in new : /\ n2[g] \in Items /\ n2[g].kind # "Root" /\ n2[g].up = h
                        /\ n2[g].above = n[h].above \cup {h}
  PROVE  TreeFits(n2, r)
<1>1. /\ DOMAIN n \subseteq Handles /\ IsRoot(n, r)
      /\ \A g \in DOMAIN n : ItemFits(n, r, g)
  BY DEF TreeFits
<1>2. DOMAIN n2 \subseteq Handles /\ IsRoot(n2, r)
  BY <1>1 DEF IsRoot, SamePlace
<1>3. ASSUME NEW g \in DOMAIN n PROVE ItemFits(n2, r, g)
  <2>1. ItemFits(n, r, g) /\ SamePlace(n2, n, g) /\ n[g].above \subseteq DOMAIN n
    BY <1>1 DEF ItemFits
  <2>2. \A a \in n2[g].above : n2[a].above \subseteq n2[g].above
    BY <2>1 DEF ItemFits, SamePlace
  <2>3. g # r => Hangs(n2, g) /\ r \in n2[g].above
    BY <2>1 DEF ItemFits, Hangs, SamePlace
  <2> QED
    BY <2>1, <2>2, <2>3 DEF ItemFits, SamePlace
<1>4. ASSUME NEW g \in new PROVE ItemFits(n2, r, g)
  <2>1. ItemFits(n, r, h) /\ n[h].above \subseteq DOMAIN n /\ n2[h].above = n[h].above
    BY <1>1 DEF ItemFits, SamePlace
  <2>2. /\ n2[g] \in Items /\ n2[g].kind # "Root" /\ n2[g].up = h
        /\ n2[g].above = n[h].above \cup {h}
    OBVIOUS
  <2>3. Hangs(n2, g)
    BY <2>1, <2>2 DEF Hangs
  <2>4. r \in n2[g].above
    BY <2>1, <2>2 DEF ItemFits
  <2>5. \A a \in n2[g].above : n2[a].above \subseteq n2[g].above
    BY <2>1, <2>2 DEF ItemFits, SamePlace
  <2> QED
    BY <2>1, <2>2, <2>3, <2>4, <2>5 DEF ItemFits
<1> QED
  BY <1>2, <1>3, <1>4 DEF TreeFits

\* So does removing all that is below an item.
LEMMA TreeShrinks ==
  ASSUME NEW n, NEW r, TreeFits(n, r), NEW h \in DOMAIN n,
         NEW n2, DOMAIN n2 = {g \in DOMAIN n : h \notin n[g].above},
         \A g \in DOMAIN n2 : SamePlace(n2, n, g)
  PROVE  TreeFits(n2, r) /\ h \in DOMAIN n2
<1>1. /\ DOMAIN n \subseteq Handles /\ IsRoot(n, r)
      /\ \A g \in DOMAIN n : ItemFits(n, r, g)
  BY DEF TreeFits
<1>2. DOMAIN n2 \subseteq Handles /\ IsRoot(n2, r)
  BY <1>1 DEF IsRoot, SamePlace
<1>3. ASSUME NEW g \in DOMAIN n2 PROVE ItemFits(n2, r, g)
  <2>1. ItemFits(n, r, g) /\ SamePlace(n2, n, g) /\ h \notin n[g].above
    BY <1>1
  <2>2. n2[g].above \subseteq DOMAIN n2
    BY <2>1 DEF ItemFits, SamePlace
  <2>3. \A a \in n2[g].above : n2[a].above \subseteq n2[g].above
    BY <2>1, <2>2 DEF ItemFits, SamePlace
  <2>4. g # r => Hangs(n2, g) /\ r \in n2[g].above
    BY <2>1, <2>2 DEF ItemFits, Hangs, SamePlace
  <2> QED
    BY <2>1, <2>2, <2>3, <2>4 DEF ItemFits, SamePlace
<1>4. h \notin n[h].above
  BY <1>1 DEF ItemFits, Hangs, IsRoot
<1> QED
  BY <1>2, <1>3, <1>4 DEF TreeFits

\* Changing other facts of items leaves the tree as it is.
LEMMA TreeStays ==
  ASSUME NEW n, NEW r, TreeFits(n, r), NEW n2, DOMAIN n2 = DOMAIN n,
         \A g \in DOMAIN n : SamePlace(n2, n, g)
  PROVE  TreeFits(n2, r)
<1>1. PICK new : new = {}
  OBVIOUS
<1>2. r \in DOMAIN n
  BY DEF TreeFits, IsRoot
<1> QED
  BY <1>1, <1>2, TreeGrows

-----------------------------------------------------------------------------
(* Listings and items *)

\* An item and its children are as they were.
SameView(n2, n, g) ==
  /\ n2[g] = n[g] /\ Children(n2, g) = Children(n, g)
  /\ \A k \in Children(n, g) : n2[k].name = n[k].name

\* An item with its children as before goes with the same jobs.
LEMMA ViewKeeps ==
  ASSUME NEW n, NEW n2, NEW h, SameView(n2, n, h), NEW q, NEW acct, NEW live
  PROVE  /\ IsClean(n, h) => IsClean(n2, h)
         /\ ListingFits(n, q, h, acct, live) => ListingFits(n2, q, h, acct, live)
<1>1. n2[h] = n[h] /\ Children(n2, h) = Children(n, h)
  BY DEF SameView
<1>2. \A c : Named(n2, h, c) = Named(n, h, c)
  BY <1>1 DEF SameView, Named
<1>3. \A s : Shows(n2, h, s) <=> Shows(n, h, s)
  BY <1>1, <1>2 DEF Shows
<1>4. IsClean(n, h) => IsClean(n2, h)
  BY <1>1 DEF IsClean, HasRows
<1>5. Complete(n2, h) <=> Complete(n, h)
  BY <1>1, <1>3 DEF Complete
<1>6. \A j : Listed(n2, h, j, acct, live) <=> Listed(n, h, j, acct, live)
  BY <1>1, <1>3 DEF Listed
<1> QED
  BY <1>1, <1>4, <1>5, <1>6 DEF ListingFits

\* What a job is about does not change, and jobs do not refer to 0.
LEMMA JobsTail ==
  ASSUME NEW q \in Seq(Jobs), q # << >>
  PROVE  /\ Tail(q) \in Seq(Jobs) /\ Head(q) \in Jobs /\ Head(q) = q[1] /\ 1 \in DOMAIN q
         /\ \A i \in DOMAIN Tail(q) : i + 1 \in DOMAIN q /\ Tail(q)[i] = q[i + 1]
         /\ \A h : Refers(Tail(q), h) => Refers(q, h)
<1>1. /\ Tail(q) \in Seq(Jobs) /\ Head(q) \in Jobs /\ Head(q) = q[1] /\ 1 \in DOMAIN q
      /\ \A i \in DOMAIN Tail(q) : i + 1 \in DOMAIN q /\ Tail(q)[i] = q[i + 1]
  OBVIOUS
<1> QED
  BY <1>1 DEF Refers

\* A job comes after the ones that are outstanding.
LEMMA JobsAppend ==
  ASSUME NEW q \in Seq(Jobs), NEW j \in Jobs
  PROVE  /\ Append(q, j) \in Seq(Jobs)
         /\ \A i \in DOMAIN Append(q, j) :
              \/ i \in DOMAIN q /\ Append(q, j)[i] = q[i]
              \/ i = Len(q) + 1 /\ i \notin DOMAIN q /\ Append(q, j)[i] = j
         /\ \A i \in DOMAIN q : i \in DOMAIN Append(q, j) /\ Append(q, j)[i] = q[i]
         /\ \A h : Refers(Append(q, j), h) <=> Refers(q, h) \/ j.item = h
<1>1. /\ Append(q, j) \in Seq(Jobs)
      /\ \A i \in DOMAIN Append(q, j) :
           \/ i \in DOMAIN q /\ Append(q, j)[i] = q[i]
           \/ i = Len(q) + 1 /\ i \notin DOMAIN q /\ Append(q, j)[i] = j
      /\ \A i \in DOMAIN q : i \in DOMAIN Append(q, j) /\ Append(q, j)[i] = q[i]
      /\ Len(q) + 1 \in DOMAIN Append(q, j) /\ Append(q, j)[Len(q) + 1] = j
  OBVIOUS
<1> QED
  BY <1>1 DEF Refers

\* A job that is over, or one for another item, does not matter to an item.
LEMMA JobOver ==
  ASSUME NEW n, NEW q \in Seq(Jobs), q # << >>, NEW h, NEW acct, NEW live,
         ListingFits(n, q, h, acct, live)
  PROVE  ListingFits(n, Tail(q), h, acct, live)
<1> SUFFICES ASSUME n[h].kind # "Root", ~n[h].mixed
             PROVE  /\ \A i, k \in DOMAIN Tail(q) :
                         Tail(q)[i].item = h /\ Tail(q)[k].item = h => i = k
                    /\ \A i \in DOMAIN Tail(q) :
                         Tail(q)[i].item = h => Listed(n, h, Tail(q)[i], acct, live)
                    /\ n[h].loaded => Complete(n, h) /\ ~Refers(Tail(q), h)
  BY DEF ListingFits
<1>1. /\ \A i, k \in DOMAIN q : q[i].item = h /\ q[k].item = h => i = k
      /\ \A i \in DOMAIN q : q[i].item = h => Listed(n, h, q[i], acct, live)
      /\ n[h].loaded => Complete(n, h) /\ ~Refers(q, h)
  BY DEF ListingFits
<1>2. \A i \in DOMAIN Tail(q) : i \in Nat /\ i + 1 \in DOMAIN q /\ Tail(q)[i] = q[i + 1]
  BY JobsTail
<1>3. ~Refers(q, h) => ~Refers(Tail(q), h)
  BY JobsTail
<1> QED
  BY <1>1, <1>2, <1>3

\* Neither does a job for another item.
LEMMA JobElsewhere ==
  ASSUME NEW n, NEW q \in Seq(Jobs), NEW j \in Jobs, NEW h, j.item # h, NEW acct, NEW live,
         ListingFits(n, q, h, acct, live)
  PROVE  ListingFits(n, Append(q, j), h, acct, live)
<1>1. \A i \in DOMAIN Append(q, j) :
        Append(q, j)[i].item = h => i \in DOMAIN q /\ Append(q, j)[i] = q[i]
  BY JobsAppend
<1>2. Refers(Append(q, j), h) <=> Refers(q, h)
  BY JobsAppend
<1> QED
  BY <1>1, <1>2 DEF ListingFits

\* The head of the queue is the only job of its item.
LEMMA HeadIsAlone ==
  ASSUME NEW n, NEW q \in Seq(Jobs), q # << >>, NEW h, NEW acct, NEW live,
         ListingFits(n, q, h, acct, live), n[h].kind # "Root", ~n[h].mixed, Head(q).item = h
  PROVE  Listed(n, h, Head(q), acct, live) /\ ~Refers(Tail(q), h)
<1>1. 1 \in DOMAIN q /\ Head(q) = q[1]
  BY JobsTail
<1>2. \A i \in DOMAIN Tail(q) : i \in Nat /\ i # 0 /\ i + 1 \in DOMAIN q /\ Tail(q)[i] = q[i + 1]
  BY JobsTail
<1>3. \A i \in DOMAIN Tail(q) : i + 1 # 1
  BY <1>2
<1> QED
  BY <1>1, <1>2, <1>3 DEF ListingFits, Refers

\* What an item keeps while its other facts change.
SameItem(f, e) ==
  f \in Items /\ f.kind = e.kind /\ f.name = e.name /\ f.up = e.up /\ f.above = e.above
  /\ f.acct = e.acct

\* What an item is made of.
LEMMA ItemTypes ==
  ASSUME NEW e \in Items
  PROVE  /\ SameItem(e, e) /\ e.name \in Containers /\ e.above \in SUBSET Handles
         /\ e.acct \in Accounts /\ e.from \in SUBSET Accounts
         /\ e.loaded \in BOOLEAN /\ e.loading \in BOOLEAN /\ e.mixed \in BOOLEAN
         /\ e.kind \in {"Root", "Bucket", "Prefix"}
         /\ \A o \in Objects : e.rows[o] \in 0 .. 2
BY DEF Items, SameItem

\* The placeholders of an item.
LEMMA PlaceholderFacts == {"none", "Loading", "Empty"} \subseteq Placeholders
BY DEF Placeholders

\* Of the items n only h changes, and becomes e.
Becomes(n2, n, h, e) ==
  /\ DOMAIN n2 = DOMAIN n
  /\ \A g \in DOMAIN n : g # h => n2[g] = n[g]
  /\ n2[h] = e

\* An item whose children are asked for, removed, listed, and so on.
Asked(e, m) == [e EXCEPT !.loading = TRUE, !.holder = "Loading", !.expanded = TRUE, !.mixed = m]

IsAsked(f, e, m) ==
  /\ SameItem(f, e) /\ f.loaded = e.loaded /\ f.rows = e.rows /\ f.from = e.from
  /\ f.loading = TRUE /\ f.mixed = m

\* Asking for the children of an item leaves its rows.
LEMMA AskedItem ==
  ASSUME NEW e \in Items, NEW m, m \in BOOLEAN
  PROVE  IsAsked(Asked(e, m), e, m)
BY PlaceholderFacts DEF Asked, IsAsked, Items, SameItem

\* RemoveChildren leaves what the item is, and neither rows nor flags.
LEMMA EmptiedItem ==
  ASSUME NEW e \in Items,
         NEW f, f = [e EXCEPT !.loaded = FALSE, !.loading = FALSE, !.holder = "none",
                              !.rows = [o \in Objects |-> 0], !.from = {}]
  PROVE  /\ SameItem(f, e) /\ f.loaded = FALSE /\ f.loading = FALSE /\ f.mixed = e.mixed
         /\ f.from = {}
<1>1. [o \in Objects |-> 0] \in [Objects -> 0 .. 2]
  OBVIOUS
<1>2. PICK z : z = [o \in Objects |-> 0]
  OBVIOUS
<1>3. PICK none : none = {}
  OBVIOUS
<1>4. f = [e EXCEPT !.loaded = FALSE, !.loading = FALSE, !.holder = "none", !.rows = z,
                    !.from = none]
  BY <1>2, <1>3
<1>5. none \in SUBSET Accounts
  BY <1>3
<1>6. f \in Items
  BY <1>1, <1>2, <1>4, <1>5, PlaceholderFacts DEF Items
<1> QED
  BY <1>3, <1>4, <1>6 DEF Items, SameItem

\* All items but h go with the jobs q.
OthersFit(n, q, h, acct, live) ==
  \A g \in DOMAIN n : IsClean(n, g) /\ (g # h => ListingFits(n, q, g, acct, live))

\* The items n2 are those of n but for facts of h other than its rows.
Alike(n2, n, h) ==
  /\ DOMAIN n2 = DOMAIN n /\ SameItem(n2[h], n[h])
  /\ n2[h].rows = n[h].rows /\ n2[h].from = n[h].from
  /\ \A g \in DOMAIN n : g # h => n2[g] = n[g]
  /\ \A g \in DOMAIN n : Children(n2, g) = Children(n, g)
  /\ \A c : Named(n2, h, c) = Named(n, h, c)
KeepsOwner(n2, n) == \A a : OwnItems(n, a) => OwnItems(n2, a)

\* A change of the flags of an item leaves the others, and the tree, as they are.
LEMMA ChangeKeeps ==
  ASSUME NEW n, NEW r, TreeFits(n, r), NEW q, NEW acct, NEW live, NEW h \in DOMAIN n,
         OthersFit(n, q, h, acct, live), NEW n2, NEW e, Becomes(n2, n, h, e),
         SameItem(e, n[h]), e.rows = n[h].rows, e.from = n[h].from
  PROVE  /\ TreeFits(n2, r) /\ OthersFit(n2, q, h, acct, live)
         /\ Alike(n2, n, h) /\ KeepsOwner(n2, n)
<1>1. \A g \in DOMAIN n : n[g] \in Items
  BY DEF TreeFits, ItemFits
<1>2. DOMAIN n2 = DOMAIN n /\ (\A g \in DOMAIN n : g # h => n2[g] = n[g]) /\ n2[h] = e
  BY DEF Becomes
<1>3. /\ n2[h] \in Items /\ n2[h].kind = n[h].kind /\ n2[h].up = n[h].up
      /\ n2[h].above = n[h].above /\ n2[h].name = n[h].name /\ n2[h].acct = n[h].acct
      /\ n2[h].rows = n[h].rows /\ n2[h].from = n[h].from
  BY <1>2 DEF SameItem
<1>4. TreeFits(n2, r)
  <2>1. \A g \in DOMAIN n : SamePlace(n2, n, g)
    BY <1>1, <1>2, <1>3 DEF SamePlace
  <2> QED
    BY <1>2, <2>1, TreeStays
<1>5. \A g \in DOMAIN n : Children(n2, g) = Children(n, g)
  BY <1>2, <1>3 DEF Children
<1>6. \A c : Named(n2, h, c) = Named(n, h, c)
  BY <1>2, <1>3, <1>5 DEF Named, Children
<1>7. ASSUME NEW g \in DOMAIN n, g # h
      PROVE  IsClean(n2, g) /\ ListingFits(n2, q, g, acct, live)
  <2>1. SameView(n2, n, g)
    BY <1>2, <1>3, <1>5, <1>7 DEF SameView, Children
  <2>2. IsClean(n, g) /\ ListingFits(n, q, g, acct, live)
    BY <1>7 DEF OthersFit
  <2> QED
    BY <2>1, <2>2, ViewKeeps
<1>8. IsClean(n2, h)
  BY <1>3, <1>5 DEF IsClean, HasRows, OthersFit
<1>9. ASSUME NEW a, OwnItems(n, a) PROVE OwnItems(n2, a)
  <2> SUFFICES ASSUME NEW g \in DOMAIN n PROVE OwnItem(n2[g], a)
    BY <1>2 DEF OwnItems
  <2>1. OwnItem(n[g], a)
    BY <1>9 DEF OwnItems
  <2> QED
    BY <1>2, <1>3, <2>1 DEF OwnItem
<1> QED
  BY <1>2, <1>3, <1>4, <1>5, <1>6, <1>7, <1>8, <1>9 DEF OthersFit, Alike, KeepsOwner

\* A listing begins on an item that does not count as loaded (RequestChildren).
LEMMA RequestKeeps ==
  ASSUME NEW n, NEW r, TreeFits(n, r), NEW q \in Seq(Jobs), NEW acct, NEW live, live,
         NEW h \in DOMAIN n, n[h].kind # "Root", ~n[h].loaded,
         NEW j \in Jobs, j.item = h, j.name = n[h].name, j.page = 0, j.acct = acct,
         OthersFit(n, q, h, acct, live),
         NEW n2, Becomes(n2, n, h, Asked(n[h], HasRows(n, h) \/ Refers(q, h)))
  PROVE  /\ TreeFits(n2, r) /\ ListingsFit(n2, Append(q, j), acct, live)
         /\ KeepsOwner(n2, n)
<1>1. \A g \in DOMAIN n : n[g] \in Items
  BY DEF TreeFits, ItemFits
<1>2. PICK m : m = (HasRows(n, h) \/ Refers(q, h))
  OBVIOUS
<1>3. PICK e : e = Asked(n[h], m)
  OBVIOUS
<1>4. Becomes(n2, n, h, e)
  BY <1>2, <1>3
<1>5. IsAsked(e, n[h], m)
  <2>1. m \in BOOLEAN
    BY <1>2 DEF HasRows, Refers
  <2> QED
    BY <1>1, <1>3, <2>1, AskedItem
<1>6. /\ SameItem(e, n[h]) /\ e.rows = n[h].rows /\ e.from = n[h].from
      /\ e.loaded = n[h].loaded /\ e.loading = TRUE /\ e.mixed = m
  BY <1>5 DEF IsAsked
<1>7. /\ TreeFits(n2, r) /\ OthersFit(n2, q, h, acct, live)
      /\ DOMAIN n2 = DOMAIN n /\ n2[h] = e /\ e.name = n[h].name /\ KeepsOwner(n2, n)
      /\ \A c : Named(n2, h, c) = Named(n, h, c)
  <2>1. TreeFits(n2, r) /\ OthersFit(n2, q, h, acct, live) /\ Alike(n2, n, h) /\ KeepsOwner(n2, n)
    BY <1>4, <1>6, ChangeKeeps
  <2> QED
    BY <1>4, <1>6, <2>1 DEF Alike, Becomes, SameItem
<1>8. \A g \in DOMAIN n2 : g # h => ListingFits(n2, Append(q, j), g, acct, live)
  BY <1>7, JobElsewhere DEF OthersFit
<1>9. ListingFits(n2, Append(q, j), h, acct, live)
  <2> SUFFICES ASSUME ~m PROVE ListingFits(n2, Append(q, j), h, acct, live)
    BY <1>6, <1>7 DEF ListingFits
  <2>1. ~HasRows(n, h) /\ ~Refers(q, h)
    BY <1>2
  <2>2. n[h].from = {}
    BY <2>1 DEF OthersFit, IsClean
  <2>3. \A i \in DOMAIN Append(q, j) :
          Append(q, j)[i].item = h => i = Len(q) + 1 /\ Append(q, j)[i] = j
    BY <2>1, JobsAppend DEF Refers
  <2>4. \A o \in Objects : n2[h].rows[o] = 0
    <3> SUFFICES ASSUME NEW o \in Objects PROVE n2[h].rows[o] = 0
      OBVIOUS
    <3>1. n[h].rows[o] \in 0 .. 2
      BY <1>1, ItemTypes
    <3>2. ~(n[h].rows[o] > 0)
      BY <2>1 DEF HasRows
    <3> QED
      BY <1>6, <1>7, <3>1, <3>2
  <2>5. \A c : Named(n2, h, c) = {}
    BY <1>7, <2>1 DEF HasRows, Named
  <2>6. Shows(n2, h, {})
    BY <2>4, <2>5, FS_EmptySet DEF Shows, Times
  <2>7. j.name \in Containers /\ j.page \in 0 .. LastPage
    BY DEF Jobs
  <2>8. First(j.name, j.page * PageSize) = {}
    BY <2>7, FirstAndLastPage
  <2>9. Listed(n2, h, j, acct, live)
    BY <1>6, <1>7, <2>2, <2>6, <2>8 DEF Listed
  <2> QED
    BY <1>6, <1>7, <2>3, <2>9 DEF ListingFits
<1> QED
  BY <1>7, <1>8, <1>9 DEF ListingsFit, OthersFit

\* RemoveChildren empties an item and takes all that is below it away.
LEMMA RemoveKeeps ==
  ASSUME NEW n, NEW r, TreeFits(n, r), NEW q \in Seq(Jobs), NEW acct, NEW live,
         ListingsFit(n, q, acct, live), NEW h \in DOMAIN n,
         NEW n2, n2 = RemoveChildren(n, h)
  PROVE  /\ TreeFits(n2, r) /\ OthersFit(n2, q, h, acct, live)
         /\ h \in DOMAIN n2 /\ n2[h].kind = n[h].kind /\ n2[h].name = n[h].name
         /\ ~n2[h].loaded /\ ~n2[h].loading
         /\ n[h].kind = "Root" \/ ~live => ListingsFit(n2, q, acct, live)
         /\ KeepsOwner(n2, n)
<1>1. \A g \in DOMAIN n : n[g] \in Items /\ ItemFits(n, r, g)
  BY DEF TreeFits, ItemFits
<1>2. h \notin n[h].above
  BY <1>1 DEF TreeFits, IsRoot, ItemFits, Hangs
<1>3. /\ DOMAIN n2 = {g \in DOMAIN n : h \notin n[g].above}
      /\ \A g \in DOMAIN n2 : g # h => n2[g] = n[g]
      /\ n2[h] = [n[h] EXCEPT !.loaded = FALSE, !.loading = FALSE, !.holder = "none",
                              !.rows = [o \in Objects |-> 0], !.from = {}]
  BY <1>2 DEF RemoveChildren
<1>4. /\ n2[h] \in Items /\ n2[h].kind = n[h].kind /\ n2[h].up = n[h].up
      /\ n2[h].above = n[h].above /\ n2[h].name = n[h].name /\ n2[h].acct = n[h].acct
      /\ n2[h].mixed = n[h].mixed /\ n2[h].loaded = FALSE /\ n2[h].loading = FALSE
      /\ n2[h].from = {}
  <2>1. PICK e : e = n[h]
    OBVIOUS
  <2>2. PICK f : f = n2[h]
    OBVIOUS
  <2>3. e \in Items /\ f = [e EXCEPT !.loaded = FALSE, !.loading = FALSE, !.holder = "none",
                                     !.rows = [o \in Objects |-> 0], !.from = {}]
    BY <1>1, <1>3, <2>1, <2>2
  <2>4. /\ SameItem(f, e) /\ f.loaded = FALSE /\ f.loading = FALSE /\ f.mixed = e.mixed
        /\ f.from = {}
    BY <2>3, EmptiedItem
  <2> QED
    BY <2>1, <2>2, <2>4 DEF SameItem
<1>5. TreeFits(n2, r) /\ h \in DOMAIN n2
  <2>1. \A g \in DOMAIN n2 : SamePlace(n2, n, g)
    BY <1>1, <1>3, <1>4 DEF SamePlace
  <2> QED
    BY <1>3, <2>1, TreeShrinks
<1>6. ASSUME NEW g \in DOMAIN n2, g # h
      PROVE  IsClean(n2, g) /\ ListingFits(n2, q, g, acct, live)
  <2>1. \A k \in Children(n, g) : k \in DOMAIN n2 /\ k # h => n2[k].name = n[k].name
    BY <1>3
  <2>2. ASSUME NEW k \in Children(n, g) PROVE k \in DOMAIN n2
    <3>1. k \in DOMAIN n /\ n[k].up = g
      BY DEF Children
    <3>2. k # r
      <4>1. r \in Handles /\ n[r].up = 0 /\ g \in Handles
        BY <1>3 DEF TreeFits, IsRoot
      <4> QED
        BY <3>1, <4>1, HandlesAssumption
    <3>3. n[k].above = n[g].above \cup {g}
      BY <1>1, <3>1, <3>2 DEF ItemFits, Hangs
    <3> QED
      BY <1>3, <1>6, <3>1, <3>3
  <2>3. Children(n2, g) = Children(n, g)
    BY <1>3, <1>4, <2>2 DEF Children
  <2>4. SameView(n2, n, g)
    BY <1>3, <1>4, <1>6, <2>2, <2>3 DEF SameView
  <2>5. IsClean(n, g) /\ ListingFits(n, q, g, acct, live)
    BY <1>3 DEF ListingsFit
  <2> QED
    BY <2>4, <2>5, ViewKeeps
<1>7. IsClean(n2, h)
  BY <1>4 DEF IsClean
<1>8. ASSUME NEW a, OwnItems(n, a) PROVE OwnItems(n2, a)
  <2> SUFFICES ASSUME NEW g \in DOMAIN n2 PROVE OwnItem(n2[g], a)
    BY DEF OwnItems
  <2>1. OwnItem(n[g], a)
    BY <1>3, <1>8 DEF OwnItems
  <2> QED
    BY <1>3, <1>4, <2>1 DEF OwnItem
<1>9. ASSUME n[h].kind = "Root" \/ ~live PROVE ListingFits(n2, q, h, acct, live)
  <2>1. ListingFits(n, q, h, acct, live)
    BY DEF ListingsFit
  <2> QED
    BY <1>4, <1>9, <2>1 DEF ListingFits, Listed
<1> QED
  BY <1>4, <1>5, <1>6, <1>7, <1>8, <1>9 DEF OthersFit, ListingsFit, KeepsOwner

\* An item that is new below others, and that no job of q refers to unless it is mixed.
Fresh(e, up, above, acct) ==
  /\ e \in Items /\ e.kind # "Root" /\ e.up = up /\ e.above = above /\ e.acct = acct
  /\ e.loaded = FALSE /\ e.from = {}
Unasked(e, q, g) == e.mixed \/ ~Refers(q, g)

AllFresh(n2, n, h, new, q, acct) ==
  \A g \in new : Fresh(n2[g], h, n[h].above \cup {h}, acct) /\ Unasked(n2[g], q, g)

\* What h gains by them, and that all items but h go with the jobs q.
Added(n2, n, h, new) ==
  /\ Children(n2, h) = Children(n, h) \cup new
  /\ \A g \in Children(n, h) : n2[g].name = n[g].name
RestFits(n, q, h, acct, live) ==
  \A g \in DOMAIN n : g # h => IsClean(n, g) /\ ListingFits(n, q, g, acct, live)

\* New items below h leave all other items as they are.
LEMMA NewItemsKeep ==
  ASSUME NEW n, NEW r, TreeFits(n, r), NEW q, NEW acct, NEW live, NEW h \in DOMAIN n,
         OthersFit(n, q, h, acct, live), NEW new \in SUBSET (Handles \ DOMAIN n),
         NEW by, NEW n2, DOMAIN n2 = (DOMAIN n) \cup new,
         \A g \in DOMAIN n : g # h => n2[g] = n[g], SameItem(n2[h], n[h]),
         AllFresh(n2, n, h, new, q, by)
  PROVE  TreeFits(n2, r) /\ RestFits(n2, q, h, acct, live) /\ Added(n2, n, h, new)
<1>1. /\ \A g \in DOMAIN n : n[g] \in Items /\ ItemFits(n, r, g) /\ g \in Handles
      /\ r \in DOMAIN n /\ n[r].up = 0
  BY DEF TreeFits, ItemFits, IsRoot
<1>2. /\ n2[h] \in Items /\ n2[h].kind = n[h].kind /\ n2[h].up = n[h].up
      /\ n2[h].above = n[h].above /\ n2[h].name = n[h].name
  BY DEF SameItem
<1>3. \A g \in new : /\ n2[g] \in Items /\ n2[g].kind # "Root" /\ n2[g].up = h
                     /\ n2[g].above = n[h].above \cup {h}
  BY DEF AllFresh, Fresh
<1>4. TreeFits(n2, r)
  <2>1. \A g \in DOMAIN n : SamePlace(n2, n, g)
    BY <1>1, <1>2 DEF SamePlace
  <2> QED
    BY <1>3, <2>1, TreeGrows
<1>5. \A g \in DOMAIN n : n2[g].up = n[g].up /\ n2[g].name = n[g].name
  BY <1>2
<1>6. Children(n2, h) = Children(n, h) \cup new
  BY <1>3, <1>5 DEF Children
<1>7. ASSUME NEW g \in DOMAIN n, g # h
      PROVE  IsClean(n2, g) /\ ListingFits(n2, q, g, acct, live)
  <2>1. Children(n2, g) = Children(n, g)
    BY <1>3, <1>5, <1>7 DEF Children
  <2>2. SameView(n2, n, g)
    BY <1>5, <1>7, <2>1 DEF SameView, Children
  <2>3. IsClean(n, g) /\ ListingFits(n, q, g, acct, live)
    BY <1>7 DEF OthersFit
  <2> QED
    BY <2>2, <2>3, ViewKeeps
<1>8. ASSUME NEW g \in new PROVE IsClean(n2, g) /\ ListingFits(n2, q, g, acct, live)
  <2>1. Fresh(n2[g], h, n[h].above \cup {h}, by) /\ Unasked(n2[g], q, g)
    BY DEF AllFresh
  <2> QED
    BY <2>1 DEF Fresh, Unasked, IsClean, ListingFits, Refers
<1> QED
  BY <1>4, <1>5, <1>6, <1>7, <1>8 DEF Children, RestFits, Added

\* The flags that listings set, and the placeholders they leave.
Failed(e) == [e EXCEPT !.loading = FALSE, !.holder = "Empty", !.expanded = TRUE]
Finished(e, p, ends) ==
  [e EXCEPT !.loaded = TRUE, !.loading = FALSE, !.expanded = TRUE, !.holder = p, !.ends = ends]
RootListing(e) == [e EXCEPT !.holder = "Loading"]
RootFailed(e) == [e EXCEPT !.holder = "Empty", !.expanded = TRUE]
RootListed(e) ==
  [e EXCEPT !.holder = "none", !.loaded = TRUE, !.loading = FALSE, !.expanded = TRUE]
SameRows(f, e) == SameItem(f, e) /\ f.rows = e.rows /\ f.from = e.from /\ f.mixed = e.mixed

\* A failure, and the listing of the root, change nothing but flags.
LEMMA FlaggedItem ==
  ASSUME NEW e \in Items
  PROVE  /\ SameRows(Failed(e), e) /\ Failed(e).loaded = e.loaded
         /\ SameRows(RootListing(e), e) /\ SameRows(RootFailed(e), e)
         /\ SameRows(RootListed(e), e)
<1>1. SameRows(Failed(e), e) /\ Failed(e).loaded = e.loaded
  BY PlaceholderFacts DEF Failed, SameRows, SameItem, Items
<1>2. SameRows(RootListing(e), e)
  BY PlaceholderFacts DEF RootListing, SameRows, SameItem, Items
<1>3. SameRows(RootFailed(e), e)
  BY PlaceholderFacts DEF RootFailed, SameRows, SameItem, Items
<1>4. SameRows(RootListed(e), e)
  BY PlaceholderFacts DEF RootListed, SameRows, SameItem, Items
<1> QED
  BY <1>1, <1>2, <1>3, <1>4

\* Nor does FinishNode, after which the item counts as loaded.
LEMMA FinishedItem ==
  ASSUME NEW e \in Items, NEW p \in Placeholders, NEW ends \in 0 .. LastPage
  PROVE  /\ SameRows(Finished(e, p, ends), e)
         /\ Finished(e, p, ends).loaded = TRUE /\ Finished(e, p, ends).ends = ends
BY DEF Finished, SameRows, SameItem, Items

\* A new item gets the handle of none that lives.
LEMMA NewHandlesAreDead ==
  ASSUME NEW live, NEW k, NEW h \in NewHandles(live, k)
  PROVE  h \in Handles /\ h \notin live
BY DEF NewHandles

\* A new root is a tree, and goes with any jobs and any session (ResetRoot).
LEMMA NewRootFits ==
  ASSUME NEW h \in Handles, NEW text, NEW n, n = NewRoot(h, text)
  PROVE  /\ TreeFits(n, h) /\ DOMAIN n = {h} /\ n[h].kind = "Root" /\ n[h].above = {}
         /\ \A q, acct, live : ListingsFit(n, q, acct, live)
         /\ \A a : OwnItems(n, a)
<1>1. PICK m : m = Refers(jobs, h)
  OBVIOUS
<1>2. m \in BOOLEAN
  BY <1>1 DEF Refers
<1>3. PICK kind : kind = "Root"
  OBVIOUS
<1>4. PICK above : above = {}
  OBVIOUS
<1>5. PICK e : e = Item(kind, Bucket, 0, above, NoProfile, m)
  OBVIOUS
<1>6. /\ e \in Items /\ e.kind = kind /\ e.up = 0 /\ e.above = above /\ e.from = {}
  <2>1. kind \in {"Root", "Bucket", "Prefix"} /\ Bucket \in Containers /\ 0 \in Handles \cup {0}
        /\ above \in SUBSET Handles /\ NoProfile \in Accounts
    BY <1>3, <1>4, ContentAssumption DEF Accounts
  <2>2. IsItem(e, kind, Bucket, 0, above, NoProfile, m)
    BY <1>2, <1>5, <2>1, ItemIs
  <2> QED
    BY <2>2 DEF IsItem
<1>7. PICK t : t = (text # "connected")
  OBVIOUS
<1>8. PICK f : f = [e EXCEPT !.loaded = t]
  OBVIOUS
<1>9. DOMAIN n = {h} /\ n[h] = f
  BY <1>1, <1>3, <1>4, <1>5, <1>7, <1>8 DEF NewRoot
<1>10. /\ f \in Items /\ f.kind = "Root" /\ f.up = 0 /\ f.above = {} /\ f.from = {}
  <2>1. t \in BOOLEAN
    BY <1>7
  <2>2. f \in Items /\ f.kind = e.kind /\ f.up = e.up /\ f.above = e.above /\ f.from = e.from
    BY <1>6, <1>8, <2>1 DEF Items
  <2> QED
    BY <1>3, <1>4, <1>6, <2>2
<1>11. TreeFits(n, h)
  BY <1>9, <1>10 DEF TreeFits, IsRoot, ItemFits
<1>12. \A q, acct, live : ListingsFit(n, q, acct, live)
  BY <1>9, <1>10 DEF ListingsFit, IsClean, ListingFits
<1>13. \A a : OwnItems(n, a)
  BY <1>9, <1>10 DEF OwnItems, OwnItem
<1> QED
  BY <1>9, <1>10, <1>11, <1>12, <1>13

\* The item of a bucket.
WithBucket(n2, n, r, h, acct) ==
  /\ DOMAIN n2 = (DOMAIN n) \cup {h} /\ \A g \in DOMAIN n : n2[g] = n[g]
  /\ Fresh(n2[h], r, {r}, acct) /\ Unasked(n2[h], jobs, h)

\* AddBucket makes such an item.
LEMMA NewBucketFits ==
  ASSUME NEW r \in Handles, NEW h \in Handles, NEW acct \in Accounts, NEW n, h \notin DOMAIN n
  PROVE  WithBucket(AddBucket(n, r, h, acct), n, r, h, acct)
<1> DEFINE n2 == AddBucket(n, r, h, acct)
<1>1. PICK m : m = Refers(jobs, h)
  OBVIOUS
<1>2. m \in BOOLEAN
  BY <1>1 DEF Refers
<1>3. PICK kind : kind = "Bucket"
  OBVIOUS
<1>4. PICK e : e = Item(kind, Bucket, r, {r}, acct, m)
  OBVIOUS
<1>5. /\ e \in Items /\ e.kind = kind /\ e.up = r /\ e.above = {r} /\ e.from = {}
      /\ e.acct = acct /\ e.loaded = FALSE /\ e.loading = FALSE /\ e.name = Bucket /\ e.mixed = m
  <2>1. kind \in {"Root", "Bucket", "Prefix"} /\ Bucket \in Containers
        /\ r \in Handles \cup {0} /\ {r} \in SUBSET Handles
    BY <1>3, ContentAssumption
  <2>2. IsItem(e, kind, Bucket, r, {r}, acct, m)
    BY <1>2, <1>4, <2>1, ItemIs
  <2> QED
    BY <2>2 DEF IsItem
<1>6. DOMAIN n2 = (DOMAIN n) \cup {h} /\ n2[h] = e /\ \A g \in DOMAIN n : n2[g] = n[g]
  BY <1>1, <1>3, <1>4 DEF AddBucket
<1> QED
  BY <1>1, <1>3, <1>5, <1>6 DEF Fresh, Unasked, WithBucket

\* What AppendListing makes of an item, and of the items n; after the last page
\* the item counts as loaded, and its listing ended with the page `ends`.
Filled(e, j) ==
  [e EXCEPT !.rows = [o \in Objects |-> IF o \in Page(j) /\ @[o] < 2 THEN @[o] + 1 ELSE @[o]],
            !.from = @ \cup {j.acct}, !.holder = "none"]
IsFilled(e2, e, j) ==
  /\ SameItem(e2, e) /\ e2.mixed = e.mixed /\ e2.from = e.from \cup {j.acct}
  /\ \A o \in Objects :
       e2.rows[o] = IF o \in Page(j) /\ e.rows[o] < 2 THEN e.rows[o] + 1 ELSE e.rows[o]
ShownOn(e2, e, last, ends) ==
  IF last THEN e2.loaded /\ e2.ends = ends ELSE e2.loaded = e.loaded /\ e2.loading = e.loading
NewFolder(e, j, above, q, g, c) ==
  Fresh(e, j.item, above \cup {j.item}, j.acct) /\ e.name = c /\ Unasked(e, q, g)
Shown(n2, n, j, f, q, last, ends) ==
  /\ DOMAIN n2 = (DOMAIN n) \cup {f[c] : c \in DOMAIN f}
  /\ \A g \in DOMAIN n : g # j.item => n2[g] = n[g]
  /\ IsFilled(n2[j.item], n[j.item], j) /\ ShownOn(n2[j.item], n[j.item], last, ends)
  /\ \A c \in DOMAIN f : NewFolder(n2[f[c]], j, n[j.item].above, q, f[c], c)

\* A page adds its rows to those of the item.
LEMMA FilledItem ==
  ASSUME NEW e \in Items, NEW j, j.acct \in Accounts, NEW ends
  PROVE  IsFilled(Filled(e, j), e, j) /\ ShownOn(Filled(e, j), e, FALSE, ends)
<1>1. PICK z : z = [o \in Objects |-> IF o \in Page(j) /\ e.rows[o] < 2 THEN e.rows[o] + 1
                                      ELSE e.rows[o]]
  OBVIOUS
<1>2. PICK a : a = e.from \cup {j.acct}
  OBVIOUS
<1>3. e.rows \in [Objects -> 0 .. 2] /\ e.from \in SUBSET Accounts
  BY DEF Items
<1>4. z \in [Objects -> 0 .. 2]
  <2> SUFFICES ASSUME NEW o \in Objects
               PROVE  (IF o \in Page(j) /\ e.rows[o] < 2 THEN e.rows[o] + 1 ELSE e.rows[o])
                        \in 0 .. 2
    BY <1>1
  <2>1. e.rows[o] \in 0 .. 2
    BY <1>3
  <2> QED
    BY <2>1
<1>5. a \in SUBSET Accounts
  BY <1>2, <1>3
<1>6. PICK e2 : e2 = [e EXCEPT !.rows = z, !.from = a, !.holder = "none"]
  OBVIOUS
<1>7. Filled(e, j) = e2
  BY <1>1, <1>2, <1>6 DEF Filled
<1>8. /\ e2 \in Items /\ e2.kind = e.kind /\ e2.name = e.name /\ e2.up = e.up
      /\ e2.above = e.above /\ e2.acct = e.acct /\ e2.mixed = e.mixed /\ e2.from = a
      /\ e2.rows = z /\ e2.loaded = e.loaded /\ e2.loading = e.loading
  BY <1>4, <1>5, <1>6, PlaceholderFacts DEF Items
<1>9. IsFilled(e2, e, j)
  BY <1>1, <1>2, <1>8 DEF IsFilled, SameItem
<1> QED
  BY <1>7, <1>8, <1>9 DEF ShownOn

\* AppendListing does that.
LEMMA AppendShows ==
  ASSUME NEW n, NEW j \in Jobs, j.item \in DOMAIN n, j.item \in Handles,
         n[j.item] \in Items, NEW f,
         f \in [Page(j) \cap Containers -> Handles \ DOMAIN n],
         \A c, d \in Page(j) \cap Containers : f[c] = f[d] => c = d,
         NEW n2, n2 = AppendListing(n, j, f), NEW ends
  PROVE  Shown(n2, n, j, f, jobs, FALSE, ends)
<1>1. PICK h : h = j.item
  OBVIOUS
<1>2. PICK new : new = {f[c] : c \in DOMAIN f}
  OBVIOUS
<1>3. DOMAIN f = Page(j) \cap Containers /\ new \in SUBSET Handles /\ h \notin new
  BY <1>1, <1>2
<1>4. PICK above : above = n[h].above \cup {h}
  OBVIOUS
<1>5. above \in SUBSET Handles /\ j.acct \in Accounts
  BY <1>1, <1>4 DEF Items, Jobs
<1>6. DOMAIN n2 = (DOMAIN n) \cup new /\ n2[h] = Filled(n[h], j)
      /\ \A g \in DOMAIN n : g # h => n2[g] = n[g]
  BY <1>1, <1>2, <1>3 DEF AppendListing, Filled
<1>7. ASSUME NEW c \in DOMAIN f PROVE NewFolder(n2[f[c]], j, n[h].above, jobs, f[c], c)
  <2>1. PICK g : g = f[c]
    OBVIOUS
  <2>2. g \in new /\ g \in Handles
    BY <1>2, <1>3, <2>1
  <2>3. (CHOOSE d \in DOMAIN f : f[d] = g) = c
    BY <1>3, <2>1
  <2>4. PICK m : m = Refers(jobs, g)
    OBVIOUS
  <2>5. m \in BOOLEAN
    BY <2>4 DEF Refers
  <2>6. PICK kind : kind = "Prefix"
    OBVIOUS
  <2>7. n2[g] = Item(kind, CHOOSE d \in DOMAIN f : f[d] = g, h, above, j.acct, m)
    BY <1>1, <1>2, <1>4, <2>2, <2>4, <2>6 DEF AppendListing
  <2>8. n2[g] = Item(kind, c, h, above, j.acct, m)
    BY <2>3, <2>7
  <2>9. IsItem(n2[g], kind, c, h, above, j.acct, m)
    <3>1. kind \in {"Root", "Bucket", "Prefix"} /\ c \in Containers /\ h \in Handles \cup {0}
      BY <1>1, <1>3, <2>6
    <3> QED
      BY <1>5, <2>5, <2>8, <3>1, ItemIs
  <2> QED
    BY <1>1, <1>4, <2>1, <2>4, <2>6, <2>9 DEF NewFolder, Fresh, Unasked, IsItem
<1>8. IsFilled(n2[h], n[h], j) /\ ShownOn(n2[h], n[h], FALSE, ends)
  <2>1. PICK e : e = n[h]
    OBVIOUS
  <2>2. e \in Items
    BY <1>1, <2>1
  <2>3. IsFilled(Filled(e, j), e, j) /\ ShownOn(Filled(e, j), e, FALSE, ends)
    BY <1>5, <2>2, FilledItem
  <2> QED
    BY <1>6, <2>1, <2>3
<1> QED
  BY <1>1, <1>2, <1>6, <1>7, <1>8 DEF Shown

\* And FinishNode after the last page.
LEMMA FinishShows ==
  ASSUME NEW n, NEW j, j.item \in DOMAIN n, NEW f, NEW q, NEW n2,
         NEW ends \in 0 .. LastPage, Shown(n2, n, j, f, q, FALSE, ends),
         NEW p \in Placeholders, NEW n3, Becomes(n3, n2, j.item, Finished(n2[j.item], p, ends)),
         j.item \notin {f[c] : c \in DOMAIN f}
  PROVE  Shown(n3, n, j, f, q, TRUE, ends)
<1>1. PICK h : h = j.item
  OBVIOUS
<1>2. /\ DOMAIN n2 = (DOMAIN n) \cup {f[c] : c \in DOMAIN f}
      /\ \A g \in DOMAIN n : g # h => n2[g] = n[g]
      /\ IsFilled(n2[h], n[h], j)
      /\ \A c \in DOMAIN f : NewFolder(n2[f[c]], j, n[h].above, q, f[c], c)
  BY <1>1 DEF Shown
<1>3. /\ DOMAIN n3 = DOMAIN n2 /\ \A g \in DOMAIN n2 : g # h => n3[g] = n2[g]
      /\ n3[h] = Finished(n2[h], p, ends)
  BY <1>1 DEF Becomes
<1>4. SameRows(n3[h], n2[h]) /\ n3[h].loaded = TRUE /\ n3[h].ends = ends
  <2>1. PICK e : e = n2[h]
    OBVIOUS
  <2>2. e \in Items
    BY <1>2, <2>1 DEF IsFilled, SameItem
  <2>3. /\ SameRows(Finished(e, p, ends), e)
        /\ Finished(e, p, ends).loaded = TRUE /\ Finished(e, p, ends).ends = ends
    BY <2>2, FinishedItem
  <2> QED
    BY <1>3, <2>1, <2>3
<1>5. IsFilled(n3[h], n[h], j)
  BY <1>2, <1>4 DEF IsFilled, SameRows, SameItem
<1>6. \A c \in DOMAIN f : n3[f[c]] = n2[f[c]]
  BY <1>1, <1>2, <1>3
<1> QED
  BY <1>1, <1>2, <1>3, <1>4, <1>5, <1>6 DEF Shown, ShownOn

\* An item that shows some rows once, and then the rows of another page once,
\* shows all of them once.
LEMMA ShowsMore ==
  ASSUME NEW n, DOMAIN n \subseteq Handles, NEW j, j.item \in DOMAIN n,
         Page(j) \subseteq Rows, NEW s, s \cap Page(j) = {}, Shows(n, j.item, s),
         NEW f, f \in [Page(j) \cap Containers -> Handles \ DOMAIN n],
         NEW new, new = {f[c] : c \in DOMAIN f}, NEW n2,
         IsFilled(n2[j.item], n[j.item], j), Added(n2, n, j.item, new),
         \A c \in DOMAIN f : n2[f[c]].name = c
  PROVE  Shows(n2, j.item, s \cup Page(j))
<1>1. PICK h : h = j.item
  OBVIOUS
<1>2. ASSUME NEW o \in Objects PROVE n2[h].rows[o] = Times(o, s \cup Page(j))
  <2>1. n[h].rows[o] = Times(o, s)
    BY <1>1 DEF Shows
  <2>2. n2[h].rows[o] = IF o \in Page(j) /\ n[h].rows[o] < 2 THEN n[h].rows[o] + 1 ELSE n[h].rows[o]
    BY <1>1 DEF IsFilled
  <2> QED
    BY <2>1, <2>2 DEF Times
<1>3. ASSUME NEW c \in Containers
      PROVE  Cardinality(Named(n2, h, c)) = Times(c, s \cup Page(j))
  <2>1. Cardinality(Named(n, h, c)) = Times(c, s)
    BY <1>1 DEF Shows
  <2>2. Named(n, h, c) \subseteq DOMAIN n /\ IsFiniteSet(Named(n, h, c))
    <3>1. Named(n, h, c) \subseteq DOMAIN n
      BY DEF Named, Children
    <3> QED
      BY <3>1, FS_Subset, HandlesAssumption
  <2>3. DOMAIN f = Page(j) \cap Containers
    OBVIOUS
  <2>4. CASE c \notin Page(j)
    <3>1. Named(n2, h, c) = Named(n, h, c)
      BY <1>1, <2>3, <2>4 DEF Named, Added
    <3> QED
      BY <2>1, <2>4, <3>1 DEF Times
  <2>5. CASE c \in Page(j)
    <3>1. Named(n2, h, c) = Named(n, h, c) \cup {f[c]}
      BY <1>1, <2>3, <2>5 DEF Named, Added
    <3>2. f[c] \notin Named(n, h, c)
      BY <2>2, <2>3, <2>5
    <3>3. Cardinality(Named(n2, h, c)) = Cardinality(Named(n, h, c)) + 1
      BY <2>2, <3>1, <3>2, FS_AddElement
    <3>4. c \notin s
      BY <2>5
    <3> QED
      BY <2>1, <2>5, <3>3, <3>4 DEF Times
  <2> QED
    BY <2>4, <2>5
<1> QED
  BY <1>1, <1>2, <1>3 DEF Shows

\* The jobs q2 after the answer j to the head of q: another page, or no more.
Answered(q2, q, j, acct, last, ends) ==
  \/ ~last /\ \E k \in Jobs : /\ q2 = Append(Tail(q), k) /\ k.item = j.item
                              /\ k.name = j.name /\ k.page = j.page + 1 /\ k.acct = acct
  \/ last /\ q2 = Tail(q) /\ ends \in Ends(j) /\ ~(Truncated(j) /\ j.page < ends)

\* The page of a listing arrives: the item shows its rows, and either asks for
\* the next page or counts as loaded (ListingArrived).
LEMMA AppendKeeps ==
  ASSUME NEW n, NEW r, TreeFits(n, r), NEW q \in Seq(Jobs), q # << >>, NEW acct, NEW live,
         ListingsFit(n, q, acct, live), NEW j \in Jobs, j = Head(q), j.item \in DOMAIN n,
         j.page * PageSize < Len(Content[j.name]),
         NEW f, f \in [Page(j) \cap Containers -> Handles \ DOMAIN n], NEW last,
         NEW ends,
         NEW n2, Shown(n2, n, j, f, q, last, ends), NEW q2, Answered(q2, q, j, acct, last, ends)
  PROVE  /\ TreeFits(n2, r) /\ ListingsFit(n2, q2, acct, live)
         /\ OwnItems(n, j.acct) => OwnItems(n2, j.acct)
<1>1. PICK h : h = j.item
  OBVIOUS
<1>2. PICK new : new = {f[c] : c \in DOMAIN f}
  OBVIOUS
<1>3. /\ DOMAIN f = Page(j) \cap Containers /\ new \in SUBSET (Handles \ DOMAIN n)
      /\ h \in DOMAIN n
  BY <1>1, <1>2
<1>4. /\ DOMAIN n2 = (DOMAIN n) \cup new
      /\ \A g \in DOMAIN n : g # h => n2[g] = n[g]
      /\ IsFilled(n2[h], n[h], j) /\ ShownOn(n2[h], n[h], last, ends)
      /\ \A c \in DOMAIN f : NewFolder(n2[f[c]], j, n[h].above, q, f[c], c)
  BY <1>1, <1>2 DEF Shown
<1>5. SameItem(n2[h], n[h])
  BY <1>4 DEF IsFilled
<1>6. ASSUME NEW g \in new
      PROVE  Fresh(n2[g], h, n[h].above \cup {h}, j.acct) /\ Unasked(n2[g], q, g)
  <2>1. PICK c \in DOMAIN f : g = f[c]
    BY <1>2
  <2> QED
    BY <1>1, <1>4, <2>1 DEF NewFolder
<1>7. OthersFit(n, q, h, acct, live)
  BY DEF ListingsFit, OthersFit
<1>8. TreeFits(n2, r) /\ RestFits(n2, q, h, acct, live) /\ Added(n2, n, h, new)
  <2>1. AllFresh(n2, n, h, new, q, j.acct)
    BY <1>6 DEF AllFresh
  <2> QED
    BY <1>3, <1>4, <1>5, <1>7, <2>1, NewItemsKeep
<1>9. /\ j.name \in Containers /\ j.page \in 0 .. LastPage /\ j.page \in Nat
      /\ j.acct \in Accounts
  BY SizesFacts DEF Jobs
<1>10. /\ First(j.name, (j.page + 1) * PageSize) = First(j.name, j.page * PageSize) \cup Page(j)
       /\ First(j.name, j.page * PageSize) \cap Page(j) = {}
       /\ Page(j) \subseteq Rows /\ Page(j) # {}
  BY <1>9, PageAddsRows
<1>11. \A g \in DOMAIN n2 : g # h => ListingFits(n2, q2, g, acct, live)
  <2> SUFFICES ASSUME NEW g \in DOMAIN n2, g # h PROVE ListingFits(n2, q2, g, acct, live)
    OBVIOUS
  <2>1. ListingFits(n2, Tail(q), g, acct, live)
    BY <1>8, JobOver DEF RestFits
  <2>2. Tail(q) \in Seq(Jobs)
    BY JobsTail
  <2> QED
    BY <1>1, <2>1, <2>2, JobElsewhere DEF Answered
<1>12. IsClean(n2, h)
  <2> SUFFICES HasRows(n2, h)
    BY DEF IsClean
  <2>1. PICK x \in Page(j) : x \in Rows
    BY <1>10
  <2>2. CASE x \in Containers
    BY <1>2, <1>3, <1>8, <2>2 DEF HasRows, Added
  <2>3. CASE x \notin Containers
    <3>1. x \in Objects
      BY <2>1, <2>3 DEF Objects
    <3>2. n[h] \in Items
      BY <1>3 DEF TreeFits, ItemFits
    <3>3. n[h].rows[x] \in 0 .. 2
      BY <3>1, <3>2, ItemTypes
    <3>4. n2[h].rows[x] > 0
      BY <1>4, <3>1, <3>3 DEF IsFilled
    <3> QED
      BY <3>1, <3>4 DEF HasRows
  <2> QED
    BY <2>2, <2>3
<1>13. ListingFits(n2, q2, h, acct, live)
  <2> SUFFICES ASSUME n2[h].kind # "Root", ~n2[h].mixed
               PROVE  ListingFits(n2, q2, h, acct, live)
    BY DEF ListingFits
  <2>1. n[h].kind # "Root" /\ ~n[h].mixed
    BY <1>4 DEF IsFilled, SameItem
  <2>2. Listed(n, h, j, acct, live) /\ ~Refers(Tail(q), h)
    <3>1. ListingFits(n, q, h, acct, live)
      BY <1>3 DEF ListingsFit
    <3> QED
      BY <1>1, <2>1, <3>1, HeadIsAlone
  <2>3. PICK s : s = First(j.name, j.page * PageSize)
    OBVIOUS
  <2>4. /\ live /\ j.acct = acct /\ j.name = n[h].name /\ n[h].loading /\ ~n[h].loaded
        /\ Shows(n, h, s) /\ n[h].from = IF j.page = 0 THEN {} ELSE {acct}
    BY <2>2, <2>3 DEF Listed
  <2>5. Shows(n2, h, s \cup Page(j))
    <3>1. \A c \in DOMAIN f : n2[f[c]].name = c
      BY <1>4 DEF NewFolder
    <3>2. DOMAIN n \subseteq Handles
      BY DEF TreeFits
    <3>3. IsFilled(n2[j.item], n[j.item], j) /\ Added(n2, n, j.item, new) /\ Shows(n, j.item, s)
      BY <1>1, <1>4, <1>8, <2>4
    <3>4. Page(j) \subseteq Rows /\ s \cap Page(j) = {}
      BY <1>10, <2>3
    <3>5. Shows(n2, j.item, s \cup Page(j))
      BY <1>2, <3>1, <3>2, <3>3, <3>4, ShowsMore
    <3> QED
      BY <1>1, <3>5
  <2>6. Shows(n2, h, First(j.name, (j.page + 1) * PageSize))
    BY <1>10, <2>3, <2>5
  <2>7. n2[h].from = {acct} /\ n2[h].name = j.name
    BY <1>4, <2>4 DEF IsFilled, SameItem
  <2>8. CASE ~last
    <3>1. PICK k \in Jobs : /\ q2 = Append(Tail(q), k) /\ k.item = h /\ k.name = j.name
                            /\ k.page = j.page + 1 /\ k.acct = acct
      BY <1>1, <2>8 DEF Answered
    <3>2. n2[h].loading /\ ~n2[h].loaded
      BY <1>4, <2>4, <2>8 DEF ShownOn
    <3>3. k.page # 0
      BY <1>9, <3>1
    <3>4. Listed(n2, h, k, acct, live)
      BY <2>4, <2>6, <2>7, <3>1, <3>2, <3>3 DEF Listed
    <3>5. Tail(q) \in Seq(Jobs)
      BY JobsTail
    <3>6. \A i \in DOMAIN q2 : q2[i].item = h => i = Len(Tail(q)) + 1 /\ q2[i] = k
      BY <2>2, <3>1, <3>5, JobsAppend DEF Refers
    <3> QED
      BY <3>2, <3>4, <3>6 DEF ListingFits
  <2>9. CASE last
    <3>1. q2 = Tail(q) /\ ends \in Ends(j) /\ ~(Truncated(j) /\ j.page < ends)
      BY <2>9 DEF Answered
    <3>2. First(j.name, (j.page + 1) * PageSize) = Visible(j.name, n2[h].ends)
      BY <1>4, <1>9, <2>9, <3>1, FirstAndLastPage DEF ShownOn
    <3>3. Complete(n2, h)
      BY <1>9, <2>4, <2>6, <2>7, <3>2 DEF Complete
    <3> QED
      BY <2>2, <3>1, <3>3 DEF ListingFits, Refers
  <2> QED
    BY <2>8, <2>9
<1>14. PICK a : a = j.acct
  OBVIOUS
<1>15. ASSUME OwnItems(n, a) PROVE OwnItems(n2, a)
  <2> SUFFICES ASSUME NEW g \in DOMAIN n2 PROVE OwnItem(n2[g], a)
    BY DEF OwnItems
  <2>1. CASE g \in new
    BY <1>6, <1>14, <1>15, <2>1 DEF OwnItem, Fresh
  <2>2. CASE g = h
    BY <1>3, <1>4, <1>14, <1>15, <2>2 DEF OwnItem, OwnItems, IsFilled, SameItem
  <2>3. CASE g \in DOMAIN n /\ g # h
    BY <1>4, <1>14, <1>15, <2>3 DEF OwnItems
  <2> QED
    BY <1>4, <2>1, <2>2, <2>3
<1> QED
  BY <1>4, <1>8, <1>11, <1>12, <1>13, <1>14, <1>15 DEF ListingsFit, RestFits

-----------------------------------------------------------------------------
(* What the actions are made of *)

\* A job.
IsJob(j, kind, acct, item, name, page) ==
  /\ j \in Jobs /\ j.kind = kind /\ j.acct = acct /\ j.item = item /\ j.name = name
  /\ j.page = page

\* A job that is made is such a job.
LEMMA JobIs ==
  ASSUME NEW kind \in {"ConnectTest", "ListBucketsRoot", "ListNode"}, NEW acct \in Accounts,
         NEW item \in Handles \cup {0}, NEW name \in Containers, NEW page \in 0 .. LastPage
  PROVE  IsJob(Job(kind, acct, item, name, page), kind, acct, item, name, page)
BY DEF IsJob, Job, Jobs

\* The head and the tail of the control lane, and what comes after it.
LEMMA QueueFacts ==
  ASSUME NEW q, QueueFits(q)
  PROVE  /\ q # << >> => Head(q) \in Jobs /\ JobFits(Head(q)) /\ QueueFits(Tail(q))
         /\ \A j \in Jobs : JobFits(j) => QueueFits(Append(q, j))
<1>1. q \in Seq(Jobs) /\ \A i \in DOMAIN q : JobFits(q[i])
  BY DEF QueueFits
<1>2. ASSUME q # << >> PROVE Head(q) \in Jobs /\ JobFits(Head(q)) /\ QueueFits(Tail(q))
  <2>1. /\ Tail(q) \in Seq(Jobs) /\ Head(q) \in Jobs /\ Head(q) = q[1] /\ 1 \in DOMAIN q
        /\ \A i \in DOMAIN Tail(q) : i + 1 \in DOMAIN q /\ Tail(q)[i] = q[i + 1]
    BY <1>1, <1>2, JobsTail
  <2> QED
    BY <1>1, <2>1 DEF QueueFits
<1>3. ASSUME NEW j \in Jobs, JobFits(j) PROVE QueueFits(Append(q, j))
  <2>1. /\ Append(q, j) \in Seq(Jobs)
        /\ \A i \in DOMAIN Append(q, j) :
             (i \in DOMAIN q /\ Append(q, j)[i] = q[i]) \/ Append(q, j)[i] = j
    BY <1>1, JobsAppend
  <2> QED
    BY <1>1, <1>3, <2>1 DEF QueueFits
<1> QED
  BY <1>2, <1>3

\* The jobs q2 are the jobs q and maybe one of the account.
GrowsBy(q2, q, acct) == q2 = q \/ \E j \in Jobs : j.acct = acct /\ q2 = Append(q, j)

\* The jobs of one session, with one less or with one more of that session.
LEMMA OwnFacts ==
  ASSUME NEW S, NEW q \in Seq(S), NEW acct, NEW profile, OwnJobs(q, acct, profile)
  PROVE  /\ q # << >> => /\ Head(q).acct = acct /\ Head(q).acct = profile
                         /\ OwnJobs(Tail(q), acct, profile)
         /\ \A o : o.acct = acct /\ acct = profile => OwnJobs(Append(q, o), acct, profile)
<1>1. ASSUME q # << >>
      PROVE  Head(q).acct = acct /\ Head(q).acct = profile /\ OwnJobs(Tail(q), acct, profile)
  <2>1. /\ Head(q) = q[1] /\ 1 \in DOMAIN q
        /\ \A i \in DOMAIN Tail(q) : i + 1 \in DOMAIN q /\ Tail(q)[i] = q[i + 1]
    BY <1>1
  <2> QED
    BY <2>1 DEF OwnJobs
<1>2. ASSUME NEW o, o.acct = acct /\ acct = profile PROVE OwnJobs(Append(q, o), acct, profile)
  <2>1. \A i \in DOMAIN Append(q, o) :
          (i \in DOMAIN q /\ Append(q, o)[i] = q[i]) \/ Append(q, o)[i] = o
    OBVIOUS
  <2> QED
    BY <1>2, <2>1 DEF OwnJobs
<1> QED
  BY <1>1, <1>2

\* The same for jobs that grow as GrowsBy says.
LEMMA OwnGrows ==
  ASSUME NEW q \in Seq(Jobs), NEW acct, OwnJobs(q, acct, acct), NEW q2, GrowsBy(q2, q, acct)
  PROVE  OwnJobs(q2, acct, acct)
<1>1. \A o : o.acct = acct => OwnJobs(Append(q, o), acct, acct)
  BY OwnFacts
<1> QED
  BY <1>1 DEF GrowsBy

\* The tree and the jobs after a step that began with the tree n and the jobs q.
Settled(r, q) ==
  /\ TreeFits(nodes', r) /\ ListingsFit(nodes', jobs', config', connected')
  /\ QueueFits(jobs') /\ GrowsBy(jobs', q, config')
  /\ jobs' = q \/ connected' \/ (~crossed' => config' = active')

\* RequestChildren, on an item that does not count as loaded, with the jobs q.
LEMMA RequestChildrenKeeps ==
  ASSUME NEW n, NEW r, TreeFits(n, r), NEW q, QueueFits(q), NEW h, h \in DOMAIN n,
         ~n[h].loaded, config' \in Accounts, OthersFit(n, q, h, config', connected'),
         Requestable(n, h) \/ ListingsFit(n, q, config', connected'),
         RequestChildren(n, h, q)
  PROVE  Settled(r, q) /\ KeepsOwner(nodes', n)
<1>1. CASE ~Requestable(n, h)
  <2>1. nodes' = n /\ jobs' = q
    BY <1>1 DEF RequestChildren
  <2> QED
    BY <1>1, <2>1 DEF Settled, GrowsBy, KeepsOwner
<1>2. CASE Requestable(n, h)
  <2>1. PICK c : c = config'
    OBVIOUS
  <2>2. n[h].kind # "Root" /\ connected'
    BY <1>2 DEF Requestable
  <2>3. Becomes(nodes', n, h, Asked(n[h], HasRows(n, h) \/ Refers(q, h)))
    BY <1>2 DEF RequestChildren, Becomes, Asked
  <2>4. PICK j : j = Job("ListNode", c, h, n[h].name, 0)
    OBVIOUS
  <2>5. jobs' = Append(q, j)
    BY <1>2, <2>1, <2>4 DEF RequestChildren, ListNode
  <2>6. n[h].name \in Containers /\ h \in Handles
    BY ItemTypes DEF TreeFits, ItemFits
  <2>7. j \in Jobs /\ j.kind = "ListNode" /\ j.acct = c /\ j.item = h /\ j.name = n[h].name
        /\ j.page = 0
    <3>1. PICK kind : kind = "ListNode"
      OBVIOUS
    <3>2. IsJob(j, kind, c, h, n[h].name, 0)
      BY <2>1, <2>4, <2>6, <3>1, JobIs, SizesFacts
    <3> QED
      BY <3>1, <3>2 DEF IsJob
  <2>8. JobFits(j)
    BY <2>6, <2>7, ContentAssumption, SizesFacts DEF JobFits
  <2>9. TreeFits(nodes', r) /\ ListingsFit(nodes', jobs', config', connected')
        /\ KeepsOwner(nodes', n)
    BY <2>1, <2>2, <2>3, <2>5, <2>7, RequestKeeps DEF QueueFits
  <2> QED
    BY <2>1, <2>2, <2>5, <2>7, <2>8, <2>9, QueueFacts DEF Settled, GrowsBy
<1> QED
  BY <1>1, <1>2

\* Texts of the root are labels.
LEMMA LabelFacts == {"noProfile", "disconnected", "connecting", "connected"} \subseteq Labels
BY DEF Labels

\* A root that is new goes with any session.
Cleared ==
  /\ TreeFits(nodes', root') /\ label' \in Labels
  /\ \A q, acct, live : ListingsFit(nodes', q, acct, live)
  /\ \A a : OwnItems(nodes', a)

\* ResetRoot clears the tree.
LEMMA ResetKeeps ==
  ASSUME NEW text \in Labels, ResetRoot(text)
  PROVE  Cleared
<1>1. label' = text /\ root' \in NewHandles({}, 1) /\ nodes' = NewRoot(root', text)
  BY DEF ResetRoot
<1>2. PICK h : h = root'
  OBVIOUS
<1>3. PICK n : n = nodes'
  OBVIOUS
<1>4. PICK live : live = {}
  OBVIOUS
<1>5. h \in Handles
  BY <1>1, <1>2, <1>4, NewHandlesAreDead
<1>6. n = NewRoot(h, text)
  BY <1>1, <1>2, <1>3
<1>7. /\ TreeFits(n, h) /\ (\A q, acct, on : ListingsFit(n, q, acct, on))
      /\ \A a : OwnItems(n, a)
  BY <1>5, <1>6, NewRootFits
<1> QED
  BY <1>1, <1>2, <1>3, <1>7 DEF Cleared

\* UpdateTreeRoot clears the tree, whatever the session is.
LEMMA UpdateTreeRootKeeps == UpdateTreeRoot => Cleared
<1> SUFFICES ASSUME UpdateTreeRoot PROVE Cleared
  OBVIOUS
<1>1. PICK text : text = IF active' = NoProfile THEN "noProfile"
                         ELSE IF connected' THEN "connected" ELSE "disconnected"
  OBVIOUS
<1>2. text \in Labels /\ ResetRoot(text)
  BY <1>1, LabelFacts DEF UpdateTreeRoot
<1> QED
  BY <1>2, ResetKeeps

\* No job is of another session: all are of this one.
LEMMA NotCrossing ==
  ~Crossing => OwnJobs(jobs, config', active') /\ OwnJobs(opens, config', active')
BY DEF Crossing, OwnJobs

\* A bucket comes below the root.
LEMMA AddBucketKeeps ==
  ASSUME NEW n, NEW r, TreeFits(n, r), NEW b \in Handles, b \notin DOMAIN n,
         NEW acct \in Accounts, NEW n2, n2 = AddBucket(n, r, b, acct),
         NEW q, Refers(q, b) => Refers(jobs, b), NEW own, NEW live, ListingsFit(n, q, own, live)
  PROVE  /\ TreeFits(n2, r) /\ ListingsFit(n2, q, own, live)
         /\ b \in DOMAIN n2 /\ ~n2[b].loaded
         /\ OwnItems(n, acct) => OwnItems(n2, acct)
<1>1. /\ r \in DOMAIN n /\ r \in Handles /\ n[r].above = {} /\ n[r].kind = "Root"
      /\ n[r] \in Items
  BY DEF TreeFits, IsRoot, ItemFits
<1>2. /\ DOMAIN n2 = (DOMAIN n) \cup {b} /\ \A g \in DOMAIN n : n2[g] = n[g]
      /\ Fresh(n2[b], r, {r}, acct) /\ Unasked(n2[b], jobs, b)
  <2>1. WithBucket(n2, n, r, b, acct)
    BY <1>1, NewBucketFits
  <2> QED
    BY <2>1 DEF WithBucket
<1>3. PICK new : new = {b}
  OBVIOUS
<1>4. AllFresh(n2, n, r, new, q, acct)
  <2>1. n[r].above \cup {r} = {r}
    BY <1>1
  <2>2. Unasked(n2[b], q, b)
    BY <1>2 DEF Unasked
  <2> QED
    BY <1>2, <1>3, <2>1, <2>2 DEF AllFresh
<1>5. SameItem(n2[r], n[r])
  BY <1>1, <1>2, ItemTypes
<1>6. OthersFit(n, q, r, own, live)
  BY DEF ListingsFit, OthersFit
<1>7. TreeFits(n2, r) /\ RestFits(n2, q, r, own, live) /\ Added(n2, n, r, new)
  <2>1. DOMAIN n2 = (DOMAIN n) \cup new /\ new \in SUBSET (Handles \ DOMAIN n)
    BY <1>2, <1>3
  <2> QED
    BY <1>1, <1>2, <1>4, <1>5, <1>6, <2>1, NewItemsKeep
<1>8. IsClean(n2, r) /\ ListingFits(n2, q, r, own, live)
  BY <1>1, <1>2, <1>3, <1>7 DEF IsClean, HasRows, Added, ListingFits
<1>9. ListingsFit(n2, q, own, live)
  BY <1>7, <1>8 DEF RestFits, ListingsFit
<1>10. OwnItems(n, acct) => OwnItems(n2, acct)
  BY <1>2 DEF OwnItems, OwnItem, Fresh
<1> QED
  BY <1>2, <1>7, <1>9, <1>10 DEF Fresh

\* The root is listed anew (ListRoot): the tree is a new one, or nothing changes.
Relisted(q) ==
  /\ Settled(root', q) /\ label' \in Labels
  /\ OwnItems(nodes, config') => OwnItems(nodes', config')

\* The part of RefreshTree for a live session.
LEMMA ListRootKeeps ==
  ASSUME NEW q, QueueFits(q), \A h : Refers(q, h) => Refers(jobs, h), ListRoot(q),
         config' \in Accounts, connected', label \in Labels, TreeFits(nodes, root),
         ListingsFit(nodes, q, config', connected')
  PROVE  Relisted(q)
<1>1. PICK c : c = config'
  OBVIOUS
<1>2. CASE active' = NoProfile
  <2>1. root' = root /\ label' = label /\ nodes' = nodes /\ jobs' = q
    BY <1>2 DEF ListRoot, tree
  <2> QED
    BY <2>1 DEF Relisted, Settled, GrowsBy
<1>3. CASE active' # NoProfile
  <2>1. label' = "connected" /\ root' \in NewHandles({}, 1)
    BY <1>3 DEF ListRoot
  <2>2. PICK r : r = root'
    OBVIOUS
  <2>3. r \in Handles
    <3>1. PICK live : live = {}
      OBVIOUS
    <3> QED
      BY <2>1, <2>2, <3>1, NewHandlesAreDead
  <2>4. PICK text : text = label'
    OBVIOUS
  <2>5. PICK n : n = NewRoot(r, text)
    OBVIOUS
  <2>6. /\ TreeFits(n, r) /\ DOMAIN n = {r} /\ n[r].kind = "Root"
        /\ \A q1, acct, live : ListingsFit(n, q1, acct, live)
        /\ \A a : OwnItems(n, a)
    BY <2>3, <2>5, NewRootFits
  <2>7. CASE active' \in DefaultBucket
    <3>1. PICK b \in NewHandles({r}, 1) : RequestChildren(AddBucket(n, r, b, c), b, q)
      BY <1>1, <1>3, <2>2, <2>4, <2>5, <2>7 DEF ListRoot
    <3>2. b \in Handles /\ b \notin {r}
      BY NewHandlesAreDead
    <3>3. PICK n2 : n2 = AddBucket(n, r, b, c)
      OBVIOUS
    <3>4. PICK own : own = config'
      OBVIOUS
    <3>5. PICK live : live = connected'
      OBVIOUS
    <3>6. TreeFits(n2, r) /\ ListingsFit(n2, q, own, live) /\ b \in DOMAIN n2 /\ ~n2[b].loaded
          /\ OwnItems(n2, c)
      BY <1>1, <2>6, <3>2, <3>3, AddBucketKeeps
    <3>7. OthersFit(n2, q, b, own, live)
      BY <3>6 DEF ListingsFit, OthersFit
    <3>8. Settled(r, q) /\ KeepsOwner(nodes', n2)
      BY <3>1, <3>3, <3>4, <3>5, <3>6, <3>7, RequestChildrenKeeps
    <3> QED
      BY <1>1, <2>1, <2>2, <3>6, <3>8, LabelFacts DEF Relisted, KeepsOwner
  <2>8. CASE active' \notin DefaultBucket
    <3>1. PICK j : j = Job("ListBucketsRoot", c, 0, Bucket, 0)
      OBVIOUS
    <3>2. nodes' = [n EXCEPT ![r].holder = "Loading"] /\ jobs' = Append(q, j)
      BY <1>1, <1>3, <2>2, <2>4, <2>5, <2>8, <3>1 DEF ListRoot
    <3>3. j \in Jobs /\ JobFits(j) /\ j.acct = c
      <4>1. PICK kind : kind = "ListBucketsRoot"
        OBVIOUS
      <4>2. kind \in {"ConnectTest", "ListBucketsRoot", "ListNode"} /\ Bucket \in Containers
            /\ 0 \in Handles \cup {0} /\ 0 \in 0 .. LastPage /\ c \in Accounts
        BY <1>1, <4>1, ContentAssumption, SizesFacts
      <4>3. IsJob(j, kind, c, 0, Bucket, 0)
        BY <3>1, <4>1, <4>2, JobIs
      <4> QED
        BY <4>1, <4>3 DEF IsJob, JobFits
    <3>4. PICK e : e = RootListing(n[r])
      OBVIOUS
    <3>5. PICK n2 : n2 = nodes'
      OBVIOUS
    <3>6. Becomes(n2, n, r, e)
      BY <2>6, <3>2, <3>4, <3>5 DEF Becomes, RootListing
    <3>7. n[r] \in Items
      BY <2>6 DEF TreeFits, ItemFits
    <3>8. SameItem(e, n[r]) /\ e.rows = n[r].rows /\ e.from = n[r].from
      BY <3>4, <3>7, FlaggedItem DEF SameRows
    <3>9. QueueFits(jobs') /\ GrowsBy(jobs', q, c)
      BY <3>2, <3>3, QueueFacts DEF GrowsBy
    <3>10. \A q1, acct, live : OthersFit(n, q1, r, acct, live)
      BY <2>6 DEF ListingsFit, OthersFit
    <3>11. ASSUME NEW q1, NEW acct, NEW live
           PROVE  /\ TreeFits(n2, r) /\ OthersFit(n2, q1, r, acct, live) /\ Alike(n2, n, r)
                  /\ KeepsOwner(n2, n)
      BY <2>6, <3>6, <3>8, <3>10, ChangeKeeps
    <3>12. ASSUME NEW q1, NEW acct, NEW live PROVE ListingsFit(n2, q1, acct, live)
      BY <2>6, <3>11 DEF OthersFit, ListingsFit, ListingFits, Alike, SameItem
    <3>13. OwnItems(n2, c)
      BY <2>6, <3>11 DEF KeepsOwner
    <3> QED
      BY <1>1, <2>1, <2>2, <3>5, <3>9, <3>11, <3>12, <3>13, LabelFacts DEF Relisted, Settled
  <2> QED
    BY <2>7, <2>8
<1> QED
  BY <1>2, <1>3

-----------------------------------------------------------------------------
(* The actions *)

\* A step that makes the root anew keeps the tree in order.
LEMMA ClearedKeeps ==
  ASSUME Cleared
  PROVE  TreeInv'
BY DEF Cleared, TreeInv

\* A step that notes whether the session meets the jobs of another one.
LEMMA CrossingKeeps ==
  ASSUME QueueInv, crossed' = Crossing, UNCHANGED <<jobs, opens>>
  PROVE  QueueInv'
<1>1. ~crossed' => OwnJobs(jobs, config', active') /\ OwnJobs(opens, config', active')
  BY NotCrossing
<1> QED
  BY <1>1 DEF QueueInv

\* Crossing is a truth value.
LEMMA CrossingIsBoolean == Crossing \in BOOLEAN
BY DEF Crossing

\* Another profile is selected: the session ends, and its jobs go on.
LEMMA SelectKeeps ==
  ASSUME BrowserInv, OnProfileSelectionChanged
  PROVE  BrowserInv'
<1>1. /\ active' \in profiles /\ connected' = FALSE
      /\ UNCHANGED <<profiles, config, dialog, jobs, opens, docs>>
      /\ crossed' = Crossing /\ UpdateTreeRoot
  BY DEF OnProfileSelectionChanged
<1>2. Cleared
  BY <1>1, UpdateTreeRootKeeps
<1>3. TreeInv'
  BY <1>2, ClearedKeeps
<1>4. QueueInv'
  BY <1>1, CrossingKeeps DEF BrowserInv
<1>5. SessionInv'
  BY <1>1, <1>2, CrossingIsBoolean DEF BrowserInv, SessionInv, Cleared
<1> QED
  BY <1>1, <1>3, <1>4, <1>5 DEF BrowserInv

\* The session ends, and its jobs go on.
LEMMA DisconnectKeeps ==
  ASSUME BrowserInv, Disconnect
  PROVE  BrowserInv'
<1>1. /\ connected' = FALSE /\ config' = NoProfile
      /\ UNCHANGED <<profiles, active, dialog, jobs, opens, docs>>
      /\ crossed' = Crossing /\ UpdateTreeRoot
  BY DEF Disconnect
<1>2. Cleared
  BY <1>1, UpdateTreeRootKeeps
<1>3. TreeInv'
  BY <1>2, ClearedKeeps
<1>4. QueueInv'
  BY <1>1, CrossingKeeps DEF BrowserInv
<1>5. SessionInv'
  BY <1>1, <1>2, CrossingIsBoolean DEF BrowserInv, SessionInv, Cleared, Accounts
<1> QED
  BY <1>1, <1>3, <1>4, <1>5 DEF BrowserInv

\* The last part of ConnectActiveProfile, with a session that is not live.
LEMMA ConnectKeeps ==
  ASSUME BrowserInv, Connect, UNCHANGED <<profiles, opens, docs>>, connected' = FALSE,
         active' \in profiles, dialog' \in BOOLEAN
  PROVE  BrowserInv'
<1>1. PICK c : c = config'
  OBVIOUS
<1>2. PICK j : j = Job("ConnectTest", c, 0, Bucket, 0)
  OBVIOUS
<1>3. /\ active' = c /\ ResetRoot("connecting") /\ jobs' = Append(jobs, j)
      /\ crossed' = Crossing /\ c \in Accounts
  BY <1>1, <1>2 DEF Connect, BrowserInv, SessionInv, Accounts
<1>4. Cleared
  <2>1. PICK text : text = "connecting"
    OBVIOUS
  <2> QED
    BY <1>3, <2>1, LabelFacts, ResetKeeps
<1>5. j \in Jobs /\ JobFits(j) /\ j.acct = c
  <2>1. PICK kind : kind = "ConnectTest"
    OBVIOUS
  <2>2. kind \in {"ConnectTest", "ListBucketsRoot", "ListNode"} /\ Bucket \in Containers
        /\ 0 \in Handles \cup {0} /\ 0 \in 0 .. LastPage
    BY <2>1, ContentAssumption, SizesFacts
  <2>3. IsJob(j, kind, c, 0, Bucket, 0)
    BY <1>2, <1>3, <2>1, <2>2, JobIs
  <2> QED
    BY <2>1, <2>3 DEF IsJob, JobFits
<1>6. QueueFits(jobs')
  BY <1>3, <1>5, QueueFacts DEF BrowserInv, QueueInv
<1>7. ASSUME ~crossed' PROVE OwnJobs(jobs', config', active') /\ OwnJobs(opens, config', active')
  <2>1. OwnJobs(jobs, c, c) /\ OwnJobs(opens, c, c)
    BY <1>1, <1>3, <1>7, NotCrossing
  <2>2. jobs \in Seq(Jobs)
    BY DEF BrowserInv, QueueInv, QueueFits
  <2>3. OwnJobs(jobs', c, c)
    BY <1>3, <1>5, <2>1, <2>2, OwnGrows DEF GrowsBy
  <2> QED
    BY <1>1, <1>3, <2>1, <2>3
<1>8. QueueInv'
  BY <1>6, <1>7 DEF BrowserInv, QueueInv
<1>9. SessionInv'
  BY <1>1, <1>3, <1>4, CrossingIsBoolean DEF BrowserInv, SessionInv, Cleared
<1>10. TreeInv'
  BY <1>4, ClearedKeeps
<1> QED
  BY <1>8, <1>9, <1>10 DEF BrowserInv

\* The active profile is connected.
LEMMA ConnectActiveProfileKeeps ==
  ASSUME BrowserInv, ConnectActiveProfile
  PROVE  BrowserInv'
<1>1. /\ ~connected /\ active # NoProfile /\ Connect
      /\ UNCHANGED <<profiles, active, connected, dialog, opens, docs>>
  BY DEF ConnectActiveProfile
<1>2. connected' = FALSE /\ active' \in profiles /\ dialog' \in BOOLEAN
  BY <1>1 DEF BrowserInv, SessionInv
<1> QED
  BY <1>1, <1>2, ConnectKeeps

\* The dialog selects a profile and connects it, from whatever session.
LEMMA ActivateProfileKeeps ==
  ASSUME BrowserInv, NEW p \in Profiles, ActivateProfile(p)
  PROVE  BrowserInv'
<1>1. /\ dialog' = FALSE /\ p \in profiles /\ active' = p /\ connected' = FALSE
      /\ UNCHANGED <<profiles, opens, docs>> /\ Connect
  BY DEF ActivateProfile
<1> QED
  BY <1>1, ConnectKeeps

\* The dialog selects a profile without a secret: the session ends, and its jobs go on.
LEMMA ActivateUnreadableKeeps ==
  ASSUME BrowserInv, NEW p \in Profiles, ActivateUnreadable(p)
  PROVE  BrowserInv'
<1>1. /\ dialog' = FALSE /\ p \in profiles /\ active' = p /\ connected' = FALSE
      /\ UNCHANGED <<profiles, jobs, opens, docs>>
      /\ crossed' = (Crossing \/ (~connected /\ crossed))
  BY DEF ActivateUnreadable
<1>2. crossed' \in BOOLEAN
  BY <1>1, CrossingIsBoolean DEF BrowserInv, SessionInv
<1>3. QueueInv'
  <2>1. ~crossed' => OwnJobs(jobs, config', active') /\ OwnJobs(opens, config', active')
    BY <1>1, NotCrossing
  <2> QED
    BY <1>1, <2>1 DEF BrowserInv, QueueInv
<1>4. CASE connected
  <2>1. PICK text : text = IF active = NoProfile THEN "noProfile" ELSE "disconnected"
    OBVIOUS
  <2>2. config' = NoProfile /\ ResetRoot(text) /\ text \in Labels
    BY <1>4, <2>1, LabelFacts DEF ActivateUnreadable
  <2>3. Cleared
    BY <2>2, ResetKeeps
  <2>4. TreeInv'
    BY <2>3, ClearedKeeps
  <2>5. SessionInv'
    BY <1>1, <1>2, <2>2, <2>3 DEF BrowserInv, SessionInv, Cleared, Accounts
  <2> QED
    BY <1>1, <1>3, <2>4, <2>5 DEF BrowserInv
<1>5. CASE ~connected
  <2>1. UNCHANGED <<config, root, label, nodes>> /\ connected' = connected
    BY <1>1, <1>5 DEF ActivateUnreadable, tree, BrowserInv, SessionInv
  <2>2. ~crossed' => ~crossed
    BY <1>1, <1>5
  <2>3. TreeInv'
    BY <1>1, <2>1, <2>2 DEF BrowserInv, TreeInv
  <2>4. SessionInv'
    BY <1>1, <1>2, <1>5, <2>1 DEF BrowserInv, SessionInv
  <2> QED
    BY <1>1, <1>3, <2>3, <2>4 DEF BrowserInv
<1> QED
  BY <1>4, <1>5

\* The dialog opens.
LEMMA CmdProfilesKeeps ==
  ASSUME BrowserInv, CmdProfiles
  PROVE  BrowserInv'
BY DEF CmdProfiles, BrowserInv, SessionInv, TreeInv, QueueInv, tree

\* The dialog closes: the root of a session that is not live is made anew.
LEMMA CloseProfilesKeeps ==
  ASSUME BrowserInv, CloseProfiles
  PROVE  BrowserInv'
<1>1. /\ dialog' = FALSE
      /\ UNCHANGED <<profiles, active, config, connected, crossed, jobs, opens, docs>>
      /\ IF connected THEN UNCHANGED tree ELSE UpdateTreeRoot
  BY DEF CloseProfiles
<1>2. QueueInv'
  BY <1>1 DEF BrowserInv, QueueInv
<1>3. CASE connected
  <2>1. UNCHANGED <<root, label, nodes>>
    BY <1>1, <1>3 DEF tree
  <2>2. TreeInv' /\ SessionInv'
    BY <1>1, <2>1 DEF BrowserInv, TreeInv, SessionInv
  <2> QED
    BY <1>1, <1>2, <2>2 DEF BrowserInv
<1>4. CASE ~connected
  <2>1. Cleared
    BY <1>1, <1>4, UpdateTreeRootKeeps
  <2>2. TreeInv'
    BY <2>1, ClearedKeeps
  <2>3. SessionInv'
    BY <1>1, <2>1 DEF BrowserInv, SessionInv, Cleared
  <2> QED
    BY <1>1, <1>2, <2>2, <2>3 DEF BrowserInv
<1> QED
  BY <1>3, <1>4

\* The dialog changes which profile is active, and not the session.
LEMMA ProfileChangeKeeps ==
  ASSUME BrowserInv, profiles' \subseteq Profiles, active' \in profiles' \cup {NoProfile},
         UNCHANGED <<config, connected, dialog, tree, jobs, opens, docs>>,
         crossed' = (crossed \/ (active' # active /\ (Crossing \/ connected)))
  PROVE  BrowserInv'
<1>1. UNCHANGED <<config, connected, dialog, root, label, nodes, jobs, opens, docs>>
  BY DEF tree
<1>2. crossed' \in BOOLEAN
  BY CrossingIsBoolean
<1>3. ASSUME ~crossed'
      PROVE  /\ ~crossed /\ connected => config = active'
             /\ OwnJobs(jobs, config, active') /\ OwnJobs(opens, config, active')
  <2>1. ~crossed /\ (active' = active \/ (~Crossing /\ ~connected))
    BY <1>3
  <2>2. CASE active' = active
    BY <2>1, <2>2 DEF BrowserInv, SessionInv, QueueInv
  <2>3. CASE ~Crossing /\ ~connected
    BY <1>1, <2>1, <2>3, NotCrossing
  <2> QED
    BY <2>1, <2>2, <2>3
<1>4. SessionInv'
  BY <1>1, <1>2, <1>3 DEF BrowserInv, SessionInv
<1>5. TreeInv'
  BY <1>1, <1>3 DEF BrowserInv, TreeInv
<1>6. QueueInv'
  BY <1>1, <1>3 DEF BrowserInv, QueueInv
<1> QED
  BY <1>1, <1>4, <1>5, <1>6 DEF BrowserInv

\* A profile is deleted, maybe the active one.
LEMMA RemoveProfileKeeps ==
  ASSUME BrowserInv, NEW p \in Profiles, RemoveProfile(p)
  PROVE  BrowserInv'
<1>1. /\ profiles' = profiles \ {p}
      /\ active' = IF active = p THEN NoProfile ELSE active
      /\ UNCHANGED <<config, connected, dialog, tree, jobs, opens, docs>>
      /\ crossed' = (crossed \/ (active' # active /\ (Crossing \/ connected)))
  BY DEF RemoveProfile
<1>2. profiles' \subseteq Profiles /\ active' \in profiles' \cup {NoProfile}
  BY <1>1 DEF BrowserInv, SessionInv
<1> QED
  BY <1>1, <1>2, ProfileChangeKeeps

\* A profile is added, which becomes the active one if there is none.
LEMMA AddProfileKeeps ==
  ASSUME BrowserInv, NEW p \in Profiles, AddProfile(p)
  PROVE  BrowserInv'
<1>1. /\ profiles' = profiles \cup {p}
      /\ active' = IF active = NoProfile THEN p ELSE active
      /\ UNCHANGED <<config, connected, dialog, tree, jobs, opens, docs>>
      /\ crossed' = (crossed \/ (active' # active /\ (Crossing \/ connected)))
  BY DEF AddProfile
<1>2. profiles' \subseteq Profiles /\ active' \in profiles' \cup {NoProfile}
  BY <1>1 DEF BrowserInv, SessionInv
<1> QED
  BY <1>1, <1>2, ProfileChangeKeeps

\* A step that asks for rows keeps the tree and the jobs in order.
LEMMA SettledKeeps ==
  ASSUME NEW q, QueueFits(q), Settled(root', q), SessionInv', OpensFit(opens'),
         ~crossed' => /\ OwnItems(nodes', config')
                      /\ OwnJobs(q, config', active') /\ OwnJobs(opens', config', active')
  PROVE  TreeInv' /\ QueueInv'
<1>1. /\ TreeFits(nodes', root') /\ ListingsFit(nodes', jobs', config', connected')
      /\ QueueFits(jobs') /\ GrowsBy(jobs', q, config')
      /\ jobs' = q \/ connected' \/ (~crossed' => config' = active')
  BY DEF Settled
<1>2. ASSUME ~crossed' PROVE OwnJobs(jobs', config', active')
  <2>1. CASE jobs' = q
    BY <1>2, <2>1
  <2>2. CASE jobs' # q
    <3>1. config' = active'
      BY <1>1, <1>2, <2>2 DEF SessionInv
    <3>2. q \in Seq(Jobs)
      BY DEF QueueFits
    <3>3. OwnJobs(q, config', config')
      BY <1>2, <3>1
    <3> QED
      BY <1>1, <3>1, <3>2, <3>3, OwnGrows
  <2> QED
    BY <1>1, <2>1, <2>2
<1>3. TreeInv'
  BY <1>1 DEF TreeInv
<1>4. QueueInv'
  BY <1>1, <1>2 DEF QueueInv
<1> QED
  BY <1>3, <1>4

\* A live session's root is listed again.
LEMMA RefreshTreeKeeps ==
  ASSUME BrowserInv, RefreshTree
  PROVE  BrowserInv'
<1>1. /\ connected /\ ListRoot(jobs)
      /\ UNCHANGED <<profiles, active, config, connected, dialog, crossed, opens, docs>>
  BY DEF RefreshTree, session
<1>2. Relisted(jobs)
  <2>1. QueueFits(jobs) /\ TreeFits(nodes, root) /\ config' \in Accounts /\ label \in Labels
        /\ ListingsFit(nodes, jobs, config', connected') /\ connected'
    BY <1>1 DEF BrowserInv, SessionInv, TreeInv, QueueInv
  <2> QED
    BY <1>1, <2>1, ListRootKeeps
<1>3. SessionInv'
  BY <1>1, <1>2 DEF BrowserInv, SessionInv, Relisted
<1>4. QueueFits(jobs) /\ OpensFit(opens') /\ Settled(root', jobs)
  BY <1>1, <1>2 DEF BrowserInv, QueueInv, Relisted
<1>5. ~crossed' => /\ OwnItems(nodes', config')
                   /\ OwnJobs(jobs, config', active') /\ OwnJobs(opens', config', active')
  BY <1>1, <1>2 DEF BrowserInv, TreeInv, QueueInv, Relisted
<1>6. TreeInv' /\ QueueInv'
  BY <1>3, <1>4, <1>5, SettledKeeps
<1> QED
  BY <1>1, <1>3, <1>6 DEF BrowserInv

\* What leaves the session alone.
SameSession ==
  UNCHANGED <<profiles, active, config, connected, dialog, crossed, root, label, opens, docs>>

\* Children of an item are asked for, after the tree became n.
LEMMA AskingKeeps ==
  ASSUME BrowserInv, SameSession, NEW n, TreeFits(n, root), NEW q, QueueFits(q),
         ~crossed => OwnJobs(q, config, active), KeepsOwner(n, nodes), Settled(root, q),
         KeepsOwner(nodes', n)
  PROVE  BrowserInv'
<1>1. UNCHANGED <<profiles, active, config, connected, dialog, crossed, root, label, opens, docs>>
  BY DEF SameSession
<1>2. SessionInv'
  BY <1>1 DEF BrowserInv, SessionInv
<1>3. OpensFit(opens') /\ Settled(root', q)
  BY <1>1 DEF BrowserInv, QueueInv
<1>4. ~crossed' => /\ OwnItems(nodes', config')
                   /\ OwnJobs(q, config', active') /\ OwnJobs(opens', config', active')
  BY <1>1 DEF BrowserInv, TreeInv, QueueInv, KeepsOwner
<1>5. TreeInv' /\ QueueInv'
  BY <1>2, <1>3, <1>4, SettledKeeps
<1> QED
  BY <1>1, <1>2, <1>5 DEF BrowserInv

\* An item that does not count as loaded is expanded.
LEMMA ExpandKeeps ==
  ASSUME BrowserInv, NEW h \in Handles, Expand(h)
  PROVE  BrowserInv'
<1>1. /\ h \in DOMAIN nodes /\ ~nodes[h].loaded /\ Requestable(nodes, h)
      /\ RequestChildren(nodes, h, jobs) /\ SameSession
  BY DEF Expand, SameSession, session
<1>2. /\ TreeFits(nodes, root) /\ QueueFits(jobs) /\ config' \in Accounts
      /\ OthersFit(nodes, jobs, h, config', connected')
  BY <1>1 DEF BrowserInv, SessionInv, TreeInv, QueueInv, SameSession, ListingsFit, OthersFit
<1>3. Settled(root, jobs) /\ KeepsOwner(nodes', nodes)
  BY <1>1, <1>2, RequestChildrenKeeps
<1>4. KeepsOwner(nodes, nodes) /\ (~crossed => OwnJobs(jobs, config, active))
  BY DEF KeepsOwner, BrowserInv, QueueInv
<1> QED
  BY <1>1, <1>2, <1>3, <1>4, AskingKeeps

\* RefreshNode: the item is emptied first.
LEMMA RefreshNodeKeeps ==
  ASSUME BrowserInv, NEW h \in DOMAIN nodes, RefreshNode(h), SameSession
  PROVE  BrowserInv'
<1>1. PICK n : n = RemoveChildren(nodes, h)
  OBVIOUS
<1>2. RequestChildren(n, h, jobs)
  BY <1>1 DEF RefreshNode
<1>3. /\ TreeFits(nodes, root) /\ QueueFits(jobs) /\ jobs \in Seq(Jobs) /\ config' \in Accounts
      /\ ListingsFit(nodes, jobs, config', connected')
  BY DEF BrowserInv, SessionInv, TreeInv, QueueInv, QueueFits, SameSession
<1>4. /\ TreeFits(n, root) /\ OthersFit(n, jobs, h, config', connected')
      /\ h \in DOMAIN n /\ n[h].kind = nodes[h].kind /\ n[h].name = nodes[h].name
      /\ ~n[h].loaded /\ ~n[h].loading
      /\ nodes[h].kind = "Root" \/ ~connected' => ListingsFit(n, jobs, config', connected')
      /\ KeepsOwner(n, nodes)
  BY <1>1, <1>3, RemoveKeeps
<1>5. Requestable(n, h) \/ ListingsFit(n, jobs, config', connected')
  <2>1. n[h].kind \in {"Root", "Bucket", "Prefix"}
    BY <1>4, ItemTypes DEF TreeFits, ItemFits
  <2> QED
    BY <1>4, <2>1 DEF Requestable
<1>6. Settled(root, jobs) /\ KeepsOwner(nodes', n)
  BY <1>2, <1>3, <1>4, <1>5, RequestChildrenKeeps
<1>7. ~crossed => OwnJobs(jobs, config, active)
  BY DEF BrowserInv, QueueInv
<1> QED
  BY <1>3, <1>4, <1>6, <1>7, AskingKeeps

\* The user refreshes an item.
LEMMA RefreshItemKeeps ==
  ASSUME BrowserInv, NEW h \in Handles, RefreshItem(h)
  PROVE  BrowserInv'
<1>1. h \in DOMAIN nodes /\ RefreshNode(h) /\ SameSession
  BY DEF RefreshItem, SameSession, session
<1> QED
  BY <1>1, RefreshNodeKeeps

\* An operation that changed an object refreshes the item of its container.
LEMMA RefreshParentOfKeyKeeps ==
  ASSUME BrowserInv, NEW c \in Containers, RefreshParentOfKey(c)
  PROVE  BrowserInv'
<1>1. PICK h \in DOMAIN nodes : RefreshNode(h)
  BY DEF RefreshParentOfKey, ItemsOf
<1>2. SameSession
  BY DEF RefreshParentOfKey, SameSession, session
<1> QED
  BY <1>1, <1>2, RefreshNodeKeeps

\* OpenObject notes the active profile, which is that of a live session.
LEMMA OpenObjectKeeps ==
  ASSUME BrowserInv, NEW h \in Handles, NEW o \in Objects, OpenObject(h, o)
  PROVE  BrowserInv'
<1>1. PICK d : d = [acct |-> config, path |-> <<active, o>>, crossed |-> crossed]
  OBVIOUS
<1>2. /\ connected /\ active # NoProfile /\ opens' = Append(opens, d)
      /\ UNCHANGED <<profiles, active, config, connected, dialog, crossed>>
      /\ UNCHANGED <<root, label, nodes, jobs, docs>>
  BY <1>1 DEF OpenObject, session, tree
<1>3. d \in Opens /\ OpenFits(d) /\ (~crossed => d.acct = config /\ config = active)
  BY <1>1, <1>2 DEF BrowserInv, SessionInv, Opens, OpenFits
<1>4. opens \in Seq(Opens) /\ (\A i \in DOMAIN opens : OpenFits(opens[i]))
  BY DEF BrowserInv, QueueInv, OpensFit
<1>5. OpensFit(opens')
  BY <1>2, <1>3, <1>4 DEF OpensFit
<1>6. ~crossed => OwnJobs(opens', config, active)
  BY <1>2, <1>3, <1>4, OwnFacts DEF BrowserInv, QueueInv
<1>7. QueueInv'
  BY <1>2, <1>5, <1>6 DEF BrowserInv, QueueInv
<1>8. SessionInv' /\ TreeInv'
  BY <1>2 DEF BrowserInv, SessionInv, TreeInv
<1> QED
  BY <1>2, <1>7, <1>8 DEF BrowserInv

\* The document is recorded: the download and the session are of one account.
LEMMA HandleDownloadOpenKeeps ==
  ASSUME BrowserInv, NEW res, HandleDownloadOpen(res)
  PROVE  BrowserInv'
<1>1. /\ opens # << >> /\ opens' = Tail(opens)
      /\ UNCHANGED <<profiles, active, config, connected, dialog, crossed>>
      /\ UNCHANGED <<root, label, nodes, jobs>>
  BY DEF HandleDownloadOpen, session, tree
<1>2. PICK o : o = Head(opens)
  OBVIOUS
<1>3. PICK doc : doc = [profile |-> active, acct |-> o.acct, crossed |-> crossed \/ o.crossed]
  OBVIOUS
<1>4. docs' = IF res = "ok"
              THEN [p \in (DOMAIN docs) \cup {o.path} |-> IF p = o.path THEN doc ELSE docs[p]]
              ELSE docs
  BY <1>2, <1>3 DEF HandleDownloadOpen
<1>5. opens \in Seq(Opens) /\ (\A i \in DOMAIN opens : OpenFits(opens[i]))
  BY DEF BrowserInv, QueueInv, OpensFit
<1>6. /\ o \in Opens /\ OpenFits(o) /\ Tail(opens) \in Seq(Opens)
      /\ \A i \in DOMAIN Tail(opens) : OpenFits(Tail(opens)[i])
  BY <1>1, <1>2, <1>5
<1>7. ASSUME ~crossed PROVE o.acct = config /\ o.acct = active /\ OwnJobs(opens', config, active)
  <2>1. OwnJobs(opens, config, active)
    BY <1>7 DEF BrowserInv, QueueInv
  <2> QED
    BY <1>1, <1>2, <1>5, <2>1, OwnFacts
<1>8. QueueInv'
  BY <1>1, <1>6, <1>7 DEF BrowserInv, QueueInv, OpensFit
<1>9. DocsFit(docs')
  <2>1. DocsFit(docs)
    BY DEF BrowserInv
  <2>2. /\ o.path \in Accounts \X Objects /\ doc.profile \in Accounts
        /\ ~doc.crossed => doc.profile = doc.acct /\ o.path[1] = doc.acct
    <3>1. active \in Accounts
      BY DEF BrowserInv, SessionInv, Accounts
    <3>2. o.path \in Accounts \X Objects
      BY <1>6 DEF Opens, Accounts
    <3>3. doc.profile = active /\ doc.acct = o.acct /\ (doc.crossed <=> crossed \/ o.crossed)
      BY <1>3
    <3> QED
      BY <1>6, <1>7, <3>1, <3>2, <3>3 DEF OpenFits
  <2> QED
    BY <1>4, <2>1, <2>2 DEF DocsFit
<1>10. SessionInv' /\ TreeInv'
  BY <1>1 DEF BrowserInv, SessionInv, TreeInv
<1> QED
  BY <1>8, <1>9, <1>10 DEF BrowserInv

\* The jobs that are left go with the same items.
LEMMA TailFits ==
  ASSUME NEW n, NEW q \in Seq(Jobs), q # << >>, NEW acct, NEW live, ListingsFit(n, q, acct, live)
  PROVE  ListingsFit(n, Tail(q), acct, live)
BY JobOver DEF ListingsFit

\* So does a session that goes live.
LEMMA LiveFits ==
  ASSUME NEW n, NEW q, NEW acct, NEW live, ListingsFit(n, q, acct, live), NEW on, on
  PROVE  ListingsFit(n, q, acct, on)
<1> SUFFICES ASSUME NEW h \in DOMAIN n PROVE ListingFits(n, q, h, acct, on)
  BY DEF ListingsFit
<1>1. ListingFits(n, q, h, acct, live)
  BY DEF ListingsFit
<1> QED
  BY <1>1 DEF ListingFits, Listed

\* The head of the control lane is over.
LEMMA HeadOver ==
  ASSUME BrowserInv, jobs # << >>
  PROVE  /\ jobs \in Seq(Jobs) /\ QueueFits(Tail(jobs)) /\ Head(jobs) \in Jobs
         /\ JobFits(Head(jobs)) /\ \A h : Refers(Tail(jobs), h) => Refers(jobs, h)
         /\ ListingsFit(nodes, Tail(jobs), config, connected)
         /\ ~crossed => /\ Head(jobs).acct = config /\ Head(jobs).acct = active
                        /\ OwnJobs(Tail(jobs), config, active)
<1>1. QueueFits(jobs) /\ jobs \in Seq(Jobs) /\ ListingsFit(nodes, jobs, config, connected)
  BY DEF BrowserInv, QueueInv, QueueFits, TreeInv
<1>2. QueueFits(Tail(jobs)) /\ Head(jobs) \in Jobs /\ JobFits(Head(jobs))
  BY <1>1, QueueFacts
<1>3. \A h : Refers(Tail(jobs), h) => Refers(jobs, h)
  BY <1>1, JobsTail
<1>4. ListingsFit(nodes, Tail(jobs), config, connected)
  BY <1>1, TailFits
<1>5. ASSUME ~crossed
      PROVE  /\ Head(jobs).acct = config /\ Head(jobs).acct = active
             /\ OwnJobs(Tail(jobs), config, active)
  <2>1. OwnJobs(jobs, config, active)
    BY <1>5 DEF BrowserInv, QueueInv
  <2> QED
    BY <1>1, <2>1, OwnFacts
<1> QED
  BY <1>1, <1>2, <1>3, <1>4, <1>5

\* The answer to a connect: the session goes live, or the root says that it is not.
LEMMA HandleConnectTestKeeps ==
  ASSUME BrowserInv, NEW res, HandleConnectTest(res)
  PROVE  BrowserInv'
<1>1. /\ jobs # << >> /\ UNCHANGED <<profiles, active, config, dialog, crossed, opens, docs>>
      /\ connected' = CASE res = "ok" -> TRUE [] res = "failed" -> FALSE [] OTHER -> connected
  BY DEF HandleConnectTest, Handle
<1>2. PICK q : q = Tail(jobs)
  OBVIOUS
<1>3. /\ QueueFits(q) /\ \A h : Refers(q, h) => Refers(jobs, h)
      /\ ListingsFit(nodes, q, config, connected)
      /\ ~crossed => config = active /\ OwnJobs(q, config, active)
  BY <1>1, <1>2, HeadOver
<1>4. connected' \in BOOLEAN
  BY <1>1 DEF BrowserInv, SessionInv
<1>5. ~crossed => OwnItems(nodes, config) /\ OwnJobs(opens, config, active)
  BY DEF BrowserInv, TreeInv, QueueInv
<1>6. CASE res = "ok"
  <2>1. connected' /\ ListRoot(q)
    BY <1>1, <1>2, <1>6 DEF HandleConnectTest
  <2>2. QueueFits(q) /\ TreeFits(nodes, root) /\ config' \in Accounts /\ label \in Labels
    BY <1>1, <1>3 DEF BrowserInv, SessionInv, TreeInv
  <2>3. ListingsFit(nodes, q, config', connected')
    BY <1>1, <1>3, <2>1, LiveFits
  <2>4. Relisted(q)
    BY <1>3, <2>1, <2>2, <2>3, ListRootKeeps
  <2>5. SessionInv'
    BY <1>1, <1>3, <1>4, <2>4 DEF BrowserInv, SessionInv, Relisted
  <2>6. OpensFit(opens') /\ Settled(root', q)
    BY <1>1, <2>4 DEF BrowserInv, QueueInv, Relisted
  <2>7. ~crossed' => /\ OwnItems(nodes', config')
                     /\ OwnJobs(q, config', active') /\ OwnJobs(opens', config', active')
    BY <1>1, <1>3, <1>5, <2>4 DEF Relisted
  <2>8. TreeInv' /\ QueueInv'
    BY <1>3, <2>5, <2>6, <2>7, SettledKeeps
  <2> QED
    BY <1>1, <2>5, <2>8 DEF BrowserInv
<1>7. CASE res # "ok"
  <2>1. UpdateTreeRoot /\ jobs' = q
    BY <1>2, <1>7 DEF HandleConnectTest
  <2>2. Cleared
    BY <2>1, UpdateTreeRootKeeps
  <2>3. TreeInv'
    BY <2>2, ClearedKeeps
  <2>4. SessionInv'
    BY <1>1, <1>3, <1>4, <2>2 DEF BrowserInv, SessionInv, Cleared
  <2>5. QueueInv'
    BY <1>1, <1>3, <1>5, <2>1 DEF BrowserInv, QueueInv
  <2> QED
    BY <1>1, <2>3, <2>4, <2>5 DEF BrowserInv
<1> QED
  BY <1>6, <1>7

\* A completion that leaves the session alone and has put the tree in order.
LEMMA ListedKeeps ==
  ASSUME BrowserInv, jobs # << >>, SameSession, Settled(root, Tail(jobs)),
         ~crossed => OwnItems(nodes', config)
  PROVE  BrowserInv'
<1>1. UNCHANGED <<profiles, active, config, connected, dialog, crossed, root, label, opens, docs>>
  BY DEF SameSession
<1>2. PICK q : q = Tail(jobs)
  OBVIOUS
<1>3. QueueFits(q) /\ (~crossed => OwnJobs(q, config, active))
  BY <1>2, HeadOver
<1>4. SessionInv'
  BY <1>1 DEF BrowserInv, SessionInv
<1>5. OpensFit(opens') /\ Settled(root', q)
  BY <1>1, <1>2 DEF BrowserInv, QueueInv
<1>6. ~crossed' => /\ OwnItems(nodes', config')
                   /\ OwnJobs(q, config', active') /\ OwnJobs(opens', config', active')
  BY <1>1, <1>3 DEF BrowserInv, QueueInv
<1>7. TreeInv' /\ QueueInv'
  BY <1>3, <1>4, <1>5, <1>6, SettledKeeps
<1> QED
  BY <1>1, <1>4, <1>7 DEF BrowserInv

\* Flags of the root go with any jobs.
LEMMA FlagRootKeeps ==
  ASSUME NEW n, NEW r, TreeFits(n, r), NEW q, NEW acct, NEW live, ListingsFit(n, q, acct, live),
         NEW n2, NEW e, Becomes(n2, n, r, e), SameRows(e, n[r])
  PROVE  TreeFits(n2, r) /\ ListingsFit(n2, q, acct, live) /\ KeepsOwner(n2, n)
<1>1. r \in DOMAIN n /\ n[r].kind = "Root"
  BY DEF TreeFits, IsRoot
<1>2. OthersFit(n, q, r, acct, live)
  BY DEF ListingsFit, OthersFit
<1>3. SameItem(e, n[r]) /\ e.rows = n[r].rows /\ e.from = n[r].from
  BY DEF SameRows
<1>4. /\ TreeFits(n2, r) /\ OthersFit(n2, q, r, acct, live) /\ Alike(n2, n, r)
      /\ KeepsOwner(n2, n)
  BY <1>1, <1>2, <1>3, ChangeKeeps
<1>5. ListingFits(n2, q, r, acct, live)
  BY <1>1, <1>4 DEF ListingFits, Alike, SameItem
<1> QED
  BY <1>4, <1>5 DEF OthersFit, ListingsFit

\* The buckets arrive, or do not.
LEMMA HandleListBucketsKeeps ==
  ASSUME BrowserInv, NEW res, HandleListBuckets(res)
  PROVE  BrowserInv'
<1>1. jobs # << >> /\ jobs' = Tail(jobs) /\ SameSession
  BY DEF HandleListBuckets, Handle, session, SameSession
<1>2. PICK q : q = Tail(jobs)
  OBVIOUS
<1>3. PICK a : a = Head(jobs).acct
  OBVIOUS
<1>4. PICK acct : acct = config
  OBVIOUS
<1>5. PICK live : live = connected
  OBVIOUS
<1>6. /\ QueueFits(q) /\ (\A h : Refers(q, h) => Refers(jobs, h)) /\ a \in Accounts
      /\ ListingsFit(nodes, q, acct, live) /\ (~crossed => a = config)
  BY <1>1, <1>2, <1>3, <1>4, <1>5, HeadOver DEF Jobs
<1>7. TreeFits(nodes, root) /\ (~crossed => OwnItems(nodes, config))
  BY DEF BrowserInv, TreeInv
<1>8. root \in DOMAIN nodes /\ nodes[root] \in Items
  BY <1>7 DEF TreeFits, IsRoot, ItemFits
<1>9. /\ TreeFits(nodes', root) /\ ListingsFit(nodes', q, acct, live)
      /\ ~crossed => OwnItems(nodes', config)
  <2>1. CASE res = "ok"
    <3>1. PICK one : one = DOMAIN nodes
      OBVIOUS
    <3>2. PICK b \in NewHandles(one, 1) :
            nodes' = [AddBucket(nodes, root, b, a)
                        EXCEPT ![root].holder = "none", ![root].loaded = TRUE,
                               ![root].loading = FALSE, ![root].expanded = TRUE]
      BY <1>3, <2>1, <3>1 DEF HandleListBuckets
    <3>3. b \in Handles /\ b \notin DOMAIN nodes
      BY <3>1, NewHandlesAreDead
    <3>4. PICK n : n = AddBucket(nodes, root, b, a)
      OBVIOUS
    <3>5. /\ TreeFits(n, root) /\ ListingsFit(n, q, acct, live)
          /\ OwnItems(nodes, a) => OwnItems(n, a)
      BY <1>6, <1>7, <3>3, <3>4, AddBucketKeeps
    <3>6. root \in DOMAIN n /\ n[root] \in Items
      BY <3>5 DEF TreeFits, IsRoot, ItemFits
    <3>7. Becomes(nodes', n, root, RootListed(n[root]))
      BY <3>2, <3>4, <3>6 DEF Becomes, RootListed
    <3>8. SameRows(RootListed(n[root]), n[root])
      BY <3>6, FlaggedItem
    <3>9. TreeFits(nodes', root) /\ ListingsFit(nodes', q, acct, live) /\ KeepsOwner(nodes', n)
      BY <3>5, <3>7, <3>8, FlagRootKeeps
    <3> QED
      BY <1>6, <1>7, <3>5, <3>9 DEF KeepsOwner
  <2>2. CASE res = "failed"
    <3>1. nodes' = [nodes EXCEPT ![root].holder = "Empty", ![root].expanded = TRUE]
      BY <2>2 DEF HandleListBuckets
    <3>2. Becomes(nodes', nodes, root, RootFailed(nodes[root]))
      BY <1>8, <3>1 DEF Becomes, RootFailed
    <3>3. SameRows(RootFailed(nodes[root]), nodes[root])
      BY <1>8, FlaggedItem
    <3>4. /\ TreeFits(nodes', root) /\ ListingsFit(nodes', q, acct, live)
          /\ KeepsOwner(nodes', nodes)
      BY <1>6, <1>7, <3>2, <3>3, FlagRootKeeps
    <3> QED
      BY <1>7, <3>4 DEF KeepsOwner
  <2>3. CASE res \notin {"ok", "failed"}
    <3>1. nodes' = nodes
      BY <2>3 DEF HandleListBuckets
    <3> QED
      BY <1>6, <1>7, <3>1
  <2> QED
    BY <2>1, <2>2, <2>3
<1>10. Settled(root, Tail(jobs))
  BY <1>1, <1>2, <1>4, <1>5, <1>6, <1>9 DEF Settled, SameSession, GrowsBy
<1> QED
  BY <1>1, <1>9, <1>10, ListedKeeps

\* A listing that is over without rows leaves its item without a job.
LEMMA FailedKeeps ==
  ASSUME NEW n, NEW r, TreeFits(n, r), NEW q \in Seq(Jobs), q # << >>, NEW acct, NEW live,
         ListingsFit(n, q, acct, live), NEW h \in DOMAIN n, Head(q).item = h,
         NEW n2, Becomes(n2, n, h, Failed(n[h]))
  PROVE  /\ TreeFits(n2, r) /\ ListingsFit(n2, Tail(q), acct, live) /\ KeepsOwner(n2, n)
         /\ h \in DOMAIN n2 /\ n2[h].loaded = n[h].loaded
<1>1. n[h] \in Items
  BY DEF TreeFits, ItemFits
<1>2. PICK e : e = Failed(n[h])
  OBVIOUS
<1>3. SameRows(e, n[h]) /\ e.loaded = n[h].loaded
  BY <1>1, <1>2, FlaggedItem
<1>4. PICK t : t = Tail(q)
  OBVIOUS
<1>5. ListingsFit(n, t, acct, live)
  BY <1>4, TailFits
<1>6. OthersFit(n, t, h, acct, live)
  BY <1>5 DEF ListingsFit, OthersFit
<1>7. /\ TreeFits(n2, r) /\ OthersFit(n2, t, h, acct, live) /\ Alike(n2, n, h)
      /\ KeepsOwner(n2, n)
  <2>1. SameItem(e, n[h]) /\ e.rows = n[h].rows /\ e.from = n[h].from /\ Becomes(n2, n, h, e)
    BY <1>2, <1>3 DEF SameRows
  <2> QED
    BY <1>6, <2>1, ChangeKeeps
<1>8. n2[h] = e /\ DOMAIN n2 = DOMAIN n
  BY <1>2 DEF Becomes
<1>9. ListingFits(n2, t, h, acct, live)
  <2> SUFFICES ASSUME n2[h].kind # "Root", ~n2[h].mixed PROVE ListingFits(n2, t, h, acct, live)
    BY DEF ListingFits
  <2>1. n[h].kind # "Root" /\ ~n[h].mixed
    BY <1>3, <1>8 DEF SameRows, SameItem
  <2>2. Listed(n, h, Head(q), acct, live) /\ ~Refers(t, h)
    <3>1. ListingFits(n, q, h, acct, live)
      BY DEF ListingsFit
    <3> QED
      BY <1>4, <2>1, <3>1, HeadIsAlone
  <2>3. ~n2[h].loaded
    BY <1>3, <1>8, <2>2 DEF Listed
  <2> QED
    BY <2>2, <2>3 DEF ListingFits, Refers
<1> QED
  BY <1>3, <1>4, <1>7, <1>8, <1>9 DEF OthersFit, ListingsFit

\* A listing fails, or is cancelled.
LEMMA ListingFailedKeeps ==
  ASSUME BrowserInv, jobs # << >>, SameSession, ListingFailed
  PROVE  BrowserInv'
<1>1. PICK h : h = Head(jobs).item
  OBVIOUS
<1>2. PICK q : q = Tail(jobs)
  OBVIOUS
<1>3. /\ config' = config /\ connected' = connected
      /\ jobs \in Seq(Jobs) /\ QueueFits(q) /\ ListingsFit(nodes, q, config, connected)
      /\ ListingsFit(nodes, jobs, config, connected) /\ TreeFits(nodes, root)
      /\ config' \in Accounts /\ (~crossed => OwnItems(nodes, config))
  BY <1>2, HeadOver DEF SameSession, BrowserInv, TreeInv, SessionInv
<1>4. Settled(root, q) /\ KeepsOwner(nodes', nodes)
  <2>1. CASE h \notin DOMAIN nodes
    <3>1. nodes' = nodes /\ jobs' = q
      BY <1>1, <1>2, <2>1 DEF ListingFailed
    <3> QED
      BY <1>3, <3>1 DEF Settled, GrowsBy, KeepsOwner
  <2>2. CASE h \in DOMAIN nodes
    <3>1. PICK n : n = [nodes EXCEPT ![h].loading = FALSE, ![h].holder = "Empty",
                                     ![h].expanded = TRUE]
      OBVIOUS
    <3>2. Becomes(n, nodes, h, Failed(nodes[h]))
      BY <2>2, <3>1 DEF Becomes, Failed
    <3>3. /\ TreeFits(n, root) /\ ListingsFit(n, q, config, connected) /\ KeepsOwner(n, nodes)
          /\ h \in DOMAIN n /\ n[h].loaded = nodes[h].loaded
      BY <1>1, <1>2, <1>3, <2>2, <3>2, FailedKeeps
    <3>4. CASE nodes[h].expanded \/ nodes[h].loaded
      <4>1. nodes' = n /\ jobs' = q
        BY <1>1, <1>2, <2>2, <3>1, <3>4 DEF ListingFailed
      <4> QED
        BY <1>3, <3>3, <4>1 DEF Settled, GrowsBy
    <3>5. CASE ~(nodes[h].expanded \/ nodes[h].loaded)
      <4>1. RequestChildren(n, h, q)
        BY <1>1, <1>2, <2>2, <3>1, <3>5 DEF ListingFailed
      <4>2. ListingsFit(n, q, config', connected') /\ OthersFit(n, q, h, config', connected')
        BY <1>3, <3>3 DEF ListingsFit, OthersFit
      <4>3. Settled(root, q) /\ KeepsOwner(nodes', n)
        BY <1>3, <3>3, <3>5, <4>1, <4>2, RequestChildrenKeeps
      <4> QED
        BY <3>3, <4>3 DEF KeepsOwner
    <3> QED
      BY <3>4, <3>5
  <2> QED
    BY <2>1, <2>2
<1>5. ~crossed => OwnItems(nodes', config)
  BY <1>3, <1>4 DEF KeepsOwner
<1> QED
  BY <1>2, <1>4, <1>5, ListedKeeps

\* A page of rows arrives: its item may be gone, or be another one by now.
LEMMA ListingArrivedKeeps ==
  ASSUME BrowserInv, jobs # << >>, Head(jobs).kind = "ListNode", SameSession, ListingArrived
  PROVE  BrowserInv'
<1>1. PICK j : j = Head(jobs)
  OBVIOUS
<1>2. PICK q : q = Tail(jobs)
  OBVIOUS
<1>3. /\ config' = config /\ connected' = connected /\ config \in Accounts
      /\ jobs \in Seq(Jobs) /\ QueueFits(q) /\ ListingsFit(nodes, q, config, connected)
      /\ ListingsFit(nodes, jobs, config, connected) /\ TreeFits(nodes, root)
      /\ ~crossed => OwnItems(nodes, config) /\ j.acct = config
      /\ j \in Jobs /\ JobFits(j)
  BY <1>1, <1>2, HeadOver DEF SameSession, BrowserInv, TreeInv, SessionInv
<1>4. j.item \in Handles /\ j.page * PageSize < Len(Content[j.name])
  BY <1>1, <1>3 DEF JobFits
<1>5. PICK ends \in Ends(Head(jobs)) :
        /\ jobs' = IF Truncated(Head(jobs)) /\ Head(jobs).page < ends
                   THEN Append(Tail(jobs), ListNode(Head(jobs).item, Head(jobs).name,
                                                    Head(jobs).page + 1))
                   ELSE Tail(jobs)
        /\ IF Head(jobs).item \notin DOMAIN nodes THEN UNCHANGED nodes
           ELSE \E f \in [Page(Head(jobs)) \cap Containers ->
                          NewHandles(DOMAIN nodes, Cardinality(Page(Head(jobs)) \cap Containers))] :
                  /\ \A c, d \in Page(Head(jobs)) \cap Containers : f[c] = f[d] => c = d
                  /\ nodes' = IF Truncated(Head(jobs)) /\ Head(jobs).page < ends
                              THEN AppendListing(nodes, Head(jobs), f)
                              ELSE FinishNode(AppendListing(nodes, Head(jobs), f),
                                              Head(jobs).item, ends)
  BY Zenon DEF ListingArrived
<1>6. PICK again : again = (Truncated(j) /\ j.page < ends)
  OBVIOUS
<1>7. ends \in Ends(j) /\ ends \in 0 .. LastPage /\ (j.page < ends => ends = LastPage)
  BY <1>1, <1>3, <1>5, EndsFacts DEF Jobs
<1>8. PICK k : k = Job("ListNode", config, j.item, j.name, j.page + 1)
  OBVIOUS
<1>9. jobs' = IF again THEN Append(q, k) ELSE q
  BY <1>1, <1>2, <1>3, <1>5, <1>8, <1>6 DEF ListNode
<1>10. ASSUME again
      PROVE  /\ k \in Jobs /\ JobFits(k) /\ k.acct = config /\ k.item = j.item
             /\ k.name = j.name /\ k.page = j.page + 1
  <2>1. PICK kind : kind = "ListNode"
    OBVIOUS
  <2>2. PICK p : p = j.page + 1
    OBVIOUS
  <2>3. j.name \in Containers /\ j.page \in 0 .. LastPage
    BY <1>3 DEF Jobs
  <2>4. p \in 0 .. LastPage /\ p * PageSize < Len(Content[j.name])
    <3>1. Truncated(j) /\ j.page < LastPage
      BY <1>10, <1>6, <1>7
    <3>2. p * PageSize < Len(Content[j.name])
      BY <2>2, <3>1 DEF Truncated
    <3> QED
      BY <2>2, <2>3, <3>1, <3>2, SizesFacts
  <2>5. IsJob(k, kind, config, j.item, j.name, p)
    BY <1>3, <1>4, <1>8, <2>1, <2>2, <2>3, <2>4, JobIs
  <2> QED
    BY <1>4, <2>1, <2>2, <2>4, <2>5 DEF IsJob, JobFits
<1>11. QueueFits(jobs') /\ GrowsBy(jobs', q, config)
  BY <1>3, <1>9, <1>10, QueueFacts DEF GrowsBy
<1>12. ASSUME j.item \notin DOMAIN nodes
       PROVE  /\ TreeFits(nodes', root) /\ ListingsFit(nodes', jobs', config, connected)
              /\ ~crossed => OwnItems(nodes', config)
  <2>1. nodes' = nodes
    BY <1>1, <1>5, <1>12
  <2>2. ListingsFit(nodes, jobs', config, connected)
    <3>1. CASE again
      <4>1. jobs' = Append(q, k) /\ q \in Seq(Jobs)
        BY <1>3, <1>9, <3>1 DEF QueueFits
      <4>2. \A g \in DOMAIN nodes : k.item # g
        BY <1>10, <1>12, <3>1
      <4> QED
        BY <1>3, <1>10, <3>1, <4>1, <4>2, JobElsewhere DEF ListingsFit
    <3>2. CASE ~again
      BY <1>3, <1>9, <3>2
    <3> QED
      BY <3>1, <3>2
  <2> QED
    BY <1>3, <2>1, <2>2
<1>13. ASSUME j.item \in DOMAIN nodes
       PROVE  /\ TreeFits(nodes', root) /\ ListingsFit(nodes', jobs', config, connected)
              /\ ~crossed => OwnItems(nodes', config)
  <2>1. PICK folders : folders = Page(j) \cap Containers
    OBVIOUS
  <2>2. PICK live : live = DOMAIN nodes
    OBVIOUS
  <2>3. PICK f \in [folders -> NewHandles(live, Cardinality(folders))] :
          /\ \A c, d \in folders : f[c] = f[d] => c = d
          /\ nodes' = IF again THEN AppendListing(nodes, j, f)
                      ELSE FinishNode(AppendListing(nodes, j, f), j.item, ends)
    <3>1. PICK f \in [Page(Head(jobs)) \cap Containers ->
                       NewHandles(DOMAIN nodes, Cardinality(Page(Head(jobs)) \cap Containers))] :
            /\ \A c, d \in Page(Head(jobs)) \cap Containers : f[c] = f[d] => c = d
            /\ nodes' = IF Truncated(Head(jobs)) /\ Head(jobs).page < ends
                        THEN AppendListing(nodes, Head(jobs), f)
                        ELSE FinishNode(AppendListing(nodes, Head(jobs), f),
                                        Head(jobs).item, ends)
      <4>1. Head(jobs).item \in DOMAIN nodes
        BY <1>1, <1>13
      <4> QED
        BY <1>5, <4>1, Zenon
    <3>2. nodes' = IF again THEN AppendListing(nodes, j, f)
                  ELSE FinishNode(AppendListing(nodes, j, f), j.item, ends)
      BY <1>1, <1>6, <3>1
    <3> QED
      BY <1>1, <2>1, <2>2, <3>1, <3>2
  <2>4. f \in [folders -> Handles \ DOMAIN nodes]
    <3>1. \A h \in NewHandles(live, Cardinality(folders)) : h \in Handles \ DOMAIN nodes
      BY <2>2, NewHandlesAreDead
    <3> QED
      BY <2>3, <3>1
  <2>5. PICK n : n = AppendListing(nodes, j, f)
    OBVIOUS
  <2>6. nodes[j.item] \in Items
    BY <1>3, <1>13 DEF TreeFits, ItemFits
  <2>7. Shown(n, nodes, j, f, jobs, FALSE, ends)
    BY <1>3, <1>4, <1>13, <2>1, <2>3, <2>4, <2>5, <2>6, AppendShows
  <2>8. PICK last : last = ~again
    OBVIOUS
  <2>9. Shown(nodes', nodes, j, f, jobs, last, ends)
    <3>1. CASE again
      <4>1. nodes' = n /\ last = FALSE
        BY <2>3, <2>5, <2>8, <3>1
      <4> QED
        BY <2>7, <4>1
    <3>2. CASE ~again
      <4>1. PICK p : p = IF HasRows(n, j.item) THEN "none" ELSE "Empty"
        OBVIOUS
      <4>2. p \in Placeholders
        BY <4>1, PlaceholderFacts
      <4>3. DOMAIN n = (DOMAIN nodes) \cup {f[c] : c \in DOMAIN f}
        BY <2>7 DEF Shown
      <4>4. j.item \notin {f[c] : c \in DOMAIN f}
        BY <1>13, <2>4
      <4>5. Becomes(nodes', n, j.item, Finished(n[j.item], p, ends))
        BY <1>13, <2>3, <2>5, <3>2, <4>1, <4>3 DEF FinishNode, Becomes, Finished
      <4>6. Shown(nodes', nodes, j, f, jobs, TRUE, ends)
        BY <1>13, <1>7, <2>7, <4>2, <4>4, <4>5, FinishShows
      <4> QED
        BY <2>8, <3>2, <4>6
    <3> QED
      BY <3>1, <3>2
  <2>10. PICK acct : acct = config
    OBVIOUS
  <2>11. PICK on : on = connected
    OBVIOUS
  <2>12. PICK q2 : q2 = jobs'
    OBVIOUS
  <2>13. PICK n2 : n2 = nodes'
    OBVIOUS
  <2>14. Answered(q2, jobs, j, acct, last, ends)
    BY <1>2, <1>9, <1>10, <1>6, <1>7, <2>8, <2>10, <2>12 DEF Answered
  <2>15. /\ TreeFits(n2, root) /\ ListingsFit(n2, q2, acct, on)
         /\ OwnItems(nodes, j.acct) => OwnItems(n2, j.acct)
    <3>1. f \in [Page(j) \cap Containers -> Handles \ DOMAIN nodes]
      BY <2>1, <2>4
    <3>2. Shown(n2, nodes, j, f, jobs, last, ends) /\ ListingsFit(nodes, jobs, acct, on)
      BY <1>3, <2>9, <2>10, <2>11, <2>13
    <3> QED
      BY <1>1, <1>3, <1>4, <1>13, <2>14, <3>1, <3>2, AppendKeeps
  <2> QED
    BY <1>3, <2>10, <2>11, <2>12, <2>13, <2>15
<1>14. ~crossed' => config' = active'
  <2>1. ~crossed => config = active
    BY HeadOver
  <2> QED
    BY <2>1 DEF SameSession
<1>15. /\ TreeFits(nodes', root) /\ ListingsFit(nodes', jobs', config, connected)
       /\ ~crossed => OwnItems(nodes', config)
  BY <1>12, <1>13
<1>16. Settled(root, q)
  BY <1>3, <1>11, <1>14, <1>15 DEF Settled
<1> QED
  BY <1>2, <1>15, <1>16, ListedKeeps

\* The answer to a listing, whatever it is.
LEMMA HandleListNodeKeeps ==
  ASSUME BrowserInv, NEW res, HandleListNode(res)
  PROVE  BrowserInv'
<1>1. jobs # << >> /\ Head(jobs).kind = "ListNode" /\ SameSession
  BY DEF HandleListNode, Handle, session, SameSession
<1>2. ListingArrived \/ ListingFailed
  BY DEF HandleListNode
<1> QED
  BY <1>1, <1>2, ListingArrivedKeeps, ListingFailedKeeps

-----------------------------------------------------------------------------
(* The theorems *)

\* Some handle is the smallest.
LEMMA SmallestHandle ==
  \E h \in Handles : \A g \in Handles : h <= g
<1>1. IsWellFoundedOn(OpToRel(<, Nat), Nat)
  BY NatLessThanWellFounded
<1>2. PICK R : R = OpToRel(<, Nat)
  OBVIOUS
<1>3. Handles \subseteq Nat /\ Handles # {}
  BY HandlesAssumption
<1>4. PICK h \in Handles : \A g \in Handles : ~(<<g, h>> \in R)
  BY <1>1, <1>2, <1>3, WFMin
<1>5. \A g, k \in Nat : g < k => <<g, k>> \in R
  BY <1>2 DEF OpToRel
<1>6. ASSUME NEW g \in Handles PROVE h <= g
  <2>1. g \in Nat /\ h \in Nat /\ <<g, h>> \notin R
    BY <1>3, <1>4
  <2>2. ~(g < h)
    BY <1>5, <2>1
  <2> QED
    BY <2>1, <2>2
<1> QED
  BY <1>6

\* The program starts in such a state.
LEMMA InitHolds == Init => BrowserInv
<1> SUFFICES ASSUME Init PROVE BrowserInv
  OBVIOUS
<1>1. /\ jobs = << >> /\ opens = << >> /\ docs = << >> /\ profiles = Profiles
      /\ active \in Profiles \cup {NoProfile} /\ config = NoProfile /\ connected = FALSE
      /\ label = IF active = NoProfile THEN "noProfile" ELSE "disconnected"
      /\ nodes = NewRoot(root, label) /\ dialog = FALSE /\ crossed = FALSE
  BY DEF Init
<1>2. root \in Handles
  BY SmallestHandle DEF Init
<1>3. SessionInv
  BY <1>1, LabelFacts DEF SessionInv, Accounts
<1>4. TreeInv
  BY <1>1, <1>2, NewRootFits DEF TreeInv
<1>5. QueueInv
  BY <1>1 DEF QueueInv, QueueFits, OpensFit, OwnJobs
<1>6. DocsFit(docs)
  BY <1>1 DEF DocsFit
<1> QED
  BY <1>3, <1>4, <1>5, <1>6 DEF BrowserInv

\* Nothing happens.
LEMMA StutterKeeps ==
  ASSUME BrowserInv, UNCHANGED vars
  PROVE  BrowserInv'
BY DEF vars, session, tree, BrowserInv, SessionInv, TreeInv, QueueInv

\* Every step keeps the invariant.
LEMMA NextKeeps ==
  ASSUME BrowserInv, [Next]_vars
  PROVE  BrowserInv'
<1>1. CASE OnProfileSelectionChanged
  BY <1>1, SelectKeeps
<1>2. CASE Disconnect
  BY <1>2, DisconnectKeeps
<1>3. CASE ConnectActiveProfile
  BY <1>3, ConnectActiveProfileKeeps
<1>4. CASE RefreshTree
  BY <1>4, RefreshTreeKeeps
<1>5. CASE CmdProfiles
  BY <1>5, CmdProfilesKeeps
<1>6. CASE CloseProfiles
  BY <1>6, CloseProfilesKeeps
<1>7. ASSUME NEW p \in Profiles, RemoveProfile(p) PROVE BrowserInv'
  BY <1>7, RemoveProfileKeeps
<1>8. ASSUME NEW p \in Profiles, AddProfile(p) PROVE BrowserInv'
  BY <1>8, AddProfileKeeps
<1>9. ASSUME NEW p \in Profiles, ActivateProfile(p) PROVE BrowserInv'
  BY <1>9, ActivateProfileKeeps
<1>10. ASSUME NEW p \in Profiles, ActivateUnreadable(p) PROVE BrowserInv'
  BY <1>10, ActivateUnreadableKeeps
<1>11. ASSUME NEW h \in Handles, Expand(h) PROVE BrowserInv'
  BY <1>11, ExpandKeeps
<1>12. ASSUME NEW h \in Handles, RefreshItem(h) PROVE BrowserInv'
  BY <1>12, RefreshItemKeeps
<1>13. ASSUME NEW h \in Handles, NEW o \in Objects, OpenObject(h, o) PROVE BrowserInv'
  BY <1>13, OpenObjectKeeps
<1>14. ASSUME NEW c \in Containers, RefreshParentOfKey(c) PROVE BrowserInv'
  BY <1>14, RefreshParentOfKeyKeeps
<1>15. ASSUME NEW res \in Results, Completion(res) PROVE BrowserInv'
  <2>1. HandleConnectTest(res) \/ HandleListBuckets(res) \/ HandleListNode(res)
    BY <1>15 DEF Completion
  <2> QED
    BY <2>1, HandleConnectTestKeeps, HandleListBucketsKeeps, HandleListNodeKeeps
<1>16. ASSUME NEW res \in Results, HandleDownloadOpen(res) PROVE BrowserInv'
  BY <1>16, HandleDownloadOpenKeeps
<1>17. CASE UNCHANGED vars
  BY <1>17, StutterKeeps
<1> QED
  BY <1>1, <1>2, <1>3, <1>4, <1>5, <1>6, <1>7, <1>8, <1>9, <1>11, <1>12, <1>13, <1>14,
     <1>15, <1>16, <1>17, <1>10 DEF Next

\* The session, the tree, the jobs and the documents agree at any time.
THEOREM BrowserInvariant == Spec => []BrowserInv
<1>1. Init => BrowserInv
  BY InitHolds
<1>2. BrowserInv /\ [Next]_vars => BrowserInv'
  BY NextKeeps
<1> QED
  BY <1>1, <1>2, PTL DEF Spec

\* The tree is one whatever completions find: every item hangs below live ones
\* up to the root (DockPanel::AppendListing, RemoveChildren, ResetRoot).
THEOREM BrowserTypes == Spec => []TypeOK
<1>1. BrowserInv => TypeOK
  <2> SUFFICES ASSUME BrowserInv PROVE TypeOK
    OBVIOUS
  <2>1. /\ DOMAIN nodes \subseteq Handles /\ root \in DOMAIN nodes
        /\ \A h \in DOMAIN nodes : /\ nodes[h] \in Items /\ nodes[h].above \subseteq DOMAIN nodes
                                   /\ h # root => root \in nodes[h].above
    BY DEF BrowserInv, TreeInv, TreeFits, IsRoot, ItemFits
  <2>2. jobs \in Seq(Jobs)
    BY DEF BrowserInv, QueueInv, QueueFits
  <2>3. \A i \in DOMAIN opens : opens[i].acct \in Accounts
    <3>1. opens \in Seq(Opens)
      BY DEF BrowserInv, QueueInv, OpensFit
    <3>2. \A i \in DOMAIN opens : opens[i] \in Opens
      BY <3>1
    <3> QED
      BY <3>2 DEF Opens
  <2>4. \A p \in DOMAIN docs : p \in Accounts \X Objects /\ docs[p].profile \in Accounts
    BY DEF BrowserInv, DocsFit
  <2> QED
    BY <2>1, <2>2, <2>3, <2>4 DEF TypeOK, BrowserInv, SessionInv
<1> QED
  BY <1>1, BrowserInvariant, PTL

\* A container that counts as loaded shows each row of its listing exactly once,
\* all of one account, up to the last page asked for, or up to the page with which
\* the service ended the listing by naming no token - although pages, failures,
\* refreshes and reused handles may come in any order (DockPanel::AppendListing,
\* FinishNode, RequestChildren), unless two listings met on the item.
THEOREM LoadedItemsAreComplete == Spec => []LoadedNodeShowsItsContent
<1>1. BrowserInv => LoadedNodeShowsItsContent
  <2> SUFFICES ASSUME BrowserInv, NEW h \in DOMAIN nodes, nodes[h].kind # "Root",
                      nodes[h].loaded, ~nodes[h].mixed
               PROVE  /\ \A o \in Objects :
                           nodes[h].rows[o] =
                             IF o \in Visible(nodes[h].name, nodes[h].ends) THEN 1 ELSE 0
                      /\ \A c \in Containers :
                           Cardinality({g \in Children(nodes, h) : nodes[g].name = c})
                             = IF c \in Visible(nodes[h].name, nodes[h].ends) THEN 1 ELSE 0
                      /\ Cardinality(nodes[h].from) = 1
    BY DEF LoadedNodeShowsItsContent
  <2>1. ListingFits(nodes, jobs, h, config, connected)
    BY DEF BrowserInv, TreeInv, ListingsFit
  <2>2. Complete(nodes, h)
    BY <2>1 DEF ListingFits
  <2>3. /\ Shows(nodes, h, Visible(nodes[h].name, nodes[h].ends))
        /\ \E a \in Accounts : nodes[h].from = {a}
    BY <2>2 DEF Complete
  <2> QED
    BY <2>3, FS_Singleton DEF Shows, Named, Times
<1> QED
  BY <1>1, BrowserInvariant, PTL

\* As long as no session met the jobs of another one, a live session is that of
\* the active profile, all that the tree shows is of its account, and a document is
\* recorded under the profile whose object it is (ConnectActiveProfile,
\* HandleTransferEventUi).
THEOREM SessionsStayApart == Spec => []SessionsDoNotMix
<1>1. BrowserInv => SessionsDoNotMix
  <2> SUFFICES ASSUME BrowserInv PROVE SessionsDoNotMix
    OBVIOUS
  <2>1. SessionIsTheActiveProfile
    BY DEF BrowserInv, SessionInv, SessionIsTheActiveProfile
  <2>2. TreeIsOfTheSession
    BY DEF BrowserInv, TreeInv, OwnItems, OwnItem, TreeIsOfTheSession
  <2>3. DocumentsAreOfTheirAccount
    BY DEF BrowserInv, DocsFit, DocumentsAreOfTheirAccount
  <2> QED
    BY <2>1, <2>2, <2>3 DEF SessionsDoNotMix
<1> QED
  BY <1>1, BrowserInvariant, PTL
=============================================================================
