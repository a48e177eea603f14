------------------------------- MODULE Browser -------------------------------
(***************************************************************************)
(* The session and the object tree (NppS3Plugin.cpp, DockPanel.cpp): which *)
(* profile is active, to what the plugin is connected, and the tree items  *)
(* that listings fill.  Connecting, listing and opening are jobs; the      *)
(* completions find the session and the tree as they are by then.          *)
(*                                                                         *)
(* An account is the id of its profile, and all accounts hold the same     *)
(* names.  A tree item is known by its handle, and the handle of a deleted *)
(* item may be given to a new one: what a call with a dead handle reaches  *)
(* is nothing or that new item.  Objects and placeholders take no handle   *)
(* here.  The control lane handles its jobs in order, with any outcome;    *)
(* only downloads run in the other lane.                                   *)
(***************************************************************************)
EXTENDS Naturals, Sequences, FiniteSets

CONSTANTS Profiles,       \* ids of profiles
          NoProfile,      \* no active profile; the account of an empty S3Config
          DefaultBucket,  \* profiles with a default bucket
          Handles,        \* tree handles
          Bucket,         \* the bucket that every account has
          Content,        \* the rows of each container, in listing order
          PageSize,       \* rows per listing page (1000 in the code)
          LastPage,       \* index of the last page asked for (100 in the code)
          MaxActs         \* bound: what the user does

Containers == DOMAIN Content
Rows == UNION {{Content[c][i] : i \in DOMAIN Content[c]} : c \in Containers}
Objects == Rows \ Containers

ASSUME ProfilesAssumption == NoProfile \notin Profiles /\ DefaultBucket \subseteq Profiles
ASSUME HandlesAssumption ==
  Handles \subseteq Nat \ {0} /\ IsFiniteSet(Handles) /\ Handles # {}
ASSUME ContentAssumption ==
  /\ Bucket \in Containers /\ Bucket \notin Rows
  /\ \A c \in Containers :
       /\ Content[c] \in Seq(Rows) /\ Len(Content[c]) > 0
       /\ \A i, k \in DOMAIN Content[c] : Content[c][i] = Content[c][k] => i = k
ASSUME BrowserBoundsAssumption ==
  PageSize \in Nat \ {0} /\ LastPage \in Nat /\ MaxActs \in Nat

Accounts == Profiles \cup {NoProfile}
Labels == {"noProfile", "disconnected", "connecting", "connected"}
Placeholders == {"none", "Loading", "Empty"}

VARIABLES
  profiles,  \* ProfileManager::m_profiles
  active,    \* activeProfileId
  config,    \* m_activeConfig
  connected, \* m_connected
  root,      \* m_root
  label,     \* what the root says
  nodes,     \* the NodeData of each live handle
  jobs,      \* the control lane
  opens,     \* the downloads of OpenObject
  docs,      \* m_documents: the profile recorded for a cache path, and the
             \* account its object came from (read by properties only)
  dialog,    \* the profiles dialog is open
  acts,
  \* Read by properties only:
  crossed    \* jobs of another session were outstanding when the session last
             \* changed, or the dialog changed the profile of a live session

session == <<profiles, active, config, connected, dialog, crossed>>
tree == <<root, label, nodes>>
vars == <<session, tree, jobs, opens, docs, acts>>

-----------------------------------------------------------------------------
(* Tree items.  `above` are the handles on the way to the root.  `mixed`: a  *)
(* listing started on the item while it had rows, or another listing for     *)
(* its handle was outstanding.  `ends`: the page with which the service      *)
(* ended the listing of a loaded item, or the last one asked for (both are   *)
(* read by properties only).                                                 *)

Refers(q, h) == \E i \in DOMAIN q : q[i].item = h

Item(kind, name, up, above, acct, mixed) ==
  [kind |-> kind, name |-> name, up |-> up, above |-> above, acct |-> acct,
   loaded |-> FALSE, loading |-> FALSE, expanded |-> FALSE, holder |-> "none",
   rows |-> [o \in Objects |-> 0], from |-> {}, ends |-> LastPage, mixed |-> mixed]

\* Handles for k new items: dead ones that a job still refers to, or others.
\* The others are all alike, so the smallest stand for them.
NewHandles(live, k) ==
  LET dead == Handles \ live
      plain == {h \in dead : ~Refers(jobs, h)}
  IN  {h \in dead : Refers(jobs, h)} \cup
      {h \in plain : Cardinality({g \in plain : g < h}) < k}

Children(n, h) == {g \in DOMAIN n : n[g].up = h}
HasRows(n, h) == Children(n, h) # {} \/ \E o \in Objects : n[h].rows[o] > 0

\* DockPanel::ResetRoot: everything goes, and the root is a new item.
NewRoot(h, text) ==
  [g \in {h} |-> [Item("Root", Bucket, 0, {}, NoProfile, Refers(jobs, h))
                    EXCEPT !.loaded = (text # "connected")]]
\* Fault: the handle of the old root is kept.
ResetRootKept(text) ==
  /\ label' = text /\ root' = root
  /\ \E h \in NewHandles({}, 1) : nodes' = NewRoot(h, text)

ResetRoot(text) ==
  /\ label' = text
  /\ root' \in NewHandles({}, 1)
  /\ nodes' = NewRoot(root', text)

AddBucket(n, r, h, acct) ==
  [g \in (DOMAIN n) \cup {h} |->
     IF g = h THEN Item("Bucket", Bucket, r, {r}, acct, Refers(jobs, h)) ELSE n[g]]

RemoveChildren(n, h) ==
  [g \in {g \in DOMAIN n : h \notin n[g].above} |->
     IF g = h THEN [n[g] EXCEPT !.loaded = FALSE, !.loading = FALSE, !.holder = "none",
                                !.rows = [o \in Objects |-> 0], !.from = {}]
              ELSE n[g]]

-----------------------------------------------------------------------------
(* Jobs *)

Job(kind, acct, item, name, page) ==
  [kind |-> kind, acct |-> acct, item |-> item, name |-> name, page |-> page]
ListNode(h, name, page) == Job("ListNode", config', h, name, page)

Requestable(n, h) ==
  /\ h \in DOMAIN n /\ n[h].kind \in {"Bucket", "Prefix"}
  /\ ~n[h].loading /\ connected'

\* RequestChildren on the items n, with q the jobs outstanding.
RequestChildren(n, h, q) ==
  IF Requestable(n, h)
  THEN /\ nodes' = [n EXCEPT ![h].loading = TRUE, ![h].holder = "Loading",
                             ![h].expanded = TRUE,
                             ![h].mixed = HasRows(n, h) \/ Refers(q, h)]
       /\ jobs' = Append(q, ListNode(h, n[h].name, 0))
  ELSE nodes' = n /\ jobs' = q

\* The part of RefreshTree for a connected session.
ListRoot(q) ==
  IF active' = NoProfile
  THEN UNCHANGED tree /\ jobs' = q
  ELSE /\ label' = "connected"
       /\ root' \in NewHandles({}, 1)
       /\ IF active' \in DefaultBucket
          THEN \E b \in NewHandles({root'}, 1) :
                 RequestChildren(AddBucket(NewRoot(root', label'), root', b, config'), b, q)
          ELSE /\ nodes' = [NewRoot(root', label') EXCEPT ![root'].holder = "Loading"]
               /\ jobs' = Append(q, Job("ListBucketsRoot", config', 0, Bucket, 0))

RefreshNode(h) ==
  RequestChildren(RemoveChildren(nodes, h), h, jobs)

-----------------------------------------------------------------------------
(* The session *)

\* A job that is outstanding belongs to another session than this one.
Crossing ==
  \/ \E i \in DOMAIN jobs : {jobs[i].acct} # {active', config'}
  \/ \E i \in DOMAIN opens : {opens[i].acct} # {active', config'}

UpdateTreeRoot ==
  ResetRoot(IF active' = NoProfile THEN "noProfile"
            ELSE IF connected' THEN "connected" ELSE "disconnected")

Init ==
  /\ jobs = << >> /\ opens = << >> /\ docs = << >>
  /\ profiles = Profiles
  /\ active \in Profiles \cup {NoProfile} /\ config = NoProfile /\ connected = FALSE
  /\ root = CHOOSE h \in Handles : \A g \in Handles : h <= g
  /\ label = IF active = NoProfile THEN "noProfile" ELSE "disconnected"
  /\ nodes = NewRoot(root, label)
  /\ dialog = FALSE /\ crossed = FALSE /\ acts = 0

\* Something that the user does; the panel answers only while the dialog is
\* closed.
Act == acts < MaxActs /\ acts' = acts + 1
Panel == ~dialog /\ Act

\* Fault: the session survives the selection of another profile.
OnProfileSelectionChangedOnly ==
  /\ Panel
  /\ active' \in profiles \ {active}
  /\ UNCHANGED <<profiles, config, connected, dialog, jobs, opens, docs>>
  /\ crossed' = Crossing
  /\ UpdateTreeRoot

OnProfileSelectionChanged ==
  /\ Panel
  /\ active' \in profiles \ {active}
  /\ connected' = FALSE
  /\ UNCHANGED <<profiles, config, dialog, jobs, opens, docs>>
  /\ crossed' = Crossing
  /\ UpdateTreeRoot

Disconnect ==
  /\ Panel /\ connected
  /\ connected' = FALSE /\ config' = NoProfile
  /\ UNCHANGED <<profiles, active, dialog, jobs, opens, docs>>
  /\ crossed' = Crossing
  /\ UpdateTreeRoot

\* The last part of ConnectActiveProfile.
Connect ==
  /\ config' = active'
  /\ ResetRoot("connecting")
  /\ jobs' = Append(jobs, Job("ConnectTest", config', 0, Bucket, 0))
  /\ crossed' = Crossing

ConnectActiveProfile ==
  /\ Panel /\ ~connected /\ active # NoProfile
  /\ UNCHANGED <<profiles, active, connected, dialog, opens, docs>>
  /\ Connect

RefreshTree ==
  /\ Panel /\ connected
  /\ UNCHANGED <<session, opens, docs>>
  /\ ListRoot(jobs)

-----------------------------------------------------------------------------
(* The profiles dialog: completions are dispatched while it is open. *)

CmdProfiles ==
  /\ Panel /\ dialog' = TRUE
  /\ UNCHANGED <<profiles, active, config, connected, crossed, tree, jobs, opens, docs>>

\* IDC_BTN_DELETE
RemoveProfile(p) ==
  /\ dialog /\ Act /\ p \in profiles
  /\ profiles' = profiles \ {p}
  /\ active' = IF active = p THEN NoProfile ELSE active
  /\ UNCHANGED <<config, connected, dialog, tree, jobs, opens, docs>>
  /\ crossed' = (crossed \/ (active' # active /\ (Crossing \/ connected)))

\* IDC_BTN_SAVE of a profile that is new
AddProfile(p) ==
  /\ dialog /\ Act /\ p \in Profiles \ profiles
  /\ profiles' = profiles \cup {p}
  /\ active' = IF active = NoProfile THEN p ELSE active
  /\ UNCHANGED <<config, connected, dialog, tree, jobs, opens, docs>>
  /\ crossed' = (crossed \/ (active' # active /\ (Crossing \/ connected)))

CloseProfiles ==
  /\ dialog /\ dialog' = FALSE /\ UNCHANGED acts
  /\ UNCHANGED <<profiles, active, config, connected, crossed, jobs, opens, docs>>
  /\ IF connected THEN UNCHANGED tree ELSE UpdateTreeRoot

\* LBN_DBLCLK: the dialog closes, and CmdProfiles connects anew.
ActivateProfile(p) ==
  /\ dialog /\ dialog' = FALSE /\ Act
  /\ p \in profiles /\ active' = p
  /\ connected' = FALSE
  /\ UNCHANGED <<profiles, opens, docs>>
  /\ Connect

\* The same when BuildConfig cannot read the profile's secret: a live session has
\* been disconnected by then, under the profile that was active.
ActivateUnreadable(p) ==
  /\ dialog /\ dialog' = FALSE /\ Act
  /\ p \in profiles /\ active' = p
  /\ connected' = FALSE
  /\ UNCHANGED <<profiles, jobs, opens, docs>>
  /\ IF connected
     THEN /\ config' = NoProfile
          /\ ResetRoot(IF active = NoProfile THEN "noProfile" ELSE "disconnected")
     ELSE UNCHANGED <<config, tree>>
  /\ crossed' = (Crossing \/ (~connected /\ crossed))

-----------------------------------------------------------------------------
(* The tree *)

\* TVN_ITEMEXPANDING
Expand(h) ==
  /\ Panel
  /\ h \in DOMAIN nodes /\ ~nodes[h].loaded
  /\ UNCHANGED <<session, root, label, opens, docs>>
  /\ Requestable(nodes, h) /\ RequestChildren(nodes, h, jobs)

\* IDM_CTX_REFRESH; the root offers it only while connected.
RefreshItem(h) ==
  /\ Panel
  /\ h \in DOMAIN nodes /\ (nodes[h].kind = "Root" => connected)
  /\ UNCHANGED <<session, root, label, opens, docs>>
  /\ RefreshNode(h)

\* FindBucketNode and FindChildPrefixNode, and the refresh that ends every
\* operation that changed an object.
ItemsOf(c) ==
  {h \in DOMAIN nodes : nodes[h].name = c /\ root \in nodes[h].above
                        /\ nodes[h].kind = IF c = Bucket THEN "Bucket" ELSE "Prefix"}
RefreshParentOfKey(c) ==
  /\ Act
  /\ UNCHANGED <<session, root, label, opens, docs>>
  /\ \E h \in ItemsOf(c) : RefreshNode(h)

OpenObject(h, o) ==
  /\ Panel
  /\ h \in DOMAIN nodes /\ nodes[h].rows[o] > 0
  /\ connected /\ active # NoProfile
  /\ opens' = Append(opens, [acct |-> config, path |-> <<active, o>>, crossed |-> crossed])
  /\ UNCHANGED <<session, tree, jobs, docs>>

-----------------------------------------------------------------------------
(* Completions *)

Results == {"ok", "failed", "cancelled"}
Possible(acct) == IF acct = NoProfile THEN Results \ {"ok"} ELSE Results

Handle(kind) == jobs # << >> /\ Head(jobs).kind = kind

HandleConnectTest(res) ==
  /\ Handle("ConnectTest") /\ res \in Possible(Head(jobs).acct)
  /\ connected' = CASE res = "ok" -> TRUE [] res = "failed" -> FALSE
                    [] OTHER -> connected
  /\ UNCHANGED <<profiles, active, config, dialog, crossed, opens, docs, acts>>
  /\ IF res = "ok" THEN ListRoot(Tail(jobs))
                   ELSE UpdateTreeRoot /\ jobs' = Tail(jobs)

\* A cancelled listing leaves the placeholder.
HandleListBuckets(res) ==
  /\ Handle("ListBucketsRoot") /\ res \in Possible(Head(jobs).acct)
  /\ jobs' = Tail(jobs)
  /\ UNCHANGED <<session, root, label, opens, docs, acts>>
  /\ CASE res = "ok" ->
            \E h \in NewHandles(DOMAIN nodes, 1) :
              nodes' = [AddBucket(nodes, root, h, Head(jobs).acct)
                          EXCEPT ![root].holder = "none", ![root].loaded = TRUE,
                                 ![root].loading = FALSE, ![root].expanded = TRUE]
       [] res = "failed" -> nodes' = [nodes EXCEPT ![root].holder = "Empty",
                                                   ![root].expanded = TRUE]
       [] OTHER -> UNCHANGED nodes

Page(j) == {Content[j.name][i] : i \in {i \in DOMAIN Content[j.name] :
                                          (i - 1) \div PageSize = j.page}}
\* Fault: the continuation token is ignored.
TruncatedNever(j) == FALSE
Truncated(j) == (j.page + 1) * PageSize < Len(Content[j.name])

\* AppendListing, with f the handles of the new containers.  A row that is
\* there twice or more counts as 2.
AppendListing(n, j, f) ==
  LET h == j.item
      new == {f[c] : c \in DOMAIN f}
      listed == [n[h] EXCEPT !.rows = [o \in Objects |->
                                  IF o \in Page(j) /\ @[o] < 2 THEN @[o] + 1 ELSE @[o]],
                             !.from = @ \cup {j.acct}, !.holder = "none"]
      item(g) == Item("Prefix", CHOOSE c \in DOMAIN f : f[c] = g, h,
                      n[h].above \cup {h}, j.acct, Refers(jobs, g))
  IN  [g \in (DOMAIN n) \cup new |->
         IF g \in new THEN item(g) ELSE IF g = h THEN listed ELSE n[g]]

FinishNode(n, h, ends) ==
  IF h \in DOMAIN n
  THEN [n EXCEPT ![h].loaded = TRUE, ![h].loading = FALSE, ![h].expanded = TRUE,
                 ![h].holder = IF HasRows(n, h) THEN "none" ELSE "Empty",
                 ![h].ends = ends]
  ELSE n

\* A page that says that others follow may come without the token with which
\* they would be asked for: it is the last one then.
Ends(j) == {LastPage} \cup IF Truncated(j) THEN {j.page} ELSE {}

ListingArrived ==
  LET j == Head(jobs)
      folders == Page(j) \cap Containers
  IN  \E ends \in Ends(j) :
        LET again == Truncated(j) /\ j.page < ends
            done(n) == IF again THEN n ELSE FinishNode(n, j.item, ends)
        IN  /\ IF j.item \notin DOMAIN nodes THEN UNCHANGED nodes
               ELSE \E f \in [folders -> NewHandles(DOMAIN nodes, Cardinality(folders))] :
                      /\ \A c, d \in folders : f[c] = f[d] => c = d
                      /\ nodes' = done(AppendListing(nodes, j, f))
            /\ jobs' = IF again THEN Append(Tail(jobs), ListNode(j.item, j.name, j.page + 1))
                                ELSE Tail(jobs)

\* Fault: the item stays loading.
ListingFailedStillLoading ==
  LET h == Head(jobs).item
      n == [nodes EXCEPT ![h].holder = "Empty", ![h].expanded = TRUE]
  IN  /\ nodes' = IF h \in DOMAIN nodes THEN n ELSE nodes
      /\ jobs' = Tail(jobs)

\* The placeholder expands the item: one that never was expanded asks for its
\* children again.
ListingFailed ==
  LET h == Head(jobs).item
      n == [nodes EXCEPT ![h].loading = FALSE, ![h].holder = "Empty", ![h].expanded = TRUE]
  IN  IF h \notin DOMAIN nodes THEN UNCHANGED nodes /\ jobs' = Tail(jobs)
      ELSE IF nodes[h].expanded \/ nodes[h].loaded THEN nodes' = n /\ jobs' = Tail(jobs)
      ELSE RequestChildren(n, h, Tail(jobs))

HandleListNode(res) ==
  /\ Handle("ListNode") /\ res \in Possible(Head(jobs).acct)
  /\ UNCHANGED <<session, root, label, opens, docs, acts>>
  /\ IF res = "ok" THEN ListingArrived ELSE ListingFailed

\* The document is registered under the profile that is active by then.
HandleDownloadOpen(res) ==
  /\ opens # << >> /\ res \in Possible(Head(opens).acct)
  /\ opens' = Tail(opens)
  /\ LET o == Head(opens)
         doc == [profile |-> active, acct |-> o.acct, crossed |-> crossed \/ o.crossed]
     IN  docs' = IF res = "ok"
                 THEN [p \in (DOMAIN docs) \cup {o.path} |-> IF p = o.path THEN doc ELSE docs[p]]
                 ELSE docs
  /\ UNCHANGED <<session, tree, jobs, acts>>

-----------------------------------------------------------------------------
Completion(res) ==
  HandleConnectTest(res) \/ HandleListBuckets(res) \/ HandleListNode(res)

Next ==
  \/ OnProfileSelectionChanged \/ Disconnect \/ ConnectActiveProfile \/ RefreshTree
  \/ CmdProfiles \/ CloseProfiles
  \/ \E p \in Profiles : RemoveProfile(p) \/ AddProfile(p) \/ ActivateProfile(p)
                           \/ ActivateUnreadable(p)
  \/ \E h \in Handles : Expand(h) \/ RefreshItem(h) \/ \E o \in Objects : OpenObject(h, o)
  \/ \E c \in Containers : RefreshParentOfKey(c)
  \/ \E res \in Results : Completion(res) \/ HandleDownloadOpen(res)

\* The worker of the control lane and the message loop go on.
Spec == Init /\ [][Next]_vars /\ WF_vars(\E res \in Results : Completion(res))

-----------------------------------------------------------------------------
(* Properties *)

Items == [kind : {"Root", "Bucket", "Prefix"}, name : Containers, up : Handles \cup {0},
          above : SUBSET Handles, acct : Accounts, loaded : BOOLEAN, loading : BOOLEAN,
          expanded : BOOLEAN, holder : Placeholders, rows : [Objects -> 0..2],
          from : SUBSET Accounts, ends : 0..LastPage, mixed : BOOLEAN]
Jobs == [kind : {"ConnectTest", "ListBucketsRoot", "ListNode"}, acct : Accounts,
         item : Handles \cup {0}, name : Containers, page : 0..LastPage]

\* The tree is one: its root is alive, and what is above an item is.
TypeOK ==
  /\ profiles \subseteq Profiles /\ active \in profiles \cup {NoProfile}
  /\ config \in Accounts /\ connected \in BOOLEAN
  /\ dialog \in BOOLEAN /\ crossed \in BOOLEAN /\ label \in Labels
  /\ DOMAIN nodes \subseteq Handles /\ root \in DOMAIN nodes
  /\ \A h \in DOMAIN nodes : /\ nodes[h] \in Items /\ nodes[h].above \subseteq DOMAIN nodes
                             /\ h # root => root \in nodes[h].above
  /\ jobs \in Seq(Jobs)
  /\ \A i \in DOMAIN opens : opens[i].acct \in Accounts
  /\ \A p \in DOMAIN docs : p \in Accounts \X Objects /\ docs[p].profile \in Accounts

\* A container that counts as loaded shows each row of the listing once and all
\* from one account, up to the last page asked for, or up to the page with which
\* the service ended the listing by naming no token - unless two listings met
\* on the item (a refresh or a reused handle while one was outstanding, or a
\* new attempt after a page had failed).
Visible(c, last) == {Content[c][i] : i \in {i \in DOMAIN Content[c] : i <= PageSize * (last + 1)}}
LoadedNodeShowsItsContent ==
  \A h \in DOMAIN nodes :
    nodes[h].kind # "Root" /\ nodes[h].loaded /\ ~nodes[h].mixed =>
      LET shown == Visible(nodes[h].name, nodes[h].ends)
      IN  /\ \A o \in Objects : nodes[h].rows[o] = IF o \in shown THEN 1 ELSE 0
          /\ \A c \in Containers : Cardinality({g \in Children(nodes, h) : nodes[g].name = c})
                                   = IF c \in shown THEN 1 ELSE 0
          /\ Cardinality(nodes[h].from) = 1

\* As long as no session met the jobs of another one: a live session is that of
\* the profile shown as active, everything in the tree comes from its account,
\* and a document is recorded under the profile whose object it is.
SessionIsTheActiveProfile == connected /\ ~crossed => config = active
TreeIsOfTheSession ==
  ~crossed => \A h \in DOMAIN nodes :
                nodes[h].kind # "Root" => nodes[h].acct = config /\ nodes[h].from \subseteq {config}
DocumentsAreOfTheirAccount ==
  \A p \in DOMAIN docs :
    ~docs[p].crossed => docs[p].profile = docs[p].acct /\ p[1] = docs[p].acct
SessionsDoNotMix ==
  SessionIsTheActiveProfile /\ TreeIsOfTheSession /\ DocumentsAreOfTheirAccount

\* An item does not stay loading for ever, whatever becomes of its listing, nor
\* the root connecting, unless the session met the jobs of another one (a
\* profile deleted while it connects leaves the root so).
WaitingEnds ==
  /\ \A h \in Handles :
       (h \in DOMAIN nodes /\ nodes[h].loading) ~> ~(h \in DOMAIN nodes /\ nodes[h].loading)
  /\ label = "connecting" ~> (label # "connecting" \/ crossed)
=============================================================================
