------------------------------- MODULE BulkOps -------------------------------
(***************************************************************************)
(* What the user asks of objects in the tree (NppS3Plugin.cpp): deleting   *)
(* and downloading whole prefixes, cleaning up incomplete uploads,         *)
(* renaming, and the operations that take one job.  Each is a chain of     *)
(* jobs: the completion of a job enqueues the next ones, with the session  *)
(* that is current at that moment, and a BulkState counts down to the      *)
(* summary.                                                                *)
(*                                                                         *)
(* A key is a number, its place in a listing; Below are those under the    *)
(* prefix.  A session is an account; every account has a bucket with the   *)
(* same name.  A job carries the action that m_pending keeps for it.  A    *)
(* lane executes its jobs in the order of their ids and posts each         *)
(* outcome; the two lanes are not ordered.  ShowError opens a modal box on *)
(* some errors, and completions are dispatched behind it.  So they are     *)
(* behind the dialog in which a command of the tree's menu asks for        *)
(* confirmation or a name: they may remove the item it was chosen on,      *)
(* whose NodeData the command goes on to read.                             *)
(***************************************************************************)
EXTENDS Naturals, Sequences, FiniteSets

CONSTANTS Accounts,    \* profiles whose endpoint has the bucket
          NoAccount,   \* the empty S3Config
          Below,       \* keys under the prefix
          Folders,     \* those of them that are folder markers
          Outside,     \* a key that is not under the prefix
          Uploads,     \* incomplete multipart uploads under the prefix
          PageSize,    \* keys per page of a listing
          Menu,        \* what the user may ask for
          MaxAsks,     \* bound: requests of the user
          MaxSwitches  \* bound: connections made

Asks == {"DeletePrefixPage", "DownloadPrefixPage", "ListIncompleteUploads", "RenameCopy",
         "DeleteOne", "CreateObject", "UploadManual", "DownloadAs", "PropertiesHead"}

ASSUME KeysAssumption ==
  /\ Below \subseteq Nat \ {0} /\ Outside \in Nat \ {0} /\ Outside \notin Below
  /\ IsFiniteSet(Below) /\ Folders \subseteq Below
ASSUME UploadsAssumption == Uploads \subseteq Nat /\ IsFiniteSet(Uploads)
ASSUME SessionAssumption == NoAccount \notin Accounts
ASSUME BulkBoundsAssumption ==
  /\ PageSize \in Nat \ {0} /\ MaxAsks \in Nat /\ MaxSwitches \in Nat /\ Menu \subseteq Asks

Keys == Below \cup {Outside}
Pages == {"DeletePrefixPage", "DownloadPrefixPage", "ListIncompleteUploads"}
Items == {"DownloadPrefixItem", "AbortIncompleteUpload"}
Deletes == {"DeletePrefixItem", "RenameDelete", "DeleteOne"}
Kinds == Asks \cup Items \cup Deletes
\* What may be listed instead of the prefix: nothing, it, others, everything.
Scopes == {{}, Below, {Outside}, Keys}
BulkKinds == {"FolderDownload", "AbortUploads"}
Lane(kind) == IF kind \in {"DownloadPrefixItem", "DownloadAs", "UploadManual"} THEN 1 ELSE 0
Results == {"Completed", "Cancelled", "Failed", "Denied"}

VARIABLES
  config,     \* m_activeConfig
  connected,  \* m_connected
  objects,    \* the keys each account holds
  incomplete, \* the uploads each account holds
  journal,    \* the entries <<account, upload>> of the upload journal
  jobs,       \* jobs enqueued and not handled yet, with their actions
  nextId,     \* TransferManager::m_nextId
  bulks,      \* the BulkStates
  boxes,      \* message boxes on screen, each with the bulk its handler goes
              \* on with, or 0
  dialog,     \* the dialog of a command, with the key of its item
  asks, switches,
  \* Read by properties only:
  asked,      \* <<account, key>> whose deletion was confirmed, or whose copy
              \* was answered with success
  misnamed,   \* <<account, key>> that a command named because its item was
              \* removed behind its dialog
  gone,       \* <<account, key>> that were deleted, or left out by a listing
              \* that ended early
  switched    \* the session was changed since the user last asked for something

storeVars == <<objects, incomplete, journal>>
sessionVars == <<config, connected, switches, switched>>
vars == <<sessionVars, storeVars, jobs, nextId, bulks, boxes, dialog, asks, asked,
          misnamed, gone>>

NoDialog == [kind |-> "none", key |-> 0, freed |-> FALSE]

Init ==
  /\ config \in Accounts /\ connected = TRUE
  /\ objects = [a \in Accounts |-> Below]
  /\ incomplete = [a \in Accounts |-> Uploads]
  /\ journal \in SUBSET (Accounts \X Uploads)
  /\ jobs = {} /\ nextId = 1
  /\ bulks = << >> /\ boxes = << >> /\ dialog = NoDialog
  /\ asks = 0 /\ switches = 0
  /\ asked = {} /\ misnamed = {} /\ gone = {} /\ switched = FALSE

-----------------------------------------------------------------------------
(* Jobs *)

Job(id, kind, key, dst, bulk) ==
  [id |-> id, kind |-> kind, acct |-> config, key |-> key, dst |-> dst, bulk |-> bulk,
   scope |-> Below, status |-> "queued", page |-> {}, more |-> FALSE]

\* One job of a kind for each of the keys, in their order.
JobsFor(kind, keys, bulk) ==
  {Job(nextId + Cardinality({q \in keys : q < k}), kind, k, 0, bulk) : k \in keys}

\* The next page of a listing follows the items of this one.
NextPage(j, items) == {[j EXCEPT !.id = nextId + Cardinality(items), !.acct = config,
                                 !.key = CHOOSE k \in j.page : \A q \in j.page : q <= k,
                                 !.status = "queued", !.page = {}, !.more = FALSE]}

Page(acct, token, scope) ==
  LET rest == {k \in objects[acct] \cap scope : k > token}
  IN  {k \in rest : Cardinality({q \in rest : q < k}) < PageSize}

\* What a request does at the service; a listing may leave keys out.
Apply(j, left) ==
  /\ objects' = CASE j.kind \in Deletes -> [objects EXCEPT ![j.acct] = @ \ {j.key}]
                  [] j.kind = "RenameCopy" -> [objects EXCEPT ![j.acct] = @ \cup {j.dst}]
                  [] j.kind \in {"CreateObject", "UploadManual"} ->
                       [objects EXCEPT ![j.acct] = @ \cup {j.key}]
                  [] OTHER -> objects
  /\ incomplete' = IF j.kind = "AbortIncompleteUpload"
                   THEN [incomplete EXCEPT ![j.acct] = @ \ {j.key}] ELSE incomplete
  /\ gone' = gone \cup ({j.acct} \X (left \cup IF j.kind \in Deletes THEN {j.key} ELSE {}))

\* The service can do it: the account exists, and what is read is there.
Possible(j) ==
  /\ j.acct # NoAccount
  /\ j.kind \in {"RenameCopy", "DownloadPrefixItem", "DownloadAs", "PropertiesHead"}
       => j.key \in objects[j.acct]
  /\ j.kind = "AbortIncompleteUpload" => j.key \in incomplete[j.acct]

Listing(j) ==
  CASE j.kind = "ListIncompleteUploads" -> incomplete[j.acct]
    [] j.kind \in {"DeletePrefixPage", "DownloadPrefixPage"} -> Page(j.acct, j.key, j.scope)
    [] OTHER -> {}

\* The keys that follow the page.
Unlisted(j) ==
  IF j.kind \in {"DeletePrefixPage", "DownloadPrefixPage"}
  THEN {k \in objects[j.acct] \cap j.scope : k > j.key /\ k \notin Listing(j)} ELSE {}

\* The service says with a page whether others follow, and where they start:
\* without that token the listing ends.  A copy that was answered 200 may not
\* have been made: only an error in the body is noticed, not that it is empty.
Succeed(j) ==
  /\ Possible(j)
  /\ \E token \in BOOLEAN :
       /\ jobs' = (jobs \ {j}) \cup {[j EXCEPT
            !.status = "Completed", !.page = Listing(j), !.more = token /\ Unlisted(j) # {}]}
       /\ \/ Apply(j, IF token THEN {} ELSE Unlisted(j))
          \/ j.kind = "RenameCopy" /\ UNCHANGED <<objects, incomplete, gone>>
  /\ asked' = IF j.kind = "RenameCopy" THEN asked \cup {<<j.acct, j.key>>} ELSE asked

\* A request may fail or be cancelled before or after it took effect.
NotSucceed(j) ==
  /\ \E r \in Results \ {"Completed"} :
       /\ jobs' = (jobs \ {j}) \cup {[j EXCEPT !.status = r]}
       /\ \/ UNCHANGED <<objects, incomplete, gone>>
          \/ r # "Denied" /\ Possible(j) /\ Apply(j, {})
  /\ UNCHANGED asked

Execute(lane) ==
  \E j \in jobs :
    /\ Lane(j.kind) = lane /\ j.status = "queued"
    /\ \A i \in jobs : Lane(i.kind) = lane /\ i.status = "queued" => j.id <= i.id
    /\ Succeed(j) \/ NotSucceed(j)
    /\ UNCHANGED <<sessionVars, journal, nextId, bulks, boxes, dialog, asks, misnamed>>

-----------------------------------------------------------------------------
(* Completions, handled on the UI thread *)

Add(new) == nextId' = nextId + Cardinality(new)
Replace(j, new) == jobs' = (jobs \ {j}) \cup new /\ Add(new)

\* ShowError: after some errors a box stays until the user closes it, and then
\* the handler goes on with the bulk, if there is one.
Show(j, bulk) == boxes' = IF j.status = "Denied" THEN Append(boxes, bulk) ELSE boxes

\* RefreshParentOfKey, or a reset of the tree: the item of the dialog may be
\* among those that are removed, and its NodeData is freed.
RemoveItems ==
  dialog' \in {dialog} \cup IF dialog = NoDialog THEN {} ELSE {[dialog EXCEPT !.freed = TRUE]}

\* The completions with which a part of the tree is read again.
Refreshes(j) ==
  /\ j.status = "Completed"
  /\ \/ j.kind \in {"CreateObject", "UploadManual", "RenameDelete", "DeleteOne"}
     \/ j.kind = "DeletePrefixPage" /\ ~j.more

\* Fault: the summary does not wait for the listing.
FinishBulkEarly(b) == IF b.pending > 0 THEN b ELSE [b EXCEPT !.reports = @ + 1]

\* The summary is due when the listing is over and nothing is pending.
FinishBulkIfDone(b) ==
  IF b.listing \/ b.pending > 0 THEN b ELSE [b EXCEPT !.reports = @ + 1]

HandleDeletePrefixPage(j) ==
  /\ j.kind = "DeletePrefixPage"
  /\ IF j.status = "Completed"
     THEN LET items == JobsFor("DeletePrefixItem", j.page, 0)
          IN  Replace(j, items \cup IF j.more THEN NextPage(j, items) ELSE {}) /\ UNCHANGED boxes
     ELSE Replace(j, {}) /\ Show(j, 0)
  /\ UNCHANGED <<journal, bulks>>

\* EnsureParentDirs makes every directory down to a file, or fails at one: any
\* of the files may be left without its directory.
Unplaceable(files) == SUBSET files

\* Folder markers become directories; a file whose directory cannot be made
\* counts as failed at once.
ListedForDownload(j, b) ==
  /\ j.status = "Completed"
  /\ \E bad \in Unplaceable(j.page \ Folders) :
       LET files == (j.page \ Folders) \ bad
           items == JobsFor("DownloadPrefixItem", files, j.bulk)
           counted == [b EXCEPT !.failed = @ + Cardinality(bad),
                                !.pending = @ + Cardinality(files)]
       IN  /\ Replace(j, items \cup IF j.more THEN NextPage(j, items) ELSE {})
           /\ bulks' = [bulks EXCEPT ![j.bulk] =
                IF j.more THEN [counted EXCEPT !.whole = @ /\ config = b.acct]
                          ELSE FinishBulkIfDone([counted EXCEPT !.listing = FALSE])]
  /\ UNCHANGED boxes

\* Fault: a failed listing ends without a summary.
NotListedSilently(j, b) ==
  /\ j.status # "Completed"
  /\ Replace(j, {})
  /\ Show(j, 0)
  /\ bulks' = [bulks EXCEPT ![j.bulk] = [b EXCEPT !.listing = FALSE, !.whole = FALSE]]

\* The error is shown before the summary is considered.
NotListedForDownload(j, b) ==
  LET ended == [b EXCEPT !.listing = FALSE, !.whole = FALSE]
  IN  /\ j.status # "Completed"
      /\ Replace(j, {})
      /\ Show(j, j.bulk)
      /\ bulks' = [bulks EXCEPT ![j.bulk] =
           IF j.status = "Denied" THEN [ended EXCEPT !.boxed = TRUE] ELSE FinishBulkIfDone(ended)]

HandleDownloadPrefixPage(j) ==
  /\ j.kind = "DownloadPrefixPage"
  /\ ListedForDownload(j, bulks[j.bulk]) \/ NotListedForDownload(j, bulks[j.bulk])
  /\ UNCHANGED journal

\* Fault: a cancelled download does not count down.
HandleDownloadSkipsCancelled(j) ==
  /\ j.kind = "DownloadPrefixItem"
  /\ Replace(j, {})
  /\ bulks' = [bulks EXCEPT ![j.bulk] =
       CASE j.status = "Completed" -> FinishBulkIfDone([@ EXCEPT !.done = @ + 1, !.pending = @ - 1])
         [] j.status = "Cancelled" -> @
         [] OTHER -> FinishBulkIfDone([@ EXCEPT !.failed = @ + 1, !.pending = @ - 1])]
  /\ UNCHANGED <<journal, boxes>>

HandleDownloadPrefixItem(j) ==
  /\ j.kind = "DownloadPrefixItem"
  /\ Replace(j, {})
  /\ LET b == bulks[j.bulk]
     IN  bulks' = [bulks EXCEPT ![j.bulk] = FinishBulkIfDone(
           IF j.status = "Completed" THEN [b EXCEPT !.done = @ + 1, !.pending = @ - 1]
                                     ELSE [b EXCEPT !.failed = @ + 1, !.pending = @ - 1])]
  /\ UNCHANGED <<journal, boxes>>

\* Uploads that the journal has named already are not claimed again.
HandleListIncompleteUploads(j) ==
  /\ j.kind = "ListIncompleteUploads"
  /\ LET b == bulks[j.bulk]
         new == IF j.status = "Completed" THEN j.page \ b.claimed ELSE {}
     IN  /\ Replace(j, JobsFor("AbortIncompleteUpload", new, j.bulk))
         /\ bulks' = [bulks EXCEPT ![j.bulk] = FinishBulkIfDone(
              [b EXCEPT !.claimed = @ \cup new, !.pending = @ + Cardinality(new),
                        !.listing = FALSE])]
  /\ UNCHANGED <<journal, boxes>>

\* Cancelled aborts are in neither count; the entry is looked up in the scope
\* of the current session.
HandleAbortIncompleteUpload(j) ==
  /\ j.kind = "AbortIncompleteUpload"
  /\ Replace(j, {})
  /\ journal' = IF j.status = "Completed" THEN journal \ {<<config, j.key>>} ELSE journal
  /\ LET b == bulks[j.bulk]
     IN  bulks' = [bulks EXCEPT ![j.bulk] = FinishBulkIfDone(
           CASE j.status = "Completed" -> [b EXCEPT !.done = @ + 1, !.pending = @ - 1]
             [] j.status = "Cancelled" -> [b EXCEPT !.pending = @ - 1]
             [] OTHER -> [b EXCEPT !.failed = @ + 1, !.pending = @ - 1])]
  /\ UNCHANGED boxes

\* Fault: the source is deleted whatever became of the copy.
HandleRenameCopyUnchecked(j) ==
  /\ j.kind = "RenameCopy"
  /\ Replace(j, {Job(nextId, "RenameDelete", j.key, j.dst, 0)})
  /\ Show(j, 0)
  /\ UNCHANGED <<journal, bulks>>

HandleRenameCopy(j) ==
  /\ j.kind = "RenameCopy"
  /\ Replace(j, IF j.status = "Completed"
                THEN {Job(nextId, "RenameDelete", j.key, j.dst, 0)} ELSE {})
  /\ Show(j, 0)
  /\ UNCHANGED <<journal, bulks>>

\* The last job of a request logs or shows its error.
Finished(j) == Replace(j, {}) /\ Show(j, 0) /\ UNCHANGED <<journal, bulks>>

HandleDeleted(j) == j.kind \in {"RenameDelete", "DeleteOne"} /\ Finished(j)
HandleLast(j) ==
  j.kind \in {"DeletePrefixItem", "CreateObject", "UploadManual", "DownloadAs"} /\ Finished(j)

\* Properties are shown in a box.
HandlePropertiesHead(j) ==
  /\ j.kind = "PropertiesHead"
  /\ Replace(j, {})
  /\ boxes' = IF j.status \in {"Completed", "Denied"} THEN Append(boxes, 0) ELSE boxes
  /\ UNCHANGED <<journal, bulks>>

\* The completions of a lane are handled in the order in which it posted them.
HandleTransferEventUi ==
  /\ \E j \in jobs :
       /\ j.status # "queued"
       /\ \A i \in jobs : Lane(i.kind) = Lane(j.kind) => j.id <= i.id
       /\ \/ HandleDeletePrefixPage(j) \/ HandleDownloadPrefixPage(j)
          \/ HandleDownloadPrefixItem(j) \/ HandleListIncompleteUploads(j)
          \/ HandleAbortIncompleteUpload(j) \/ HandleRenameCopy(j) \/ HandleDeleted(j)
          \/ HandlePropertiesHead(j) \/ HandleLast(j)
       /\ IF Refreshes(j) THEN RemoveItems ELSE UNCHANGED dialog
  /\ UNCHANGED <<sessionVars, objects, incomplete, asks, asked, misnamed, gone>>

\* Boxes close from the last to the first, and their handlers go on.
CloseBox ==
  /\ boxes # << >>
  /\ boxes' = SubSeq(boxes, 1, Len(boxes) - 1)
  /\ LET b == boxes[Len(boxes)]
     IN  bulks' = IF b = 0 THEN bulks ELSE [bulks EXCEPT ![b] = FinishBulkIfDone(@)]
  /\ UNCHANGED <<sessionVars, storeVars, jobs, nextId, dialog, asks, asked, misnamed, gone>>

-----------------------------------------------------------------------------
(* The user *)

Request(kind) ==
  /\ kind \in Menu /\ asks < MaxAsks /\ asks' = asks + 1
  /\ boxes = << >> /\ dialog = NoDialog
  /\ switched' = (switched /\ jobs # {})
  /\ UNCHANGED <<config, connected, switches, storeVars, boxes, misnamed, gone>>

\* A command that is about one object shows or takes its key.
ItemsOf(kind) == IF kind \in {"DeleteOne", "RenameCopy"} THEN Keys ELSE {0}

\* The user chooses a command on an item, and its dialog opens.
Ask(kind) ==
  /\ connected /\ Request(kind)
  /\ \E k \in ItemsOf(kind) : dialog' = [kind |-> kind, key |-> k, freed |-> FALSE]
  /\ UNCHANGED <<jobs, nextId, bulks, asked>>

CloseDialog ==
  /\ dialog # NoDialog /\ boxes = << >>
  /\ dialog' = NoDialog
  /\ UNCHANGED <<sessionVars, storeVars, boxes, asks, gone>>

Decline == CloseDialog /\ UNCHANGED <<jobs, nextId, bulks, asked, misnamed>>

\* The user agrees, and the command goes on.
Confirm(kind) == dialog.kind = kind /\ CloseDialog

\* The key that is read from the item: any, if that was removed.
KeysRead == IF dialog.freed THEN Keys ELSE {dialog.key}

Enqueue(new) == jobs' = jobs \cup new /\ Add(new)

\* Fault: the aborts enqueued at once are not counted.
BulkStateUncounted(kind, claimed) ==
  [kind |-> kind, acct |-> config, listing |-> TRUE, pending |-> 0,
   done |-> 0, failed |-> 0, claimed |-> claimed, reports |-> 0, boxed |-> FALSE, whole |-> TRUE]

BulkState(kind, claimed) ==
  [kind |-> kind, acct |-> config, listing |-> TRUE, pending |-> Cardinality(claimed),
   done |-> 0, failed |-> 0, claimed |-> claimed, reports |-> 0, boxed |-> FALSE, whole |-> TRUE]

\* The prefix is read from the item after the dialog.
DeletePrefixAsk ==
  /\ Confirm("DeletePrefixPage")
  /\ \E scope \in IF dialog.freed THEN Scopes ELSE {Below} :
       /\ Enqueue({[Job(nextId, "DeletePrefixPage", 0, 0, 0) EXCEPT !.scope = scope]})
       /\ misnamed' = misnamed \cup ({config} \X (scope \ Below))
  /\ asked' = asked \cup ({config} \X Below)
  /\ UNCHANGED bulks

\* The prefix is read before the dialog.
DownloadPrefixAsk ==
  /\ Confirm("DownloadPrefixPage")
  /\ Enqueue({Job(nextId, "DownloadPrefixPage", 0, 0, Len(bulks) + 1)})
  /\ bulks' = Append(bulks, BulkState("FolderDownload", {}))
  /\ UNCHANGED <<asked, misnamed>>

\* Fault: the journal's uploads are aborted without being claimed.
AbortUploadsUnclaimed ==
  LET known == {u \in Uploads : \E a \in Accounts : <<a, u>> \in journal}
      items == JobsFor("AbortIncompleteUpload", known, Len(bulks) + 1)
  IN  /\ Confirm("ListIncompleteUploads")
      /\ Enqueue(items \cup {Job(nextId + Cardinality(items), "ListIncompleteUploads",
                                 0, 0, Len(bulks) + 1)})
      /\ bulks' = Append(bulks, [BulkState("AbortUploads", known) EXCEPT !.claimed = {}])
      /\ UNCHANGED <<asked, misnamed>>

\* First the journal's uploads, whichever account they belong to, then those
\* the service lists.  The prefix is read before the dialog.
AbortIncompleteUploadsAsk ==
  LET known == {u \in Uploads : \E a \in Accounts : <<a, u>> \in journal}
      items == JobsFor("AbortIncompleteUpload", known, Len(bulks) + 1)
  IN  /\ Confirm("ListIncompleteUploads")
      /\ Enqueue(items \cup {Job(nextId + Cardinality(items), "ListIncompleteUploads",
                                 0, 0, Len(bulks) + 1)})
      /\ bulks' = Append(bulks, BulkState("AbortUploads", known))
      /\ UNCHANGED <<asked, misnamed>>

RenameObjectAsk ==
  /\ Confirm("RenameCopy")
  /\ \E k \in KeysRead : \E d \in Keys \ {k} :
       /\ Enqueue({Job(nextId, "RenameCopy", k, d, 0)})
       /\ misnamed' = misnamed \cup ({config} \X ({k} \ {dialog.key}))
  /\ UNCHANGED <<bulks, asked>>

DeleteObjectAsk ==
  /\ Confirm("DeleteOne")
  /\ \E k \in KeysRead :
       /\ Enqueue({Job(nextId, "DeleteOne", k, 0, 0)})
       /\ misnamed' = misnamed \cup ({config} \X ({k} \ {dialog.key}))
  /\ asked' = asked \cup {<<config, dialog.key>>}
  /\ UNCHANGED bulks

\* NewFileAsk, NewFolderAsk, UploadFileHereAsk: the dialog names the object.
OneJobAsk ==
  /\ \E kind \in {"CreateObject", "UploadManual"}, k \in Keys :
       Confirm(kind) /\ Enqueue({Job(nextId, kind, k, 0, 0)})
  /\ UNCHANGED <<bulks, asked, misnamed>>

DownloadObjectAs ==
  /\ Confirm("DownloadAs")
  /\ \E k \in Keys : Enqueue({Job(nextId, "DownloadAs", k, 0, 0)})
  /\ UNCHANGED <<bulks, asked, misnamed>>

\* Without a dialog.
ShowProperties ==
  /\ connected /\ Request("PropertiesHead")
  /\ \E k \in Keys : Enqueue({Job(nextId, "PropertiesHead", k, 0, 0)})
  /\ UNCHANGED <<bulks, dialog, asked>>

\* What the upload dialog returns: any profile and any key.
UploadChoices == Accounts \X Keys

\* CmdUploadCurrent: to the profile chosen in the dialog, connected or not.
CmdUploadCurrent ==
  /\ Request("UploadManual")
  /\ \E c \in UploadChoices :
       Enqueue({[Job(nextId, "UploadManual", c[2], 0, 0) EXCEPT !.acct = c[1]]})
  /\ UNCHANGED <<bulks, dialog, asked>>

\* The user changes the session: disconnecting, choosing a profile, connecting.
Switch ==
  /\ boxes = << >> /\ dialog = NoDialog
  /\ \/ connected /\ config' = NoAccount /\ connected' = FALSE /\ UNCHANGED switches
     \/ connected /\ connected' = FALSE /\ UNCHANGED <<config, switches>>
     \/ /\ ~connected /\ config' \in Accounts /\ UNCHANGED connected
        /\ switches < MaxSwitches /\ switches' = switches + 1
  /\ switched' = (switched \/ config' # config)
  /\ UNCHANGED <<storeVars, jobs, nextId, bulks, boxes, dialog, asks, asked, misnamed, gone>>

\* A connection test ends, which may be neither the only nor the last one: the
\* tree is reset.
ConnectTest ==
  /\ config # NoAccount /\ connected' \in BOOLEAN
  /\ RemoveItems
  /\ UNCHANGED <<config, switches, switched, storeVars, jobs, nextId, bulks, boxes, asks, asked,
                 misnamed, gone>>

Next ==
  \/ \E lane \in {0, 1} : Execute(lane)
  \/ HandleTransferEventUi \/ CloseBox
  \/ (\E kind \in Menu \ {"PropertiesHead"} : Ask(kind)) \/ Decline
  \/ DeletePrefixAsk \/ DownloadPrefixAsk \/ AbortIncompleteUploadsAsk
  \/ RenameObjectAsk \/ DeleteObjectAsk \/ OneJobAsk \/ CmdUploadCurrent
  \/ DownloadObjectAs \/ ShowProperties
  \/ Switch \/ ConnectTest

\* The workers run, requests end, messages are dispatched, boxes are closed.
Fairness ==
  /\ \A lane \in {0, 1} : WF_vars(Execute(lane))
  /\ WF_vars(HandleTransferEventUi) /\ WF_vars(CloseBox)

Spec == Init /\ [][Next]_vars /\ Fairness

-----------------------------------------------------------------------------
(* Properties *)

JobType ==
  [id : Nat \ {0}, kind : Kinds, acct : Accounts \cup {NoAccount},
   key : Keys \cup Uploads \cup {0}, dst : Keys \cup {0}, bulk : Nat, scope : SUBSET Keys,
   status : Results \cup {"queued"}, page : SUBSET (Keys \cup Uploads), more : BOOLEAN]
DialogType ==
  {d \in [kind : Asks \cup {"none"}, key : Keys \cup {0}, freed : BOOLEAN] :
     d.kind # "none" => d.key \in ItemsOf(d.kind)}
BulkType ==
  [kind : BulkKinds, acct : Accounts \cup {NoAccount}, listing : BOOLEAN, pending : Nat,
   done : Nat, failed : Nat, claimed : SUBSET Uploads, reports : Nat, boxed : BOOLEAN,
   whole : BOOLEAN]

\* Types; in particular no count falls below zero.
TypeOK ==
  /\ config \in Accounts \cup {NoAccount} /\ connected \in BOOLEAN
  /\ objects \in [Accounts -> SUBSET Keys] /\ incomplete \in [Accounts -> SUBSET Uploads]
  /\ journal \subseteq Accounts \X Uploads
  /\ jobs \subseteq JobType /\ IsFiniteSet(jobs) /\ nextId \in Nat \ {0}
  /\ bulks \in Seq(BulkType) /\ boxes \in Seq(0 .. Len(bulks)) /\ dialog \in DialogType
  /\ asks \in 0 .. MaxAsks /\ switches \in 0 .. MaxSwitches
  /\ asked \subseteq Accounts \X Keys /\ misnamed \subseteq Accounts \X Keys
  /\ gone \subseteq Accounts \X Keys /\ switched \in BOOLEAN

JobsOf(b) == {j \in jobs : j.bulk = b /\ j.kind \in Items}
Listings(b) == {j \in jobs : j.bulk = b /\ j.kind \in Pages}

\* A bulk's counter is the number of its jobs that are queued, running or not
\* handled yet, and its listing flag says that a page of it is outstanding, so
\* the summary can be neither early nor missed (BulkState::pending, listing).
PendingCountsJobs ==
  \A b \in DOMAIN bulks :
    /\ bulks[b].pending = Cardinality(JobsOf(b))
    /\ bulks[b].listing <=> Listings(b) # {}

\* The summary of a bulk comes after its last job has been handled, and comes
\* once, except when an error box of its listing was open: the last item may
\* then report behind the box, and the listing reports again
\* (FinishBulkIfDone).
ReportIsComplete ==
  \A b \in DOMAIN bulks :
    bulks[b].reports > 0 =>
      /\ JobsOf(b) = {} /\ Listings(b) = {}
      /\ bulks[b].reports = 1 \/ bulks[b].boxed

\* The summary adds up.  A folder download whose pages were all listed counts
\* every file that was under the prefix all the time, as done or failed, unless
\* a listing ended before it, and none twice; a clean-up aborts no upload twice
\* although journal and service may both name it.
SummaryAddsUp ==
  \A b \in DOMAIN bulks :
    LET counted == bulks[b].done + bulks[b].failed
    IN  IF bulks[b].kind = "FolderDownload"
        THEN /\ counted <= Cardinality(Below \ Folders)
             /\ bulks[b].reports > 0 /\ bulks[b].whole =>
                  counted >= Cardinality({k \in Below \ Folders : <<bulks[b].acct, k>> \notin gone})
        ELSE counted + bulks[b].pending <= Cardinality(Uploads)

\* In a session that does not change, an object disappears only if the user
\* confirmed the deletion of its key or of its prefix, or if the service had
\* answered with success that it was copied: no failure, cancellation or lost
\* answer deletes anything else.  The one exception is a command whose item was
\* removed behind its dialog: what that names instead is misnamed.
NothingDeletedUnasked ==
  [][\A a \in Accounts : \A k \in objects[a] \ objects'[a] :
       switched \/ <<a, k>> \in asked \cup misnamed]_vars

\* Whatever the session does, an object is deleted by a rename only after it
\* was answered that it was copied ("Copy first; the source is deleted only
\* after the copy succeeds", RenameObjectAsk).  Checked with renames alone.
SourceDeletedAfterCopy ==
  [][\A a \in Accounts : \A k \in objects[a] \ objects'[a] : <<a, k>> \in asked]_vars

\* Every folder download and every clean-up reports in the end, whatever
\* becomes of its jobs (FinishBulkIfDone).
EveryBulkReports ==
  \A b \in 1 .. MaxAsks : b \in DOMAIN bulks ~> (b \in DOMAIN bulks /\ bulks[b].reports > 0)
=============================================================================
