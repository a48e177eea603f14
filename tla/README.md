# A verification project for NppS3

NppS3 is a Notepad++ plugin that opens objects of S3-compatible storage, uploads
them when they are saved, and browses, transfers and deletes objects in the
background. This directory holds TLA+ models of the parts of it where order,
failure and concurrency decide whether it is correct, TLC runs that check them
on small instances, and proofs checked by TLAPS for all instances.

Run a check with `tlc -config X.cfg MCX`, a proof with `tlapm XProofs.tla`.
`PROJECT.json` maps every definition to the source lines it stands for.

## 1. The system

The plugin has one UI thread (Notepad++'s) and two worker threads. All state of
the plugin and of its panel belongs to the UI thread; the transfer queues belong
to a mutex; the upload journal has a mutex of its own.

| Component | State | Operations | Hard behaviour | Correct when |
|---|---|---|---|---|
| Transfer manager (`transfer/TransferManager`) | two queues, two active jobs, a flag per job, `m_started`, `m_stopping`, `m_nextId` | Start, Enqueue, Cancel, Shutdown; the worker loop | two workers on one condition variable, notification after unlock, cancellation and shutdown at any moment | no job lost, doubled or overtaken; every job gets one outcome; at most one more request per worker after the stop; Shutdown returns |
| Event delivery, transfer list (`NppS3Plugin::OnTransferEvent`, `HandleTransferEventUi`, `DockPanel`) | `m_pending`, messages posted to the panel, rows | post, dispatch, clear, create and destroy the panel | events from three threads; the action of a job is stored after the job may be over; messages dropped without a panel | each completion finds its action; rows end in a result |
| Save flow (`NppS3Plugin::HandleFileSaved` ...) | `SaveState` per file, the recorded ETag | save, compare ETags, ask, upload, download | saves during uploads, answers handled later than they were true, modal dialogs that dispatch messages, restarts | the last saved content is uploaded or the user knows; nobody's change is overwritten unasked; no false conflicts |
| Multipart uploader (`storage/MultipartUpload`) | the attempt, its parts | resolve, create, upload parts, complete | failures and lost answers at every request, edits of the file, stops at any moment, resume | an upload that succeeds is the file; progress is kept |
| Upload journal (`storage/UploadJournal`) | entries in memory and in Uploads.xml | Find, Begin, RecordPart, Remove | shared by worker and UI thread; silent write failures | never ahead of the service |
| Multipart planning | none | plan, offset, length | limits and rounding | parts tile the file within the limits |
| Document registry (`documents/`) | documents by normalised path, Documents.xml | Register, UpdateRemoteState, Remove, Load, Save | what is stale after a restart | agrees with the cache files |
| Bulk operations (`NppS3Plugin`) | `BulkState` counters | prefix delete and download, upload clean-up, rename | pages and items complete in any order; partial failure | counted once, reported once |
| Session (`NppS3Plugin`) | active profile, `m_connected`, `m_activeConfig` | connect, disconnect, select | switches with transfers in flight | a result is used in the session it was asked in |
| Object tree (`DockPanel`) | nodes, loading flags | list, page, refresh, reset | listings that arrive after the node is gone | each child once |
| Request client (`storage/S3Client`) | - | retries, temporary-file downloads | lost answers, cancellation in a back-off | only repeatable requests are repeated |
| Cache, profiles | files | path names, sweep, load and save | crashes between two steps of a replacement | no referenced file is removed |

The UI thread calls Enqueue and Cancel of the manager; the workers call the
storage client and, through it, uploader and journal; the manager calls
`OnTransferEvent` from workers and (Enqueue) from the UI thread; that posts a
message to the panel window, whose dispatch runs the completion handler, which
may enqueue the next job. On shutdown the UI thread blocks in the manager until
both workers have ended, and the messages still posted die with the panel.

Not modelled: signatures, hashing, XML, MIME types, URLs and texts (data
conversions, which the unit tests compare with published vectors), icons, menus
and logging, the host's headers and vendored code. WinHTTP and the Win32 file
calls appear as the possible outcomes of each call. Modelled in part: the layout
of the journal file, the construction of cache paths from keys, settings other
than the profiles, and the profiles dialog, whose test button posts from a thread
of its own to a dialog that may be closed by then.

## 2. Modules

| Module | Models | Built on |
|---|---|---|
| `TransferManager` | the transfer manager, one action per critical section | - |
| `JobLifecycle` | the abstract specification of the manager: what happens to a job, without threads | - |
| `PluginTransfers` | manager + event delivery + transfer list | extends `TransferManager` |
| `SaveFlow` | the save flow for one document | the lanes are FIFO, as `JobLifecycle` promises |
| `BulkOps` | what the user asks of objects: prefix delete and download, clean-up, rename, single jobs | FIFO lanes, as above |
| `Browser` | session, profiles dialog, object tree and its listings | FIFO control lane |
| `MultipartUpload` | uploader, journal, clean-up, service and crashes for one object | - |
| `MultipartPlan` | the arithmetic of parts and the upload loop | - |
| `RequestClient` | a download: request, body, retries, back-off, placing the file | - |
| `LocalStore` | downloads + cache + documents + profiles and secrets, over starts and crashes | extends `RequestClient` |
| `TransferManagerProofs`, `PluginTransfersProofs`, `MultipartPlanProofs`, `MultipartUploadProofs`, `SaveFlowProofs`, `BulkOpsProofs`, `BrowserProofs`, `LocalStoreProofs` | theorems | extend the modules they are about |
| `MC*` | constants for TLC | extend the module they instantiate |

Operators marked "Fault" are plausible bugs: each is a variant of the definition
that follows it, is used by no specification, and serves to show that a property
can fail.

### TransferManager

`queue`, `active`, `nextId`, `started`, `stopping` are the members of the same
names; `cancelled` and `op` are fields of Job; `worker` and `ui` are the
positions of the three threads; `outcome` records the Finished events and is
read by properties only. `Enqueue` is three actions, because the code notifies
and emits after it has released the mutex; so is `Shutdown`. A worker that waits
returns to `check` when it is notified, or spuriously. The flag of a job is read
without the mutex, so each look at it is a step of its own: `Begin` (Execute),
then `Announce` (Running), then `SendRequest` (HttpClient::Execute) for each
request. `NextRequest` is the answer to a request that another one follows: a
part, a page, or the same request again. `Finish` ends the job with all that
`Execute` does: success or error, whatever the flag was at that time, and the
terminal state follows from both. `late` counts the requests that were answered
after the stop and is read by a property only.

`JobLifecycle` knows only a status per job: accepted, running, an outcome.
The mapping (`StatusOf`) makes a job "running" from the announcement of Running
until that of its outcome, a cancelled flag "unwanted" and `stopping` "closed".
A step that only moves a thread is a stutter.

### PluginTransfers

Every action of the manager that emits an event is conjoined with `Post`.
`OnTransferEvent` drops the event when the panel has not been created, and
deletes it when it cannot be posted to the window (`lost`, which only
properties read).
Messages have the emitted state; a dispatch upserts the row, and a completion
also takes its action out of `pending` (`m_pending`). `EnqueueReturn` is the end
of the manager's Enqueue and the assignment to `m_pending` that follows it in
the same thread. Progress events are posted while the transfer runs and its flag
is clear.

### SaveFlow

`inFlight` and `again` are SaveState; `etag` and `etagDisk` the document's ETag
in memory and in Documents.xml; `file`, `remote` the contents of cache file and
object. A content is a fresh number and doubles as its ETag. Requests are
executed by the two lanes, with their effect (`HeadObject`, `PutObject`,
`DownloadObject`) and the posting of the completion in separate steps. The
hash of an upload is computed before it is sent and the service refuses a body
of another hash. A PUT whose answer is lost may be repeated or fail. The dialog
is modal: the user can do nothing else, but completions are dispatched.
`Restart` stands for both an orderly exit and a crash. An upload is one request
here; `MultipartUpload` has the other kind.

The user may upload the same file to the same object himself
(`CmdUploadCurrent`, the job `Manual`); its completion leaves the recorded ETag
as it is. The profile of the document may be deleted at any time
(`DeleteProfile`), also while the conflict dialog is open, which a completion may
open over the profiles dialog. A completion that cannot be posted is lost like
one without a panel. `due` is the saved content nobody has been told about: a
handler clears it when it uploads the content or when it logs or shows why it
will not. It stays when the code says nothing, which `Owed` then names
(`hasProfile`, `unheard`, `missed`).

Taken for granted: answers carry an ETag; a line that is logged to an existing
panel arrives; the conflict dialog can be shown; the profile with which an object
was opened is still active when its download completes (`Browser` has the
switch). The paths of StartSaveUpload and HeadForSave for a document that is not
registered (NppS3Plugin.cpp:1150-1155, 1340-1343) are left out because no save
reaches them: only OnReady (174) takes documents out of the registry.

### MultipartUpload

One object, one file, one attempt at a time (they share the data lane). `pc`
names the next call of the attempt; each request is one step with its possible
results: an effect and an answer, an effect without an answer, neither. `stat`
is the file's size and time as read at the start; a version of the file stands
for size, time and contents. `journal` and `disk` are the entry in memory and in
Uploads.xml. A clean-up runs on the control lane and removes the entry on the UI
thread in between. `Crash` keeps only file, disk and service.

### MultipartPlan

The operators are the functions of the code over naturals; file sizes are below
2^63 and part limits are ints, so 64 bits do not overflow. The specification
picks inputs and walks the loop over the parts.

### BulkOps

A job carries its `m_pending` action and BulkState (`kind`, `bulk`) and the
account it was enqueued for; m_activeConfig is `config`, and a completion uses
the one that is current when it is handled, as the code does. Accounts are
profiles whose endpoint has the same bucket. Each lane executes the queued job
with the smallest id; `Execute` chooses the outcome, an effect with a lost
answer included, and the completion waits in `jobs` until it is handled. The
completions of a lane are handled in the order in which it posted them, which
the message queue keeps; the order of the two lanes is open.

A command of the tree's menu is two steps: `Ask` opens its dialog on an item, and
the command's own action goes on when the user agrees (`Confirm`). Completions
are dispatched in between, and the refresh of a part of the tree or its reset may
remove the item (`RemoveItems`, `freed`). DeleteObjectAsk, DeletePrefixAsk and
RenameObjectAsk then read the freed NodeData: `KeysRead` and `Scopes` take any
key or prefix for what they find, and `misnamed` remembers where it was another
one. The other commands copy what they need before the dialog, or take it from
the dialog.

A copy that is answered 200 with a body that is empty or cut counts as a success,
whether the service made it or not (S3Client.cpp:549-563); a listing may end with
a page that has no token although others follow.

`bulks` are the BulkStates with their counters. A box of `ShowError` is modal:
it is kept in `boxes` with the bulk its handler goes on with, and other
completions are handled behind it; closing it runs the rest of the handler.
`Switch` and `ConnectTest` change the session as the user and the completion of a
connection test do, without going through the lane: a disconnection, another
profile, a test that ends. Posts are taken to succeed here. `asked`, `misnamed`,
`gone` and `switched` are read by properties only. The panel is taken to be
docked, so that a box keeps the user from it.

### Browser

`nodes` has the NodeData of each live tree item under its handle. HTREEITEMs
are addresses, so a handle may be used again: a new item takes any dead handle
that an outstanding job still names, or the smallest of the others, which
nothing can tell apart. `Expand`, `RefreshItem`, `OnProfileSelectionChanged`
and the dialog's buttons are the user's actions; each runs everything its
handler does, the request of listings included. Completions take the head of
the control lane with any result; their posts are taken to succeed. The content
of a container is a fixed list of rows; the pages of a listing are appended one
by one, and a page that others follow may come without a token, with which the
listing ends (`Ends`). A profile that is chosen in the dialog may have no stored
secret: BuildConfig fails behind a box, the session is disconnected and the
profile active (`ActivateUnreadable`). From the panel's button such a profile
only shows the box. `crossed` says that jobs
of an earlier session were outstanding when the session changed, `mixed` that
two listings met on one item; both are read by properties only.

### RequestClient and LocalStore

`phase` is the position of the worker in DownloadObject over SendWithRetry and
HttpClient::Execute: `start` (the flag is looked at), `connect`, `body` (the
receiving loop, a step per chunk), `received`, `backoff`. A file is the sequence
of the versions of its chunks, so a mix of two versions can be told from a whole
one. Every call may fail in every way the code distinguishes (`Kinds`). A body
may end early without an error: then only its length tells.

In `LocalStore` the UI thread does one operation at a time, whose steps are
listed in `todo`: the loads, the pruning, each of the two steps of a save (write
the .tmp file, move it over the store), the sweep, the join. The process may die
between any two, and the worker runs in between. Documents are the versions
their ETags name. `kept` are the documents that were saved with their file on
disk, `unsure` the profiles whose removal began or whose secret was refused;
both are read by properties only. A store that cannot be read leaves an empty
registry, and `kept` forgets the documents then.

## 3. Runs

| Run | Bounds | Checks |
|---|---|---|
| `manager` | 3 jobs of either lane | types, `NoJobLost`, `ServedInOrder`, `StopFlagsEveryJob`, `AtMostOneLateRequest`, refinement of `JobLifecycle`, `EveryJobConcludes`, `ShutdownReturns` |
| `plugin` | 2 uploads; progress posted while no other message waits; 1 failed post | types, `CompletionFindsItsAction`, `NoRunningAfterCompletion`, `CompletionIsHandled` |
| `multipart` | 2 parts, 3 versions of the file, 2 upload ids | types, `SuccessMeansFile`, `JournalClaimsOnlyStoredParts`, `ProgressIsJournalled`, `NoPartSentTwice` |
| `plan` | files to 62 bytes, desired sizes to 8, limits to 6; part size 3-12, 5 parts, unit 2 | `WithinLimits`, `PartsTileFile`, `UniformParts`, `ProgressIsOffset` |
| `save` | 4 contents (3 saves or foreign writes), 1 download or explicit upload asked for at a time | types, `OneSaveAtATime`, `SaveIsNotForgotten`, `SavesDoNotConflict`, `OverwriteIsChecked`, `EverySaveSettles` |
| `bulk` | 3 keys under the prefix (one a folder marker) and one outside, pages of 2, 2 uploads, 2 accounts, 1 request, 1 change of the session | types, `PendingCountsJobs`, `ReportIsComplete`, `SummaryAddsUp`, `NothingDeletedUnasked`, `EveryBulkReports` |
| `browser` | 2 profiles (one with a default bucket), a bucket of a folder and two objects, pages of one row and a last page, 6 handles, 4 actions of the user | types, `LoadedNodeShowsItsContent`, `SessionsDoNotMix`, `WaitingEnds` |
| `cache` | 1 object of 2 chunks and 2 versions, 2 attempts, 2 profiles, 2 starts, 2 downloads, 2 edits of profiles | types, `DownloadsAreSound`, `StoresSurvive` |
| `multipart_mixed`, `multipart_resume`, `save_unseen`, `bulk_rename` | as above or smaller | one documented statement each, which the code does not keep |

Three jobs in two lanes put one job behind another in a lane while the other
lane works, and let every job be picked, cancelled or flagged by the stop in
every position; the proofs cover any number. Two jobs suffice for the message
queue because jobs interact in it by order only, and the order of two messages
of one job and of one message of another arises; one lane suffices because the
events of an upload, which reports progress, include those of the other
operations, and the UI thread is the second poster. Two parts give a part before
and a part after every event of an attempt, three versions an edit before and
one during an attempt, two upload ids a stale and a fresh upload. Four contents
allow a save during an upload and a write by somebody else, or two of either;
downloads and explicit uploads share the data lane with the save, so one at a
time can be put before and behind it.
Three keys in pages of two make a folder download finish its first items while
the second page is outstanding, and one request suffices because BulkStates
share nothing but the lanes. In `browser` a listing has a page in the middle, a
last page and a row past it, and four actions open, leave and re-enter a
session with a listing outstanding; six handles let an old one be reused. Two
chunks and two attempts let a download break off in the middle and begin again
with another version; two starts give a crash and what the next start makes of
it. Each object has files and documents of its own, so one is enough; the
proofs of `LocalStoreProofs` cover any number of everything.

The passing runs have 120,653 (`manager`), 456,974 (`plugin`), 988,356
(`multipart`), 12,646 (`plan`), 784,184 (`save`), 856,224 (`bulk`), 125,209
(`browser`) and 1,962,625 (`cache`) distinct states.

Deadlock is checked except in `plan`, whose loop ends, and in `bulk`,
`bulk_rename`, `browser` and `cache`: there the requests of the user (and the
starts) are bounded, and without them the plugin rests. In the others the system
can always go on (the manager's `Closed` is the state after OnShutdown).

### What the runs found

- `multipart_mixed`: a file that is saved while its parts are sent is assembled
  from both versions, and the upload reports success. `SuccessMeansFile` is what
  does hold: the object is the file if the file is unchanged in the end.
- `multipart_resume`: any failure of ListParts discards the journal entry of an
  upload that could have been resumed.
- `save_unseen`: with a document restored from an earlier session and the panel
  not yet shown, the answer to the ETag request is dropped; nothing is uploaded
  and the document stays "in flight", so that later saves are put off for good.
- `bulk_rename`: the delete of a rename is sent with the session of the moment
  the copy is handled. After a switch in between, the key is deleted in the other
  profile's bucket of the same name, where nothing was copied.

### What the properties leave open

These behaviours exist in the code and in the models, and the properties except
them or say nothing of them.

Transfers and saves:
- Enqueue emits Pending after it woke the workers: a row can show Pending after
  its job has finished, and stay so.
- A job whose flag was clear when its worker looked sends its request after
  Shutdown has set the flag: `AtMostOneLateRequest` says that it is one per lane,
  for which Shutdown waits.
- A completion that cannot be posted is deleted: it is never handled, and its
  action stays in `m_pending` (`CompletionIsHandled` excepts `lost`).
- `OverwriteIsChecked` allows what was written after the ETag was looked at
  (`late`): S3's plain PUT cannot exclude it, and the upload may wait long in the
  data lane.
- `SaveIsNotForgotten` and `EverySaveSettles` end when a download that the user
  asked for replaces the saved file (also while its upload waits), when a
  transfer fails or is cancelled, and with the session. They except three ways in
  which a saved content is discarded without a word: its profile was deleted
  (NppS3Plugin.cpp:1157-1161 and 1403-1411, where only an unreadable secret is
  logged), there was no panel whose log would say that the upload cannot start
  (`unheard`), a completion did not reach the panel (`missed`, also excepted by
  `OneSaveAtATime`; the subject of `save_unseen`).
- `SavesDoNotConflict` excepts conflicts after an explicit upload of the same
  object, which leaves the recorded ETag as it was (UploadManual, 1473-1485),
  after an upload whose answer was lost, and after a restart with a stale ETag:
  the user is then asked about his own upload.

Bulk operations:
- A summary may be shown twice when an error box of the listing is open while the
  last item completes.
- Chains follow the current session, not the one they began in
  (`NothingDeletedUnasked` is about sessions that stay): pages of a prefix
  delete, clean-ups of the journal's entries and deletes of renames go to the
  account that is current then.
- A rename overwrites an existing target without a question.
- DeleteObjectAsk, DeletePrefixAsk and RenameObjectAsk read the NodeData of their
  item after their dialog, behind which a completion may have freed it. The
  request may then name something else than the dialog did
  (`NothingDeletedUnasked` excepts what is `misnamed`). The read may as well end
  the program, or name another bucket; neither is in the model.
- The source of a rename is deleted after an answer of success, which an empty
  body is taken for: `asked` has what was answered, not what was copied.
- A page without a token ends the listing of a prefix, and what follows is neither
  deleted nor downloaded, without a message: `SummaryAddsUp` counts it as `gone`.

Session and tree:
- `SessionsDoNotMix` excepts sessions that met jobs of an earlier one
  (`crossed`): a late ListBuckets adds the other account's buckets, a late
  download is registered under the profile that is active by then, and a
  cancelled ConnectTest resets the tree of a live session.
- Deleting the active profile in the dialog, or adding the first one, leaves the
  session with the account of a profile that is gone, or the root at
  "Connecting" (`WaitingEnds` excepts it).
- A refresh while a listing is outstanding, or a reused handle, shows rows twice
  (`mixed`). A cancelled ListBuckets leaves the root at "Loading". Rows past
  page 101, or behind a page without a token, are not shown, and the item counts
  as loaded: `LoadedNodeShowsItsContent` is about the pages up to there.

Stores and cache:
- A Documents.xml that cannot be read at start leaves an empty registry, which is
  saved over it at once, and the sweep then removes the files. `StoresSurvive`
  counts on documents only as long as every load succeeded.
- Clear Cache removes a placed file whose completion is not dispatched yet; the
  document is then registered without a file until the next start.
- The result of SetSecret is ignored: a profile may be saved without its secret
  (`unsure`).
- A truncated body is noticed because answers are taken to name a
  Content-Length (`Place`); without one a part would be placed.

Outside the models: two instances of Notepad++ on the same stores, two keys
whose cache paths coincide, an endpoint edited while connected, answers without
an ETag (an empty ETag switches the comparison off), and the second sending of a
PUT or DELETE after another client's write (`BulkOps` sends each request once).

## 4. Fairness

Each worker that can take a step takes it: threads are scheduled, and a request
ends, because the client sets timeouts and repeats a request a bounded number of
times. The UI thread finishes the call it is in and goes on dispatching
messages. A modal dialog is answered, since nothing else can be done in
Notepad++. The user's requests, cancellations, edits, foreign writes, spurious
wake-ups, crashes and restarts are never assumed. Fairness is weak, with one
exception: a job of the manager may send any number of requests, so that its end
(`Finish`, `PostFinished`) is enabled again and again, but not for good, and is
assumed strongly. The code justifies it: the parts, pages and attempts of a job
are bounded in number. The
repeated PUT of `SaveFlow` is under no bound, and weak fairness of a lane still
ends it, because a second PUT of the same content changes nothing.

In `BulkOps` the two lanes execute what is queued, completions are dispatched
and error boxes are closed. In `Browser` the completions of the control lane are
handled; downloads and the user are never assumed. Both take a post to succeed,
which `PluginTransfers` and `SaveFlow` do not. `LocalStore` has safety
properties only and no fairness: a back-off or a download may take any time.

## 5. Proofs

`TransferManagerProofs` proves, for every set of operations and every number of
jobs, `TypeOK`, `NoJobLost`, `ServedInOrder`, `StopFlagsEveryJob` and
`AtMostOneLateRequest` from the assumptions on `Ops` and `MaxJobs`. The invariant
that carries them is `IInv`: `TypeOK`, three of the state properties themselves,
and three facts they do not state. `WorkersHold`: a worker holds a job exactly in
the states from `picked` to `reset`, an accepted job of its own lane, and before
Start there are no workers. `FreshIds`: ids not given out yet have no outcome.
`LateRequests`: a worker whose late request was answered has none out and, since
the manager is stopping, never will. The invariant is needed because the
properties alone are not inductive: that a picked job leaves nobody behind needs
the order of the queue, and that a second request is not sent needs the flags of
all the jobs that have no outcome. The proof has one lemma per kind of step: `IdleStep` for the
steps that move threads only, then enqueueing, picking, outcomes, flags,
beginning, resetting. Queues are handled through `AppendIndex` and `TailIndex`,
which say what Append and Tail do to the indices.

`MultipartPlanProofs` proves the four properties of the plan for all file sizes,
desired sizes, part limits and protocol constants that satisfy the module's
assumptions. The arithmetic is nonlinear: `DivBounds` and `TimesMonotone` are
the only facts about division and products, everything else cites them.
`PlanBounds` bounds size and count, `PartLengths` gives the shape of the parts,
`Tiling` places each byte. The loop's invariant is `ProgressIsOffset` itself,
which needs `Inputs`: the inputs do not change and have a plan.

`TransferManagerProofs` also proves that the manager implements `JobLifecycle`
(`ImplementsJobLifecycle`) for any number of jobs. `StatusCases` computes the
status of a job from queue, worker and outcome, one case each, under `IInv`;
there is a lemma per kind of step that says which statuses it changes, and
`StutterStep` covers the steps that change none. That a job begins in its turn
needs `HeldInLane`: the job a worker holds is the oldest of its lane that has no
outcome, which `ServedInOrder` and `HeldJob` give.

`PluginTransfersProofs` proves `PluginTypeOK`, `CompletionFindsItsAction` and
`NoRunningAfterCompletion` for any number of jobs and waiting messages. The
invariant `PInv` adds to the manager's `IInv` what the message queue holds: a
result in it belongs to a job that has its outcome (`ResultsAreOver`), nothing
but a late Pending follows it (`ResultIsLast`), its action is stored, or Enqueue
has not returned yet and the UI thread cannot dispatch (`ActionsAwaitResults`),
and what was handled is over (`HandledIsOver`). The properties alone are not
inductive: that a dispatched completion finds its action is decided when it was
posted.

`LocalStoreProofs` proves `TypeOK`, `DownloadsAreSound` and `StoresSurvive` for
any number of objects, chunks, retries, versions, profiles and starts. Its
invariant `SInv` has three parts. `DownloadInv`: what the temporary file holds
while a body is received is of the version of the answer (`AnswerIsOneVersion`),
and a request after the cancellation is the one that was under way
(`LateIsTheLast`). `ClaimInv`: whatever version is said of an object - in the
registry, in Documents.xml or in a completion not dispatched yet - is no newer
than the object, the file, and the answer that is about to replace the file
(`ClaimsHold`); without the completions and the answer it is not inductive.
`StoreInv`: loads come first in what the UI thread has left to do, and a
document that counts as saved has its file and its entry on disk, and in memory
once the registry is loaded (`DocumentsStay`). The worker's steps that leave the
stores alone share `StoresUntouched`, the UI thread's steps `UiInv` and
`PlanStepInv`, removals of files `FilesGoInv`.

`MultipartUploadProofs` proves the four invariants of `MultipartUpload` and the
action property `NoPartSentTwice` for any number of parts, versions of the file
and upload ids. Its invariant `UInv` orders versions in time: whatever an entry
or the attempt says of a part was read from a file no older than the one the
entry, or the attempt, began with, and no newer than the file
(`EntriesAreWithin`, `AttemptIsWithin`), so that a file which has not changed
since leaves only one version. `LoopState` says how far the loop over the parts
has come, `JournalFollows` that the journal has what it has sent, unless a
clean-up came in between, `ClaimsAreStored` that the service holds what the
entries in memory and on disk claim; `AgreedPartsAreDone` is what makes
`NoPartSentTwice` hold: ahead of the loop, parts on which journal and service
agree have been taken over.

`SaveFlowProofs` proves the four invariants of `SaveFlow` and the action property
`OverwriteIsChecked` for any number of saves, downloads, foreign writes and
restarts, with downloads and explicit uploads asked for in any number, posts that
fail and a profile that is deleted. `OneSaveAtATime` counts jobs and is not inductive. What is: a save is
at one of six places (two queues, two workers, the message queue, the dialog),
at most once there and nowhere else (`SaveIsSomewhere`), with what a place says of
the job (`JobsFit`, `PendingFits`). `DueIsFile` ties the content that is due to
the file and to what the upload read, and says that it is in flight unless it is
one that was discarded without a word. `RecordsInOrder` is the heart of
`SavesDoNotConflict`: completions carry ETags in the order in which they were
read, so that once the recorded one is that of the object, no older one is
recorded after it; `ObjectIsKnown` says that without interference from outside
the flow the object is what is, or will be, on record. `HeadIsCurrent` and `UploadIsChecked` carry the comparison
made on the UI thread to the moment a worker sends the upload. Each step has a
lemma per part it can disturb; sequences are handled through what Append and
Tail do to "none of these", "one of these".

`BulkOpsProofs` proves the four invariants of `BulkOps` and the action property
`NothingDeletedUnasked` for any number of accounts, keys, uploads and requests
and any page size. The invariant `BulkInv` says of every job what it may be
about (`Fits`), which bulk it counts for (`BulkFits`), that a page leaves out
no key between its token and its end that was not deleted or cut off with the
listing (`PageFits`), and that
what its chain deletes was confirmed, copied according to the answer, or named by
a command that had lost its item, in the session of the chain, if the session
has not changed (`IsAsked`, `Wanted`); a dialog is open only in a session with
an account (`ConnectedFits`), and a key that is missing is `gone`
(`MissingIsGone`); and of every bulk, its items and its pages
that they are `Sound`: `Counts` and `Reports` are the properties, and `AddsUp`
compares what is done, failed or pending with the keys it has been told of, those
up to the token of the outstanding page. The steps of one bulk are lemmas about
records and finite sets (`ListedIsSound`, `NotListedIsSound`, `CountedIsSound`,
`ClaimedIsSound`); `HandledKeeps` and `StartsKeeps` carry them to the state. That
ids of jobs enqueued together are fresh and different (`BatchFor`) rests on
counting the smaller keys (`CountSmaller`). Induction over the size of a finite
set, which the library offers with an operator parameter only, is replaced by a
smallest counterexample (`MinimalSet`).

The proof found a mistake in the model that TLC did not show: two arms of the
CASE in `Listing` overlapped, so that its value for a listing of uploads was
TLC's choice of the first arm and not the definition's. They are disjoint now.

`BrowserProofs` proves the three invariants of `Browser` for any number of
profiles, handles and actions of the user, any containers with any content and
any size and number of pages. That a loaded item shows its content is decided
page by page, so the invariant `BrowserInv` speaks of the items that are still
listed. `TreeFits`: every item but the root hangs below a live one and knows all
that are above it, so that removing an item takes its whole subtree and nothing
else. `ListingsFit`: an item on which no two listings met has at most one job,
and shows exactly the rows of the pages before that job's (`Listed`); once it
counts as loaded it has no job and shows everything up to the page that ended
its listing (`Complete`, `ends`); an item without
rows comes from no account (`IsClean`). `JobFits`: a page that is asked for has
rows. For a session that met no earlier one (`~crossed`), jobs and items are of
its account (`OwnJobs`, `OwnItems`), and a download is of the profile that
is active (`OpenFits`). Neither property is inductive without the jobs that are
outstanding.

Each operation on the tree has a lemma on what it keeps: `ChangeKeeps` for a
change of one item, `RequestKeeps` for a request, `RemoveKeeps` for a subtree
that goes, `NewItemsKeep` for new items, whose handles may be those of items that
went and are still named by jobs, `AppendKeeps` with `ShowsMore` for a page,
which counts rows and items. `PageAddsRows`, `FirstAndLastPage` and `EndsFacts`
say what a page adds to the ones before it, and with which one a listing ends. On them stands one lemma per action. The
assumptions say that a handle is not the null HTREEITEM and that a listing names
each row once, as S3 does.

Assumed are the properties of the constants that the modules name, and nothing
else. Every invariant and every action property of the passing runs is proved.
Model-checked only is liveness (`EveryJobConcludes`, `ShutdownReturns`,
`CompletionIsHandled`, `EverySaveSettles`, `EveryBulkReports`, `WaitingEnds`): it
needs ENABLED, which is out of the prover's reach, as are induction over data and
RECURSIVE operators.

## 6. Plan

1. Done: transfer manager with its abstraction, event delivery, multipart upload
   and plan, save flow; bulk operations; session and tree; downloads with
   retries, stores and cache; proofs for manager, refinement, event delivery,
   plan, uploader, save flow, bulk operations, session and tree, and stores.
2. Extensions of the models: answers without an ETag in `SaveFlow`, an endpoint
   edited while connected in `Browser`, two instances on one set of stores in
   `LocalStore`.
