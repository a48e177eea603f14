------------------------------- MODULE SaveFlow -------------------------------
(***************************************************************************)
(* Saving a remote document (src/src/plugin/NppS3Plugin.cpp): every Ctrl+S *)
(* of a registered document asks the service for the object's ETag (Head), *)
(* compares it with the one on record, asks the user if they differ, and   *)
(* uploads the cache file (Upload); saves that arrive meanwhile are folded *)
(* into one more upload.  The same cache file is replaced by downloads:    *)
(* when the user opens the object again (Open) and when the user resolves  *)
(* a conflict in favour of the remote copy (Fetch), and uploaded to the    *)
(* same object by the user's explicit wish (Manual).                       *)
(*                                                                         *)
(* One document and its object.  A content is a number, fresh for every    *)
(* save and every write by somebody else, and is its own ETag.  The        *)
(* transfer manager is represented by what JobLifecycle says of it: each   *)
(* lane runs its jobs one after the other, and a job ends once, in success *)
(* or error; what the user cancels ends like an error.  Completions reach  *)
(* the UI thread in the order they were posted, if the panel exists.       *)
(***************************************************************************)
EXTENDS Naturals, Sequences, FiniteSets

CONSTANTS MaxContent,  \* bound: contents of file and object
          MaxAsked     \* bound: downloads and explicit uploads the user has
                       \* asked for at a time

ASSUME SaveBoundsAssumption == MaxContent \in Nat \ {0} /\ MaxAsked \in Nat

Contents == 1 .. MaxContent
Absent == 0   \* the object does not exist
Nothing == 0  \* no content

Kinds == {"Head", "Upload", "Open", "Fetch", "Manual"}
SaveKinds == {"Head", "Upload"}
UploadKinds == {"Upload", "Manual"}
Lanes == {0, 1}
LaneOf(k) == IF k = "Head" THEN 0 ELSE 1

\* A completion, with the ETag it carries if it is a success.
Completions == [kind : Kinds, result : {"ok", "gone", "failed"},
                tag : Contents \cup {Nothing}]
Idle == [kind |-> "none", result |-> "none", tag |-> Nothing]

VARIABLES
  remote,    \* the object at the service
  file,      \* the cache file
  latest,    \* the contents used so far are 1 .. latest
  etag,      \* the document's recorded ETag, in memory
  etagDisk,  \* the same in Documents.xml
  inFlight,  \* SaveState.inFlight
  again,     \* SaveState.again
  dialog,    \* the conflict dialog: "none", "changed" or "gone"
  shown,     \* the remote content the dialog is about
  panel,     \* the panel window exists
  hasProfile,\* the profile the document belongs to exists
  queue,     \* per lane, the jobs not picked yet
  work,      \* per lane, the job its worker executes, or "none"
  hashed,    \* the content the running upload has computed its hash of
  answer,    \* per lane, the completion the worker is about to post
  inbox,     \* completions posted to the panel
  \* Of these only properties read:
  due,       \* the last saved content, until it is uploaded or the user is
             \* told that it will not be, replaces it, or ends the session
  unheard,   \* there was no panel to show what the user was told about it
  missed,    \* a completion of a save did not reach the panel
  confirmed, \* the remote contents the user has agreed to overwrite
  late,      \* somebody wrote the object after the last Head looked at it
  intruded   \* the object may differ from the record for a reason other
             \* than a save under way

storeVars == <<remote, file, latest>>
docVars == <<etag, etagDisk>>
saveVars == <<inFlight, again>>
dialogVars == <<dialog, shown>>
jobVars == <<queue, work, hashed, answer, inbox>>
hostVars == <<panel, hasProfile>>
dueVars == <<due, unheard>>
checkVars == <<confirmed, late, intruded>>
vars == <<storeVars, docVars, saveVars, dialogVars, hostVars, jobVars, dueVars,
          missed, checkVars>>

\* The document was opened and its session may have ended since.
Init ==
  /\ remote = 1 /\ file = 1 /\ latest = 1
  /\ etag = 1 /\ etagDisk = 1
  /\ inFlight = FALSE /\ again = FALSE
  /\ dialog = "none" /\ shown = Nothing
  /\ panel \in BOOLEAN /\ hasProfile = TRUE
  /\ queue = [l \in Lanes |-> << >>]
  /\ work = [l \in Lanes |-> "none"]
  /\ hashed = Nothing
  /\ answer = [l \in Lanes |-> Idle]
  /\ inbox = << >>
  /\ due = Nothing /\ unheard = FALSE /\ missed = FALSE
  /\ confirmed = {} /\ late = FALSE /\ intruded = FALSE

Free == dialog = "none"   \* no modal dialog blocks the user

\* Where the jobs of some kinds are: in a queue, in a worker, or, finished,
\* in the inbox.
JobsUnderWay(kinds) ==
  (UNION {{<<"queue", l, i>> : i \in {j \in 1 .. Len(queue[l]) :
                                        queue[l][j] \in kinds}} : l \in Lanes})
  \cup {<<"work", l, 0>> : l \in {m \in Lanes : work[m] \in kinds}}
  \cup {<<"inbox", 0, i>> : i \in {j \in 1 .. Len(inbox) :
                                    inbox[j].kind \in kinds}}

-----------------------------------------------------------------------------
(* Saving, on the UI thread *)

EnqueueJob(k) == queue' = [queue EXCEPT ![LaneOf(k)] = Append(@, k)]

\* StartSaveUpload: ask for the ETag.  Without readable credentials a line in
\* the log says that it cannot be; if the profile is gone nothing says so.
\* d is the content the user is waiting for.
StartSaveUpload(d) ==
  /\ confirmed' = {}
  /\ again' = FALSE
  /\ \/ /\ hasProfile
        /\ EnqueueJob("Head")
        /\ inFlight' = TRUE /\ due' = d /\ unheard' = FALSE
     \/ /\ hasProfile
        /\ inFlight' = FALSE
        /\ due' = (IF panel THEN Nothing ELSE d) /\ unheard' = ~panel
        /\ UNCHANGED queue
     \/ /\ ~hasProfile
        /\ inFlight' = FALSE /\ due' = d /\ unheard' = FALSE
        /\ UNCHANGED queue

\* Fault: a save that arrived meanwhile is forgotten.
FinishSaveForgets(restartIfDirty, d) ==
  /\ inFlight' = FALSE /\ again' = FALSE /\ due' = d
  /\ UNCHANGED <<queue, unheard, confirmed>>

\* Fault: the save is still taken to be in flight.
FinishSaveStaysInFlight(restartIfDirty, d) ==
  IF again /\ restartIfDirty
  THEN StartSaveUpload(d)
  ELSE again' = FALSE /\ due' = d /\ UNCHANGED <<inFlight, queue, unheard, confirmed>>

\* FinishSave: the upload is over; start again if asked to and need be.
FinishSave(restartIfDirty, d) ==
  IF again /\ restartIfDirty
  THEN StartSaveUpload(d)
  ELSE /\ inFlight' = FALSE /\ again' = FALSE /\ due' = d
       /\ UNCHANGED <<queue, unheard, confirmed>>

\* What is left to wait for when a save that cannot go on is discarded: the
\* code says why it cannot, except when the profile is gone.
Discarded == IF hasProfile THEN Nothing ELSE due

\* Fault: every save starts an upload of its own.
SaveAlwaysStarts ==
  /\ Free /\ latest < MaxContent
  /\ latest' = latest + 1 /\ file' = latest + 1
  /\ StartSaveUpload(latest + 1)
  /\ UNCHANGED <<remote, docVars, dialogVars, hostVars, work, hashed, answer,
                 inbox, missed, late, intruded>>

\* Notepad++ has written the file and notifies the plugin: HandleFileSaved.
HandleFileSaved ==
  /\ Free /\ latest < MaxContent
  /\ latest' = latest + 1 /\ file' = latest + 1
  /\ IF inFlight
     THEN /\ again' = TRUE /\ due' = latest + 1
          /\ UNCHANGED <<inFlight, queue, unheard, confirmed>>
     ELSE StartSaveUpload(latest + 1)
  /\ UNCHANGED <<remote, docVars, dialogVars, hostVars, work, hashed, answer,
                 inbox, missed, late, intruded>>

UserAsks(k) ==
  /\ Cardinality(JobsUnderWay({"Open", "Manual"})) < MaxAsked
  /\ EnqueueJob(k)
  /\ UNCHANGED <<storeVars, docVars, saveVars, dialogVars, hostVars, work,
                 hashed, answer, inbox, dueVars, missed, checkVars>>

\* OpenObject: the object is opened from the tree once more.
OpenObject == Free /\ panel /\ hasProfile /\ UserAsks("Open")

\* CmdUploadCurrent: the file on the screen, here the cache file, is uploaded
\* to the object the user names, here that of the document.
CmdUploadCurrent == Free /\ UserAsks("Manual")

\* CmdShowPanel.
CmdShowPanel ==
  /\ Free /\ ~panel
  /\ panel' = TRUE
  /\ UNCHANGED <<storeVars, docVars, saveVars, dialogVars, hasProfile, jobVars,
                 dueVars, missed, checkVars>>

\* The profile is deleted in the profiles dialog, under which a conflict dialog
\* may open.  Its id is not used again.
DeleteProfile ==
  /\ hasProfile
  /\ hasProfile' = FALSE
  /\ UNCHANGED <<storeVars, docVars, saveVars, dialogVars, panel, jobVars,
                 dueVars, missed, checkVars>>

-----------------------------------------------------------------------------
(* Transfers, on the worker of each lane *)

Take(l) ==
  /\ work[l] = "none" /\ queue[l] # << >>
  /\ work' = [work EXCEPT ![l] = Head(queue[l])]
  /\ queue' = [queue EXCEPT ![l] = Tail(@)]
  /\ UNCHANGED <<storeVars, docVars, saveVars, dialogVars, hostVars, hashed,
                 answer, inbox, dueVars, missed, checkVars>>

Executing(k) == work[LaneOf(k)] = k /\ answer[LaneOf(k)] = Idle

Answer(k, result, tag) ==
  answer' = [answer EXCEPT ![LaneOf(k)] =
               [kind |-> k, result |-> result, tag |-> tag]]

\* A job of kind k ends in an error, or because it was cancelled, without
\* having had an effect.
Fail(k) ==
  /\ Executing(k)
  /\ Answer(k, "failed", Nothing)
  /\ hashed' = IF k \in UploadKinds THEN Nothing ELSE hashed
  /\ UNCHANGED <<storeVars, docVars, saveVars, dialogVars, hostVars, queue, work,
                 inbox, dueVars, missed, checkVars>>

HeadObject ==
  /\ Executing("Head")
  /\ IF remote = Absent THEN Answer("Head", "gone", Nothing)
     ELSE Answer("Head", "ok", remote)
  /\ late' = FALSE
  /\ UNCHANGED <<storeVars, docVars, saveVars, dialogVars, hostVars, queue, work,
                 hashed, inbox, dueVars, missed, confirmed, intruded>>

\* PutObjectSingle: the hash of the file, which is signed, is computed first.
HashFile(k) ==
  /\ k \in UploadKinds /\ Executing(k) /\ hashed = Nothing
  /\ hashed' = file
  /\ UNCHANGED <<storeVars, docVars, saveVars, dialogVars, hostVars, queue, work,
                 answer, inbox, dueVars, missed, checkVars>>

\* The service stores the object if the body it receives has that hash.  If
\* its answer gets lost, the request is sent again or the job fails.
PutObject(k) ==
  /\ k \in UploadKinds /\ Executing(k)
  /\ hashed # Nothing /\ file = hashed
  /\ remote' = hashed
  /\ due' = IF due = hashed THEN Nothing ELSE due
  /\ \/ /\ Answer(k, "ok", hashed) /\ hashed' = Nothing
        /\ intruded' = (intruded \/ k = "Manual")
     \/ /\ Answer(k, "failed", Nothing) /\ hashed' = Nothing
        /\ intruded' = TRUE
     \/ UNCHANGED <<answer, hashed>> /\ intruded' = TRUE
  /\ late' = (late \/ k = "Manual")
  /\ UNCHANGED <<file, latest, docVars, saveVars, dialogVars, hostVars, queue,
                 work, inbox, unheard, missed, confirmed>>

\* DownloadObject: the file is replaced in one rename, by the user's wish.
DownloadObject(k) ==
  /\ k \in {"Open", "Fetch"} /\ Executing(k)
  /\ remote # Absent
  /\ file' = remote
  /\ due' = Nothing
  /\ Answer(k, "ok", remote)
  /\ UNCHANGED <<remote, latest, docVars, saveVars, dialogVars, hostVars, queue,
                 work, hashed, inbox, unheard, missed, checkVars>>

\* OnTransferEvent: post the completion to the panel, if there is one.  It is
\* lost if there is none, and if the post fails.
OnTransferEvent(l) ==
  /\ answer[l] # Idle
  /\ \/ panel /\ inbox' = Append(inbox, answer[l]) /\ UNCHANGED missed
     \/ /\ missed' = (missed \/ answer[l].kind \in SaveKinds)
        /\ UNCHANGED inbox
  /\ answer' = [answer EXCEPT ![l] = Idle]
  /\ work' = [work EXCEPT ![l] = "none"]
  /\ UNCHANGED <<storeVars, docVars, saveVars, dialogVars, hostVars, queue,
                 hashed, dueVars, checkVars>>

-----------------------------------------------------------------------------
(* Completions, on the UI thread.  A modal dialog goes on dispatching them. *)

Dispatch(k) ==
  /\ inbox # << >> /\ Head(inbox).kind = k
  /\ inbox' = Tail(inbox)
  /\ UNCHANGED <<storeVars, hostVars, work, hashed, answer, missed, late,
                 intruded>>

\* Record the ETag and write Documents.xml, whose failure is not noticed.
RecordETag(tag) ==
  /\ etag' = tag
  /\ etagDisk' \in {tag, etagDisk}

\* Upload the file, unless the profile or its credentials are gone meanwhile.
Proceed ==
  \/ /\ hasProfile
     /\ EnqueueJob("Upload")
     /\ UNCHANGED <<saveVars, dueVars, confirmed>>
  \/ FinishSave(FALSE, Discarded)

\* Fault: the ETags are not compared.
HandleHeadUncompared ==
  /\ Dispatch("Head")
  /\ CASE Head(inbox).result = "ok" -> Proceed /\ UNCHANGED dialogVars
       [] Head(inbox).result = "gone" ->
            /\ dialog' = "gone" /\ shown' = Absent
            /\ UNCHANGED <<saveVars, queue, dueVars, confirmed>>
       [] OTHER -> FinishSave(FALSE, Nothing) /\ UNCHANGED dialogVars
  /\ UNCHANGED docVars

\* HeadForSave: proceed, ask the user, or report the error.
HandleHead ==
  /\ Dispatch("Head")
  /\ LET m == Head(inbox) IN
     \/ /\ m.result = "ok" /\ m.tag = etag
        /\ Proceed /\ UNCHANGED dialogVars
     \/ /\ m.result = "ok" /\ m.tag # etag
        /\ dialog' = "changed" /\ shown' = m.tag
        /\ UNCHANGED <<saveVars, queue, dueVars, confirmed>>
     \/ /\ m.result = "gone"
        /\ dialog' = "gone" /\ shown' = Absent
        /\ UNCHANGED <<saveVars, queue, dueVars, confirmed>>
     \/ /\ m.result = "failed"
        /\ FinishSave(FALSE, Nothing) /\ UNCHANGED dialogVars
  /\ UNCHANGED docVars

CloseDialog ==
  /\ dialog # "none"
  /\ dialog' = "none" /\ shown' = Nothing
  /\ UNCHANGED <<storeVars, docVars, hostVars, work, hashed, answer, inbox,
                 missed, late, intruded>>

ChooseOverwrite ==
  /\ CloseDialog
  /\ \/ /\ hasProfile
        /\ EnqueueJob("Upload")
        /\ confirmed' = {shown}
        /\ UNCHANGED <<saveVars, dueVars>>
     \/ FinishSave(FALSE, Discarded)

ChooseDownloadRemote ==
  /\ dialog = "changed"
  /\ CloseDialog
  /\ EnqueueJob("Fetch")
  /\ inFlight' = FALSE /\ again' = FALSE /\ due' = Nothing
  /\ UNCHANGED <<unheard, confirmed>>

ChooseCancel == CloseDialog /\ FinishSave(FALSE, Nothing)

\* Fault: the ETag of the upload is not recorded.
HandleUploadUnrecorded ==
  /\ Dispatch("Upload")
  /\ FinishSave(TRUE, IF Head(inbox).result = "ok" \/ again THEN due ELSE Nothing)
  /\ UNCHANGED <<docVars, dialogVars>>

\* Fault: a failed upload's answer, which has no ETag, is recorded as well.
HandleUploadRecordsAlways ==
  /\ Dispatch("Upload")
  /\ RecordETag(Head(inbox).tag)
  /\ FinishSave(TRUE, IF Head(inbox).result = "ok" \/ again THEN due ELSE Nothing)
  /\ UNCHANGED dialogVars

\* UploadSave: record the new ETag or report the error.
HandleUpload ==
  /\ Dispatch("Upload")
  /\ LET m == Head(inbox) IN
     /\ IF m.result = "ok" THEN RecordETag(m.tag) ELSE UNCHANGED docVars
     /\ FinishSave(TRUE, IF m.result = "ok" \/ again THEN due ELSE Nothing)
  /\ UNCHANGED dialogVars

\* DownloadOpen and SaveConflictDownload: record the ETag that came along.
RecordDownload(k) ==
  /\ Dispatch(k)
  /\ IF Head(inbox).result = "ok" THEN RecordETag(Head(inbox).tag)
     ELSE UNCHANGED docVars
  /\ UNCHANGED <<saveVars, dialogVars, queue, dueVars, confirmed>>
HandleDownloadOpen == RecordDownload("Open")
HandleConflictDownload == RecordDownload("Fetch")

\* UploadManual: the document's record is left as it is.
HandleUploadManual ==
  /\ Dispatch("Manual")
  /\ UNCHANGED <<docVars, saveVars, dialogVars, queue, dueVars, confirmed>>

-----------------------------------------------------------------------------
(* Everybody else *)

\* Another client writes or deletes the object, or the user does so here with
\* another file.
ForeignWrite ==
  /\ latest < MaxContent
  /\ \/ remote' = latest + 1
     \/ remote # Absent /\ remote' = Absent
  /\ latest' = latest + 1
  /\ late' = TRUE /\ intruded' = TRUE
  /\ UNCHANGED <<file, docVars, saveVars, dialogVars, hostVars, jobVars, dueVars,
                 missed, confirmed>>

\* Notepad++ stops, in order (the documents are saved once more) or not, and
\* is started again.
Restart ==
  /\ \E e \in {etag, etagDisk} :
       /\ etag' = e /\ etagDisk' = e
       /\ intruded' = (e # remote)
  /\ inFlight' = FALSE /\ again' = FALSE
  /\ dialog' = "none" /\ shown' = Nothing
  /\ panel' = FALSE
  /\ queue' = [l \in Lanes |-> << >>]
  /\ work' = [l \in Lanes |-> "none"]
  /\ hashed' = Nothing
  /\ answer' = [l \in Lanes |-> Idle]
  /\ inbox' = << >>
  /\ due' = Nothing /\ unheard' = FALSE /\ missed' = FALSE
  /\ confirmed' = {} /\ late' = FALSE
  /\ UNCHANGED <<storeVars, hasProfile>>

LaneStep(l) ==
  \/ Take(l)
  \/ \E k \in Kinds : LaneOf(k) = l /\ (Fail(k) \/ DownloadObject(k))
  \/ l = 0 /\ HeadObject
  \/ \E k \in UploadKinds : LaneOf(k) = l /\ (HashFile(k) \/ PutObject(k))
  \/ OnTransferEvent(l)

HandleCompletion ==
  \/ HandleHead \/ HandleUpload
  \/ HandleDownloadOpen \/ HandleConflictDownload \/ HandleUploadManual

AnswerDialog == ChooseOverwrite \/ ChooseDownloadRemote \/ ChooseCancel

Next ==
  \/ HandleFileSaved \/ OpenObject \/ CmdUploadCurrent
  \/ CmdShowPanel \/ DeleteProfile
  \/ \E l \in Lanes : LaneStep(l)
  \/ HandleCompletion \/ AnswerDialog
  \/ ForeignWrite \/ Restart

\* The workers run, the message loop dispatches, and a modal dialog, which
\* blocks Notepad++, is answered.
Fairness ==
  /\ \A l \in Lanes : WF_vars(LaneStep(l))
  /\ WF_vars(HandleCompletion)
  /\ WF_vars(AnswerDialog)

Spec == Init /\ [][Next]_vars /\ Fairness

-----------------------------------------------------------------------------
(* Properties *)

\* Every variable has its type.
TypeOK ==
  /\ remote \in Contents \cup {Absent} /\ file \in Contents
  /\ latest \in Contents
  /\ etag \in Contents /\ etagDisk \in Contents
  /\ inFlight \in BOOLEAN /\ again \in BOOLEAN
  /\ dialog \in {"none", "changed", "gone"}
  /\ shown \in Contents \cup {Nothing}
  /\ panel \in BOOLEAN /\ hasProfile \in BOOLEAN
  /\ queue \in [Lanes -> Seq(Kinds)]
  /\ work \in [Lanes -> Kinds \cup {"none"}]
  /\ hashed \in Contents \cup {Nothing}
  /\ answer \in [Lanes -> Completions \cup {Idle}]
  /\ inbox \in Seq(Completions)
  /\ due \in Contents \cup {Nothing}
  /\ confirmed \subseteq Contents \cup {Absent}
  /\ unheard \in BOOLEAN /\ missed \in BOOLEAN
  /\ late \in BOOLEAN /\ intruded \in BOOLEAN

\* Where the save is: with the transfer manager or at the user.
SavesUnderWay ==
  JobsUnderWay(SaveKinds) \cup
  IF dialog = "none" THEN {} ELSE {<<"dialog", 0, 0>>}

\* A document has one save under way at most, and exactly one while its state
\* says so, so that two uploads of it never race.
OneSaveAtATime ==
  Cardinality(SavesUnderWay) = IF inFlight /\ ~missed THEN 1 ELSE 0

\* The last saved content is neither uploaded nor given up with the user's
\* knowledge, and it is not one of the cases in which it is given up without a
\* word: the profile is deleted, the panel that would say so is not there, a
\* completion did not reach it.
Owed == due # Nothing /\ hasProfile /\ ~unheard /\ ~missed

\* README.md: "The final upload therefore reflects the most recently saved
\* contents": while a content is owed to the service a save is under way, and
\* unless it will be repeated its upload has not read the file before that
\* content was there.
SaveIsNotForgotten ==
  Owed => /\ SavesUnderWay # {}
          /\ again \/ work[1] # "Upload" \/ hashed \in {Nothing, due}

\* The same as liveness: every save is settled.
EverySaveSettles == Owed ~> ~Owed

\* Saves and downloads do not make each other ask about a conflict: the user is
\* asked only if, in this session or at the end of an earlier one, the object
\* was written by another client, by an upload of a save whose answer was lost,
\* or by an explicit upload, whose ETag is not recorded.
SavesDoNotConflict == dialog # "none" => intruded

\* README.md: "If the object has changed since it was downloaded, NppS3 asks
\* what to do before overwriting it."  An upload replaces what is on record,
\* what the user agreed to overwrite, itself, or what was written after the
\* ETag was looked at.
OverwriteIsChecked ==
  [][PutObject("Upload") =>
       \/ remote \in {etag, Absent, hashed} \cup confirmed
       \/ late]_vars

\* NppS3Plugin.cpp: "A save arrived while the previous upload is still
\* running; rerun once it completes so the final content always wins."  A
\* save is put off only while there is one under way to wait for.
PutOffOnlyIfUnderWay == again => SavesUnderWay # {}
=============================================================================
