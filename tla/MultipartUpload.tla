--------------------------- MODULE MultipartUpload ---------------------------
(***************************************************************************)
(* Resumable multipart upload of one object from one local file            *)
(* (src/src/storage/MultipartUpload.cpp, UploadJournal.cpp).               *)
(*                                                                         *)
(* Four parties: the uploader, run by the data lane of the transfer        *)
(* manager, one attempt at a time; the storage service; the user, who      *)
(* edits the file and may ask for incomplete uploads to be cleaned up,     *)
(* which the control lane and the UI thread do while an attempt runs; and  *)
(* the machine, which may stop at any moment and forget all but the file,  *)
(* the journal on disk and the service's state.                            *)
(*                                                                         *)
(* A version of the file stands for its size, its last-write time and its  *)
(* contents: every edit makes a new one, cut into the same number of       *)
(* parts.  An ETag is the version whose bytes the part was read from.      *)
(*                                                                         *)
(* A request answers, fails without having had its effect, or fails after  *)
(* it (the answer was lost).  A cancelled job is one whose next request    *)
(* fails without effect.                                                   *)
(***************************************************************************)
EXTENDS Naturals

CONSTANTS PartCount,   \* plan.partCount
          MaxVersion,  \* bound: versions of the file
          MaxUploads   \* bound: upload ids the service hands out

ASSUME CountsAssumption ==
  PartCount \in Nat \ {0} /\ MaxVersion \in Nat \ {0} /\ MaxUploads \in Nat

Parts == 1 .. PartCount
Versions == 1 .. MaxVersion
UploadIds == 1 .. MaxUploads
Nothing == 0   \* no part, no upload, no version

PartMap == [Parts -> Versions \cup {Nothing}]
NoParts == [p \in Parts |-> Nothing]

\* UploadJournalEntry; an entry whose id is Nothing is no entry.
Entry == [id : UploadIds \cup {Nothing}, stat : Versions \cup {Nothing},
          parts : PartMap]
NoEntry == [id |-> Nothing, stat |-> Nothing, parts |-> NoParts]

VARIABLES
  file,      \* the version of the local file
  pc,        \* where the attempt is
  stat,      \* fileSize and fileTime, read when the attempt began
  entry,     \* ResolveResume's copy of the journal entry
  uploadId,  \* the upload the attempt works on
  done,      \* doneParts: the parts taken over from an earlier attempt
  number,    \* the part the loop is at
  parts,     \* the parts CompleteMultipartUpload will name
  journal,   \* the journal's entry for the object, in memory
  disk,      \* the same in Uploads.xml
  status,    \* service: per upload id "unused", "open", "completed", "aborted"
  stored,    \* service: per upload id, the parts it holds
  object,    \* service: the parts the object consists of
  cleanup,   \* the upload id a clean-up is after
  cleanupPc, \* where the clean-up is
  cleaned    \* whether a clean-up removed the entry since the attempt began

attemptVars == <<pc, stat, entry, uploadId, done, number, parts>>
journalVars == <<journal, disk>>
serviceVars == <<status, stored, object>>
cleanupVars == <<cleanup, cleanupPc, cleaned>>
vars == <<file, attemptVars, journalVars, serviceVars, cleanupVars>>

AttemptStates == {"idle", "find", "abort", "list", "forget", "create", "begin",
                  "parts", "record", "complete", "remove"}
UploadStates == {"unused", "open", "completed", "aborted"}

Init ==
  /\ file = 1
  /\ pc = "idle" /\ stat = Nothing /\ entry = NoEntry /\ uploadId = Nothing
  /\ done = NoParts /\ number = 1 /\ parts = NoParts
  /\ journal = NoEntry /\ disk = NoEntry
  /\ status = [u \in UploadIds |-> "unused"]
  /\ stored = [u \in UploadIds |-> NoParts]
  /\ object = NoParts
  /\ cleanup = Nothing /\ cleanupPc = "idle" /\ cleaned = FALSE

-----------------------------------------------------------------------------
(* Helpers *)

IsOpen(u) == u \in UploadIds /\ status[u] = "open"

\* Change the journal and rewrite its file; SaveLocked replaces the file in
\* one rename, and leaves the old one, silently, if it cannot.
Write(e) ==
  /\ journal' = e
  /\ disk' \in {e, disk}

\* Remove the entry; without one the file is not touched.
RemoveFromJournal ==
  IF journal.id = Nothing THEN UNCHANGED journalVars ELSE Write(NoEntry)

\* The attempt returns to its caller.
Return ==
  /\ pc' = "idle" /\ stat' = Nothing /\ entry' = NoEntry
  /\ uploadId' = Nothing /\ done' = NoParts /\ number' = 1
  /\ parts' = NoParts

GoTo(where) ==
  /\ pc' = where
  /\ UNCHANGED <<stat, entry, uploadId, done, number, parts>>

\* The service aborts upload u if it is open.
AbortAtService(u) ==
  /\ status' = [status EXCEPT ![u] = IF @ = "open" THEN "aborted" ELSE @]
  /\ UNCHANGED <<stored, object>>

-----------------------------------------------------------------------------
(* The attempt: S3Client::PutObject and MultipartUploader::Upload *)

\* PutObject: read the size and time of the file.
StatLocalFile ==
  /\ pc = "idle"
  /\ stat' = file
  /\ pc' = "find"
  /\ cleaned' = FALSE
  /\ UNCHANGED <<file, entry, uploadId, done, number, parts, journalVars,
                 serviceVars, cleanup, cleanupPc>>

\* Fault: an entry is taken over without comparing it with the file.
FindAnyEntry ==
  /\ pc = "find"
  /\ entry' = journal
  /\ pc' = IF journal.id = Nothing THEN "create" ELSE "list"
  /\ UNCHANGED <<file, stat, uploadId, done, number, parts, journalVars,
                 serviceVars, cleanupVars>>

\* ResolveResume: copy the object's journal entry; an entry of another
\* version of the file is dropped.
FindEntry ==
  /\ pc = "find"
  /\ entry' = journal
  /\ pc' = IF journal.id = Nothing THEN "create"
           ELSE IF journal.stat # stat THEN "abort"
           ELSE "list"
  /\ UNCHANGED <<file, stat, uploadId, done, number, parts, journalVars,
                 serviceVars, cleanupVars>>

\* ResolveResume: abort the stale upload.  The answer is not looked at.
AbortStale ==
  /\ pc = "abort"
  /\ GoTo("forget")
  /\ \/ AbortAtService(entry.id)
     \/ UNCHANGED serviceVars
  /\ UNCHANGED <<file, journalVars, cleanupVars>>

\* Fault: nothing that was uploaded before is taken over.
ListPartsTakeNone ==
  /\ pc = "list"
  /\ \/ /\ IsOpen(entry.id)
        /\ uploadId' = entry.id
        /\ done' = NoParts
        /\ pc' = "parts"
        /\ UNCHANGED <<stat, entry, number, parts>>
     \/ GoTo("forget")
  /\ UNCHANGED <<file, journalVars, serviceVars, cleanupVars>>

\* S3Client::ListParts follows the pages of the answer to their end.
PartsAtService(u) == stored[u]

\* ResolveResume: ask the service for the upload's parts, and take over
\* those on which it agrees with the journal.  It fails if the upload is not
\* open any more, and like every request it may fail otherwise.
ListParts ==
  /\ pc = "list"
  /\ \/ /\ IsOpen(entry.id)
        /\ uploadId' = entry.id
        /\ done' = [p \in Parts |-> IF entry.parts[p] = PartsAtService(entry.id)[p]
                                    THEN entry.parts[p] ELSE Nothing]
        /\ pc' = "parts"
        /\ UNCHANGED <<stat, entry, number, parts>>
     \/ GoTo("forget")
  /\ UNCHANGED <<file, journalVars, serviceVars, cleanupVars>>

\* ResolveResume: remove the entry of an upload that is given up.
ForgetEntry ==
  /\ pc = "forget"
  /\ RemoveFromJournal
  /\ GoTo("create")
  /\ UNCHANGED <<file, serviceVars, cleanupVars>>

\* CreateMultipartUpload, sent once: a new upload id, which the attempt does
\* not learn if the answer is lost.
CreateMultipartUpload ==
  /\ pc = "create"
  /\ \/ \E u \in UploadIds :
          /\ status[u] = "unused"
          /\ \A w \in 1 .. u - 1 : status[w] # "unused"
          /\ status' = [status EXCEPT ![u] = "open"]
          /\ \/ /\ uploadId' = u /\ pc' = "begin"
                /\ UNCHANGED <<stat, entry, done, number, parts>>
             \/ Return
          /\ UNCHANGED <<stored, object>>
     \/ Return /\ UNCHANGED serviceVars
  /\ UNCHANGED <<file, journalVars, cleanupVars>>

\* Upload: enter the new upload into the journal, replacing what is there.
BeginEntry ==
  /\ pc = "begin"
  /\ Write([id |-> uploadId, stat |-> stat, parts |-> NoParts])
  /\ GoTo("parts")
  /\ UNCHANGED <<file, serviceVars, cleanupVars>>

\* The loop, at a part taken over: count it as transferred, unless the
\* progress callback asks to stop.
SkipDonePart ==
  /\ pc = "parts" /\ number <= PartCount
  /\ done[number] # Nothing
  /\ \/ /\ parts' = [parts EXCEPT ![number] = done[number]]
        /\ number' = number + 1
        /\ UNCHANGED <<pc, stat, entry, uploadId, done>>
     \/ Return
  /\ UNCHANGED <<file, journalVars, serviceVars, cleanupVars>>

\* HttpClient::Execute sends a range of the file as the body.  The reader keeps
\* writers out while it is open, and the service refuses bytes that differ from
\* the hash taken before: what it stores is what the file held at one moment.
SendPart(u, p) == IsOpen(u) /\ stored' = [stored EXCEPT ![u][p] = file]

\* Fault: a part is taken for uploaded although its request failed.
UploadPartUnchecked ==
  /\ pc = "parts" /\ number <= PartCount
  /\ done[number] = Nothing
  /\ parts' = [parts EXCEPT ![number] = file]
  /\ pc' = "record"
  /\ stored' \in {stored,
                  IF IsOpen(uploadId)
                  THEN [stored EXCEPT ![uploadId][number] = file] ELSE stored}
  /\ UNCHANGED <<file, stat, entry, uploadId, done, number, journalVars,
                 status, object, cleanupVars>>

\* The loop, at any other part: send what the file holds now.  On failure
\* the attempt ends and leaves upload and journal as they are.
UploadPart ==
  /\ pc = "parts" /\ number <= PartCount
  /\ done[number] = Nothing
  /\ \/ /\ SendPart(uploadId, number)
        /\ \/ /\ parts' = [parts EXCEPT ![number] = file]
              /\ pc' = "record"
              /\ UNCHANGED <<stat, entry, uploadId, done, number>>
           \/ Return
     \/ Return /\ UNCHANGED stored
  /\ UNCHANGED <<file, journalVars, status, object, cleanupVars>>

\* Fault: the progress is not written to the journal.
RecordNothing ==
  /\ pc = "record"
  /\ pc' = "parts" /\ number' = number + 1
  /\ UNCHANGED <<file, stat, entry, uploadId, done, parts, journalVars,
                 serviceVars, cleanupVars>>

\* Fault: the loop goes on two parts instead of one.
RecordPartSkips ==
  /\ pc = "record"
  /\ IF journal.id = Nothing THEN UNCHANGED journalVars
     ELSE Write([journal EXCEPT !.parts[number] = parts[number]])
  /\ pc' = "parts" /\ number' = number + 2
  /\ UNCHANGED <<file, stat, entry, uploadId, done, parts, serviceVars,
                 cleanupVars>>

\* RecordPart: add the part to the object's entry, whichever upload that is
\* of; without an entry nothing is written.
RecordPart ==
  /\ pc = "record"
  /\ IF journal.id = Nothing THEN UNCHANGED journalVars
     ELSE Write([journal EXCEPT !.parts[number] = parts[number]])
  /\ pc' = "parts" /\ number' = number + 1
  /\ UNCHANGED <<file, stat, entry, uploadId, done, parts, serviceVars,
                 cleanupVars>>

\* The loop ends.
LoopEnds ==
  /\ pc = "parts" /\ number > PartCount
  /\ GoTo("complete")
  /\ UNCHANGED <<file, journalVars, serviceVars, cleanupVars>>

\* CompleteMultipartUpload, sent once: the service assembles the object if
\* the upload is open and it holds the parts named.
CompleteMultipartUpload ==
  /\ pc = "complete"
  /\ \/ /\ IsOpen(uploadId) /\ stored[uploadId] = parts
        /\ status' = [status EXCEPT ![uploadId] = "completed"]
        /\ object' = parts
        /\ GoTo("remove") \/ Return
        /\ UNCHANGED stored
     \/ Return /\ UNCHANGED serviceVars
  /\ UNCHANGED <<file, journalVars, cleanupVars>>

\* Upload succeeded: remove the entry and return.
RemoveEntry ==
  /\ pc = "remove"
  /\ RemoveFromJournal
  /\ Return
  /\ UNCHANGED <<file, serviceVars, cleanupVars>>

-----------------------------------------------------------------------------
(* The user *)

\* Another program, or Notepad++ itself, writes the file.
Edit ==
  /\ file < MaxVersion
  /\ file' = file + 1
  /\ UNCHANGED <<attemptVars, journalVars, serviceVars, cleanupVars>>

\* AbortIncompleteUploadsAsk: the uploads to abort are the journal's, and
\* those the service lists.
CleanUp ==
  /\ cleanupPc = "idle"
  /\ \E u \in UploadIds :
       /\ u = journal.id \/ IsOpen(u)
       /\ cleanup' = u
  /\ cleanupPc' = "abort"
  /\ UNCHANGED <<file, attemptVars, journalVars, serviceVars, cleaned>>

\* AbortMultipartUpload on the control lane: it succeeds only if the upload is
\* open, and it may fail before or after its effect.
CleanUpAbort ==
  /\ cleanupPc = "abort"
  /\ \/ /\ IsOpen(cleanup)
        /\ AbortAtService(cleanup)
        /\ cleanupPc' = "remove" /\ UNCHANGED cleanup
     \/ /\ AbortAtService(cleanup) \/ UNCHANGED serviceVars
        /\ cleanupPc' = "idle" /\ cleanup' = Nothing
  /\ UNCHANGED <<file, attemptVars, journalVars, cleaned>>

\* Its completion on the UI thread removes the object's entry, whichever
\* upload that is of.
CleanUpRemove ==
  /\ cleanupPc = "remove"
  /\ RemoveFromJournal
  /\ cleanupPc' = "idle" /\ cleanup' = Nothing
  /\ cleaned' = TRUE
  /\ UNCHANGED <<file, attemptVars, serviceVars>>

-----------------------------------------------------------------------------
\* FileUploadJournal::DeserializeFromXml: everything that the file holds.
DeserializeEntries == journal' = disk

\* Notepad++ or the machine stops; the next session reads the journal file.
Crash ==
  /\ Return
  /\ DeserializeEntries
  /\ cleanupPc' = "idle" /\ cleanup' = Nothing /\ cleaned' = FALSE
  /\ UNCHANGED <<file, disk, serviceVars>>

AttemptStep ==
  \/ FindEntry \/ AbortStale \/ ListParts \/ ForgetEntry
  \/ CreateMultipartUpload \/ BeginEntry
  \/ SkipDonePart \/ UploadPart \/ RecordPart \/ LoopEnds
  \/ CompleteMultipartUpload \/ RemoveEntry

Next ==
  \/ StatLocalFile \/ AttemptStep
  \/ Edit \/ CleanUp \/ CleanUpAbort \/ CleanUpRemove
  \/ Crash

Spec == Init /\ [][Next]_vars

-----------------------------------------------------------------------------
(* Properties *)

\* Every variable has its type.
TypeOK ==
  /\ file \in Versions
  /\ pc \in AttemptStates
  /\ stat \in Versions \cup {Nothing}
  /\ entry \in Entry /\ journal \in Entry /\ disk \in Entry
  /\ uploadId \in UploadIds \cup {Nothing}
  /\ done \in PartMap /\ parts \in PartMap /\ object \in PartMap
  /\ number \in 1 .. PartCount + 1
  /\ status \in [UploadIds -> UploadStates]
  /\ stored \in [UploadIds -> PartMap]
  /\ cleanup \in UploadIds \cup {Nothing}
  /\ cleanupPc \in {"idle", "abort", "remove"}
  /\ cleaned \in BOOLEAN

\* Success means the file: when an attempt succeeds and the file is still the
\* one it looked at, the object is that file, through any number of edits,
\* interrupted attempts, crashes and clean-ups before.
SuccessMeansFile ==
  pc = "remove" /\ file = stat => object = [p \in Parts |-> file]

\* The journal, in memory and on disk, never claims a part the service does
\* not hold (of an upload that is still open).
JournalClaimsOnlyStoredParts ==
  \A e \in {journal, disk} : IsOpen(e.id) =>
    \A p \in Parts : e.parts[p] # Nothing => stored[e.id][p] # Nothing

\* Whenever the attempt may stop, what it has uploaded is in the journal, so
\* that the next attempt can go on from there - unless a clean-up took the
\* entry away meanwhile.
ProgressIsJournalled ==
  pc \in {"parts", "complete"} /\ ~cleaned =>
    /\ journal.id = uploadId
    /\ journal.stat = stat
    /\ \A p \in 1 .. number - 1 : journal.parts[p] = parts[p]

\* README.md: parts that match the resume record are kept "and only the
\* remaining parts are uploaded": no part is sent to an upload when journal
\* and service agree that it holds it.
NoPartSentTwice ==
  [][\A u \in UploadIds, p \in Parts :
       (journal.id = u /\ journal.parts[p] # Nothing
          /\ journal.parts[p] = stored[u][p] /\ UploadPart)
         => ~(u = uploadId /\ p = number)]_vars

\* MultipartUpload.cpp: "A changed local file invalidates every part already
\* uploaded".  The parts of an object come from one version of the file.
ObjectIsOneVersion ==
  \A p, q \in Parts : object[p] = object[q]

\* README.md: "If the file is unchanged, a failed or canceled upload resumes
\* from where it stopped on the next attempt."  An attempt gives an entry up
\* only if the file has changed or the upload is gone.
UnchangedFileResumes ==
  pc = "forget" /\ journal.id = entry.id /\ entry.stat = file
    => ~IsOpen(entry.id)
=============================================================================
