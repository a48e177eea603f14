------------------------ MODULE MultipartUploadProofs ------------------------
(***************************************************************************)
(* Theorems about the resumable upload, for any number of parts, versions  *)
(* of the file and upload ids: through every edit, failed request, lost    *)
(* answer, failed write of the journal, crash and clean-up.                *)
(***************************************************************************)
EXTENDS MultipartUpload, TLAPS

Looping == {"parts", "record"}
Working == Looping \cup {"complete", "remove"}

\* Part versions m are of files no older than version s, and no newer than
\* the file.
Within(m, s) ==
  \A p \in Parts : m[p] # Nothing => s <= m[p] /\ m[p] <= file

\* What the entries and the attempt say of a part was read from a file no
\* older than the one the entry, or the attempt, began with.
EntriesAreWithin ==
  \A e \in {journal, disk} : e.id # Nothing =>
    /\ e.stat \in Versions /\ e.stat <= file
    /\ Within(e.parts, e.stat)

AttemptIsWithin ==
  /\ pc # "idle" => stat \in Versions /\ stat <= file
  /\ pc = "list" => Within(entry.parts, stat)
  /\ pc \in Working => Within(done, stat) /\ Within(parts, stat)

\* The service holds what an entry claims, of an upload in any state.
ClaimsAreStored ==
  \A e \in {journal, disk} : \A u \in UploadIds : e.id = u =>
    \A p \in Parts : e.parts[p] # Nothing => stored[u][p] # Nothing

\* Before the loop nothing is taken over and no part is named; in it every
\* part before number is named, and after it all are.
LoopState ==
  /\ pc \notin Working => done = NoParts /\ parts = NoParts /\ number = 1
  /\ pc \in Working \cup {"begin"} => uploadId \in UploadIds
  /\ pc \in Working => \A p \in 1 .. number - 1 : parts[p] # Nothing
  /\ pc = "record" =>
       /\ number <= PartCount /\ done[number] = Nothing
       /\ parts[number] # Nothing /\ stored[uploadId][number] # Nothing
  /\ pc \in {"complete", "remove"} => number = PartCount + 1
  /\ pc = "remove" => object = parts

\* While the attempt works on an upload the journal has its entry or none,
\* and has it unless a clean-up took it away.
JournalFollows ==
  /\ pc = "list" =>
       /\ entry.id # Nothing /\ entry.stat = stat
       /\ journal = entry \/ (cleaned /\ journal.id = Nothing)
  /\ pc \in Looping \cup {"complete"} =>
       \/ cleaned /\ journal.id = Nothing
       \/ journal.id = uploadId /\ journal.stat = stat
  /\ pc \in Looping \cup {"complete"} /\ ~cleaned =>
       /\ \A p \in 1 .. number - 1 : journal.parts[p] = parts[p]
       /\ \A p \in Parts : done[p] # Nothing => journal.parts[p] = done[p]

\* Of the parts ahead of the loop, those on which journal and service agree
\* have been taken over.
Ahead == IF pc = "record" THEN number + 1 ELSE number
AgreedPartsAreDone ==
  pc \in Looping /\ journal.id = uploadId =>
    \A p \in Parts :
      /\ Ahead <= p
      /\ journal.parts[p] # Nothing
      /\ journal.parts[p] = stored[uploadId][p]
      => done[p] # Nothing

UInv == /\ TypeOK
        /\ EntriesAreWithin /\ AttemptIsWithin
        /\ ClaimsAreStored /\ LoopState /\ JournalFollows
        /\ AgreedPartsAreDone

-----------------------------------------------------------------------------
(* Types *)

LEMMA NothingTypes ==
  /\ NoParts \in PartMap
  /\ NoEntry \in Entry
BY DEF NoParts, PartMap, NoEntry, Entry, Nothing

LEMMA UpdateTypes ==
  ASSUME NEW m \in PartMap, NEW p \in Parts, NEW v \in Versions
  PROVE  /\ [m EXCEPT ![p] = v] \in PartMap
         /\ [m EXCEPT ![p] = v][p] = v
         /\ \A q \in Parts : q # p => [m EXCEPT ![p] = v][q] = m[q]
BY DEF PartMap

LEMMA EntryTypes ==
  ASSUME NEW e \in Entry
  PROVE  /\ e.id \in UploadIds \cup {Nothing}
         /\ e.stat \in Versions \cup {Nothing}
         /\ e.parts \in PartMap
BY DEF Entry

LEMMA EntryUpdate ==
  ASSUME NEW e \in Entry, NEW p \in Parts, NEW v \in Versions
  PROVE  LET f == [e EXCEPT !.parts[p] = v]
         IN  /\ f \in Entry
             /\ f.id = e.id /\ f.stat = e.stat
             /\ f.parts = [e.parts EXCEPT ![p] = v]
BY DEF Entry, PartMap

\* What a step can do to the journal.
LEMMA WriteTypes ==
  ASSUME TypeOK, NEW e \in Entry, Write(e)
  PROVE  journal' \in Entry /\ disk' \in Entry
BY DEF TypeOK, Write

LEMMA RemoveTypes ==
  ASSUME TypeOK, RemoveFromJournal
  PROVE  journal' \in Entry /\ disk' \in Entry
BY WriteTypes, NothingTypes DEF TypeOK, RemoveFromJournal, journalVars

\* The part that RecordPart writes was sent.
LEMMA RecordTypes ==
  ASSUME TypeOK, LoopState, RecordPart
  PROVE  /\ number \in Parts /\ parts[number] \in Versions
         /\ [journal EXCEPT !.parts[number] = parts[number]] \in Entry
<1>1. number \in Parts /\ parts[number] \in Versions
  BY CountsAssumption
  DEF TypeOK, LoopState, RecordPart, Parts, PartMap, Versions, Nothing
<1> QED
  BY <1>1, EntryUpdate DEF TypeOK

LEMMA AttemptTypes ==
  ASSUME TypeOK, LoopState, AttemptStep
  PROVE  TypeOK'
<1>1. CASE FindEntry
  BY <1>1 DEF TypeOK, FindEntry, journalVars, serviceVars, cleanupVars,
              AttemptStates
<1>2. CASE AbortStale
  BY <1>2 DEF TypeOK, AbortStale, GoTo, AbortAtService, journalVars,
              serviceVars, cleanupVars, AttemptStates, UploadStates
<1>3. CASE ListParts
  <2>1. CASE IsOpen(entry.id) /\ uploadId' = entry.id
    <3> DEFINE d == [p \in Parts |-> IF entry.parts[p] = PartsAtService(entry.id)[p]
                                     THEN entry.parts[p] ELSE Nothing]
    <3>1. entry.id \in UploadIds
      BY <2>1 DEF IsOpen
    <3>2. d \in PartMap
      BY DEF TypeOK, Entry, PartMap
    <3> QED
      BY <1>3, <2>1, <3>1, <3>2
      DEF TypeOK, ListParts, GoTo, journalVars, serviceVars, cleanupVars,
          AttemptStates
  <2>2. CASE GoTo("forget")
    BY <1>3, <2>2 DEF TypeOK, ListParts, GoTo, journalVars, serviceVars,
                      cleanupVars, AttemptStates
  <2> QED
    BY <1>3, <2>1, <2>2 DEF ListParts
<1>4. CASE ForgetEntry
  BY <1>4, RemoveTypes DEF TypeOK, ForgetEntry, GoTo, serviceVars, cleanupVars,
                           AttemptStates
<1>5. CASE CreateMultipartUpload
  <2>1. status' \in [UploadIds -> UploadStates]
    BY <1>5 DEF TypeOK, CreateMultipartUpload, serviceVars, UploadStates
  <2> QED
    BY <1>5, <2>1, NothingTypes, CountsAssumption
    DEF TypeOK, CreateMultipartUpload, Return, journalVars, serviceVars,
        cleanupVars, AttemptStates
<1>6. CASE BeginEntry
  <2>1. [id |-> uploadId, stat |-> stat, parts |-> NoParts] \in Entry
    BY NothingTypes DEF TypeOK, Entry
  <2> QED
    BY <1>6, <2>1, WriteTypes DEF TypeOK, BeginEntry, GoTo, serviceVars,
                                  cleanupVars, AttemptStates
<1>7. CASE SkipDonePart
  <2>1. number \in Parts /\ done[number] \in Versions
    BY <1>7, CountsAssumption
    DEF TypeOK, SkipDonePart, Parts, PartMap, Versions, Nothing
  <2>2. number + 1 \in 1 .. PartCount + 1
    BY <2>1, CountsAssumption DEF Parts
  <2> QED
    BY <1>7, <2>1, <2>2, NothingTypes, UpdateTypes, CountsAssumption
    DEF TypeOK, SkipDonePart, Return, journalVars, serviceVars, cleanupVars,
        AttemptStates
<1>8. CASE UploadPart
  <2>1. number \in Parts
    BY <1>8, CountsAssumption DEF TypeOK, UploadPart, Parts
  <2>2. [parts EXCEPT ![number] = file] \in PartMap
    BY <2>1, UpdateTypes DEF TypeOK
  <2>3. stored' \in [UploadIds -> PartMap]
    <3>1. CASE SendPart(uploadId, number)
      <4>1. uploadId \in UploadIds
        BY <3>1 DEF SendPart, IsOpen
      <4>2. [stored[uploadId] EXCEPT ![number] = file] \in PartMap
        BY <2>1, <4>1, UpdateTypes DEF TypeOK
      <4> QED
        BY <3>1, <4>1, <4>2 DEF SendPart, TypeOK
    <3> QED
      BY <1>8, <3>1 DEF UploadPart, TypeOK
  <2> QED
    BY <1>8, <2>2, <2>3, NothingTypes, CountsAssumption
    DEF TypeOK, UploadPart, Return, journalVars, cleanupVars, AttemptStates
<1>9. CASE RecordPart
  <2>1. journal' \in Entry /\ disk' \in Entry
    BY <1>9, RecordTypes, WriteTypes DEF TypeOK, RecordPart, journalVars
  <2>2. number + 1 \in 1 .. PartCount + 1
    BY <1>9, RecordTypes, CountsAssumption DEF Parts
  <2> QED
    BY <1>9, <2>1, <2>2 DEF TypeOK, RecordPart, serviceVars, cleanupVars,
                            AttemptStates
<1>10. CASE LoopEnds
  BY <1>10 DEF TypeOK, LoopEnds, GoTo, journalVars, serviceVars, cleanupVars,
               AttemptStates
<1>11. CASE CompleteMultipartUpload
  <2>1. status' \in [UploadIds -> UploadStates]
    BY <1>11 DEF TypeOK, CompleteMultipartUpload, serviceVars, UploadStates
  <2> QED
    BY <1>11, <2>1, NothingTypes, CountsAssumption
    DEF TypeOK, CompleteMultipartUpload, Return, GoTo, journalVars,
        serviceVars, cleanupVars, AttemptStates
<1>12. CASE RemoveEntry
  BY <1>12, RemoveTypes, NothingTypes, CountsAssumption
  DEF TypeOK, RemoveEntry, Return, serviceVars, cleanupVars, AttemptStates
<1> QED
  BY <1>1, <1>2, <1>3, <1>4, <1>5, <1>6, <1>7, <1>8, <1>9, <1>10, <1>11,
     <1>12 DEF AttemptStep

LEMMA TypeStep ==
  ASSUME TypeOK, LoopState, [Next]_vars
  PROVE  TypeOK'
<1>1. CASE AttemptStep
  BY <1>1, AttemptTypes
<1>2. CASE StatLocalFile
  BY <1>2 DEF TypeOK, StatLocalFile, journalVars, serviceVars, AttemptStates
<1>3. CASE Edit
  BY <1>3, CountsAssumption
  DEF TypeOK, Edit, attemptVars, journalVars, serviceVars, cleanupVars, Versions
<1>4. CASE CleanUp
  BY <1>4 DEF TypeOK, CleanUp, attemptVars, journalVars, serviceVars
<1>5. CASE CleanUpAbort
  <2>1. status' \in [UploadIds -> UploadStates] /\ UNCHANGED <<stored, object>>
    BY <1>5 DEF TypeOK, CleanUpAbort, AbortAtService, serviceVars, UploadStates
  <2> QED
    BY <1>5, <2>1 DEF TypeOK, CleanUpAbort, attemptVars, journalVars
<1>6. CASE CleanUpRemove
  BY <1>6, RemoveTypes DEF TypeOK, CleanUpRemove, attemptVars, serviceVars
<1>7. CASE Crash
  <2>1. /\ pc' \in AttemptStates /\ stat' \in Versions \cup {Nothing}
        /\ entry' \in Entry /\ uploadId' \in UploadIds \cup {Nothing}
        /\ done' \in PartMap /\ parts' \in PartMap
        /\ number' \in 1 .. PartCount + 1
    BY <1>7, NothingTypes, CountsAssumption DEF Crash, Return, AttemptStates
  <2> QED
    BY <1>7, <2>1 DEF TypeOK, Crash, DeserializeEntries, serviceVars
<1>8. CASE UNCHANGED vars
  BY <1>8 DEF TypeOK, vars, attemptVars, journalVars, serviceVars, cleanupVars
<1> QED
  BY <1>1, <1>2, <1>3, <1>4, <1>5, <1>6, <1>7, <1>8 DEF Next

-----------------------------------------------------------------------------
(* The entries of the journal *)

NewEntry == [id |-> uploadId, stat |-> stat, parts |-> NoParts]
Recorded == [journal EXCEPT !.parts[number] = parts[number]]

LEMMA RemoveLeaves ==
  ASSUME RemoveFromJournal
  PROVE  \A e \in {journal', disk'} : e \in {journal, disk, NoEntry}
BY DEF RemoveFromJournal, Write, journalVars

\* Where the entries come from that a step leaves in the journal and on disk.
LEMMA EntrySources ==
  ASSUME TypeOK, [Next]_vars
  PROVE  \A e \in {journal', disk'} :
           \/ e \in {journal, disk, NoEntry}
           \/ BeginEntry /\ e = NewEntry
           \/ RecordPart /\ journal.id # Nothing /\ e = Recorded
<1> SUFFICES ASSUME NEW e \in {journal', disk'}
             PROVE  \/ e \in {journal, disk, NoEntry}
                    \/ BeginEntry /\ e = NewEntry
                    \/ RecordPart /\ journal.id # Nothing /\ e = Recorded
  OBVIOUS
<1>1. CASE BeginEntry
  BY <1>1 DEF BeginEntry, Write, NewEntry
<1>2. CASE RecordPart
  BY <1>2 DEF RecordPart, Write, Recorded, journalVars
<1>3. CASE ForgetEntry \/ RemoveEntry \/ CleanUpRemove
  BY <1>3, RemoveLeaves DEF ForgetEntry, RemoveEntry, CleanUpRemove
<1>4. CASE Crash
  BY <1>4 DEF Crash, DeserializeEntries
<1>5. CASE \/ StatLocalFile \/ FindEntry \/ AbortStale \/ ListParts
           \/ CreateMultipartUpload \/ SkipDonePart \/ UploadPart \/ LoopEnds
           \/ CompleteMultipartUpload \/ Edit \/ CleanUp \/ CleanUpAbort
           \/ UNCHANGED vars
  BY <1>5 DEF StatLocalFile, FindEntry, AbortStale, ListParts,
    CreateMultipartUpload, SkipDonePart, UploadPart, LoopEnds,
    CompleteMultipartUpload, Edit, CleanUp, CleanUpAbort, vars, journalVars
<1> QED
  BY <1>1, <1>2, <1>3, <1>4, <1>5 DEF Next, AttemptStep

\* The file only gets newer.
LEMMA FileGrows ==
  ASSUME TypeOK, [Next]_vars
  PROVE  /\ file \in Nat /\ file <= file'
         /\ file' # file => UNCHANGED <<attemptVars, journalVars, serviceVars>>
<1>1. file \in Nat
  BY DEF TypeOK, Versions
<1>2. CASE Edit
  BY <1>1, <1>2 DEF Edit
<1>3. CASE StatLocalFile \/ AttemptStep \/ Crash
  BY <1>1, <1>3 DEF StatLocalFile, Crash, AttemptStep, FindEntry, AbortStale,
    ListParts, ForgetEntry, CreateMultipartUpload, BeginEntry, SkipDonePart,
    UploadPart, RecordPart, LoopEnds, CompleteMultipartUpload, RemoveEntry
<1>4. CASE CleanUp \/ CleanUpAbort \/ CleanUpRemove \/ UNCHANGED vars
  BY <1>1, <1>4 DEF CleanUp, CleanUpAbort, CleanUpRemove, vars
<1> QED
  BY <1>2, <1>3, <1>4 DEF Next

\* The service never loses a part; it stores one when it is sent.
LEMMA StoredGrows ==
  ASSUME TypeOK, [Next]_vars
  PROVE  /\ \/ UNCHANGED stored
            \/ UploadPart /\ SendPart(uploadId, number) /\ number \in Parts
         /\ \A u \in UploadIds : \A p \in Parts :
              stored[u][p] # Nothing => stored'[u][p] # Nothing
<1>1. \/ UNCHANGED stored
      \/ UploadPart /\ SendPart(uploadId, number) /\ number \in Parts
  <2>1. CASE UploadPart
    BY <2>1, CountsAssumption DEF UploadPart, TypeOK, Parts
  <2>2. CASE \/ StatLocalFile \/ FindEntry \/ AbortStale \/ ListParts
             \/ ForgetEntry \/ CreateMultipartUpload \/ BeginEntry
             \/ SkipDonePart \/ RecordPart \/ LoopEnds
    BY <2>2 DEF StatLocalFile, FindEntry, AbortStale, ListParts, ForgetEntry,
      CreateMultipartUpload, BeginEntry, SkipDonePart, RecordPart, LoopEnds,
      AbortAtService, serviceVars
  <2>3. CASE \/ CompleteMultipartUpload \/ RemoveEntry \/ Edit \/ CleanUp
             \/ CleanUpAbort \/ CleanUpRemove \/ Crash \/ UNCHANGED vars
    BY <2>3 DEF CompleteMultipartUpload, RemoveEntry, Edit, CleanUp,
      CleanUpAbort, CleanUpRemove, Crash, AbortAtService, serviceVars, vars
  <2> QED
    BY <2>1, <2>2, <2>3 DEF Next, AttemptStep
<1>2. CASE UNCHANGED stored
  BY <1>2
<1>3. CASE SendPart(uploadId, number) /\ number \in Parts
  <2>1. file # Nothing
    BY DEF TypeOK, Versions, Nothing
  <2>2. uploadId \in UploadIds /\ stored' = [stored EXCEPT ![uploadId][number] = file]
    BY <1>3 DEF SendPart, IsOpen
  <2>3. \A u \in UploadIds : u # uploadId => stored'[u] = stored[u]
    BY <2>2 DEF TypeOK
  <2>4. stored[uploadId] \in PartMap
        /\ stored'[uploadId] = [stored[uploadId] EXCEPT ![number] = file]
    BY <2>2 DEF TypeOK
  <2>5. \A p \in Parts : stored'[uploadId][p] = IF p = number THEN file
                                                ELSE stored[uploadId][p]
    BY <1>3, <2>4, UpdateTypes DEF TypeOK
  <2>6. \A u \in UploadIds : \A p \in Parts :
          stored[u][p] # Nothing => stored'[u][p] # Nothing
    BY <2>1, <2>3, <2>5
  <2> QED
    BY <1>1, <2>6
<1> QED
  BY <1>1, <1>2, <1>3

LEMMA EntriesStep ==
  ASSUME UInv, [Next]_vars
  PROVE  EntriesAreWithin'
<1> USE DEF UInv
<1> SUFFICES ASSUME NEW e \in {journal', disk'}, e.id # Nothing
             PROVE  /\ e.stat \in Versions /\ e.stat <= file'
                    /\ \A p \in Parts : e.parts[p] # Nothing =>
                         e.stat <= e.parts[p] /\ e.parts[p] <= file'
  BY DEF EntriesAreWithin, Within
<1>1. file \in Nat /\ file' \in Nat /\ file <= file'
  BY FileGrows, TypeStep DEF TypeOK, Versions
<1>2. CASE e \in {journal, disk}
  <2>1. e \in Entry /\ e.parts \in PartMap
    BY <1>2, EntryTypes DEF TypeOK
  <2>2. /\ e.stat \in Versions /\ e.stat <= file
        /\ \A p \in Parts : e.parts[p] # Nothing =>
             e.stat <= e.parts[p] /\ e.parts[p] <= file
    BY <1>2 DEF EntriesAreWithin, Within
  <2>3. e.stat \in Nat /\ \A p \in Parts : e.parts[p] \in Nat
    BY <2>1, <2>2 DEF PartMap, Versions, Nothing
  <2> QED
    BY <1>1, <2>2, <2>3
<1>3. CASE e = NoEntry
  BY <1>3 DEF NoEntry
<1>4. CASE BeginEntry /\ e = NewEntry
  <2>1. e.stat = stat /\ \A p \in Parts : e.parts[p] = Nothing
    BY <1>4 DEF NewEntry, NoParts
  <2>2. stat \in Versions /\ stat <= file /\ file' = file
    BY <1>4 DEF BeginEntry, AttemptIsWithin
  <2> QED
    BY <2>1, <2>2
<1>5. CASE RecordPart /\ journal.id # Nothing /\ e = Recorded
  <2>1. pc = "record" /\ file' = file
    BY <1>5 DEF RecordPart
  <2>2. number \in Parts /\ parts[number] \in Versions
    BY <1>5, RecordTypes
  <2>3. e.stat = journal.stat /\ e.parts = [journal.parts EXCEPT ![number] = parts[number]]
    BY <1>5, <2>2, EntryUpdate DEF TypeOK, Recorded
  <2>4. journal.stat = stat
    BY <1>5, <2>1 DEF JournalFollows, Looping
  <2>5. stat \in Versions /\ stat <= file /\ Within(parts, stat)
        /\ Within(journal.parts, stat)
    BY <1>5, <2>1, <2>4 DEF AttemptIsWithin, EntriesAreWithin, Working, Looping
  <2>6. \A p \in Parts : e.parts[p] = IF p = number THEN parts[p]
                                                    ELSE journal.parts[p]
    BY <2>2, <2>3, EntryTypes, UpdateTypes DEF TypeOK
  <2> QED
    BY <2>1, <2>3, <2>4, <2>5, <2>6 DEF Within
<1> QED
  BY <1>2, <1>3, <1>4, <1>5, EntrySources

LEMMA ClaimsStep ==
  ASSUME UInv, [Next]_vars
  PROVE  ClaimsAreStored'
<1> USE DEF UInv
<1> SUFFICES ASSUME NEW e \in {journal', disk'}, NEW u \in UploadIds,
                    e.id = u, NEW p \in Parts, e.parts[p] # Nothing
             PROVE  stored'[u][p] # Nothing
  BY DEF ClaimsAreStored
<1>1. SUFFICES stored[u][p] # Nothing
  BY StoredGrows
<1>2. CASE e \in {journal, disk}
  BY <1>2 DEF ClaimsAreStored
<1>3. CASE e = NoEntry \/ (BeginEntry /\ e = NewEntry)
  BY <1>3 DEF NoEntry, NewEntry, NoParts
<1>4. CASE RecordPart /\ journal.id # Nothing /\ e = Recorded
  <2>1. pc = "record"
    BY <1>4 DEF RecordPart
  <2>2. number \in Parts /\ parts[number] \in Versions
    BY <1>4, RecordTypes
  <2>3. e.id = journal.id /\ e.parts = [journal.parts EXCEPT ![number] = parts[number]]
    BY <1>4, <2>2, EntryUpdate DEF TypeOK, Recorded
  <2>4. CASE p = number
    <3>1. u = uploadId
      BY <1>4, <2>1, <2>3 DEF JournalFollows, Looping
    <3> QED
      BY <2>1, <2>4, <3>1 DEF LoopState
  <2>5. CASE p # number
    <3>1. e.parts[p] = journal.parts[p]
      BY <2>2, <2>3, <2>5, EntryTypes, UpdateTypes DEF TypeOK
    <3> QED
      BY <2>3, <3>1 DEF ClaimsAreStored
  <2> QED
    BY <2>4, <2>5
<1> QED
  BY <1>2, <1>3, <1>4, EntrySources

-----------------------------------------------------------------------------
(* The attempt *)

\* Steps that are not the attempt's own leave it alone, or end it.
LEMMA OtherSteps ==
  ASSUME [Next]_vars, ~AttemptStep, ~StatLocalFile
  PROVE  UNCHANGED <<attemptVars, stored, object>> \/ Crash
BY DEF Next, Edit, CleanUp, CleanUpAbort, CleanUpRemove, AbortAtService, vars,
       serviceVars

\* Ending the attempt restores what holds outside of it.
LEMMA ReturnFacts ==
  ASSUME Return
  PROVE  AttemptIsWithin' /\ LoopState' /\ JournalFollows' /\ AgreedPartsAreDone'
<1>1. pc' = "idle"
  BY DEF Return
<1>2. AttemptIsWithin'
  BY <1>1 DEF AttemptIsWithin, Working, Looping
<1>3. LoopState'
  BY <1>1 DEF Return, LoopState, Working, Looping
<1>4. JournalFollows' /\ AgreedPartsAreDone'
  BY <1>1 DEF JournalFollows, AgreedPartsAreDone, Looping
<1> QED
  BY <1>2, <1>3, <1>4

LEMMA AttemptStays ==
  ASSUME UInv, [Next]_vars, UNCHANGED attemptVars
  PROVE  AttemptIsWithin'
<1> USE DEF UInv
<1>1. /\ file \in Nat /\ file' \in Nat /\ file <= file'
      /\ stat \in Versions \cup {Nothing}
  BY FileGrows, TypeStep DEF TypeOK, Versions
<1>2. /\ pc' = pc /\ stat' = stat /\ entry' = entry /\ done' = done
      /\ parts' = parts
  BY DEF attemptVars
<1>3. \A p \in Parts : /\ entry.parts[p] \in Nat /\ done[p] \in Nat
                       /\ parts[p] \in Nat
  BY EntryTypes DEF TypeOK, PartMap, Versions, Nothing
<1>4. pc # "idle" => stat \in Versions /\ stat <= file'
  BY <1>1 DEF AttemptIsWithin, Versions
<1>5. pc = "list" => \A p \in Parts : entry.parts[p] # Nothing =>
                       stat <= entry.parts[p] /\ entry.parts[p] <= file'
  BY <1>1, <1>3 DEF AttemptIsWithin, Within
<1>6. pc \in Working => \A p \in Parts :
        /\ done[p] # Nothing => stat <= done[p] /\ done[p] <= file'
        /\ parts[p] # Nothing => stat <= parts[p] /\ parts[p] <= file'
  BY <1>1, <1>3 DEF AttemptIsWithin, Within
<1> QED
  BY <1>2, <1>4, <1>5, <1>6 DEF AttemptIsWithin, Within, Working, Looping

LEMMA AttemptStepWithin ==
  ASSUME UInv, AttemptStep
  PROVE  AttemptIsWithin'
<1> USE DEF UInv
<1>1. CASE FindEntry
  <2>1. /\ file' = file /\ stat' = stat /\ entry' = journal
        /\ pc' \in {"create", "abort", "list"} /\ pc = "find"
        /\ pc' = "list" => journal.id # Nothing /\ journal.stat = stat
    BY <1>1 DEF FindEntry
  <2>2. pc' = "list" => \A p \in Parts : journal.parts[p] # Nothing =>
                          stat <= journal.parts[p] /\ journal.parts[p] <= file
    BY <2>1 DEF EntriesAreWithin, Within
  <2>3. stat \in Versions /\ stat <= file
    BY <2>1 DEF AttemptIsWithin
  <2> QED
    BY <2>1, <2>2, <2>3 DEF AttemptIsWithin, Within, Working, Looping
<1>2. CASE \/ AbortStale \/ ForgetEntry
           \/ (ListParts /\ GoTo("forget"))
  <2>1. /\ file' = file /\ stat' = stat /\ pc' \in {"forget", "create"}
        /\ pc # "idle"
    BY <1>2 DEF AbortStale, ForgetEntry, ListParts, GoTo
  <2> QED
    BY <2>1 DEF AttemptIsWithin, Working, Looping
<1>3. CASE ListParts /\ ~GoTo("forget")
  <2>1. /\ file' = file /\ stat' = stat /\ parts' = parts /\ pc = "list"
        /\ pc' = "parts"
        /\ done' = [p \in Parts |->
             IF entry.parts[p] = PartsAtService(entry.id)[p]
             THEN entry.parts[p] ELSE Nothing]
    BY <1>3 DEF ListParts
  <2>2. stat \in Versions /\ stat <= file /\ Within(entry.parts, stat)
    BY <2>1 DEF AttemptIsWithin
  <2>3. parts = NoParts
    BY <2>1 DEF LoopState, Working, Looping
  <2>4. \A p \in Parts : done'[p] \in {entry.parts[p], Nothing}
                         /\ parts'[p] = Nothing
    BY <2>1, <2>3 DEF NoParts
  <2> QED
    BY <2>1, <2>2, <2>4 DEF AttemptIsWithin, Within
<1>4. CASE CreateMultipartUpload /\ ~Return
  BY <1>4 DEF CreateMultipartUpload, AttemptIsWithin, Working, Looping
<1>5. CASE BeginEntry
  <2>1. /\ file' = file /\ stat' = stat /\ pc = "begin" /\ pc' = "parts"
        /\ done' = done /\ parts' = parts
    BY <1>5 DEF BeginEntry, GoTo
  <2>2. done = NoParts /\ parts = NoParts
    BY <2>1 DEF LoopState, Working, Looping
  <2>3. \A p \in Parts : done'[p] = Nothing /\ parts'[p] = Nothing
    BY <2>1, <2>2 DEF NoParts
  <2> QED
    BY <2>1, <2>3 DEF AttemptIsWithin, Within
<1>6. CASE SkipDonePart /\ ~Return
  <2>1. /\ file' = file /\ stat' = stat /\ pc = "parts" /\ pc' = "parts"
        /\ done' = done /\ parts' = [parts EXCEPT ![number] = done[number]]
        /\ number \in Parts
    BY <1>6, CountsAssumption DEF SkipDonePart, TypeOK, Parts
  <2>2. /\ stat \in Versions /\ stat <= file /\ Within(done, stat)
        /\ Within(parts, stat)
    BY <2>1 DEF AttemptIsWithin, Working, Looping
  <2>3. \A p \in Parts : parts'[p] = IF p = number THEN done[p] ELSE parts[p]
    BY <2>1 DEF TypeOK, PartMap
  <2> QED
    BY <2>1, <2>2, <2>3 DEF AttemptIsWithin, Within
<1>7. CASE UploadPart /\ ~Return
  <2>1. /\ file' = file /\ stat' = stat /\ pc = "parts" /\ pc' = "record"
        /\ done' = done /\ parts' = [parts EXCEPT ![number] = file]
        /\ number \in Parts
    BY <1>7, CountsAssumption DEF UploadPart, TypeOK, Parts
  <2>2. /\ stat \in Versions /\ stat <= file /\ Within(done, stat)
        /\ Within(parts, stat)
    BY <2>1 DEF AttemptIsWithin, Working, Looping
  <2>3. \A p \in Parts : parts'[p] = IF p = number THEN file ELSE parts[p]
    BY <2>1 DEF TypeOK, PartMap
  <2>4. file \in Nat
    BY DEF TypeOK, Versions
  <2> QED
    BY <2>1, <2>2, <2>3, <2>4 DEF AttemptIsWithin, Within
<1>8. CASE \/ RecordPart \/ LoopEnds \/ (CompleteMultipartUpload /\ ~Return)
  <2>1. /\ file' = file /\ stat' = stat /\ done' = done /\ parts' = parts
        /\ pc \in Working /\ pc' \in Working
    BY <1>8 DEF RecordPart, LoopEnds, CompleteMultipartUpload, GoTo, Working,
                Looping
  <2>2. /\ stat \in Versions /\ stat <= file /\ Within(done, stat)
        /\ Within(parts, stat)
    BY <2>1 DEF AttemptIsWithin, Working, Looping
  <2> QED
    BY <2>1, <2>2 DEF AttemptIsWithin, Within, Working, Looping
<1>9. CASE Return
  BY <1>9, ReturnFacts
<1> QED
  BY <1>1, <1>2, <1>3, <1>4, <1>5, <1>6, <1>7, <1>8, <1>9
  DEF AttemptStep, RemoveEntry

LEMMA WithinStep ==
  ASSUME UInv, [Next]_vars
  PROVE  AttemptIsWithin'
<1>1. CASE StatLocalFile
  <2>1. pc' = "find" /\ stat' = file /\ file' = file
    BY <1>1 DEF StatLocalFile
  <2>2. file \in Versions /\ file <= file
    BY DEF UInv, TypeOK, Versions
  <2> QED
    BY <2>1, <2>2 DEF AttemptIsWithin, Working, Looping
<1> QED
  BY <1>1, AttemptStepWithin, AttemptStays, OtherSteps, ReturnFacts DEF Crash

LEMMA LoopStep ==
  ASSUME UInv, [Next]_vars
  PROVE  LoopState'
<1> USE DEF UInv
<1>1. CASE \/ StatLocalFile \/ FindEntry \/ AbortStale \/ ForgetEntry
           \/ (ListParts /\ GoTo("forget"))
  <2>1. /\ pc \notin Working \cup {"begin"} /\ pc' \notin Working \cup {"begin"}
        /\ done' = done /\ parts' = parts /\ number' = number
    BY <1>1 DEF StatLocalFile, FindEntry, AbortStale, ForgetEntry, ListParts,
                GoTo, Working, Looping
  <2> QED
    BY <2>1 DEF LoopState, Working, Looping
<1>2. CASE ListParts /\ ~GoTo("forget")
  <2>1. /\ pc = "list" /\ pc' = "parts" /\ parts' = parts /\ number' = number
        /\ uploadId' \in UploadIds
    BY <1>2 DEF ListParts, IsOpen
  <2>2. number' = 1
    BY <2>1 DEF LoopState, Working, Looping
  <2> QED
    BY <2>1, <2>2 DEF LoopState, Working, Looping
<1>3. CASE CreateMultipartUpload /\ ~Return
  <2>1. /\ pc = "create" /\ pc' = "begin" /\ parts' = parts /\ done' = done
        /\ number' = number /\ uploadId' \in UploadIds
    BY <1>3 DEF CreateMultipartUpload
  <2> QED
    BY <2>1 DEF LoopState, Working, Looping
<1>4. CASE BeginEntry
  <2>1. /\ pc = "begin" /\ pc' = "parts" /\ parts' = parts /\ number' = number
        /\ uploadId' = uploadId
    BY <1>4 DEF BeginEntry, GoTo
  <2>2. number = 1
    BY <2>1 DEF LoopState, Working, Looping
  <2> QED
    BY <2>1, <2>2 DEF LoopState, Working, Looping
<1>5. CASE SkipDonePart /\ ~Return
  <2>1. /\ pc = "parts" /\ pc' = "parts" /\ uploadId' = uploadId
        /\ done[number] # Nothing /\ number' = number + 1
        /\ parts' = [parts EXCEPT ![number] = done[number]]
        /\ number \in Parts
    BY <1>5, CountsAssumption DEF SkipDonePart, TypeOK, Parts
  <2>2. \A p \in Parts : parts'[p] = IF p = number THEN done[p] ELSE parts[p]
    BY <2>1 DEF TypeOK, PartMap
  <2>3. \A p \in 1 .. number - 1 : parts[p] # Nothing
    BY <2>1 DEF LoopState, Working, Looping
  <2>4. \A p \in 1 .. number' - 1 : p \in Parts /\ (p = number \/ p \in 1 .. number - 1)
    BY <2>1, CountsAssumption DEF Parts
  <2>5. \A p \in 1 .. number' - 1 : parts'[p] # Nothing
    BY <2>1, <2>2, <2>3, <2>4
  <2> QED
    BY <2>1, <2>5 DEF LoopState, Working, Looping
<1>6. CASE UploadPart /\ ~Return
  <2>1. /\ pc = "parts" /\ pc' = "record" /\ uploadId' = uploadId
        /\ done' = done /\ number' = number /\ done[number] = Nothing
        /\ parts' = [parts EXCEPT ![number] = file]
        /\ number \in Parts /\ number <= PartCount
        /\ SendPart(uploadId, number)
    BY <1>6, CountsAssumption DEF UploadPart, TypeOK, Parts
  <2>2. \A p \in Parts : parts'[p] = IF p = number THEN file ELSE parts[p]
    BY <2>1 DEF TypeOK, PartMap
  <2>3. \A p \in 1 .. number - 1 : p \in Parts /\ parts[p] # Nothing
    BY <2>1, CountsAssumption DEF LoopState, Working, Looping, Parts
  <2>4. file # Nothing
    BY DEF TypeOK, Versions, Nothing
  <2>5. uploadId \in UploadIds /\ stored'[uploadId][number] = file
    BY <2>1 DEF SendPart, IsOpen, TypeOK, PartMap
  <2>6. \A p \in 1 .. number - 1 : parts'[p] # Nothing
    BY <2>2, <2>3, <2>4
  <2>7. parts'[number] # Nothing
    BY <2>1, <2>2, <2>4
  <2> QED
    BY <2>1, <2>4, <2>5, <2>6, <2>7 DEF LoopState, Working, Looping
<1>7. CASE RecordPart
  <2>1. /\ pc = "record" /\ pc' = "parts" /\ uploadId' = uploadId
        /\ parts' = parts /\ number' = number + 1 /\ number \in Parts
    BY <1>7, RecordTypes DEF RecordPart
  <2>2. /\ \A p \in 1 .. number - 1 : parts[p] # Nothing
        /\ parts[number] # Nothing /\ uploadId \in UploadIds
    BY <2>1 DEF LoopState, Working, Looping
  <2>3. \A p \in 1 .. number' - 1 : p = number \/ p \in 1 .. number - 1
    BY <2>1 DEF Parts
  <2>4. \A p \in 1 .. number' - 1 : parts'[p] # Nothing
    BY <2>1, <2>2, <2>3
  <2> QED
    BY <2>1, <2>2, <2>4 DEF LoopState, Working, Looping
<1>8. CASE LoopEnds
  <2>1. /\ pc = "parts" /\ pc' = "complete" /\ number' = number
        /\ parts' = parts /\ uploadId' = uploadId
        /\ number = PartCount + 1
    BY <1>8, CountsAssumption DEF LoopEnds, GoTo, TypeOK
  <2> QED
    BY <2>1 DEF LoopState, Working, Looping
<1>9. CASE CompleteMultipartUpload /\ ~Return
  <2>1. /\ pc = "complete" /\ pc' = "remove" /\ number' = number
        /\ parts' = parts /\ uploadId' = uploadId /\ object' = parts
    BY <1>9 DEF CompleteMultipartUpload, GoTo
  <2> QED
    BY <2>1 DEF LoopState, Working, Looping
<1>10. CASE Return
  BY <1>10, ReturnFacts
<1>11. CASE UNCHANGED <<attemptVars, stored, object>>
  BY <1>11 DEF attemptVars, LoopState, Working, Looping
<1> QED
  BY <1>1, <1>2, <1>3, <1>4, <1>5, <1>6, <1>7, <1>8, <1>9, <1>10, <1>11,
     OtherSteps DEF AttemptStep, RemoveEntry, Crash

\* An upload's entry can only be the one the attempt works on, or be taken
\* away by a clean-up.
LEMMA JournalStays ==
  ASSUME UInv, [Next]_vars, ~AttemptStep, ~StatLocalFile, ~Crash
  PROVE  JournalFollows'
<1> USE DEF UInv
<1>1. /\ pc' = pc /\ stat' = stat /\ entry' = entry /\ uploadId' = uploadId
      /\ done' = done /\ number' = number /\ parts' = parts
  BY OtherSteps DEF attemptVars
<1>2. CASE CleanUpRemove
  <2>1. journal'.id = Nothing /\ cleaned' = TRUE
    BY <1>2 DEF CleanUpRemove, RemoveFromJournal, Write, NoEntry, journalVars
  <2> QED
    BY <1>1, <2>1 DEF JournalFollows, Looping
<1>3. CASE Edit \/ CleanUp \/ CleanUpAbort \/ UNCHANGED vars
  <2>1. journal' = journal /\ cleaned' = cleaned
    BY <1>3 DEF Edit, CleanUp, CleanUpAbort, vars, journalVars, cleanupVars
  <2> QED
    BY <1>1, <2>1 DEF JournalFollows, Looping
<1> QED
  BY <1>2, <1>3 DEF Next

LEMMA JournalStep ==
  ASSUME UInv, [Next]_vars
  PROVE  JournalFollows'
<1> USE DEF UInv
<1>1. CASE FindEntry
  <2>1. /\ pc' \notin Looping \cup {"complete"}
        /\ pc' = "list" =>
             /\ journal.id # Nothing /\ journal.stat = stat
        /\ entry' = journal /\ journal' = journal /\ stat' = stat
    BY <1>1 DEF FindEntry, Looping, journalVars
  <2> QED
    BY <2>1 DEF JournalFollows, Looping
<1>2. CASE \/ StatLocalFile \/ AbortStale \/ ForgetEntry
           \/ (ListParts /\ GoTo("forget"))
           \/ (CreateMultipartUpload /\ ~Return)
           \/ (CompleteMultipartUpload /\ ~Return)
  <2>1. pc' \notin Looping \cup {"list", "complete"}
    BY <1>2 DEF StatLocalFile, AbortStale, ForgetEntry, ListParts, GoTo,
                CreateMultipartUpload, CompleteMultipartUpload, Looping
  <2> QED
    BY <2>1 DEF JournalFollows, Looping
<1>3. CASE ListParts /\ ~GoTo("forget")
  <2>1. /\ pc = "list" /\ pc' = "parts" /\ parts' = parts /\ number' = number
        /\ uploadId' = entry.id /\ stat' = stat /\ journal' = journal
        /\ cleaned' = cleaned
        /\ done' = [p \in Parts |->
             IF entry.parts[p] = PartsAtService(entry.id)[p]
             THEN entry.parts[p] ELSE Nothing]
    BY <1>3 DEF ListParts, journalVars, cleanupVars
  <2>2. /\ entry.id # Nothing /\ entry.stat = stat
        /\ journal = entry \/ (cleaned /\ journal.id = Nothing)
    BY <2>1 DEF JournalFollows
  <2>3. number = 1
    BY <2>1 DEF LoopState, Working, Looping
  <2>4. \A p \in Parts : done'[p] # Nothing => done'[p] = entry.parts[p]
    BY <2>1
  <2>5. \A p \in 1 .. number' - 1 : journal'.parts[p] = parts'[p]
    BY <2>1, <2>3
  <2> QED
    BY <2>1, <2>2, <2>4, <2>5 DEF JournalFollows, Looping
<1>4. CASE BeginEntry
  <2>1. /\ pc = "begin" /\ pc' = "parts" /\ parts' = parts /\ number' = number
        /\ uploadId' = uploadId /\ stat' = stat /\ done' = done
        /\ journal'.id = uploadId /\ journal'.stat = stat
    BY <1>4 DEF BeginEntry, GoTo, Write
  <2>2. number = 1 /\ done = NoParts
    BY <2>1 DEF LoopState, Working, Looping
  <2>3. \A p \in 1 .. number' - 1 : journal'.parts[p] = parts'[p]
    BY <2>1, <2>2
  <2>4. \A p \in Parts : done'[p] = Nothing
    BY <2>1, <2>2 DEF NoParts
  <2> QED
    BY <2>1, <2>3, <2>4 DEF JournalFollows, Looping
<1>5. CASE SkipDonePart /\ ~Return
  <2>1. /\ pc = "parts" /\ pc' = "parts" /\ uploadId' = uploadId
        /\ done[number] # Nothing /\ number' = number + 1 /\ done' = done
        /\ parts' = [parts EXCEPT ![number] = done[number]]
        /\ number \in Parts /\ stat' = stat /\ journal' = journal
        /\ cleaned' = cleaned
    BY <1>5, CountsAssumption
    DEF SkipDonePart, TypeOK, Parts, journalVars, cleanupVars
  <2>2. \A p \in Parts : parts'[p] = IF p = number THEN done[p] ELSE parts[p]
    BY <2>1 DEF TypeOK, PartMap
  <2>3. \A p \in 1 .. number' - 1 : p \in Parts /\ (p = number \/ p \in 1 .. number - 1)
    BY <2>1, CountsAssumption DEF Parts
  <2>4. ~cleaned =>
          /\ \A p \in 1 .. number - 1 : journal.parts[p] = parts[p]
          /\ journal.parts[number] = done[number]
    BY <2>1 DEF JournalFollows, Looping
  <2>5. ~cleaned => \A p \in 1 .. number' - 1 : journal.parts[p] = parts'[p]
    <3> SUFFICES ASSUME ~cleaned, NEW p \in 1 .. number' - 1
                 PROVE  journal.parts[p] = parts'[p]
      OBVIOUS
    <3>1. CASE p = number
      BY <2>2, <2>3, <2>4, <3>1
    <3>2. CASE p # number
      BY <2>2, <2>3, <2>4, <3>2
    <3> QED
      BY <3>1, <3>2
  <2> QED
    BY <2>1, <2>5 DEF JournalFollows, Looping
<1>6. CASE UploadPart /\ ~Return
  <2>1. /\ pc = "parts" /\ pc' = "record" /\ uploadId' = uploadId
        /\ done' = done /\ number' = number
        /\ parts' = [parts EXCEPT ![number] = file]
        /\ number \in Parts /\ stat' = stat /\ journal' = journal
        /\ cleaned' = cleaned
    BY <1>6, CountsAssumption
    DEF UploadPart, TypeOK, Parts, journalVars, cleanupVars
  <2>2. \A p \in 1 .. number - 1 : p \in Parts /\ p # number
    BY <2>1, CountsAssumption DEF Parts
  <2>3. \A p \in 1 .. number - 1 : parts'[p] = parts[p]
    BY <2>1, <2>2 DEF TypeOK, PartMap
  <2> QED
    BY <2>1, <2>3 DEF JournalFollows, Looping
<1>7. CASE RecordPart
  <2>1. /\ pc = "record" /\ pc' = "parts" /\ uploadId' = uploadId
        /\ parts' = parts /\ number' = number + 1 /\ number \in Parts
        /\ parts[number] \in Versions /\ cleaned' = cleaned /\ done' = done
        /\ stat' = stat /\ done[number] = Nothing
    BY <1>7, RecordTypes DEF RecordPart, LoopState, cleanupVars
  <2>2. CASE journal.id = Nothing
    <3>1. journal' = journal
      BY <1>7, <2>2 DEF RecordPart, journalVars
    <3>2. uploadId # Nothing
      BY <2>1 DEF LoopState, Working, Looping, UploadIds, Nothing
    <3>3. cleaned
      BY <2>1, <2>2, <3>2 DEF JournalFollows, Looping
    <3> QED
      BY <2>1, <2>2, <3>1, <3>3 DEF JournalFollows, Looping
  <2>3. CASE journal.id # Nothing
    <3>1. journal' = Recorded
      BY <1>7, <2>3 DEF RecordPart, Write, Recorded
    <3>2. /\ journal'.id = journal.id /\ journal'.stat = journal.stat
          /\ journal'.parts = [journal.parts EXCEPT ![number] = parts[number]]
      BY <2>1, <3>1, EntryUpdate DEF TypeOK, Recorded
    <3>3. journal.parts \in PartMap
      BY EntryTypes DEF TypeOK
    <3>4. \A p \in Parts : journal'.parts[p] = IF p = number THEN parts[p]
                                               ELSE journal.parts[p]
      BY <2>1, <3>2, <3>3, UpdateTypes
    <3>5. journal.id = uploadId /\ journal.stat = stat
      BY <2>1, <2>3 DEF JournalFollows, Looping
    <3>6. ASSUME ~cleaned
          PROVE  \A p \in 1 .. number' - 1 : journal'.parts[p] = parts'[p]
      <4>1. \A p \in 1 .. number' - 1 : p \in Parts /\ (p = number \/ p \in 1 .. number - 1)
        BY <2>1, CountsAssumption DEF Parts
      <4>2. \A p \in 1 .. number - 1 : journal.parts[p] = parts[p]
        BY <2>1, <3>6 DEF JournalFollows, Looping
      <4> QED
        BY <2>1, <3>4, <4>1, <4>2
    <3>7. ASSUME ~cleaned
          PROVE  \A p \in Parts : done'[p] # Nothing => journal'.parts[p] = done'[p]
      <4>1. \A p \in Parts : done[p] # Nothing => journal.parts[p] = done[p]
        BY <2>1, <3>7 DEF JournalFollows, Looping
      <4> QED
        BY <2>1, <3>4, <4>1
    <3> QED
      BY <2>1, <3>2, <3>5, <3>6, <3>7 DEF JournalFollows, Looping
  <2> QED
    BY <2>2, <2>3
<1>8. CASE LoopEnds
  <2>1. /\ pc = "parts" /\ pc' = "complete" /\ number' = number
        /\ parts' = parts /\ uploadId' = uploadId /\ stat' = stat
        /\ done' = done /\ journal' = journal /\ cleaned' = cleaned
    BY <1>8 DEF LoopEnds, GoTo, journalVars, cleanupVars
  <2> QED
    BY <2>1 DEF JournalFollows, Looping
<1>9. CASE Return
  BY <1>9, ReturnFacts
<1> QED
  BY <1>1, <1>2, <1>3, <1>4, <1>5, <1>6, <1>7, <1>8, <1>9, JournalStays
  DEF AttemptStep, RemoveEntry, Crash

LEMMA AgreedStep ==
  ASSUME UInv, [Next]_vars
  PROVE  AgreedPartsAreDone'
<1> USE DEF UInv
<1>1. CASE \/ StatLocalFile \/ FindEntry \/ AbortStale \/ ForgetEntry
           \/ (ListParts /\ GoTo("forget"))
           \/ (CreateMultipartUpload /\ ~Return) \/ LoopEnds
           \/ (CompleteMultipartUpload /\ ~Return)
  <2>1. pc' \notin Looping
    BY <1>1 DEF StatLocalFile, FindEntry, AbortStale, ForgetEntry, ListParts,
                GoTo, CreateMultipartUpload, LoopEnds,
                CompleteMultipartUpload, Looping
  <2> QED
    BY <2>1 DEF AgreedPartsAreDone
<1>2. CASE ListParts /\ ~GoTo("forget")
  <2>1. /\ pc = "list" /\ uploadId' = entry.id /\ journal' = journal
        /\ stored' = stored /\ entry.id \in UploadIds
        /\ done' = [p \in Parts |->
             IF entry.parts[p] = PartsAtService(entry.id)[p]
             THEN entry.parts[p] ELSE Nothing]
    BY <1>2 DEF ListParts, IsOpen, journalVars, serviceVars
  <2>2. journal = entry \/ journal.id # entry.id
    BY <2>1 DEF JournalFollows
  <2> QED
    BY <2>1, <2>2 DEF AgreedPartsAreDone, PartsAtService
<1>3. CASE BeginEntry
  <2>1. \A p \in Parts : journal'.parts[p] = Nothing
    BY <1>3 DEF BeginEntry, Write, NoParts
  <2> QED
    BY <2>1 DEF AgreedPartsAreDone
<1>4. CASE SkipDonePart /\ ~Return
  <2>1. /\ pc = "parts" /\ pc' = "parts" /\ number' = number + 1
        /\ uploadId' = uploadId /\ journal' = journal /\ stored' = stored
        /\ done' = done /\ number \in Nat
    BY <1>4 DEF SkipDonePart, TypeOK, journalVars, serviceVars
  <2>2. \A p \in Parts : Ahead' <= p => Ahead <= p
    BY <2>1, CountsAssumption DEF Ahead, Parts
  <2> QED
    BY <2>1, <2>2 DEF AgreedPartsAreDone, Looping
<1>5. CASE UploadPart /\ ~Return
  <2>1. /\ pc = "parts" /\ pc' = "record" /\ number' = number
        /\ uploadId' = uploadId /\ journal' = journal
        /\ stored' = [stored EXCEPT ![uploadId][number] = file]
        /\ done' = done /\ number \in Parts /\ uploadId \in UploadIds
    BY <1>5, CountsAssumption
    DEF UploadPart, SendPart, IsOpen, TypeOK, Parts, journalVars
  <2>2. \A p \in Parts : Ahead' <= p => Ahead <= p /\ p # number
    BY <2>1, CountsAssumption DEF Ahead, Parts
  <2>3. \A p \in Parts : p # number => stored'[uploadId][p] = stored[uploadId][p]
    BY <2>1 DEF TypeOK, PartMap
  <2> QED
    BY <2>1, <2>2, <2>3 DEF AgreedPartsAreDone, Looping
<1>6. CASE RecordPart
  <2>1. /\ pc = "record" /\ pc' = "parts" /\ number' = number + 1
        /\ uploadId' = uploadId /\ stored' = stored /\ done' = done
        /\ number \in Parts /\ parts[number] \in Versions
    BY <1>6, RecordTypes DEF RecordPart, serviceVars
  <2>2. Ahead' = Ahead /\ \A p \in Parts : Ahead <= p => p # number
    BY <2>1, CountsAssumption DEF Ahead, Parts
  <2>3. /\ journal'.id = journal.id
        /\ \A p \in Parts : p # number => journal'.parts[p] = journal.parts[p]
    <3>1. CASE journal.id = Nothing
      BY <1>6, <3>1 DEF RecordPart, journalVars
    <3>2. CASE journal.id # Nothing
      <4>1. journal' = Recorded
        BY <1>6, <3>2 DEF RecordPart, Write, Recorded
      <4>2. /\ journal'.id = journal.id
            /\ journal'.parts = [journal.parts EXCEPT ![number] = parts[number]]
        BY <2>1, <4>1, EntryUpdate DEF TypeOK, Recorded
      <4> QED
        BY <2>1, <4>2, EntryTypes, UpdateTypes DEF TypeOK
    <3> QED
      BY <3>1, <3>2
  <2> QED
    BY <2>1, <2>2, <2>3 DEF AgreedPartsAreDone, Looping
<1>7. CASE Return
  BY <1>7, ReturnFacts
<1>8. CASE UNCHANGED <<attemptVars, stored, object>> /\ journal' = journal
  BY <1>8 DEF attemptVars, AgreedPartsAreDone, Ahead, Looping
<1>9. CASE CleanUpRemove
  <2>1. journal'.id = Nothing /\ pc' = pc /\ uploadId' = uploadId
    BY <1>9 DEF CleanUpRemove, RemoveFromJournal, Write, NoEntry, journalVars,
                attemptVars
  <2>2. pc \in Looping => uploadId # Nothing
    BY DEF LoopState, Working, Looping, UploadIds, Nothing
  <2> QED
    BY <2>1, <2>2 DEF AgreedPartsAreDone
<1>10. CASE Edit \/ CleanUp \/ CleanUpAbort \/ UNCHANGED vars
  BY <1>8, <1>10 DEF Edit, CleanUp, CleanUpAbort, AbortAtService, vars,
                     journalVars, serviceVars
<1> QED
  BY <1>1, <1>2, <1>3, <1>4, <1>5, <1>6, <1>7, <1>9, <1>10
  DEF Next, AttemptStep, RemoveEntry, Crash

-----------------------------------------------------------------------------
(* The theorems *)

LEMMA InitUInv == Init => UInv
<1> SUFFICES ASSUME Init PROVE UInv
  OBVIOUS
<1>1. TypeOK
  <2>1. /\ status \in [UploadIds -> UploadStates]
        /\ stored \in [UploadIds -> PartMap]
    BY NothingTypes DEF Init, UploadStates
  <2>2. file \in Versions /\ number \in 1 .. PartCount + 1
    BY CountsAssumption DEF Init, Versions
  <2> QED
    BY <2>1, <2>2, NothingTypes DEF Init, TypeOK, AttemptStates
<1>2. journal.id = Nothing /\ disk.id = Nothing
      /\ \A p \in Parts : journal.parts[p] = Nothing /\ disk.parts[p] = Nothing
  BY DEF Init, NoEntry, NoParts
<1>3. EntriesAreWithin /\ ClaimsAreStored
  BY <1>2 DEF EntriesAreWithin, ClaimsAreStored
<1>4. pc = "idle" /\ done = NoParts /\ parts = NoParts /\ number = 1
  BY DEF Init
<1>5. AttemptIsWithin /\ LoopState /\ JournalFollows /\ AgreedPartsAreDone
  BY <1>4 DEF AttemptIsWithin, LoopState, JournalFollows, AgreedPartsAreDone,
              Working, Looping
<1> QED
  BY <1>1, <1>3, <1>5 DEF UInv

LEMMA NextUInv == UInv /\ [Next]_vars => UInv'
<1> SUFFICES ASSUME UInv, [Next]_vars PROVE UInv'
  OBVIOUS
<1>1. TypeOK'
  BY TypeStep DEF UInv
<1> QED
  BY <1>1, EntriesStep, WithinStep, ClaimsStep, LoopStep, JournalStep,
     AgreedStep DEF UInv

LEMMA AlwaysUInv == Spec => []UInv
BY InitUInv, NextUInv, PTL DEF Spec

\* Every variable keeps its type; no index leaves the parts or the uploads.
THEOREM UploadTypes == Spec => []TypeOK
<1>1. UInv => TypeOK
  BY DEF UInv
<1> QED
  BY <1>1, AlwaysUInv, PTL

\* An attempt that succeeds while the file is the one it looked at leaves
\* the object as that file, whatever was resumed: parts taken over from the
\* journal are as recent as the entry they come from, those sent as recent
\* as the attempt, and none is more recent than the file
\* (MultipartUpload.cpp: ResolveResume, Upload).
THEOREM SuccessIsTheFile == Spec => []SuccessMeansFile
<1>1. UInv => SuccessMeansFile
  <2> SUFFICES ASSUME UInv, pc = "remove", file = stat
               PROVE  object = [p \in Parts |-> file]
    BY DEF SuccessMeansFile
  <2> USE DEF UInv
  <2>1. object = parts /\ number = PartCount + 1
        /\ \A p \in 1 .. number - 1 : parts[p] # Nothing
    BY DEF LoopState, Working, Looping
  <2>2. \A p \in Parts : parts[p] # Nothing
    BY <2>1, CountsAssumption DEF Parts
  <2>3. \A p \in Parts : stat <= parts[p] /\ parts[p] <= file
    BY <2>2 DEF AttemptIsWithin, Working, Within
  <2>4. file \in Nat /\ \A p \in Parts : parts[p] \in Nat
    BY DEF TypeOK, PartMap, Versions, Nothing
  <2>5. \A p \in Parts : object[p] = file
    BY <2>1, <2>3, <2>4
  <2> QED
    BY <2>5 DEF TypeOK, PartMap
<1> QED
  BY <1>1, AlwaysUInv, PTL

\* The journal and its file claim only parts that the service holds, across
\* crashes, lost answers and entries that a clean-up took away
\* (UploadJournal.cpp: RecordPart, Remove).
THEOREM JournalIsTrue == Spec => []JournalClaimsOnlyStoredParts
<1>1. UInv => JournalClaimsOnlyStoredParts
  BY DEF UInv, ClaimsAreStored, JournalClaimsOnlyStoredParts, IsOpen
<1> QED
  BY <1>1, AlwaysUInv, PTL

\* Between two parts the journal in memory has all that was uploaded, unless
\* a clean-up removed the entry (MultipartUpload.cpp: Upload).
THEOREM ProgressIsKept == Spec => []ProgressIsJournalled
<1>1. UInv => ProgressIsJournalled
  BY DEF UInv, JournalFollows, Looping, ProgressIsJournalled
<1> QED
  BY <1>1, AlwaysUInv, PTL

\* A part on which journal and service agree is not sent again
\* (MultipartUpload.cpp: ResolveResume, Upload).
THEOREM NothingIsResent == Spec => NoPartSentTwice
<1>1. ASSUME UInv, NEW u \in UploadIds, NEW p \in Parts, journal.id = u,
             journal.parts[p] # Nothing, journal.parts[p] = stored[u][p],
             UploadPart, u = uploadId, p = number
      PROVE  FALSE
  <2>1. pc = "parts" /\ done[number] = Nothing /\ Ahead <= p
    BY <1>1, CountsAssumption DEF UploadPart, Ahead, UInv, TypeOK
  <2> QED
    BY <1>1, <2>1 DEF UInv, AgreedPartsAreDone, Looping
<1>2. UInv => \A u \in UploadIds, p \in Parts :
        (journal.id = u /\ journal.parts[p] # Nothing
           /\ journal.parts[p] = stored[u][p] /\ UploadPart)
          => ~(u = uploadId /\ p = number)
  BY <1>1
<1> QED
  BY <1>2, AlwaysUInv, PTL DEF NoPartSentTwice
=============================================================================
