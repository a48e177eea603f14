----------------------------- MODULE LocalStore ------------------------------
(***************************************************************************)
(* What the plugin keeps on the machine, over starts, crashes and clean    *)
(* exits: the cache files, Documents.xml (RemoteDocumentManager), the      *)
(* profiles in NppS3.xml and their secrets in the Credential Manager       *)
(* (ProfileManager, CredentialStore), with the sweeps of CacheManager and  *)
(* the downloads of RequestClient.                                         *)
(*                                                                         *)
(* The UI thread runs each operation as the list of its steps `todo`; the  *)
(* process may die between any two, and the worker runs meanwhile.  A      *)
(* store is written to a .tmp file that is then moved over it.             *)
(***************************************************************************)
EXTENDS RequestClient

CONSTANTS Profiles,  \* ids of profiles
          MaxStarts, \* bound: starts of Notepad++
          MaxOpens,  \* bound: objects opened
          MaxEdits   \* bound: changes in the profiles dialog

ASSUME StoreAssumption ==
  MaxStarts \in Nat /\ MaxOpens \in Nat /\ MaxEdits \in Nat

VARIABLES
  up,       \* the process runs
  todo,     \* the steps left of what the UI thread does
  queue,    \* downloads waiting for the worker
  docs,     \* m_documents: the version a document's etag names, 0 without one
  docFile,  \* Documents.xml
  profiles, \* m_profiles
  profFile, \* NppS3.xml
  secrets,  \* profiles with a secret in the Credential Manager
  opens, starts, edits,
  \* Read by properties only:
  kept,     \* documents that were saved, with their files on disk
  unsure    \* profiles whose removal began, or whose secret could not be stored

docVars == <<docs, docFile, kept>>
profileVars == <<profiles, profFile, secrets, unsure>>
bounds == <<opens, starts, edits>>
vars == <<clientVars, up, todo, queue, docVars, profileVars, bounds>>

Steps == {"loadProfiles", "loadDocs", "prune", "writeDocs", "swapDocs", "sweep",
          "writeProfiles", "swapProfiles", "join", "exit"}
SaveDocs == <<"writeDocs", "swapDocs">>
SaveProfiles == <<"writeProfiles", "swapProfiles">>

HasFile(k) == files[k] # NoFile
NoDocuments == [k \in Keys |-> 0]

Init ==
  /\ ClientInit
  /\ up = FALSE /\ todo = << >> /\ queue = << >>
  /\ docs = NoDocuments /\ docFile = NoDocuments
  /\ profiles = {} /\ profFile = {} /\ secrets = {}
  /\ opens = 0 /\ starts = 0 /\ edits = 0
  /\ kept = {} /\ unsure = {}

Idle == up /\ todo = << >>
At(step) == up /\ todo # << >> /\ Head(todo) = step

-----------------------------------------------------------------------------
(* OnReady *)

OnReady ==
  /\ ~up /\ starts < MaxStarts
  /\ up' = TRUE /\ starts' = starts + 1
  /\ todo' = <<"loadProfiles", "loadDocs", "prune">> \o SaveDocs \o <<"sweep">>
  /\ UNCHANGED <<clientVars, queue, docVars, profileVars, opens, edits>>

\* ProfileManager::DeserializeFromXml and its counterpart for the documents:
\* everything that a well-formed store holds replaces the registry.
DeserializeProfiles == profiles' = profFile
DeserializeDocuments == docs' = docFile

\* A store that cannot be opened or parsed leaves the registry as it is, empty.
LoadProfiles ==
  /\ At("loadProfiles") /\ todo' = Tail(todo)
  /\ DeserializeProfiles \/ UNCHANGED profiles
  /\ UNCHANGED <<clientVars, up, queue, docVars, profFile, secrets, unsure, bounds>>

LoadDocuments ==
  /\ At("loadDocs") /\ todo' = Tail(todo)
  /\ \/ DeserializeDocuments /\ UNCHANGED kept
     \/ UNCHANGED docs /\ kept' = {}
  /\ UNCHANGED <<clientVars, up, queue, docFile, profileVars, bounds>>

\* "Drop mappings whose cache file disappeared".
Prune ==
  /\ At("prune") /\ todo' = Tail(todo)
  /\ docs' = [k \in Keys |-> IF HasFile(k) THEN docs[k] ELSE 0]
  /\ UNCHANGED <<clientVars, up, queue, docFile, kept, profileVars, bounds>>

\* CacheManager::Sweep of the files in `old`: those that no document maps to
\* go, and temporary files too unless they are open.
Sweep(old) ==
  /\ files' = [k \in Keys |-> IF k \in old /\ docs[k] = 0 THEN NoFile ELSE files[k]]
  /\ temps' = [k \in Keys |-> IF k \in old /\ ~(phase = "body" /\ key = k)
                              THEN NoTemp ELSE temps[k]]

\* CleanupStale
CleanupStale ==
  /\ At("sweep") /\ todo' = Tail(todo)
  /\ \E old \in SUBSET Keys : Sweep(old)
  /\ UNCHANGED <<remote, client, posted, up, queue, docVars, profileVars, bounds>>

\* IDC_BTN_CLEARCACHE
ClearCacheNow ==
  /\ Idle /\ Sweep(Keys)
  /\ UNCHANGED <<remote, client, posted, up, todo, queue, docVars, profileVars, bounds>>

-----------------------------------------------------------------------------
(* Saving: the first step may fail and ends the save, the second may too. *)

DropSave == todo' = SubSeq(todo, 3, Len(todo))

\* Fault: Documents.xml is overwritten in place.
WriteDocumentsInPlace ==
  /\ At("writeDocs")
  /\ todo' = Tail(todo) \/ DropSave
  /\ docFile' = NoDocuments
  /\ UNCHANGED <<clientVars, up, queue, docs, kept, profileVars, bounds>>
WriteDocuments ==
  /\ At("writeDocs")
  /\ todo' = Tail(todo) \/ DropSave
  /\ UNCHANGED <<clientVars, up, queue, docVars, profileVars, bounds>>
SwapDocuments ==
  /\ At("swapDocs") /\ todo' = Tail(todo)
  /\ \/ docFile' = docs /\ kept' = {k \in Keys : docs[k] # 0 /\ HasFile(k)}
     \/ UNCHANGED <<docFile, kept>>
  /\ UNCHANGED <<clientVars, up, queue, docs, profileVars, bounds>>

WriteProfiles ==
  /\ At("writeProfiles")
  /\ todo' = Tail(todo) \/ DropSave
  /\ UNCHANGED <<clientVars, up, queue, docVars, profileVars, bounds>>
SwapProfiles ==
  /\ At("swapProfiles") /\ todo' = Tail(todo)
  /\ profFile' \in {profiles, profFile}
  /\ UNCHANGED <<clientVars, up, queue, docVars, profiles, secrets, unsure, bounds>>

-----------------------------------------------------------------------------
(* Opening objects *)

OpenObject(k) ==
  /\ Idle /\ opens < MaxOpens /\ opens' = opens + 1
  /\ queue' = Append(queue, k)
  /\ UNCHANGED <<clientVars, up, todo, docVars, profileVars, starts, edits>>

PickDownload ==
  /\ up /\ queue # << >> /\ Begin(Head(queue))
  /\ queue' = Tail(queue)
  /\ UNCHANGED <<up, todo, docVars, profileVars, bounds>>

Work == up /\ Working /\ UNCHANGED <<up, todo, queue, docVars, profileVars, bounds>>
Cancel == Idle /\ CancelDownload
          /\ UNCHANGED <<up, todo, queue, docVars, profileVars, bounds>>
Service == /\ \E k \in Keys : ObjectChanges(k)
           /\ UNCHANGED <<up, todo, queue, docVars, profileVars, bounds>>

\* The completion of DownloadOpen; `kept` no longer counts on the document
\* until it is saved again.
HandleDownloadOpen ==
  /\ Idle /\ posted # << >>
  /\ posted' = Tail(posted)
  /\ LET ev == Head(posted)
     IN  IF ev.result = "ok"
         THEN docs' = [docs EXCEPT ![ev.key] = ev.version] /\ todo' = SaveDocs
         ELSE UNCHANGED <<docs, todo>>
  /\ UNCHANGED <<remote, files, temps, client, up, queue, docFile, kept, profileVars, bounds>>

-----------------------------------------------------------------------------
(* The profiles dialog *)

\* ProfileManager::SetSecret; the Credential Manager may refuse it.
SetSecret(p) ==
  \/ secrets' = secrets \cup {p} /\ unsure' = unsure \ {p}
  \/ secrets' = secrets /\ unsure' = unsure \cup ({p} \ secrets)

\* IDC_BTN_SAVE: the secret first, whatever becomes of it.
SaveProfile(p) ==
  /\ Idle /\ edits < MaxEdits /\ edits' = edits + 1
  /\ SetSecret(p)
  /\ profiles' = profiles \cup {p}
  /\ todo' = SaveProfiles
  /\ UNCHANGED <<clientVars, up, queue, docVars, profFile, opens, starts>>

\* IDC_BTN_DUPLICATE: the copy gets the secret if there is one.
DuplicateProfile(p, q) ==
  /\ Idle /\ edits < MaxEdits /\ edits' = edits + 1
  /\ p \in profiles /\ q \notin profiles \cup secrets
  /\ \/ p \in secrets /\ SetSecret(q)
     \/ secrets' = secrets /\ unsure' = unsure \cup {q}
  /\ profiles' = profiles \cup {q}
  /\ todo' = SaveProfiles
  /\ UNCHANGED <<clientVars, up, queue, docVars, profFile, opens, starts>>

\* IDC_BTN_DELETE: ProfileManager::Remove drops the secret first.
RemoveProfile(p) ==
  /\ Idle /\ edits < MaxEdits /\ edits' = edits + 1
  /\ p \in profiles
  /\ secrets' \in {secrets \ {p}, secrets} /\ unsure' = unsure \cup {p}
  /\ profiles' = profiles \ {p}
  /\ todo' = SaveProfiles
  /\ UNCHANGED <<clientVars, up, queue, docVars, profFile, opens, starts>>

-----------------------------------------------------------------------------
(* The end of the process *)

Gone ==
  /\ up' = FALSE /\ todo' = << >> /\ queue' = << >> /\ posted' = << >>
  /\ phase' = "idle" /\ attempt' = 0 /\ version' = 0 /\ cancel' = FALSE /\ late' = 0
  /\ docs' = NoDocuments /\ profiles' = {}
  /\ UNCHANGED <<remote, files, temps, key, docFile, kept, profFile, secrets, unsure, bounds>>

Crash == up /\ Gone

\* OnShutdown: the worker is cancelled and joined, what it posted is not
\* handled any more, and both stores are saved.
OnShutdown ==
  /\ Idle
  /\ queue' = << >> /\ cancel' = (phase # "idle")
  /\ todo' = <<"join">> \o SaveProfiles \o SaveDocs \o <<"exit">>
  /\ UNCHANGED <<remote, files, temps, phase, key, attempt, version, posted, late, up,
                 docVars, profileVars, bounds>>
Join ==
  /\ At("join") /\ phase = "idle" /\ todo' = Tail(todo)
  /\ UNCHANGED <<clientVars, up, queue, docVars, profileVars, bounds>>
Exit == At("exit") /\ Gone

\* Somebody else deletes a cache file.
FileDisappears(k) ==
  /\ HasFile(k) /\ files' = [files EXCEPT ![k] = NoFile]
  /\ kept' = kept \ {k}
  /\ UNCHANGED <<remote, temps, client, posted, up, todo, queue, docs, docFile,
                 profileVars, bounds>>

-----------------------------------------------------------------------------
UiStep ==
  \/ LoadProfiles \/ LoadDocuments \/ Prune \/ CleanupStale \/ ClearCacheNow
  \/ WriteDocuments \/ SwapDocuments \/ WriteProfiles \/ SwapProfiles
  \/ HandleDownloadOpen \/ OnShutdown \/ Join \/ Exit \/ Cancel

Next ==
  \/ OnReady \/ Crash \/ UiStep \/ PickDownload \/ Work \/ Service
  \/ \E k \in Keys : OpenObject(k) \/ FileDisappears(k)
  \/ \E p \in Profiles : SaveProfile(p) \/ RemoveProfile(p)
  \/ \E p, q \in Profiles : DuplicateProfile(p, q)

Spec == Init /\ [][Next]_vars

-----------------------------------------------------------------------------
(* Properties *)

Registries == [Keys -> Versions]

\* The worker makes no more attempts than it may.
TypeOK ==
  /\ remote \in Registries /\ files \in [Keys -> Bodies]
  /\ temps \in [Keys -> [exists : BOOLEAN, body : Bodies]]
  /\ phase \in Phases /\ key \in Keys /\ version \in Versions
  /\ attempt \in Nat /\ (attempt = 0 \/ attempt < MaxRetries)
  /\ cancel \in BOOLEAN /\ late \in Nat
  /\ posted \in Seq([key : Keys, result : {"ok", "failed", "cancelled"}, version : Versions])
  /\ up \in BOOLEAN /\ todo \in Seq(Steps) /\ queue \in Seq(Keys)
  /\ docs \in Registries /\ docFile \in Registries
  /\ profiles \subseteq Profiles /\ profFile \subseteq Profiles
  /\ secrets \subseteq Profiles /\ kept \subseteq Keys /\ unsure \subseteq Profiles

\* An interrupted transfer "never masquerades as a completed download",
\* whatever was retried, cancelled, swept or killed: a cache file holds one
\* version, whole.
CacheFileIsOneVersion ==
  \A k \in Keys : HasFile(k) => \E v \in Versions : files[k] = Whole(v)

\* A document never claims a later version than its file holds, so that a save
\* based on an old version is seen as a conflict.
MappingNotNewerThanFile ==
  \A k \in Keys : HasFile(k) => /\ docs[k] <= files[k][1]
                                /\ docFile[k] <= files[k][1]

\* One request may go out after a cancellation, but no other follows it.
CancelStopsRetries == late <= 1

DownloadsAreSound ==
  CacheFileIsOneVersion /\ MappingNotNewerThanFile /\ CancelStopsRetries

\* A document that was saved while its file was there is known after every
\* start whose Documents.xml could be read, and no sweep removes its file.
Loaded == up /\ \A i \in DOMAIN todo : todo[i] \notin {"loadProfiles", "loadDocs", "prune"}
DocumentsKept ==
  \A k \in kept : HasFile(k) /\ (Loaded => docs[k] # 0)

\* A profile has its secret, unless the Credential Manager refused it or a
\* removal of the profile was cut short.
ProfilesHaveSecrets ==
  /\ profiles \subseteq secrets \cup unsure
  /\ profFile \subseteq secrets \cup unsure

StoresSurvive == DocumentsKept /\ ProfilesHaveSecrets
=============================================================================
