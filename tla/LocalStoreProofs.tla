-------------------------- MODULE LocalStoreProofs --------------------------
(***************************************************************************)
(* Theorems about downloads and stores, for any number of objects, chunks, *)
(* retries, versions and profiles, and over any number of starts.          *)
(***************************************************************************)
EXTENDS LocalStore, SequenceTheorems, TLAPS

\* What the temporary file of an answer holds is of the answer's version,
\* which the object has or had.
AnswerIsOneVersion ==
  phase \in {"body", "received"} =>
    /\ version \in 1 .. MaxVersion /\ version <= remote[key]
    /\ \A i \in 1 .. Len(temps[key].body) : temps[key].body[i] = version

AttemptsAreCounted == phase = "backoff" => attempt + 1 < MaxRetries

\* A request after the cancellation can only be the one that was under way.
LateIsTheLast ==
  /\ late <= 1
  /\ phase = "connect" => late = 0
  /\ phase # "idle" /\ late > 0 => cancel

\* The versions that are said of an object: in memory, on disk, and in the
\* completions that are not dispatched.
Claims(k, v) ==
  \/ v = docs[k] \/ v = docFile[k]
  \/ \E i \in 1 .. Len(posted) :
       posted[i].key = k /\ posted[i].result = "ok" /\ posted[i].version = v

\* No claim is newer than the object, its file, or the answer that will
\* replace its file.
ClaimsHold ==
  \A k \in Keys : \A v \in Versions : Claims(k, v) =>
    /\ v <= remote[k]
    /\ HasFile(k) => v <= files[k][1]
    /\ phase \in {"body", "received"} /\ key = k => v <= version

PostedHaveVersions ==
  \A i \in 1 .. Len(posted) : posted[i].result = "ok" => posted[i].version # 0

\* Stores are loaded before anything else is done.
Loads == {"loadProfiles", "loadDocs"}
LoadsComeFirst ==
  \A i, j \in 1 .. Len(todo) : i < j /\ todo[j] \in Loads => todo[i] \in Loads

DocumentsStay ==
  \A k \in kept :
    /\ HasFile(k) /\ docFile[k] # 0
    /\ up /\ (\A i \in 1 .. Len(todo) : todo[i] # "loadDocs") => docs[k] # 0

DownloadInv == /\ AnswerIsOneVersion /\ AttemptsAreCounted /\ LateIsTheLast
               /\ CacheFileIsOneVersion
ClaimInv == ClaimsHold /\ PostedHaveVersions
StoreInv == LoadsComeFirst /\ DocumentsStay /\ ProfilesHaveSecrets

SInv == TypeOK /\ DownloadInv /\ ClaimInv /\ StoreInv

Posts == [key : Keys, result : {"ok", "failed", "cancelled"}, version : Versions]

-----------------------------------------------------------------------------
(* Sequences *)

LEMMA AppendFacts ==
  ASSUME NEW S, NEW s \in Seq(S), NEW e \in S
  PROVE  /\ Append(s, e) \in Seq(S)
         /\ Len(s) \in Nat /\ Len(Append(s, e)) = Len(s) + 1
         /\ \A i \in 1 .. Len(s) : Append(s, e)[i] = s[i]
         /\ Append(s, e)[Len(s) + 1] = e
OBVIOUS

LEMMA TailFacts ==
  ASSUME NEW S, NEW s \in Seq(S), s # << >>
  PROVE  /\ Head(s) \in S /\ Head(s) = s[1]
         /\ Tail(s) \in Seq(S)
         /\ Len(s) \in Nat \ {0}
         /\ Len(Tail(s)) = Len(s) - 1
         /\ \A i \in 1 .. Len(s) - 1 : Tail(s)[i] = s[i + 1]
OBVIOUS

\* Bodies are the short sequences of versions.
LEMMA BodyIsSeq ==
  ASSUME NEW b
  PROVE  b \in Bodies <=> b \in Seq(1 .. MaxVersion) /\ Len(b) <= Chunks
<1>1. ASSUME b \in Bodies PROVE b \in Seq(1 .. MaxVersion) /\ Len(b) <= Chunks
  <2>1. PICK n \in 0 .. Chunks : b \in [1 .. n -> 1 .. MaxVersion]
    BY <1>1 DEF Bodies
  <2>2. n \in Nat /\ n <= Chunks
    BY ClientAssumption
  <2>3. b \in Seq(1 .. MaxVersion)
    BY <2>1, <2>2, SeqDef
  <2>4. 1 .. Len(b) = 1 .. n /\ Len(b) \in Nat
    BY <2>1, <2>3, LenProperties
  <2>5. Len(b) = n
    BY <2>2, <2>4
  <2> QED
    BY <2>2, <2>3, <2>5
<1>2. ASSUME b \in Seq(1 .. MaxVersion), Len(b) <= Chunks PROVE b \in Bodies
  <2>1. Len(b) \in 0 .. Chunks
    BY <1>2, LenProperties, ClientAssumption
  <2>2. b \in [1 .. Len(b) -> 1 .. MaxVersion]
    BY <1>2, LenProperties
  <2> QED
    BY <2>1, <2>2 DEF Bodies
<1> QED
  BY <1>1, <1>2

\* A complete body of one version is the version's file.
LEMMA WholeBody ==
  ASSUME NEW b \in Bodies, Len(b) = Chunks, NEW v \in 1 .. MaxVersion,
         \A i \in 1 .. Len(b) : b[i] = v
  PROVE  b = Whole(v) /\ b # NoFile /\ b[1] = v
<1>1. b \in Seq(1 .. MaxVersion)
  BY BodyIsSeq
<1>2. b \in [1 .. Chunks -> 1 .. MaxVersion] /\ 1 \in 1 .. Chunks
  BY <1>1, ClientAssumption
<1>3. b = [i \in 1 .. Chunks |-> v] /\ b[1] = v
  BY <1>2
<1>4. b # << >>
  BY ClientAssumption
<1> QED
  BY <1>3, <1>4 DEF Whole, NoFile

\* A cache file has a first chunk, and it is of the file's version.
LEMMA FileFacts ==
  ASSUME TypeOK, CacheFileIsOneVersion, NEW k \in Keys, HasFile(k)
  PROVE  files[k][1] \in Nat
<1>1. PICK v \in Versions : files[k] = Whole(v)
  BY DEF CacheFileIsOneVersion
<1>2. 1 \in 1 .. Chunks /\ v \in Nat
  BY ClientAssumption DEF Versions
<1> QED
  BY <1>1, <1>2 DEF Whole

-----------------------------------------------------------------------------
(* The worker *)

LEMMA ConcludeFacts ==
  ASSUME SInv, NEW res \in {"ok", "failed", "cancelled"}, Conclude(res)
  PROVE  LET ev == [key |-> key, result |-> res, version |-> version] IN
         /\ phase' = "idle" /\ posted' \in Seq(Posts)
         /\ temps' \in [Keys -> [exists : BOOLEAN, body : Bodies]]
         /\ Len(posted) \in Nat /\ Len(posted') = Len(posted) + 1
         /\ \A i \in 1 .. Len(posted) : posted'[i] = posted[i]
         /\ posted'[Len(posted) + 1] = ev
<1> DEFINE ev == [key |-> key, result |-> res, version |-> version]
<1>1. posted \in Seq(Posts) /\ key \in Keys /\ version \in Versions
      /\ temps \in [Keys -> [exists : BOOLEAN, body : Bodies]]
  BY DEF SInv, TypeOK, Posts
<1>2. ev \in Posts
  BY <1>1 DEF Posts
<1>3. phase' = "idle" /\ posted' = Append(posted, ev)
      /\ temps' = [temps EXCEPT ![key] = NoTemp]
  BY DEF Conclude
<1>4. << >> \in Bodies
  <2>1. << >> \in Seq(1 .. MaxVersion) /\ Len(<< >>) = 0
    BY EmptySeq
  <2>2. Len(<< >>) <= Chunks
    BY <2>1, ClientAssumption
  <2> QED
    BY <2>1, <2>2, BodyIsSeq
<1>5. NoTemp \in [exists : BOOLEAN, body : Bodies]
  BY <1>4 DEF NoTemp
<1>6. temps' \in [Keys -> [exists : BOOLEAN, body : Bodies]]
  BY <1>1, <1>3, <1>5
<1> HIDE DEF ev
<1>7. /\ posted' \in Seq(Posts)
      /\ Len(posted) \in Nat /\ Len(posted') = Len(posted) + 1
      /\ \A i \in 1 .. Len(posted) : posted'[i] = posted[i]
      /\ posted'[Len(posted) + 1] = ev
  BY <1>1, <1>2, <1>3, AppendFacts
<1> QED
  BY <1>3, <1>6, <1>7 DEF ev

\* Of the stores and the UI thread, nothing has changed.
StoresUnchanged == UNCHANGED <<up, todo, docVars, profileVars, bounds>>

LEMMA StoresUntouched ==
  ASSUME SInv, StoresUnchanged,
         \A k \in kept : HasFile(k)'
  PROVE  StoreInv'
<1> USE DEF SInv, StoreInv, StoresUnchanged, docVars, profileVars
<1>1. LoadsComeFirst' /\ ProfilesHaveSecrets'
  BY DEF LoadsComeFirst, ProfilesHaveSecrets
<1>2. DocumentsStay'
  BY DEF DocumentsStay, HasFile
<1> QED
  BY <1>1, <1>2

\* An attempt failed: another one will follow, or the download is over.
LEMMA FailureInv ==
  ASSUME SInv, phase # "idle",
         \/ \E kind \in Kinds : AttemptFailed(kind)
         \/ Conclude("cancelled") \/ Conclude("failed"),
         UNCHANGED <<remote, files, key, attempt, version, cancel, queue>>,
         StoresUnchanged,
         late' \in Nat /\ late' <= 1, late' > late => cancel
  PROVE  SInv'
<1> USE DEF SInv, DownloadInv, ClaimInv
<1>1. CASE phase' = "backoff" /\ UNCHANGED <<temps, posted>> /\ attempt + 1 < MaxRetries
  <2>1. TypeOK'
    BY <1>1 DEF TypeOK, StoresUnchanged, docVars, profileVars, Phases
  <2>2. AnswerIsOneVersion' /\ AttemptsAreCounted' /\ CacheFileIsOneVersion'
    BY <1>1 DEF AnswerIsOneVersion, AttemptsAreCounted, CacheFileIsOneVersion, HasFile
  <2>3. LateIsTheLast'
    BY <1>1 DEF LateIsTheLast, TypeOK
  <2>4. ClaimInv'
    BY <1>1 DEF ClaimsHold, Claims, PostedHaveVersions, HasFile, StoresUnchanged, docVars
  <2>5. StoreInv'
    BY StoresUntouched DEF StoreInv, DocumentsStay, HasFile
  <2> QED
    BY <2>1, <2>2, <2>3, <2>4, <2>5
<1>2. ASSUME NEW res \in {"failed", "cancelled"}, Conclude(res) PROVE SInv'
  <2>1. /\ phase' = "idle" /\ posted' \in Seq(Posts)
        /\ temps' \in [Keys -> [exists : BOOLEAN, body : Bodies]]
        /\ Len(posted) \in Nat /\ Len(posted') = Len(posted) + 1
        /\ \A i \in 1 .. Len(posted) : posted'[i] = posted[i]
        /\ posted'[Len(posted) + 1].result = res
    BY <1>2, ConcludeFacts
  <2>2. TypeOK'
    BY <2>1 DEF TypeOK, StoresUnchanged, docVars, profileVars, Phases, Posts
  <2>3. AnswerIsOneVersion' /\ AttemptsAreCounted' /\ CacheFileIsOneVersion'
    BY <2>1 DEF AnswerIsOneVersion, AttemptsAreCounted, CacheFileIsOneVersion, HasFile
  <2>4. LateIsTheLast'
    BY <2>1 DEF LateIsTheLast, TypeOK
  <2>5. \A i \in 1 .. Len(posted') : posted'[i].result = "ok" =>
          i \in 1 .. Len(posted) /\ posted'[i] = posted[i]
    BY <2>1
  <2>6. \A k \in Keys : \A v \in Versions : Claims(k, v)' => Claims(k, v)
    BY <2>1, <2>5 DEF Claims, StoresUnchanged, docVars
  <2>7. ClaimInv'
    BY <2>1, <2>5, <2>6 DEF ClaimsHold, PostedHaveVersions, HasFile
  <2>8. StoreInv'
    BY StoresUntouched DEF StoreInv, DocumentsStay, HasFile
  <2> QED
    BY <2>2, <2>3, <2>4, <2>7, <2>8
<1> QED
  BY <1>1, <1>2 DEF AttemptFailed

\* The worker goes on without an answer.
LEMMA QuietWork ==
  ASSUME SInv, UNCHANGED <<remote, files, temps, key, version, posted>>,
         StoresUnchanged, queue' \in Seq(Keys),
         phase' \in Phases \ {"body", "received", "backoff"},
         attempt' \in Nat /\ (attempt' = 0 \/ attempt' < MaxRetries),
         cancel' \in BOOLEAN, late' \in Nat, late' <= late,
         phase' = "connect" => late' = 0,
         phase' # "idle" /\ late' > 0 => cancel'
  PROVE  SInv'
<1> USE DEF SInv, DownloadInv, ClaimInv
<1>1. TypeOK'
  BY DEF TypeOK, StoresUnchanged, docVars, profileVars
<1>2. AnswerIsOneVersion' /\ AttemptsAreCounted' /\ CacheFileIsOneVersion'
  BY DEF AnswerIsOneVersion, AttemptsAreCounted, CacheFileIsOneVersion, HasFile
<1>3. LateIsTheLast'
  BY DEF LateIsTheLast, TypeOK
<1>4. ClaimInv'
  BY DEF ClaimsHold, Claims, PostedHaveVersions, HasFile, StoresUnchanged, docVars
<1>5. StoreInv'
  BY StoresUntouched DEF StoreInv, DocumentsStay, HasFile
<1> QED
  BY <1>1, <1>2, <1>3, <1>4, <1>5

\* An answer begins: the temporary file is empty.
LEMMA AnsweredInv ==
  ASSUME SInv, Answered, StoresUnchanged, UNCHANGED queue
  PROVE  SInv'
<1> USE DEF SInv, DownloadInv, ClaimInv
<1>1. /\ phase = "connect" /\ phase' = "body"
      /\ version' = remote[key] /\ remote[key] > 0
      /\ temps' = [temps EXCEPT ![key] = Temp(<< >>)]
      /\ UNCHANGED <<remote, files, key, attempt, cancel, posted>>
      /\ late' = IF cancel THEN late + 1 ELSE late
  BY DEF Answered, Sent
<1>2. /\ remote[key] \in Versions /\ key \in Keys
      /\ late = 0 /\ cancel \in BOOLEAN
  BY <1>1 DEF TypeOK, Registries, LateIsTheLast
<1>3. << >> \in Bodies /\ Len(<< >>) = 0
  <2>1. << >> \in Seq(1 .. MaxVersion) /\ Len(<< >>) = 0
    BY EmptySeq
  <2>2. Len(<< >>) <= Chunks
    BY <2>1, ClientAssumption
  <2> QED
    BY <2>1, <2>2, BodyIsSeq
<1>4. temps' \in [Keys -> [exists : BOOLEAN, body : Bodies]]
  BY <1>1, <1>3, <1>2 DEF TypeOK, Temp
<1>5. temps'[key].body = << >>
  BY <1>1, <1>2 DEF TypeOK, Temp
<1>6. TypeOK'
  BY <1>1, <1>2, <1>4 DEF TypeOK, StoresUnchanged, docVars, profileVars, Phases
<1>7. AnswerIsOneVersion' /\ AttemptsAreCounted' /\ CacheFileIsOneVersion'
  BY <1>1, <1>2, <1>3, <1>5, ClientAssumption
  DEF AnswerIsOneVersion, AttemptsAreCounted, CacheFileIsOneVersion, HasFile, Versions
<1>8. LateIsTheLast'
  BY <1>1, <1>2 DEF LateIsTheLast
<1>9. ClaimInv'
  BY <1>1, <1>2 DEF ClaimsHold, Claims, PostedHaveVersions, HasFile, StoresUnchanged, docVars
<1>10. StoreInv'
  BY <1>1, StoresUntouched DEF StoreInv, DocumentsStay, HasFile
<1> QED
  BY <1>6, <1>7, <1>8, <1>9, <1>10

LEMMA ReceiveChunkInv ==
  ASSUME SInv, ReceiveChunk, StoresUnchanged, UNCHANGED queue
  PROVE  SInv'
<1> USE DEF SInv, DownloadInv, ClaimInv
<1> DEFINE b == temps[key].body
<1>1. /\ phase = "body" /\ Len(b) < Chunks /\ key \in Keys
      /\ temps' = [temps EXCEPT ![key].body = Append(b, version)]
      /\ UNCHANGED <<remote, files, phase, key, attempt, version, cancel, late, posted>>
  BY DEF ReceiveChunk, client, TypeOK
<1>2. /\ version \in 1 .. MaxVersion /\ b \in Bodies
      /\ \A i \in 1 .. Len(b) : b[i] = version
  BY <1>1 DEF AnswerIsOneVersion, TypeOK
<1>3. b \in Seq(1 .. MaxVersion)
  BY <1>2, BodyIsSeq
<1>4. /\ Append(b, version) \in Seq(1 .. MaxVersion)
      /\ Len(Append(b, version)) = Len(b) + 1 /\ Len(b) \in Nat
      /\ \A i \in 1 .. Len(b) : Append(b, version)[i] = b[i]
      /\ Append(b, version)[Len(b) + 1] = version
  BY <1>2, <1>3, AppendFacts
<1>5. /\ Append(b, version) \in Bodies
      /\ \A i \in 1 .. Len(Append(b, version)) : Append(b, version)[i] = version
  <2> HIDE DEF b
  <2>1. Len(Append(b, version)) <= Chunks
    BY <1>1, <1>4, ClientAssumption
  <2>2. Append(b, version) \in Bodies
    BY <1>4, <2>1, BodyIsSeq
  <2> QED
    BY <1>2, <1>4, <2>2
<1>6. /\ temps' \in [Keys -> [exists : BOOLEAN, body : Bodies]]
      /\ temps'[key].body = Append(b, version)
  BY <1>1, <1>5 DEF TypeOK
<1>7. TypeOK'
  BY <1>1, <1>6 DEF TypeOK, StoresUnchanged, docVars, profileVars
<1>8. AnswerIsOneVersion'
  BY <1>1, <1>2, <1>5, <1>6 DEF AnswerIsOneVersion
<1>9. AttemptsAreCounted' /\ CacheFileIsOneVersion' /\ LateIsTheLast'
  BY <1>1 DEF AttemptsAreCounted, CacheFileIsOneVersion, LateIsTheLast, HasFile
<1>10. ClaimInv'
  BY <1>1 DEF ClaimsHold, Claims, PostedHaveVersions, HasFile, StoresUnchanged, docVars
<1>11. StoreInv'
  BY <1>1, StoresUntouched DEF StoreInv, DocumentsStay, HasFile
<1> QED
  BY <1>7, <1>8, <1>9, <1>10, <1>11

\* The temporary file, complete, replaces the cache file.
LEMMA PlacedInv ==
  ASSUME SInv, phase = "received", Len(temps[key].body) = Chunks,
         files' = [files EXCEPT ![key] = temps[key].body],
         Conclude("ok"), UNCHANGED <<remote, key, attempt, version, cancel, late, queue>>,
         StoresUnchanged
  PROVE  SInv'
<1> USE DEF SInv, DownloadInv, ClaimInv
<1> DEFINE b == temps[key].body
<1>1. /\ key \in Keys /\ b \in Bodies /\ version \in 1 .. MaxVersion
      /\ \A i \in 1 .. Len(b) : b[i] = version
  BY DEF TypeOK, AnswerIsOneVersion
<1>2. b = Whole(version) /\ b # NoFile /\ b[1] = version
  BY <1>1, WholeBody
<1>3. /\ files' \in [Keys -> Bodies] /\ files'[key] = b
      /\ \A k \in Keys : k # key => files'[k] = files[k]
  BY <1>1 DEF TypeOK
<1>4. /\ phase' = "idle" /\ posted' \in Seq(Posts)
      /\ temps' \in [Keys -> [exists : BOOLEAN, body : Bodies]]
      /\ Len(posted) \in Nat /\ Len(posted') = Len(posted) + 1
      /\ \A i \in 1 .. Len(posted) : posted'[i] = posted[i]
      /\ posted'[Len(posted) + 1].key = key
      /\ posted'[Len(posted) + 1].version = version
  BY ConcludeFacts
<1>5. TypeOK'
  BY <1>3, <1>4 DEF TypeOK, StoresUnchanged, docVars, profileVars, Phases, Posts
<1>6. CacheFileIsOneVersion'
  BY <1>1, <1>2, <1>3, ClientAssumption DEF CacheFileIsOneVersion, HasFile, Versions
<1>7. AnswerIsOneVersion' /\ AttemptsAreCounted' /\ LateIsTheLast'
  BY <1>4 DEF AnswerIsOneVersion, AttemptsAreCounted, LateIsTheLast
<1>8. ASSUME NEW k \in Keys, NEW v \in Versions, Claims(k, v)'
      PROVE  Claims(k, v) \/ (k = key /\ v = version)
  <2>1. CASE v = docs[k] \/ v = docFile[k]
    BY <2>1 DEF Claims
  <2>2. ASSUME NEW i \in 1 .. Len(posted'), posted'[i].key = k,
               posted'[i].result = "ok", posted'[i].version = v
        PROVE  Claims(k, v) \/ (k = key /\ v = version)
    <3>1. CASE i = Len(posted) + 1
      BY <1>4, <2>2, <3>1
    <3>2. CASE i \in 1 .. Len(posted)
      BY <1>4, <2>2, <3>2 DEF Claims
    <3> QED
      BY <1>4, <3>1, <3>2
  <2> QED
    BY <1>8, <2>1, <2>2 DEF Claims, StoresUnchanged, docVars
<1>9. version <= remote[key] /\ version \in Nat
  BY <1>1 DEF AnswerIsOneVersion
<1>10. ClaimsHold'
  <2> SUFFICES ASSUME NEW k \in Keys, NEW v \in Versions, Claims(k, v)'
               PROVE  v <= remote[k] /\ (HasFile(k)' => v <= files'[k][1])
    BY <1>4 DEF ClaimsHold
  <2>1. CASE k = key
    <3>1. v <= remote[key] /\ v <= version
      <4>1. CASE Claims(key, v)
        BY <1>1, <4>1 DEF ClaimsHold
      <4>2. CASE v = version
        BY <1>9, <4>2
      <4> QED
        BY <1>8, <2>1, <4>1, <4>2
    <3> QED
      BY <1>2, <1>3, <2>1, <3>1
  <2>2. CASE k # key
    BY <1>3, <1>8, <2>2 DEF ClaimsHold, HasFile
  <2> QED
    BY <2>1, <2>2
<1>11. PostedHaveVersions'
  BY <1>1, <1>4 DEF PostedHaveVersions
<1>12. StoreInv'
  <2>1. \A k \in kept : HasFile(k)'
    BY <1>2, <1>3 DEF StoreInv, DocumentsStay, HasFile, TypeOK
  <2> QED
    BY <2>1, StoresUntouched
<1> QED
  BY <1>5, <1>6, <1>7, <1>10, <1>11, <1>12

\* What the worker does.
LEMMA WorkInv ==
  ASSUME SInv, Working, StoresUnchanged, UNCHANGED queue
  PROVE  SInv'
<1>1. /\ attempt \in Nat /\ (attempt = 0 \/ attempt < MaxRetries)
      /\ late \in Nat /\ late <= 1 /\ cancel \in BOOLEAN /\ queue \in Seq(Keys)
      /\ phase = "connect" => late = 0
      /\ phase # "idle" /\ late > 0 => cancel
  BY DEF SInv, TypeOK, DownloadInv, LateIsTheLast
<1>2. CASE Start
  <2>1. CASE cancel
    <3>1. AttemptFailed("Cancelled") /\ "Cancelled" \in Kinds
      BY <1>2, <2>1 DEF Start, Kinds
    <3> QED
      BY <1>1, <1>2, <3>1, FailureInv DEF Start
  <2>2. CASE ~cancel
    BY <1>1, <1>2, <2>2, QuietWork DEF Start, Phases
  <2> QED
    BY <2>1, <2>2
<1>3. CASE Answered
  BY <1>3, AnsweredInv
<1>4. ASSUME NEW kind \in Kinds, NotAnswered(kind) PROVE SInv'
  BY <1>1, <1>4, FailureInv DEF NotAnswered, Sent
<1>5. CASE ReceiveChunk
  BY <1>5, ReceiveChunkInv
<1>6. ASSUME NEW kind \in Kinds, ReceiveFails(kind) PROVE SInv'
  BY <1>1, <1>6, FailureInv DEF ReceiveFails
<1>7. CASE ReceiveEnds
  <2>1. TypeOK'
    BY <1>7 DEF ReceiveEnds, SInv, TypeOK, Phases, StoresUnchanged, docVars, profileVars
  <2>2. DownloadInv'
    BY <1>7 DEF ReceiveEnds, SInv, DownloadInv, AnswerIsOneVersion, AttemptsAreCounted,
      LateIsTheLast, CacheFileIsOneVersion, HasFile
  <2>3. ClaimInv'
    BY <1>7 DEF ReceiveEnds, SInv, ClaimInv, ClaimsHold, Claims, PostedHaveVersions,
      HasFile, StoresUnchanged, docVars
  <2>4. StoreInv'
    BY <1>7, StoresUntouched DEF ReceiveEnds, SInv, StoreInv, DocumentsStay, HasFile
  <2> QED
    BY <2>1, <2>2, <2>3, <2>4 DEF SInv
<1>8. CASE BackOff
  <2>1. CASE Conclude("cancelled") /\ UNCHANGED attempt
    BY <1>1, <1>8, <2>1, FailureInv DEF BackOff
  <2>2. CASE phase' = "start" /\ attempt' = attempt + 1 /\ UNCHANGED <<temps, posted>>
    <3>1. attempt + 1 < MaxRetries
      BY <1>8 DEF BackOff, SInv, DownloadInv, AttemptsAreCounted
    <3> QED
      BY <1>1, <1>8, <2>2, <3>1, QuietWork DEF BackOff, Phases
  <2> QED
    BY <1>8, <2>1, <2>2 DEF BackOff
<1>9. CASE Place
  <2>1. CASE Conclude("failed") /\ UNCHANGED files
    BY <1>1, <1>9, <2>1, FailureInv DEF Place
  <2>2. CASE Conclude("ok") /\ Len(temps[key].body) = Chunks
             /\ files' = [files EXCEPT ![key] = temps[key].body]
    BY <1>9, <2>2, PlacedInv DEF Place
  <2> QED
    BY <1>9, <2>1, <2>2 DEF Place
<1> QED
  BY <1>2, <1>3, <1>4, <1>5, <1>6, <1>7, <1>8, <1>9 DEF Working

-----------------------------------------------------------------------------
(* The worker's surroundings *)

LEMMA PickInv ==
  ASSUME SInv, PickDownload
  PROVE  SInv'
<1> USE DEF SInv, DownloadInv, ClaimInv
<1>1. queue \in Seq(Keys) /\ queue # << >>
  BY DEF PickDownload, TypeOK
<1>2. queue' \in Seq(Keys) /\ key' \in Keys
  BY <1>1, TailFacts DEF PickDownload, Begin
<1>3. /\ phase' = "start" /\ attempt' = 0 /\ cancel' = FALSE /\ late' = 0 /\ version' = 0
      /\ UNCHANGED <<remote, files, temps, posted>> /\ StoresUnchanged
  BY DEF PickDownload, Begin, StoresUnchanged
<1>4. TypeOK'
  <2>1. 0 \in Versions
    BY ClientAssumption DEF Versions
  <2> QED
    BY <1>2, <1>3, <2>1 DEF TypeOK, StoresUnchanged, docVars, profileVars, Phases
<1>5. AnswerIsOneVersion' /\ AttemptsAreCounted' /\ LateIsTheLast' /\ CacheFileIsOneVersion'
  BY <1>3 DEF AnswerIsOneVersion, AttemptsAreCounted, LateIsTheLast,
    CacheFileIsOneVersion, HasFile
<1>6. ClaimInv'
  BY <1>3 DEF ClaimsHold, Claims, PostedHaveVersions, HasFile, StoresUnchanged, docVars
<1>7. StoreInv'
  BY <1>3, StoresUntouched DEF StoreInv, DocumentsStay, HasFile
<1> QED
  BY <1>4, <1>5, <1>6, <1>7

LEMMA CancelInv ==
  ASSUME SInv, CancelDownload, StoresUnchanged, UNCHANGED queue
  PROVE  SInv'
<1> USE DEF SInv, DownloadInv, ClaimInv, CancelDownload
<1>1. TypeOK'
  BY DEF TypeOK, StoresUnchanged, docVars, profileVars
<1>2. AnswerIsOneVersion' /\ AttemptsAreCounted' /\ LateIsTheLast' /\ CacheFileIsOneVersion'
  BY DEF AnswerIsOneVersion, AttemptsAreCounted, LateIsTheLast,
    CacheFileIsOneVersion, HasFile
<1>3. ClaimInv'
  BY DEF ClaimsHold, Claims, PostedHaveVersions, HasFile, StoresUnchanged, docVars
<1>4. StoreInv'
  BY StoresUntouched DEF StoreInv, DocumentsStay, HasFile
<1> QED
  BY <1>1, <1>2, <1>3, <1>4

\* Versions only grow.
LEMMA ServiceInv ==
  ASSUME SInv, NEW o \in Keys, ObjectChanges(o), StoresUnchanged, UNCHANGED queue
  PROVE  SInv'
<1> USE DEF SInv, DownloadInv, ClaimInv
<1>1. PICK v \in {remote[o] + 1} \cap Versions : remote' = [remote EXCEPT ![o] = v]
  BY DEF ObjectChanges
<1>2. UNCHANGED <<files, temps, phase, key, attempt, version, cancel, late, posted>>
  BY DEF ObjectChanges, client
<1>3. /\ remote' \in Registries
      /\ \A k \in Keys : remote[k] \in Nat /\ remote'[k] \in Nat /\ remote[k] <= remote'[k]
  <2>1. remote \in [Keys -> Versions] /\ v \in Versions /\ v = remote[o] + 1
    BY <1>1 DEF TypeOK, Registries
  <2>2. remote' \in [Keys -> Versions]
    BY <1>1, <2>1
  <2>3. \A n \in Versions : n \in Nat
    BY DEF Versions
  <2>4. ASSUME NEW k \in Keys PROVE remote[k] <= remote'[k]
    <3>1. remote'[k] = IF k = o THEN v ELSE remote[k]
      BY <1>1, <2>1
    <3>2. remote[k] \in Nat
      BY <2>1, <2>3
    <3> QED
      BY <2>1, <3>1, <3>2
  <2> QED
    BY <2>1, <2>2, <2>3, <2>4 DEF Registries
<1>4. TypeOK'
  BY <1>2, <1>3 DEF TypeOK, StoresUnchanged, docVars, profileVars
<1>5. AnswerIsOneVersion'
  BY <1>2, <1>3 DEF AnswerIsOneVersion, TypeOK, Versions
<1>6. AttemptsAreCounted' /\ LateIsTheLast' /\ CacheFileIsOneVersion'
  BY <1>2 DEF AttemptsAreCounted, LateIsTheLast, CacheFileIsOneVersion, HasFile
<1>7. ClaimsHold'
  <2> SUFFICES ASSUME NEW k \in Keys, NEW c \in Versions, Claims(k, c)'
               PROVE  /\ c <= remote'[k]
                      /\ HasFile(k)' => c <= files'[k][1]
                      /\ phase' \in {"body", "received"} /\ key' = k => c <= version'
    BY DEF ClaimsHold
  <2>1. Claims(k, c)
    BY <1>2 DEF Claims, StoresUnchanged, docVars
  <2>2. c <= remote[k] /\ c \in Nat
    BY <2>1 DEF ClaimsHold, Versions
  <2> QED
    BY <1>2, <1>3, <2>1, <2>2 DEF ClaimsHold, HasFile
<1>8. PostedHaveVersions'
  BY <1>2 DEF PostedHaveVersions
<1>9. StoreInv'
  BY <1>2, StoresUntouched DEF StoreInv, DocumentsStay, HasFile
<1> QED
  BY <1>4, <1>5, <1>6, <1>7, <1>8, <1>9

\* Cache and temporary files go; not a file that a saved document needs, nor
\* the temporary file of a body that is being received.
LEMMA FilesGo ==
  ASSUME SInv, UNCHANGED <<remote, client, posted, queue>>,
         files' \in [Keys -> Bodies],
         temps' \in [Keys -> [exists : BOOLEAN, body : Bodies]],
         \A k \in Keys : files'[k] = files[k] \/ files'[k] = NoFile,
         \A k \in Keys : temps'[k] = temps[k] \/ temps'[k] = NoTemp
  PROVE  /\ DownloadInv'
         /\ UNCHANGED <<docs, docFile>> => ClaimInv'
<1> USE DEF SInv, DownloadInv, ClaimInv, client
<1>1. AnswerIsOneVersion'
  <2> SUFFICES ASSUME phase \in {"body", "received"}
               PROVE  AnswerIsOneVersion'
    BY DEF AnswerIsOneVersion
  <2>1. CASE temps'[key] = temps[key]
    BY <2>1 DEF AnswerIsOneVersion
  <2>2. CASE temps'[key] = NoTemp
    <3>1. temps'[key].body = << >>
      BY <2>2 DEF NoTemp
    <3>2. \A i \in 1 .. Len(temps'[key].body) : FALSE
      BY <3>1, EmptySeq
    <3> QED
      BY <3>2 DEF AnswerIsOneVersion
  <2> QED
    BY <2>1, <2>2 DEF TypeOK
<1>2. AttemptsAreCounted' /\ LateIsTheLast'
  BY DEF AttemptsAreCounted, LateIsTheLast
<1>3. \A k \in Keys : HasFile(k)' => HasFile(k) /\ files'[k] = files[k]
  BY DEF HasFile
<1>4. CacheFileIsOneVersion'
  BY <1>3 DEF CacheFileIsOneVersion
<1>5. UNCHANGED <<docs, docFile>> => ClaimInv'
  BY <1>3 DEF ClaimsHold, Claims, PostedHaveVersions
<1> QED
  BY <1>1, <1>2, <1>4, <1>5

LEMMA SweepFacts ==
  ASSUME SInv, NEW old, Sweep(old)
  PROVE  /\ files' \in [Keys -> Bodies]
         /\ temps' \in [Keys -> [exists : BOOLEAN, body : Bodies]]
         /\ \A k \in Keys : files'[k] = files[k] \/ (files'[k] = NoFile /\ docs[k] = 0)
         /\ \A k \in Keys : temps'[k] = temps[k] \/ temps'[k] = NoTemp
<1>1. << >> \in Bodies
  <2>1. << >> \in Seq(1 .. MaxVersion) /\ Len(<< >>) = 0
    BY EmptySeq
  <2>2. Len(<< >>) <= Chunks
    BY <2>1, ClientAssumption
  <2> QED
    BY <2>1, <2>2, BodyIsSeq
<1>2. NoTemp \in [exists : BOOLEAN, body : Bodies] /\ NoFile \in Bodies
  BY <1>1 DEF NoTemp, NoFile
<1>3. files \in [Keys -> Bodies] /\ temps \in [Keys -> [exists : BOOLEAN, body : Bodies]]
  BY DEF SInv, TypeOK
<1>4. files' \in [Keys -> Bodies]
      /\ \A k \in Keys : files'[k] = files[k] \/ (files'[k] = NoFile /\ docs[k] = 0)
  <2>1. files' = [k \in Keys |-> IF k \in old /\ docs[k] = 0 THEN NoFile ELSE files[k]]
    BY DEF Sweep
  <2>2. \A k \in Keys : files'[k] = IF k \in old /\ docs[k] = 0 THEN NoFile ELSE files[k]
    BY <2>1
  <2>3. \A k \in Keys : files'[k] = files[k] \/ (files'[k] = NoFile /\ docs[k] = 0)
    BY <2>2
  <2>4. \A k \in Keys : files'[k] \in Bodies
    BY <1>2, <1>3, <2>3
  <2>5. files' \in [Keys -> Bodies]
    BY <2>1, <2>4
  <2> QED
    BY <2>3, <2>5
<1>5. temps' \in [Keys -> [exists : BOOLEAN, body : Bodies]]
      /\ \A k \in Keys : temps'[k] = temps[k] \/ temps'[k] = NoTemp
  <2> DEFINE T == [exists : BOOLEAN, body : Bodies]
  <2>1. NoTemp \in T /\ temps \in [Keys -> T]
    BY <1>2, <1>3
  <2>2. temps' = [k \in Keys |-> IF k \in old /\ ~(phase = "body" /\ key = k)
                                 THEN NoTemp ELSE temps[k]]
    BY DEF Sweep
  <2> HIDE DEF T
  <2>3. temps' \in [Keys -> T]
        /\ \A k \in Keys : temps'[k] = temps[k] \/ temps'[k] = NoTemp
    BY <2>1, <2>2
  <2> QED
    BY <2>3 DEF T
<1> QED
  BY <1>4, <1>5

-----------------------------------------------------------------------------
(* The plans of the UI thread *)

LEMMA StartPlan ==
  LET plan == <<"loadProfiles", "loadDocs", "prune">> \o SaveDocs \o <<"sweep">> IN
  /\ plan \in Seq(Steps) /\ Len(plan) = 6
  /\ plan[1] = "loadProfiles" /\ plan[2] = "loadDocs"
  /\ \A i \in 3 .. 6 : plan[i] \notin Loads
BY DEF SaveDocs, Steps, Loads

LEMMA ExitPlan ==
  LET plan == <<"join">> \o SaveProfiles \o SaveDocs \o <<"exit">> IN
  /\ plan \in Seq(Steps) /\ Len(plan) = 6
  /\ \A i \in 1 .. 6 : plan[i] \notin Loads
BY DEF SaveDocs, SaveProfiles, Steps, Loads

LEMMA SavePlans ==
  /\ SaveDocs \in Seq(Steps) /\ Len(SaveDocs) = 2
  /\ \A i \in 1 .. 2 : SaveDocs[i] \notin Loads
  /\ SaveProfiles \in Seq(Steps) /\ Len(SaveProfiles) = 2
  /\ \A i \in 1 .. 2 : SaveProfiles[i] \notin Loads
<1>1. /\ SaveDocs \in Seq(Steps) /\ Len(SaveDocs) = 2
      /\ \A i \in 1 .. 2 : SaveDocs[i] \notin Loads
  BY DEF SaveDocs, Steps, Loads
<1>2. /\ SaveProfiles \in Seq(Steps) /\ Len(SaveProfiles) = 2
      /\ \A i \in 1 .. 2 : SaveProfiles[i] \notin Loads
  BY DEF SaveProfiles, Steps, Loads
<1> QED
  BY <1>1, <1>2

\* The rest of the plan, with or without the second step of a save.
LEMMA RestOfPlan ==
  ASSUME SInv, todo # << >>, todo' = Tail(todo) \/ DropSave
  PROVE  /\ todo' \in Seq(Steps)
         /\ \E d \in {1, 2} : \A i \in 1 .. Len(todo') :
              i + d \in 1 .. Len(todo) /\ todo'[i] = todo[i + d]
         /\ LoadsComeFirst'
<1>1. todo \in Seq(Steps) /\ Len(todo) \in Nat \ {0}
  BY TailFacts DEF SInv, TypeOK
<1>2. CASE todo' = Tail(todo)
  <2>1. todo' \in Seq(Steps) /\ Len(todo') = Len(todo) - 1
        /\ \A i \in 1 .. Len(todo) - 1 : todo'[i] = todo[i + 1]
    BY <1>1, <1>2, TailFacts
  <2>2. \A i \in 1 .. Len(todo') : i + 1 \in 1 .. Len(todo) /\ todo'[i] = todo[i + 1]
    BY <1>1, <2>1
  <2>3. LoadsComeFirst'
    <3> SUFFICES ASSUME NEW i \in 1 .. Len(todo'), NEW j \in 1 .. Len(todo'),
                        i < j, todo'[j] \in Loads
                 PROVE  todo'[i] \in Loads
      BY DEF LoadsComeFirst
    <3>1. i + 1 \in 1 .. Len(todo) /\ j + 1 \in 1 .. Len(todo) /\ i + 1 < j + 1
      BY <2>2
    <3>2. todo[j + 1] \in Loads => todo[i + 1] \in Loads
      BY <3>1 DEF SInv, StoreInv, LoadsComeFirst
    <3> QED
      BY <2>2, <3>2
  <2> QED
    BY <2>1, <2>2, <2>3
<1>3. CASE DropSave
  <2> DEFINE n == IF Len(todo) < 3 THEN 0 ELSE Len(todo) - 2
  <2>1. todo' \in Seq(Steps) /\ Len(todo') = n
        /\ \A i \in 1 .. n : todo'[i] = todo[i + 2]
    <3>1. CASE Len(todo) < 3
      BY <1>1, <1>3, <3>1, SubSeqEmpty, EmptySeq DEF DropSave
    <3>2. CASE Len(todo) >= 3
      BY <1>1, <1>3, <3>2, SubSeqProperties DEF DropSave
    <3> QED
      BY <1>1, <3>1, <3>2
  <2>2. \A i \in 1 .. Len(todo') : i + 2 \in 1 .. Len(todo) /\ todo'[i] = todo[i + 2]
    BY <1>1, <2>1
  <2>3. LoadsComeFirst'
    <3> SUFFICES ASSUME NEW i \in 1 .. Len(todo'), NEW j \in 1 .. Len(todo'),
                        i < j, todo'[j] \in Loads
                 PROVE  todo'[i] \in Loads
      BY DEF LoadsComeFirst
    <3>1. i + 2 \in 1 .. Len(todo) /\ j + 2 \in 1 .. Len(todo) /\ i + 2 < j + 2
      BY <2>2
    <3>2. todo[j + 2] \in Loads => todo[i + 2] \in Loads
      BY <3>1 DEF SInv, StoreInv, LoadsComeFirst
    <3> QED
      BY <2>2, <3>2
  <2> QED
    BY <2>1, <2>2, <2>3
<1> QED
  BY <1>2, <1>3

\* Once another step is due, the stores are loaded.
LEMMA NoLoadsLeft ==
  ASSUME SInv, NEW step \in Steps \ Loads, At(step)
  PROVE  \A i \in 1 .. Len(todo) : todo[i] \notin Loads
<1>1. todo \in Seq(Steps) /\ todo # << >>
  BY DEF SInv, TypeOK, At
<1>2. todo[1] = step /\ Len(todo) \in Nat \ {0}
  BY <1>1, TailFacts DEF At
<1> QED
  BY <1>1, <1>2 DEF SInv, StoreInv, LoadsComeFirst

\* The worker stands still, and the registry and its file take over what the
\* other holds, or forget.
LEMMA ClaimsStay ==
  ASSUME SInv, UNCHANGED clientVars,
         \A k \in Keys : docs'[k] \in {docs[k], docFile[k], 0},
         \A k \in Keys : docFile'[k] \in {docFile[k], docs[k]}
  PROVE  DownloadInv' /\ ClaimInv'
<1> USE DEF SInv, DownloadInv, ClaimInv, clientVars, client
<1>1. DownloadInv'
  BY DEF AnswerIsOneVersion, AttemptsAreCounted, LateIsTheLast,
    CacheFileIsOneVersion, HasFile
<1>2. PostedHaveVersions'
  BY DEF PostedHaveVersions
<1>3. ClaimsHold'
  <2> SUFFICES ASSUME NEW k \in Keys, NEW v \in Versions, Claims(k, v)'
               PROVE  /\ v <= remote[k]
                      /\ HasFile(k) => v <= files[k][1]
                      /\ phase \in {"body", "received"} /\ key = k => v <= version
    BY DEF ClaimsHold, HasFile
  <2>1. Claims(k, v) \/ v = 0
    BY DEF Claims
  <2>2. CASE Claims(k, v)
    BY <2>2 DEF ClaimsHold
  <2>3. CASE v = 0
    <3>1. remote[k] \in Nat /\ version \in Nat
      BY DEF TypeOK, Registries, Versions
    <3>2. HasFile(k) => files[k][1] \in Nat
      BY FileFacts
    <3> QED
      BY <2>3, <3>1, <3>2
  <2> QED
    BY <2>1, <2>2, <2>3
<1> QED
  BY <1>1, <1>2, <1>3

-----------------------------------------------------------------------------
(* Steps of the UI thread *)

\* While the worker stands still, a step of the UI thread keeps the invariant
\* if it keeps the stores.
LEMMA UiInv ==
  ASSUME SInv, UNCHANGED clientVars,
         queue' \in Seq(Keys), up' \in BOOLEAN, todo' \in Seq(Steps),
         docs' \in Registries, docFile' \in Registries, kept' \subseteq Keys,
         profiles' \subseteq Profiles, profFile' \subseteq Profiles,
         secrets' \subseteq Profiles, unsure' \subseteq Profiles,
         \A k \in Keys : docs'[k] \in {docs[k], docFile[k], 0},
         \A k \in Keys : docFile'[k] \in {docFile[k], docs[k]},
         LoadsComeFirst', DocumentsStay', ProfilesHaveSecrets'
  PROVE  SInv'
<1>1. TypeOK'
  BY DEF SInv, TypeOK, clientVars, client
<1>2. DownloadInv' /\ ClaimInv'
  BY ClaimsStay
<1> QED
  BY <1>1, <1>2 DEF SInv, StoreInv

LEMMA StoreTypes ==
  ASSUME SInv
  PROVE  /\ queue \in Seq(Keys) /\ up \in BOOLEAN /\ todo \in Seq(Steps)
         /\ docs \in Registries /\ docFile \in Registries /\ kept \subseteq Keys
         /\ profiles \subseteq Profiles /\ profFile \subseteq Profiles
         /\ secrets \subseteq Profiles /\ unsure \subseteq Profiles
BY DEF SInv, TypeOK

\* Nothing is left to load: a saved document is known.
LEMMA KnownAfterLoading ==
  ASSUME SInv, Idle \/ \E step \in Steps \ Loads : At(step)
  PROVE  \A k \in kept : docs[k] # 0
<1>1. up /\ \A i \in 1 .. Len(todo) : todo[i] # "loadDocs"
  <2>1. CASE Idle
    BY <2>1, EmptySeq DEF Idle
  <2>2. CASE \E step \in Steps \ Loads : At(step)
    BY <2>2, NoLoadsLeft DEF At, Loads
  <2> QED
    BY <2>1, <2>2
<1> QED
  BY <1>1 DEF SInv, StoreInv, DocumentsStay

\* A step of a plan that has nothing to load any more is done, or the save it
\* begins fails; the registry keeps the documents that count as saved.
LEMMA PlanStepInv ==
  ASSUME SInv, NEW step \in Steps \ Loads, At(step),
         todo' = Tail(todo) \/ DropSave,
         UNCHANGED clientVars, queue' = queue, up' = up,
         docs' \in Registries, docFile' \in Registries, kept' \subseteq Keys,
         UNCHANGED <<profiles, secrets, unsure>>, profFile' \in {profiles, profFile},
         \A k \in Keys : docs'[k] \in {docs[k], docFile[k], 0},
         \A k \in Keys : docFile'[k] \in {docFile[k], docs[k]},
         \A k \in kept' : HasFile(k) /\ docFile'[k] # 0 /\ docs'[k] # 0
  PROVE  SInv'
<1>1. todo # << >>
  BY DEF At
<1>2. todo' \in Seq(Steps) /\ LoadsComeFirst'
  BY <1>1, RestOfPlan
<1>3. DocumentsStay'
  BY DEF DocumentsStay, HasFile, clientVars
<1>4. ProfilesHaveSecrets' /\ profFile' \subseteq Profiles
  BY StoreTypes DEF SInv, StoreInv, ProfilesHaveSecrets
<1> QED
  BY <1>2, <1>3, <1>4, UiInv, StoreTypes

LEMMA PlanStepsInv ==
  ASSUME SInv,
         Prune \/ WriteDocuments \/ SwapDocuments \/ WriteProfiles \/ SwapProfiles \/ Join
  PROVE  SInv'
<1> DEFINE Rest == Steps \ Loads
<1>1. {"prune", "writeDocs", "swapDocs", "writeProfiles", "swapProfiles", "join"} \subseteq Rest
  BY DEF Steps, Loads
<1>2. \A k \in kept : k \in Keys /\ HasFile(k) /\ docFile[k] # 0
  BY StoreTypes DEF SInv, StoreInv, DocumentsStay
<1>3. ASSUME NEW step \in Rest, At(step) PROVE \A k \in kept : docs[k] # 0
  BY <1>3, KnownAfterLoading
<1>4. CASE Prune
  <2>1. At("prune") /\ \A k \in kept : docs[k] # 0
    BY <1>1, <1>3, <1>4 DEF Prune
  <2>2. docs' = [k \in Keys |-> IF HasFile(k) THEN docs[k] ELSE 0]
    BY <1>4 DEF Prune
  <2>3. \A k \in Keys : docs'[k] = docs[k] \/ docs'[k] = 0
    BY <2>2
  <2>4. docs' \in Registries
    <3>1. 0 \in Versions /\ docs \in [Keys -> Versions]
      BY StoreTypes, ClientAssumption DEF Registries, Versions
    <3>2. \A k \in Keys : docs'[k] \in Versions
      BY <2>3, <3>1
    <3> QED
      BY <2>2, <3>2 DEF Registries
  <2>5. \A k \in kept : docs'[k] # 0
    BY <1>2, <2>1, <2>2
  <2> QED
    BY <1>1, <1>2, <1>4, <2>1, <2>3, <2>4, <2>5, PlanStepInv, StoreTypes
    DEF Prune, profileVars
<1>5. CASE WriteDocuments
  BY <1>1, <1>2, <1>3, <1>5, PlanStepInv, StoreTypes DEF WriteDocuments, docVars, profileVars
<1>6. CASE SwapDocuments
  <2>1. CASE docFile' = docs /\ kept' = {k \in Keys : docs[k] # 0 /\ HasFile(k)}
    BY <1>1, <1>6, <2>1, PlanStepInv, StoreTypes DEF SwapDocuments, profileVars
  <2>2. CASE UNCHANGED <<docFile, kept>>
    BY <1>1, <1>2, <1>3, <1>6, <2>2, PlanStepInv, StoreTypes DEF SwapDocuments, profileVars
  <2> QED
    BY <1>6, <2>1, <2>2 DEF SwapDocuments
<1>7. CASE WriteProfiles
  BY <1>1, <1>2, <1>3, <1>7, PlanStepInv, StoreTypes DEF WriteProfiles, docVars, profileVars
<1>8. CASE SwapProfiles
  BY <1>1, <1>2, <1>3, <1>8, PlanStepInv, StoreTypes DEF SwapProfiles, docVars
<1>9. CASE Join
  BY <1>1, <1>2, <1>3, <1>9, PlanStepInv, StoreTypes DEF Join, docVars, profileVars
<1> QED
  BY <1>4, <1>5, <1>6, <1>7, <1>8, <1>9

LEMMA LoadInv ==
  ASSUME SInv, LoadProfiles \/ LoadDocuments
  PROVE  SInv'
<1>1. todo # << >> /\ todo' = Tail(todo)
  BY DEF LoadProfiles, LoadDocuments, At
<1>2. todo' \in Seq(Steps) /\ LoadsComeFirst'
  BY <1>1, RestOfPlan
<1>3. \A k \in kept : k \in Keys /\ HasFile(k) /\ docFile[k] # 0
  BY StoreTypes DEF SInv, StoreInv, DocumentsStay
<1>4. CASE LoadProfiles
  <2>1. /\ UNCHANGED clientVars /\ queue' = queue /\ up' = up
        /\ docs' = docs /\ docFile' = docFile /\ kept' = kept
        /\ profFile' = profFile /\ secrets' = secrets /\ unsure' = unsure
        /\ profiles' = profFile \/ profiles' = profiles
    BY <1>4 DEF LoadProfiles, DeserializeProfiles, docVars
  <2>2. ASSUME up', \A i \in 1 .. Len(todo') : todo'[i] # "loadDocs", NEW k \in kept
        PROVE  docs[k] # 0
    <3>1. /\ todo \in Seq(Steps) /\ Len(todo) \in Nat \ {0} /\ todo[1] = "loadProfiles"
          /\ Len(todo') = Len(todo) - 1
          /\ \A i \in 1 .. Len(todo) - 1 : todo'[i] = todo[i + 1]
      BY <1>1, <1>4, StoreTypes, TailFacts DEF LoadProfiles, At
    <3>2. ASSUME NEW i \in 1 .. Len(todo) PROVE todo[i] # "loadDocs"
      <4>1. CASE i = 1
        BY <3>1, <4>1
      <4>2. CASE i # 1
        <5>1. i - 1 \in 1 .. Len(todo') /\ todo'[i - 1] = todo[i]
          BY <3>1, <4>2
        <5> QED
          BY <2>2, <5>1
      <4> QED
        BY <4>1, <4>2
    <3> QED
      BY <2>1, <2>2, <3>2 DEF SInv, StoreInv, DocumentsStay
  <2>3. DocumentsStay'
    BY <1>3, <2>1, <2>2 DEF DocumentsStay, HasFile, clientVars
  <2>4. ProfilesHaveSecrets'
    BY <2>1 DEF SInv, StoreInv, ProfilesHaveSecrets
  <2> QED
    BY <1>2, <2>1, <2>3, <2>4, UiInv, StoreTypes
<1>5. CASE LoadDocuments
  <2>1. /\ UNCHANGED clientVars /\ queue' = queue /\ up' = up
        /\ docFile' = docFile /\ UNCHANGED profileVars
        /\ \/ docs' = docFile /\ kept' = kept
           \/ docs' = docs /\ kept' = {}
    BY <1>5 DEF LoadDocuments, DeserializeDocuments
  <2>2. DocumentsStay'
    BY <1>3, <2>1 DEF DocumentsStay, HasFile, clientVars
  <2>3. ProfilesHaveSecrets'
    BY <2>1 DEF SInv, StoreInv, ProfilesHaveSecrets, profileVars
  <2> QED
    BY <1>2, <2>1, <2>2, <2>3, UiInv, StoreTypes DEF profileVars
<1> QED
  BY <1>4, <1>5

LEMMA OnReadyInv ==
  ASSUME SInv, OnReady
  PROVE  SInv'
<1>1. /\ todo' \in Seq(Steps) /\ Len(todo') = 6
      /\ todo'[1] = "loadProfiles" /\ todo'[2] = "loadDocs"
      /\ \A i \in 3 .. 6 : todo'[i] \notin Loads
  BY StartPlan DEF OnReady
<1>2. LoadsComeFirst'
  <2> SUFFICES ASSUME NEW i \in 1 .. 6, NEW j \in 1 .. 6, i < j, todo'[j] \in Loads
               PROVE  todo'[i] \in Loads
    BY <1>1 DEF LoadsComeFirst
  <2>1. j \notin 3 .. 6
    BY <1>1
  <2>2. i = 1
    BY <2>1
  <2> QED
    BY <1>1, <2>2 DEF Loads
<1>3. ~ \A i \in 1 .. Len(todo') : todo'[i] # "loadDocs"
  BY <1>1
<1>4. /\ UNCHANGED <<clientVars, queue, docVars, profileVars>> /\ up' = TRUE
  BY DEF OnReady
<1>5. DocumentsStay'
  BY <1>3, <1>4 DEF SInv, StoreInv, DocumentsStay, HasFile, docVars, clientVars
<1>6. ProfilesHaveSecrets'
  BY <1>4 DEF SInv, StoreInv, ProfilesHaveSecrets, profileVars
<1> QED
  BY <1>1, <1>2, <1>4, <1>5, <1>6, UiInv, StoreTypes DEF docVars, profileVars

\* The profiles dialog: a profile's secret is stored, or counts as unsure.
LEMMA DialogInv ==
  ASSUME SInv, Idle, UNCHANGED <<clientVars, up, queue, docVars>>, profFile' = profFile,
         todo' = SaveProfiles,
         profiles' \subseteq Profiles, secrets' \subseteq Profiles, unsure' \subseteq Profiles,
         profiles' \cup profFile \subseteq secrets' \cup unsure'
  PROVE  SInv'
<1>1. todo' \in Seq(Steps) /\ LoadsComeFirst'
  BY SavePlans DEF LoadsComeFirst
<1>2. \A k \in kept : docs[k] # 0
  BY KnownAfterLoading
<1>3. DocumentsStay'
  BY <1>2 DEF SInv, StoreInv, DocumentsStay, HasFile, docVars, clientVars
<1>4. ProfilesHaveSecrets'
  BY DEF ProfilesHaveSecrets
<1> QED
  BY <1>1, <1>3, <1>4, UiInv, StoreTypes DEF docVars

LEMMA DialogStepsInv ==
  ASSUME SInv,
         NEW p \in Profiles, NEW q \in Profiles,
         SaveProfile(p) \/ RemoveProfile(p) \/ DuplicateProfile(p, q)
  PROVE  SInv'
<1>1. /\ profiles \subseteq secrets \cup unsure /\ profFile \subseteq secrets \cup unsure
      /\ profiles \subseteq Profiles /\ secrets \subseteq Profiles /\ unsure \subseteq Profiles
  BY StoreTypes DEF SInv, StoreInv, ProfilesHaveSecrets
<1>2. CASE SaveProfile(p)
  BY <1>1, <1>2, DialogInv DEF SaveProfile, SetSecret
<1>3. CASE RemoveProfile(p)
  BY <1>1, <1>3, DialogInv DEF RemoveProfile
<1>4. CASE DuplicateProfile(p, q)
  BY <1>1, <1>4, DialogInv DEF DuplicateProfile, SetSecret
<1> QED
  BY <1>2, <1>3, <1>4

LEMMA OpenInv ==
  ASSUME SInv, NEW k \in Keys, OpenObject(k)
  PROVE  SInv'
<1>1. queue' \in Seq(Keys)
  BY StoreTypes, AppendFacts DEF OpenObject
<1>2. UNCHANGED <<clientVars, up, todo, docVars, profileVars>>
  BY DEF OpenObject
<1>3. LoadsComeFirst' /\ DocumentsStay' /\ ProfilesHaveSecrets'
  BY <1>2 DEF SInv, StoreInv, LoadsComeFirst, DocumentsStay, ProfilesHaveSecrets, HasFile,
    clientVars, docVars, profileVars
<1> QED
  BY <1>1, <1>2, <1>3, UiInv, StoreTypes DEF docVars, profileVars

\* Files go whose documents do not count as saved.
LEMMA FilesGoInv ==
  ASSUME SInv, UNCHANGED <<remote, client, posted, queue, up, docs, docFile, profileVars>>,
         files' \in [Keys -> Bodies],
         temps' \in [Keys -> [exists : BOOLEAN, body : Bodies]],
         \A k \in Keys : files'[k] = files[k] \/ files'[k] = NoFile,
         \A k \in Keys : temps'[k] = temps[k] \/ temps'[k] = NoTemp,
         kept' \subseteq kept, \A k \in kept' : files'[k] = files[k],
         todo' \in Seq(Steps), LoadsComeFirst',
         \A k \in kept' : up /\ (\A i \in 1 .. Len(todo') : todo'[i] # "loadDocs")
                            => docs[k] # 0
  PROVE  SInv'
<1>1. DownloadInv' /\ ClaimInv'
  BY FilesGo
<1>2. TypeOK'
  BY DEF SInv, TypeOK, client, profileVars
<1>3. DocumentsStay'
  BY DEF SInv, StoreInv, DocumentsStay, HasFile
<1>4. ProfilesHaveSecrets'
  BY DEF SInv, StoreInv, ProfilesHaveSecrets, profileVars
<1> QED
  BY <1>1, <1>2, <1>3, <1>4 DEF SInv, StoreInv

LEMMA SweepInv ==
  ASSUME SInv, CleanupStale \/ ClearCacheNow
  PROVE  SInv'
<1>1. PICK old : Sweep(old)
  BY DEF CleanupStale, ClearCacheNow
<1>2. /\ files' \in [Keys -> Bodies]
      /\ temps' \in [Keys -> [exists : BOOLEAN, body : Bodies]]
      /\ \A k \in Keys : files'[k] = files[k] \/ (files'[k] = NoFile /\ docs[k] = 0)
      /\ \A k \in Keys : temps'[k] = temps[k] \/ temps'[k] = NoTemp
  BY <1>1, SweepFacts
<1>3. UNCHANGED <<remote, client, posted, queue, up, docs, docFile, kept, profileVars>>
  BY DEF CleanupStale, ClearCacheNow, docVars
<1>4. todo' \in Seq(Steps) /\ LoadsComeFirst'
  <2>1. CASE CleanupStale
    BY <2>1, RestOfPlan DEF CleanupStale, At
  <2>2. CASE ClearCacheNow
    BY <2>2, StoreTypes DEF ClearCacheNow, SInv, StoreInv, LoadsComeFirst
  <2> QED
    BY <2>1, <2>2
<1>5. \A k \in kept : docs[k] # 0
  <2>1. "sweep" \in Steps \ Loads
    BY DEF Steps, Loads
  <2> QED
    BY <2>1, KnownAfterLoading DEF CleanupStale, ClearCacheNow
<1>6. \A k \in kept : k \in Keys /\ files'[k] = files[k]
  BY <1>2, <1>5, StoreTypes
<1> QED
  BY <1>2, <1>3, <1>4, <1>5, <1>6, FilesGoInv

LEMMA FileDisappearsInv ==
  ASSUME SInv, NEW o \in Keys, FileDisappears(o)
  PROVE  SInv'
<1>1. /\ files' = [files EXCEPT ![o] = NoFile] /\ kept' = kept \ {o}
      /\ UNCHANGED <<remote, temps, client, posted, queue, up, todo, docs, docFile, profileVars>>
  BY DEF FileDisappears
<1>2. NoFile \in Bodies
  <2>1. << >> \in Seq(1 .. MaxVersion) /\ Len(<< >>) = 0
    BY EmptySeq
  <2>2. Len(<< >>) <= Chunks
    BY <2>1, ClientAssumption
  <2> QED
    BY <2>1, <2>2, BodyIsSeq DEF NoFile
<1>3. files \in [Keys -> Bodies] /\ temps \in [Keys -> [exists : BOOLEAN, body : Bodies]]
  BY DEF SInv, TypeOK
<1>4. /\ files' \in [Keys -> Bodies]
      /\ \A k \in Keys : k # o => files'[k] = files[k]
      /\ files'[o] = NoFile
  BY <1>1, <1>2, <1>3
<1>5. LoadsComeFirst'
  BY <1>1 DEF SInv, StoreInv, LoadsComeFirst
<1>6. \A k \in kept : up /\ (\A i \in 1 .. Len(todo) : todo[i] # "loadDocs") => docs[k] # 0
  BY DEF SInv, StoreInv, DocumentsStay
<1>7. \A k \in kept' : k \in Keys /\ k # o
  BY <1>1, StoreTypes
<1> QED
  BY <1>1, <1>3, <1>4, <1>5, <1>6, <1>7, FilesGoInv, StoreTypes

\* A dispatched completion: the claim moves from the queue to the registry.
LEMMA DispatchInv ==
  ASSUME SInv, HandleDownloadOpen
  PROVE  SInv'
<1> DEFINE ev == Head(posted)
<1>1. /\ posted # << >> /\ posted' = Tail(posted) /\ Idle
      /\ UNCHANGED <<remote, files, temps, client, up, queue, docFile, kept, profileVars>>
      /\ \/ /\ ev.result = "ok" /\ docs' = [docs EXCEPT ![ev.key] = ev.version]
            /\ todo' = SaveDocs
         \/ UNCHANGED <<docs, todo>>
  BY DEF HandleDownloadOpen
<1>2. posted \in Seq(Posts)
  BY DEF SInv, TypeOK, Posts
<1>3. /\ ev \in Posts /\ ev = posted[1] /\ Tail(posted) \in Seq(Posts)
      /\ Len(posted) \in Nat \ {0} /\ Len(Tail(posted)) = Len(posted) - 1
      /\ \A i \in 1 .. Len(posted) - 1 : Tail(posted)[i] = posted[i + 1]
  BY <1>1, <1>2, TailFacts
<1>4. /\ \A i \in 1 .. Len(posted') : i + 1 \in 1 .. Len(posted) /\ posted'[i] = posted[i + 1]
      /\ posted' \in Seq(Posts)
  BY <1>1, <1>3
<1>5. ev.key \in Keys /\ ev.version \in Versions /\ 1 \in 1 .. Len(posted)
  BY <1>3 DEF Posts
<1> HIDE DEF ev
<1>6. docs \in [Keys -> Versions]
  BY StoreTypes DEF Registries
<1>7. /\ docs' \in Registries
      /\ \A k \in Keys : \/ docs'[k] = docs[k]
                         \/ k = ev.key /\ ev.result = "ok" /\ docs'[k] = ev.version
  <2>1. CASE ev.result = "ok" /\ docs' = [docs EXCEPT ![ev.key] = ev.version]
    BY <1>5, <1>6, <2>1 DEF Registries
  <2>2. CASE docs' = docs
    BY <1>6, <2>2 DEF Registries
  <2> QED
    BY <1>1, <2>1, <2>2
<1>8. \A k \in Keys : \A v \in Versions : Claims(k, v)' => Claims(k, v)
  <2> SUFFICES ASSUME NEW k \in Keys, NEW v \in Versions, Claims(k, v)'
               PROVE  Claims(k, v)
    OBVIOUS
  <2>1. CASE v = docs'[k]
    BY <1>3, <1>5, <1>7, <2>1 DEF Claims
  <2>2. CASE v = docFile[k]
    BY <2>2 DEF Claims
  <2>3. ASSUME NEW i \in 1 .. Len(posted'), posted'[i].key = k,
               posted'[i].result = "ok", posted'[i].version = v
        PROVE  Claims(k, v)
    BY <1>4, <2>3 DEF Claims
  <2> QED
    BY <1>1, <2>1, <2>2, <2>3 DEF Claims
<1>9. ClaimInv'
  <2>1. PostedHaveVersions'
    BY <1>4 DEF SInv, ClaimInv, PostedHaveVersions
  <2>2. ClaimsHold'
    BY <1>1, <1>8 DEF SInv, ClaimInv, ClaimsHold, HasFile, client
  <2> QED
    BY <2>1, <2>2 DEF ClaimInv
<1>10. DownloadInv'
  BY <1>1 DEF SInv, DownloadInv, AnswerIsOneVersion, AttemptsAreCounted, LateIsTheLast,
    CacheFileIsOneVersion, HasFile, client
<1>11. todo' \in Seq(Steps) /\ LoadsComeFirst'
  <2>1. CASE todo' = SaveDocs
    BY <2>1, SavePlans DEF LoadsComeFirst
  <2>2. CASE todo' = todo
    BY <2>2, StoreTypes DEF SInv, StoreInv, LoadsComeFirst
  <2> QED
    BY <1>1, <2>1, <2>2
<1>12. DocumentsStay'
  <2>1. \A k \in kept : docs[k] # 0 /\ k \in Keys /\ HasFile(k) /\ docFile[k] # 0
    BY <1>1, KnownAfterLoading, StoreTypes DEF SInv, StoreInv, DocumentsStay
  <2>2. ev.result = "ok" => ev.version # 0
    BY <1>3, <1>5 DEF SInv, ClaimInv, PostedHaveVersions
  <2>3. \A k \in kept : docs'[k] # 0
    BY <1>7, <2>1, <2>2
  <2> QED
    BY <1>1, <2>1, <2>3 DEF DocumentsStay, HasFile
<1>13. ProfilesHaveSecrets'
  BY <1>1 DEF SInv, StoreInv, ProfilesHaveSecrets, profileVars
<1>14. TypeOK'
  BY <1>1, <1>4, <1>7, <1>11 DEF SInv, TypeOK, Posts, client, profileVars
<1> QED
  BY <1>9, <1>10, <1>11, <1>12, <1>13, <1>14 DEF SInv, StoreInv

\* The process is gone: what is on disk stays.
LEMMA GoneInv ==
  ASSUME SInv, Gone
  PROVE  SInv'
<1>1. /\ up' = FALSE /\ todo' = << >> /\ queue' = << >> /\ posted' = << >>
      /\ phase' = "idle" /\ attempt' = 0 /\ version' = 0 /\ cancel' = FALSE /\ late' = 0
      /\ docs' = NoDocuments /\ profiles' = {}
      /\ UNCHANGED <<remote, files, temps, key, docFile, kept, profFile, secrets, unsure>>
  BY DEF Gone
<1>2. /\ Len(<< >>) = 0 /\ << >> \in Seq(Steps) /\ << >> \in Seq(Keys) /\ << >> \in Seq(Posts)
      /\ 0 \in Versions
  BY EmptySeq, ClientAssumption DEF Versions
<1>3. docs' \in Registries /\ \A k \in Keys : docs'[k] = 0
  BY <1>1, <1>2 DEF NoDocuments, Registries
<1>4. TypeOK'
  BY <1>1, <1>2, <1>3 DEF SInv, TypeOK, Phases, Posts
<1>5. DownloadInv'
  BY <1>1 DEF SInv, DownloadInv, AnswerIsOneVersion, AttemptsAreCounted, LateIsTheLast,
    CacheFileIsOneVersion, HasFile
<1>6. PostedHaveVersions'
  BY <1>1, <1>2 DEF PostedHaveVersions
<1>7. ClaimsHold'
  <2> SUFFICES ASSUME NEW k \in Keys, NEW v \in Versions, Claims(k, v)'
               PROVE  v <= remote[k] /\ (HasFile(k) => v <= files[k][1])
    BY <1>1 DEF ClaimsHold, HasFile
  <2>1. v = 0 \/ v = docFile[k]
    BY <1>1, <1>2, <1>3 DEF Claims
  <2>2. CASE v = docFile[k]
    BY <2>2 DEF SInv, ClaimInv, ClaimsHold, Claims
  <2>3. CASE v = 0
    <3>1. remote[k] \in Nat
      BY DEF SInv, TypeOK, Registries, Versions
    <3>2. HasFile(k) => files[k][1] \in Nat
      BY FileFacts DEF SInv, DownloadInv
    <3> QED
      BY <2>3, <3>1, <3>2
  <2> QED
    BY <2>1, <2>2, <2>3
<1>8. StoreInv'
  BY <1>1, <1>2 DEF SInv, StoreInv, LoadsComeFirst, DocumentsStay, ProfilesHaveSecrets, HasFile
<1> QED
  BY <1>4, <1>5, <1>6, <1>7, <1>8 DEF SInv, ClaimInv

LEMMA OnShutdownInv ==
  ASSUME SInv, OnShutdown
  PROVE  SInv'
<1>1. /\ todo' \in Seq(Steps) /\ Len(todo') = 6
      /\ \A i \in 1 .. 6 : todo'[i] \notin Loads
  BY ExitPlan DEF OnShutdown
<1>2. /\ Idle /\ queue' = << >> /\ cancel' = (phase # "idle")
      /\ UNCHANGED <<remote, files, temps, phase, key, attempt, version, posted, late, up,
                     docVars, profileVars>>
  BY DEF OnShutdown
<1>3. TypeOK'
  <2>1. << >> \in Seq(Keys)
    BY EmptySeq
  <2> QED
    BY <1>1, <1>2, <2>1 DEF SInv, TypeOK, docVars, profileVars
<1>4. DownloadInv'
  BY <1>2 DEF SInv, DownloadInv, AnswerIsOneVersion, AttemptsAreCounted, LateIsTheLast,
    CacheFileIsOneVersion, HasFile
<1>5. ClaimInv'
  BY <1>2 DEF SInv, ClaimInv, ClaimsHold, Claims, PostedHaveVersions, HasFile, docVars
<1>6. LoadsComeFirst'
  BY <1>1 DEF LoadsComeFirst
<1>7. DocumentsStay'
  <2>1. \A k \in kept : docs[k] # 0
    BY <1>2, KnownAfterLoading
  <2> QED
    BY <1>2, <2>1 DEF SInv, StoreInv, DocumentsStay, HasFile, docVars
<1>8. ProfilesHaveSecrets'
  BY <1>2 DEF SInv, StoreInv, ProfilesHaveSecrets, profileVars
<1> QED
  BY <1>3, <1>4, <1>5, <1>6, <1>7, <1>8 DEF SInv, StoreInv

-----------------------------------------------------------------------------
(* The theorems *)

LEMMA InitInv ==
  ASSUME Init
  PROVE  SInv
<1>1. /\ << >> \in Seq(1 .. MaxVersion) /\ Len(<< >>) = 0
      /\ << >> \in Seq(Steps) /\ << >> \in Seq(Keys) /\ << >> \in Seq(Posts)
  BY EmptySeq
<1>2. << >> \in Bodies
  <2>1. Len(<< >>) <= Chunks
    BY <1>1, ClientAssumption
  <2> QED
    BY <1>1, <2>1, BodyIsSeq
<1>3. 0 \in Versions
  BY ClientAssumption DEF Versions
<1>4. /\ phase = "idle" /\ key \in Keys /\ attempt = 0 /\ version = 0
      /\ cancel = FALSE /\ posted = << >> /\ late = 0
      /\ files = [k \in Keys |-> NoFile] /\ temps = [k \in Keys |-> NoTemp]
      /\ up = FALSE /\ todo = << >> /\ queue = << >>
      /\ docs = [k \in Keys |-> 0] /\ docFile = [k \in Keys |-> 0]
      /\ profiles = {} /\ profFile = {} /\ secrets = {} /\ kept = {} /\ unsure = {}
  BY DEF Init, ClientInit, NoDocuments
<1>5. /\ NoTemp \in [exists : BOOLEAN, body : Bodies]
      /\ files \in [Keys -> Bodies]
      /\ \A k \in Keys : ~HasFile(k) /\ docs[k] = 0 /\ docFile[k] = 0
  BY <1>2, <1>4 DEF NoTemp, NoFile, HasFile
<1>6. temps \in [Keys -> [exists : BOOLEAN, body : Bodies]]
  BY <1>4, <1>5
<1>7. remote \in Registries /\ \A k \in Keys : remote[k] \in Nat
  <2>1. \A v \in 0 .. 1 : v \in Versions
    BY ClientAssumption DEF Versions
  <2>2. remote \in [Keys -> Versions]
    BY <2>1 DEF Init, ClientInit
  <2> QED
    BY <2>2 DEF Registries, Versions
<1>8. TypeOK
  BY <1>1, <1>3, <1>4, <1>5, <1>6, <1>7 DEF TypeOK, Registries, Phases, Posts
<1>9. DownloadInv
  BY <1>4, <1>5 DEF DownloadInv, AnswerIsOneVersion, AttemptsAreCounted, LateIsTheLast,
    CacheFileIsOneVersion
<1>10. ClaimInv
  <2>1. \A i \in 1 .. Len(posted) : FALSE
    BY <1>1, <1>4
  <2> QED
    BY <1>4, <1>5, <1>7, <2>1 DEF ClaimInv, ClaimsHold, Claims, PostedHaveVersions
<1>11. StoreInv
  BY <1>1, <1>4 DEF StoreInv, LoadsComeFirst, DocumentsStay, ProfilesHaveSecrets
<1> QED
  BY <1>8, <1>9, <1>10, <1>11 DEF SInv

LEMMA StepInv ==
  ASSUME SInv, [Next]_vars
  PROVE  SInv'
<1>1. CASE OnReady
  BY <1>1, OnReadyInv
<1>2. CASE Crash \/ Exit
  BY <1>2, GoneInv DEF Crash, Exit
<1>3. CASE LoadProfiles \/ LoadDocuments
  BY <1>3, LoadInv
<1>4. CASE Prune \/ WriteDocuments \/ SwapDocuments \/ WriteProfiles \/ SwapProfiles \/ Join
  BY <1>4, PlanStepsInv
<1>5. CASE CleanupStale \/ ClearCacheNow
  BY <1>5, SweepInv
<1>6. CASE HandleDownloadOpen
  BY <1>6, DispatchInv
<1>7. CASE OnShutdown
  BY <1>7, OnShutdownInv
<1>8. CASE Cancel
  BY <1>8, CancelInv DEF Cancel, StoresUnchanged
<1>9. CASE PickDownload
  BY <1>9, PickInv
<1>10. CASE Work
  BY <1>10, WorkInv DEF Work, StoresUnchanged
<1>11. CASE Service
  BY <1>11, ServiceInv DEF Service, StoresUnchanged
<1>12. ASSUME NEW k \in Keys, OpenObject(k) \/ FileDisappears(k) PROVE SInv'
  BY <1>12, OpenInv, FileDisappearsInv
<1>13. ASSUME NEW p \in Profiles, SaveProfile(p) \/ RemoveProfile(p) PROVE SInv'
  BY <1>13, DialogStepsInv
<1>14. ASSUME NEW p \in Profiles, NEW q \in Profiles, DuplicateProfile(p, q) PROVE SInv'
  BY <1>14, DialogStepsInv
<1>15. CASE UNCHANGED vars
  <2>1. /\ UNCHANGED clientVars
        /\ UNCHANGED <<up, todo, queue, docs, docFile, kept, profiles, profFile, secrets, unsure>>
    BY <1>15 DEF vars, docVars, profileVars
  <2>2. LoadsComeFirst' /\ DocumentsStay' /\ ProfilesHaveSecrets'
    BY <2>1 DEF SInv, StoreInv, LoadsComeFirst, DocumentsStay, ProfilesHaveSecrets, HasFile,
      clientVars
  <2> QED
    BY <2>1, <2>2, UiInv, StoreTypes
<1> QED
  BY <1>1, <1>2, <1>3, <1>4, <1>5, <1>6, <1>7, <1>8, <1>9, <1>10, <1>11, <1>12, <1>13,
    <1>14, <1>15 DEF Next, UiStep

\* The inductive invariant.
THEOREM StoreInvariance == Spec => []SInv
BY InitInv, StepInv, PTL DEF Spec

\* The state of the client and the stores has its types, and the worker makes
\* no more attempts than SendWithRetry allows.
THEOREM StoreTypeCorrect == Spec => []TypeOK
<1>1. SInv => TypeOK
  BY DEF SInv
<1> QED
  BY <1>1, StoreInvariance, PTL

\* DownloadObject and the registry: a cache file is one whole version, no
\* document claims a newer one than its file holds, and a cancelled download
\* sends at most the request that was under way.
THEOREM SoundDownloads == Spec => []DownloadsAreSound
<1>1. SInv => DownloadsAreSound
  <2> SUFFICES ASSUME SInv PROVE DownloadsAreSound
    OBVIOUS
  <2>1. CacheFileIsOneVersion /\ CancelStopsRetries
    BY DEF SInv, DownloadInv, LateIsTheLast, CancelStopsRetries
  <2>2. MappingNotNewerThanFile
    <3> SUFFICES ASSUME NEW k \in Keys, HasFile(k)
                 PROVE  docs[k] <= files[k][1] /\ docFile[k] <= files[k][1]
      BY DEF MappingNotNewerThanFile
    <3>1. docs[k] \in Versions /\ docFile[k] \in Versions
      BY StoreTypes DEF Registries
    <3>2. Claims(k, docs[k]) /\ Claims(k, docFile[k])
      BY DEF Claims
    <3> QED
      BY <3>1, <3>2 DEF SInv, ClaimInv, ClaimsHold
  <2> QED
    BY <2>1, <2>2 DEF DownloadsAreSound
<1> QED
  BY <1>1, StoreInvariance, PTL

\* Documents.xml, NppS3.xml, the Credential Manager and the sweeps: whatever
\* crashes or fails, a document that was saved is known after a start that
\* could read the store and has its file, and profiles have their secrets.
THEOREM SurvivingStores == Spec => []StoresSurvive
<1>1. SInv => StoresSurvive
  <2> SUFFICES ASSUME SInv PROVE StoresSurvive
    OBVIOUS
  <2>1. DocumentsKept
    <3> SUFFICES ASSUME NEW k \in kept PROVE HasFile(k) /\ (Loaded => docs[k] # 0)
      BY DEF DocumentsKept
    <3>1. Loaded => up /\ \A i \in 1 .. Len(todo) : todo[i] # "loadDocs"
      BY StoreTypes DEF Loaded
    <3> QED
      BY <3>1 DEF SInv, StoreInv, DocumentsStay
  <2>2. ProfilesHaveSecrets
    BY DEF SInv, StoreInv
  <2> QED
    BY <2>1, <2>2 DEF StoresSurvive
<1> QED
  BY <1>1, StoreInvariance, PTL
=============================================================================
