---------------------------- MODULE RequestClient ----------------------------
(***************************************************************************)
(* Downloads as the data worker runs them (S3Client::DownloadObject over   *)
(* SendWithRetry, Send and HttpClient::Execute): a request is sent, the    *)
(* body of the answer goes to a temporary file in chunks, failures are     *)
(* retried after a back-off, and the whole file is moved over the target.  *)
(* The UI thread cancels at any moment, other clients change the object,   *)
(* and any call of the operating system or the network may fail.           *)
(*                                                                         *)
(* A version of an object is a number, 0 when there is none; its body is   *)
(* Chunks chunks, and a file is the sequence of the versions of its        *)
(* chunks.  There is one object per cache file.                            *)
(***************************************************************************)
EXTENDS Naturals, Sequences, FiniteSets

CONSTANTS Keys,       \* objects and their cache files
          Chunks,     \* chunks per body
          MaxRetries, \* S3Config::maxRetries
          MaxVersion  \* bound: versions of an object

ASSUME ClientAssumption ==
  Chunks \in Nat \ {0} /\ MaxRetries \in Nat /\ MaxVersion \in Nat \ {0}

Versions == 0..MaxVersion
NoFile == << >>
Whole(v) == [i \in 1..Chunks |-> v]
Bodies == UNION {[1..n -> 1..MaxVersion] : n \in 0..Chunks}

VARIABLES
  remote,  \* the version of each object at the service
  files,   \* the cache files, NoFile when there is none
  temps,   \* the .npps3tmp files: [exists, body]
  phase,   \* where the worker is in its download
  key,     \* the object it downloads
  attempt, \* of SendWithRetry, from 0
  version, \* what the current answer carries
  cancel,  \* the cancellation flag of its job
  posted,  \* outcomes posted to the UI thread
  late     \* read by properties only: requests sent after the cancellation

client == <<phase, key, attempt, version, cancel, late>>
clientVars == <<remote, files, temps, client, posted>>

Phases == {"idle", "start", "connect", "body", "received", "backoff"}
NoTemp == [exists |-> FALSE, body |-> << >>]
Temp(body) == [exists |-> TRUE, body |-> body]

ClientInit ==
  /\ remote \in [Keys -> 0..1]
  /\ files = [k \in Keys |-> NoFile] /\ temps = [k \in Keys |-> NoTemp]
  /\ phase = "idle" /\ key \in Keys /\ attempt = 0 /\ version = 0
  /\ cancel = FALSE /\ posted = << >> /\ late = 0

-----------------------------------------------------------------------------
\* The job is over: the temporary file goes unless it was moved.
Conclude(res) ==
  /\ phase' = "idle"
  /\ temps' = [temps EXCEPT ![key] = NoTemp]
  /\ posted' = Append(posted, [key |-> key, result |-> res, version |-> version])

Kinds == {"Network", "Throttled", "ServerError", "Denied", "NoSuchKey", "LocalIo", "Cancelled"}
Retryable(kind) == kind \in {"Network", "Throttled", "ServerError"}

\* Fault: one attempt more than allowed.
AttemptFailedOneMore(kind) ==
  IF Retryable(kind) /\ attempt + 1 <= MaxRetries
  THEN phase' = "backoff" /\ UNCHANGED <<temps, posted>>
  ELSE Conclude(IF kind = "Cancelled" THEN "cancelled" ELSE "failed")

\* SendWithRetry after a failed attempt.
AttemptFailed(kind) ==
  IF Retryable(kind) /\ attempt + 1 < MaxRetries
  THEN phase' = "backoff" /\ UNCHANGED <<temps, posted>>
  ELSE Conclude(IF kind = "Cancelled" THEN "cancelled" ELSE "failed")

Begin(k) ==
  /\ phase = "idle"
  /\ phase' = "start" /\ key' = k /\ attempt' = 0 /\ cancel' = FALSE /\ late' = 0
  /\ version' = 0
  /\ UNCHANGED <<remote, files, temps, posted>>

\* Execute looks at the flag before it connects.
Start ==
  /\ phase = "start"
  /\ IF cancel THEN AttemptFailed("Cancelled")
               ELSE phase' = "connect" /\ UNCHANGED <<temps, posted>>
  /\ UNCHANGED <<remote, files, key, attempt, version, cancel, late>>

\* The request goes out and is answered, or not.  Only a 2xx answer opens the
\* sink, which truncates it.
Sent == late' = IF cancel THEN late + 1 ELSE late
\* Fault: the sink goes on after what an earlier attempt received.
AnsweredAppending ==
  /\ phase = "connect" /\ remote[key] > 0 /\ Sent
  /\ version' = remote[key]
  /\ phase' = "body" /\ temps' = [temps EXCEPT ![key].exists = TRUE]
  /\ UNCHANGED <<remote, files, key, attempt, cancel, posted>>
Answered ==
  /\ phase = "connect" /\ remote[key] > 0 /\ Sent
  /\ version' = remote[key]
  /\ phase' = "body" /\ temps' = [temps EXCEPT ![key] = Temp(<< >>)]
  /\ UNCHANGED <<remote, files, key, attempt, cancel, posted>>
NotAnswered(kind) ==
  /\ phase = "connect" /\ Sent
  /\ kind \in {"Network", "Throttled", "ServerError", "Denied", "LocalIo"}
              \cup {x \in {"NoSuchKey"} : remote[key] = 0}
  /\ AttemptFailed(kind)
  /\ UNCHANGED <<remote, files, key, attempt, version, cancel>>

\* One turn of the receiving loop.
ReceiveChunk ==
  /\ phase = "body" /\ ~cancel /\ Len(temps[key].body) < Chunks
  /\ temps' = [temps EXCEPT ![key].body = Append(@, version)]
  /\ UNCHANGED <<remote, files, client, posted>>
ReceiveFails(kind) ==
  /\ phase = "body"
  /\ IF cancel THEN kind = "Cancelled" ELSE kind \in {"Network", "LocalIo"}
  /\ AttemptFailed(kind)
  /\ UNCHANGED <<remote, files, key, attempt, version, cancel, late>>
\* A read of no bytes ends the loop, also when the connection broke.
ReceiveEnds ==
  /\ phase = "body" /\ ~cancel
  /\ phase' = "received"
  /\ UNCHANGED <<remote, files, temps, key, attempt, version, cancel, posted, late>>

\* The back-off looks at the flag between its naps, but not after the last.
BackOff ==
  /\ phase = "backoff"
  /\ \/ cancel /\ Conclude("cancelled") /\ UNCHANGED attempt
     \/ phase' = "start" /\ attempt' = attempt + 1 /\ UNCHANGED <<temps, posted>>
  /\ UNCHANGED <<remote, files, key, version, cancel, late>>

\* The length is compared with the header, then the file is moved in place.
Place ==
  /\ phase = "received"
  /\ \/ /\ Len(temps[key].body) = Chunks /\ temps[key].exists
        /\ files' = [files EXCEPT ![key] = temps[key].body]
        /\ Conclude("ok")
     \/ Conclude("failed") /\ UNCHANGED files
  /\ UNCHANGED <<remote, key, attempt, version, cancel, late>>

CancelDownload ==
  /\ phase # "idle" /\ ~cancel /\ cancel' = TRUE
  /\ UNCHANGED <<remote, files, temps, phase, key, attempt, version, posted, late>>

\* Another client writes the object.
ObjectChanges(k) ==
  /\ remote' \in {[remote EXCEPT ![k] = v] : v \in {remote[k] + 1} \cap Versions}
  /\ UNCHANGED <<files, temps, client, posted>>

Working ==
  \/ Start \/ Answered \/ ReceiveChunk \/ ReceiveEnds \/ BackOff \/ Place
  \/ \E kind \in Kinds : NotAnswered(kind) \/ ReceiveFails(kind)
=============================================================================
