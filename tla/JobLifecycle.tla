----------------------------- MODULE JobLifecycle -----------------------------
(***************************************************************************)
(* What the transfer manager promises about its jobs, without threads,     *)
(* queues, flags or messages: a job is accepted into one lane, runs at     *)
(* most once, in its turn, and gets one outcome that never changes.        *)
(* A job the user gave up on before it ran does not run at all; once the   *)
(* manager is closed nothing is accepted and nothing starts to run.        *)
(***************************************************************************)
EXTENDS Naturals

CONSTANTS JobIds,   \* identifiers, numbers, accepted in increasing order
          LaneSet,  \* the lanes
          NoLane    \* no lane: where a job is that is not accepted yet

VARIABLES status,    \* per job: "none", "queued", "running" or an outcome
          lane,      \* per job: its lane, "none" before it is accepted
          unwanted,  \* the jobs somebody asked to cancel while they lived
          closed     \* the manager accepts no more jobs

jobVars == <<status, lane, unwanted, closed>>

Outcomes == {"Completed", "Failed", "Cancelled"}
Live(j) == status[j] \in {"queued", "running"}

Init ==
  /\ status = [j \in JobIds |-> "none"]
  /\ lane = [j \in JobIds |-> NoLane]
  /\ unwanted = {}
  /\ closed = FALSE

Accept(j, l) ==
  /\ ~closed
  /\ status[j] = "none"
  /\ \A k \in JobIds : k < j => status[k] # "none"
  /\ status' = [status EXCEPT ![j] = "queued"]
  /\ lane' = [lane EXCEPT ![j] = l]
  /\ UNCHANGED <<unwanted, closed>>

\* Giving up on a job that has its outcome is allowed and changes nothing.
GiveUp(j) ==
  /\ status[j] # "none"
  /\ unwanted' = unwanted \cup {j}
  /\ UNCHANGED <<status, lane, closed>>

\* Closing gives up on every job that is still alive.
Close ==
  /\ ~closed
  /\ closed' = TRUE
  /\ \E late \in SUBSET {j \in JobIds : status[j] \in Outcomes} :
       unwanted' = unwanted \cup {j \in JobIds : Live(j)} \cup late
  /\ UNCHANGED <<status, lane>>

\* It is j's turn: its lane runs nothing and has no earlier job waiting.
Turn(j) == \A k \in JobIds : lane[k] = lane[j] /\ k # j =>
             /\ status[k] # "running"
             /\ status[k] = "queued" => j < k

\* The lane commits itself to the job, wanted until now: it is announced and
\* carried out, although it may be given up on from now on.
Run(j) ==
  /\ status[j] = "queued"
  /\ Turn(j)
  /\ j \notin unwanted
  /\ status' = [status EXCEPT ![j] = "running"]
  /\ UNCHANGED <<lane, unwanted, closed>>

\* A job given up on in time is dropped in its turn, without running.
Drop(j) ==
  /\ status[j] = "queued"
  /\ Turn(j)
  /\ j \in unwanted
  /\ status' = [status EXCEPT ![j] = "Cancelled"]
  /\ UNCHANGED <<lane, unwanted, closed>>

\* A running job may complete although it was given up on, but it fails only
\* if it was not, and is cancelled only if it was.
Conclude(j, outcome) ==
  /\ status[j] = "running"
  /\ outcome = "Failed" => j \notin unwanted
  /\ outcome = "Cancelled" => j \in unwanted
  /\ status' = [status EXCEPT ![j] = outcome]
  /\ UNCHANGED <<lane, unwanted, closed>>

Next ==
  \/ \E j \in JobIds, l \in LaneSet : Accept(j, l)
  \/ \E j \in JobIds : GiveUp(j) \/ Run(j) \/ Drop(j)
  \/ \E j \in JobIds, o \in Outcomes : Conclude(j, o)
  \/ Close

Safety == Init /\ [][Next]_jobVars
=============================================================================
