--------------------------- MODULE TransferManager ---------------------------
(***************************************************************************)
(* The background transfer queue (src/src/transfer/TransferManager.cpp):   *)
(* one job queue and one worker thread per lane, a mutex with one          *)
(* condition variable for both lanes, a cancellation flag per job, and an  *)
(* observer that is told of every state change.                            *)
(*                                                                         *)
(* An action is one critical section of the mutex or one call of the       *)
(* observer (Emit).  What the observer does with the call is the subject   *)
(* of PluginTransfers; the manager never waits for it.  Start, Enqueue,    *)
(* Cancel and Shutdown are called by one thread, the UI thread of          *)
(* Notepad++, whose position is ui.                                        *)
(*                                                                         *)
(* Of what a transfer does on the network only the order is kept: any      *)
(* number of requests, each of which looks at the flag before it is sent   *)
(* (HttpClient::Execute, without the mutex), and in the end success or an  *)
(* error.                                                                  *)
(***************************************************************************)
EXTENDS Naturals, Sequences

CONSTANTS Ops,      \* the operations the UI thread asks for
          MaxJobs   \* bound: jobs accepted in one session

ControlOps == {"ListBuckets", "List", "Head", "UploadBytes", "Delete", "Copy",
               "TestConnection", "ListMultipartUploads", "AbortMultipartUpload"}
DataOps == {"Download", "Upload"}

ASSUME OpsAssumption == Ops \subseteq (ControlOps \cup DataOps)
ASSUME BoundsAssumption == MaxJobs \in Nat

Lanes == {0, 1}

\* "upload/download" jobs take lane 1 so that browsing stays responsive.
LaneFor(o) == IF o \in DataOps THEN 1 ELSE 0

Ids == 1 .. MaxJobs
NoJob == 0

TerminalStates == {"Completed", "Failed", "Cancelled"}
TransferStates == {"Pending", "Running"} \cup TerminalStates

WorkerStates == {"none",      \* no thread yet
                 "check",     \* about to take the mutex and look at its queue
                 "waiting",   \* blocked in the condition variable
                 "picked",    \* holds a job, has not looked at its flag yet
                 "cleared",   \* found its flag unset, has announced nothing yet
                 "executing", \* has announced Running, no request is out
                 "sending",   \* past HttpClient's look at the flag, unanswered
                 "reset",     \* has announced the outcome, m_active still set
                 "exited"}
UiStates == {"idle",          \* dispatching messages
             "notify", "emit",           \* inside Enqueue, after its unlock
             "stopNotify", "join",       \* inside Shutdown, after its unlock
             "closed"}                   \* OnShutdown has returned

VARIABLES
  queue,        \* m_queue: per lane, the ids of the jobs not yet picked
  active,       \* m_active: per lane, the job its worker holds
  op,           \* per job, the operation of its request
  cancelled,    \* per job, its atomic cancellation flag
  nextId,       \* m_nextId
  started,      \* m_started
  stopping,     \* m_stopping
  worker,       \* per lane, where its worker thread is
  ui,           \* where the UI thread is
  uiJob,        \* the job Enqueue is working on
  \* Of these only properties read:
  outcome,      \* per job, the terminal state its Finished event carried,
                \* "none" until then
  late          \* per lane, the requests that were under way when the manager
                \* stopped or were sent since, and are answered

historyVars == <<outcome, late>>
tmVars == <<queue, active, op, cancelled, nextId, started, stopping, worker,
            ui, uiJob, historyVars>>

QueuedIn(l) == {queue[l][i] : i \in 1 .. Len(queue[l])}
Accepted == 1 .. nextId - 1

Init ==
  /\ queue = [l \in Lanes |-> << >>]
  /\ active = [l \in Lanes |-> NoJob]
  /\ op = [i \in Ids |-> "none"]
  /\ cancelled = [i \in Ids |-> FALSE]
  /\ nextId = 1
  /\ started = FALSE
  /\ stopping = FALSE
  /\ worker = [l \in Lanes |-> "none"]
  /\ ui = "idle"
  /\ uiJob = NoJob
  /\ outcome = [i \in Ids |-> "none"]
  /\ late = [l \in Lanes |-> 0]

-----------------------------------------------------------------------------
(* Helpers *)

\* Fault: notify_one, which wakes whichever worker waits.
NotifyOne ==
  IF \E l \in Lanes : worker[l] = "waiting"
  THEN \E l \in Lanes : /\ worker[l] = "waiting"
                        /\ worker' = [worker EXCEPT ![l] = "check"]
  ELSE UNCHANGED worker

\* m_cv.notify_all(): every waiting worker evaluates its predicate again.
NotifyAll ==
  worker' = [l \in Lanes |->
               IF worker[l] = "waiting" THEN "check" ELSE worker[l]]

-----------------------------------------------------------------------------
(* The UI thread *)

\* OnReady: create the manager and its two threads.
Start ==
  /\ ui = "idle" /\ ~started /\ ~stopping
  /\ started' = TRUE
  /\ worker' = [l \in Lanes |-> "check"]
  /\ UNCHANGED <<queue, active, op, cancelled, nextId, stopping, ui, uiJob,
                 historyVars>>

\* Fault: the job is put at the front of its lane.
EnqueueAtFront(o) ==
  /\ ui = "idle" /\ started /\ ~stopping
  /\ nextId <= MaxJobs
  /\ op' = [op EXCEPT ![nextId] = o]
  /\ queue' = [queue EXCEPT ![LaneFor(o)] = <<nextId>> \o @]
  /\ nextId' = nextId + 1
  /\ uiJob' = nextId
  /\ ui' = "notify"
  /\ UNCHANGED <<active, cancelled, started, stopping, worker, historyVars>>

\* Enqueue, under the mutex: number the job and append it to its lane.
Enqueue(o) ==
  /\ ui = "idle" /\ started /\ ~stopping
  /\ nextId <= MaxJobs
  /\ op' = [op EXCEPT ![nextId] = o]
  /\ queue' = [queue EXCEPT ![LaneFor(o)] = Append(@, nextId)]
  /\ nextId' = nextId + 1
  /\ uiJob' = nextId
  /\ ui' = "notify"
  /\ UNCHANGED <<active, cancelled, started, stopping, worker, historyVars>>

\* Enqueue, after the unlock: wake the workers.
EnqueueNotify ==
  /\ ui = "notify"
  /\ NotifyAll
  /\ ui' = "emit"
  /\ UNCHANGED <<queue, active, op, cancelled, nextId, started, stopping,
                 uiJob, historyVars>>

\* Enqueue, last: announce the job as Pending, from the UI thread.
EnqueueEmit ==
  /\ ui = "emit"
  /\ ui' = "idle"
  /\ uiJob' = NoJob
  /\ UNCHANGED <<queue, active, op, cancelled, nextId, started, stopping,
                 worker, historyVars>>

\* Cancel: flag the job if it is queued or active, otherwise do nothing.
Cancel(id) ==
  /\ ui = "idle" /\ started /\ ~stopping
  /\ \E l \in Lanes : id \in QueuedIn(l) \/ active[l] = id
  /\ cancelled' = [cancelled EXCEPT ![id] = TRUE]
  /\ UNCHANGED <<queue, active, op, nextId, started, stopping, worker, ui,
                 uiJob, historyVars>>

\* Fault: Shutdown drops the queued jobs instead of letting them drain.
ShutdownDropsQueues ==
  /\ ui = "idle" /\ started /\ ~stopping
  /\ stopping' = TRUE
  /\ queue' = [l \in Lanes |-> << >>]
  /\ cancelled' = [i \in Ids |-> cancelled[i] \/ \E l \in Lanes : active[l] = i]
  /\ ui' = "stopNotify"
  /\ UNCHANGED <<active, op, nextId, started, worker, uiJob, historyVars>>

\* Fault: Shutdown flags the queued jobs but not the active ones.
ShutdownFlagsQueuedOnly ==
  /\ ui = "idle" /\ started /\ ~stopping
  /\ stopping' = TRUE
  /\ cancelled' = [i \in Ids |->
                     cancelled[i] \/ \E l \in Lanes : i \in QueuedIn(l)]
  /\ ui' = "stopNotify"
  /\ UNCHANGED <<queue, active, op, nextId, started, worker, uiJob, historyVars>>

\* Shutdown, under the mutex: refuse new work, flag every job there is.
Shutdown ==
  /\ ui = "idle" /\ started /\ ~stopping
  /\ stopping' = TRUE
  /\ cancelled' = [i \in Ids |->
                     \/ cancelled[i]
                     \/ \E l \in Lanes : i \in QueuedIn(l) \/ active[l] = i]
  /\ ui' = "stopNotify"
  /\ UNCHANGED <<queue, active, op, nextId, started, worker, uiJob, historyVars>>

\* Fault: Shutdown does not wake the workers.
StopSilently ==
  /\ ui = "stopNotify"
  /\ ui' = "join"
  /\ UNCHANGED <<queue, active, op, cancelled, nextId, started, stopping,
                 worker, uiJob, historyVars>>

\* Shutdown, after the unlock: wake the workers.
StopNotify ==
  /\ ui = "stopNotify"
  /\ NotifyAll
  /\ ui' = "join"
  /\ UNCHANGED <<queue, active, op, cancelled, nextId, started, stopping,
                 uiJob, historyVars>>

\* Shutdown returns once both threads are joined.
Join ==
  /\ ui = "join"
  /\ \A l \in Lanes : worker[l] = "exited"
  /\ ui' = "closed"
  /\ UNCHANGED <<queue, active, op, cancelled, nextId, started, stopping,
                 worker, uiJob, historyVars>>

-----------------------------------------------------------------------------
(* The worker of lane l *)

\* m_cv.wait: the predicate is false, block and release the mutex.
Sleep(l) ==
  /\ worker[l] = "check"
  /\ ~stopping /\ queue[l] = << >>
  /\ worker' = [worker EXCEPT ![l] = "waiting"]
  /\ UNCHANGED <<queue, active, op, cancelled, nextId, started, stopping, ui,
                 uiJob, historyVars>>

\* A condition variable may wake up without a notification.
SpuriousWake(l) ==
  /\ worker[l] = "waiting"
  /\ worker' = [worker EXCEPT ![l] = "check"]
  /\ UNCHANGED <<queue, active, op, cancelled, nextId, started, stopping, ui,
                 uiJob, historyVars>>

\* Told to stop and nothing left to drain: the thread ends.
Exit(l) ==
  /\ worker[l] = "check"
  /\ stopping /\ queue[l] = << >>
  /\ worker' = [worker EXCEPT ![l] = "exited"]
  /\ UNCHANGED <<queue, active, op, cancelled, nextId, started, stopping, ui,
                 uiJob, historyVars>>

\* Take the front job and make it the lane's active one, in one section.
Pick(l) ==
  /\ worker[l] = "check"
  /\ queue[l] # << >>
  /\ active' = [active EXCEPT ![l] = Head(queue[l])]
  /\ queue' = [queue EXCEPT ![l] = Tail(@)]
  /\ worker' = [worker EXCEPT ![l] = "picked"]
  /\ UNCHANGED <<op, cancelled, nextId, started, stopping, ui, uiJob, historyVars>>

\* Execute: a job flagged while it waited is reported Cancelled, unrun.
SkipCancelled(l) ==
  /\ worker[l] = "picked"
  /\ cancelled[active[l]]
  /\ outcome' = [outcome EXCEPT ![active[l]] = "Cancelled"]
  /\ worker' = [worker EXCEPT ![l] = "reset"]
  /\ UNCHANGED <<queue, active, op, cancelled, nextId, started, stopping, ui,
                 uiJob, late>>

\* Execute: the flag is not set, so the job will run, whatever happens to the
\* flag from now on.
Begin(l) ==
  /\ worker[l] = "picked"
  /\ ~cancelled[active[l]]
  /\ worker' = [worker EXCEPT ![l] = "cleared"]
  /\ UNCHANGED <<queue, active, op, cancelled, nextId, started, stopping, ui,
                 uiJob, historyVars>>

\* Execute: announce Running.
Announce(l) ==
  /\ worker[l] = "cleared"
  /\ worker' = [worker EXCEPT ![l] = "executing"]
  /\ UNCHANGED <<queue, active, op, cancelled, nextId, started, stopping, ui,
                 uiJob, historyVars>>

\* Fault: requests are sent without looking at the flag.
SendUnchecked(l) ==
  /\ worker[l] = "executing"
  /\ worker' = [worker EXCEPT ![l] = "sending"]
  /\ UNCHANGED <<queue, active, op, cancelled, nextId, started, stopping, ui,
                 uiJob, historyVars>>

\* HttpClient::Execute: the flag is not set, so the request is sent.
SendRequest(l) ==
  /\ worker[l] = "executing"
  /\ ~cancelled[active[l]]
  /\ worker' = [worker EXCEPT ![l] = "sending"]
  /\ UNCHANGED <<queue, active, op, cancelled, nextId, started, stopping, ui,
                 uiJob, historyVars>>

\* The request of lane l, if one is out, is answered or fails.
Answered(l) ==
  late' = IF stopping /\ worker[l] = "sending"
          THEN [late EXCEPT ![l] = @ + 1] ELSE late

\* The job is not done with that: a part or a page of it follows, or the same
\* request once more (SendWithRetry).
NextRequest(l) ==
  /\ worker[l] = "sending"
  /\ Answered(l)
  /\ worker' = [worker EXCEPT ![l] = "executing"]
  /\ UNCHANGED <<queue, active, op, cancelled, nextId, started, stopping, ui,
                 uiJob, outcome>>

\* Faults: a flagged job reports its error, or is left in a state that is
\* not terminal.
ErrorWins(ok, flag) == IF ok THEN "Completed" ELSE "Failed"
StaysRunning(ok, flag) ==
  IF ok THEN "Completed" ELSE IF flag THEN "Running" ELSE "Failed"

\* The terminal state of a request that returned: success counts even if the
\* flag was raised meanwhile, an error of a flagged job is a cancellation.
ResultState(ok, flag) ==
  IF ok THEN "Completed" ELSE IF flag THEN "Cancelled" ELSE "Failed"

\* The job is over: announce the terminal state.  It succeeds with the answer
\* to its last request, and may fail at any time.
Finish(l, ok) ==
  /\ worker[l] = "sending" \/ (worker[l] = "executing" /\ ~ok)
  /\ LET id == active[l]
         state == ResultState(ok, cancelled[id])
     IN outcome' = [outcome EXCEPT ![id] = state]
  /\ Answered(l)
  /\ worker' = [worker EXCEPT ![l] = "reset"]
  /\ UNCHANGED <<queue, active, op, cancelled, nextId, started, stopping, ui,
                 uiJob>>

\* m_active[lane].reset(), and round the loop.
ResetActive(l) ==
  /\ worker[l] = "reset"
  /\ active' = [active EXCEPT ![l] = NoJob]
  /\ worker' = [worker EXCEPT ![l] = "check"]
  /\ UNCHANGED <<queue, op, cancelled, nextId, started, stopping, ui, uiJob,
                 historyVars>>

-----------------------------------------------------------------------------
WorkerStep(l) ==
  \/ Sleep(l) \/ Exit(l) \/ Pick(l)
  \/ SkipCancelled(l) \/ Begin(l) \/ Announce(l)
  \/ SendRequest(l) \/ NextRequest(l)
  \/ \E ok \in BOOLEAN : Finish(l, ok)
  \/ ResetActive(l)

\* What the UI thread does inside a call it has entered.
UiStep == EnqueueNotify \/ EnqueueEmit \/ StopNotify \/ Join

\* What the user and Notepad++ may ask the UI thread to do.
UserStep ==
  \/ Start \/ Shutdown
  \/ \E o \in Ops : Enqueue(o)
  \/ \E id \in Ids : Cancel(id)

\* After OnShutdown nothing is left to do.
Closed == ui = "closed" /\ UNCHANGED tmVars

Next ==
  \/ UserStep \/ UiStep
  \/ \E l \in Lanes : WorkerStep(l) \/ SpuriousWake(l)
  \/ Closed

\* A thread that can run does: requests return (HttpClient sets WinHTTP
\* timeouts), the UI thread finishes the call it is in.  A job has finitely many
\* requests (the parts of a file, three attempts each), so that one of them is
\* the last: strong fairness stands for their number.  The user need not do
\* anything, and nothing relies on spurious wake-ups.
Fairness ==
  /\ \A l \in Lanes : /\ WF_tmVars(WorkerStep(l))
                       /\ SF_tmVars(\E ok \in BOOLEAN : Finish(l, ok))
  /\ WF_tmVars(UiStep)

Spec == Init /\ [][Next]_tmVars /\ Fairness

-----------------------------------------------------------------------------
(* Properties *)

\* Every variable has its type.
TypeOK ==
  /\ queue \in [Lanes -> Seq(Ids)]
  /\ active \in [Lanes -> Ids \cup {NoJob}]
  /\ op \in [Ids -> Ops \cup {"none"}]
  /\ cancelled \in [Ids -> BOOLEAN]
  /\ nextId \in 1 .. MaxJobs + 1
  /\ started \in BOOLEAN /\ stopping \in BOOLEAN
  /\ worker \in [Lanes -> WorkerStates]
  /\ ui \in UiStates
  /\ uiJob \in Ids \cup {NoJob}
  /\ outcome \in [Ids -> TerminalStates \cup {"none"}]
  /\ late \in [Lanes -> Nat]

\* The worker of lane l holds job id and has not announced its outcome yet.
Running == {"cleared", "executing", "sending"}
Holds(l, id) == active[l] = id /\ worker[l] \in Running \cup {"picked"}

\* No accepted job is lost, shutdown or not: until its outcome is announced
\* it waits in the queue of a lane or that lane's worker holds it.
NoJobLost ==
  \A id \in Accepted : outcome[id] = "none" =>
    \E l \in Lanes : id \in QueuedIn(l) \/ Holds(l, id)

\* No job is in two places, and lanes are served in the order of Enqueue:
\* the ids of a queue increase, they are larger than the id its worker
\* holds, and a job whose outcome is known is neither queued nor held.
ServedInOrder ==
  \A l \in Lanes :
    /\ \A i, j \in 1 .. Len(queue[l]) : i < j => queue[l][i] < queue[l][j]
    /\ \A i \in 1 .. Len(queue[l]) :
         LET id == queue[l][i] IN
         /\ id \in Accepted /\ LaneFor(op[id]) = l
         /\ active[l] < id
         /\ outcome[id] = "none"
    /\ \A id \in Ids : Holds(l, id) => outcome[id] = "none"

\* Shutdown "cancels queued+running jobs": from the moment it holds the
\* mutex no job is left that could run or go on without seeing its flag.
StopFlagsEveryJob ==
  stopping => \A id \in Accepted : outcome[id] = "none" => cancelled[id]

\* Shutdown raises the flags under the mutex, the workers look at theirs without
\* it.  So a request may still go out after the stop, but at most one in each
\* lane: the one whose look at the flag came before.
AtMostOneLateRequest == \A l \in Lanes : late[l] <= 1

\* The manager implements the job lifecycle.
StatusOf(id) ==
  IF outcome[id] # "none" THEN outcome[id]
  ELSE IF id \notin Accepted THEN "none"
  ELSE IF \E l \in Lanes : active[l] = id /\ worker[l] \in Running
       THEN "running" ELSE "queued"

Jobs == INSTANCE JobLifecycle WITH
  JobIds <- Ids, LaneSet <- Lanes, NoLane <- 2,
  status <- [i \in Ids |-> StatusOf(i)],
  lane <- [i \in Ids |-> IF i \in Accepted THEN LaneFor(op[i]) ELSE 2],
  unwanted <- {i \in Ids : cancelled[i]},
  closed <- stopping

ImplementsJobLifecycle == Jobs!Safety

\* Every accepted job gets its outcome, whatever is cancelled or stopped
\* meanwhile: no wake-up of a worker is lost and no lane is forgotten.
EveryJobConcludes ==
  \A id \in Ids : (id \in Accepted) ~> (outcome[id] # "none")

\* Shutdown returns: both workers drain their lanes and are joined.
ShutdownReturns == stopping ~> (ui = "closed")
=============================================================================
