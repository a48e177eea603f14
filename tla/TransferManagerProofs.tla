------------------------ MODULE TransferManagerProofs ------------------------
(***************************************************************************)
(* The safety of the transfer queue for every set of operations and every  *)
(* number of jobs, and that it implements JobLifecycle.                    *)
(*                                                                         *)
(* NoJobLost, ServedInOrder and StopFlagsEveryJob are not inductive by     *)
(* themselves: that a worker's job belongs to its lane, that a worker that *)
(* looks at its queue holds nothing, and that the ids to come have no      *)
(* outcome yet is added by WorkersHold and FreshIds.  That each lane has   *)
(* at most one late request needs that the one counted was the last: from  *)
(* the stop on every held job carries its flag, so no look at a flag finds *)
(* it unset (LateRequests).                                                *)
(***************************************************************************)
EXTENDS TransferManager, TLAPS

\* Exactly the workers between Pick and ResetActive hold a job, an accepted
\* one of their own lane; before Start there are no workers.
WorkersHold ==
  /\ \A l \in Lanes :
       IF worker[l] \in Running \cup {"picked", "reset"}
       THEN active[l] \in Accepted /\ LaneFor(op[active[l]]) = l
       ELSE active[l] = NoJob
  /\ ~started => \A l \in Lanes : worker[l] = "none"

\* The ids not given out yet have no outcome.
FreshIds == \A id \in Ids : id >= nextId => outcome[id] = "none"

\* A lane whose late request was answered has no request out, for good.
LateRequests ==
  \A l \in Lanes :
    late[l] # 0 => late[l] = 1 /\ stopping /\ worker[l] # "sending"

IInv == /\ TypeOK /\ WorkersHold /\ FreshIds /\ LateRequests
        /\ ServedInOrder /\ NoJobLost /\ StopFlagsEveryJob

-----------------------------------------------------------------------------
(* Sequences *)

\* What Append does to the length and to each position.
LEMMA AppendIndex ==
  ASSUME NEW S, NEW s \in Seq(S), NEW e \in S
  PROVE  /\ Append(s, e) \in Seq(S)
         /\ Len(Append(s, e)) = Len(s) + 1
         /\ \A i \in 1 .. Len(s) : Append(s, e)[i] = s[i]
         /\ Append(s, e)[Len(s) + 1] = e
OBVIOUS

\* What Tail does to the length and to each position.
LEMMA TailIndex ==
  ASSUME NEW S, NEW s \in Seq(S), s # << >>
  PROVE  /\ Head(s) \in S /\ Head(s) = s[1]
         /\ Tail(s) \in Seq(S)
         /\ Len(s) \in Nat \ {0}
         /\ Len(Tail(s)) = Len(s) - 1
         /\ \A i \in 1 .. Len(s) - 1 : Tail(s)[i] = s[i + 1]
OBVIOUS

-----------------------------------------------------------------------------
(* Type correctness *)

LEMMA InitTypeOK == Init => TypeOK
<1> SUFFICES ASSUME Init PROVE TypeOK
  OBVIOUS
<1>1. queue \in [Lanes -> Seq(Ids)]
  BY DEF Init
<1>2. nextId \in 1 .. MaxJobs + 1
  BY BoundsAssumption DEF Init
<1> QED
  BY <1>1, <1>2 DEF Init, TypeOK, WorkerStates, UiStates

\* An answer that is counted as late is one more.
LEMMA AnsweredType ==
  ASSUME TypeOK, NEW l \in Lanes, Answered(l)
  PROVE  late' \in [Lanes -> Nat]
BY DEF TypeOK, Answered

LEMMA NextTypeOK == TypeOK /\ [Next]_tmVars => TypeOK'
<1> SUFFICES ASSUME TypeOK, [Next]_tmVars PROVE TypeOK'
  OBVIOUS
<1> USE BoundsAssumption
<1> USE DEF TypeOK, Lanes, Ids, NoJob, WorkerStates, UiStates, TerminalStates
<1>1. CASE Start
  BY <1>1 DEF Start, historyVars
<1>2. CASE Shutdown
  BY <1>2 DEF Shutdown, historyVars
<1>3. ASSUME NEW o \in Ops, Enqueue(o) PROVE TypeOK'
  BY <1>3 DEF Enqueue, LaneFor, historyVars
<1>4. ASSUME NEW id \in Ids, Cancel(id) PROVE TypeOK'
  BY <1>4 DEF Cancel, historyVars
<1>5. CASE UiStep
  BY <1>5 DEF UiStep, EnqueueNotify, EnqueueEmit, StopNotify, Join,
    NotifyAll, historyVars
<1>6. ASSUME NEW l \in Lanes, Sleep(l) \/ Exit(l) \/ SpuriousWake(l) \/ Begin(l)
                              \/ Announce(l) \/ SendRequest(l)
      PROVE TypeOK'
  <2>1. \E s \in WorkerStates : worker' = [worker EXCEPT ![l] = s]
    BY <1>6 DEF Sleep, Exit, SpuriousWake, Begin, Announce, SendRequest
  <2>2. UNCHANGED <<queue, active, op, cancelled, nextId, started, stopping, ui,
                    uiJob, outcome, late>>
    BY <1>6 DEF Sleep, Exit, SpuriousWake, Begin, Announce, SendRequest, historyVars
  <2> QED
    BY <2>1, <2>2
<1>7. ASSUME NEW l \in Lanes, Pick(l) PROVE TypeOK'
  <2>1. Head(queue[l]) \in Ids /\ Tail(queue[l]) \in Seq(Ids)
    BY <1>7, TailIndex DEF Pick
  <2> QED
    BY <1>7, <2>1 DEF Pick, historyVars
<1>8. ASSUME NEW l \in Lanes, SkipCancelled(l) PROVE TypeOK'
  BY <1>8 DEF SkipCancelled
<1>9. ASSUME NEW l \in Lanes, NEW ok \in BOOLEAN, Finish(l, ok) PROVE TypeOK'
  <2>1. late' \in [Lanes -> Nat]
    BY <1>9, AnsweredType DEF Finish
  <2> QED
    BY <1>9, <2>1 DEF Finish, ResultState
<1>10. ASSUME NEW l \in Lanes, ResetActive(l) \/ NextRequest(l) PROVE TypeOK'
  <2>1. CASE ResetActive(l)
    BY <2>1 DEF ResetActive, historyVars
  <2>2. CASE NextRequest(l)
    <3>1. late' \in [Lanes -> Nat]
      BY <2>2, AnsweredType DEF NextRequest
    <3> QED
      BY <2>2, <3>1 DEF NextRequest
  <2> QED
    BY <1>10, <2>1, <2>2
<1>11. CASE UNCHANGED tmVars
  BY <1>11 DEF tmVars, historyVars
<1> QED
  BY <1>1, <1>2, <1>3, <1>4, <1>5, <1>6, <1>7, <1>8, <1>9, <1>10, <1>11
  DEF Next, UserStep, WorkerStep, Closed

-----------------------------------------------------------------------------
(* The inductive invariant *)

LEMMA InitIInv == Init => IInv
<1> SUFFICES ASSUME Init PROVE IInv
  OBVIOUS
<1>1. TypeOK
  BY InitTypeOK
<1>2. WorkersHold /\ FreshIds /\ LateRequests
  BY DEF Init, WorkersHold, FreshIds, LateRequests, Running
<1>3. ServedInOrder
  BY DEF Init, ServedInOrder, Holds
<1>4. NoJobLost /\ StopFlagsEveryJob
  BY DEF Init, NoJobLost, StopFlagsEveryJob, Accepted
<1> QED
  BY <1>1, <1>2, <1>3, <1>4 DEF IInv

\* A step that touches neither the jobs nor what the workers hold keeps the
\* invariant, whatever it does to the UI thread and to idle workers.
LEMMA IdleStep ==
  ASSUME IInv, TypeOK', stopping' = stopping,
         UNCHANGED <<queue, active, op, cancelled, nextId, historyVars>>,
         started => started',
         \A l \in Lanes :
           \/ worker'[l] = worker[l]
           \/ {worker[l], worker'[l]}
                \cap (Running \cup {"picked", "reset"}) = {}
              /\ started'
  PROVE  IInv'
<1> USE DEF IInv, historyVars
<1>1. WorkersHold' /\ FreshIds' /\ LateRequests'
  BY DEF WorkersHold, FreshIds, LateRequests, Accepted, Running
<1>2. \A l \in Lanes, id \in Ids : Holds(l, id)' <=> Holds(l, id)
  BY DEF Holds, Running
<1>3. ServedInOrder'
  BY <1>2 DEF ServedInOrder, Accepted
<1>4. NoJobLost'
  <2>1. \A id \in Accepted : id \in Ids
    BY BoundsAssumption DEF Accepted, TypeOK, Ids
  <2> QED
    BY <2>1, <1>2 DEF NoJobLost, QueuedIn, Accepted
<1>5. StopFlagsEveryJob'
  BY DEF StopFlagsEveryJob, Accepted
<1> QED
  BY <1>1, <1>3, <1>4, <1>5

\* Enqueue: the new id is larger than every id there is.
LEMMA EnqueueIInv ==
  ASSUME IInv, TypeOK', NEW o \in Ops, Enqueue(o)
  PROVE  IInv'
<1> USE DEF IInv
<1> DEFINE n == LaneFor(o)
<1>1. n \in Lanes /\ nextId \in Ids /\ nextId \notin Accepted
      /\ nextId' = nextId + 1 /\ nextId \in Nat
  BY BoundsAssumption DEF Enqueue, TypeOK, LaneFor, Lanes, Ids, Accepted
<1>2. /\ Accepted' = Accepted \cup {nextId} /\ Accepted \subseteq Ids
      /\ \A id \in Accepted : id < nextId /\ op'[id] = op[id]
      /\ op'[nextId] = o
  BY <1>1, BoundsAssumption DEF Enqueue, TypeOK, Accepted, Ids
<1>3. /\ queue'[n] = Append(queue[n], nextId)
      /\ \A l \in Lanes : l # n => queue'[l] = queue[l]
  BY <1>1 DEF Enqueue, TypeOK
<1>4. /\ Len(queue'[n]) = Len(queue[n]) + 1 /\ Len(queue[n]) \in Nat
      /\ \A i \in 1 .. Len(queue[n]) : queue'[n][i] = queue[n][i]
      /\ queue'[n][Len(queue[n]) + 1] = nextId
  <2>1. queue[n] \in Seq(Ids)
    BY <1>1 DEF TypeOK
  <2> QED
    BY <2>1, <1>1, <1>3, AppendIndex
<1>5. \A l \in Lanes, id \in Ids : Holds(l, id)' <=> Holds(l, id)
  BY DEF Holds, Running, Enqueue
<1>6. \A l \in Lanes : active[l] < nextId
  BY <1>1, <1>2 DEF WorkersHold, NoJob, Accepted
<1>7. WorkersHold' /\ LateRequests'
  BY <1>2 DEF WorkersHold, LateRequests, Running, Enqueue, historyVars
<1>8. FreshIds'
  BY <1>1 DEF FreshIds, Enqueue, Ids, historyVars
<1>9. ServedInOrder'
  <2> SUFFICES ASSUME NEW l \in Lanes
               PROVE  /\ \A i, j \in 1 .. Len(queue'[l]) :
                           i < j => queue'[l][i] < queue'[l][j]
                      /\ \A i \in 1 .. Len(queue'[l]) :
                           /\ queue'[l][i] \in Accepted'
                           /\ LaneFor(op'[queue'[l][i]]) = l
                           /\ active'[l] < queue'[l][i]
                           /\ outcome'[queue'[l][i]] = "none"
                      /\ \A id \in Ids : Holds(l, id)' => outcome'[id] = "none"
    BY DEF ServedInOrder
  <2>1. /\ \A i, j \in 1 .. Len(queue[l]) : i < j => queue[l][i] < queue[l][j]
        /\ \A i \in 1 .. Len(queue[l]) :
             /\ queue[l][i] \in Accepted
             /\ LaneFor(op[queue[l][i]]) = l
             /\ active[l] < queue[l][i]
             /\ outcome[queue[l][i]] = "none"
        /\ \A id \in Ids : Holds(l, id) => outcome[id] = "none"
    BY DEF ServedInOrder
  <2>2. active' = active /\ outcome' = outcome
    BY DEF Enqueue, historyVars
  <2>3. outcome[nextId] = "none"
    BY <1>1 DEF FreshIds
  <2>4. CASE l # n
    BY <1>2, <1>3, <1>5, <2>1, <2>2, <2>4
  <2>5. CASE l = n
    <3>1. \A i \in 1 .. Len(queue'[n]) :
            i \in 1 .. Len(queue[n]) \/ i = Len(queue[n]) + 1
      BY <1>4
    <3> HIDE DEF n
    <3>2. \A i, j \in 1 .. Len(queue'[n]) : i < j =>
            i \in 1 .. Len(queue[n]) /\ queue'[n][i] < queue'[n][j]
      BY <1>2, <1>4, <2>1, <2>5, <3>1
    <3>3. LaneFor(op'[nextId]) = n
      BY <1>2 DEF n
    <3>4. \A i, j \in 1 .. Len(queue'[l]) : i < j => queue'[l][i] < queue'[l][j]
      BY <2>5, <3>2
    <3>5. ASSUME NEW i \in 1 .. Len(queue'[l])
          PROVE  /\ queue'[l][i] \in Accepted'
                 /\ LaneFor(op'[queue'[l][i]]) = l
                 /\ active'[l] < queue'[l][i]
                 /\ outcome'[queue'[l][i]] = "none"
      <4>1. CASE i \in 1 .. Len(queue[n])
        <5>1. queue'[l][i] = queue[l][i] /\ queue[l][i] \in Accepted
          BY <1>4, <2>1, <2>5, <4>1
        <5> QED
          BY <1>2, <2>1, <2>2, <2>5, <4>1, <5>1
      <4>2. CASE i = Len(queue[n]) + 1
        <5>1. queue'[l][i] = nextId
          BY <1>4, <2>5, <4>2
        <5> QED
          BY <1>2, <1>6, <2>2, <2>3, <2>5, <3>3, <5>1
      <4> QED
        BY <2>5, <3>1, <4>1, <4>2
    <3>6. \A id \in Ids : Holds(l, id)' => outcome'[id] = "none"
      BY <1>5, <2>1, <2>2
    <3> QED
      BY <3>4, <3>5, <3>6
  <2> QED
    BY <2>4, <2>5
<1>10. NoJobLost'
  <2>1. nextId \in QueuedIn(n)'
    BY <1>4 DEF QueuedIn
  <2>2. \A l \in Lanes : QueuedIn(l) \subseteq QueuedIn(l)'
    BY <1>3, <1>4 DEF QueuedIn
  <2>3. outcome' = outcome
    BY DEF Enqueue, historyVars
  <2> QED
    BY <1>1, <1>2, <1>5, <2>1, <2>2, <2>3 DEF NoJobLost
<1>11. StopFlagsEveryJob'
  BY DEF StopFlagsEveryJob, Enqueue, historyVars
<1> QED
  BY <1>7, <1>8, <1>9, <1>10, <1>11

\* Pick: the front of the queue is smaller than what stays behind it.
LEMMA PickIInv ==
  ASSUME IInv, TypeOK', NEW n \in Lanes, Pick(n)
  PROVE  IInv'
<1> USE DEF IInv
<1> DEFINE id == Head(queue[n])
<1>1. queue[n] \in Seq(Ids) /\ queue[n] # << >>
  BY DEF TypeOK, Pick
<1>2. /\ id = queue[n][1] /\ id \in Ids
      /\ Len(queue[n]) \in Nat \ {0}
      /\ Len(Tail(queue[n])) = Len(queue[n]) - 1
      /\ \A i \in 1 .. Len(queue[n]) - 1 : Tail(queue[n])[i] = queue[n][i + 1]
  BY <1>1, TailIndex
<1>3. /\ queue'[n] = Tail(queue[n]) /\ active'[n] = id
      /\ worker[n] = "check" /\ worker'[n] = "picked"
      /\ \A l \in Lanes : l # n => /\ queue'[l] = queue[l]
                                   /\ active'[l] = active[l]
                                   /\ worker'[l] = worker[l]
      /\ UNCHANGED <<op, cancelled, nextId, started, stopping, outcome, late>>
  BY DEF Pick, TypeOK, historyVars
<1>4. Accepted' = Accepted
  BY <1>3 DEF Accepted
<1>5. /\ \A i, j \in 1 .. Len(queue[n]) : i < j => queue[n][i] < queue[n][j]
      /\ \A i \in 1 .. Len(queue[n]) :
           /\ queue[n][i] \in Accepted
           /\ LaneFor(op[queue[n][i]]) = n
           /\ active[n] < queue[n][i]
           /\ outcome[queue[n][i]] = "none"
  BY DEF ServedInOrder
<1>6. id \in Accepted /\ LaneFor(op[id]) = n /\ outcome[id] = "none"
  BY <1>2, <1>5
<1>7. WorkersHold' /\ LateRequests'
  BY <1>3, <1>4, <1>6 DEF WorkersHold, LateRequests, Running
<1>8. FreshIds'
  BY <1>3 DEF FreshIds
<1>9. \A l \in Lanes, i \in Ids :
        Holds(l, i)' <=> Holds(l, i) \/ (l = n /\ i = id)
  BY <1>3 DEF Holds, Running
<1>10. ServedInOrder'
  <2> SUFFICES ASSUME NEW l \in Lanes
               PROVE  /\ \A i, j \in 1 .. Len(queue'[l]) :
                           i < j => queue'[l][i] < queue'[l][j]
                      /\ \A i \in 1 .. Len(queue'[l]) :
                           /\ queue'[l][i] \in Accepted'
                           /\ LaneFor(op'[queue'[l][i]]) = l
                           /\ active'[l] < queue'[l][i]
                           /\ outcome'[queue'[l][i]] = "none"
                      /\ \A i \in Ids : Holds(l, i)' => outcome'[i] = "none"
    BY DEF ServedInOrder
  <2>1. \A i \in Ids : Holds(l, i)' => outcome'[i] = "none"
    BY <1>3, <1>6, <1>9 DEF ServedInOrder
  <2>2. CASE l # n
    BY <1>3, <1>4, <2>1, <2>2 DEF ServedInOrder
  <2>3. CASE l = n
    <3>1. \A i \in 1 .. Len(queue'[n]) :
            /\ queue'[n][i] = queue[n][i + 1]
            /\ i + 1 \in 1 .. Len(queue[n]) /\ 1 < i + 1
      BY <1>2, <1>3
    <3>2. 1 \in 1 .. Len(queue[n])
      BY <1>2
    <3>3. \A i \in 1 .. Len(queue'[n]) : id < queue'[n][i]
      BY <1>2, <1>5, <3>1, <3>2
    <3>4. \A i, j \in 1 .. Len(queue'[n]) :
            i < j => queue'[n][i] < queue'[n][j]
      <4> SUFFICES ASSUME NEW i \in 1 .. Len(queue'[n]),
                          NEW j \in 1 .. Len(queue'[n]), i < j
                   PROVE  queue'[n][i] < queue'[n][j]
        OBVIOUS
      <4>1. i + 1 < j + 1
        BY <1>2, <1>3
      <4>2. queue[n][i + 1] < queue[n][j + 1]
        BY <4>1, <1>5, <3>1
      <4> QED
        BY <4>2, <3>1
    <3>5. \A i \in 1 .. Len(queue'[n]) :
            /\ queue'[n][i] \in Accepted'
            /\ LaneFor(op'[queue'[n][i]]) = n
            /\ outcome'[queue'[n][i]] = "none"
      <4> SUFFICES ASSUME NEW i \in 1 .. Len(queue'[n])
                   PROVE  /\ queue'[n][i] \in Accepted'
                          /\ LaneFor(op'[queue'[n][i]]) = n
                          /\ outcome'[queue'[n][i]] = "none"
        OBVIOUS
      <4>1. queue'[n][i] = queue[n][i + 1] /\ i + 1 \in 1 .. Len(queue[n])
        BY <3>1
      <4> QED
        BY <4>1, <1>3, <1>4, <1>5
    <3> HIDE DEF id
    <3> QED
      BY <1>3, <2>1, <2>3, <3>3, <3>4, <3>5
  <2> QED
    BY <2>2, <2>3
<1>11. NoJobLost'
  <2>1. \A i \in QueuedIn(n) : i = id \/ i \in QueuedIn(n)'
    <3> SUFFICES ASSUME NEW k \in 1 .. Len(queue[n]), k # 1
                 PROVE  queue[n][k] \in QueuedIn(n)'
      BY <1>2 DEF QueuedIn
    <3>1. k - 1 \in 1 .. Len(queue'[n]) /\ queue'[n][k - 1] = queue[n][k]
      BY <1>2, <1>3
    <3> QED
      BY <3>1 DEF QueuedIn
  <2>2. \A l \in Lanes : l # n => QueuedIn(l)' = QueuedIn(l)
    BY <1>3 DEF QueuedIn
  <2>3. \A i \in Accepted : i \in Ids
    BY BoundsAssumption DEF Accepted, TypeOK, Ids
  <2> QED
    BY <1>3, <1>4, <1>9, <2>1, <2>2, <2>3 DEF NoJobLost
<1>12. StopFlagsEveryJob'
  BY <1>3, <1>4 DEF StopFlagsEveryJob
<1> QED
  BY <1>7, <1>8, <1>10, <1>11, <1>12

\* The answer to a request leaves at most one late one in its lane.
LEMMA AnswerIsLast ==
  ASSUME IInv, NEW n \in Lanes, Answered(n), UNCHANGED stopping,
         worker'[n] # "sending", \A l \in Lanes : l # n => worker'[l] = worker[l]
  PROVE  LateRequests'
BY DEF IInv, TypeOK, LateRequests, Answered

\* Announcing the outcome of a held job, cancelled or run.
LEMMA OutcomeIInv ==
  ASSUME IInv, TypeOK', NEW n \in Lanes, NEW s \in TerminalStates,
         worker[n] \in Running \cup {"picked"},
         outcome' = [outcome EXCEPT ![active[n]] = s],
         worker' = [worker EXCEPT ![n] = "reset"],
         Answered(n) \/ UNCHANGED late,
         UNCHANGED <<queue, active, op, cancelled, nextId, started, stopping>>
  PROVE  IInv'
<1> USE DEF IInv
<1> DEFINE id == active[n]
<1>1. /\ id \in Accepted /\ LaneFor(op[id]) = n
      /\ Accepted' = Accepted /\ Accepted \subseteq Ids
      /\ nextId \in Nat /\ id < nextId
  BY BoundsAssumption DEF WorkersHold, Accepted, TypeOK, Ids
<1>2. /\ worker'[n] = "reset"
      /\ \A l \in Lanes : l # n => worker'[l] = worker[l]
      /\ \A i \in Ids : i # id => outcome'[i] = outcome[i]
      /\ outcome'[id] = s /\ s # "none"
  BY <1>1 DEF TypeOK, TerminalStates
<1>3. WorkersHold' /\ LateRequests'
  <2>1. WorkersHold'
    BY <1>1, <1>2 DEF WorkersHold, Running
  <2>2. LateRequests'
    <3>1. CASE Answered(n)
      <4>1. worker'[n] # "sending"
        BY <1>2
      <4> QED
        BY <1>2, <3>1, <4>1, AnswerIsLast
    <3>2. CASE UNCHANGED late
      BY <1>2, <3>2 DEF LateRequests
    <3> QED
      BY <3>1, <3>2
  <2> QED
    BY <2>1, <2>2
<1>4. FreshIds'
  BY <1>1, <1>2 DEF FreshIds, Ids
<1>5. \A l \in Lanes, i \in Ids : Holds(l, i)' <=> Holds(l, i) /\ l # n
  BY <1>2 DEF Holds, Running
<1>6. ServedInOrder'
  <2>1. \A l \in Lanes : l # n => active[l] # id
    BY <1>1 DEF WorkersHold, NoJob, Accepted
  <2>2. \A l \in Lanes : \A i \in 1 .. Len(queue[l]) :
          queue[l][i] \in Ids /\ queue[l][i] # id
    <3> SUFFICES ASSUME NEW l \in Lanes, NEW i \in 1 .. Len(queue[l])
                 PROVE  queue[l][i] \in Ids /\ queue[l][i] # id
      OBVIOUS
    <3>1. queue[l][i] \in Accepted /\ outcome[queue[l][i]] = "none"
          /\ LaneFor(op[queue[l][i]]) = l
      BY DEF ServedInOrder
    <3>2. CASE l # n
      BY <1>1, <3>1, <3>2
    <3>3. CASE l = n
      <4>1. id < queue[l][i]
        BY <3>3 DEF ServedInOrder
      <4>2. id \in Nat
        <5>1. id \in Ids
          BY <1>1
        <5>2. \A k \in Ids : k \in Nat
          BY BoundsAssumption DEF Ids
        <5> QED
          BY <5>1, <5>2
      <4>3. queue[l][i] # id
        BY <4>1, <4>2
      <4> QED
        BY <1>1, <3>1, <4>3
    <3> QED
      BY <3>2, <3>3
  <2>3. \A l \in Lanes, i \in Ids : Holds(l, i)' => outcome'[i] = "none"
    BY <1>2, <1>5, <2>1 DEF ServedInOrder, Holds
  <2> QED
    BY <1>1, <1>2, <2>2, <2>3 DEF ServedInOrder
<1>7. NoJobLost'
  <2>1. \A i \in Accepted : outcome'[i] = "none" => i # id /\ outcome[i] = "none"
    BY <1>1, <1>2
  <2>2. \A l \in Lanes, i \in Ids : Holds(l, i) /\ i # id => Holds(l, i)'
    BY <1>5 DEF Holds
  <2>3. \A l \in Lanes : QueuedIn(l)' = QueuedIn(l)
    BY DEF QueuedIn
  <2> QED
    BY <1>1, <2>1, <2>2, <2>3 DEF NoJobLost
<1>8. StopFlagsEveryJob'
  BY <1>1, <1>2 DEF StopFlagsEveryJob
<1> QED
  BY <1>3, <1>4, <1>6, <1>7, <1>8

\* The remaining steps: flags are raised, a held job begins to run, a worker
\* lets go of a job whose outcome is known.
LEMMA FlagIInv ==
  ASSUME IInv, TypeOK', (\E id \in Ids : Cancel(id)) \/ Shutdown
  PROVE  IInv'
<1> USE DEF IInv
<1>1. /\ UNCHANGED <<queue, active, op, nextId, started, worker, outcome, late>>
      /\ \A i \in Ids : cancelled[i] => cancelled'[i]
      /\ stopping => stopping'
  BY DEF Cancel, Shutdown, TypeOK, historyVars
<1>2. /\ WorkersHold' /\ FreshIds' /\ LateRequests'
      /\ Accepted' = Accepted /\ Accepted \subseteq Ids
  BY <1>1, BoundsAssumption
  DEF WorkersHold, FreshIds, LateRequests, Accepted, Ids, TypeOK
<1>3. \A l \in Lanes, i \in Ids : /\ Holds(l, i)' <=> Holds(l, i)
                                 /\ QueuedIn(l)' = QueuedIn(l)
  BY <1>1 DEF Holds, QueuedIn
<1>4. ServedInOrder' /\ NoJobLost'
  BY <1>1, <1>2, <1>3 DEF ServedInOrder, NoJobLost
<1>5. StopFlagsEveryJob'
  <2>1. CASE Shutdown
    <3>1. \A i \in Ids : (\E l \in Lanes : i \in QueuedIn(l) \/ active[l] = i)
                          => cancelled'[i]
      BY <2>1 DEF Shutdown
    <3> QED
      BY <1>1, <1>2, <3>1 DEF StopFlagsEveryJob, NoJobLost, Holds
  <2>2. CASE \E id \in Ids : Cancel(id)
    BY <1>1, <1>2, <2>2 DEF StopFlagsEveryJob, Cancel
  <2> QED
    BY <2>1, <2>2
<1> QED
  BY <1>2, <1>4, <1>5

\* A held job begins, and its requests go out and are answered: the lane that
\* had a late request sends no other, since the flag of its job is set.
LEMMA GoesOnIInv ==
  ASSUME IInv, TypeOK', NEW n \in Lanes,
         Begin(n) \/ Announce(n) \/ SendRequest(n) \/ NextRequest(n)
  PROVE  IInv'
<1> USE DEF IInv
<1>1. /\ UNCHANGED <<queue, active, op, cancelled, nextId, started, stopping,
                     outcome>>
      /\ worker[n] \in Running \cup {"picked"} /\ worker'[n] \in Running
      /\ \A l \in Lanes : l # n => worker'[l] = worker[l]
  BY DEF Begin, Announce, SendRequest, NextRequest, TypeOK, Running, historyVars
<1>2. Accepted' = Accepted /\ Accepted \subseteq Ids
  BY <1>1, BoundsAssumption DEF Accepted, Ids, TypeOK
<1>3. WorkersHold' /\ FreshIds' /\ StopFlagsEveryJob'
  BY <1>1, <1>2 DEF WorkersHold, FreshIds, StopFlagsEveryJob, Running
<1>4. \A l \in Lanes, i \in Ids : /\ Holds(l, i)' <=> Holds(l, i)
                                 /\ QueuedIn(l)' = QueuedIn(l)
  BY <1>1 DEF Holds, QueuedIn, Running
<1>5. ServedInOrder' /\ NoJobLost'
  BY <1>1, <1>2, <1>4 DEF ServedInOrder, NoJobLost
<1>6. LateRequests'
  <2>1. CASE NextRequest(n)
    <3>1. worker'[n] # "sending"
      BY <2>1 DEF NextRequest, TypeOK
    <3> QED
      BY <1>1, <2>1, <3>1, AnswerIsLast DEF NextRequest
  <2>2. CASE SendRequest(n)
    <3>1. active[n] \in Accepted /\ outcome[active[n]] = "none" /\ ~cancelled[active[n]]
      BY <1>1, <1>2, <2>2 DEF SendRequest, WorkersHold, ServedInOrder, Holds
    <3>2. ~stopping
      BY <3>1 DEF StopFlagsEveryJob
    <3> QED
      BY <1>1, <2>2, <3>2 DEF SendRequest, LateRequests, historyVars
  <2>3. CASE Begin(n) \/ Announce(n)
    BY <1>1, <2>3 DEF Begin, Announce, LateRequests, TypeOK, historyVars
  <2> QED
    BY <2>1, <2>2, <2>3
<1> QED
  BY <1>3, <1>5, <1>6

LEMMA ResetIInv ==
  ASSUME IInv, TypeOK', NEW n \in Lanes, ResetActive(n)
  PROVE  IInv'
<1> USE DEF IInv
<1>1. /\ UNCHANGED <<queue, op, cancelled, nextId, started, stopping, outcome, late>>
      /\ worker[n] = "reset" /\ worker'[n] = "check" /\ active'[n] = NoJob
      /\ \A l \in Lanes : l # n => /\ worker'[l] = worker[l]
                                   /\ active'[l] = active[l]
  BY DEF ResetActive, TypeOK, historyVars
<1>2. Accepted' = Accepted /\ Accepted \subseteq Ids
  BY <1>1, BoundsAssumption DEF Accepted, Ids, TypeOK
<1>3. WorkersHold' /\ FreshIds' /\ LateRequests' /\ StopFlagsEveryJob'
  BY <1>1, <1>2 DEF WorkersHold, FreshIds, LateRequests, StopFlagsEveryJob, Running
<1>4. \A l \in Lanes, i \in Ids : /\ Holds(l, i)' <=> Holds(l, i)
                                 /\ QueuedIn(l)' = QueuedIn(l)
  BY <1>1 DEF Holds, QueuedIn, Running
<1>5. \A l \in Lanes : \A i \in 1 .. Len(queue[l]) : active'[l] < queue[l][i]
  BY <1>1 DEF ServedInOrder, Accepted, NoJob
<1>6. ServedInOrder' /\ NoJobLost'
  BY <1>1, <1>2, <1>4, <1>5 DEF ServedInOrder, NoJobLost
<1> QED
  BY <1>3, <1>6

LEMMA NextIInv == IInv /\ [Next]_tmVars => IInv'
<1> SUFFICES ASSUME IInv, [Next]_tmVars PROVE IInv'
  OBVIOUS
<1>1. TypeOK /\ TypeOK'
  BY NextTypeOK DEF IInv
<1>2. CASE Start
  <2>1. \A l \in Lanes : worker[l] = "none" /\ worker'[l] = "check"
    BY <1>2 DEF Start, IInv, WorkersHold
  <2> QED
    BY <1>1, <1>2, <2>1, IdleStep DEF Start, Running
<1>3. CASE Shutdown \/ \E id \in Ids : Cancel(id)
  BY <1>1, <1>3, FlagIInv
<1>4. CASE \E o \in Ops : Enqueue(o)
  BY <1>1, <1>4, EnqueueIInv
<1>5. CASE UiStep
  <2>1. \A l \in Lanes : worker[l] = "waiting" => started
    BY DEF IInv, WorkersHold
  <2>2. CASE EnqueueNotify \/ StopNotify
    BY <1>1, <2>1, <2>2, IdleStep DEF EnqueueNotify, StopNotify, NotifyAll, Running
  <2>3. CASE EnqueueEmit \/ Join
    BY <1>1, <2>3, IdleStep DEF EnqueueEmit, Join
  <2> QED
    BY <1>5, <2>2, <2>3 DEF UiStep
<1>6. ASSUME NEW n \in Lanes, Sleep(n) \/ Exit(n) \/ SpuriousWake(n)
      PROVE  IInv'
  <2>1. worker[n] # "none" /\ started
    BY <1>6 DEF Sleep, Exit, SpuriousWake, IInv, WorkersHold
  <2>2. \A l \in Lanes : l # n => worker'[l] = worker[l]
    BY <1>1, <1>6 DEF Sleep, Exit, SpuriousWake, TypeOK
  <2>3. {worker[n], worker'[n]} \cap (Running \cup {"picked", "reset"}) = {}
    BY <1>1, <1>6 DEF Sleep, Exit, SpuriousWake, TypeOK, Running
  <2> QED
    BY <1>1, <1>6, <2>1, <2>2, <2>3, IdleStep DEF Sleep, Exit, SpuriousWake
<1>7. ASSUME NEW n \in Lanes, Pick(n) PROVE IInv'
  BY <1>1, <1>7, PickIInv
<1>8. ASSUME NEW n \in Lanes, SkipCancelled(n) PROVE IInv'
  BY <1>1, <1>8, OutcomeIInv DEF SkipCancelled, TerminalStates
<1>9. ASSUME NEW n \in Lanes, NEW ok \in BOOLEAN, Finish(n, ok) PROVE IInv'
  <2>1. ResultState(ok, cancelled[active[n]]) \in TerminalStates
    BY DEF ResultState, TerminalStates
  <2> QED
    BY <1>1, <1>9, <2>1, OutcomeIInv DEF Finish, Running
<1>10. ASSUME NEW n \in Lanes,
              Begin(n) \/ Announce(n) \/ SendRequest(n) \/ NextRequest(n)
       PROVE  IInv'
  BY <1>1, <1>10, GoesOnIInv
<1>11. ASSUME NEW n \in Lanes, ResetActive(n) PROVE IInv'
  BY <1>1, <1>11, ResetIInv
<1>12. CASE UNCHANGED tmVars
  BY <1>1, <1>12, IdleStep DEF tmVars
<1> QED
  BY <1>2, <1>3, <1>4, <1>5, <1>6, <1>7, <1>8, <1>9, <1>10, <1>11, <1>12
  DEF Next, UserStep, WorkerStep, Closed

-----------------------------------------------------------------------------
(* The theorems *)

\* The inductive invariant holds in every reachable state.
THEOREM Invariance == Spec => []IInv
<1>1. Init => IInv
  BY InitIInv
<1>2. IInv /\ [Next]_tmVars => IInv'
  BY NextIInv
<1> QED
  BY <1>1, <1>2, PTL DEF Spec

\* A held job is accepted in its worker's lane and has no outcome.
LEMMA HeldJob ==
  ASSUME IInv, NEW l \in Lanes, worker[l] \in Running \cup {"picked"}
  PROVE  /\ active[l] \in Ids /\ active[l] \in Accepted
         /\ LaneFor(op[active[l]]) = l
         /\ outcome[active[l]] = "none"
<1>1. active[l] \in Accepted /\ LaneFor(op[active[l]]) = l
  BY DEF IInv, WorkersHold
<1>2. active[l] \in Ids
  BY <1>1, BoundsAssumption DEF IInv, TypeOK, Accepted, Ids
<1> QED
  BY <1>1, <1>2 DEF IInv, ServedInOrder, Holds

\* Type correctness.
THEOREM TypeCorrect == Spec => []TypeOK
<1>1. IInv => TypeOK
  BY DEF IInv
<1> QED
  BY <1>1, Invariance, PTL

\* No job accepted by Enqueue is lost before its outcome is announced: not
\* while the workers take jobs, and not by Shutdown.
THEOREM JobsAreKept == Spec => []NoJobLost
<1>1. IInv => NoJobLost
  BY DEF IInv
<1> QED
  BY <1>1, Invariance, PTL

\* Each lane serves its jobs in the order of Enqueue, none of them twice.
THEOREM Order == Spec => []ServedInOrder
<1>1. IInv => ServedInOrder
  BY DEF IInv
<1> QED
  BY <1>1, Invariance, PTL

\* From Shutdown on every job without an outcome carries the cancel flag.
THEOREM ShutdownReachesAll == Spec => []StopFlagsEveryJob
<1>1. IInv => StopFlagsEveryJob
  BY DEF IInv
<1> QED
  BY <1>1, Invariance, PTL

\* Although the workers look at their flags without the mutex, at most one
\* request of each lane is out or goes out once the manager is stopping.
THEOREM LateRequestsAreFew == Spec => []AtMostOneLateRequest
<1>1. IInv => AtMostOneLateRequest
  BY DEF IInv, LateRequests, AtMostOneLateRequest
<1> QED
  BY <1>1, Invariance, PTL

-----------------------------------------------------------------------------
(***************************************************************************)
(* The manager implements JobLifecycle: each step is a step of the         *)
(* lifecycle of one job, the closing, or a stutter.                        *)
(***************************************************************************)

\* A worker has cleared the job to run and not announced its outcome.
Runs(id) == \E l \in Lanes : active[l] = id /\ worker[l] \in Running

Statuses == [i \in Ids |-> StatusOf(i)]
LaneOfJob == [i \in Ids |-> IF i \in Accepted THEN LaneFor(op[i]) ELSE 2]
Flagged == {i \in Ids : cancelled[i]}

\* The status of a job in the terms of the invariant.
LEMMA StatusCases ==
  ASSUME IInv, NEW id \in Ids
  PROVE  /\ Statuses[id] = "none" <=> id \notin Accepted
         /\ Statuses[id] \in TerminalStates <=> outcome[id] # "none"
         /\ outcome[id] # "none" => Statuses[id] = outcome[id]
         /\ Statuses[id] = "running" <=>
              id \in Accepted /\ outcome[id] = "none" /\ Runs(id)
         /\ Statuses[id] = "queued" <=>
              id \in Accepted /\ outcome[id] = "none" /\ ~Runs(id)
<1>1. outcome[id] \in TerminalStates \cup {"none"}
  BY DEF IInv, TypeOK
<1>2. id \notin Accepted => outcome[id] = "none"
  BY BoundsAssumption DEF IInv, TypeOK, FreshIds, Accepted, Ids
<1>3. Statuses[id] = StatusOf(id)
  BY DEF Statuses
<1> QED
  BY <1>1, <1>2, <1>3 DEF StatusOf, Runs, TerminalStates

\* A held job has no outcome and is accepted in the worker's lane.
LEMMA HeldInLane ==
  ASSUME IInv, NEW l \in Lanes, worker[l] \in Running \cup {"picked"}
  PROVE  /\ active[l] \in Ids /\ active[l] \in Accepted
         /\ outcome[active[l]] = "none"
         /\ LaneOfJob[active[l]] = l
BY HeldJob DEF LaneOfJob

\* A worker that holds a job it has not begun: it is the job's turn.
LEMMA HeldJobsTurn ==
  ASSUME IInv, NEW l \in Lanes, worker[l] = "picked"
  PROVE  /\ Statuses[active[l]] = "queued"
         /\ \A k \in Ids : LaneOfJob[k] = LaneOfJob[active[l]] /\ k # active[l] =>
              /\ Statuses[k] # "running"
              /\ Statuses[k] = "queued" => active[l] < k
<1> DEFINE j == active[l]
<1>1. j \in Ids /\ j \in Accepted /\ outcome[j] = "none" /\ LaneOfJob[j] = l
  BY HeldInLane
<1>2. ~Runs(j)
  <2> SUFFICES ASSUME NEW n \in Lanes, active[n] = j, worker[n] \in Running
               PROVE  FALSE
    BY DEF Runs
  <2>1. LaneOfJob[j] = n
    BY HeldInLane
  <2> QED
    BY <1>1, <2>1 DEF Running
<1>3. Statuses[j] = "queued"
  BY <1>1, <1>2, StatusCases
<1>4. ASSUME NEW k \in Ids, LaneOfJob[k] = l, k # j
      PROVE  Statuses[k] # "running" /\ (Statuses[k] = "queued" => j < k)
  <2>1. k \in Accepted /\ LaneFor(op[k]) = l
    BY <1>4 DEF LaneOfJob, Lanes
  <2>2. ~Runs(k)
    <3> SUFFICES ASSUME NEW n \in Lanes, active[n] = k, worker[n] \in Running
                 PROVE  FALSE
      BY DEF Runs
    <3>1. LaneOfJob[k] = n
      BY HeldInLane
    <3> QED
      BY <1>4, <3>1
  <2>3. ASSUME outcome[k] = "none" PROVE j < k
    <3>1. PICK n \in Lanes : k \in QueuedIn(n) \/ Holds(n, k)
      BY <2>1, <2>3 DEF IInv, NoJobLost
    <3>2. CASE k \in QueuedIn(n)
      <4>1. PICK i \in 1 .. Len(queue[n]) : queue[n][i] = k
        BY <3>2 DEF QueuedIn
      <4>2. LaneFor(op[k]) = n /\ active[n] < k
        BY <4>1 DEF IInv, ServedInOrder
      <4> QED
        BY <2>1, <4>2
    <3>3. CASE Holds(n, k)
      <4>1. LaneOfJob[k] = n
        BY <3>3, HeldInLane DEF Holds
      <4> QED
        BY <1>4, <3>3, <4>1 DEF Holds
    <3> QED
      BY <3>1, <3>2, <3>3
  <2> QED
    BY <2>2, <2>3, StatusCases
<1> QED
  BY <1>1, <1>3, <1>4

-----------------------------------------------------------------------------
(* Steps *)

\* A step that leaves jobs and flags alone, and begins and ends none, is a
\* stutter of the lifecycle.
LEMMA StutterStep ==
  ASSUME UNCHANGED <<outcome, nextId, op, cancelled, stopping>>,
         \A id \in Ids : Runs(id)' <=> Runs(id)
  PROVE  UNCHANGED <<Statuses, LaneOfJob, Flagged, stopping>>
<1>1. \A id \in Ids : StatusOf(id)' = StatusOf(id)
  BY DEF StatusOf, Runs, Accepted
<1>2. Statuses' = Statuses
  BY <1>1 DEF Statuses
<1>3. LaneOfJob' = LaneOfJob
  BY DEF LaneOfJob, Accepted
<1>4. Flagged' = Flagged
  BY DEF Flagged
<1> QED
  BY <1>2, <1>3, <1>4

\* Enqueue accepts the next job.
LEMMA EnqueueAccepts ==
  ASSUME IInv, IInv', NEW o \in Ops, Enqueue(o)
  PROVE  Jobs!Accept(nextId, LaneFor(o))
<1> USE DEF historyVars
<1>1. nextId \in Ids /\ nextId \notin Accepted /\ nextId \in Nat
      /\ Accepted' = Accepted \cup {nextId}
  BY BoundsAssumption DEF IInv, TypeOK, Enqueue, Accepted, Ids
<1>2. \A id \in Ids : id # nextId => op'[id] = op[id]
  BY DEF Enqueue, IInv, TypeOK
<1>3. op'[nextId] = o
  BY <1>1 DEF Enqueue, IInv, TypeOK
<1>4. \A id \in Ids : Runs(id)' <=> Runs(id)
  BY DEF Runs, Enqueue
<1>5. ~Runs(nextId) /\ outcome[nextId] = "none"
  <2>1. outcome[nextId] = "none"
    BY <1>1 DEF IInv, FreshIds
  <2> QED
    BY <1>1, <2>1, HeldInLane DEF Runs
<1>6. \A id \in Ids : id # nextId => StatusOf(id)' = StatusOf(id)
  BY <1>1, <1>4 DEF StatusOf, Runs, Enqueue
<1>7. \A id \in Ids : id = nextId => StatusOf(id)' = "queued"
  <2> SUFFICES ASSUME NEW id \in Ids, id = nextId PROVE StatusOf(id)' = "queued"
    OBVIOUS
  <2>1. outcome'[id] = "none" /\ id \in Accepted' /\ ~Runs(id)'
    BY <1>1, <1>4, <1>5 DEF Enqueue
  <2> QED
    BY <2>1 DEF StatusOf, Runs
<1>8. Statuses' = [Statuses EXCEPT ![nextId] = "queued"]
  BY <1>1, <1>6, <1>7 DEF Statuses
<1>9. LaneOfJob' = [LaneOfJob EXCEPT ![nextId] = LaneFor(o)]
  BY <1>1, <1>2, <1>3 DEF LaneOfJob
<1>10. UNCHANGED <<Flagged, stopping>> /\ ~stopping
  BY DEF Flagged, Enqueue
<1>11. Statuses[nextId] = "none" /\ \A k \in Ids : k < nextId => Statuses[k] # "none"
  BY <1>1, StatusCases DEF Accepted, Ids
<1> QED
  BY <1>8, <1>9, <1>10, <1>11
  DEF Jobs!Accept, Statuses, LaneOfJob, Flagged

\* Cancel gives up on one job, Shutdown on all that are alive.
LEMMA CancelGivesUp ==
  ASSUME IInv, NEW id \in Ids, Cancel(id)
  PROVE  Jobs!GiveUp(id)
<1> USE DEF historyVars
<1>1. id \in Accepted
  <2>1. PICK l \in Lanes : id \in QueuedIn(l) \/ active[l] = id
    BY DEF Cancel
  <2>2. CASE id \in QueuedIn(l)
    BY <2>2 DEF QueuedIn, IInv, ServedInOrder
  <2>3. CASE active[l] = id
    BY <2>3, BoundsAssumption DEF IInv, WorkersHold, NoJob, Ids
  <2> QED
    BY <2>1, <2>2, <2>3
<1>2. Statuses[id] # "none"
  BY <1>1, StatusCases
<1>3. Flagged' = Flagged \cup {id}
  BY DEF Flagged, Cancel, IInv, TypeOK
<1>4. \A i \in Ids : StatusOf(i)' = StatusOf(i)
  BY DEF StatusOf, Accepted, Cancel
<1>5. UNCHANGED <<Statuses, LaneOfJob, stopping>>
  BY <1>4 DEF Statuses, LaneOfJob, Accepted, Cancel
<1> QED
  BY <1>2, <1>3, <1>5 DEF Jobs!GiveUp, Statuses, LaneOfJob, Flagged

LEMMA ShutdownCloses ==
  ASSUME IInv, Shutdown
  PROVE  Jobs!Close
<1> USE DEF historyVars
<1> DEFINE over == {i \in Flagged' : Statuses[i] \in TerminalStates}
<1>1. \A i \in Ids : StatusOf(i)' = StatusOf(i)
  BY DEF StatusOf, Accepted, Shutdown
<1>2. UNCHANGED <<Statuses, LaneOfJob>>
  BY <1>1 DEF Statuses, LaneOfJob, Accepted, Shutdown
<1>3. ASSUME NEW i \in Ids, Statuses[i] \in {"queued", "running"}
      PROVE  i \in Flagged'
  <2>1. i \in Accepted /\ outcome[i] = "none"
    BY <1>3, StatusCases
  <2>2. \E l \in Lanes : i \in QueuedIn(l) \/ active[l] = i
    BY <2>1 DEF IInv, NoJobLost, Holds
  <2> QED
    BY <2>2 DEF Flagged, Shutdown
<1>4. ASSUME NEW i \in Ids, i \in Flagged'
      PROVE  \/ i \in Flagged \/ Statuses[i] \in {"queued", "running"}
             \/ Statuses[i] \in TerminalStates
  <2>1. CASE cancelled[i]
    BY <2>1 DEF Flagged
  <2>2. ASSUME NEW l \in Lanes, i \in QueuedIn(l) \/ active[l] = i
        PROVE  Statuses[i] \in {"queued", "running"} \cup TerminalStates
    <3>1. i \in Accepted
      <4>1. CASE i \in QueuedIn(l)
        BY <4>1 DEF QueuedIn, IInv, ServedInOrder
      <4>2. CASE active[l] = i
        BY <4>2, BoundsAssumption DEF IInv, WorkersHold, NoJob, Ids
      <4> QED
        BY <2>2, <4>1, <4>2
    <3> QED
      BY <3>1, StatusCases
  <2> QED
    BY <1>4, <2>1, <2>2 DEF Flagged, Shutdown
<1>5. Flagged \subseteq Flagged' /\ Flagged' \subseteq Ids
  BY DEF Flagged, Shutdown
<1>6. Flagged' = Flagged \cup {i \in Ids : Statuses[i] \in {"queued", "running"}} \cup over
  BY <1>3, <1>4, <1>5
<1>7. over \in SUBSET {i \in Ids : Statuses[i] \in {"Completed", "Failed", "Cancelled"}}
  BY <1>5 DEF TerminalStates
<1>8. ~stopping /\ stopping'
  BY DEF Shutdown
<1> HIDE DEF over
<1> QED
  BY <1>2, <1>6, <1>7, <1>8
  DEF Jobs!Close, Jobs!Live, Jobs!Outcomes, Statuses, LaneOfJob, Flagged

\* What a worker announces about its job changes the status of that job.
LEMMA OneStatus ==
  ASSUME IInv, NEW l \in Lanes, worker[l] \in Running \cup {"picked"}, NEW s,
         UNCHANGED <<active, op, cancelled, nextId, stopping>>,
         \A i \in Ids : i # active[l] => outcome'[i] = outcome[i],
         \A n \in Lanes : n # l => worker'[n] = worker[n],
         \A i \in Ids : i = active[l] => StatusOf(i)' = s
  PROVE  /\ Statuses' = [Statuses EXCEPT ![active[l]] = s]
         /\ UNCHANGED <<LaneOfJob, Flagged, stopping>>
<1>1. active[l] \in Ids
  BY HeldInLane
<1>2. \A i \in Ids : i # active[l] => StatusOf(i)' = StatusOf(i)
  BY DEF StatusOf, Accepted
<1>3. Statuses' = [Statuses EXCEPT ![active[l]] = s]
  BY <1>1, <1>2 DEF Statuses
<1> QED
  BY <1>3 DEF LaneOfJob, Flagged, Accepted

LEMMA BeginRuns ==
  ASSUME IInv, NEW l \in Lanes, Begin(l)
  PROVE  Jobs!Run(active[l])
<1>1. /\ worker[l] = "picked" /\ worker'[l] \in Running
      /\ \A n \in Lanes : n # l => worker'[n] = worker[n]
      /\ UNCHANGED <<outcome, active, op, cancelled, nextId, stopping>>
      /\ ~cancelled[active[l]]
  BY DEF Begin, IInv, TypeOK, Running, historyVars
<1>2. active[l] \in Ids /\ active[l] \in Accepted /\ outcome[active[l]] = "none"
  BY <1>1, HeldInLane
<1>3. \A i \in Ids : i = active[l] => StatusOf(i)' = "running"
  BY <1>1, <1>2 DEF StatusOf, Accepted
<1>4. Statuses' = [Statuses EXCEPT ![active[l]] = "running"]
      /\ UNCHANGED <<LaneOfJob, Flagged, stopping>>
  BY <1>1, <1>3, OneStatus
<1>5. active[l] \notin Flagged
  BY <1>1 DEF Flagged
<1> QED
  BY <1>1, <1>4, <1>5, HeldJobsTurn
  DEF Jobs!Run, Jobs!Turn, Statuses, LaneOfJob, Flagged

LEMMA SkipDrops ==
  ASSUME IInv, NEW l \in Lanes, SkipCancelled(l)
  PROVE  Jobs!Drop(active[l])
<1>1. /\ worker[l] = "picked" /\ cancelled[active[l]]
      /\ \A n \in Lanes : n # l => worker'[n] = worker[n]
      /\ UNCHANGED <<active, op, cancelled, nextId, stopping>>
  BY DEF SkipCancelled, IInv, TypeOK
<1>2. active[l] \in Ids
  BY <1>1, HeldInLane
<1>3. /\ outcome'[active[l]] = "Cancelled"
      /\ \A i \in Ids : i # active[l] => outcome'[i] = outcome[i]
  BY <1>2 DEF SkipCancelled, IInv, TypeOK
<1>4. \A i \in Ids : i = active[l] => StatusOf(i)' = "Cancelled"
  BY <1>1, <1>3 DEF StatusOf
<1>5. Statuses' = [Statuses EXCEPT ![active[l]] = "Cancelled"]
      /\ UNCHANGED <<LaneOfJob, Flagged, stopping>>
  BY <1>1, <1>3, <1>4, OneStatus
<1>6. active[l] \in Flagged
  BY <1>1, <1>2 DEF Flagged
<1> QED
  BY <1>1, <1>5, <1>6, HeldJobsTurn
  DEF Jobs!Drop, Jobs!Turn, Statuses, LaneOfJob, Flagged

LEMMA FinishConcludes ==
  ASSUME IInv, NEW l \in Lanes, NEW ok \in BOOLEAN, Finish(l, ok)
  PROVE  \E o \in {"Completed", "Failed", "Cancelled"} : Jobs!Conclude(active[l], o)
<1> DEFINE o == ResultState(ok, cancelled[active[l]])
<1>1. /\ worker[l] \in Running
      /\ \A n \in Lanes : n # l => worker'[n] = worker[n]
      /\ UNCHANGED <<active, op, cancelled, nextId, stopping>>
  BY DEF Finish, IInv, TypeOK, Running
<1>2. active[l] \in Ids /\ active[l] \in Accepted /\ outcome[active[l]] = "none"
  BY <1>1, HeldInLane
<1>3. /\ o \in {"Completed", "Failed", "Cancelled"}
      /\ o = "Failed" => ~cancelled[active[l]]
      /\ o = "Cancelled" => cancelled[active[l]]
  BY DEF ResultState
<1>4. /\ outcome'[active[l]] = o
      /\ \A i \in Ids : i # active[l] => outcome'[i] = outcome[i]
  BY <1>2 DEF Finish, IInv, TypeOK
<1> HIDE DEF o
<1>5. \A i \in Ids : i = active[l] => StatusOf(i)' = o
  BY <1>1, <1>3, <1>4 DEF StatusOf
<1>6. Statuses' = [Statuses EXCEPT ![active[l]] = o]
      /\ UNCHANGED <<LaneOfJob, Flagged, stopping>>
  BY <1>1, <1>4, <1>5, OneStatus
<1>7. Statuses[active[l]] = "running"
  BY <1>1, <1>2, StatusCases DEF Runs
<1>8. active[l] \in Flagged <=> cancelled[active[l]]
  BY <1>2 DEF Flagged
<1>9. Jobs!Conclude(active[l], o)
  BY <1>3, <1>6, <1>7, <1>8
  DEF Jobs!Conclude, Statuses, LaneOfJob, Flagged
<1> QED
  BY <1>3, <1>9

\* Steps of a worker that neither begin a job nor conclude it.
Quietly(l) ==
  \/ Sleep(l) \/ Exit(l) \/ SpuriousWake(l) \/ Pick(l) \/ ResetActive(l)
  \/ Announce(l) \/ SendRequest(l) \/ NextRequest(l)

LEMMA QuietStutters ==
  ASSUME IInv, IInv',
         \/ Start \/ UiStep \/ \E l \in Lanes : Quietly(l)
         \/ UNCHANGED tmVars
  PROVE  UNCHANGED <<Statuses, LaneOfJob, Flagged, stopping>>
<1> USE DEF Quietly, Running, historyVars
<1>1. UNCHANGED <<outcome, nextId, op, cancelled, stopping>>
  BY DEF Start, UiStep, EnqueueNotify, EnqueueEmit, StopNotify, Join, Sleep, Exit,
    SpuriousWake, Pick, ResetActive, Announce, SendRequest, NextRequest, tmVars
<1>2. \A l \in Lanes : worker[l] \in Running <=> worker'[l] \in Running
  <2>1. CASE Start
    BY <2>1 DEF Start, IInv, WorkersHold
  <2>2. CASE UiStep
    <3>1. UNCHANGED worker \/ NotifyAll
      BY <2>2 DEF UiStep, EnqueueNotify, EnqueueEmit, StopNotify, Join
    <3> QED
      BY <3>1 DEF NotifyAll
  <2>3. ASSUME NEW n \in Lanes, Quietly(n)
        PROVE  \A l \in Lanes : worker[l] \in Running <=> worker'[l] \in Running
    BY <2>3 DEF Sleep, Exit, SpuriousWake, Pick, ResetActive, Announce,
      SendRequest, NextRequest, IInv, TypeOK
  <2>4. CASE UNCHANGED tmVars
    BY <2>4 DEF tmVars
  <2> QED
    BY <2>1, <2>2, <2>3, <2>4
<1>3. \A l \in Lanes : worker[l] \in Running => active'[l] = active[l]
  BY DEF Start, UiStep, EnqueueNotify, EnqueueEmit, StopNotify, Join, Sleep, Exit,
    SpuriousWake, Pick, ResetActive, Announce, SendRequest, NextRequest, tmVars,
    IInv, TypeOK
<1>4. \A id \in Ids : Runs(id)' <=> Runs(id)
  BY <1>2, <1>3 DEF Runs
<1> QED
  BY <1>1, <1>4, StutterStep

-----------------------------------------------------------------------------
\* Every behaviour of the manager is one of the job lifecycle: a job runs at
\* most once and in its turn, its one outcome never changes and agrees with
\* what the user asked (TransferManager::Execute).
THEOREM Refinement == Spec => ImplementsJobLifecycle
<1>1. Init => Jobs!Init
  <2> SUFFICES ASSUME Init PROVE Jobs!Init
    OBVIOUS
  <2>1. \A i \in Ids : StatusOf(i) = "none" /\ i \notin Accepted /\ ~cancelled[i]
    BY DEF Init, StatusOf, Accepted, Ids
  <2> QED
    BY <2>1 DEF Jobs!Init, Init
<1>2. IInv /\ IInv' /\ [Next]_tmVars => [Jobs!Next]_(Jobs!jobVars)
  <2> SUFFICES ASSUME IInv, IInv', [Next]_tmVars
               PROVE  Jobs!Next \/ UNCHANGED Jobs!jobVars
    OBVIOUS
  <2>1. ASSUME NEW o \in Ops, Enqueue(o) PROVE Jobs!Next
    <3>1. nextId \in Ids /\ LaneFor(o) \in Lanes
      BY <2>1, BoundsAssumption DEF Enqueue, IInv, TypeOK, Ids, LaneFor, Lanes
    <3> QED
      BY <2>1, <3>1, EnqueueAccepts DEF Jobs!Next
  <2>2. ASSUME NEW id \in Ids, Cancel(id) PROVE Jobs!Next
    BY <2>2, CancelGivesUp DEF Jobs!Next
  <2>3. CASE Shutdown
    BY <2>3, ShutdownCloses DEF Jobs!Next
  <2>4. ASSUME NEW l \in Lanes,
               \/ Begin(l) \/ SkipCancelled(l) \/ \E ok \in BOOLEAN : Finish(l, ok)
        PROVE  Jobs!Next
    <3>1. active[l] \in Ids
      BY <2>4, HeldInLane DEF Begin, SkipCancelled, Finish, Running
    <3> QED
      BY <2>4, <3>1, BeginRuns, SkipDrops, FinishConcludes DEF Jobs!Next, Jobs!Outcomes
  <2>5. CASE \/ Start \/ UiStep \/ \E l \in Lanes : Quietly(l)
             \/ UNCHANGED tmVars
    BY <2>5, QuietStutters DEF Jobs!jobVars, Statuses, LaneOfJob, Flagged
  <2> QED
    BY <2>1, <2>2, <2>3, <2>4, <2>5 DEF Next, UserStep, WorkerStep, Closed, Quietly
<1> QED
  BY <1>1, <1>2, Invariance, PTL DEF Spec, ImplementsJobLifecycle, Jobs!Safety
=============================================================================
