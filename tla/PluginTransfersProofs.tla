------------------------ MODULE PluginTransfersProofs ------------------------
(***************************************************************************)
(* Theorems about the plugin as observer of the transfer manager: its      *)
(* types, every completion finds its action, and no row turns back.        *)
(***************************************************************************)
EXTENDS PluginTransfers, TransferManagerProofs

Positions == 1 .. Len(inbox)
Ended(m) == m.state \in TerminalStates

\* NppS3Plugin::Enqueue has not stored the action of the job yet.
BeingEnqueued(id) == ui \in {"notify", "emit"} /\ uiJob = id
ActionIsNear(id) == id \in pending \/ BeingEnqueued(id)

EnqueuedJob == ui \in {"notify", "emit"} => uiJob \in Ids

\* A result is posted when the job is over.
ResultsAreOver == \A k \in Positions : Ended(inbox[k]) => outcome[inbox[k].id] # "none"

\* Behind the result of a job there is at most the late Pending of Enqueue.
ResultIsLast ==
  \A j, k \in Positions :
    j < k /\ Ended(inbox[j]) /\ inbox[j].id = inbox[k].id
      => inbox[k].state = "Pending"

\* Results that wait have an action, and so have the jobs that will have one.
ActionsAwaitResults ==
  \A k \in Positions : Ended(inbox[k]) => ActionIsNear(inbox[k].id)
ActionsAwaitJobs ==
  \A id \in Accepted : outcome[id] = "none" => ActionIsNear(id)

HandledIsOver ==
  \A id \in handled :
    /\ outcome[id] # "none"
    /\ \A k \in Positions : inbox[k].id = id => inbox[k].state # "Running"

InboxInv == /\ ResultsAreOver /\ ResultIsLast
            /\ ActionsAwaitResults /\ HandledIsOver

PInv == /\ IInv /\ PluginTypeOK /\ EnqueuedJob
        /\ InboxInv /\ ActionsAwaitJobs
        /\ CompletionFindsItsAction

-----------------------------------------------------------------------------
\* The plugin's steps are steps of the manager.
LEMMA ManagerStep == [PluginNext]_vars => [Next]_tmVars
<1> SUFFICES ASSUME [PluginNext]_vars PROVE [Next]_tmVars
  OBVIOUS
<1>1. ASSUME NEW l \in Lanes,
             \/ PluginWorkerStep(l) \/ Progress(l)
             \/ SpuriousWake(l) /\ UNCHANGED pluginVars
      PROVE  [Next]_tmVars
  BY <1>1 DEF PluginWorkerStep, SilentWorkerStep, Progress, PostCancelled,
    PostRunning, PostFinished, WorkerStep, Next
<1>2. CASE CreatePanel \/ HandleTransferEventUi \/ ClearFinishedTransfers
  BY <1>2 DEF CreatePanel, HandleTransferEventUi, ClearFinishedTransfers
<1>3. CASE EnqueueReturn \/ OnShutdownReturn \/ QuietStep
  BY <1>3 DEF EnqueueReturn, OnShutdownReturn, QuietStep, UiStep, Next
<1>4. CASE Closed /\ UNCHANGED pluginVars
  BY <1>4 DEF Next
<1>5. CASE UNCHANGED vars
  BY <1>5 DEF vars
<1> QED
  BY <1>1, <1>2, <1>3, <1>4, <1>5 DEF PluginNext

\* A message is posted, or none: only of a job that is not over, or Pending.
LEMMA Posted ==
  ASSUME PInv, NEW m,
         \/ inbox' = inbox
         \/ /\ inbox' = Append(inbox, m)
            /\ m \in Messages
            /\ \/ m.state = "Pending"
               \/ m.state = "Running" /\ outcome[m.id] = "none"
               \/ /\ outcome[m.id] = "none" /\ m.id \in Accepted
                  /\ outcome'[m.id] # "none",
         \A id \in Ids : outcome[id] # "none" => outcome'[id] # "none",
         \A id \in Ids : ActionIsNear(id) => ActionIsNear(id)',
         handled' = handled
  PROVE  InboxInv'
<1> USE DEF PInv, InboxInv
<1>1. inbox \in Seq(Messages) /\ Len(inbox) \in Nat /\ handled \subseteq Ids
  BY DEF PluginTypeOK
<1>2. \A k \in Positions : inbox[k] \in Messages /\ inbox[k].id \in Ids
  <2>1. \A k \in Positions : inbox[k] \in Messages
    BY <1>1 DEF Positions
  <2>2. \A e \in Messages : e.id \in Ids
    BY DEF Messages
  <2> QED
    BY <2>1, <2>2
<1>3. CASE inbox' = inbox
  <2>1. Positions' = Positions
    BY <1>3 DEF Positions
  <2>2. ResultsAreOver'
    BY <1>2, <1>3, <2>1 DEF ResultsAreOver, Ended
  <2>3. ResultIsLast'
    BY <1>3, <2>1 DEF ResultIsLast, Ended
  <2>4. ActionsAwaitResults'
    <3> SUFFICES ASSUME NEW k \in Positions, Ended(inbox[k])
                 PROVE  ActionIsNear(inbox[k].id)'
      BY <1>3, <2>1 DEF ActionsAwaitResults, Ended
    <3>1. ActionIsNear(inbox[k].id) /\ inbox[k].id \in Ids
      BY <1>2 DEF ActionsAwaitResults
    <3> QED
      BY <1>3, <3>1 DEF ActionIsNear, BeingEnqueued
  <2>5. HandledIsOver'
    BY <1>1, <1>3, <2>1 DEF HandledIsOver
  <2> QED
    BY <2>2, <2>3, <2>4, <2>5
<1>4. CASE inbox' # inbox
  <2> DEFINE n == Len(inbox) + 1
  <2>1. /\ inbox' = Append(inbox, m) /\ m \in Messages /\ m.id \in Ids
        /\ \/ m.state = "Pending"
           \/ m.state = "Running" /\ outcome[m.id] = "none"
           \/ /\ outcome[m.id] = "none" /\ m.id \in Accepted
              /\ outcome'[m.id] # "none"
    BY <1>4 DEF Messages
  <2>2. /\ Positions' = Positions \cup {n} /\ n \notin Positions
        /\ n \in Nat /\ \A k \in Positions : k \in Nat /\ k < n
        /\ inbox'[n] = m
        /\ \A k \in Positions : inbox'[k] = inbox[k]
    BY <1>1, <2>1, AppendIndex DEF Positions
  <2>3. Ended(m) => m.id \in Accepted /\ outcome[m.id] = "none"
                    /\ outcome'[m.id] # "none"
    BY <2>1 DEF Ended, TerminalStates
  <2>4. ResultsAreOver'
    BY <1>2, <2>2, <2>3 DEF ResultsAreOver, Ended
  <2>5. ResultIsLast'
    <3> SUFFICES ASSUME NEW j \in Positions', NEW k \in Positions',
                        j < k, inbox'[j].state \in TerminalStates,
                        inbox'[j].id = inbox'[k].id
                 PROVE  inbox'[k].state = "Pending"
      BY DEF ResultIsLast, Ended
    <3>1. CASE k \in Positions /\ j \in Positions
      BY <2>2, <3>1 DEF ResultIsLast, Ended
    <3>2. CASE k = n /\ j \in Positions
      <4>1. outcome[m.id] # "none"
        BY <2>2, <3>2 DEF ResultsAreOver, Ended
      <4> QED
        BY <2>1, <2>2, <3>2, <4>1
    <3>3. ~(j = n)
      BY <2>2
    <3> QED
      BY <2>2, <3>1, <3>2, <3>3
  <2>6. ActionsAwaitResults'
    <3> SUFFICES ASSUME NEW k \in Positions', inbox'[k].state \in TerminalStates
                 PROVE  ActionIsNear(inbox[k].id)'
      BY DEF ActionsAwaitResults, Ended
    <3>1. inbox'[k].id \in Ids
      BY <1>2, <2>1, <2>2
    <3>2. ActionIsNear(inbox'[k].id)
      <4>1. CASE k \in Positions
        BY <2>2, <4>1 DEF ActionsAwaitResults, Ended
      <4>2. CASE k = n
        BY <2>2, <2>3, <4>2 DEF ActionsAwaitJobs, Ended
      <4> QED
        BY <2>2, <4>1, <4>2
    <3>3. \A id \in Ids : id = inbox'[k].id => ActionIsNear(id)'
      BY <3>2
    <3> QED
      BY <3>1, <3>3 DEF ActionIsNear, BeingEnqueued
  <2>7. HandledIsOver'
    <3>1. m.state = "Running" => outcome[m.id] = "none"
      BY <2>1
    <3>2. ASSUME NEW id \in handled
          PROVE  /\ outcome'[id] # "none"
                 /\ \A k \in Positions' : inbox'[k].id = id => inbox'[k].state # "Running"
      <4>1. outcome[id] # "none" /\ id \in Ids
        BY <1>1 DEF HandledIsOver
      <4>2. \A k \in Positions : inbox[k].id = id => inbox[k].state # "Running"
        BY DEF HandledIsOver
      <4> QED
        BY <2>2, <3>1, <4>1, <4>2
    <3> QED
      BY <3>2 DEF HandledIsOver
  <2> QED
    BY <2>4, <2>5, <2>6, <2>7
<1> QED
  BY <1>3, <1>4

\* The first message is dispatched, or all are dropped.
LEMMA Taken ==
  ASSUME PInv, outcome' = outcome,
         \/ inbox' = << >> /\ handled' = handled
         \/ /\ inbox # << >> /\ inbox' = Tail(inbox)
            /\ \A id \in handled' \ handled : Ended(Head(inbox)) /\ id = Head(inbox).id
            /\ \A id \in Ids : ActionIsNear(id) /\ ~(Ended(Head(inbox)) /\ id = Head(inbox).id)
                                 => ActionIsNear(id)'
  PROVE  InboxInv'
<1> USE DEF PInv, InboxInv
<1>1. inbox \in Seq(Messages) /\ handled \subseteq Ids
  BY DEF PluginTypeOK
<1>2. CASE inbox' = << >> /\ handled' = handled
  <2>1. Positions' = {}
    BY <1>2 DEF Positions
  <2> QED
    BY <1>2, <2>1 DEF ResultsAreOver, ResultIsLast, ActionsAwaitResults, HandledIsOver
<1>3. CASE /\ inbox # << >> /\ inbox' = Tail(inbox)
           /\ \A id \in handled' \ handled : Ended(Head(inbox)) /\ id = Head(inbox).id
           /\ \A id \in Ids : ActionIsNear(id) /\ ~(Ended(Head(inbox)) /\ id = Head(inbox).id)
                                => ActionIsNear(id)'
  <2> DEFINE ev == Head(inbox)
  <2>1. /\ ev = inbox[1] /\ ev \in Messages /\ 1 \in Positions
        /\ \A k \in Positions' : /\ k + 1 \in Positions /\ inbox'[k] = inbox[k + 1]
                                 /\ 1 < k + 1 /\ k \in Nat
    BY <1>1, <1>3, TailIndex DEF Positions
  <2>2. \A k \in Positions' : inbox'[k].id \in Ids
    <3>1. \A k \in Positions : inbox[k] \in Messages
      BY <1>1 DEF Positions
    <3>2. \A e \in Messages : e.id \in Ids
      BY DEF Messages
    <3> QED
      BY <2>1, <3>1, <3>2
  <2>3. ASSUME Ended(ev), NEW k \in Positions', inbox'[k].id = ev.id
        PROVE  inbox'[k].state = "Pending"
    BY <2>1, <2>3 DEF ResultIsLast
  <2>4. ResultsAreOver'
    BY <2>1 DEF ResultsAreOver, Ended
  <2>5. ResultIsLast'
    <3> SUFFICES ASSUME NEW j \in Positions', NEW k \in Positions',
                        j < k, inbox'[j].state \in TerminalStates,
                        inbox'[j].id = inbox'[k].id
                 PROVE  inbox'[k].state = "Pending"
      BY DEF ResultIsLast, Ended
    <3>1. j + 1 < k + 1
      BY <2>1
    <3> QED
      BY <2>1, <3>1 DEF ResultIsLast, Ended
  <2>6. ActionsAwaitResults'
    <3> SUFFICES ASSUME NEW k \in Positions', inbox'[k].state \in TerminalStates
                 PROVE  ActionIsNear(inbox[k].id)'
      BY DEF ActionsAwaitResults, Ended
    <3>1. ActionIsNear(inbox'[k].id) /\ inbox'[k].id \in Ids
      BY <2>1, <2>2 DEF ActionsAwaitResults, Ended
    <3>2. ~(Ended(ev) /\ inbox'[k].id = ev.id)
      BY <2>3 DEF TerminalStates
    <3>3. \A id \in Ids : id = inbox'[k].id => ActionIsNear(id)'
      BY <1>3, <3>1, <3>2
    <3> QED
      BY <3>1, <3>3 DEF ActionIsNear, BeingEnqueued
  <2>7. HandledIsOver'
    <3> SUFFICES ASSUME NEW id \in handled'
                 PROVE  /\ outcome[id] # "none"
                        /\ \A k \in Positions' : inbox'[k].id = id => inbox'[k].state # "Running"
      BY DEF HandledIsOver
    <3>1. CASE id \in handled
      BY <2>1, <3>1 DEF HandledIsOver
    <3>2. CASE Ended(ev) /\ id = ev.id
      BY <2>1, <2>3, <3>2 DEF ResultsAreOver
    <3> QED
      BY <1>3, <3>1, <3>2
  <2> QED
    BY <2>4, <2>5, <2>6, <2>7
<1> QED
  BY <1>2, <1>3

-----------------------------------------------------------------------------
(* The invariant *)

LEMMA PluginInitInv == PluginInit => PInv
<1> SUFFICES ASSUME PluginInit PROVE PInv
  OBVIOUS
<1>1. IInv /\ EnqueuedJob /\ Accepted = {}
  BY InitIInv DEF PluginInit, Init, EnqueuedJob, Accepted
<1>2. PluginTypeOK
  <2>1. inbox \in Seq(Messages)
    BY DEF PluginInit
  <2>2. row \in [Ids -> TransferStates \cup {"absent"}]
    BY DEF PluginInit
  <2> QED
    BY <1>1, <2>1, <2>2 DEF PluginInit, PluginTypeOK, IInv
<1>3. Positions = {}
  BY DEF PluginInit, Positions
<1> QED
  BY <1>1, <1>2, <1>3 DEF PluginInit, PInv, InboxInv, ResultsAreOver,
    ResultIsLast, ActionsAwaitResults, ActionsAwaitJobs, HandledIsOver,
    CompletionFindsItsAction

\* A worker posts a message about the job it holds.
LEMMA WorkerPosts ==
  ASSUME PInv, NEW l \in Lanes, NEW s \in TerminalStates \cup {"Running"},
         worker[l] \in Running \cup {"picked"}, Post(active[l], s),
         UNCHANGED <<nextId, ui, uiJob>>,
         IF s = "Running" THEN outcome' = outcome
                          ELSE outcome' = [outcome EXCEPT ![active[l]] = s],
         IInv'
  PROVE  PInv'
<1> DEFINE m == [id |-> active[l], state |-> s]
<1>1. /\ active[l] \in Ids /\ active[l] \in Accepted
      /\ outcome[active[l]] = "none"
  BY HeldJob DEF PInv
<1>2. m \in Messages /\ m.id = active[l] /\ m.state = s
  BY <1>1 DEF Messages, TransferStates, TerminalStates
<1>3. /\ \A id \in Ids : outcome[id] # "none" => outcome'[id] # "none"
      /\ s # "Running" => outcome'[active[l]] # "none"
  BY <1>1 DEF PInv, IInv, TypeOK, TerminalStates
<1>4. \A id \in Ids : ActionIsNear(id) => ActionIsNear(id)'
  BY DEF ActionIsNear, BeingEnqueued, Post, listVars
<1>5. /\ inbox' = inbox \/ inbox' = Append(inbox, m)
      /\ lost' = lost \/ lost' = lost \cup {m}
      /\ UNCHANGED <<panelCreated, pending, row, handled, orphaned>>
  BY DEF Post, OnTransferEvent, listVars
<1>6. InboxInv'
  <2> HIDE DEF m
  <2> QED
    BY <1>1, <1>2, <1>3, <1>4, <1>5, Posted
<1>7. PluginTypeOK'
  <2>1. inbox' \in Seq(Messages)
    <3> HIDE DEF m
    <3> QED
      BY <1>2, <1>5, AppendIndex DEF PInv, PluginTypeOK
  <2>2. lost' \subseteq Messages
    <3> HIDE DEF m
    <3> QED
      BY <1>2, <1>5 DEF PInv, PluginTypeOK
  <2> QED
    BY <1>5, <2>1, <2>2 DEF PInv, PluginTypeOK, IInv
<1>8. EnqueuedJob' /\ CompletionFindsItsAction'
  BY <1>5 DEF PInv, EnqueuedJob, CompletionFindsItsAction
<1>9. ActionsAwaitJobs'
  BY <1>3, <1>4, BoundsAssumption
  DEF PInv, IInv, TypeOK, ActionsAwaitJobs, Accepted, Ids
<1> QED
  BY <1>6, <1>7, <1>8, <1>9 DEF PInv

LEMMA IdBound ==
  ASSUME NEW n \in 1 .. MaxJobs + 1
  PROVE  n \in Nat /\ \A id \in 1 .. n - 1 : id \in Ids
BY BoundsAssumption DEF Ids

\* A step that posts nothing, handles nothing and ends no job.
LEMMA SilentStep ==
  ASSUME PInv, IInv',
         UNCHANGED <<inbox, lost, pending, handled, orphaned, outcome>>,
         panelCreated' \in BOOLEAN, row' \in [Ids -> TransferStates \cup {"absent"}],
         \/ UNCHANGED <<ui, uiJob, nextId>>
         \/ ui = "notify" /\ ui' = "emit" /\ UNCHANGED <<uiJob, nextId>>
         \/ ui \notin {"notify", "emit"} /\ ui' \notin {"notify", "emit"} /\ nextId' = nextId
         \/ /\ ui = "idle" /\ ui' = "notify" /\ uiJob' = nextId
            /\ nextId' = nextId + 1 /\ nextId \in Ids
  PROVE  PInv'
<1>1. \A id \in Ids : ActionIsNear(id) => ActionIsNear(id)'
  BY DEF ActionIsNear, BeingEnqueued
<1>2. InboxInv'
  BY <1>1, Posted
<1>3. PluginTypeOK' /\ EnqueuedJob' /\ CompletionFindsItsAction'
  BY DEF PInv, PluginTypeOK, IInv, EnqueuedJob, CompletionFindsItsAction
<1>4. ActionsAwaitJobs'
  <2> SUFFICES ASSUME NEW id \in 1 .. nextId' - 1, outcome[id] = "none"
               PROVE  ActionIsNear(id)'
    BY DEF ActionsAwaitJobs, Accepted
  <2>1. id \in Ids /\ nextId \in Nat
    <3>1. nextId \in 1 .. MaxJobs + 1 /\ nextId' \in 1 .. MaxJobs + 1
      BY DEF IInv, PInv, TypeOK
    <3> QED
      BY <3>1, IdBound
  <2>2. CASE id \in Accepted
    BY <1>1, <2>1, <2>2 DEF PInv, ActionsAwaitJobs
  <2>3. CASE id \notin Accepted
    <3>1. nextId' # nextId
      BY <2>3 DEF Accepted
    <3>2. nextId' = nextId + 1 /\ ui' = "notify" /\ uiJob' = nextId
      BY <3>1
    <3>3. id = nextId
      BY <2>1, <2>3, <3>2 DEF Accepted, Ids
    <3> QED
      BY <3>2, <3>3 DEF ActionIsNear, BeingEnqueued
  <2> QED
    BY <2>2, <2>3
<1> QED
  BY <1>2, <1>3, <1>4 DEF PInv

\* NppS3Plugin::Enqueue announces the job and stores its action.
LEMMA ReturnInv ==
  ASSUME PInv, IInv', EnqueueReturn
  PROVE  PInv'
<1> DEFINE m == [id |-> uiJob, state |-> "Pending"]
<1>1. /\ uiJob \in Ids /\ UNCHANGED <<nextId, outcome, panelCreated, row, handled, orphaned>>
      /\ ui = "emit" /\ ui' = "idle" /\ pending' = pending \cup {uiJob}
      /\ inbox' = inbox \/ inbox' = Append(inbox, m)
      /\ lost' = lost \/ lost' = lost \cup {m}
  BY DEF PInv, EnqueuedJob, EnqueueReturn, EnqueueEmit, OnTransferEvent, historyVars
<1>2. m \in Messages /\ m.state = "Pending"
  BY <1>1 DEF Messages, TransferStates
<1> HIDE DEF m
<1>3. \A id \in Ids : ActionIsNear(id) => ActionIsNear(id)'
  BY <1>1 DEF ActionIsNear, BeingEnqueued
<1>4. InboxInv'
  BY <1>1, <1>2, <1>3, Posted
<1>5. PluginTypeOK'
  <2>1. inbox' \in Seq(Messages) /\ lost' \subseteq Messages
    BY <1>1, <1>2, AppendIndex DEF PInv, PluginTypeOK
  <2> QED
    BY <1>1, <2>1 DEF PInv, PluginTypeOK, IInv
<1>6. EnqueuedJob' /\ CompletionFindsItsAction'
  BY <1>1 DEF PInv, EnqueuedJob, CompletionFindsItsAction
<1>7. ActionsAwaitJobs'
  <2>1. Accepted' = Accepted
    BY <1>1 DEF Accepted
  <2>2. Accepted \subseteq Ids
    <3>1. nextId \in Nat /\ nextId <= MaxJobs + 1
      BY BoundsAssumption DEF PInv, IInv, TypeOK
    <3> QED
      BY <3>1, BoundsAssumption DEF Accepted, Ids
  <2>3. \A id \in Accepted : outcome[id] = "none" => ActionIsNear(id)
    BY DEF PInv, ActionsAwaitJobs
  <2>4. ASSUME NEW id \in Accepted, outcome[id] = "none" PROVE ActionIsNear(id)'
    BY <1>3, <2>2, <2>3, <2>4
  <2> QED
    BY <1>1, <2>1, <2>4 DEF ActionsAwaitJobs
<1> QED
  BY <1>4, <1>5, <1>6, <1>7 DEF PInv

\* The UI thread dispatches a message outside of Enqueue: each result has its
\* action, and no other result of that job comes after it.
LEMMA DispatchInv ==
  ASSUME PInv, IInv', HandleTransferEventUi
  PROVE  PInv'
<1> DEFINE ev == Head(inbox)
<1>1. /\ inbox \in Seq(Messages) /\ inbox # << >>
      /\ UNCHANGED <<outcome, nextId, ui, uiJob, panelCreated, lost>>
      /\ ui = "idle" /\ inbox' = Tail(inbox)
      /\ row' = [row EXCEPT ![ev.id] = ev.state]
  BY DEF PInv, PluginTypeOK, HandleTransferEventUi, UpsertTransfer, tmVars, historyVars
<1>2. ev = inbox[1] /\ ev \in Messages /\ 1 \in Positions
  BY <1>1, TailIndex DEF Positions
<1>3. ev.id \in Ids /\ ev.state \in TransferStates
  <2> HIDE DEF ev
  <2> QED
    BY <1>2 DEF Messages
<1>4. Ended(ev) => ev.id \in pending /\ outcome[ev.id] # "none"
  BY <1>1, <1>2 DEF PInv, InboxInv, ActionsAwaitResults, ResultsAreOver,
    ActionIsNear, BeingEnqueued
<1>5. IF Ended(ev)
      THEN pending' = pending \ {ev.id} /\ handled' = handled \cup {ev.id}
           /\ orphaned' = orphaned
      ELSE UNCHANGED <<pending, handled, orphaned>>
  BY <1>4 DEF HandleTransferEventUi, Ended
<1> HIDE DEF ev
<1>6. \A id \in Ids : ActionIsNear(id) /\ ~(Ended(ev) /\ id = ev.id) => ActionIsNear(id)'
  BY <1>1, <1>5 DEF ActionIsNear, BeingEnqueued
<1>7. \A id \in handled' \ handled : Ended(ev) /\ id = ev.id
  BY <1>5
<1>8. InboxInv'
  BY <1>1, <1>6, <1>7, Taken DEF ev
<1>9. PluginTypeOK'
  <2>1. inbox' \in Seq(Messages)
    BY <1>1, TailIndex
  <2>2. row' \in [Ids -> TransferStates \cup {"absent"}]
    BY <1>1, <1>3 DEF PInv, PluginTypeOK
  <2> QED
    BY <1>1, <1>3, <1>5, <2>1, <2>2 DEF PInv, PluginTypeOK, IInv
<1>10. EnqueuedJob' /\ CompletionFindsItsAction'
  BY <1>1, <1>5 DEF PInv, EnqueuedJob, CompletionFindsItsAction
<1>11. ActionsAwaitJobs'
  BY <1>1, <1>4, <1>6, BoundsAssumption
  DEF PInv, IInv, TypeOK, ActionsAwaitJobs, Accepted, Ids
<1> QED
  BY <1>8, <1>9, <1>10, <1>11 DEF PInv

LEMMA PluginStepInv == PInv /\ [PluginNext]_vars => PInv'
<1> SUFFICES ASSUME PInv, [PluginNext]_vars PROVE PInv'
  OBVIOUS
<1>1. IInv'
  BY ManagerStep, NextIInv DEF PInv
<1>2. row \in [Ids -> TransferStates \cup {"absent"}] /\ panelCreated \in BOOLEAN
  BY DEF PInv, PluginTypeOK
<1>3. ASSUME NEW l \in Lanes, PostCancelled(l) PROVE PInv'
  <2>1. "Cancelled" \in TerminalStates
    BY DEF TerminalStates
  <2> QED
    BY <1>1, <1>3, <2>1, WorkerPosts DEF PostCancelled, SkipCancelled
<1>4. ASSUME NEW l \in Lanes, PostRunning(l) \/ Progress(l) PROVE PInv'
  BY <1>1, <1>4, WorkerPosts
  DEF PostRunning, Announce, Progress, Running, tmVars, historyVars
<1>5. ASSUME NEW l \in Lanes, NEW ok \in BOOLEAN, PostFinished(l, ok) PROVE PInv'
  <2>1. ResultState(ok, cancelled[active[l]]) \in TerminalStates
        /\ ResultState(ok, cancelled[active[l]]) # "Running"
    BY DEF ResultState, TerminalStates
  <2> QED
    BY <1>1, <1>5, <2>1, WorkerPosts DEF PostFinished, Finish, Running
<1>6. ASSUME NEW l \in Lanes, UNCHANGED pluginVars,
             SilentWorkerStep(l) \/ SpuriousWake(l)
      PROVE  PInv'
  BY <1>1, <1>2, <1>6, SilentStep
  DEF SilentWorkerStep, Sleep, Exit, Pick, ResetActive, Begin, SendRequest,
    NextRequest, SpuriousWake, pluginVars, listVars, historyVars
<1>7. CASE CreatePanel
  BY <1>1, <1>2, <1>7, SilentStep DEF CreatePanel, tmVars, listVars, historyVars
<1>8. CASE ClearFinishedTransfers
  BY <1>1, <1>2, <1>8, SilentStep
  DEF ClearFinishedTransfers, tmVars, historyVars
<1>9. CASE QuietStep
  <2>1. UNCHANGED <<panelCreated, inbox, lost, pending, row, handled, orphaned>>
    BY <1>9 DEF QuietStep, pluginVars, listVars
  <2>2. ASSUME NEW o \in Ops, Enqueue(o) PROVE PInv'
    <3>1. nextId \in Ids
      BY <2>2, BoundsAssumption DEF PInv, IInv, TypeOK, Enqueue, Ids
    <3> QED
      BY <1>1, <1>2, <2>1, <2>2, <3>1, SilentStep DEF Enqueue, historyVars
  <2>3. CASE Start \/ Shutdown \/ \E id \in Ids : Cancel(id)
    BY <1>1, <1>2, <2>1, <2>3, SilentStep
    DEF Start, Shutdown, Cancel, historyVars
  <2>4. CASE EnqueueNotify \/ StopNotify
    BY <1>1, <1>2, <2>1, <2>4, SilentStep
    DEF EnqueueNotify, StopNotify, historyVars
  <2> QED
    BY <1>9, <2>2, <2>3, <2>4 DEF QuietStep, UserStep
<1>10. CASE EnqueueReturn
  BY <1>1, <1>10, ReturnInv
<1>11. CASE HandleTransferEventUi
  BY <1>1, <1>11, DispatchInv
<1>12. CASE OnShutdownReturn
  <2>1. /\ UNCHANGED <<lost, pending, row, handled, orphaned, outcome, nextId>>
        /\ inbox' = << >> /\ panelCreated' = FALSE
        /\ ui = "join" /\ ui' = "closed"
    BY <1>12 DEF OnShutdownReturn, Join, listVars, historyVars
  <2>2. InboxInv'
    BY <2>1, Taken
  <2>3. PluginTypeOK'
    <3>1. inbox' \in Seq(Messages)
      BY <2>1
    <3> QED
      BY <1>1, <2>1, <3>1 DEF PInv, PluginTypeOK, IInv
  <2>4. EnqueuedJob' /\ ActionsAwaitJobs' /\ CompletionFindsItsAction'
    BY <2>1 DEF PInv, EnqueuedJob, ActionsAwaitJobs, ActionIsNear, BeingEnqueued,
      Accepted, CompletionFindsItsAction
  <2> QED
    BY <1>1, <2>2, <2>3, <2>4 DEF PInv
<1>13. CASE UNCHANGED vars \/ (Closed /\ UNCHANGED pluginVars)
  BY <1>1, <1>2, <1>13, SilentStep
  DEF vars, tmVars, pluginVars, listVars, historyVars, Closed
<1> QED
  BY <1>3, <1>4, <1>5, <1>6, <1>7, <1>8, <1>9, <1>10, <1>11, <1>12, <1>13
  DEF PluginNext, PluginWorkerStep, SilentWorkerStep

-----------------------------------------------------------------------------
THEOREM PluginInvariance == PluginSpec => []PInv
<1> QED
  BY PluginInitInv, PluginStepInv, PTL DEF PluginSpec

\* Type correctness of the manager with its observer.
THEOREM PluginTypeCorrect == PluginSpec => []PluginTypeOK
<1>1. PInv => PluginTypeOK
  BY DEF PInv
<1> QED
  BY <1>1, PluginInvariance, PTL

\* NppS3Plugin::Enqueue stores the action after the job may have ended, and
\* still no completion is handled without one.
THEOREM ActionsAreFound == PluginSpec => []CompletionFindsItsAction
<1>1. PInv => CompletionFindsItsAction
  BY DEF PInv
<1> QED
  BY <1>1, PluginInvariance, PTL

\* The row of a job whose completion was handled does not turn to Running.
THEOREM ResultsStand == PluginSpec => NoRunningAfterCompletion
<1> DEFINE Stands == \A id \in handled : row'[id] = "Running" => row[id] = "Running"
<1>1. PInv /\ [PluginNext]_vars => [Stands]_vars
  <2> SUFFICES ASSUME PInv, PluginNext, NEW id \in handled,
                      row'[id] = "Running", row[id] # "Running"
               PROVE  FALSE
    OBVIOUS
  <2>1. id \in Ids /\ row \in [Ids -> TransferStates \cup {"absent"}]
        /\ inbox \in Seq(Messages)
    BY DEF PInv, PluginTypeOK
  <2>2. row' # row
    OBVIOUS
  <2>3. ~ClearFinishedTransfers
    BY <2>1 DEF ClearFinishedTransfers
  <2>4. HandleTransferEventUi
    BY <2>2, <2>3 DEF PluginNext, PluginWorkerStep, SilentWorkerStep,
      PostCancelled, PostRunning, PostFinished, Progress, Post, CreatePanel, EnqueueReturn,
      OnShutdownReturn, QuietStep, pluginVars, listVars
  <2> DEFINE ev == Head(inbox)
  <2>5. inbox # << >> /\ row' = [row EXCEPT ![ev.id] = ev.state]
    BY <2>4 DEF HandleTransferEventUi, UpsertTransfer
  <2>6. ev = inbox[1] /\ 1 \in Positions
    BY <2>1, <2>5, TailIndex DEF Positions
  <2>7. ev.id = id /\ ev.state = "Running"
    <3> HIDE DEF ev
    <3> QED
      BY <2>1, <2>5
  <2> QED
    BY <2>6, <2>7 DEF PInv, InboxInv, HandledIsOver
<1> QED
  BY <1>1, PluginInvariance, PTL DEF PluginSpec, NoRunningAfterCompletion
=============================================================================
