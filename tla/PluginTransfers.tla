--------------------------- MODULE PluginTransfers ---------------------------
(***************************************************************************)
(* The transfer manager together with its observer, the plugin            *)
(* (src/src/plugin/NppS3Plugin.cpp), and the transfer list of the panel    *)
(* (src/src/ui/DockPanel.cpp).                                             *)
(*                                                                         *)
(* The manager's events reach the plugin as messages posted to the panel   *)
(* window, from whichever thread raised them, and are dispatched by the UI *)
(* thread between its other calls.  The plugin keeps, per job, the action  *)
(* to take when the job finishes (m_pending); the panel keeps one row per  *)
(* job.  Both are touched by the UI thread only.                           *)
(***************************************************************************)
EXTENDS TransferManager, FiniteSets

CONSTANTS MaxWaiting,  \* bound: progress is posted only while fewer than
                       \* this many messages wait in the inbox
          MaxLost      \* bound: messages that cannot be posted to the panel

ASSUME MessageBoundsAssumption == MaxWaiting \in Nat /\ MaxLost \in Nat

VARIABLES
  panelCreated, \* m_panel.IsCreated()
  inbox,        \* messages posted to the panel and not dispatched yet
  pending,      \* m_pending: the jobs whose completion action is stored
  row,          \* per job, the state its row of the list shows, or "absent"
  handled,      \* jobs whose completion was handled with its stored action
  orphaned,     \* jobs whose completion found no stored action
  lost          \* the messages that could not be posted to the panel

listVars == <<pending, row, handled, orphaned>>
pluginVars == <<panelCreated, inbox, lost, listVars>>
vars == <<tmVars, pluginVars>>

Messages == [id : Ids, state : TransferStates]

PluginInit ==
  /\ Init
  /\ panelCreated = FALSE
  /\ inbox = << >>
  /\ pending = {}
  /\ row = [i \in Ids |-> "absent"]
  /\ handled = {}
  /\ orphaned = {} /\ lost = {}

\* OnTransferEvent: post a copy to the panel window, if there is one.  The
\* copy is deleted if the post fails.
OnTransferEvent(id, state) ==
  \/ /\ panelCreated
     /\ inbox' = Append(inbox, [id |-> id, state |-> state])
     /\ UNCHANGED lost
  \/ /\ panelCreated /\ Cardinality(lost) < MaxLost
     /\ lost' = lost \cup {[id |-> id, state |-> state]}
     /\ UNCHANGED inbox
  \/ ~panelCreated /\ UNCHANGED <<inbox, lost>>

Post(id, state) ==
  OnTransferEvent(id, state) /\ UNCHANGED <<panelCreated, listVars>>

-----------------------------------------------------------------------------
(* Events raised by the workers *)

\* Fault: a job cancelled before it ran ends without an event.
PostNothing(l) == SkipCancelled(l) /\ UNCHANGED pluginVars

PostCancelled(l) == SkipCancelled(l) /\ Post(active[l], "Cancelled")

PostRunning(l) == Announce(l) /\ Post(active[l], "Running")

PostFinished(l, ok) ==
  Finish(l, ok) /\ Post(active[l], ResultState(ok, cancelled[active[l]]))

\* Fault: the progress callback outlives the request.
LateProgress(l) ==
  /\ worker[l] \in {"executing", "sending", "reset"}
  /\ op[active[l]] \in DataOps
  /\ ~cancelled[active[l]]
  /\ Len(inbox) < MaxWaiting
  /\ Post(active[l], "Running")
  /\ UNCHANGED tmVars

\* The progress callback of an upload or download: silent once the job is
\* flagged, otherwise a throttled Progress event, whose state is Running.
Progress(l) ==
  /\ worker[l] \in {"executing", "sending"}
  /\ op[active[l]] \in DataOps
  /\ ~cancelled[active[l]]
  /\ Len(inbox) < MaxWaiting
  /\ Post(active[l], "Running")
  /\ UNCHANGED tmVars

\* The steps of a worker that raise no event.
SilentWorkerStep(l) ==
  /\ \/ Sleep(l) \/ Exit(l) \/ Pick(l) \/ ResetActive(l)
     \/ Begin(l) \/ SendRequest(l) \/ NextRequest(l)
  /\ UNCHANGED pluginVars

PluginWorkerStep(l) ==
  \/ PostCancelled(l) \/ PostRunning(l)
  \/ \E ok \in BOOLEAN : PostFinished(l, ok)
  \/ SilentWorkerStep(l)

-----------------------------------------------------------------------------
(* The UI thread *)

\* CmdShowPanel: the panel window exists from now on.
CreatePanel ==
  /\ ui = "idle" /\ started /\ ~stopping /\ ~panelCreated
  /\ panelCreated' = TRUE
  /\ UNCHANGED <<tmVars, inbox, lost, listVars>>

\* Fault: the action is stored under an id that is no longer there.
EnqueueReturnForgetsId ==
  /\ EnqueueEmit
  /\ OnTransferEvent(uiJob, "Pending")
  /\ pending' = pending \cup {uiJob'}
  /\ UNCHANGED <<panelCreated, row, handled, orphaned>>

\* The rest of Enqueue: the manager announces the job from the UI thread,
\* then NppS3Plugin::Enqueue stores the completion action under its id.
EnqueueReturn ==
  /\ EnqueueEmit
  /\ OnTransferEvent(uiJob, "Pending")
  /\ pending' = pending \cup {uiJob}
  /\ UNCHANGED <<panelCreated, row, handled, orphaned>>

\* DockPanel::UpsertTransfer: the row of the event's job, inserted if need be,
\* shows the state of the event, whatever it showed before.
UpsertTransfer(ev) == row' = [row EXCEPT ![ev.id] = ev.state]

\* Fault: completions are handled at once, on the thread that raised them.
HandleOnAnyThread ==
  /\ inbox # << >>
  /\ inbox' = Tail(inbox)
  /\ LET ev == Head(inbox) IN
     /\ UpsertTransfer(ev)
     /\ IF ev.state \in TerminalStates
        THEN /\ pending' = pending \ {ev.id}
             /\ IF ev.id \in pending
                THEN handled' = handled \cup {ev.id} /\ UNCHANGED orphaned
                ELSE orphaned' = orphaned \cup {ev.id} /\ UNCHANGED handled
        ELSE UNCHANGED <<pending, handled, orphaned>>
  /\ UNCHANGED <<tmVars, panelCreated, lost>>

\* The message loop dispatches the oldest message: HandleTransferEventUi up
\* to its switch.  A Finished event takes its action out of m_pending, by
\* which the rest of the handler is chosen.
HandleTransferEventUi ==
  /\ ui = "idle" /\ inbox # << >>
  /\ inbox' = Tail(inbox)
  /\ LET ev == Head(inbox) IN
     /\ UpsertTransfer(ev)
     /\ IF ev.state \in TerminalStates
        THEN /\ pending' = pending \ {ev.id}
             /\ IF ev.id \in pending
                THEN handled' = handled \cup {ev.id} /\ UNCHANGED orphaned
                ELSE orphaned' = orphaned \cup {ev.id} /\ UNCHANGED handled
        ELSE UNCHANGED <<pending, handled, orphaned>>
  /\ UNCHANGED <<tmVars, panelCreated, lost>>

\* "Clear finished": delete the rows that show a terminal state.
ClearFinishedTransfers ==
  /\ ui = "idle" /\ panelCreated
  /\ \E i \in Ids : row[i] \in TerminalStates
  /\ row' = [i \in Ids |->
               IF row[i] \in TerminalStates THEN "absent" ELSE row[i]]
  /\ UNCHANGED <<tmVars, panelCreated, inbox, lost, pending, handled, orphaned>>

\* OnShutdown, after the manager's Shutdown has returned: the panel window
\* is destroyed, and the messages it still has with it.
OnShutdownReturn ==
  /\ Join
  /\ panelCreated' = FALSE
  /\ inbox' = << >>
  /\ UNCHANGED <<lost, listVars>>

\* The calls of the manager that raise no event.
QuietStep ==
  /\ UserStep \/ EnqueueNotify \/ StopNotify
  /\ UNCHANGED pluginVars

-----------------------------------------------------------------------------
PluginNext ==
  \/ \E l \in Lanes :
       \/ PluginWorkerStep(l)
       \/ Progress(l)
       \/ SpuriousWake(l) /\ UNCHANGED pluginVars
  \/ CreatePanel
  \/ EnqueueReturn
  \/ HandleTransferEventUi
  \/ ClearFinishedTransfers
  \/ OnShutdownReturn
  \/ QuietStep
  \/ Closed /\ UNCHANGED pluginVars

\* As for the manager, and the message loop goes on dispatching.
PluginFairness ==
  /\ \A l \in Lanes : /\ WF_vars(PluginWorkerStep(l))
                       /\ SF_vars(\E ok \in BOOLEAN : PostFinished(l, ok))
  /\ WF_vars(EnqueueReturn)
  /\ WF_vars((EnqueueNotify \/ StopNotify) /\ UNCHANGED pluginVars)
  /\ WF_vars(OnShutdownReturn)
  /\ WF_vars(HandleTransferEventUi)

PluginSpec == PluginInit /\ [][PluginNext]_vars /\ PluginFairness

-----------------------------------------------------------------------------
(* Properties *)

\* Every variable has its type.
PluginTypeOK ==
  /\ TypeOK
  /\ panelCreated \in BOOLEAN
  /\ inbox \in Seq(Messages)
  /\ pending \subseteq Ids
  /\ row \in [Ids -> TransferStates \cup {"absent"}]
  /\ handled \subseteq Ids /\ orphaned \subseteq Ids
  /\ lost \subseteq Messages

\* The action of a job is stored after Enqueue has returned, when its worker
\* may long have finished it; still a completion always finds its action,
\* because completions are handled by the thread that stores actions.
CompletionFindsItsAction == orphaned = {}

\* The completion of a job that concludes while the panel exists is handled,
\* unless its message could not be posted, which nobody notices (its action
\* then stays in m_pending), or the plugin shuts down first.
CompletionIsHandled ==
  \A id \in Ids :
    (id \in Accepted /\ outcome[id] = "none" /\ panelCreated)
      ~> \/ id \in handled
         \/ \E m \in lost : m.id = id /\ m.state \in TerminalStates
         \/ stopping

\* A row never turns back to Running once the completion was handled.
NoRunningAfterCompletion ==
  [][\A id \in handled : row'[id] = "Running" => row[id] = "Running"]_vars
=============================================================================
