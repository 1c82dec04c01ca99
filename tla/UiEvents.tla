------------------------------ MODULE UiEvents ------------------------------
(***************************************************************************)
(* Opening and closing a plugin's window in a child process.  The child    *)
(* reports closes on a ring of EvtSlots events; the daemon's UiEventPump   *)
(* polls it from the watchdog thread and holds the first event of a close  *)
(* (the safepoint) until the engine has saved the plugin's state.  The     *)
(* child waits for that, but not longer than its close timeout.            *)
(*                                                                         *)
(* Each action is one critical section of the pump's mutex, one short      *)
(* critical section of the route's, or one step of the child's main loop.  *)
(* The command mailbox is reduced to what CommandMailbox.tla shows of it:  *)
(* one command at a time, answered once, given up after a timeout.         *)
(***************************************************************************)
EXTENDS Integers, Sequences, FiniteSets

CONSTANTS
    EvtSlots,   \* EVT_SLOTS
    Sessions,   \* client sessions that open and close the window
    MaxCmds,    \* bound: commands posted
    MaxDeaths   \* bound: deaths of the child

ASSUME EvtSlotsAssumption == EvtSlots \in Nat /\ EvtSlots >= 2
ASSUME UiBoundsAssumption == IsFiniteSet(Sessions) /\ MaxCmds \in Nat /\ MaxDeaths \in Nat

VARIABLES
    evtSeq, evtAck, slot,   \* shm evt_seq, evt_ack_seq, evt_kind/evt_arg by slot
    life,        \* child and watchdog: "alive", "quitting", "dead", "reset", "respawning", "gone"
    ready,       \* shm child_status is READY
    ui,          \* UiCloseStateMachine: "closed", "open" or "closing"
    closedSeq,   \* ui_closed_seq: sequence of this close's UI_CLOSED, 0 when not yet published
    overdue,     \* the close timeout has passed
    outbox,      \* events the ring had no slot for (pending, retained and not yet queued)
    generation, lifecycle,          \* UiPumpState
    pendingSafepoint, abandonedSafepoint,   \* UiPumpState, 0 for None
    routed,      \* the daemon knows which target the window belongs to
    cmd,         \* the command mailbox
    session,     \* where each session's call is
    notices,     \* safepoint notifications on their way to the engine
    cycle,       \* history: closes begun so far; events and notices carry theirs
    told,        \* history: the closes the engine was notified of, in order
    saved,       \* history: the closes the engine saved the state for
    ownerTold,   \* history: this death's ClosedByRespawn was sent
    openFailed,  \* history: an OPEN_UI to this child was given up
    unreserved,  \* history: this child opened a window that the daemon had forgotten in a reset
    posts, deaths

ring == <<evtSeq, evtAck, slot>>
owner == <<ownerTold, openFailed, unreserved>>
process == <<life, ready, ownerTold, openFailed, unreserved, deaths>>
machine == <<ui, closedSeq, overdue, outbox, cycle>>
pump == <<generation, lifecycle, pendingSafepoint, abandonedSafepoint>>
daemon == <<routed, cmd, session, posts>>
engine == <<notices, told, saved>>
vars == <<ring, process, machine, pump, daemon, engine>>

\* Mistake: the single slot that policy 4 of the specification rules out.
MistakeSingleSlot(seq) == 0

evt_slot_index(seq) == seq % EvtSlots
Completions == {"done-saved", "done-timeout"}
Events == [kind : {"closed"} \cup Completions, cycle : 1 .. MaxCmds]
NoEvent == [kind |-> "closed", cycle |-> 0]
NoCmd == [kind |-> "none", by |-> "nobody", answer |-> "none", abandoned |-> FALSE]

Init ==
    /\ evtSeq = 0 /\ evtAck = 0 /\ slot = [i \in 0 .. EvtSlots - 1 |-> NoEvent]
    /\ life = "alive" /\ ready = FALSE
    /\ ui = "closed" /\ closedSeq = 0 /\ overdue = FALSE /\ outbox = <<>>
    /\ generation = 0 /\ lifecycle = "closed" /\ pendingSafepoint = 0 /\ abandonedSafepoint = 0
    /\ routed = FALSE /\ cmd = NoCmd /\ session = [s \in Sessions |-> "idle"]
    /\ notices = {} /\ cycle = 0 /\ told = <<>> /\ saved = {} /\ ownerTold = FALSE
    /\ openFailed = FALSE /\ unreserved = FALSE /\ posts = 0 /\ deaths = 0

Alive == life \in {"alive", "quitting"}

-----------------------------------------------------------------------------
(* The child's end of the ring. *)

\* Slots that may be filled: a sequence's slot is reused once EvtSlots older ones are acked.
Free == evtAck + EvtSlots - evtSeq

\* Queue the events `new` behind what is retained, and publish as much as fits.
Publish(new) ==
    LET all == outbox \o new
        n == IF Len(all) <= Free THEN Len(all) ELSE Free
        holder(i) == CHOOSE k \in 1 .. n : evt_slot_index(evtSeq + k) = i
    IN  /\ slot' = [i \in DOMAIN slot |->
                      IF \E k \in 1 .. n : evt_slot_index(evtSeq + k) = i
                        THEN all[holder(i)] ELSE slot[i]]
        /\ evtSeq' = evtSeq + n
        /\ outbox' = SubSeq(all, n + 1, Len(all))
        /\ UNCHANGED evtAck

Drained == outbox = <<>> /\ evtAck = evtSeq

-----------------------------------------------------------------------------
(* The child's main loop: commands, the user, and the close state machine.   *)

Answer(answer) == cmd' = [cmd EXCEPT !.answer = answer]
Received(kind) == Alive /\ ready /\ cmd.kind = kind /\ cmd.answer = "none"

\* Mistake: the alternative the specification rejects, open whenever closed.
MistakeNoDrainGate == ui = "closed"

\* The window may be opened again: the previous close is completed at both ends.
MayOpen == ui = "closed" /\ Drained

OpenCommand ==
    /\ Received("open")
    /\ \/ /\ MayOpen /\ ui' = "open" /\ Answer("ok")
          /\ unreserved' = (unreserved \/ lifecycle = "closed" \/ ~routed)
       \/ UNCHANGED <<ui, unreserved>> /\ Answer("failed")    \* closing, or the plugin refuses
    /\ UNCHANGED <<ring, life, ready, ownerTold, openFailed, deaths, closedSeq, overdue, outbox,
                   cycle, pump, routed, session, posts, engine>>

\* All ways to close come here; only the first of them, in "open", has an effect.
BeginClose ==
    IF ui = "open"
      THEN /\ ui' = "closing" /\ overdue' = FALSE
           /\ cycle' = cycle + 1
           /\ Publish(<<[kind |-> "closed", cycle |-> cycle']>>)
           /\ closedSeq' = IF outbox' = <<>> THEN evtSeq' ELSE 0
      ELSE UNCHANGED <<ring, machine>>

\* CLOSE_UI is acknowledged when the close begins.
CloseCommand ==
    /\ Received("close")
    /\ BeginClose
    /\ Answer("ok")
    /\ UNCHANGED <<process, pump, routed, session, posts, engine>>

\* The window's close button, or the plugin's closed() callback.
WindowClosed ==
    /\ Alive /\ ui = "open"
    /\ BeginClose
    /\ UNCHANGED <<process, pump, daemon, engine>>

CloseTimeout ==
    /\ Alive /\ ui = "closing" /\ ~overdue
    /\ overdue' = TRUE
    /\ UNCHANGED <<ring, process, ui, closedSeq, outbox, cycle, pump, daemon, engine>>

\* The host has completed this close's own UI_CLOSED, not just some event.
SafepointCompleted == closedSeq # 0 /\ evtAck >= closedSeq

\* Mistake: the DONE event is sent after a saved safepoint only.
MistakeSilentTimeout(completion) ==
    /\ ui' = "closed" /\ closedSeq' = 0 /\ overdue' = FALSE
    /\ Publish(IF completion = "done-saved" THEN <<[kind |-> completion, cycle |-> cycle]>>
                                            ELSE <<>>)
    /\ UNCHANGED cycle

\* Phase B: the plugin's view and the window go, and UI_CLOSED_DONE follows.
FinishClose(completion) ==
    /\ ui' = "closed" /\ closedSeq' = 0 /\ overdue' = FALSE
    /\ Publish(<<[kind |-> completion, cycle |-> cycle]>>)
    /\ UNCHANGED cycle

\* Retained events are tried again; a UI_CLOSED learns its sequence when it gets in.
RetryPublication ==
    /\ Publish(<<>>)
    /\ closedSeq' = IF ui = "closing" /\ outbox # <<>> /\ outbox' = <<>> THEN evtSeq' ELSE closedSeq
    /\ UNCHANGED <<ui, overdue, cycle>>

Tick ==
    /\ Alive /\ ui # "open"
    /\ \/ /\ ui = "closing" /\ SafepointCompleted
          /\ FinishClose("done-saved")
       \/ /\ ui = "closing" /\ ~SafepointCompleted /\ overdue
          /\ FinishClose("done-timeout")
       \/ /\ ui = "closing" => ~SafepointCompleted /\ ~overdue
          /\ RetryPublication
    /\ UNCHANGED <<process, pump, daemon, engine>>

-----------------------------------------------------------------------------
(* Sessions.  A call is a sequence of critical sections, so sessions overlap. *)

Goto(s, pc) == session' = [session EXCEPT ![s] = pc]

CheckReady(s) ==
    /\ session[s] = "idle" /\ ready /\ posts < MaxCmds
    /\ Goto(s, "begin")
    /\ UNCHANGED <<ring, process, machine, pump, routed, cmd, posts, engine>>

BeginOpen(s) ==
    /\ session[s] = "begin"
    /\ IF lifecycle = "closed"
         THEN lifecycle' = "opening" /\ Goto(s, "route")
         ELSE UNCHANGED lifecycle /\ Goto(s, "idle")
    /\ UNCHANGED <<ring, process, machine, generation, pendingSafepoint, abandonedSafepoint, routed,
                   cmd, posts, engine>>

SetRoute(s) ==
    /\ session[s] = "route"
    /\ routed' = TRUE
    /\ Goto(s, "post")
    /\ UNCHANGED <<ring, process, machine, pump, cmd, posts, engine>>

\* close_outproc_plugin_ui only talks to the child when the window is known.
CloseRequest(s) ==
    /\ session[s] = "idle" /\ routed /\ posts < MaxCmds
    /\ Goto(s, "postClose")
    /\ UNCHANGED <<ring, process, machine, pump, routed, cmd, posts, engine>>

MailboxFree == cmd = NoCmd \/ (cmd.abandoned /\ cmd.answer # "none")

Post(s) ==
    /\ session[s] \in {"post", "postClose"}
    /\ LET open == session[s] = "post"
       IN  IF MailboxFree /\ posts < MaxCmds
             THEN /\ cmd' = [NoCmd EXCEPT !.kind = IF open THEN "open" ELSE "close", !.by = s]
                  /\ Goto(s, IF open THEN "wait" ELSE "waitClose")
                  /\ posts' = posts + 1
             ELSE Goto(s, IF open THEN "failed" ELSE "idle") /\ UNCHANGED <<cmd, posts>>
    /\ UNCHANGED <<ring, process, machine, pump, routed, engine>>

\* The answer is there, the mailbox was reset under the call, or it times out.
Await(s) ==
    /\ session[s] \in {"wait", "waitClose"}
    /\ LET open == session[s] = "wait"
           after(outcome) == IF open THEN outcome ELSE "idle"
       IN  \/ /\ cmd.by = s /\ cmd.answer # "none"
              /\ Goto(s, after(IF cmd.answer = "ok" THEN "opened" ELSE "failed"))
              /\ cmd' = NoCmd /\ UNCHANGED openFailed
           \/ /\ cmd.by # s
              /\ Goto(s, after("failed"))
              /\ UNCHANGED cmd
              /\ openFailed' = (openFailed \/ open)
           \/ /\ cmd.by = s /\ cmd.answer = "none"
              /\ Goto(s, after("failed"))
              /\ cmd' = [cmd EXCEPT !.abandoned = TRUE, !.by = "nobody"]
              /\ openFailed' = (openFailed \/ open)
    /\ UNCHANGED <<ring, life, ready, ownerTold, unreserved, deaths, machine, pump, routed, posts,
                   engine>>

FinishOpen(s) ==
    /\ session[s] \in {"opened", "failed"}
    /\ lifecycle' = IF lifecycle # "opening" THEN lifecycle
                    ELSE IF session[s] = "opened" THEN "open" ELSE "closed"
    /\ Goto(s, IF session[s] = "opened" THEN "idle" ELSE "unroute")
    /\ UNCHANGED <<ring, process, machine, generation, pendingSafepoint, abandonedSafepoint, routed,
                   cmd, posts, engine>>

ClearRoute(s) ==
    /\ session[s] = "unroute"
    /\ routed' = FALSE
    /\ Goto(s, "idle")
    /\ UNCHANGED <<ring, process, machine, pump, cmd, posts, engine>>

SessionStep(s) ==
    \/ BeginOpen(s) \/ SetRoute(s) \/ Post(s) \/ Await(s) \/ FinishOpen(s) \/ ClearRoute(s)

-----------------------------------------------------------------------------
(* The watchdog polls the ring, one event at a time and never past the head. *)

head == slot[evt_slot_index(evtAck + 1)]

\* The child has given up waiting: its DONE(timeout-without-save) follows the head.
AbandonPublished ==
    /\ evtSeq >= evtAck + 2
    /\ slot[evt_slot_index(evtAck + 2)].kind = "done-timeout"

\* A notification without a route is consumed; without a connected editor it is not.
NotifySafepoint ==
    IF routed
      THEN /\ notices' = notices \cup {[gen |-> generation, seq |-> evtAck + 1,
                                         cycle |-> head.cycle]}
           /\ told' = Append(told, head.cycle)
      ELSE UNCHANGED <<notices, told>>

\* Mistake: the engine is asked again on every poll of a blocked head.
MistakeForgetsAsking == FALSE

\* The engine knows of this safepoint; its acknowledgement is awaited.
AlreadyNotified == pendingSafepoint = evtAck + 1

PollClosed ==
    /\ life = "alive" /\ evtAck < evtSeq /\ head.kind = "closed"
    /\ lifecycle' = "closing"
    /\ \/ /\ AbandonPublished
          /\ pendingSafepoint' = 0 /\ abandonedSafepoint' = evtAck + 1
          /\ evtAck' = evtAck + 1
          /\ UNCHANGED <<notices, told>>
       \/ /\ ~AbandonPublished /\ ~AlreadyNotified
          /\ \/ NotifySafepoint /\ pendingSafepoint' = evtAck + 1
             \/ UNCHANGED <<notices, told, pendingSafepoint>>   \* no editor, or route locked
          /\ UNCHANGED <<evtAck, abandonedSafepoint>>
    /\ UNCHANGED <<evtSeq, slot, process, machine, generation, daemon, saved>>

PollDone ==
    /\ life = "alive" /\ evtAck < evtSeq /\ head.kind \in Completions
    /\ lifecycle' = "closed" /\ routed' = FALSE
    /\ evtAck' = evtAck + 1
    /\ UNCHANGED <<evtSeq, slot, process, machine, generation, pendingSafepoint, abandonedSafepoint,
                   cmd, session, posts, engine>>

\* Mistake: the sequence number alone identifies a safepoint.
MistakeAnyGeneration(n) == TRUE

\* A respawn restarts the sequence, so a notice is only good in its own generation.
Current(n) == n.gen = generation

\* The engine saved the state for notice n and says so; the pump may refuse.
AckSafepoint(n) ==
    /\ n \in notices
    /\ notices' = notices \ {n} /\ saved' = saved \cup {n.cycle}
    /\ LET late == abandonedSafepoint = n.seq /\ evtAck >= n.seq
           inOrder == pendingSafepoint = n.seq /\ evtAck + 1 = n.seq /\ n.seq <= evtSeq
       IN  IF Current(n) /\ late
             THEN abandonedSafepoint' = 0 /\ UNCHANGED <<evtAck, pendingSafepoint>>
             ELSE IF Current(n) /\ inOrder
             THEN evtAck' = n.seq /\ pendingSafepoint' = 0 /\ UNCHANGED abandonedSafepoint
             ELSE UNCHANGED <<evtAck, pendingSafepoint, abandonedSafepoint>>
    /\ UNCHANGED <<evtSeq, slot, process, machine, generation, lifecycle, daemon, told>>

-----------------------------------------------------------------------------
(* Death, reset and respawn; and the end of the watchdog. *)

Die ==
    /\ life = "alive" /\ deaths < MaxDeaths
    /\ life' = "dead" /\ deaths' = deaths + 1
    /\ UNCHANGED <<ring, ready, owner, machine, pump, daemon, engine>>

\* reset_child_starting, as far as this module sees it.
ResetRegion ==
    /\ evtSeq' = 0 /\ evtAck' = 0 /\ slot' = [i \in DOMAIN slot |-> NoEvent]
    /\ cmd' = NoCmd /\ ready' = FALSE

\* Mistake: the safepoint the dead child was waiting for is still pending.
MistakeKeepsPending == abandonedSafepoint' = 0 /\ UNCHANGED pendingSafepoint

ForgetSafepoints == abandonedSafepoint' = 0 /\ pendingSafepoint' = 0

\* Mistake: a window that is being opened or closed is not counted.
MistakeOnlyOpen == lifecycle = "open"

closed_visible_ui == lifecycle # "closed"

\* The pump's mutex around the mailbox's.  A visible window has an owner to tell.
ResetAfterChildExit ==
    /\ life = "dead"
    /\ life' = IF closed_visible_ui THEN "reset" ELSE "respawning"
    /\ ResetRegion
    /\ generation' = generation + 1 /\ lifecycle' = "closed"
    /\ ForgetSafepoints
    /\ UNCHANGED <<owner, deaths, machine, routed, session, posts, engine>>

\* ... if the daemon still knows the owner once the pump's mutex is released.
NotifyRespawn ==
    /\ life = "reset"
    /\ life' = "respawning"
    /\ ownerTold' = routed /\ routed' = FALSE
    /\ UNCHANGED <<ring, ready, openFailed, unreserved, deaths, machine, pump, cmd, session, posts,
                   engine>>

Spawn ==
    /\ life = "respawning"
    /\ life' = "alive"
    /\ ui' = "closed" /\ closedSeq' = 0 /\ overdue' = FALSE /\ outbox' = <<>>
    /\ ownerTold' = FALSE /\ unreserved' = FALSE
    /\ openFailed' = (cmd.kind = "open" /\ cmd.abandoned)
    /\ UNCHANGED <<ring, ready, deaths, cycle, pump, daemon, engine>>

BecomeReady ==
    /\ life = "alive" /\ ~ready
    /\ ready' = TRUE
    /\ UNCHANGED <<ring, life, owner, deaths, machine, pump, daemon, engine>>

\* final_drain: whatever is published is completed, a safepoint without its save.  A
\* notice that cannot be sent (no editor, route locked) is not tried again.
FinalDrain ==
    LET published == evtAck + 1 .. evtSeq
        closes == {q \in published : slot[evt_slot_index(q)].kind = "closed"}
        done == \E q \in published : slot[evt_slot_index(q)].kind \in Completions
        cycleOf(q) == slot[evt_slot_index(q)].cycle
        unsent == IF routed THEN closes \ {pendingSafepoint} ELSE {}
    IN \E new \in {unsent, {}} :
        /\ evtAck' = evtSeq /\ UNCHANGED <<evtSeq, slot>>
        /\ notices' = notices \cup
                {[gen |-> generation, seq |-> q, cycle |-> cycleOf(q)] : q \in new}
        /\ told' = IF new = {} THEN told ELSE Append(told, cycleOf(CHOOSE q \in new : TRUE))
        /\ pendingSafepoint' = 0
        /\ abandonedSafepoint' = IF closes = {} THEN abandonedSafepoint
                                                ELSE CHOOSE q \in closes : TRUE
        /\ lifecycle' = "closed"
        /\ routed' \in {routed, routed /\ ~done}

\* The plugin is unloaded: drain, tell the child to quit, and reap it.
Shutdown ==
    /\ life = "alive"
    /\ FinalDrain
    /\ life' = "quitting"
    /\ UNCHANGED <<ready, owner, deaths, machine, generation, cmd, session, posts, saved>>

\* Shutdown found the child dead, it died too fast too often, or spawning fails.
GiveUp ==
    /\ life \in {"dead", "respawning"}
    /\ FinalDrain
    /\ life' = "gone"
    /\ UNCHANGED <<ready, owner, deaths, machine, generation, cmd, session, posts, saved>>

\* The mailbox reset stops half way: the temporary file of a timed-out save cannot be
\* removed.  That save was the mailbox's command, so none of this module's was; it is
\* forgotten.  The pump keeps its generation, and the drain finds an empty ring.
ResetFails ==
    /\ life = "dead" /\ cmd = NoCmd
    /\ life' = "gone"
    /\ ResetRegion
    /\ lifecycle' = "closed" /\ pendingSafepoint' = 0
    /\ UNCHANGED <<owner, deaths, machine, generation, abandonedSafepoint, routed, session,
                   posts, engine>>

Reaped ==
    /\ life = "quitting"
    /\ life' = "gone"
    /\ UNCHANGED <<ring, ready, owner, deaths, machine, pump, daemon, engine>>

Next ==
    \/ OpenCommand \/ CloseCommand \/ WindowClosed \/ CloseTimeout \/ Tick
    \/ \E s \in Sessions : CheckReady(s) \/ CloseRequest(s) \/ SessionStep(s)
    \/ PollClosed \/ PollDone \/ \E n \in notices : AckSafepoint(n)
    \/ Die \/ ResetAfterChildExit \/ ResetFails \/ NotifyRespawn \/ Spawn \/ BecomeReady
    \/ Shutdown \/ GiveUp \/ Reaped

\* The watchdog and the child's main loop keep running, and time passes.  The
\* engine may never save, an editor may never connect, the user may never close.
Fairness ==
    /\ WF_vars(Tick) /\ WF_vars(CloseTimeout)
    /\ WF_vars(PollClosed) /\ WF_vars(PollDone)
    /\ WF_vars(ResetAfterChildExit) /\ WF_vars(NotifyRespawn) /\ WF_vars(Spawn)
    /\ WF_vars(Reaped)
    /\ \A s \in Sessions : WF_vars(SessionStep(s))

Spec == Init /\ [][Next]_vars
FairSpec == Spec /\ Fairness

-----------------------------------------------------------------------------
(* Properties. *)

Unacked == [i \in 1 .. evtSeq - evtAck |-> slot[evt_slot_index(evtAck + i)]]
Notices == [gen : Nat, seq : Nat, cycle : 1 .. MaxCmds]

RingType ==
    /\ evtSeq \in Nat /\ evtAck \in 0 .. evtSeq
    /\ slot \in [0 .. EvtSlots - 1 -> Events \cup {NoEvent}]
ProcessType ==
    /\ life \in {"alive", "quitting", "dead", "reset", "respawning", "gone"}
    /\ ready \in BOOLEAN /\ ownerTold \in BOOLEAN
    /\ openFailed \in BOOLEAN /\ unreserved \in BOOLEAN
    /\ deaths \in 0 .. MaxDeaths
MachineType ==
    /\ ui \in {"closed", "open", "closing"} /\ overdue \in BOOLEAN
    /\ closedSeq \in Nat /\ (Alive => closedSeq <= evtSeq)
    /\ outbox \in Seq(Events) /\ cycle \in 0 .. posts
PumpType ==
    /\ generation \in Nat /\ lifecycle \in {"closed", "opening", "open", "closing"}
    /\ pendingSafepoint \in 0 .. evtSeq /\ abandonedSafepoint \in Nat
Places == {"idle", "begin", "route", "post", "wait", "opened", "failed", "unroute",
           "postClose", "waitClose"}
Commands == [kind : {"none", "open", "close"}, by : Sessions \cup {"nobody"},
             answer : {"none", "ok", "failed"}, abandoned : BOOLEAN]
DaemonType ==
    /\ routed \in BOOLEAN /\ posts \in 0 .. MaxCmds
    /\ cmd \in Commands /\ session \in [Sessions -> Places]
EngineType ==
    /\ notices \subseteq Notices /\ told \in Seq(1 .. MaxCmds) /\ saved \subseteq 1 .. MaxCmds

\* Types of every variable.
TypeOK == RingType /\ ProcessType /\ MachineType /\ PumpType /\ DaemonType /\ EngineType

\* The ring is a lossless FIFO channel whose lives end with the child's.
Channel ==
    INSTANCE EventChannel WITH
        queue <- Unacked \o outbox,
        epoch <- generation + IF life \in {"quitting", "gone"} THEN 1 ELSE 0

LosslessFifo == Channel!Spec

\* A close completes as "safepoint-completed" only when the engine has saved the
\* plugin's state for that very close, never for an earlier one of this child or
\* of its predecessor.  Teardown alone completes what was not saved.
DoneMeansSaved ==
    life = "alive" =>
        \A i \in DOMAIN Unacked : Unacked[i].kind = "done-saved" => Unacked[i].cycle \in saved

\* The engine is asked to save at most once per close, however often the head is polled.
AskedOnce == \A i, j \in DOMAIN told : told[i] = told[j] => i = j

\* The drain gate on OPEN_UI makes two slots enough: no event ever waits for a slot.
NeverDeferred == outbox = <<>>

\* A close begun comes to its end at both sides, with no editor connected and with
\* an engine that never saves: its events do not block the ring for ever.
CloseEnds ==
    lifecycle = "closing" \/ Unacked # <<>>
        ~> (lifecycle = "closed" /\ Unacked = <<>>) \/ life = "gone"

\* When a dead child had a window on the screen, the owner is told that it is gone, or was
\* told that it could not be opened (closed_visible_ui, enqueue_plugin_ui_closed_by_respawn):
\* what the daemon knew of when the window opened, it knows of until the window is gone.
RespawnIsNotified ==
    life = "respawning" /\ ui # "closed" => ownerTold \/ openFailed \/ unreserved

\* What the owner of a window learns of its end is what happened, and once.
OwnerToldTruth == DoneMeansSaved /\ AskedOnce /\ RespawnIsNotified

=============================================================================
