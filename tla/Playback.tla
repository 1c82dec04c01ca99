------------------------------ MODULE Playback ------------------------------
(***************************************************************************)
(* The life of a play in the daemon: PlayAt puts an event in the core      *)
(* scheduler and starts a task that will announce its end by the wall      *)
(* clock; the audio callback advances the transport, or not, when a        *)
(* command holds the lock it only tries to take; Stop removes the event    *)
(* under one lock and marks its id for the task under another.             *)
(*                                                                         *)
(* Time is counted in blocks.  The wall clock moves with every callback,   *)
(* the transport (cursor) only with those that rendered.                   *)
(***************************************************************************)
EXTENDS Integers, FiniteSets

CONSTANTS
    Plays,       \* the plays, each named by the block it is asked to start at
    LastStart,   \* the last of those blocks
    Length,      \* output length of the sample, in blocks
    LastPlayAt,  \* bound: no PlayAt and no Register after this block
    MaxMissed    \* bound: callbacks that found the lock taken

ASSUME PlaybackAssumption ==
    /\ LastStart \in Nat /\ Plays \subseteq 0 .. LastStart /\ Length \in Nat \ {0}
    /\ LastPlayAt \in Nat /\ MaxMissed \in Nat

VARIABLES
    wall, cursor, missed,
    events,     \* scheduler.events: the plays in it
    pos,        \* their read positions
    routable,   \* plays whose channel is registered
    task,       \* schedule_play_ended of each play
    stops,      \* the Stop call of each play
    stopped,    \* stopped_play_ids
    ended,      \* PlayEnded sent
    late,       \* history: plays whose first frame was not read at its time
    lagging     \* history: plays whose task slept by another clock than theirs

scheduler == <<cursor, events, pos, routable>>
session == <<task, stops, stopped, ended>>
history == <<late, lagging>>
playVars == <<wall, missed, scheduler, session, history>>

NoTask == [pc |-> "none", wake |-> 0]

\* Long enough for the last play to be announced.
LastBlock == LastPlayAt + LastStart + Length + MaxMissed

PlayInit ==
    /\ wall = 0 /\ cursor = 0 /\ missed = 0
    /\ events = {}
    /\ pos = [p \in Plays |-> 0]
    /\ routable \in SUBSET Plays
    /\ task = [p \in Plays |-> NoTask]
    /\ stops = [p \in Plays |-> "none"]
    /\ stopped = {} /\ ended = {}
    /\ late = {} /\ lagging = {}

-----------------------------------------------------------------------------
(* The audio callback.                                                     *)

\* mix_event_into: an event is read from its first frame on, however late.
Sounding == {p \in events \cap routable : p <= cursor}

\* Mutant: the transport is advanced once per target of render_multi.
AdvancedPerTarget == cursor' = cursor + 1 + Cardinality(Sounding)

\* render_multi moves the cursor once, whatever the number of targets.
Advanced == cursor' = cursor + 1

\* Mutant: a finished event is kept.
UnfinishedAlways == events

Unfinished == {p \in events : p \in Sounding => pos[p] + 1 < Length}

Render ==
    /\ wall < LastBlock
    /\ wall' = wall + 1
    /\ Advanced
    /\ pos' = [p \in Plays |-> IF p \in Sounding THEN pos[p] + 1 ELSE pos[p]]
    /\ events' = Unfinished
    /\ late' = late \union {p \in events \ routable : p <= cursor}
    /\ UNCHANGED <<missed, routable, session, lagging>>

\* try_lock fails: a block of silence, and the transport stands still.
Miss ==
    /\ wall < LastBlock /\ missed < MaxMissed
    /\ wall' = wall + 1
    /\ missed' = missed + 1
    /\ lagging' = lagging \union events
    /\ UNCHANGED <<scheduler, session, late>>

-----------------------------------------------------------------------------
(* The session.                                                            *)

PlayAt(p) ==
    /\ wall <= LastPlayAt
    /\ task[p].pc = "none"
    /\ events' = events \union {p}
    /\ task' = [task EXCEPT ![p].pc = "spawned"]
    /\ late' = IF p < cursor THEN late \union {p} ELSE late
    /\ UNCHANGED <<wall, missed, cursor, pos, routable, stops, stopped, ended, lagging>>

\* RegisterLinkAudioChannel, or a bus that is declared after it was played to.
Register(p) ==
    /\ wall <= LastPlayAt
    /\ p \notin routable
    /\ routable' = routable \union {p}
    /\ UNCHANGED <<wall, missed, cursor, events, pos, session, history>>

\* Mutant: the announcement waits for the start only.
DelayToStart(p, now) == IF p > now THEN p - now ELSE 0

\* The time left to the end of the play, never negative.
Delay(p, now) == IF p + Length > now THEN p + Length - now ELSE 0

\* transport_or_uptime_sec tries the lock and falls back on the uptime.
Sleep(p) ==
    /\ task[p].pc = "spawned"
    /\ \E now \in {cursor, wall} :
        /\ task' = [task EXCEPT ![p] = [pc |-> "asleep", wake |-> wall + Delay(p, now)]]
        /\ lagging' = IF now # cursor THEN lagging \union {p} ELSE lagging
    /\ UNCHANGED <<wall, missed, scheduler, stops, stopped, ended, late>>

\* Mutant: whatever is no longer in the scheduler counts as stopped.
SuppressedIfGone(p) == p \notin events

\* Mutant: the task does not look for the mark.
SuppressedNever(p) == FALSE

\* take_play_ended_suppressed: the mark is used up.
Suppressed(p) == p \in stopped

Wake(p) ==
    /\ task[p].pc = "asleep" /\ wall >= task[p].wake
    /\ task' = [task EXCEPT ![p] = [pc |-> IF Suppressed(p) THEN "silent" ELSE "send",
                                      wake |-> 0]]
    /\ stopped' = IF Suppressed(p) THEN stopped \ {p} ELSE stopped
    /\ UNCHANGED <<wall, missed, scheduler, stops, ended, history>>

Announce(p) ==
    /\ task[p].pc = "send"
    /\ task' = [task EXCEPT ![p].pc = "sent"]
    /\ ended' = ended \union {p}
    /\ UNCHANGED <<wall, missed, scheduler, stops, stopped, history>>

\* Engine::stop, under the scheduler's lock.
Stop(p) ==
    /\ stops[p] = "none" /\ task[p].pc # "none"
    /\ stops' = [stops EXCEPT ![p] = IF p \in events THEN "removed" ELSE "not_found"]
    /\ events' = events \ {p}
    /\ UNCHANGED <<wall, missed, cursor, pos, routable, task, stopped, ended,
                   history>>

\* EngineWrap::stop: the mark, under its own lock; then Stop is answered.
Mark(p) ==
    /\ stops[p] = "removed"
    /\ stops' = [stops EXCEPT ![p] = "stopped"]
    /\ stopped' = stopped \union {p}
    /\ UNCHANGED <<wall, missed, scheduler, task, ended, history>>

\* The tasks are left alone: a PlayEnded of a removed event is ignored by the engine.
StopAll ==
    /\ events # {}
    /\ events' = {}
    /\ UNCHANGED <<wall, missed, cursor, pos, routable, session, history>>

Tasks(p) == Sleep(p) \/ Wake(p) \/ Announce(p) \/ Mark(p)

PlayNext ==
    \/ Render \/ Miss \/ StopAll
    \/ \E p \in Plays :
        \/ PlayAt(p) \/ Register(p) \/ Stop(p) \/ Tasks(p)

PlaySpec == PlayInit /\ [][PlayNext]_playVars

\* The callback runs, timers fire and the runtime polls its tasks.
PlayFairSpec == PlaySpec /\ WF_playVars(Render) /\ \A p \in Plays : WF_playVars(Tasks(p))

-----------------------------------------------------------------------------
(* Properties.                                                             *)

\* Types of every variable.
PlayTypeOK ==
    /\ wall \in 0 .. LastBlock /\ cursor \in 0 .. LastBlock /\ missed \in 0 .. MaxMissed
    /\ events \subseteq Plays /\ routable \subseteq Plays
    /\ pos \in [Plays -> 0 .. Length]
    /\ task \in [Plays -> [pc : {"none", "spawned", "asleep", "send", "sent", "silent"},
                           wake : 0 .. 2 * LastBlock]]
    /\ stops \in [Plays -> {"none", "removed", "stopped", "not_found"}]
    /\ stopped \subseteq Plays /\ ended \subseteq Plays /\ late \subseteq Plays /\ lagging \subseteq Plays

\* A play that was scheduled ahead, on a registered channel, is read in step
\* with the transport, however many callbacks found the lock taken and however
\* many targets a block has (render_multi moves the transport once).
InStep ==
    \A p \in (events \cap routable) \ late :
        p <= cursor => pos[p] = cursor - p

\* PlayEnded is sent at the end of the sound, not before it: a play still in
\* the scheduler has not been announced, unless it was late (asked for in the
\* past, or on a channel registered after its start) or its task slept by a
\* clock the transport had fallen behind (a callback that missed its lock, or
\* the uptime in the place of the transport).
EndedAfterSound == ended \cap events \subseteq late \union lagging

\* schedule_play_ended's promise that Stop's answer and PlayEnded do not both
\* reach the engine, as far as it goes: once Stop has been answered "stopped"
\* no task decides to send PlayEnded.
NoEndAfterStop ==
    [][\A p \in Plays : task[p].pc = "asleep" /\ task'[p].pc = "send"
                           => stops[p] # "stopped"]_playVars

\* The engine hears of the end of every play, by PlayEnded or as the answer to
\* its Stop, whether the voice ended by itself, was stopped or was cleared with
\* all others by StopAll.
Told == \A p \in Plays : task[p].pc # "none" ~> p \in ended \/ stops[p] = "stopped"

\* Every voice of a registered channel comes to an end.
VoicesEnd == \A p \in Plays : p \in events /\ p \in routable ~> p \notin events

=============================================================================
