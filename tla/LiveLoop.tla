------------------------------ MODULE LiveLoop ------------------------------
(***************************************************************************)
(* One sequence under the words RUN, LOOP and MUTE of a performance, its   *)
(* loop timer, the timer that ends a one-shot, and the events it has in    *)
(* the scheduler.  The REPL runs one line at a time; timers run between    *)
(* lines and while a line waits for a sample to load.  Time is counted in  *)
(* fractions of LOOP_TIMER_LEAD_MS, from the start of the transport.       *)
(***************************************************************************)
EXTENDS Integers, FiniteSets, Bags

CONSTANTS
    Durations,    \* pattern durations a tempo can give
    Grid,         \* the quantize grid, 0 for "off"
    Lead,         \* LOOP_TIMER_LEAD_MS, and the 100 ms of runSequence
    MaxLag,       \* how late a timer's callback may run
    MaxNow,       \* bound on the time
    MaxCommands   \* bound on the lines typed

ASSUME LiveLoopAssumption ==
    /\ Durations \subseteq Nat \ {0, 1} /\ Grid \in Nat /\ Lead \in Nat
    /\ MaxLag \in 0 .. (Lead - 1) /\ \A d \in Durations : 2 * MaxLag <= d
    /\ MaxNow \in Nat /\ MaxCommands \in Nat

VARIABLES
    role,        \* "audio" sequences use the player's queue, "note" ones the MidiScheduler
    running,     \* the transport
    now,
    runGroup, loopGroup, muteGroup,   \* the interpreter's groups have the sequence
    isMuted, isPlaying, isLooping,    \* StateManager
    loopStart,   \* StateManager's _loopStartTime
    loopTimer,   \* StateManager's loopTimer: an id, 0 for undefined
    dur,         \* what getPatternDuration would return
    timers,      \* the pending timeouts with what their closures hold
    sounds,      \* the sequence's events in the scheduler, and its sounding notes
    pc,          \* what the line being run waits for
    commands,
    steady,      \* history: the loop has gone on undisturbed
    sounded      \* history: events dispatched at this instant

transport == <<running, now>>
groups == <<runGroup, loopGroup, muteGroup>>
state == <<isMuted, isPlaying, isLooping, loopStart, loopTimer>>
vars == <<role, transport, groups, state, dur, timers, sounds, pc, commands, steady, sounded>>

NoStart == -1
Ids == 1 .. (MaxCommands + 2)

-----------------------------------------------------------------------------
(* The scheduler's queues                                                  *)

\* A pattern has an event at its start and one in the middle.
Hits(d) == {0, d \div 2}

\* clearSequenceEvents and clearOwner, which also releases what sounds.
Cleared == [on |-> EmptyBag, off |-> EmptyBag, held |-> 0]

\* Events enter the queue; a note's end, one unit later, enters with it.
Put(s, times) ==
    [s EXCEPT !.on = @ (+) SetToBag(times),
              !.off = IF role = "note" THEN @ (+) SetToBag({t + 1 : t \in times}) ELSE @]

\* scheduleEvents: a muted sequence schedules what cannot be heard, or nothing.
Scheduled(s, base) == IF isMuted THEN s ELSE Put(s, {base + h : h \in Hits(dur)})

\* Mistake: what has passed is scheduled again.
WholePass(times) == times

\* Events that have passed are skipped.
Remaining(times) == {t \in times : t > now}

\* Mistake: an update of the gain forgets the mute.
FromTimeAloud(muted, d) == Put(Cleared, {now + 1})

\* scheduleEventsFromTime after a clear: what is left of this pass over the pattern and all of
\* the next, by the grid of loopStart; a note sequence starts its pattern over.
FromTime(muted, d) ==
    LET origin == IF loopStart = NoStart THEN 0 ELSE loopStart
        pass == (now - origin) \div d
        grid == {origin + i * d + h : i \in {pass, pass + 1}, h \in Hits(d)}
    IN IF muted THEN Cleared
       ELSE Put(Cleared, IF role = "note" THEN {now + h : h \in Hits(d)} ELSE Remaining(grid))

Due(bag) == {t \in BagToSet(bag) : t <= now}
Copies(bag, times) == BagCardinality([t \in times |-> bag[t]])
Without(bag, times) == [t \in BagToSet(bag) \ times |-> bag[t]]

\* The schedulers poll every millisecond: nothing else happens while something is due.
Polled == Due(sounds.on) = {} /\ Due(sounds.off) = {}

\* The poll dispatches everything that is due.
Poll ==
    /\ ~Polled
    /\ LET ons == Due(sounds.on)
           offs == Due(sounds.off)
           held == sounds.held + Copies(sounds.on, ons) - Copies(sounds.off, offs)
       IN /\ sounded' = sounded + Copies(sounds.on, ons)
          /\ sounds' = [on |-> Without(sounds.on, ons), off |-> Without(sounds.off, offs),
                        held |-> IF role = "note" THEN held ELSE 0]
    /\ UNCHANGED <<role, transport, groups, state, dur, timers, pc, commands, steady>>

-----------------------------------------------------------------------------
(* Timers                                                                  *)

LoopTimers == {t \in timers : t.kind = "loop"}

\* An id that nothing refers to.
FreshId == CHOOSE i \in Ids : i # loopTimer /\ \A t \in timers : t.id # i

\* Mistake: the timer is aimed at the boundary itself, as before #389.
ArmDelayNoLead(boundary) == boundary + dur - now

\* armDelay: fire ahead of the next boundary, at once when that has passed.
ArmDelay(boundary) ==
    LET lead == IF 2 * Lead <= dur THEN Lead ELSE dur \div 2
        raw == boundary + dur - lead - now
    IN IF raw > 0 THEN raw ELSE 0

LoopTimer(wait, next) ==
    [kind |-> "loop", id |-> FreshId, due |-> now + wait, next |-> next, wasMuted |-> isMuted, dur |-> dur]

\* Mistake: the new handle is not stored when the timer is armed again.
StoredOnce(id) == loopTimer

\* setLoopTimerFn.
Stored(id) == id

\* The loop timer's callback: schedule the next pass and arm again.  After an unmute it
\* starts over from the present; while muted it only waits.
LoopFires(t) ==
    /\ t \in LoopTimers /\ t.due <= now /\ Polled
    /\ LET unmuted == t.wasMuted /\ ~isMuted
           next == IF unmuted THEN now ELSE IF isMuted THEN t.next ELSE t.next + t.dur
           again == LoopTimer(IF isMuted THEN dur ELSE ArmDelay(next), next)
       IN IF isLooping
          THEN /\ timers' = (timers \ {t}) \cup {again}
               /\ loopTimer' = Stored(again.id)
               /\ sounds' = IF unmuted THEN FromTime(FALSE, dur)
                            ELSE IF isMuted THEN sounds ELSE Scheduled(Cleared, next)
          ELSE timers' = timers \ {t} /\ UNCHANGED <<loopTimer, sounds>>
    /\ UNCHANGED <<role, transport, groups, isMuted, isPlaying, isLooping, loopStart, dur, pc,
                   commands, steady, sounded>>

\* The end of a one-shot, which nothing cancels.
RunEnds(t) ==
    /\ t \in timers \ LoopTimers /\ t.due <= now /\ Polled
    /\ timers' = timers \ {t} /\ sounds' = Cleared
    /\ steady' = FALSE
    /\ UNCHANGED <<role, transport, groups, state, dur, pc, commands, sounded>>

Tick ==
    /\ now < MaxNow /\ Polled
    /\ \A t \in timers : now < t.due + MaxLag
    /\ now' = now + 1 /\ sounded' = 0
    /\ UNCHANGED <<role, running, groups, state, dur, timers, sounds, pc, commands, steady>>

-----------------------------------------------------------------------------
(* What the methods of a sequence do                                       *)

\* Mistake: the pending timer goes on.
NotCancelled == timers

\* clearTimeout of the stored handle.
Cancelled == {t \in timers : t.id # loopTimer}

stop ==
    /\ sounds' = Cleared /\ timers' = Cancelled
    /\ loopTimer' = 0 /\ isPlaying' = FALSE /\ isLooping' = FALSE
    /\ UNCHANGED <<isMuted, loopStart>>

mute ==
    /\ isMuted' = TRUE /\ sounds' = Cleared
    /\ UNCHANGED <<isPlaying, isLooping, loopStart, loopTimer, timers>>

unmute ==
    /\ isMuted' = FALSE
    /\ sounds' = IF isLooping THEN FromTime(FALSE, dur) ELSE sounds
    /\ UNCHANGED <<isPlaying, isLooping, loopStart, loopTimer, timers>>

\* The player and the state see nothing of a command.
Untouched == UNCHANGED <<state, timers, sounds>>

\* The pattern, counted back from a start on the grid that is still to come, has events now.
Waits == loopStart - now > dur - dur \div 2

\* An undisturbed loop stays one if an audio sequence is scheduled anew; notes start over, and
\* a loop that waits for its start is heard too soon.
StaysSteady == steady /\ ((role = "audio" /\ ~Waits) \/ ~isLooping)

-----------------------------------------------------------------------------
(* Lines                                                                   *)

Line == pc = "idle" /\ commands < MaxCommands /\ Polled /\ commands' = commands + 1
Same == UNCHANGED <<role, transport, dur, sounded>>

\* LOOP(seq, ...): a sequence that is in the group already is only muted or unmuted.
LoopNamed ==
    /\ Line /\ Same
    /\ loopGroup' = TRUE /\ UNCHANGED <<runGroup, muteGroup>>
    /\ \/ ~loopGroup /\ pc' = "loop" /\ Untouched /\ UNCHANGED steady
       \/ loopGroup /\ muteGroup /\ pc' = pc /\ mute /\ steady' = FALSE
       \/ loopGroup /\ ~muteGroup /\ pc' = pc /\ unmute
          /\ steady' = (StaysSteady /\ ~isMuted)

\* LOOP(others).
LoopOthers ==
    /\ Line /\ Same
    /\ loopGroup /\ stop
    /\ loopGroup' = FALSE /\ steady' = FALSE
    /\ UNCHANGED <<runGroup, muteGroup, pc>>

RunNamed ==
    /\ Line /\ Same
    /\ runGroup' = TRUE /\ pc' = "run"
    /\ Untouched
    /\ UNCHANGED <<loopGroup, muteGroup, steady>>

RunOthers ==
    /\ Line /\ Same
    /\ runGroup /\ runGroup' = FALSE
    /\ \/ ~loopGroup /\ stop /\ steady' = FALSE
       \/ loopGroup /\ Untouched /\ UNCHANGED steady
    /\ UNCHANGED <<loopGroup, muteGroup, pc>>

MuteNamed ==
    /\ Line /\ Same
    /\ muteGroup' = TRUE
    /\ \/ loopGroup /\ mute /\ steady' = FALSE
       \/ ~loopGroup /\ Untouched /\ UNCHANGED steady
    /\ UNCHANGED <<runGroup, loopGroup, pc>>

MuteOthers ==
    /\ Line /\ Same
    /\ muteGroup /\ muteGroup' = FALSE
    /\ \/ loopGroup /\ unmute /\ steady' = FALSE
       \/ ~loopGroup /\ Untouched /\ UNCHANGED steady
    /\ UNCHANGED <<runGroup, loopGroup, pc>>

\* The line goes on when the sample is loaded: loop().
StartLoop ==
    LET start == IF Grid = 0 THEN now
                 ELSE IF now <= 0 THEN Grid ELSE ((now + Grid - 1) \div Grid) * Grid
        timer == LoopTimer(ArmDelay(start), start)
    IN /\ pc = "loop" /\ Polled /\ pc' = "idle"
       /\ isMuted' = (isMuted \/ muteGroup)
       /\ \/ /\ running
             /\ isLooping' = TRUE /\ isPlaying' = TRUE /\ loopStart' = start
             /\ timers' = Cancelled \cup {timer} /\ loopTimer' = timer.id
             /\ sounds' = IF muteGroup THEN Cleared ELSE Scheduled(Cleared, start)
             /\ steady' = (~isMuted' /\ timers \subseteq LoopTimers)
          \/ /\ ~running
             /\ sounds' = IF muteGroup THEN Cleared ELSE sounds
             /\ UNCHANGED <<isLooping, isPlaying, loopStart, timers, loopTimer, steady>>
       /\ sounded' = 0
       /\ UNCHANGED <<role, transport, groups, dur, commands>>

\* run(): the loop of the same sequence ends.
StartRun ==
    LET end == [kind |-> "end", id |-> FreshId, due |-> now + dur, next |-> 0, wasMuted |-> FALSE, dur |-> dur]
    IN /\ pc = "run" /\ Polled /\ pc' = "idle"
       /\ \/ /\ running
             /\ timers' = Cancelled \cup {end} /\ loopTimer' = 0
             /\ sounds' = Scheduled(IF isPlaying THEN Cleared ELSE sounds, now + Lead)
             /\ isPlaying' = TRUE /\ isLooping' = FALSE /\ steady' = FALSE
             /\ UNCHANGED <<isMuted, loopStart>>
          \/ ~running /\ Untouched /\ UNCHANGED steady
       /\ UNCHANGED <<role, transport, groups, dur, commands, sounded>>

\* The sample does not load: the line throws, with the group updated.
LoadFails ==
    /\ pc # "idle" /\ pc' = "idle"
    /\ UNCHANGED <<role, transport, groups, state, dur, timers, sounds, commands, steady, sounded>>

\* gain(), pan(), audio(), chop(): schedule anew at once.
Reschedules == (isLooping \/ isPlaying) /\ running /\ loopStart # NoStart
Gain ==
    /\ Line /\ Same
    /\ Reschedules /\ sounds' = FromTime(isMuted, dur)
    /\ steady' = StaysSteady
    /\ UNCHANGED <<groups, state, timers, pc>>

\* tempo(), beat(), length(): a loop takes the new duration with its next pass.
Tempo ==
    /\ Line
    /\ \E d \in Durations \ {dur} : dur' = d
    /\ sounds' = IF Reschedules /\ ~isLooping THEN FromTime(isMuted, dur') ELSE sounds
    /\ steady' = FALSE
    /\ UNCHANGED <<role, transport, groups, state, timers, pc, sounded>>

\* global.stop: written bare it is a transport statement and empties the groups, written with
\* parentheses it is a method call and does not.
GlobalStop ==
    /\ Line /\ running
    /\ running' = FALSE /\ stop /\ steady' = FALSE
    /\ \/ runGroup' = FALSE /\ loopGroup' = FALSE /\ muteGroup' = FALSE
       \/ UNCHANGED groups
    /\ UNCHANGED <<role, now, dur, pc, sounded>>

\* global.start: time begins again; the end of an old one-shot is still pending.
GlobalStart ==
    /\ Line /\ ~running
    /\ running' = TRUE /\ now' = 0
    /\ timers' = {[t EXCEPT !.due = @ - now] : t \in timers}
    /\ sounded' = 0
    /\ UNCHANGED <<role, groups, state, dur, sounds, pc, steady>>

-----------------------------------------------------------------------------
Init ==
    /\ role \in {"audio", "note"}
    /\ running = TRUE /\ now = 0
    /\ runGroup = FALSE /\ loopGroup = FALSE /\ muteGroup = FALSE
    /\ isMuted = FALSE /\ isPlaying = FALSE /\ isLooping = FALSE
    /\ loopStart = NoStart /\ loopTimer = 0
    /\ dur \in Durations
    /\ timers = {} /\ sounds = Cleared
    /\ pc = "idle" /\ commands = 0
    /\ steady = FALSE /\ sounded = 0

Next ==
    \/ Poll \/ Tick
    \/ \E t \in timers : LoopFires(t) \/ RunEnds(t)
    \/ LoopNamed \/ LoopOthers \/ RunNamed \/ RunOthers \/ MuteNamed \/ MuteOthers
    \/ StartLoop \/ StartRun \/ LoadFails
    \/ Gain \/ Tempo \/ GlobalStop \/ GlobalStart

Spec == Init /\ [][Next]_vars

-----------------------------------------------------------------------------
(* Properties                                                              *)

\* The type invariant.
TypeOK ==
    /\ role \in {"audio", "note"} /\ running \in BOOLEAN /\ now \in 0 .. MaxNow
    /\ {runGroup, loopGroup, muteGroup, isMuted, isPlaying, isLooping, steady} \subseteq BOOLEAN
    /\ loopStart \in Int /\ loopTimer \in {0} \cup Ids /\ dur \in Durations
    /\ \A t \in timers : t.kind \in {"loop", "end"} /\ t.id \in Ids /\ t.due \in Int
    /\ IsABag(sounds.on) /\ IsABag(sounds.off) /\ sounds.held \in Nat
    /\ pc \in {"idle", "run", "loop"} /\ commands \in 0 .. MaxCommands /\ sounded \in Nat

\* A looping sequence has one pending loop timer, the one stop() would cancel, and any other
\* sequence none: a loop neither dies nor doubles, whatever is evaluated while it runs.
Armed ==
    /\ Cardinality(LoopTimers) <= 1
    /\ {t.id : t \in LoopTimers} = IF isLooping THEN {loopTimer} ELSE {}

\* A sequence that was stopped or muted has nothing queued and nothing sounding (the
\* hanging-note invariant of midi-hanging-note-invariant.spec.ts, and its like for audio).
Quiet == ~isPlaying \/ isMuted => sounds = Cleared

\* Nothing is put into the queue behind the clock, as long as callbacks are no later than
\* the lead (#389): what must sound at a boundary is there before the boundary.
OnTime ==
    [][\A t \in BagToSet(sounds'.on) :
          t >= now \/ (BagIn(t, sounds.on) /\ sounds'.on[t] = sounds.on[t])]_vars

\* What an undisturbed loop owes at this instant.
Owed == IF now >= loopStart /\ (now - loopStart) % dur \in Hits(dur) THEN 1 ELSE 0

\* A loop that is neither muted nor given a new tempo plays each event of each pass once and
\* on its grid, also when LOOP or gain() schedules it anew and when callbacks are late.
Gapless == [][now' = now + 1 /\ steady => sounded = Owed]_vars

\* A looping sequence is muted exactly when MUTE last named it.  This does not hold (see the
\* README: MUTE reaches a sequence only while it is in the LOOP group).
MuteFlag == pc = "idle" /\ isLooping => isMuted = muteGroup

\* A sequence in the LOOP group loops.  This does not hold (see the README).
GroupLoops == pc = "idle" /\ running /\ loopGroup => isLooping

\* A loop is not heard before its start on the grid.  This does not hold (see the README: what
\* schedules it anew while it waits counts its passes back from the start).
WaitsForGrid == [][now' = now + 1 /\ isLooping /\ now < loopStart => sounded = 0]_vars

\* A loop keeps to the grid it was started on.  This does not hold (see the README: the
\* callback that notices an unmute starts a new grid, a lead before the old one).
KeepsGrid ==
    isLooping /\ Cardinality(Durations) = 1 =>
        \A t \in LoopTimers : t.wasMuted \/ (t.next - loopStart) % dur = 0
=============================================================================
