------------------------- MODULE Performance_proofs -------------------------
(***************************************************************************)
(* Proofs about the two ends of a performance: LiveLoop, which keeps the   *)
(* scheduler of the engine filled ahead of time, for any tempi, grid,      *)
(* lead, lag and bounds; and Playback, which sounds in the daemon what was *)
(* scheduled there, for any plays, lengths and bounds.                     *)
(***************************************************************************)
EXTENDS LiveLoop, Playback, FiniteSetTheorems, TLAPS

-----------------------------------------------------------------------------
(* LiveLoop: the loop timer, silence after a stop, and time.               *)

\* At most one loop timer, in a form that needs no counting.
OneTimer == \A s, t \in LoopTimers : s = t

\* Every loop timer is the one that stop() would cancel, and a loop has one.
Held ==
    /\ \A t \in LoopTimers : isLooping /\ t.id = loopTimer
    /\ isLooping => LoopTimers # {}

\* What loops is playing.
LoopPlays == isLooping => isPlaying

Flags == {isMuted, isPlaying, isLooping} \subseteq BOOLEAN

\* Timers are records of these fields.
IsTimer(t) ==
    t = [kind |-> t.kind, id |-> t.id, due |-> t.due, next |-> t.next, wasMuted |-> t.wasMuted,
         dur |-> t.dur]
Shapes == \A t \in timers : IsTimer(t)

IInv == Shapes /\ Flags /\ OneTimer /\ Held /\ LoopPlays /\ Quiet

\* An empty queue has nothing due.
LEMMA EmptyIsPolled == sounds = Cleared => Polled
BY DEF Cleared, Polled, Due, EmptyBag, BagToSet, SetToBag

\* A muted sequence is scheduled nothing.
LEMMA MutedSchedule ==
    ASSUME isMuted
    PROVE  /\ \A s, base : Scheduled(s, base) = s
           /\ \A d : FromTime(TRUE, d) = Cleared
BY DEF Scheduled, FromTime

LEMMA InitInv == Init => IInv
BY DEF Init, IInv, Shapes, Flags, OneTimer, Held, LoopPlays, Quiet, LoopTimers

\* Steps of the queue and of the clock touch neither timers nor state.
LEMMA StepKeeps == IInv /\ [Next]_vars => IInv'
<1> SUFFICES ASSUME IInv, [Next]_vars PROVE IInv'
  OBVIOUS
<1> USE DEF state, transport, groups
<1>1. CASE UNCHANGED vars
  BY <1>1 DEF vars, IInv, Shapes, Flags, OneTimer, Held, LoopPlays, Quiet, LoopTimers
<1>2. CASE Poll
  <2>1. sounds # Cleared
    BY <1>2, EmptyIsPolled DEF Poll
  <2>2. isPlaying /\ ~isMuted
    BY <2>1 DEF IInv, Quiet, Flags
  <2>3. UNCHANGED <<timers, isMuted, isPlaying, isLooping, loopTimer>>
    BY <1>2 DEF Poll
  <2> QED
    BY <2>2, <2>3 DEF IInv, Shapes, Flags, OneTimer, Held, LoopPlays, Quiet, LoopTimers
<1>3. CASE Tick
  BY <1>3 DEF Tick, IInv, Shapes, Flags, OneTimer, Held, LoopPlays, Quiet, LoopTimers
<1>4. ASSUME NEW t \in timers, LoopFires(t) PROVE IInv'
  <2> DEFINE unmuted == t.wasMuted /\ ~isMuted
             next == IF unmuted THEN now ELSE IF isMuted THEN t.next ELSE t.next + t.dur
             again == LoopTimer(IF isMuted THEN dur ELSE ArmDelay(next), next)
  <2>1. t \in LoopTimers /\ isLooping /\ LoopTimers = {t} /\ isPlaying
    BY <1>4 DEF LoopFires, IInv, OneTimer, Held, LoopPlays
  <2>2. /\ timers' = (timers \ {t}) \cup {again}
        /\ loopTimer' = again.id
        /\ sounds' = IF unmuted THEN FromTime(FALSE, dur)
                     ELSE IF isMuted THEN sounds ELSE Scheduled(Cleared, next)
        /\ UNCHANGED <<isMuted, isPlaying, isLooping>>
    BY <1>4, <2>1 DEF LoopFires, Stored
  <2>3. again.kind = "loop" /\ IsTimer(again)
    BY DEF LoopTimer, IsTimer
  <2> HIDE DEF again, next
  <2>4. LoopTimers' = {again}
    BY <2>1, <2>2, <2>3 DEF LoopTimers
  <2>5. isMuted => sounds' = sounds
    BY <2>2
  <2>6. Shapes'
    BY <2>2, <2>3 DEF IInv, Shapes
  <2> QED
    BY <2>1, <2>2, <2>4, <2>5, <2>6 DEF IInv, Shapes, Flags, OneTimer, Held, LoopPlays, Quiet
<1>5. ASSUME NEW t \in timers, RunEnds(t) PROVE IInv'
  <2>1. LoopTimers' = LoopTimers
    BY <1>5 DEF RunEnds, LoopTimers
  <2> QED
    BY <1>5, <2>1 DEF RunEnds, IInv, Shapes, Flags, OneTimer, Held, LoopPlays, Quiet
<1>6. ASSUME stop PROVE IInv'
  <2>1. LoopTimers' = {} /\ Shapes'
    BY <1>6 DEF stop, Cancelled, LoopTimers, IInv, Held, Shapes
  <2> QED
    BY <1>6, <2>1 DEF stop, IInv, Shapes, Flags, OneTimer, Held, LoopPlays, Quiet
<1>7. ASSUME mute PROVE IInv'
  BY <1>7 DEF mute, IInv, Shapes, Flags, OneTimer, Held, LoopPlays, Quiet, LoopTimers
<1>8. ASSUME unmute PROVE IInv'
  BY <1>8 DEF unmute, IInv, Shapes, Flags, OneTimer, Held, LoopPlays, Quiet, LoopTimers
<1>9. ASSUME Untouched PROVE IInv'
  BY <1>9 DEF Untouched, IInv, Shapes, Flags, OneTimer, Held, LoopPlays, Quiet, LoopTimers
<1>10. CASE LoopNamed
  BY <1>7, <1>8, <1>9, <1>10 DEF LoopNamed
<1>11. CASE LoopOthers
  BY <1>6, <1>11 DEF LoopOthers
<1>12. CASE RunNamed
  BY <1>9, <1>12 DEF RunNamed
<1>13. CASE RunOthers
  BY <1>6, <1>9, <1>13 DEF RunOthers
<1>14. CASE MuteNamed
  BY <1>7, <1>9, <1>14 DEF MuteNamed
<1>15. CASE MuteOthers
  BY <1>8, <1>9, <1>15 DEF MuteOthers
<1>16. CASE StartLoop
  <2> DEFINE start == IF Grid = 0 THEN now
                      ELSE IF now <= 0 THEN Grid ELSE ((now + Grid - 1) \div Grid) * Grid
             timer == LoopTimer(ArmDelay(start), start)
  <2>1. timer.kind = "loop" /\ IsTimer(timer)
    BY DEF LoopTimer, IsTimer
  <2>2. isMuted' = (isMuted \/ muteGroup) /\ isMuted' \in BOOLEAN
    BY <1>16 DEF StartLoop
  <2>3. CASE running
    <3>1. /\ isLooping' = TRUE /\ isPlaying' = TRUE
          /\ timers' = Cancelled \cup {timer} /\ loopTimer' = timer.id
          /\ sounds' = IF muteGroup THEN Cleared ELSE Scheduled(Cleared, start)
      BY <1>16, <2>3 DEF StartLoop
    <3> HIDE DEF timer, start
    <3>2. LoopTimers' = {timer}
      BY <3>1, <2>1 DEF LoopTimers, Cancelled, IInv, Held
    <3>3. isMuted' => sounds' = Cleared
      BY <3>1, <2>2, MutedSchedule
    <3>4. Shapes'
      BY <3>1, <2>1 DEF Cancelled, IInv, Shapes
    <3> QED
      BY <3>1, <3>2, <3>3, <3>4, <2>2 DEF IInv, Shapes, Flags, OneTimer, Held, LoopPlays, Quiet
  <2>4. CASE ~running
    <3>1. /\ sounds' = IF muteGroup THEN Cleared ELSE sounds
          /\ UNCHANGED <<isLooping, isPlaying, timers, loopTimer>>
      BY <1>16, <2>4 DEF StartLoop
    <3> QED
      BY <3>1, <2>2 DEF IInv, Shapes, Flags, OneTimer, Held, LoopPlays, Quiet, LoopTimers
  <2> QED
    BY <2>3, <2>4
<1>17. CASE StartRun
  <2>1. CASE running
    <3> DEFINE end == [kind |-> "end", id |-> FreshId, due |-> now + dur, next |-> 0,
                       wasMuted |-> FALSE, dur |-> dur]
    <3>1. /\ timers' = Cancelled \cup {end} /\ loopTimer' = 0
          /\ sounds' = Scheduled(IF isPlaying THEN Cleared ELSE sounds, now + Lead)
          /\ isPlaying' = TRUE /\ isLooping' = FALSE /\ UNCHANGED isMuted
      BY <1>17, <2>1 DEF StartRun
    <3>2. end.kind = "end" /\ IsTimer(end)
      BY DEF IsTimer
    <3> HIDE DEF end
    <3>3. LoopTimers' = {}
      BY <3>1, <3>2 DEF LoopTimers, Cancelled, IInv, Held
    <3>4. isMuted => sounds' = Cleared
      BY <3>1, MutedSchedule DEF IInv, Quiet
    <3>5. Shapes'
      BY <3>1, <3>2 DEF Cancelled, IInv, Shapes
    <3> QED
      BY <3>1, <3>3, <3>4, <3>5 DEF IInv, Shapes, Flags, OneTimer, Held, LoopPlays, Quiet
  <2>2. CASE ~running
    BY <1>17, <2>2, <1>9 DEF StartRun
  <2> QED
    BY <2>1, <2>2
<1>18. CASE LoadFails
  BY <1>18 DEF LoadFails, IInv, Shapes, Flags, OneTimer, Held, LoopPlays, Quiet, LoopTimers
<1>19. CASE Gain
  <2>1. isPlaying /\ sounds' = FromTime(isMuted, dur)
    BY <1>19 DEF Gain, Reschedules, IInv, LoopPlays
  <2>2. isMuted => sounds' = Cleared
    BY <2>1, MutedSchedule DEF IInv, Flags
  <2> QED
    BY <1>19, <2>1, <2>2 DEF Gain, IInv, Shapes, Flags, OneTimer, Held, LoopPlays, Quiet, LoopTimers
<1>20. CASE Tempo
  <2>1. UNCHANGED <<timers, isMuted, isPlaying, isLooping, loopTimer>>
    BY <1>20 DEF Tempo
  <2>2. CASE Reschedules /\ ~isLooping
    <3>1. isPlaying /\ sounds' = FromTime(isMuted, dur')
      BY <1>20, <2>2 DEF Tempo, Reschedules
    <3>2. isMuted => sounds' = Cleared
      BY <3>1, MutedSchedule DEF IInv, Flags
    <3> QED
      BY <2>1, <3>1, <3>2 DEF IInv, Shapes, Flags, OneTimer, Held, LoopPlays, Quiet, LoopTimers
  <2>3. CASE ~(Reschedules /\ ~isLooping)
    <3>1. sounds' = sounds
      BY <1>20, <2>3 DEF Tempo
    <3> QED
      BY <2>1, <3>1 DEF IInv, Shapes, Flags, OneTimer, Held, LoopPlays, Quiet, LoopTimers
  <2> QED
    BY <2>2, <2>3
<1>21. CASE GlobalStop
  BY <1>6, <1>21 DEF GlobalStop
<1>22. CASE GlobalStart
  <2> DEFINE moved(t) == [t EXCEPT !.due = @ - now]
  <2>1. timers' = {moved(t) : t \in timers}
    BY <1>22 DEF GlobalStart
  <2>2. \A t \in timers : moved(t).kind = t.kind /\ moved(t).id = t.id /\ IsTimer(moved(t))
    BY DEF IInv, Shapes, IsTimer
  <2>3. LoopTimers' = {moved(t) : t \in LoopTimers}
    BY <2>1, <2>2 DEF LoopTimers
  <2>4. UNCHANGED <<isMuted, isPlaying, isLooping, loopTimer, sounds>>
    BY <1>22 DEF GlobalStart
  <2> HIDE DEF moved
  <2>5. Shapes'
    BY <2>1, <2>2 DEF Shapes
  <2>6. \A t \in LoopTimers : moved(t).id = t.id
    BY <2>2 DEF LoopTimers
  <2>7. OneTimer' /\ Held'
    BY <2>3, <2>4, <2>6 DEF IInv, OneTimer, Held
  <2> QED
    BY <2>4, <2>5, <2>7 DEF IInv, Flags, LoopPlays, Quiet
<1> QED
  BY <1>1, <1>2, <1>3, <1>4, <1>5, <1>10, <1>11, <1>12, <1>13, <1>14, <1>15, <1>16, <1>17, <1>18,
     <1>19, <1>20, <1>21, <1>22 DEF Next

\* The invariant holds throughout.
THEOREM Inductive == Spec => []IInv
BY InitInv, StepKeeps, PTL DEF Spec

\* A loop has exactly one pending timer, the one stop() cancels, for any tempi, lags and any
\* number of lines and timers.
THEOREM OneLoopTimer == Spec => []Armed
<1>1. IInv => Armed
  <2> SUFFICES ASSUME IInv PROVE Armed
    OBVIOUS
  <2>1. CASE LoopTimers = {}
    BY <2>1, FS_EmptySet DEF IInv, Held, Armed
  <2>2. CASE LoopTimers # {}
    <3>1. PICK t : t \in LoopTimers
      BY <2>2
    <3>2. LoopTimers = {t} /\ isLooping /\ t.id = loopTimer
      BY <3>1 DEF IInv, OneTimer, Held
    <3> QED
      BY <3>2, FS_Singleton DEF Armed
  <2> QED
    BY <2>1, <2>2
<1> QED
  BY <1>1, Inductive, PTL

\* A sequence that was stopped or muted has nothing queued and nothing sounding.
THEOREM StoppedIsQuiet == Spec => []Quiet
<1>1. IInv => Quiet
  BY DEF IInv
<1> QED
  BY <1>1, Inductive, PTL

-----------------------------------------------------------------------------
(* Nothing is scheduled behind the clock.                                  *)

\* A loop timer fires before the boundary it schedules for, unless it only waits for an unmute.
Ahead(t) ==
    /\ t.next \in Int /\ t.dur \in Durations /\ t.due \in Int
    /\ now <= t.due + MaxLag
    /\ ~t.wasMuted => t.due + MaxLag <= t.next + t.dur

Timely ==
    /\ now \in Nat /\ dur \in Durations /\ loopStart \in Int
    /\ ~running => ~isLooping
    /\ \A t \in LoopTimers : Ahead(t)

\* What the assumption says of the numbers.
LEMMA Numbers ==
    /\ Grid \in Nat /\ Lead \in Nat /\ MaxLag \in Nat /\ MaxLag < Lead
    /\ \A d \in Durations : d \in Nat /\ d >= 2 /\ 2 * MaxLag <= d
BY LiveLoopAssumption DEF LiveLoopAssumption

\* The next boundary of a grid is not in the past.
LEMMA Boundary ==
    ASSUME NEW n \in Nat, NEW g \in Nat, g > 0
    PROVE  ((n + g - 1) \div g) * g \in Int /\ ((n + g - 1) \div g) * g >= n
<1> DEFINE q == (n + g - 1) \div g
           r == (n + g - 1) % g
<1>1. q \in Int /\ r \in 0 .. (g - 1) /\ n + g - 1 = g * q + r
  BY SMTT(30)
<1> QED
  BY <1>1, SMTT(30)

\* A timer that is armed for a boundary not yet passed fires before the next one.
LEMMA ArmedAhead ==
    ASSUME now \in Nat, dur \in Durations, NEW b \in Int, b + dur >= now + MaxLag
    PROVE  Ahead(LoopTimer(ArmDelay(b), b))
BY Numbers, SMTT(30) DEF Ahead, LoopTimer, ArmDelay

LEMMA TimelyInit == Init => Timely
BY DEF Init, Timely, LoopTimers, NoStart

LEMMA TimelyStep == IInv /\ Timely /\ [Next]_vars => Timely'
<1> SUFFICES ASSUME IInv, Timely, [Next]_vars PROVE Timely'
  OBVIOUS
<1> USE DEF state, transport, groups
<1>a. ASSUME UNCHANGED <<now, running, isLooping, dur, loopStart>>, LoopTimers' \subseteq LoopTimers
      PROVE  Timely'
  BY <1>a DEF Timely, Ahead
<1>b. ASSUME UNCHANGED <<now, running, isLooping, dur, loopStart, timers>> PROVE Timely'
  BY <1>a, <1>b DEF LoopTimers
<1>1. CASE UNCHANGED vars
  BY <1>1, <1>b DEF vars
<1>2. CASE Poll
  BY <1>2, <1>b DEF Poll
<1>3. CASE Tick
  <2>1. now' = now + 1 /\ LoopTimers' = LoopTimers
            /\ UNCHANGED <<running, isLooping, dur, loopStart>>
    BY <1>3 DEF Tick, LoopTimers
  <2>2. ASSUME NEW t \in LoopTimers PROVE Ahead(t)'
    <3>1. now < t.due + MaxLag /\ Ahead(t)
      BY <1>3, <2>2 DEF Tick, Timely, LoopTimers
    <3> QED
      BY <2>1, <3>1, Numbers DEF Ahead, Timely
  <2> QED
    BY <2>1, <2>2 DEF Timely
<1>4. ASSUME NEW t \in timers, LoopFires(t) PROVE Timely'
  <2> DEFINE unmuted == t.wasMuted /\ ~isMuted
             next == IF unmuted THEN now ELSE IF isMuted THEN t.next ELSE t.next + t.dur
             again == LoopTimer(IF isMuted THEN dur ELSE ArmDelay(next), next)
  <2>1. t \in LoopTimers /\ isLooping /\ LoopTimers = {t} /\ Ahead(t) /\ t.due <= now
    BY <1>4 DEF LoopFires, IInv, OneTimer, Held, Timely
  <2>2. /\ timers' = (timers \ {t}) \cup {again}
        /\ UNCHANGED <<now, running, isLooping, dur, loopStart>>
    BY <1>4, <2>1 DEF LoopFires
  <2>3. Ahead(again)
    <3>1. CASE isMuted
      BY <2>1, <3>1, Numbers DEF Ahead, Timely, LoopTimer
    <3>2. CASE ~isMuted
      <4>1. next \in Int /\ next >= now
        BY <2>1, <3>2, Numbers DEF Ahead, Timely
      <4>2. next + dur >= now + MaxLag
        BY <4>1, Numbers DEF Timely
      <4> QED
        BY <3>2, <4>1, <4>2, ArmedAhead DEF Timely
    <3> QED
      BY <3>1, <3>2
  <2> HIDE DEF again
  <2>4. LoopTimers' \subseteq {again}
    BY <2>1, <2>2 DEF LoopTimers
  <2> QED
    BY <2>1, <2>2, <2>3, <2>4 DEF Timely, Ahead
<1>5. ASSUME NEW t \in timers, RunEnds(t) PROVE Timely'
  BY <1>5, <1>a DEF RunEnds, LoopTimers
<1>6. ASSUME stop, UNCHANGED <<now, dur>> PROVE Timely'
  <2>1. LoopTimers' = {}
    BY <1>6 DEF stop, Cancelled, LoopTimers, IInv, Held
  <2> QED
    BY <1>6, <2>1 DEF stop, Timely
<1>7. CASE LoopNamed
  BY <1>7, <1>b DEF LoopNamed, Same, Untouched, mute, unmute
<1>8. CASE LoopOthers
  BY <1>6, <1>8 DEF LoopOthers, Same
<1>9. CASE RunNamed
  BY <1>9, <1>b DEF RunNamed, Same, Untouched
<1>10. CASE RunOthers
  BY <1>6, <1>10, <1>b DEF RunOthers, Same, Untouched
<1>11. CASE MuteNamed
  BY <1>11, <1>b DEF MuteNamed, Same, Untouched, mute
<1>12. CASE MuteOthers
  BY <1>12, <1>b DEF MuteOthers, Same, Untouched, unmute
<1>13. CASE StartLoop
  <2> DEFINE start == IF Grid = 0 THEN now
                      ELSE IF now <= 0 THEN Grid ELSE ((now + Grid - 1) \div Grid) * Grid
             timer == LoopTimer(ArmDelay(start), start)
  <2>1. UNCHANGED <<now, dur, running>>
    BY <1>13 DEF StartLoop
  <2>2. CASE running
    <3>1. isLooping' = TRUE /\ loopStart' = start /\ timers' = Cancelled \cup {timer}
      BY <1>13, <2>2 DEF StartLoop
    <3>2. start \in Int /\ start >= now
      BY Boundary, Numbers DEF Timely
    <3> HIDE DEF start
    <3>3. Ahead(timer)
      <4>1. start + dur >= now + MaxLag
        BY <3>2, Numbers DEF Timely
      <4> QED
        BY <3>2, <4>1, ArmedAhead DEF Timely
    <3> HIDE DEF timer
    <3>4. LoopTimers' \subseteq {timer}
      BY <3>1 DEF LoopTimers, Cancelled, IInv, Held
    <3> QED
      BY <2>1, <2>2, <3>1, <3>2, <3>3, <3>4 DEF Timely, Ahead
  <2>3. CASE ~running
    BY <1>13, <2>3, <1>b DEF StartLoop
  <2> QED
    BY <2>2, <2>3
<1>14. CASE StartRun
  <2>1. CASE running
    <3> DEFINE end == [kind |-> "end", id |-> FreshId, due |-> now + dur, next |-> 0,
                       wasMuted |-> FALSE, dur |-> dur]
    <3>1. /\ timers' = Cancelled \cup {end} /\ isLooping' = FALSE
          /\ UNCHANGED <<now, dur, running, loopStart>>
      BY <1>14, <2>1 DEF StartRun
    <3>2. end.kind = "end"
      OBVIOUS
    <3> HIDE DEF end
    <3>3. LoopTimers' = {}
      BY <3>1, <3>2 DEF LoopTimers, Cancelled, IInv, Held
    <3> QED
      BY <3>1, <3>3 DEF Timely
  <2>2. CASE ~running
    BY <1>14, <2>2, <1>b DEF StartRun, Untouched
  <2> QED
    BY <2>1, <2>2
<1>15. CASE LoadFails
  BY <1>15, <1>b DEF LoadFails
<1>16. CASE Gain
  BY <1>16, <1>b DEF Gain, Same
<1>17. CASE Tempo
  <2>1. dur' \in Durations /\ UNCHANGED <<now, running, isLooping, timers, loopStart>>
    BY <1>17 DEF Tempo
  <2> QED
    BY <2>1 DEF Timely, Ahead, LoopTimers
<1>18. CASE GlobalStop
  BY <1>18, <1>6 DEF GlobalStop
<1>19. CASE GlobalStart
  <2>1. ~isLooping /\ now' = 0 /\ running' = TRUE
            /\ UNCHANGED <<isLooping, loopTimer, dur, loopStart>>
    BY <1>19 DEF GlobalStart, Timely
  <2>2. LoopTimers' = {}
    BY <2>1, StepKeeps DEF IInv, Held
  <2> QED
    BY <2>1, <2>2 DEF Timely
<1> QED
  BY <1>1, <1>2, <1>3, <1>4, <1>5, <1>7, <1>8, <1>9, <1>10, <1>11, <1>12, <1>13, <1>14, <1>15,
     <1>16, <1>17, <1>18, <1>19 DEF Next

\* What is added to an empty queue is the times that were put.
LEMMA PutTimes ==
    ASSUME NEW times
    PROVE  BagToSet(Put(Cleared, times).on) = times
BY DEF Put, Cleared, BagToSet, EmptyBag, SetToBag, (+)

\* A step of OnTime.
InTime ==
    \A t \in BagToSet(sounds'.on) :
        t >= now \/ (BagIn(t, sounds.on) /\ sounds'.on[t] = sounds.on[t])

\* A queue filled anew with times to come is in time.
LEMMA Putting ==
    ASSUME NEW times, sounds' = Put(Cleared, times), \A t \in times : t >= now
    PROVE  InTime
BY PutTimes DEF InTime

\* A pattern scheduled from the present or later is in time.
LEMMA ScheduledAhead ==
    ASSUME Timely, NEW base \in Int, base >= now, sounds' = Scheduled(Cleared, base)
    PROVE  InTime
<1>1. \A h \in Hits(dur) : base + h >= now
  BY Numbers DEF Hits, Timely
<1>2. CASE isMuted
  BY <1>2 DEF Scheduled, InTime, Cleared, EmptyBag, SetToBag, BagToSet
<1>3. CASE ~isMuted
  BY <1>1, <1>3, Putting DEF Scheduled
<1> QED
  BY <1>2, <1>3

\* So is what is scheduled anew from the present.
LEMMA FromTimeAhead ==
    ASSUME Timely, NEW muted, NEW d \in Durations, sounds' = FromTime(muted, d)
    PROVE  InTime
<1>1. \A h \in Hits(d) : now + h >= now
  BY Numbers DEF Hits, Timely
<1>2. CASE muted
  BY <1>2 DEF FromTime, InTime, Cleared, EmptyBag, SetToBag, BagToSet
<1>3. CASE ~muted
  <2> DEFINE origin == IF loopStart = NoStart THEN 0 ELSE loopStart
             pass == (now - origin) \div d
             grid == {origin + i * d + h : i \in {pass, pass + 1}, h \in Hits(d)}
             times == IF role = "note" THEN {now + h : h \in Hits(d)} ELSE Remaining(grid)
  <2>1. sounds' = Put(Cleared, times)
    BY <1>3 DEF FromTime
  <2>2. \A t \in Remaining(grid) : t \in Int /\ t > now
    <3>1. origin \in Int /\ pass \in Int /\ d \in Nat /\ Hits(d) \subseteq Int
      BY Numbers DEF Timely, Hits, NoStart
    <3> HIDE DEF pass, origin
    <3>2. grid \subseteq Int
      BY <3>1, SMTT(20)
    <3> QED
      BY <3>2 DEF Remaining
  <2> HIDE DEF grid
  <2>3. \A t \in times : t >= now
    BY <1>1, <2>2 DEF Timely
  <2> HIDE DEF times
  <2> QED
    BY <2>1, <2>3, Putting
<1> QED
  BY <1>2, <1>3

LEMMA StepInTime == IInv /\ Timely /\ [Next]_vars => InTime \/ UNCHANGED vars
<1> SUFFICES ASSUME IInv, Timely, Next PROVE InTime
  OBVIOUS
<1> USE DEF state, transport, groups
<1>k. ASSUME sounds' \in {sounds, Cleared} PROVE InTime
  BY <1>k DEF InTime, BagIn, BagToSet, Cleared, EmptyBag, SetToBag
<1>s. ASSUME stop \/ mute \/ Untouched PROVE InTime
  BY <1>s, <1>k DEF stop, mute, Untouched
<1>u. ASSUME unmute PROVE InTime
  BY <1>u, <1>k, FromTimeAhead DEF unmute, Timely
<1>1. CASE Poll
  <2>1. sounds'.on = Without(sounds.on, Due(sounds.on))
    BY <1>1 DEF Poll
  <2> QED
    BY <2>1 DEF Without, Due, InTime, BagIn, BagToSet
<1>2. CASE Tick
  BY <1>2, <1>k DEF Tick
<1>3. ASSUME NEW t \in timers, LoopFires(t) PROVE InTime
  <2> DEFINE unmuted == t.wasMuted /\ ~isMuted
             next == IF unmuted THEN now ELSE IF isMuted THEN t.next ELSE t.next + t.dur
  <2>1. t \in LoopTimers /\ isLooping /\ Ahead(t) /\ t.due <= now
    BY <1>3 DEF LoopFires, IInv, Held, Timely
  <2>2. sounds' = IF unmuted THEN FromTime(FALSE, dur)
                  ELSE IF isMuted THEN sounds ELSE Scheduled(Cleared, next)
    BY <1>3, <2>1 DEF LoopFires
  <2>3. CASE unmuted
    BY <2>2, <2>3, FromTimeAhead DEF Timely
  <2>4. CASE ~unmuted /\ isMuted
    BY <2>2, <2>4, <1>k
  <2>5. CASE ~unmuted /\ ~isMuted
    <3>1. next \in Int /\ next >= now
      BY <2>1, <2>5, Numbers DEF Ahead, Timely
    <3>2. sounds' = Scheduled(Cleared, next)
      BY <2>2, <2>5
    <3> HIDE DEF next
    <3> QED
      BY <3>1, <3>2, ScheduledAhead
  <2> QED
    BY <2>3, <2>4, <2>5
<1>4. ASSUME NEW t \in timers, RunEnds(t) PROVE InTime
  BY <1>4, <1>k DEF RunEnds
<1>5. CASE LoopNamed \/ LoopOthers \/ RunNamed \/ RunOthers \/ MuteNamed \/ MuteOthers
  BY <1>5, <1>s, <1>u DEF LoopNamed, LoopOthers, RunNamed, RunOthers, MuteNamed, MuteOthers
<1>6. CASE StartLoop
  <2> DEFINE start == IF Grid = 0 THEN now
                      ELSE IF now <= 0 THEN Grid ELSE ((now + Grid - 1) \div Grid) * Grid
  <2>1. sounds' \in {sounds, Cleared} \/ sounds' = Scheduled(Cleared, start)
    BY <1>6 DEF StartLoop
  <2>2. start \in Int /\ start >= now
    BY Boundary, Numbers DEF Timely
  <2> HIDE DEF start
  <2> QED
    BY <2>1, <2>2, <1>k, ScheduledAhead
<1>7. CASE StartRun
  <2>1. sounds' = sounds \/ sounds' = Scheduled(IF isPlaying THEN Cleared ELSE sounds, now + Lead)
    BY <1>7 DEF StartRun, Untouched
  <2>2. ~isPlaying => sounds = Cleared
    BY DEF IInv, Quiet
  <2>3. now + Lead \in Int /\ now + Lead >= now
    BY Numbers DEF Timely
  <2> QED
    BY <2>1, <2>2, <2>3, <1>k, ScheduledAhead
<1>8. CASE LoadFails
  BY <1>8, <1>k DEF LoadFails
<1>9. CASE Gain
  BY <1>9, FromTimeAhead DEF Gain, Timely
<1>10. CASE Tempo
  BY <1>10, <1>k, FromTimeAhead DEF Tempo
<1>11. CASE GlobalStop
  BY <1>11, <1>s DEF GlobalStop
<1>12. CASE GlobalStart
  BY <1>12, <1>k DEF GlobalStart
<1> QED
  BY <1>1, <1>2, <1>3, <1>4, <1>5, <1>6, <1>7, <1>8, <1>9, <1>10, <1>11, <1>12 DEF Next

\* Whatever the lines and the lags within the assumption, nothing is put into the queue
\* behind the clock.
THEOREM NothingLate == Spec => OnTime
<1>1. IInv /\ Timely /\ [Next]_vars => [InTime]_vars
  BY StepInTime
<1> QED
  BY <1>1, Inductive, TimelyInit, TimelyStep, PTL DEF Spec, OnTime, InTime

-----------------------------------------------------------------------------
(* An undisturbed loop plays each event of each pass once.                 *)

\* A pass over a pattern of length d begins at t, if the first began at s.
Begins(s, d, t) == t >= s /\ (t - s) % d = 0

\* An event of such a pass is at t.
Beat(s, d, t) == t >= s /\ (t - s) % d \in Hits(d)

\* Division with remainder, and that there is only one.
LEMMA Divides ==
    ASSUME NEW n \in Int, NEW d \in Nat, d > 0
    PROVE  n \div d \in Int /\ n % d \in 0 .. d - 1 /\ n = d * (n \div d) + (n % d)
OBVIOUS

LEMMA DividesOnce ==
    ASSUME NEW q \in Int, NEW d \in Nat, d > 0, NEW r \in 0 .. d - 1
    PROVE  (d * q + r) % d = r /\ (d * q + r) \div d = q
<1> DEFINE n == d * q + r
<1>0. d * q \in Int /\ n \in Int
  BY SMTT(20)
<1>1. n \div d \in Int /\ n % d \in 0 .. d - 1 /\ n = d * (n \div d) + (n % d)
  BY <1>0, Divides
<1>2. PICK k \in Int : n \div d = q + k
  <2>1. n \div d - q \in Int /\ n \div d = q + (n \div d - q)
    BY <1>1
  <2> QED
    BY <2>1, Zenon
<1>a. d * k = r - (n % d)
  BY <1>1, <1>2, SMTT(30)
<1>b. n % d \in Int /\ r \in Int
  BY <1>1
<1> HIDE DEF n
<1>3. k = 0
  <2>1. CASE k >= 1
    <3>1. d * k >= d
      BY <2>1, SMTT(30)
    <3> QED
      BY <1>1, <1>a, <3>1
  <2>2. CASE k <= -1
    <3>1. d * k <= -d
      BY <2>2, SMTT(30)
    <3> QED
      BY <1>1, <1>a, <3>1
  <2> QED
    BY <2>1, <2>2
<1>4. n \div d = q /\ n % d = r
  <2>1. d * k = 0 /\ q + k = q
    BY <1>3
  <2> QED
    BY <1>2, <1>a, <1>b, <2>1
<1>5. n = d * q + r
  BY DEF n
<1> QED
  BY <1>4, <1>5, Zenon

\* Within a pass the remainder is the distance from its beginning.
LEMMA Shift ==
    ASSUME NEW n \in Int, NEW d \in Nat, d > 0, n % d = 0, NEW h \in 0 .. d - 1
    PROVE  (n + h) % d = h /\ (n + d + h) % d = h
<1> DEFINE q == n \div d
<1>1. q \in Int /\ n = d * q
  BY Divides
<1> HIDE DEF q
<1>2. n + h = d * q + h /\ n + d + h = d * (q + 1) + h /\ q + 1 \in Int
  BY <1>1, SMTT(20)
<1>3. (d * q + h) % d = h
  BY <1>1, DividesOnce
<1>4. (d * (q + 1) + h) % d = h
  <2>1. PICK p \in Int : p = q + 1
    BY <1>2
  <2>2. (d * p + h) % d = h
    BY DividesOnce
  <2> QED
    BY <2>1, <2>2
<1> QED
  BY <1>2, <1>3, <1>4, Zenon

\* A pass has two events, and the next begins where it ends.
LEMMA PassBeats ==
    ASSUME NEW s \in Int, NEW d \in Nat, d >= 2, NEW b \in Int, Begins(s, d, b)
    PROVE  /\ Begins(s, d, b + d)
           /\ \A t \in b .. b + d - 1 : Beat(s, d, t) <=> t = b \/ t = b + d \div 2
<1>1. \A h \in 0 .. d - 1 : (b - s + h) % d = h /\ (b - s + d + h) % d = h
  <2>1. b - s \in Int /\ (b - s) % d = 0 /\ d > 0
    BY DEF Begins
  <2>2. PICK n : n = b - s
    OBVIOUS
  <2> QED
    BY <2>1, <2>2, Shift
<1>a. b - s \in Int /\ (b - s) % d = 0 /\ b >= s
  BY DEF Begins
<1>3. Begins(s, d, b + d)
  <2>1. (b - s + d + 0) % d = 0
    BY <1>1
  <2>2. (b + d) - s = b - s + d + 0 /\ b + d >= s
    BY <1>a
  <2>3. ((b + d) - s) % d = 0
    BY <2>1, <2>2, Zenon
  <2> QED
    BY <2>2, <2>3, Zenon DEF Begins
<1>4. ASSUME NEW t \in b .. b + d - 1 PROVE Beat(s, d, t) <=> t = b \/ t = b + d \div 2
  <2>1. t - b \in 0 .. d - 1 /\ b - s + (t - b) = t - s
    OBVIOUS
  <2>2. (t - s) % d = t - b
    BY <1>1, <2>1, Zenon
  <2>3. Beat(s, d, t) <=> t - b \in {0, d \div 2}
    BY <1>a, <2>1, <2>2 DEF Beat, Hits
  <2> QED
    BY <2>3
<1> QED
  BY <1>3, <1>4

\* Passes that begin within one length begin at the same time, or in this order.
LEMMA Apart ==
    ASSUME NEW s \in Int, NEW d \in Nat, d >= 2, NEW b \in Int, NEW c \in Int,
           Begins(s, d, b), Begins(s, d, c), b < c + d
    PROVE  b <= c
<1> SUFFICES ASSUME c < b PROVE FALSE
  OBVIOUS
<1>1. b - c \in 0 .. d - 1 /\ c - s + (b - c) = b - s
  OBVIOUS
<1>2. (b - s) % d = b - c
  <2>1. c - s \in Int /\ (c - s) % d = 0 /\ d > 0
    BY DEF Begins
  <2>2. (c - s + (b - c)) % d = b - c
    BY <1>1, <2>1, Shift
  <2> QED
    BY <1>1, <2>2, Zenon
<1> QED
  BY <1>2 DEF Begins

\* The sums of which the cardinality of a bag is one.
Adds(f, D) ==
    D = [S \in SUBSET DOMAIN f |->
           IF S = {} THEN 0 ELSE f[CHOOSE e \in S : TRUE] + D[S \ {CHOOSE e \in S : TRUE}]]

LEMMA CardinalityAdds ==
    ASSUME NEW f
    PROVE  BagCardinality(f) = (CHOOSE D : Adds(f, D))[DOMAIN f]
BY DEF BagCardinality, Adds

LEMMA NoCopies ==
    ASSUME NEW f, DOMAIN f = {}
    PROVE  BagCardinality(f) = 0
<1> DEFINE D == CHOOSE D : Adds(f, D)
<1>1. Adds(f, [S \in {{}} |-> 0])
  BY DEF Adds
<1>2. Adds(f, D)
  BY <1>1, Zenon
<1>3. BagCardinality(f) = D[DOMAIN f]
  BY CardinalityAdds
<1> HIDE DEF D
<1> QED
  BY <1>2, <1>3 DEF Adds

LEMMA OneCopy ==
    ASSUME NEW f, NEW e, DOMAIN f = {e}, f[e] = 1
    PROVE  BagCardinality(f) = 1
<1> DEFINE D == CHOOSE D : Adds(f, D)
           C == [S \in SUBSET {e} |-> IF S = {} THEN 0 ELSE f[e]]
<1>1. ASSUME NEW S \in SUBSET {e}
      PROVE  C[S] = IF S = {} THEN 0
                    ELSE f[CHOOSE x \in S : TRUE] + C[S \ {CHOOSE x \in S : TRUE}]
  <2>1. C[{}] = 0
    OBVIOUS
  <2>2. CASE S = {}
    BY <2>2
  <2>3. CASE S # {}
    <3>1. S = {e} /\ (CHOOSE x \in S : TRUE) = e /\ S \ {e} = {}
      BY <2>3
    <3>2. C[S] = f[e]
      BY <3>1
    <3> HIDE DEF C
    <3>3. C[S] = f[e] + 0
      BY <3>2
    <3> QED
      BY <2>1, <2>3, <3>1, <3>3, Zenon
  <2> QED
    BY <2>2, <2>3
<1>2. Adds(f, C)
  BY <1>1, Zenon DEF Adds
<1>3. Adds(f, D)
  BY <1>2, Zenon
<1>4. BagCardinality(f) = D[{e}]
  BY CardinalityAdds
<1> HIDE DEF C, D
<1>5. (CHOOSE x \in {e} : TRUE) = e
  OBVIOUS
<1>6. D[{}] = 0
  BY <1>3 DEF Adds
<1>7. D[{e}] = f[e] + D[{e} \ {e}]
  BY <1>3, <1>5, Zenon DEF Adds
<1> QED
  BY <1>4, <1>6, <1>7

\* What is put into an empty queue is there once.
LEMMA PutOnce ==
    ASSUME NEW times, NEW q, q = Put(Cleared, times).on
    PROVE  BagToSet(q) = times /\ \A b \in times : q[b] = 1
BY DEF Put, Cleared, BagToSet, EmptyBag, SetToBag, (+)

\* Callbacks are late by less than half of any pattern.
Prompt == \A d \in Durations : MaxLag < d \div 2

\* A loop timer has been armed for a pass on the grid, between its last event and its end.
Paced(t) ==
    /\ ~t.wasMuted /\ t.dur = dur /\ Begins(loopStart, dur, t.next)
    /\ t.due >= t.next + dur \div 2 /\ t.due + MaxLag < t.next + dur
    /\ t.next <= now + dur \/ t.next = loopStart

Queued(b) == b \in BagToSet(sounds.on)

\* The queue has what will sound until the end of the timer's pass.
Complete(t) == \A b \in now + 1 .. t.next + dur - 1 : Queued(b) <=> Beat(loopStart, dur, b)

\* The queue is never behind the clock, and has nothing twice.
Single == \A b \in BagToSet(sounds.on) : b \in Int /\ b >= now /\ sounds.on[b] = 1

\* What is due at this instant is in the queue or has been dispatched.
Present ==
    /\ Queued(now) => Beat(loopStart, dur, now)
    /\ sounded = IF Beat(loopStart, dur, now) /\ ~Queued(now) THEN 1 ELSE 0

Undisturbed ==
    /\ isLooping /\ running /\ ~isMuted /\ timers \subseteq LoopTimers
    /\ loopStart \in Nat

Regular ==
    steady => Undisturbed /\ Single /\ Present /\ \A t \in timers : Paced(t) /\ Complete(t)

\* What a pass puts into an empty queue.
LEMMA PassQueued ==
    ASSUME ~isMuted, NEW base, NEW q, q = Scheduled(Cleared, base)
    PROVE  /\ BagToSet(q.on) = {base + h : h \in Hits(dur)}
           /\ \A b \in BagToSet(q.on) : q.on[b] = 1
BY PutOnce DEF Scheduled

\* What an update leaves in the queue: the rest of the pass from b on, and the next pass.
LEMMA RestQueued ==
    ASSUME Timely, role = "audio", loopStart \in Nat, ~Waits, NEW q, q = FromTime(FALSE, dur)
    PROVE  \E b \in Int :
             /\ b <= now /\ now < b + dur
             /\ \/ b >= loopStart /\ Begins(loopStart, dur, b)
                \/ b + dur = loopStart /\ now >= b + dur \div 2
             /\ BagToSet(q.on) =
                  {t \in {b, b + dur \div 2, b + dur, b + dur + dur \div 2} : t > now}
             /\ \A t \in BagToSet(q.on) : q.on[t] = 1
<1> DEFINE origin == IF loopStart = NoStart THEN 0 ELSE loopStart
           pass == (now - origin) \div dur
           grid == {origin + i * dur + h : i \in {pass, pass + 1}, h \in Hits(dur)}
           times == IF role = "note" THEN {now + h : h \in Hits(dur)} ELSE Remaining(grid)
<1>1. now \in Nat /\ dur \in Nat /\ dur >= 2 /\ loopStart \in Nat
  BY Numbers DEF Timely
<1>2. q = Put(Cleared, Remaining(grid))
  <2>1. q = Put(Cleared, times)
    BY DEF FromTime
  <2> HIDE DEF grid
  <2>2. times = Remaining(grid)
    OBVIOUS
  <2> QED
    BY <2>1, <2>2, Zenon
<1>o. origin = loopStart
  BY DEF NoStart
<1> HIDE DEF times, origin
<1>3. /\ pass \in Int /\ (now - loopStart) % dur \in 0 .. dur - 1
      /\ now - loopStart = dur * pass + ((now - loopStart) % dur)
  BY <1>1, <1>o, Divides
<1> HIDE DEF pass
<1>4. PICK r \in 0 .. dur - 1 : r = (now - loopStart) % dur
  BY <1>3
<1>5. PICK p \in Int : p = pass
  BY <1>3
<1>6. now = loopStart + dur * p + r
  BY <1>1, <1>3, <1>4, <1>5
<1>7. PICK b \in Int : b = loopStart + dur * p
  BY <1>1, SMTT(20)
<1>8. b <= now /\ now < b + dur
  BY <1>1, <1>6, <1>7
<1>9. loopStart + pass * dur = b /\ loopStart + (pass + 1) * dur = b + dur
  BY <1>1, <1>5, <1>7, SMTT(20)
<1>10. grid = {b, b + dur \div 2, b + dur, b + dur + dur \div 2}
  <2>1. \A t : t \in grid <=> \E i \in {pass, pass + 1} : \E h \in {0, dur \div 2} :
                               t = loopStart + i * dur + h
    BY <1>o DEF Hits
  <2> HIDE DEF grid
  <2>2. \A t : t \in grid <=> \/ t = loopStart + pass * dur + 0
                              \/ t = loopStart + pass * dur + dur \div 2
                              \/ t = loopStart + (pass + 1) * dur + 0
                              \/ t = loopStart + (pass + 1) * dur + dur \div 2
    BY <2>1, Zenon
  <2>3. b + 0 = b /\ b + dur + 0 = b + dur
    BY <1>1
  <2> QED
    BY <2>2, <2>3, <1>9, Zenon
<1> HIDE DEF grid
<1>11. BagToSet(q.on) = {t \in {b, b + dur \div 2, b + dur, b + dur + dur \div 2} : t > now}
  BY <1>2, <1>10, PutOnce DEF Remaining
<1>12. \A t \in BagToSet(q.on) : q.on[t] = 1
  BY <1>2, PutOnce
<1>13. \/ b >= loopStart /\ Begins(loopStart, dur, b)
       \/ b + dur = loopStart /\ now >= b + dur \div 2
  <2>1. CASE p >= 0
    <3>1. b >= loopStart
      BY <1>1, <1>7, <2>1, SMTT(20)
    <3>2. (dur * p + 0) % dur = 0
      BY <1>1, DividesOnce
    <3>3. b - loopStart = dur * p + 0
      BY <1>1, <1>7, SMTT(20)
    <3> QED
      BY <3>1, <3>2, <3>3 DEF Begins
  <2>2. CASE p < 0
    <3>1. now >= loopStart - (dur - dur \div 2)
      BY <1>1 DEF Waits
    <3>2. p = -1
      <4>1. CASE p <= -2
        <5>1. dur * p <= dur * (-2)
          BY <1>1, <4>1, SMTT(20)
        <5> QED
          BY <1>1, <1>7, <1>8, <3>1, <5>1
      <4> QED
        BY <4>1, <2>2
    <3>3. b = loopStart - dur
      BY <1>1, <1>7, <3>2
    <3> QED
      BY <1>1, <3>1, <3>3
  <2> QED
    BY <2>1, <2>2
<1> QED
  BY <1>8, <1>11, <1>12, <1>13

\* A queue that was polled has nothing for this instant.
LEMMA PolledNow == Timely /\ Polled => ~Queued(now)
BY DEF Polled, Due, Queued, Timely

\* Scheduled anew after its start, or shortly before, a loop goes on undisturbed.
LEMMA RestRegular ==
    ASSUME IInv, Timely, Regular, steady, role = "audio", ~Waits, Polled,
           sounds' = FromTime(FALSE, dur),
           UNCHANGED <<now, running, dur, timers, isLooping, isMuted, loopStart, sounded>>
    PROVE  Regular'
<1>1. /\ now \in Nat /\ dur \in Nat /\ dur >= 2 /\ loopStart \in Nat
      /\ Undisturbed /\ Single /\ Present /\ \A t \in timers : Paced(t) /\ Complete(t)
  BY Numbers DEF Timely, Regular, Undisturbed
<1>2. PICK b \in Int :
        /\ b <= now /\ now < b + dur
        /\ \/ b >= loopStart /\ Begins(loopStart, dur, b)
           \/ b + dur = loopStart /\ now >= b + dur \div 2
        /\ BagToSet(sounds'.on) =
             {t \in {b, b + dur \div 2, b + dur, b + dur + dur \div 2} : t > now}
        /\ \A t \in BagToSet(sounds'.on) : sounds'.on[t] = 1
  BY <1>1, RestQueued
<1>n. now \in Int /\ dur \in Int /\ loopStart \in Int
  BY <1>1
<1>3. PICK k \in Int : k = dur \div 2 /\ 1 <= k /\ 2 * k <= dur
  BY <1>1
<1>m. b <= now /\ now < b + dur
  BY <1>2
<1>p. PICK q : q = BagToSet(sounds'.on)
  OBVIOUS
<1>q. \A t : t \in q <=> t > now /\ (t = b \/ t = b + k \/ t = b + dur \/ t = b + dur + k)
  BY <1>2, <1>3, <1>p
<1>4. Single' /\ ~Queued(now)'
  <2>1. \A t \in q : t \in Int /\ t > now
    <3> SUFFICES ASSUME NEW t \in q PROVE t \in Int /\ t > now
      OBVIOUS
    <3>1. t > now /\ (t = b \/ t = b + k \/ t = b + dur \/ t = b + dur + k)
      BY <1>q
    <3> QED
      BY <1>n, <1>3, <3>1
  <2>2. \A t \in q : sounds'.on[t] = 1
    BY <1>2, <1>p
  <2>a. \A t \in q : t \in Int /\ t >= now
    BY <1>n, <2>1
  <2>3. \A t \in q : t \in Int /\ t >= now /\ sounds'.on[t] = 1
    BY <2>2, <2>a, Zenon
  <2>4. now \notin q
    BY <1>n, <2>1
  <2>5. now' = now
    OBVIOUS
  <2>6. Single'
    BY <1>p, <2>3, <2>5, Zenon DEF Single
  <2> QED
    BY <1>p, <2>4, <2>5, <2>6, Zenon DEF Queued
<1>5. Present'
  BY <1>1, <1>4, PolledNow DEF Present, Queued
<1>6. Undisturbed'
  BY <1>1 DEF Undisturbed, LoopTimers
<1>7. /\ Begins(loopStart, dur, b + dur)
      /\ \A c \in b + dur .. b + 2 * dur - 1 :
           Beat(loopStart, dur, c) <=> c = b + dur \/ c = b + dur + k
  <2>1. Begins(loopStart, dur, b + dur)
    <3>1. CASE b + dur = loopStart
      BY <1>1, <3>1 DEF Begins
    <3>2. CASE Begins(loopStart, dur, b)
      BY <1>1, <3>2, PassBeats
    <3> QED
      BY <1>2, <3>1, <3>2
  <2>2. PICK c \in Int : c = b + dur
    BY <1>1
  <2>3. b + 2 * dur - 1 = c + dur - 1
    BY <1>n, <2>2
  <2>4. \A e \in c .. c + dur - 1 : Beat(loopStart, dur, e) <=> e = c \/ e = c + k
    BY <1>1, <1>3, <2>1, <2>2, PassBeats
  <2> QED
    BY <2>1, <2>2, <2>3, <2>4, Zenon
<1>8. \A c \in now + 1 .. b + dur - 1 : Beat(loopStart, dur, c) <=> c = b + k
  <2>1. CASE b >= loopStart /\ Begins(loopStart, dur, b)
    <3>1. \A c \in b .. b + dur - 1 :
            Beat(loopStart, dur, c) <=> c = b \/ c = b + k
      BY <1>1, <1>3, <2>1, PassBeats
    <3> QED
      BY <1>n, <1>2, <3>1
  <2>2. CASE b + dur = loopStart /\ now >= b + dur \div 2
    <3> SUFFICES ASSUME NEW c \in now + 1 .. b + dur - 1
                 PROVE  ~Beat(loopStart, dur, c) /\ c # b + k
      OBVIOUS
    <3> QED
      BY <1>n, <1>3, <2>2 DEF Beat
  <2> QED
    BY <1>2, <2>1, <2>2
<1>9. ASSUME NEW t \in timers PROVE Paced(t)' /\ Complete(t)'
  <2>1. Paced(t) /\ t.next \in Int
    BY <1>1 DEF Undisturbed, Timely, Ahead
  <2>2. Paced(t)'
    BY <2>1 DEF Paced
  <2>3. t.next <= b + dur
    <3>1. t.next < b + dur + dur
      BY <1>1, <1>2, <2>1 DEF Paced
    <3>2. PICK c \in Int : c = b + dur
      BY <1>1
    <3> QED
      BY <1>1, <1>7, <2>1, <3>1, <3>2, Apart DEF Paced
  <2>4. ASSUME NEW c \in now + 1 .. t.next + dur - 1
        PROVE  c \in BagToSet(sounds'.on) <=> Beat(loopStart, dur, c)
    <3>1. c \in Int /\ c > now /\ c <= b + 2 * dur - 1
      BY <1>n, <2>1, <2>3
    <3>a. c # b
      BY <1>n, <1>m, <3>1
    <3>b. c \in q <=> c = b + k \/ c = b + dur \/ c = b + dur + k
      BY <1>q, <3>1, <3>a, Zenon
    <3>2. c \in BagToSet(sounds'.on) <=> c = b + k \/ c = b + dur \/ c = b + dur + k
      BY <1>p, <3>b, Zenon
    <3>3. CASE c <= b + dur - 1
      <4>1. Beat(loopStart, dur, c) <=> c = b + k
        BY <1>n, <1>8, <3>1, <3>3
      <4>2. c # b + dur /\ c # b + dur + k
        BY <1>n, <1>3, <3>1, <3>3
      <4> QED
        BY <3>2, <4>1, <4>2
    <3>4. CASE c >= b + dur
      <4>1. Beat(loopStart, dur, c) <=> c = b + dur \/ c = b + dur + k
        BY <1>n, <1>7, <3>1, <3>4
      <4>2. c # b + k
        BY <1>n, <1>3, <3>1, <3>4
      <4> QED
        BY <3>2, <4>1, <4>2
    <3>5. c <= b + dur - 1 \/ c >= b + dur
      BY <1>n, <3>1
    <3> QED
      BY <3>3, <3>4, <3>5, Zenon
  <2>5. Complete(t)'
    BY <2>4 DEF Complete, Queued
  <2> QED
    BY <2>2, <2>5
<1> QED
  BY <1>4, <1>5, <1>6, <1>9 DEF Regular

\* A timer that is armed for a boundary not yet passed fires between the last event of the
\* pass it was scheduled with and the next boundary.
LEMMA ArmedBetween ==
    ASSUME Prompt, Timely, NEW b \in Int, b >= now
    PROVE  LET t == LoopTimer(ArmDelay(b), b)
           IN  /\ t.kind = "loop" /\ t.next = b /\ t.dur = dur /\ t.wasMuted = isMuted
               /\ t.due >= b + dur \div 2 /\ t.due + MaxLag < b + dur
<1>1. now \in Int /\ dur \in Nat /\ MaxLag \in Nat /\ MaxLag < Lead /\ Lead \in Nat
          /\ dur \in Durations
  BY Numbers DEF Timely
<1>2. MaxLag < dur \div 2
  BY <1>1 DEF Prompt
<1>3. PICK h \in Int : h = dur \div 2
  BY <1>1
<1>4. h + h <= dur
  BY <1>1, <1>3
<1>5. now + ArmDelay(b) >= b + h /\ now + ArmDelay(b) + MaxLag < b + dur
  BY <1>1, <1>2, <1>3, <1>4 DEF ArmDelay
<1> QED
  BY <1>3, <1>5 DEF LoopTimer

\* A loop that is started, or goes on with its next pass, is undisturbed.
LEMMA PassRegular ==
    ASSUME Prompt, Timely, running, ~isMuted,
           NEW s \in Nat, NEW b \in Int, Begins(s, dur, b), b >= now, b <= now + dur \/ b = s,
           \A c \in now + 1 .. b - 1 : ~Beat(s, dur, c),
           sounded' = IF Beat(s, dur, now) /\ b # now THEN 1 ELSE 0,
           sounds' = Scheduled(Cleared, b), timers' = {LoopTimer(ArmDelay(b), b)},
           isLooping', ~isMuted', loopStart' = s, UNCHANGED <<now, running, dur>>
    PROVE  Regular'
<1>1. /\ now \in Nat /\ dur \in Nat /\ dur >= 2
      /\ dur \div 2 \in Int /\ 0 < dur \div 2 /\ 2 * (dur \div 2) <= dur
  BY Numbers DEF Timely
<1>2. /\ BagToSet(sounds'.on) = {b, b + dur \div 2}
      /\ \A c \in BagToSet(sounds'.on) : sounds'.on[c] = 1
  <2>1. {b + h : h \in Hits(dur)} = {b, b + dur \div 2}
    BY DEF Hits
  <2> QED
    BY <2>1, PassQueued
<1>3. PICK t : t = LoopTimer(ArmDelay(b), b)
  OBVIOUS
<1>4. /\ t.kind = "loop" /\ t.next = b /\ t.dur = dur /\ ~t.wasMuted
      /\ t.due >= b + dur \div 2 /\ t.due + MaxLag < b + dur
  BY <1>3, ArmedBetween
<1>5. Undisturbed'
  BY <1>3, <1>4 DEF Undisturbed, LoopTimers
<1>6. Single'
  BY <1>1, <1>2 DEF Single
<1>7. \A c \in b .. b + dur - 1 : Beat(s, dur, c) <=> c = b \/ c = b + dur \div 2
  BY <1>1, PassBeats
<1>8. Present'
  <2>1. CASE b = now
    <3>1. Beat(s, dur, now)
      BY <1>1, <1>7, <2>1
    <3> QED
      BY <1>2, <2>1, <3>1 DEF Present, Queued
  <2>2. CASE b # now
    <3>1. now \notin BagToSet(sounds'.on)
      BY <1>1, <1>2, <2>2
    <3> QED
      BY <2>2, <3>1 DEF Present, Queued
  <2> QED
    BY <2>1, <2>2
<1>9. Paced(t)'
  BY <1>4 DEF Paced
<1>10. ASSUME NEW c \in now + 1 .. b + dur - 1
       PROVE  c \in BagToSet(sounds'.on) <=> Beat(s, dur, c)
  <2>1. CASE c < b
    BY <1>1, <1>2, <2>1
  <2>2. CASE c >= b
    BY <1>1, <1>2, <1>7, <2>2
  <2> QED
    BY <1>1, <2>1, <2>2
<1>11. Complete(t)'
  BY <1>4, <1>10 DEF Complete, Queued
<1> QED
  BY <1>3, <1>5, <1>6, <1>8, <1>9, <1>11 DEF Regular

LEMMA RegularInit == Init => Regular
BY DEF Init, Regular

\* What is dispatched leaves the queue and is counted.
LEMMA RegularPoll == IInv /\ Timely /\ Regular /\ Poll => Regular'
<1> SUFFICES ASSUME IInv, Timely, Regular, Poll, steady PROVE Regular'
  BY DEF Poll, Regular
<1> DEFINE ons == Due(sounds.on)
<1>1. /\ UNCHANGED <<now, running, isMuted, isLooping, loopStart, dur, timers, steady>>
      /\ sounds'.on = Without(sounds.on, ons)
      /\ sounded' = sounded + Copies(sounds.on, ons)
  BY DEF Poll, transport, state
<1>2. /\ Undisturbed /\ Single /\ Present /\ \A t \in timers : Paced(t) /\ Complete(t)
      /\ now \in Nat /\ dur \in Nat
  BY Numbers DEF Regular, Timely
<1>3. ons = IF Queued(now) THEN {now} ELSE {}
  BY <1>2 DEF Due, Queued, Single
<1>4. Copies(sounds.on, ons) = IF Queued(now) THEN 1 ELSE 0
  <2>1. CASE Queued(now)
    <3> DEFINE f == [t \in {now} |-> sounds.on[t]]
    <3>1. DOMAIN f = {now} /\ f[now] = 1
      BY <1>2, <2>1 DEF Single, Queued
    <3>2. Copies(sounds.on, ons) = BagCardinality(f)
      BY <1>3, <2>1 DEF Copies
    <3> HIDE DEF f
    <3> QED
      BY <2>1, <3>1, <3>2, OneCopy
  <2>2. CASE ~Queued(now)
    <3> DEFINE f == [t \in {} |-> sounds.on[t]]
    <3>1. DOMAIN f = {}
      OBVIOUS
    <3>2. Copies(sounds.on, ons) = BagCardinality(f)
      BY <1>3, <2>2 DEF Copies
    <3> HIDE DEF f
    <3> QED
      BY <2>2, <3>1, <3>2, NoCopies
  <2> QED
    BY <2>1, <2>2
<1> HIDE DEF ons
<1>5. /\ BagToSet(sounds'.on) = BagToSet(sounds.on) \ {now}
      /\ \A c \in BagToSet(sounds'.on) : sounds'.on[c] = sounds.on[c]
  BY <1>1, <1>3 DEF Without, BagToSet, Queued
<1>6. Undisturbed' /\ Single'
  BY <1>1, <1>2, <1>5 DEF Undisturbed, Single, LoopTimers
<1>7. Present'
  BY <1>1, <1>2, <1>4, <1>5 DEF Present, Queued
<1>8. ASSUME NEW t \in timers PROVE Paced(t)' /\ Complete(t)'
  <2>1. Paced(t)'
    BY <1>1, <1>2 DEF Paced
  <2>2. Complete(t)'
    BY <1>1, <1>2, <1>5 DEF Complete, Queued
  <2> QED
    BY <2>1, <2>2
<1> QED
  BY <1>1, <1>6, <1>7, <1>8 DEF Regular

\* The clock goes on only when all that was due has been dispatched, and never beyond the pass
\* that the timer has to follow.
LEMMA RegularTick == IInv /\ Timely /\ Regular /\ Tick => Regular'
<1> SUFFICES ASSUME IInv, Timely, Regular, Tick, steady PROVE Regular'
  BY DEF Tick, Regular
<1>1. /\ UNCHANGED <<running, isMuted, isLooping, loopStart, dur, timers, sounds, steady>>
      /\ now' = now + 1 /\ sounded' = 0 /\ Polled
      /\ \A t \in timers : now < t.due + MaxLag
  BY DEF Tick, state
<1>2. /\ Undisturbed /\ Single /\ Present /\ \A t \in timers : Paced(t) /\ Complete(t)
      /\ now \in Nat /\ dur \in Nat /\ MaxLag \in Nat
  BY Numbers DEF Regular, Timely
<1>3. ~Queued(now)
  BY <1>1, PolledNow
<1>4. PICK t \in timers : t \in LoopTimers
  BY <1>2 DEF Undisturbed, IInv, Held, LoopTimers
<1>5. t.due \in Int /\ t.next \in Int
  BY <1>4 DEF Timely, Ahead
<1>6. now + 1 \in now + 1 .. t.next + dur - 1
  BY <1>1, <1>2, <1>4, <1>5 DEF Paced
<1>7. Queued(now + 1) <=> Beat(loopStart, dur, now + 1)
  BY <1>2, <1>4, <1>6 DEF Complete
<1>8. Present'
  BY <1>1, <1>7 DEF Present, Queued
<1>9. Undisturbed' /\ Single'
  BY <1>1, <1>2, <1>3 DEF Undisturbed, LoopTimers, Single, Queued
<1>10. ASSUME NEW u \in timers PROVE Paced(u)' /\ Complete(u)'
  <2>1. u.next \in Int /\ Paced(u) /\ Complete(u)
    BY <1>2 DEF Undisturbed, Timely, Ahead
  <2>2. Paced(u)'
    BY <1>1, <1>2, <2>1 DEF Paced
  <2>3. Complete(u)'
    BY <1>1, <1>2, <2>1 DEF Complete, Queued
  <2> QED
    BY <2>2, <2>3
<1> QED
  BY <1>1, <1>8, <1>9, <1>10 DEF Regular

\* The timer schedules the next pass when the last event of this one has been dispatched.
LEMMA RegularFires ==
    ASSUME Prompt, IInv, Timely, Regular, NEW t \in timers, LoopFires(t)
    PROVE  Regular'
<1> SUFFICES ASSUME steady PROVE Regular'
  BY DEF LoopFires, Regular
<1>1. /\ Undisturbed /\ Single /\ Present /\ Paced(t) /\ Complete(t)
      /\ now \in Nat /\ dur \in Nat /\ dur >= 2 /\ MaxLag \in Nat
  BY Numbers DEF Regular, Timely
<1>2. /\ t \in LoopTimers /\ LoopTimers = {t} /\ timers = {t}
      /\ t.next \in Int /\ t.due \in Int /\ now <= t.due + MaxLag /\ t.due <= now
  BY <1>1 DEF Undisturbed, LoopFires, IInv, OneTimer, Timely, Ahead
<1>3. PICK b \in Int : b = t.next + dur
  BY <1>1, <1>2
<1>4. /\ UNCHANGED <<now, running, isMuted, isLooping, loopStart, dur, sounded>>
      /\ Polled
  BY DEF LoopFires, transport
<1>5. ~isMuted /\ isLooping /\ running /\ loopStart \in Nat /\ ~t.wasMuted /\ t.dur = dur
  BY <1>1 DEF Undisturbed, Paced
<1>6. /\ timers' = (timers \ {t}) \cup {LoopTimer(ArmDelay(b), b)}
      /\ sounds' = Scheduled(Cleared, b)
  BY <1>3, <1>5 DEF LoopFires
<1>7. timers' = {LoopTimer(ArmDelay(b), b)}
  BY <1>2, <1>6
<1>8. Begins(loopStart, dur, t.next)
  BY <1>1 DEF Paced
<1>9. /\ Begins(loopStart, dur, b)
      /\ \A c \in t.next .. t.next + dur - 1 :
           Beat(loopStart, dur, c) <=> c = t.next \/ c = t.next + dur \div 2
  <2>1. PICK a \in Int : a = t.next
    BY <1>2
  <2>2. /\ Begins(loopStart, dur, a + dur)
        /\ \A c \in a .. a + dur - 1 :
             Beat(loopStart, dur, c) <=> c = a \/ c = a + dur \div 2
    <3>1. loopStart \in Int /\ dur \in Nat /\ dur >= 2 /\ Begins(loopStart, dur, a)
      BY <1>1, <1>5, <1>8, <2>1
    <3> QED
      BY <3>1, PassBeats
  <2> QED
    BY <1>3, <2>1, <2>2, Zenon
<1>10. now >= t.next + dur \div 2 /\ now < b /\ dur \div 2 \in Nat /\ 2 * (dur \div 2) <= dur
  BY <1>1, <1>2, <1>3 DEF Paced
<1>11. \A c \in now + 1 .. b - 1 : ~Beat(loopStart, dur, c)
  BY <1>1, <1>2, <1>3, <1>9, <1>10
<1>12. b >= now /\ b <= now + dur /\ b # now
  BY <1>1, <1>2, <1>3, <1>10
<1>13. sounded' = IF Beat(loopStart, dur, now) /\ b # now THEN 1 ELSE 0
  BY <1>1, <1>4, <1>12, PolledNow DEF Present
<1> QED
  BY <1>4, <1>5, <1>6, <1>7, <1>9, <1>11, <1>12, <1>13, PassRegular

\* A loop starts with the first pass in the queue and the timer for the second.
LEMMA RegularStart == Prompt /\ IInv /\ Timely /\ Regular /\ StartLoop => Regular'
<1> SUFFICES ASSUME Prompt, IInv, Timely, Regular, StartLoop, steady' PROVE Regular'
  BY DEF Regular
<1> DEFINE start == IF Grid = 0 THEN now
                    ELSE IF now <= 0 THEN Grid ELSE ((now + Grid - 1) \div Grid) * Grid
<1>1. /\ now \in Nat /\ dur \in Nat /\ dur >= 2 /\ Grid \in Nat
      /\ UNCHANGED <<now, running, dur>> /\ sounded' = 0
  BY Numbers DEF Timely, StartLoop, transport
<1>2. start \in Int /\ start >= now
  BY <1>1, Boundary
<1>3. CASE running
  <2>1. /\ isLooping' = TRUE /\ loopStart' = start
        /\ timers' = Cancelled \cup {LoopTimer(ArmDelay(start), start)}
        /\ sounds' = IF muteGroup THEN Cleared ELSE Scheduled(Cleared, start)
        /\ steady' = (~isMuted' /\ timers \subseteq LoopTimers)
        /\ isMuted' = (isMuted \/ muteGroup)
    BY <1>3 DEF StartLoop
  <2>2. ~isMuted /\ ~muteGroup /\ ~isMuted' /\ timers \subseteq LoopTimers
    BY <2>1
  <2>3. Cancelled = {}
    BY <2>2 DEF Cancelled, IInv, Held
  <2> HIDE DEF start
  <2>4. PICK b \in Nat : b = start
    BY <1>1, <1>2
  <2>5. (b - b) % dur = 0
    BY <1>1
  <2>6. Begins(b, dur, b) /\ \A c \in now + 1 .. b - 1 : ~Beat(b, dur, c)
    BY <1>1, <2>5 DEF Begins, Beat
  <2>7. ~(Beat(b, dur, now) /\ b # now)
    BY <1>1, <1>2, <2>4 DEF Beat
  <2> QED
    BY <1>1, <1>2, <1>3, <2>1, <2>2, <2>3, <2>4, <2>6, <2>7, PassRegular
<1>4. CASE ~running
  BY <1>4 DEF StartLoop, Regular, Undisturbed
<1> QED
  BY <1>3, <1>4

LEMMA RegularStep == Prompt /\ IInv /\ Timely /\ Regular /\ [Next]_vars => Regular'
<1> SUFFICES ASSUME Prompt, IInv, Timely, Regular, [Next]_vars, steady' PROVE Regular'
  BY DEF Regular
<1> USE DEF transport, groups, state
<1>k. ASSUME steady, UNCHANGED <<now, running, isMuted, isLooping, loopStart, dur, timers, sounds,
                                 sounded>>
      PROVE  Regular'
  BY <1>k DEF Regular, Undisturbed, LoopTimers, Single, Present, Queued, Paced, Complete
<1>s. steady => isLooping /\ running /\ ~isMuted
  BY DEF Regular, Undisturbed
<1>1. CASE UNCHANGED vars
  BY <1>1, <1>k DEF vars
<1>2. CASE Poll
  BY <1>2, RegularPoll
<1>3. CASE Tick
  BY <1>3, RegularTick
<1>4. ASSUME NEW t \in timers, LoopFires(t) PROVE Regular'
  BY <1>4, RegularFires
<1>5. ASSUME NEW t \in timers, RunEnds(t) PROVE Regular'
  BY <1>5 DEF RunEnds
<1>6. CASE LoopNamed
  <2>1. CASE loopGroup /\ ~muteGroup /\ unmute
    <3>1. steady /\ role = "audio" /\ ~Waits
      BY <1>6, <1>s, <2>1 DEF LoopNamed, StaysSteady, mute, unmute
    <3>2. /\ sounds' = FromTime(FALSE, dur) /\ Polled
          /\ UNCHANGED <<now, running, dur, timers, isLooping, isMuted, loopStart, sounded>>
      BY <1>6, <1>s, <2>1, <3>1 DEF LoopNamed, Line, Same, unmute, IInv, Flags
    <3> QED
      BY <3>1, <3>2, RestRegular
  <2>2. CASE ~loopGroup /\ Untouched
    BY <1>6, <2>2, <1>k DEF LoopNamed, Untouched, Same
  <2> QED
    BY <1>6, <2>1, <2>2 DEF LoopNamed
<1>7. CASE LoopOthers \/ GlobalStop \/ Tempo
  BY <1>7 DEF LoopOthers, GlobalStop, Tempo
<1>8. CASE RunNamed \/ RunOthers \/ MuteNamed \/ MuteOthers \/ LoadFails
  BY <1>8, <1>k DEF RunNamed, RunOthers, MuteNamed, MuteOthers, LoadFails, Same, Untouched
<1>9. CASE StartLoop
  BY <1>9, RegularStart
<1>10. CASE StartRun
  BY <1>10, <1>k DEF StartRun, Untouched
<1>11. CASE Gain
  <2>1. steady /\ isLooping /\ role = "audio" /\ ~Waits
    BY <1>11, <1>s DEF Gain, StaysSteady
  <2>2. /\ sounds' = FromTime(FALSE, dur) /\ Polled
        /\ UNCHANGED <<now, running, dur, timers, isLooping, isMuted, loopStart, sounded>>
    BY <1>11, <1>s, <2>1 DEF Gain, Line, Same, IInv, Flags
  <2> QED
    BY <2>1, <2>2, RestRegular
<1>12. CASE GlobalStart
  BY <1>12, <1>s DEF GlobalStart
<1> QED
  BY <1>1, <1>2, <1>3, <1>4, <1>5, <1>6, <1>7, <1>8, <1>9, <1>10, <1>11, <1>12 DEF Next

\* A loop that is neither muted nor given a new tempo plays each event of each pass once and
\* on its grid, for any tempi, grid and lead, if callbacks are late by less than half of any
\* pattern (which is the lead of the short ones).
THEOREM EachEventOnce == ASSUME Prompt PROVE Spec => Gapless
<1>1. IInv /\ Timely /\ Regular /\ [Next]_vars
        => [now' = now + 1 /\ steady => sounded = Owed]_vars
  <2> SUFFICES ASSUME IInv, Timely, Regular, Next, now' = now + 1, steady PROVE sounded = Owed
    OBVIOUS
  <2>1. now \in Nat /\ Undisturbed /\ Present
    BY DEF Timely, Regular
  <2>2. Tick
    <3>1. now' # now /\ running
      BY <2>1 DEF Undisturbed
    <3>2. ~Poll /\ ~StartLoop /\ ~StartRun /\ ~LoadFails /\ ~GlobalStop /\ ~GlobalStart
      BY <3>1 DEF Poll, StartLoop, StartRun, LoadFails, GlobalStop, GlobalStart, transport
    <3>3. \A t \in timers : ~LoopFires(t) /\ ~RunEnds(t)
      BY <3>1 DEF LoopFires, RunEnds, transport
    <3>4. ~Same /\ ~Tempo
      BY <3>1 DEF Same, Tempo, transport
    <3>5. /\ ~LoopNamed /\ ~LoopOthers /\ ~RunNamed /\ ~RunOthers /\ ~MuteNamed /\ ~MuteOthers
          /\ ~Gain
      BY <3>4 DEF LoopNamed, LoopOthers, RunNamed, RunOthers, MuteNamed, MuteOthers, Gain
    <3> QED
      BY <3>2, <3>3, <3>4, <3>5 DEF Next
  <2>3. ~Queued(now)
    BY <2>2, PolledNow DEF Tick
  <2> QED
    BY <2>1, <2>3 DEF Present, Owed, Beat
<1> QED
  BY <1>1, Inductive, TimelyInit, TimelyStep, RegularInit, RegularStep, PTL DEF Spec, Gapless

-----------------------------------------------------------------------------
(* Playback: the life of a play.                                           *)

\* The transport stands behind the wall clock by the blocks that were missed.
Clocks == cursor + missed = wall

\* A play that has not been asked for is nowhere.
Unborn == \A p \in Plays : task[p].pc = "none" => p \notin events \union ended /\ pos[p] = 0
          /\ stops[p] = "none"

\* What is in the scheduler has something left to be read.
Unread == \A p \in events : pos[p] < Length

\* A play that is not late either has its start ahead of it, or is read in step.
Punctual ==
    \A p \in events \ late :
        \/ p >= cursor /\ pos[p] = 0
        \/ p \in routable /\ p <= cursor /\ pos[p] = cursor - p

\* The task of a play that goes on wakes when the play will have ended.
WakesAtEnd ==
    \A p \in events \ (late \union lagging) :
        task[p].pc = "asleep" => task[p].wake - wall >= p + Length - cursor

\* A play whose task has woken is over.
AwakeIsOver ==
    \A p \in Plays :
        task[p].pc \in {"send", "sent", "silent"} \/ p \in ended
            => p \notin events \/ p \in late \union lagging

\* A stop that was answered is marked until the task takes the mark.
Marked == \A p \in Plays : stops[p] = "stopped"
          /\ task[p].pc \in {"spawned", "asleep"} => p \in stopped

PlayInv ==
    /\ PlayTypeOK /\ Clocks /\ Unborn /\ Unread /\ Punctual /\ WakesAtEnd /\ AwakeIsOver /\ Marked

\* The last block is a natural number, and every play ends before it.
LEMMA Blocks ==
    /\ LastStart \in Nat /\ Length \in Nat /\ Length > 0 /\ LastPlayAt \in Nat /\ MaxMissed \in Nat
    /\ LastBlock \in Nat
    /\ \A p \in Plays : p \in Nat /\ p + Length <= LastBlock
BY PlaybackAssumption, SMT DEF PlaybackAssumption, LastBlock

\* The delay of a task, whatever the time it was told.
LEMMA Delays ==
    ASSUME NEW p \in Plays, NEW told \in 0 .. LastBlock
    PROVE  Delay(p, told) \in 0 .. LastBlock /\ Delay(p, told) >= p + Length - told
BY Blocks, SMT DEF Delay

LEMMA PlayInitInv == PlayInit => PlayInv
<1> SUFFICES ASSUME PlayInit PROVE PlayInv
  OBVIOUS
<1> USE Blocks DEF PlayInit, NoTask
<1>1. PlayTypeOK
  BY DEF PlayTypeOK
<1>2. Clocks /\ Unborn /\ Unread /\ Punctual /\ WakesAtEnd /\ AwakeIsOver /\ Marked
  BY DEF Clocks, Unborn, Unread, Punctual, WakesAtEnd, AwakeIsOver, Marked
<1>3. QED
  BY <1>1, <1>2 DEF PlayInv

LEMMA RenderKeeps == PlayInv /\ Render => PlayInv'
<1> SUFFICES ASSUME PlayInv, Render PROVE PlayInv'
  OBVIOUS
<1> USE Blocks DEF PlayInv, Render, Advanced, session
<1>1. PlayTypeOK'
  BY DEF PlayTypeOK, Clocks, Unread, Unfinished, Sounding
<1>2. Clocks'
  BY DEF PlayTypeOK, Clocks
<1>3. Unborn'
  BY DEF PlayTypeOK, Unborn, Unfinished, Sounding
<1>4. Unread'
  BY DEF PlayTypeOK, Unread, Unfinished, Sounding
<1>5. Punctual'
  BY DEF PlayTypeOK, Punctual, Unfinished, Sounding
<1>6. WakesAtEnd'
  BY DEF PlayTypeOK, WakesAtEnd, Unfinished, Sounding
<1>7. AwakeIsOver' /\ Marked'
  BY DEF PlayTypeOK, AwakeIsOver, Marked, Unfinished, Sounding
<1>8. QED
  BY <1>1, <1>2, <1>3, <1>4, <1>5, <1>6, <1>7

LEMMA MissKeeps == PlayInv /\ Miss => PlayInv'
<1> SUFFICES ASSUME PlayInv, Miss PROVE PlayInv'
  OBVIOUS
<1> USE Blocks DEF PlayInv, Miss, scheduler, session
<1>1. PlayTypeOK' /\ Clocks'
  BY DEF PlayTypeOK, Clocks
<1>2. Unborn' /\ Unread' /\ Punctual' /\ Marked'
  BY DEF PlayTypeOK, Unborn, Unread, Punctual, Marked
<1>3. WakesAtEnd' /\ AwakeIsOver'
  BY DEF PlayTypeOK, WakesAtEnd, AwakeIsOver
<1>4. QED
  BY <1>1, <1>2, <1>3

LEMMA PlayAtKeeps == ASSUME NEW p \in Plays PROVE PlayInv /\ PlayAt(p) => PlayInv'
<1> SUFFICES ASSUME PlayInv, PlayAt(p) PROVE PlayInv'
  OBVIOUS
<1> USE Blocks DEF PlayInv, PlayAt, PlayTypeOK
<1>1. PlayTypeOK' /\ Clocks'
  BY DEF Clocks
<1>2. Unborn' /\ Unread'
  BY DEF Unborn, Unread
<1>3. Punctual'
  BY DEF Unborn, Punctual
<1>4. WakesAtEnd' /\ AwakeIsOver'
  BY DEF Unborn, WakesAtEnd, AwakeIsOver
<1>5. Marked'
  BY DEF Unborn, Marked
<1>6. QED
  BY <1>1, <1>2, <1>3, <1>4, <1>5

LEMMA RegisterKeeps == ASSUME NEW p \in Plays PROVE PlayInv /\ Register(p) => PlayInv'
BY DEF PlayInv, Register, session, history, PlayTypeOK, Clocks, Unborn, Unread, Punctual,
       WakesAtEnd,
       AwakeIsOver, Marked

LEMMA SleepKeeps == ASSUME NEW p \in Plays PROVE PlayInv /\ Sleep(p) => PlayInv'
<1> SUFFICES ASSUME PlayInv, Sleep(p) PROVE PlayInv'
  OBVIOUS
<1> USE Blocks DEF PlayInv, Sleep, PlayTypeOK, scheduler
<1>1. PICK told \in {cursor, wall} :
        /\ task' = [task EXCEPT ![p] = [pc |-> "asleep", wake |-> wall + Delay(p, told)]]
        /\ lagging' = IF told # cursor THEN lagging \union {p} ELSE lagging
  OBVIOUS
<1>2. Delay(p, told) \in 0 .. LastBlock /\ Delay(p, told) >= p + Length - told
  BY Delays
<1>3. PlayTypeOK' /\ Clocks'
  BY <1>1, <1>2 DEF Clocks
<1>4. Unborn' /\ Unread' /\ Punctual' /\ Marked'
  BY <1>1 DEF Unborn, Unread, Punctual, Marked
<1>5. WakesAtEnd'
  BY <1>1, <1>2 DEF WakesAtEnd
<1>6. AwakeIsOver'
  BY <1>1 DEF AwakeIsOver
<1>7. QED
  BY <1>3, <1>4, <1>5, <1>6

\* The step that matters: a task that wakes finds its play over.
LEMMA WakeKeeps == ASSUME NEW p \in Plays PROVE PlayInv /\ Wake(p) => PlayInv'
<1> SUFFICES ASSUME PlayInv, Wake(p) PROVE PlayInv'
  OBVIOUS
<1> USE Blocks DEF PlayInv, Wake, PlayTypeOK, scheduler, history
<1>1. PlayTypeOK' /\ Clocks'
  BY DEF Clocks
<1>2. p \notin events \/ p \in late \union lagging
  <2>1. SUFFICES ASSUME p \in events, p \notin late \union lagging PROVE FALSE
    OBVIOUS
  <2>2. p + Length > cursor
    BY <2>1 DEF Punctual, Unread
  <2>3. task[p].wake - wall >= p + Length - cursor
    BY <2>1 DEF WakesAtEnd
  <2>4. QED
    BY <2>2, <2>3
<1>3. Unborn' /\ Unread' /\ Punctual'
  BY DEF Unborn, Unread, Punctual
<1>4. WakesAtEnd'
  BY DEF WakesAtEnd
<1>5. AwakeIsOver'
  BY <1>2 DEF AwakeIsOver
<1>6. Marked'
  BY DEF Marked
<1>7. QED
  BY <1>1, <1>3, <1>4, <1>5, <1>6

LEMMA AnnounceKeeps == ASSUME NEW p \in Plays PROVE PlayInv /\ Announce(p) => PlayInv'
BY DEF PlayInv, Announce, scheduler, history, PlayTypeOK, Clocks, Unborn, Unread, Punctual,
       WakesAtEnd,
       AwakeIsOver, Marked

LEMMA StopKeeps == ASSUME NEW p \in Plays PROVE PlayInv /\ Stop(p) => PlayInv'
BY DEF PlayInv, Stop, history, PlayTypeOK, Clocks, Unborn, Unread, Punctual, WakesAtEnd,
       AwakeIsOver, Marked

LEMMA MarkKeeps == ASSUME NEW p \in Plays PROVE PlayInv /\ Mark(p) => PlayInv'
BY DEF PlayInv, Mark, scheduler, history, PlayTypeOK, Clocks, Unborn, Unread, Punctual, WakesAtEnd,
       AwakeIsOver, Marked

LEMMA StopAllKeeps == PlayInv /\ StopAll => PlayInv'
BY DEF PlayInv, StopAll, session, history, PlayTypeOK, Clocks, Unborn, Unread, Punctual, WakesAtEnd,
       AwakeIsOver, Marked

LEMMA PlayStepKeeps == PlayInv /\ [PlayNext]_playVars => PlayInv'
<1> SUFFICES ASSUME PlayInv, [PlayNext]_playVars PROVE PlayInv'
  OBVIOUS
<1>1. CASE Render \/ Miss \/ StopAll
  BY <1>1, RenderKeeps, MissKeeps, StopAllKeeps
<1>2. ASSUME NEW p \in Plays, PlayAt(p) \/ Register(p) \/ Stop(p) \/ Tasks(p) PROVE PlayInv'
  BY <1>2, PlayAtKeeps, RegisterKeeps, StopKeeps, SleepKeeps, WakeKeeps, AnnounceKeeps, MarkKeeps
     DEF Tasks
<1>3. CASE UNCHANGED playVars
  BY <1>3 DEF playVars, scheduler, session, history, PlayInv, PlayTypeOK, Clocks, Unborn, Unread,
              Punctual,
              WakesAtEnd, AwakeIsOver, Marked
<1>4. QED
  BY <1>1, <1>2, <1>3 DEF PlayNext

\* The strengthened invariant holds of every behaviour.
THEOREM PlayInductive == PlaySpec => []PlayInv
BY PlayInitInv, PlayStepKeeps, PTL DEF PlaySpec

\* Every variable keeps to its type.
THEOREM PlayTypeCorrect == PlaySpec => []PlayTypeOK
BY PlayInductive, PTL DEF PlayInv

\* Voices that are not late are read in step with the transport, for any number
\* of plays and of blocks missed.
THEOREM KeepsStep == PlaySpec => []InStep
<1>1. PlayInv => InStep
  BY Blocks DEF PlayInv, PlayTypeOK, Punctual, InStep
<1>2. QED
  BY <1>1, PlayInductive, PTL

\* No end is announced while the play still sounds, but for plays whose first frame could not
\* be read in its time (asked for in the past, or on a channel registered after its start) and
\* plays whose task slept by a clock the transport had fallen behind (a callback missed the
\* lock, or the uptime stood in for the transport).
THEOREM EndsAfterSound == PlaySpec => []EndedAfterSound
<1>1. PlayInv => EndedAfterSound
  BY DEF PlayInv, PlayTypeOK, AwakeIsOver, EndedAfterSound
<1>2. QED
  BY <1>1, PlayInductive, PTL

\* Once a Stop has been answered no task decides to announce the end.  An announcement that
\* was decided on before the answer may still be sent after it.
THEOREM NoEndDecided == PlaySpec => NoEndAfterStop
<1>1. PlayInv /\ [PlayNext]_playVars =>
        [\A p \in Plays : task[p].pc = "asleep"
                  /\ task'[p].pc = "send" => stops[p] # "stopped"]_playVars
  <2> SUFFICES ASSUME PlayInv, PlayNext,
         NEW p \in Plays, task[p].pc = "asleep", task'[p].pc = "send",
                      stops[p] = "stopped"
               PROVE  FALSE
    OBVIOUS
  <2>1. p \in stopped
    BY DEF PlayInv, Marked
  <2>2. \E q \in Plays : Sleep(q) \/ Wake(q) \/ Announce(q) \/ PlayAt(q)
    BY DEF PlayNext, Tasks, Render, Miss, StopAll, Register, Stop, Mark, session
  <2>3. PICK q \in Plays : Sleep(q) \/ Wake(q) \/ Announce(q) \/ PlayAt(q)
    BY <2>2
  <2>4. q = p /\ Wake(p)
    BY <2>3 DEF PlayInv, PlayTypeOK, Sleep, Wake, Announce, PlayAt
  <2>5. QED
    BY <2>1, <2>4 DEF PlayInv, PlayTypeOK, Wake, Suppressed
<1>2. QED
  BY <1>1, PlayInductive, PTL DEF PlaySpec, NoEndAfterStop

=============================================================================
