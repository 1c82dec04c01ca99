-------------------------- MODULE Supervisor_proofs --------------------------
(***************************************************************************)
(* Proofs about Supervisor, for any number of loads, plugins and deaths    *)
(* and any limit on fast respawns.                                         *)
(***************************************************************************)
EXTENDS Supervisor, TLAPS

\* Where the load that works on the slot is says what there is already: neither child nor
\* watchdog, a child, or a watchdog.
Place ==
    \A l \in Loads : Loading(l) =>
        /\ slot.state = "loading" /\ owner = "up" /\ shm
        /\ load[l].pc \in {"open", "reset", "spawn"} => wd.pc = "none" /\ child = "none"
        /\ load[l].pc = "supervise" => wd.pc = "none"
        /\ load[l].pc \in {"poll", "seen", "detach", "activate"} => wd.pc # "none"
        /\ load[l].pc # "detach" => ~shutdown

\* One load at a time.
One == \A l, m \in Loads : Loading(l) /\ Loading(m) => l = m

\* Once READY was seen, the death of the child is no failed attach any more, if the load
\* says so in time.
Attached ==
    Prompt =>
        /\ \A l \in Loads : load[l].pc = "seen" =>
              /\ status = "READY" \/ wd.pc \in {"respawn", "drain", "reap", "done"}
              /\ wd.why # "early"
        /\ \A l \in Loads : load[l].pc = "activate" => ~pending /\ wd.why # "early"
        /\ slot.state = "active" =>
              /\ wd.pc # "none" /\ ~pending
              /\ owner = "up" => ~shutdown /\ wd.why \notin {"early", "shutdown"}

\* A slot nobody works on has neither a child nor a watchdog.
Bare ==
    slot.state # "active" /\ (\A l \in Loads : ~Loading(l)) =>
        wd.pc = "none" /\ child = "none" /\ ~shutdown

\* The file, by whose slot it is.
File ==
    /\ slot.state \in {"empty", "active"} /\ owner # "down" => shm
    /\ slot.state = "loading" /\ shm => \E l \in Loads : Loading(l)

\* The watchdog and its child.
Watched ==
    /\ wd.pc = "none" => wd.why = "none"
    /\ wd.pc = "none" /\ Alive => \E l \in Loads : load[l].pc = "supervise"
    /\ wd.pc = "done" => child = "none"
    /\ wd.pc \in {"judge", "reset", "respawn"} => child = "exited"
    /\ wd.pc \in {"watch", "judge", "reset", "respawn"} => wd.why = "none"
    /\ wd.why = "early" => status # "READY" /\ ~Alive
    /\ wd.why = "shutdown" => shutdown
    /\ control = "QUIT" => wd.pc \in {"reap", "done"}

\* What the watchdog counts is no less than what happened.
Streak ==
    wd.pc # "none" =>
        /\ young <= wd.fast
        /\ wd.pc \in {"watch", "judge", "reset", "respawn"} => wd.fast < MaxFast

\* A teardown begins when no load is in flight.
Down ==
    /\ owner # "up" => \A l \in Loads : ~InFlight(l)
    /\ owner = "down" => child = "none" /\ ~shm /\ wd.pc \in {"none", "done"}

IInv ==
    /\ TypeOK /\ Place /\ One /\ Attached /\ Bare /\ File /\ Watched /\ Streak /\ Down

-----------------------------------------------------------------------------
(* Records.                                                                *)

\* What a step of one load does to the places of all.
At(l, p) == load'[l].pc = p /\ \A m \in Loads \ {l} : load'[m].pc = load[m].pc

LEMMA GoesTo ==
    ASSUME LoadType, NEW l \in Loads, NEW p \in Places, Goto(l, p)
    PROVE  At(l, p) /\ LoadType'
BY DEF LoadType, At, Goto

LEMMA Fails ==
    ASSUME LoadType, NEW l \in Loads, Fail(l)
    PROVE  At(l, "rollback") /\ LoadType'
<1>1. load' = [load EXCEPT ![l] = [load[l] EXCEPT !.pc = "rollback", !.result = "err"]]
  BY DEF Fail
<1>2. load[l] \in [pc : Places, plugin : Plugins \cup {"none"}, result : Results]
  BY DEF LoadType
<1>3. /\ [load[l] EXCEPT !.pc = "rollback", !.result = "err"]
           \in [pc : Places, plugin : Plugins \cup {"none"}, result : Results]
      /\ [load[l] EXCEPT !.pc = "rollback", !.result = "err"].pc = "rollback"
  BY <1>2 DEF Places, Results
<1> QED
  BY <1>1, <1>3 DEF LoadType, At

LEMMA Finishes ==
    ASSUME LoadType, NEW l \in Loads, NEW r \in Results, Finish(l, r)
    PROVE  At(l, "done") /\ LoadType'
BY DEF LoadType, At, Finish, Places

LEMMA Walks ==
    ASSUME WatchdogType, NEW p \in WatchdogPlaces, wd' = [wd EXCEPT !.pc = p]
    PROVE  WatchdogType' /\ wd'.pc = p /\ wd'.why = wd.why /\ wd'.fast = wd.fast
BY DEF WatchdogType, WatchdogPlaces

LEMMA Stops ==
    ASSUME WatchdogType, NEW r \in Reasons, Stop(r)
    PROVE  WatchdogType' /\ wd'.pc = "drain" /\ wd'.why = r /\ wd'.fast = wd.fast
BY DEF WatchdogType, WatchdogPlaces, Reasons, Stop

LEMMA Counts ==
    ASSUME WatchdogType, NEW n \in 0..MaxFast, NEW p \in WatchdogPlaces, NEW r \in Reasons,
           wd' = [wd EXCEPT !.fast = n, !.pc = p, !.why = r]
    PROVE  WatchdogType' /\ wd'.pc = p /\ wd'.why = r /\ wd'.fast = n
BY DEF WatchdogType, WatchdogPlaces, Reasons

LEMMA Unchanged ==
    /\ SlotType /\ UNCHANGED slot => SlotType'
    /\ LoadType /\ UNCHANGED load => LoadType'
    /\ WatchdogType /\ UNCHANGED wd => WatchdogType'
<1>1. SlotType /\ UNCHANGED slot => SlotType'
  BY DEF SlotType
<1>2. LoadType /\ UNCHANGED load => LoadType'
  BY DEF LoadType
<1>3. WatchdogType /\ UNCHANGED wd => WatchdogType'
  BY DEF WatchdogType
<1> QED
  BY <1>1, <1>2, <1>3

LEMMA InitInv == Init => IInv
<1> SUFFICES ASSUME Init PROVE IInv
  OBVIOUS
<1> USE DEF Init
<1>1. TypeOK
  <2>1. SlotType /\ LoadType
    BY DEF SlotType, LoadType, Empty, Places, Results
  <2>2. WatchdogType
    BY SupervisorAssumption
    DEF SupervisorAssumption, WatchdogType, NoWatchdog, WatchdogPlaces, Reasons
  <2>3. FlagTypes
    BY DEF FlagTypes
  <2> QED
    BY <2>1, <2>2, <2>3, SupervisorAssumption DEF SupervisorAssumption, TypeOK
<1>2. \A l \in Loads : load[l].pc = "idle"
  OBVIOUS
<1>3. wd.pc = "none" /\ wd.why = "none" /\ slot.state = "empty"
  BY DEF NoWatchdog, Empty
<1>4. Place /\ One /\ Bare /\ Attached
  BY <1>2, <1>3 DEF Place, One, Bare, Attached, Loading, Waiting
<1>5. File /\ Streak
  BY <1>3 DEF File, Streak
<1>6. Watched
  BY <1>3 DEF Watched, Alive
<1>7. Down
  BY <1>2 DEF Down, InFlight
<1> QED
  BY <1>1, <1>4, <1>5, <1>6, <1>7 DEF IInv

-----------------------------------------------------------------------------
(* Steps. *)

LEMMA DeclareKeeps ==
    ASSUME IInv, NEW l \in Loads, Declare(l)
    PROVE  IInv'
<1> USE DEF attach, region, process, watchdog
<1>1. /\ load[l].pc = "idle"
      /\ owner = "up"
      /\ bus' = TRUE
      /\ UNCHANGED <<slot, pending, early, stamp, status, control, shm, child, young, deaths,
                     wd, plugin, shutdown, owner>>
  BY DEF Declare
<1>2. At(l, "claim") /\ LoadType'
  <2>1. PICK p \in Plugins : load' = [load EXCEPT ![l] = [load[l] EXCEPT !.pc = "claim", !.plugin = p]]
    BY DEF Declare
  <2>2. load[l] \in [pc : Places, plugin : Plugins \cup {"none"}, result : Results]
    BY DEF IInv, TypeOK, LoadType
  <2>3. /\ [load[l] EXCEPT !.pc = "claim", !.plugin = p]
             \in [pc : Places, plugin : Plugins \cup {"none"}, result : Results]
        /\ [load[l] EXCEPT !.pc = "claim", !.plugin = p].pc = "claim"
    BY <2>1, <2>2 DEF Places
  <2> QED
    BY <2>1, <2>3 DEF IInv, TypeOK, LoadType, At
<1>3. TypeOK'
  BY <1>1, <1>2, Unchanged DEF IInv, TypeOK, FlagTypes
<1>4. Place' /\ One'
  BY <1>1, <1>2 DEF IInv, At, Place, One, Loading, Waiting
<1>5. Bare' /\ File'
  BY <1>1, <1>2 DEF IInv, At, Place, One, Bare, File, Loading, Waiting
<1>6. Watched'
  BY <1>1, <1>2 DEF IInv, At, Place, Watched, Alive, Loading, Waiting
<1>7. Streak'
  BY <1>1, <1>2 DEF IInv, Streak, Watched, Place, Loading, Waiting
<1>8. Down'
  BY <1>1, <1>2 DEF IInv, At, Bare, Down, InFlight, Loading, Waiting
<1>9. Attached'
  BY <1>1, <1>2 DEF IInv, At, Place, One, Attached, Watched, Loading, Waiting
<1> QED
  BY <1>3, <1>4, <1>5, <1>6, <1>7, <1>8, <1>9 DEF IInv

LEMMA ClaimKeeps ==
    ASSUME IInv, NEW l \in Loads, Claim(l)
    PROVE  IInv'
<1> USE DEF attach, region, process, watchdog
<1>1. /\ load[l].pc = "claim"
      /\ UNCHANGED <<bus, pending, early, stamp, status, control, shm, child, young, deaths, wd,
                     plugin, shutdown, owner>>
  BY DEF Claim, Claimable
<1>2. (\E r \in Results : Finish(l, r)) => At(l, "done") /\ LoadType'
  BY Finishes DEF IInv, TypeOK, Places, Waiting
<1>3. Fail(l) => At(l, "rollback") /\ LoadType'
  BY Fails DEF IInv, TypeOK, Places, Waiting
<1>4. Goto(l, "open") => At(l, "open") /\ LoadType'
  BY GoesTo DEF IInv, TypeOK, Places, Waiting
<1>5. /\ LoadType'
      /\ \/ slot' = slot /\ At(l, "done")
         \/ slot' = slot /\ At(l, "rollback")
         \/ slot.state = "empty" /\ slot' = Slot("loading") /\ At(l, "open")
  BY <1>2, <1>3, <1>4 DEF Claim, Results, Claimable
<1>6. TypeOK'
  <2>1. SlotType' /\ WatchdogType'
    BY <1>1, <1>5, SupervisorAssumption
    DEF IInv, TypeOK, SupervisorAssumption, SlotType, LoadType, WatchdogType, WatchdogPlaces,
        Reasons, Slot
  <2>2. FlagTypes'
    BY <1>1, <1>5 DEF IInv, TypeOK, FlagTypes
  <2> QED
    BY <1>1, <1>5, <2>1, <2>2 DEF IInv, TypeOK, LoadType
<1>7. Place' /\ One'
  BY <1>1, <1>5 DEF IInv, At, Place, One, Loading, Waiting, Slot, Down, File, Bare, InFlight
<1>8. Bare' /\ File'
  BY <1>1, <1>5 DEF IInv, At, Place, One, Bare, File, Loading, Waiting
<1>9. Watched'
  BY <1>1, <1>5 DEF IInv, At, Place, Watched, Alive, Loading, Waiting
<1>10. Streak'
  BY <1>1, <1>5 DEF IInv, Streak, Watched, Place, Loading, Waiting
<1>11. Down'
  BY <1>1, <1>5 DEF IInv, At, Bare, Down, InFlight, Loading, Waiting
<1>12. Attached'
  BY <1>1, <1>5 DEF IInv, At, Place, One, Attached, Watched, Loading, Waiting, Slot
<1> QED
  BY <1>6, <1>7, <1>8, <1>9, <1>10, <1>11, <1>12 DEF IInv

LEMMA OpenRegionKeeps ==
    ASSUME IInv, NEW l \in Loads, OpenRegion(l)
    PROVE  IInv'
<1> USE DEF attach, region, process, watchdog
<1>1. /\ load[l].pc = "open"
      /\ slot' = slot \/ slot' = [state |-> "closed", plugin |-> "none"]
      /\ UNCHANGED <<bus, pending, early, stamp, status, control, child, young, deaths, wd,
                     plugin, shutdown, owner>>
  BY DEF OpenRegion, Slot
<1>2. Goto(l, "reset") => At(l, "reset") /\ LoadType'
  BY GoesTo DEF IInv, TypeOK, Places, Waiting
<1>3. Fail(l) => At(l, "rollback") /\ LoadType'
  BY Fails DEF IInv, TypeOK, Places, Waiting
<1>4. /\ LoadType'
      /\ \/ slot' = slot /\ shm' = shm /\ At(l, "reset")
         \/ slot'.state = "closed" /\ shm' = FALSE /\ At(l, "rollback")
  BY <1>2, <1>3 DEF OpenRegion, Results, Slot
<1>5. TypeOK'
  <2>1. SlotType' /\ WatchdogType'
    BY <1>1, <1>4, SupervisorAssumption
    DEF IInv, TypeOK, SupervisorAssumption, SlotType, LoadType, WatchdogType, WatchdogPlaces,
        Reasons, Slot
  <2>2. FlagTypes'
    BY <1>1, <1>4 DEF IInv, TypeOK, FlagTypes
  <2> QED
    BY <1>1, <1>4, <2>1, <2>2 DEF IInv, TypeOK, LoadType
<1>6. Place' /\ One'
  BY <1>1, <1>4 DEF IInv, At, Place, One, Loading, Waiting
<1>7. Bare' /\ File'
  BY <1>1, <1>4 DEF IInv, At, Place, One, Bare, File, Loading, Waiting
<1>8. Watched'
  BY <1>1, <1>4 DEF IInv, At, Place, Watched, Alive, Loading, Waiting
<1>9. Streak'
  BY <1>1, <1>4 DEF IInv, Streak, Watched, Place, Loading, Waiting
<1>10. Down'
  BY <1>1, <1>4 DEF IInv, At, Bare, Down, InFlight, Loading, Waiting
<1>11. Attached'
  BY <1>1, <1>4 DEF IInv, At, Place, One, Attached, Watched, Loading, Waiting
<1> QED
  BY <1>5, <1>6, <1>7, <1>8, <1>9, <1>10, <1>11 DEF IInv

LEMMA ResetRegionKeeps ==
    ASSUME IInv, NEW l \in Loads, ResetRegion(l)
    PROVE  IInv'
<1> USE DEF attach, region, process, watchdog
<1>1. /\ load[l].pc = "reset"
      /\ status' \in {status, "STARTING"}
      /\ UNCHANGED <<slot, bus, pending, early, stamp, control, child, young, deaths, wd,
                     plugin, shutdown, owner>>
  BY DEF ResetRegion
<1>2. Goto(l, "spawn") => At(l, "spawn") /\ LoadType'
  BY GoesTo DEF IInv, TypeOK, Places, Waiting
<1>3. Fail(l) => At(l, "rollback") /\ LoadType'
  BY Fails DEF IInv, TypeOK, Places, Waiting
<1>4. /\ LoadType'
      /\ \/ shm' = shm /\ At(l, "spawn")
         \/ shm' = FALSE /\ At(l, "rollback")
  BY <1>2, <1>3 DEF ResetRegion, Results
<1>5. TypeOK'
  <2>1. SlotType' /\ WatchdogType'
    BY <1>1, <1>4, SupervisorAssumption
    DEF IInv, TypeOK, SupervisorAssumption, SlotType, LoadType, WatchdogType, WatchdogPlaces,
        Reasons, Slot
  <2>2. FlagTypes'
    BY <1>1, <1>4 DEF IInv, TypeOK, FlagTypes
  <2> QED
    BY <1>1, <1>4, <2>1, <2>2 DEF IInv, TypeOK, LoadType
<1>6. Place' /\ One'
  BY <1>1, <1>4 DEF IInv, At, Place, One, Loading, Waiting
<1>7. Bare' /\ File'
  BY <1>1, <1>4 DEF IInv, At, Place, One, Bare, File, Loading, Waiting
<1>8. Watched'
  BY <1>1, <1>4 DEF IInv, At, Place, Watched, Alive, Loading, Waiting
<1>9. Streak'
  BY <1>1, <1>4 DEF IInv, Streak, Watched, Place, Loading, Waiting
<1>10. Down'
  BY <1>1, <1>4 DEF IInv, At, Bare, Down, InFlight, Loading, Waiting
<1>11. Attached'
  BY <1>1, <1>4 DEF IInv, At, Place, One, Attached, Watched, Loading, Waiting
<1> QED
  BY <1>5, <1>6, <1>7, <1>8, <1>9, <1>10, <1>11 DEF IInv

LEMMA SpawnFirstKeeps ==
    ASSUME IInv, NEW l \in Loads, SpawnFirst(l)
    PROVE  IInv'
<1> USE DEF attach, region, process, watchdog
<1>1. /\ load[l].pc = "spawn"
      /\ pending' = TRUE /\ early' = FALSE
      /\ slot' = slot \/ slot' = [state |-> "empty", plugin |-> "none"]
      /\ UNCHANGED <<bus, stamp, status, control, shm, young, deaths, wd, plugin, shutdown,
                     owner>>
  BY DEF SpawnFirst, Empty
<1>2. Goto(l, "supervise") => At(l, "supervise") /\ LoadType'
  BY GoesTo DEF IInv, TypeOK, Places, Waiting
<1>3. Fail(l) => At(l, "rollback") /\ LoadType'
  BY Fails DEF IInv, TypeOK, Places, Waiting
<1>4. /\ LoadType'
      /\ \/ child' = "starting" /\ slot' = slot /\ At(l, "supervise")
         \/ child' = child /\ slot'.state = "empty" /\ At(l, "rollback")
  BY <1>2, <1>3 DEF SpawnFirst, Results, Empty
<1>5. TypeOK'
  <2>1. SlotType' /\ WatchdogType'
    BY <1>1, <1>4, SupervisorAssumption
    DEF IInv, TypeOK, SupervisorAssumption, SlotType, LoadType, WatchdogType, WatchdogPlaces,
        Reasons, Slot
  <2>2. FlagTypes'
    BY <1>1, <1>4 DEF IInv, TypeOK, FlagTypes
  <2> QED
    BY <1>1, <1>4, <2>1, <2>2 DEF IInv, TypeOK, LoadType
<1>6. Place' /\ One'
  BY <1>1, <1>4 DEF IInv, At, Place, One, Loading, Waiting
<1>7. Bare' /\ File'
  BY <1>1, <1>4 DEF IInv, At, Place, One, Bare, File, Loading, Waiting
<1>8. Watched'
  BY <1>1, <1>4 DEF IInv, At, Place, Watched, Alive, Loading, Waiting
<1>9. Streak'
  BY <1>1, <1>4 DEF IInv, Streak, Watched, Place, Loading, Waiting
<1>10. Down'
  BY <1>1, <1>4 DEF IInv, At, Bare, Down, InFlight, Loading, Waiting
<1>11. Attached'
  BY <1>1, <1>4 DEF IInv, At, Place, One, Attached, Watched, Loading, Waiting
<1> QED
  BY <1>5, <1>6, <1>7, <1>8, <1>9, <1>10, <1>11 DEF IInv

LEMMA StartWatchdogKeeps ==
    ASSUME IInv, NEW l \in Loads, StartWatchdog(l)
    PROVE  IInv'
<1> USE DEF attach, region, process, watchdog
<1>1. /\ load[l].pc = "supervise"
      /\ slot' = slot \/ slot' = [state |-> "closed", plugin |-> "none"]
      /\ wd' = wd \/ wd' = [pc |-> "watch", fast |-> 0, why |-> "none"]
      /\ plugin' \in {plugin, load[l].plugin} /\ stamp' \in {stamp, "base", "stale"}
      /\ UNCHANGED <<bus, pending, early, status, control, deaths, owner>>
  BY DEF StartWatchdog, AfterKill, Slot, NoWatchdog
<1>2. Goto(l, "poll") => At(l, "poll") /\ LoadType'
  BY GoesTo DEF IInv, TypeOK, Places, Waiting
<1>3. Fail(l) => At(l, "rollback") /\ LoadType'
  BY Fails DEF IInv, TypeOK, Places, Waiting
<1>4. /\ LoadType'
      /\ \/ /\ At(l, "poll") /\ wd'.pc = "watch" /\ wd'.fast = 0 /\ wd'.why = "none" /\ young' = 0
            /\ shutdown' = FALSE /\ UNCHANGED <<slot, shm, child>>
         \/ /\ At(l, "rollback") /\ slot'.state = "closed" /\ child' = "none" /\ shm' = FALSE
            /\ UNCHANGED <<wd, shutdown, young>>
  BY <1>2, <1>3 DEF StartWatchdog, Results, AfterKill, Slot, NoWatchdog
<1>5. TypeOK'
  <2>1. SlotType' /\ WatchdogType'
    BY <1>1, <1>4, SupervisorAssumption
    DEF IInv, TypeOK, SupervisorAssumption, SlotType, LoadType, WatchdogType, WatchdogPlaces,
        Reasons, Slot
  <2>2. FlagTypes'
    BY <1>1, <1>4 DEF IInv, TypeOK, FlagTypes
  <2> QED
    BY <1>1, <1>4, <2>1, <2>2 DEF IInv, TypeOK, LoadType
<1>6. Place' /\ One'
  BY <1>1, <1>4 DEF IInv, At, Place, One, Loading, Waiting
<1>7. Bare' /\ File'
  BY <1>1, <1>4 DEF IInv, At, Place, One, Bare, File, Loading, Waiting
<1>8. Watched'
  BY <1>1, <1>4 DEF IInv, At, Place, Watched, Alive, Loading, Waiting
<1>9. Streak'
  BY <1>1, <1>4, SupervisorAssumption
  DEF IInv, Streak, Watched, Place, Loading, Waiting, SupervisorAssumption
<1>10. Down'
  BY <1>1, <1>4 DEF IInv, At, Bare, Down, InFlight, Loading, Waiting
<1>11. Attached'
  BY <1>1, <1>4 DEF IInv, At, Place, One, Attached, Watched, Loading, Waiting
<1> QED
  BY <1>5, <1>6, <1>7, <1>8, <1>9, <1>10, <1>11 DEF IInv

LEMMA PollReadyKeeps ==
    ASSUME IInv, NEW l \in Loads, PollReady(l)
    PROVE  IInv'
<1> USE DEF attach, region, process, watchdog
<1>1. /\ load[l].pc = "poll"
      /\ UNCHANGED <<slot, bus, pending, early, stamp, status, control, shm, child, young,
                     deaths, wd, plugin, shutdown, owner>>
  BY DEF PollReady, GivesUp
<1>2. Goto(l, "seen") => At(l, "seen") /\ LoadType'
  BY GoesTo DEF IInv, TypeOK, Places, Waiting
<1>3. Goto(l, "detach") => At(l, "detach") /\ LoadType'
  BY GoesTo DEF IInv, TypeOK, Places, Waiting
<1>4. /\ LoadType'
      /\ \/ status = "READY" /\ At(l, "seen")
         \/ At(l, "detach")
  BY <1>2, <1>3 DEF PollReady, Results, GivesUp
<1>5. TypeOK'
  BY <1>1, <1>4, Unchanged DEF IInv, TypeOK, FlagTypes
<1>6. Place' /\ One'
  BY <1>1, <1>4 DEF IInv, At, Place, One, Loading, Waiting
<1>7. Bare' /\ File'
  BY <1>1, <1>4 DEF IInv, At, Place, One, Bare, File, Loading, Waiting
<1>8. Watched'
  BY <1>1, <1>4 DEF IInv, At, Place, Watched, Alive, Loading, Waiting
<1>9. Streak'
  BY <1>1, <1>4 DEF IInv, Streak, Watched, Place, Loading, Waiting
<1>10. Down'
  BY <1>1, <1>4 DEF IInv, At, Bare, Down, InFlight, Loading, Waiting
<1>11. Attached'
  BY <1>1, <1>4 DEF IInv, At, Place, One, Attached, Watched, Loading, Waiting
<1> QED
  BY <1>5, <1>6, <1>7, <1>8, <1>9, <1>10, <1>11 DEF IInv

LEMMA ClearPendingKeeps ==
    ASSUME IInv, NEW l \in Loads, ClearPending(l)
    PROVE  IInv'
<1> USE DEF attach, region, process, watchdog
<1>1. /\ load[l].pc = "seen"
      /\ pending' = FALSE
      /\ UNCHANGED <<slot, bus, early, stamp, status, control, shm, child, young, deaths, wd,
                     plugin, shutdown, owner>>
  BY DEF ClearPending
<1>2. Goto(l, "activate") => At(l, "activate") /\ LoadType'
  BY GoesTo DEF IInv, TypeOK, Places, Waiting
<1>3. /\ LoadType'
      /\ At(l, "activate")
  BY <1>2 DEF ClearPending, Results
<1>4. TypeOK'
  <2>1. FlagTypes'
    BY <1>1, <1>3 DEF IInv, TypeOK, FlagTypes
  <2> QED
    BY <1>1, <1>3, <2>1, Unchanged DEF IInv, TypeOK
<1>5. Place' /\ One'
  BY <1>1, <1>3 DEF IInv, At, Place, One, Loading, Waiting
<1>6. Bare' /\ File'
  BY <1>1, <1>3 DEF IInv, At, Place, One, Bare, File, Loading, Waiting
<1>7. Watched'
  BY <1>1, <1>3 DEF IInv, At, Place, Watched, Alive, Loading, Waiting
<1>8. Streak'
  BY <1>1, <1>3 DEF IInv, Streak, Watched, Place, Loading, Waiting
<1>9. Down'
  BY <1>1, <1>3 DEF IInv, At, Bare, Down, InFlight, Loading, Waiting
<1>10. Attached'
  BY <1>1, <1>3 DEF IInv, At, Place, One, Attached, Watched, Loading, Waiting
<1> QED
  BY <1>4, <1>5, <1>6, <1>7, <1>8, <1>9, <1>10 DEF IInv

LEMMA ActivateKeeps ==
    ASSUME IInv, NEW l \in Loads, Activate(l)
    PROVE  IInv'
<1> USE DEF attach, region, process, watchdog
<1>1. /\ load[l].pc = "activate"
      /\ slot' = [state |-> "active", plugin |-> load[l].plugin]
      /\ UNCHANGED <<bus, pending, early, stamp, status, control, shm, child, young, deaths, wd,
                     plugin, shutdown, owner>>
  BY DEF Activate, FileAfterAttach
<1>2. (\E r \in Results : Finish(l, r)) => At(l, "done") /\ LoadType'
  BY Finishes DEF IInv, TypeOK, Places, Waiting
<1>3. /\ LoadType'
      /\ slot'.state = "active" /\ At(l, "done")
  BY <1>2 DEF Activate, Results, FileAfterAttach
<1>4. TypeOK'
  <2>1. SlotType' /\ WatchdogType'
    BY <1>1, <1>3, SupervisorAssumption
    DEF IInv, TypeOK, SupervisorAssumption, SlotType, LoadType, WatchdogType, WatchdogPlaces,
        Reasons, Slot
  <2>2. FlagTypes'
    BY <1>1, <1>3 DEF IInv, TypeOK, FlagTypes
  <2> QED
    BY <1>1, <1>3, <2>1, <2>2 DEF IInv, TypeOK, LoadType
<1>5. Place' /\ One'
  BY <1>1, <1>3 DEF IInv, At, Place, One, Loading, Waiting
<1>6. Bare' /\ File'
  BY <1>1, <1>3 DEF IInv, At, Place, One, Bare, File, Loading, Waiting
<1>7. Watched'
  BY <1>1, <1>3 DEF IInv, At, Place, Watched, Alive, Loading, Waiting
<1>8. Streak'
  BY <1>1, <1>3 DEF IInv, Streak, Watched, Place, Loading, Waiting
<1>9. Down'
  BY <1>1, <1>3 DEF IInv, At, Bare, Down, InFlight, Loading, Waiting
<1>10. Attached'
  BY <1>1, <1>3 DEF IInv, At, Place, One, Attached, Watched, Loading, Waiting
<1> QED
  BY <1>4, <1>5, <1>6, <1>7, <1>8, <1>9, <1>10 DEF IInv

LEMMA GiveBackKeeps ==
    ASSUME IInv, NEW l \in Loads, GiveBack(l)
    PROVE  IInv'
<1> USE DEF attach, region, process, watchdog
<1>1. /\ load[l].pc = "detach"
      /\ wd.pc = "done"
      /\ control' = "RUN" /\ shutdown' = FALSE
      /\ wd' = [pc |-> "none", fast |-> 0, why |-> "none"]
      /\ slot' = [state |-> "empty", plugin |-> "none"]
      /\ UNCHANGED <<bus, pending, early, stamp, status, shm, child, young, deaths, plugin,
                     owner>>
  BY DEF GiveBack, Rearmed, NoWatchdog, Empty
<1>2. Fail(l) => At(l, "rollback") /\ LoadType'
  BY Fails DEF IInv, TypeOK, Places, Waiting
<1>3. /\ LoadType'
      /\ wd'.pc = "none" /\ wd'.why = "none" /\ slot'.state = "empty" /\ At(l, "rollback")
  BY <1>2 DEF GiveBack, Results, Rearmed, NoWatchdog, Empty
<1>4. TypeOK'
  <2>1. SlotType' /\ WatchdogType'
    BY <1>1, <1>3, SupervisorAssumption
    DEF IInv, TypeOK, SupervisorAssumption, SlotType, LoadType, WatchdogType, WatchdogPlaces,
        Reasons, Slot
  <2>2. FlagTypes'
    BY <1>1, <1>3 DEF IInv, TypeOK, FlagTypes
  <2> QED
    BY <1>1, <1>3, <2>1, <2>2 DEF IInv, TypeOK, LoadType
<1>5. Place' /\ One'
  BY <1>1, <1>3 DEF IInv, At, Place, One, Loading, Waiting
<1>6. Bare' /\ File'
  BY <1>1, <1>3 DEF IInv, At, Place, One, Bare, File, Loading, Waiting, Watched
<1>7. Watched'
  BY <1>1, <1>3 DEF IInv, At, Place, Watched, Alive, Loading, Waiting
<1>8. Streak'
  BY <1>1, <1>3 DEF IInv, Streak, Watched, Place, Loading, Waiting
<1>9. Down'
  BY <1>1, <1>3 DEF IInv, At, Bare, Down, InFlight, Loading, Waiting
<1>10. Attached'
  BY <1>1, <1>3 DEF IInv, At, Place, One, Attached, Watched, Loading, Waiting
<1> QED
  BY <1>4, <1>5, <1>6, <1>7, <1>8, <1>9, <1>10 DEF IInv

LEMMA RollbackKeeps ==
    ASSUME IInv, NEW l \in Loads, Rollback(l)
    PROVE  IInv'
<1> USE DEF attach, region, process, watchdog
<1>1. /\ load[l].pc = "rollback"
      /\ bus' = FALSE
      /\ UNCHANGED <<slot, pending, early, stamp, status, control, shm, child, young, deaths,
                     wd, plugin, shutdown, owner>>
  BY DEF Rollback
<1>2. Goto(l, "done") => At(l, "done") /\ LoadType'
  BY GoesTo DEF IInv, TypeOK, Places, Waiting
<1>3. /\ LoadType'
      /\ At(l, "done")
  BY <1>2 DEF Rollback, Results
<1>4. TypeOK'
  <2>1. FlagTypes'
    BY <1>1, <1>3 DEF IInv, TypeOK, FlagTypes
  <2> QED
    BY <1>1, <1>3, <2>1, Unchanged DEF IInv, TypeOK
<1>5. Place' /\ One'
  BY <1>1, <1>3 DEF IInv, At, Place, One, Loading, Waiting
<1>6. Bare' /\ File'
  BY <1>1, <1>3 DEF IInv, At, Place, One, Bare, File, Loading, Waiting
<1>7. Watched'
  BY <1>1, <1>3 DEF IInv, At, Place, Watched, Alive, Loading, Waiting
<1>8. Streak'
  BY <1>1, <1>3 DEF IInv, Streak, Watched, Place, Loading, Waiting
<1>9. Down'
  BY <1>1, <1>3 DEF IInv, At, Bare, Down, InFlight, Loading, Waiting
<1>10. Attached'
  BY <1>1, <1>3 DEF IInv, At, Place, One, Attached, Watched, Loading, Waiting
<1> QED
  BY <1>4, <1>5, <1>6, <1>7, <1>8, <1>9, <1>10 DEF IInv

LEMMA DetachKeeps ==
    ASSUME IInv, NEW l \in Loads, Detach(l)
    PROVE  IInv'
<1> USE DEF attach, region, process, watchdog
<1>1. /\ load[l].pc = "detach"
      /\ shutdown' = TRUE
      /\ UNCHANGED load
      /\ UNCHANGED <<slot, bus, pending, early, stamp, status, control, shm, child, young,
                     deaths, wd, plugin, owner>>
  BY DEF Detach
<1>2. TypeOK'
  BY <1>1, Unchanged DEF IInv, TypeOK, FlagTypes
<1>3. Place' /\ One'
  BY <1>1 DEF IInv, At, Place, One, Loading, Waiting
<1>4. Bare' /\ File'
  BY <1>1 DEF IInv, At, Place, One, Bare, File, Loading, Waiting
<1>5. Watched'
  BY <1>1 DEF IInv, At, Place, Watched, Alive, Loading, Waiting
<1>6. Streak'
  BY <1>1 DEF IInv, Streak, Watched, Place, Loading, Waiting
<1>7. Down'
  BY <1>1 DEF IInv, At, Bare, Down, InFlight, Loading, Waiting
<1>8. Attached'
  BY <1>1 DEF IInv, At, Place, One, Attached, Watched, Loading, Waiting
<1> QED
  BY <1>2, <1>3, <1>4, <1>5, <1>6, <1>7, <1>8 DEF IInv

LEMMA PublishKeeps ==
    ASSUME IInv, Publish
    PROVE  IInv'
<1> USE DEF attach, region, process, watchdog
<1>1. /\ child = "starting"
      /\ child' = "running" /\ status' = "READY"
      /\ UNCHANGED load
      /\ UNCHANGED <<slot, bus, pending, early, stamp, control, shm, young, deaths, wd, plugin,
                     shutdown, owner>>
  BY DEF Publish
<1>2. TypeOK'
  BY <1>1, Unchanged DEF IInv, TypeOK, FlagTypes
<1>3. Place' /\ One'
  BY <1>1 DEF IInv, At, Place, One, Loading, Waiting
<1>4. Bare' /\ File'
  BY <1>1 DEF IInv, At, Place, One, Bare, File, Loading, Waiting
<1>5. Watched'
  BY <1>1 DEF IInv, At, Place, Watched, Alive, Loading, Waiting
<1>6. Streak'
  BY <1>1 DEF IInv, Streak, Watched, Place, Loading, Waiting
<1>7. Down'
  BY <1>1 DEF IInv, At, Bare, Down, InFlight, Loading, Waiting
<1>8. Attached'
  BY <1>1 DEF IInv, At, Place, One, Attached, Watched, Loading, Waiting
<1> QED
  BY <1>2, <1>3, <1>4, <1>5, <1>6, <1>7, <1>8 DEF IInv

LEMMA DieKeeps ==
    ASSUME IInv, Die
    PROVE  IInv'
<1> USE DEF attach, region, process, watchdog
<1>1. /\ child \in {"starting", "running"} /\ deaths < MaxDeaths
      /\ child' = "exited" /\ deaths' = deaths + 1
      /\ UNCHANGED load
      /\ UNCHANGED <<slot, bus, pending, early, stamp, status, control, shm, young, wd, plugin,
                     shutdown, owner>>
  BY DEF Die, Alive
<1>2. TypeOK'
  BY <1>1, SupervisorAssumption
  DEF IInv, TypeOK, SlotType, LoadType, WatchdogType, FlagTypes, SupervisorAssumption
<1>3. Place' /\ One'
  BY <1>1 DEF IInv, At, Place, One, Loading, Waiting
<1>4. Bare' /\ File'
  BY <1>1 DEF IInv, At, Place, One, Bare, File, Loading, Waiting
<1>5. Watched'
  BY <1>1 DEF IInv, At, Place, Watched, Alive, Loading, Waiting
<1>6. Streak'
  BY <1>1 DEF IInv, Streak, Watched, Place, Loading, Waiting
<1>7. Down'
  BY <1>1 DEF IInv, At, Bare, Down, InFlight, Loading, Waiting
<1>8. Attached'
  BY <1>1 DEF IInv, At, Place, One, Attached, Watched, Loading, Waiting
<1> QED
  BY <1>2, <1>3, <1>4, <1>5, <1>6, <1>7, <1>8 DEF IInv

LEMMA ObeyQuitKeeps ==
    ASSUME IInv, ObeyQuit
    PROVE  IInv'
<1> USE DEF attach, region, process, watchdog
<1>1. /\ child \in {"starting", "running"} /\ control = "QUIT"
      /\ child' = "exited"
      /\ UNCHANGED load
      /\ UNCHANGED <<slot, bus, pending, early, stamp, status, control, shm, young, deaths, wd,
                     plugin, shutdown, owner>>
  BY DEF ObeyQuit, Alive
<1>2. TypeOK'
  BY <1>1, Unchanged DEF IInv, TypeOK, FlagTypes
<1>3. Place' /\ One'
  BY <1>1 DEF IInv, At, Place, One, Loading, Waiting
<1>4. Bare' /\ File'
  BY <1>1 DEF IInv, At, Place, One, Bare, File, Loading, Waiting
<1>5. Watched'
  BY <1>1 DEF IInv, At, Place, Watched, Alive, Loading, Waiting
<1>6. Streak'
  BY <1>1 DEF IInv, Streak, Watched, Place, Loading, Waiting
<1>7. Down'
  BY <1>1 DEF IInv, At, Bare, Down, InFlight, Loading, Waiting
<1>8. Attached'
  BY <1>1 DEF IInv, At, Place, One, Attached, Watched, Loading, Waiting
<1> QED
  BY <1>2, <1>3, <1>4, <1>5, <1>6, <1>7, <1>8 DEF IInv

LEMMA SeeShutdownKeeps ==
    ASSUME IInv, SeeShutdown
    PROVE  IInv'
<1> USE DEF attach, region, process, watchdog
<1>1. /\ wd.pc = "watch" /\ shutdown
      /\ UNCHANGED load
      /\ UNCHANGED <<slot, bus, pending, early, stamp, status, control, shm, child, young,
                     deaths, plugin, shutdown, owner>>
  BY DEF SeeShutdown, MustStop
<1>2. WatchdogType' /\ wd'.pc = "drain" /\ wd'.why = "shutdown" /\ wd'.fast = wd.fast
  BY Walks, Stops DEF IInv, TypeOK, WatchdogPlaces, Reasons, SeeShutdown, MustStop
<1>3. TypeOK'
  BY <1>1, <1>2, Unchanged DEF IInv, TypeOK, FlagTypes
<1>4. Place' /\ One'
  BY <1>1, <1>2 DEF IInv, At, Place, One, Loading, Waiting
<1>5. Bare' /\ File'
  BY <1>1, <1>2 DEF IInv, At, Place, One, Bare, File, Loading, Waiting
<1>6. Watched'
  BY <1>1, <1>2 DEF IInv, At, Place, Watched, Alive, Loading, Waiting
<1>7. Streak'
  BY <1>1, <1>2 DEF IInv, Streak, Watched, Place, Loading, Waiting
<1>8. Down'
  BY <1>1, <1>2 DEF IInv, At, Bare, Down, InFlight, Loading, Waiting
<1>9. Attached'
  BY <1>1, <1>2 DEF IInv, At, Place, One, Attached, Watched, Loading, Waiting
<1> QED
  BY <1>3, <1>4, <1>5, <1>6, <1>7, <1>8, <1>9 DEF IInv

LEMMA SeeExitKeeps ==
    ASSUME IInv, SeeExit
    PROVE  IInv'
<1> USE DEF attach, region, process, watchdog
<1>1. /\ wd.pc = "watch" /\ child = "exited"
      /\ UNCHANGED load
      /\ UNCHANGED <<slot, bus, pending, early, stamp, status, control, shm, child, young,
                     deaths, plugin, shutdown, owner>>
  BY DEF SeeExit, MustStop
<1>2. WatchdogType' /\ wd'.pc = "judge" /\ wd'.why = wd.why /\ wd'.fast = wd.fast
  BY Walks, Stops DEF IInv, TypeOK, WatchdogPlaces, Reasons, SeeExit, MustStop
<1>3. TypeOK'
  BY <1>1, <1>2, Unchanged DEF IInv, TypeOK, FlagTypes
<1>4. Place' /\ One'
  BY <1>1, <1>2 DEF IInv, At, Place, One, Loading, Waiting
<1>5. Bare' /\ File'
  BY <1>1, <1>2 DEF IInv, At, Place, One, Bare, File, Loading, Waiting
<1>6. Watched'
  BY <1>1, <1>2 DEF IInv, At, Place, Watched, Alive, Loading, Waiting
<1>7. Streak'
  BY <1>1, <1>2 DEF IInv, Streak, Watched, Place, Loading, Waiting
<1>8. Down'
  BY <1>1, <1>2 DEF IInv, At, Bare, Down, InFlight, Loading, Waiting
<1>9. Attached'
  BY <1>1, <1>2 DEF IInv, At, Place, One, Attached, Watched, Loading, Waiting
<1> QED
  BY <1>3, <1>4, <1>5, <1>6, <1>7, <1>8, <1>9 DEF IInv

LEMMA LoseChildKeeps ==
    ASSUME IInv, LoseChild
    PROVE  IInv'
<1> USE DEF attach, region, process, watchdog
<1>1. /\ wd.pc = "watch"
      /\ UNCHANGED load
      /\ UNCHANGED <<slot, bus, pending, early, stamp, status, control, shm, child, young,
                     deaths, plugin, shutdown, owner>>
  BY DEF LoseChild
<1>2. WatchdogType' /\ wd'.pc = "drain" /\ wd'.why = "wait" /\ wd'.fast = wd.fast
  BY Walks, Stops DEF IInv, TypeOK, WatchdogPlaces, Reasons, LoseChild
<1>3. TypeOK'
  BY <1>1, <1>2, Unchanged DEF IInv, TypeOK, FlagTypes
<1>4. Place' /\ One'
  BY <1>1, <1>2 DEF IInv, At, Place, One, Loading, Waiting
<1>5. Bare' /\ File'
  BY <1>1, <1>2 DEF IInv, At, Place, One, Bare, File, Loading, Waiting
<1>6. Watched'
  BY <1>1, <1>2 DEF IInv, At, Place, Watched, Alive, Loading, Waiting
<1>7. Streak'
  BY <1>1, <1>2 DEF IInv, Streak, Watched, Place, Loading, Waiting
<1>8. Down'
  BY <1>1, <1>2 DEF IInv, At, Bare, Down, InFlight, Loading, Waiting
<1>9. Attached'
  BY <1>1, <1>2 DEF IInv, At, Place, One, Attached, Watched, Loading, Waiting
<1> QED
  BY <1>3, <1>4, <1>5, <1>6, <1>7, <1>8, <1>9 DEF IInv

LEMMA QuitKeeps ==
    ASSUME IInv, Quit
    PROVE  IInv'
<1> USE DEF attach, region, process, watchdog
<1>1. /\ wd.pc = "drain"
      /\ control' = "QUIT"
      /\ UNCHANGED load
      /\ UNCHANGED <<slot, bus, pending, early, stamp, status, shm, child, young, deaths,
                     plugin, shutdown, owner>>
  BY DEF Quit
<1>2. WatchdogType' /\ wd'.pc = "reap" /\ wd'.why = wd.why /\ wd'.fast = wd.fast
  BY Walks, Stops DEF IInv, TypeOK, WatchdogPlaces, Reasons, Quit
<1>3. TypeOK'
  BY <1>1, <1>2, Unchanged DEF IInv, TypeOK, FlagTypes
<1>4. Place' /\ One'
  BY <1>1, <1>2 DEF IInv, At, Place, One, Loading, Waiting
<1>5. Bare' /\ File'
  BY <1>1, <1>2 DEF IInv, At, Place, One, Bare, File, Loading, Waiting
<1>6. Watched'
  BY <1>1, <1>2 DEF IInv, At, Place, Watched, Alive, Loading, Waiting
<1>7. Streak'
  BY <1>1, <1>2 DEF IInv, Streak, Watched, Place, Loading, Waiting
<1>8. Down'
  BY <1>1, <1>2 DEF IInv, At, Bare, Down, InFlight, Loading, Waiting
<1>9. Attached'
  BY <1>1, <1>2 DEF IInv, At, Place, One, Attached, Watched, Loading, Waiting
<1> QED
  BY <1>3, <1>4, <1>5, <1>6, <1>7, <1>8, <1>9 DEF IInv

LEMMA ReapKeeps ==
    ASSUME IInv, Reap
    PROVE  IInv'
<1> USE DEF attach, region, process, watchdog
<1>1. /\ wd.pc = "reap"
      /\ child' = "none"
      /\ UNCHANGED load
      /\ UNCHANGED <<slot, bus, pending, early, stamp, status, control, shm, young, deaths,
                     plugin, shutdown, owner>>
  BY DEF Reap
<1>2. WatchdogType' /\ wd'.pc = "done" /\ wd'.why = wd.why /\ wd'.fast = wd.fast
  BY Walks, Stops DEF IInv, TypeOK, WatchdogPlaces, Reasons, Reap
<1>3. TypeOK'
  BY <1>1, <1>2, Unchanged DEF IInv, TypeOK, FlagTypes
<1>4. Place' /\ One'
  BY <1>1, <1>2 DEF IInv, At, Place, One, Loading, Waiting
<1>5. Bare' /\ File'
  BY <1>1, <1>2 DEF IInv, At, Place, One, Bare, File, Loading, Waiting
<1>6. Watched'
  BY <1>1, <1>2 DEF IInv, At, Place, Watched, Alive, Loading, Waiting
<1>7. Streak'
  BY <1>1, <1>2 DEF IInv, Streak, Watched, Place, Loading, Waiting
<1>8. Down'
  BY <1>1, <1>2 DEF IInv, At, Bare, Down, InFlight, Loading, Waiting
<1>9. Attached'
  BY <1>1, <1>2 DEF IInv, At, Place, One, Attached, Watched, Loading, Waiting
<1> QED
  BY <1>3, <1>4, <1>5, <1>6, <1>7, <1>8, <1>9 DEF IInv

LEMMA ResetForRespawnKeeps ==
    ASSUME IInv, ResetForRespawn
    PROVE  IInv'
<1> USE DEF attach, region, process, watchdog
<1>1. /\ wd.pc = "reset"
      /\ status' \in {status, "STARTING"}
      /\ UNCHANGED load
      /\ UNCHANGED <<slot, bus, pending, early, stamp, control, shm, child, young, deaths,
                     plugin, shutdown, owner>>
  BY DEF ResetForRespawn
<1>2. /\ WatchdogType' /\ wd'.fast = wd.fast
      /\ \/ wd'.pc = "respawn" /\ wd'.why = wd.why
         \/ wd'.pc = "drain" /\ wd'.why = "reset"
  BY Walks, Stops DEF IInv, TypeOK, WatchdogPlaces, Reasons, ResetForRespawn
<1>3. TypeOK'
  BY <1>1, <1>2, Unchanged DEF IInv, TypeOK, FlagTypes
<1>4. Place' /\ One'
  BY <1>1, <1>2 DEF IInv, At, Place, One, Loading, Waiting
<1>5. Bare' /\ File'
  BY <1>1, <1>2 DEF IInv, At, Place, One, Bare, File, Loading, Waiting
<1>6. Watched'
  BY <1>1, <1>2 DEF IInv, At, Place, Watched, Alive, Loading, Waiting
<1>7. Streak'
  BY <1>1, <1>2 DEF IInv, Streak, Watched, Place, Loading, Waiting
<1>8. Down'
  BY <1>1, <1>2 DEF IInv, At, Bare, Down, InFlight, Loading, Waiting
<1>9. Attached'
  BY <1>1, <1>2 DEF IInv, At, Place, One, Attached, Watched, Loading, Waiting
<1> QED
  BY <1>3, <1>4, <1>5, <1>6, <1>7, <1>8, <1>9 DEF IInv

LEMMA RespawnKeeps ==
    ASSUME IInv, Respawn
    PROVE  IInv'
<1> USE DEF attach, region, process, watchdog
<1>1. /\ wd.pc = "respawn"
      /\ Prompt => \A l \in Loads : load[l].pc # "seen"
      /\ stamp' \in {stamp, "own"}
      /\ UNCHANGED load
      /\ UNCHANGED <<slot, bus, pending, early, status, control, shm, young, deaths, plugin,
                     shutdown, owner>>
  BY DEF Respawn
<1>2. /\ WatchdogType' /\ wd'.fast = wd.fast
      /\ \/ child' = "starting" /\ wd'.pc = "watch" /\ wd'.why = wd.why
         \/ child' = child /\ wd'.pc = "drain" /\ wd'.why = "spawn"
  BY Walks, Stops DEF IInv, TypeOK, WatchdogPlaces, Reasons, Respawn
<1>3. TypeOK'
  BY <1>1, <1>2, Unchanged DEF IInv, TypeOK, FlagTypes
<1>4. Place' /\ One'
  BY <1>1, <1>2 DEF IInv, At, Place, One, Loading, Waiting
<1>5. Bare' /\ File'
  BY <1>1, <1>2 DEF IInv, At, Place, One, Bare, File, Loading, Waiting
<1>6. Watched'
  BY <1>1, <1>2 DEF IInv, At, Place, Watched, Alive, Loading, Waiting
<1>7. Streak'
  BY <1>1, <1>2 DEF IInv, Streak, Watched, Place, Loading, Waiting
<1>8. Down'
  BY <1>1, <1>2 DEF IInv, At, Bare, Down, InFlight, Loading, Waiting
<1>9. Attached'
  BY <1>1, <1>2 DEF IInv, At, Place, One, Attached, Watched, Loading, Waiting
<1> QED
  BY <1>3, <1>4, <1>5, <1>6, <1>7, <1>8, <1>9 DEF IInv

LEMMA JudgeKeeps ==
    ASSUME IInv, Judge
    PROVE  IInv'
<1> USE DEF attach, region, process, watchdog
<1>1. /\ wd.pc = "judge"
      /\ early' \in {early, TRUE}
      /\ UNCHANGED load
      /\ UNCHANGED <<slot, bus, pending, stamp, status, control, shm, child, deaths, plugin,
                     shutdown, owner>>
  BY DEF Judge
<1>2. /\ WatchdogType' /\ young' \in Nat
      /\ \/ /\ wd'.pc = "drain" /\ wd'.why = "early" /\ DiedEarly
            /\ wd'.fast = wd.fast /\ young' = young
         \/ /\ wd'.pc = "drain" /\ wd'.why = "fast" /\ young' <= wd'.fast
         \/ /\ wd'.pc = "reset" /\ wd'.why = wd.why /\ young' <= wd'.fast
            /\ wd'.fast < MaxFast
  <2>1. CASE DiedEarly /\ Stop("early") /\ UNCHANGED young
    BY <2>1, Stops DEF IInv, TypeOK, Reasons
  <2>2. CASE ~(DiedEarly /\ Stop("early") /\ UNCHANGED young)
    <3>1. PICK long \in BOOLEAN : \E measured \in IF stamp = "stale" THEN {FALSE, long} ELSE {long} :
             /\ young' = IF long THEN 0 ELSE young + 1
             /\ wd' = [wd EXCEPT !.fast = NextStreak(measured),
                                 !.pc = IF TooFast(NextStreak(measured)) THEN "drain" ELSE "reset",
                                 !.why = IF TooFast(NextStreak(measured)) THEN "fast" ELSE wd.why]
      BY <2>2 DEF Judge
    <3>2. PICK measured \in IF stamp = "stale" THEN {FALSE, long} ELSE {long} :
             /\ young' = IF long THEN 0 ELSE young + 1
             /\ wd' = [wd EXCEPT !.fast = NextStreak(measured),
                                 !.pc = IF TooFast(NextStreak(measured)) THEN "drain" ELSE "reset",
                                 !.why = IF TooFast(NextStreak(measured)) THEN "fast" ELSE wd.why]
      BY <3>1
    <3> DEFINE n == NextStreak(measured)
               p == IF TooFast(n) THEN "drain" ELSE "reset"
               r == IF TooFast(n) THEN "fast" ELSE wd.why
    <3>3. wd.fast \in Nat /\ wd.fast < MaxFast /\ young <= wd.fast /\ young \in Nat /\ wd.why = "none"
      BY <1>1 DEF IInv, TypeOK, Streak, Watched, WatchdogType
    <3>4. measured => long
      BY <3>2
    <3>5. n \in 0..MaxFast /\ young' <= n /\ young' \in Nat
      BY <3>2, <3>3, <3>4, SupervisorAssumption DEF NextStreak, SupervisorAssumption
    <3>6. TooFast(n) <=> n >= MaxFast
      BY DEF TooFast
    <3>7. p \in WatchdogPlaces /\ r \in Reasons
      BY <3>3 DEF WatchdogPlaces, Reasons
    <3>8. wd' = [wd EXCEPT !.fast = n, !.pc = p, !.why = r]
      BY <3>2
    <3> HIDE DEF n, p, r
    <3>9. WatchdogType' /\ wd'.pc = p /\ wd'.why = r /\ wd'.fast = n
      BY <3>5, <3>7, <3>8, Counts DEF IInv, TypeOK
    <3> QED
      BY <3>5, <3>6, <3>9, SupervisorAssumption DEF p, r, SupervisorAssumption
  <2> QED
    BY <2>1, <2>2
<1>3. TypeOK'
  <2>1. FlagTypes'
    BY <1>1, <1>2 DEF IInv, TypeOK, FlagTypes
  <2> QED
    BY <1>1, <1>2, <2>1, Unchanged DEF IInv, TypeOK
<1>4. Place' /\ One'
  BY <1>1, <1>2 DEF IInv, Place, One, Loading, Waiting
<1>5. Bare' /\ File'
  BY <1>1, <1>2 DEF IInv, Place, Bare, File, Loading, Waiting
<1>6. Watched'
  BY <1>1, <1>2 DEF IInv, Watched, DiedEarly, Alive
<1>7. Streak'
  BY <1>1, <1>2 DEF IInv, Streak, Watched
<1>8. Down'
  BY <1>1, <1>2 DEF IInv, Down, InFlight
<1>9. Attached'
  BY <1>1, <1>2 DEF IInv, Attached, DiedEarly, Watched
<1> QED
  BY <1>3, <1>4, <1>5, <1>6, <1>7, <1>8, <1>9 DEF IInv

LEMMA StopStreamKeeps ==
    ASSUME IInv, StopStream
    PROVE  IInv'
<1> USE DEF attach, region, process, watchdog
<1>1. /\ owner = "up" /\ \A l \in Loads : ~InFlight(l)
      /\ owner' = "stopping"
      /\ shutdown' = (slot.state = "active")
      /\ UNCHANGED load
      /\ UNCHANGED <<slot, bus, pending, early, stamp, status, control, shm, child, young,
                     deaths, wd, plugin>>
  BY DEF StopStream
<1>2. TypeOK'
  BY <1>1, Unchanged DEF IInv, TypeOK, FlagTypes
<1>3. Place' /\ One'
  BY <1>1 DEF IInv, At, Place, One, Loading, Waiting, InFlight, Down
<1>4. Bare' /\ File'
  BY <1>1 DEF IInv, At, Place, One, Bare, File, Loading, Waiting
<1>5. Watched'
  BY <1>1 DEF IInv, At, Place, Watched, Alive, Loading, Waiting, InFlight, Bare
<1>6. Streak'
  BY <1>1 DEF IInv, Streak, Watched, Place, Loading, Waiting
<1>7. Down'
  BY <1>1 DEF IInv, At, Bare, Down, InFlight, Loading, Waiting
<1>8. Attached'
  BY <1>1 DEF IInv, At, Place, One, Attached, Watched, Loading, Waiting
<1> QED
  BY <1>2, <1>3, <1>4, <1>5, <1>6, <1>7, <1>8 DEF IInv

LEMMA DropSlotKeeps ==
    ASSUME IInv, DropSlot
    PROVE  IInv'
<1> USE DEF attach, region, process, watchdog
<1>1. /\ owner = "stopping"
      /\ slot.state = "active" => wd.pc = "done"
      /\ owner' = "down" /\ shm' = FALSE
      /\ UNCHANGED load
      /\ UNCHANGED <<slot, bus, pending, early, stamp, status, control, child, young, deaths,
                     wd, plugin, shutdown>>
  BY DEF DropSlot, Joined
<1>2. TypeOK'
  <2>1. FlagTypes'
    BY <1>1 DEF IInv, TypeOK, FlagTypes
  <2> QED
    BY <1>1, <2>1, Unchanged DEF IInv, TypeOK
<1>3. Place' /\ One'
  BY <1>1 DEF IInv, At, Place, One, Loading, Waiting
<1>4. Bare' /\ File'
  BY <1>1 DEF IInv, At, Place, One, Bare, File, Loading, Waiting
<1>5. Watched'
  BY <1>1 DEF IInv, At, Place, Watched, Alive, Loading, Waiting
<1>6. Streak'
  BY <1>1 DEF IInv, Streak, Watched, Place, Loading, Waiting
<1>7. Down'
  BY <1>1 DEF IInv, At, Bare, Down, InFlight, Loading, Waiting, Watched
<1>8. Attached'
  BY <1>1 DEF IInv, At, Place, One, Attached, Watched, Loading, Waiting
<1> QED
  BY <1>2, <1>3, <1>4, <1>5, <1>6, <1>7, <1>8 DEF IInv

-----------------------------------------------------------------------------
LEMMA StepKeeps == IInv /\ [Next]_vars => IInv'
<1> SUFFICES ASSUME IInv, [Next]_vars PROVE IInv'
  OBVIOUS
<1>1. CASE UNCHANGED vars
  <2> USE <1>1 DEF vars, attach, region, process, watchdog
  <2>1. TypeOK' /\ Place' /\ One'
    BY DEF IInv, TypeOK, SlotType, LoadType, WatchdogType, FlagTypes, Place, One, Loading
  <2>2. Attached' /\ Bare' /\ File'
    BY DEF IInv, Attached, Bare, File, Loading
  <2>3. Watched' /\ Streak' /\ Down'
    BY DEF IInv, Watched, Streak, Down, Alive, InFlight
  <2> QED
    BY <2>1, <2>2, <2>3 DEF IInv
<1>2. ASSUME NEW l \in Loads, LoadStep(l) PROVE IInv'
  BY <1>2, DeclareKeeps, ClaimKeeps, OpenRegionKeeps, ResetRegionKeeps, SpawnFirstKeeps,
     StartWatchdogKeeps, PollReadyKeeps, ClearPendingKeeps, ActivateKeeps, DetachKeeps,
     GiveBackKeeps, RollbackKeeps
  DEF LoadStep
<1>3. CASE Publish \/ Die \/ ObeyQuit
  BY <1>3, PublishKeeps, DieKeeps, ObeyQuitKeeps
<1>4. CASE WatchdogStep
  BY <1>4, SeeShutdownKeeps, SeeExitKeeps, LoseChildKeeps, JudgeKeeps, ResetForRespawnKeeps,
     RespawnKeeps, QuitKeeps, ReapKeeps
  DEF WatchdogStep
<1>5. CASE StopStream \/ DropSlot
  BY <1>5, StopStreamKeeps, DropSlotKeeps
<1> QED
  BY <1>1, <1>2, <1>3, <1>4, <1>5 DEF Next

\* Every variable keeps its type; the watchdog's count never passes the limit.
THEOREM TypeCorrect == Spec => []TypeOK
<1>1. IInv => TypeOK
  BY DEF IInv
<1> QED
  BY InitInv, StepKeeps, <1>1, PTL DEF Spec

\* Whatever load, watchdog, child and teardown do to one another, a running child has
\* someone who will reap it, the file is there as long as a child may need it, and after the
\* teardown neither is left.
THEOREM NothingOrphaned == Spec => []Owned
<1>1. IInv => NoOrphan
  BY DEF IInv, NoOrphan, Watched, Alive
<1>2. IInv => NothingLeft /\ FileKept
  BY DEF IInv, NothingLeft, FileKept, Down, File
<1> QED
  BY InitInv, StepKeeps, <1>1, <1>2, PTL DEF Spec, Owned

\* A child that keeps dying young is not started again, even when the clock of its
\* predecessor makes the watchdog count too much.
THEOREM StormEnds == Spec => []NoStorm
<1>1. IInv => NoStorm
  BY SupervisorAssumption DEF IInv, NoStorm, Streak, TypeOK, WatchdogType, SupervisorAssumption
<1> QED
  BY InitInv, StepKeeps, <1>1, PTL DEF Spec

\* When a load that saw READY says so before a replacement is up, an active slot is never
\* left by a watchdog that took the death of its child for a failed attach.
THEOREM Attended == ASSUME Prompt PROVE Spec => []SlotAttended
<1>1. IInv => LoadingHasLoader
  BY DEF IInv, LoadingHasLoader, Place, File, One
<1>2. IInv => ActiveIsSupervised
  BY Prompt DEF IInv, ActiveIsSupervised, Attached
<1>3. IInv => NoStrayQuit
  BY DEF IInv, NoStrayQuit, Watched
<1> QED
  BY InitInv, StepKeeps, <1>1, <1>2, <1>3, PTL DEF Spec, SlotAttended

=============================================================================
