----------------------------- MODULE Supervisor -----------------------------
(***************************************************************************)
(* One plugin slot of the daemon: loading a plugin into it, the watchdog   *)
(* thread that owns its child process, and the teardown of both.           *)
(*                                                                         *)
(* Loads run on session threads.  The slot's mutex protects only the slot  *)
(* word: opening the region, spawning and waiting for READY happen with    *)
(* the slot in "loading" and no lock held, against a watchdog that judges  *)
(* every death of the child by flags the load is about to change.          *)
(***************************************************************************)
EXTENDS Integers, FiniteSets

CONSTANTS
    Loads,         \* LoadPlugin requests, each on a session thread of its own
    Plugins,       \* what they ask for (path, plugin id and state together)
    WrongRole,     \* plugins that publish a role the slot does not take
    MaxFast,       \* MAX_CONSECUTIVE_FAST_RESPAWNS
    MaxDeaths,     \* bound: deaths of children
    Prompt         \* whether a load that saw READY says so before a replacement is up

ASSUME SupervisorAssumption ==
    /\ IsFiniteSet(Loads) /\ IsFiniteSet(Plugins) /\ WrongRole \subseteq Plugins
    /\ MaxFast \in Nat \ {0} /\ MaxDeaths \in Nat
    /\ Prompt \in BOOLEAN

VARIABLES
    slot,      \* ChildSlot: its state, and the plugin of "active"
    bus,       \* the insert bus of the slot is rendered (bus_actives)
    load,      \* each load: its place, its plugin, its outcome
    pending, early, stamp,  \* stats: initial_attach_pending, child_early_exit,
                            \* whose clock last_respawn_ns was read from
    status, control,        \* shm child_status and control
    shm,       \* the region's file is there
    child,     \* the child process: "none", "starting", "running", "exited" (a zombie)
    wd,        \* the watchdog: place, counted fast deaths, why it stopped
    plugin,    \* what the supervisor runs
    shutdown,  \* the supervisor's flag
    owner,     \* StreamGuard: "up", "stopping", "down"
    deaths,
    young      \* history: deaths in a row of children that really were young

attach == <<pending, early, stamp>>
region == <<status, control, shm>>
process == <<child, deaths, young>>
watchdog == <<wd, plugin, shutdown>>
vars == <<slot, bus, load, attach, region, process, watchdog, owner>>

NoWatchdog == [pc |-> "none", fast |-> 0, why |-> "none"]
Empty == [state |-> "empty", plugin |-> "none"]
Slot(s) == [state |-> s, plugin |-> "none"]

Init ==
    /\ slot = Empty
    /\ bus = FALSE
    /\ load = [l \in Loads |-> [pc |-> "idle", plugin |-> "none", result |-> "none"]]
    /\ pending = FALSE /\ early = FALSE /\ stamp = "base"
    /\ status = "STARTING" /\ control = "RUN" /\ shm = TRUE
    /\ child = "none" /\ deaths = 0 /\ young = 0
    /\ wd = NoWatchdog /\ plugin = "none" /\ shutdown = FALSE
    /\ owner = "up"

Alive == child \in {"starting", "running"}
Waiting == {"open", "reset", "spawn", "supervise", "poll", "seen", "detach"}
InFlight(l) == load[l].pc \notin {"idle", "done"}
Goto(l, place) == load' = [load EXCEPT ![l].pc = place]
Finish(l, result) == load' = [load EXCEPT ![l].pc = "done", ![l].result = result]
\* An error leaves the slot to be taken from rendering again.
Fail(l) == load' = [load EXCEPT ![l].pc = "rollback", ![l].result = "err"]

-----------------------------------------------------------------------------
(* Loading                                                                 *)

\* Naming a bus activates it, before anything is known of the slot.
Declare(l) ==
    /\ load[l].pc = "idle" /\ owner = "up"
    /\ \E p \in Plugins :
          load' = [load EXCEPT ![l].pc = "claim", ![l].plugin = p]
    /\ bus' = TRUE
    /\ UNCHANGED <<slot, attach, region, process, watchdog, owner>>

\* Mistake: a load takes over a slot that another one is loading.
MistakeTakesOver == slot.state \in {"empty", "loading"}

Claimable == slot.state = "empty"

\* Under the mutex: take an empty slot, or answer from what the slot holds.
Claim(l) ==
    /\ load[l].pc = "claim"
    /\ \/ /\ slot.state = "active" /\ slot.plugin = load[l].plugin
          /\ Finish(l, "ok") /\ UNCHANGED slot
       \/ /\ slot.state = "active" => slot.plugin # load[l].plugin
          /\ slot.state # "empty"
          /\ Fail(l) /\ UNCHANGED slot
       \/ /\ slot.state = "empty"  \* no child executable for this plugin
          /\ Fail(l) /\ UNCHANGED slot
       \/ /\ Claimable
          /\ slot' = Slot("loading") /\ Goto(l, "open")
    /\ UNCHANGED <<bus, attach, region, process, watchdog, owner>>

\* Dropping the launch description removes the region's file.
OpenRegion(l) ==
    /\ load[l].pc = "open"
    /\ \/ Goto(l, "reset") /\ UNCHANGED <<slot, shm>>
       \/ Fail(l) /\ slot' = Slot("closed") /\ shm' = FALSE
    /\ UNCHANGED <<bus, attach, status, control, process, watchdog, owner>>

\* The failing reset returns at once; the slot stays as it is.
ResetRegion(l) ==
    /\ load[l].pc = "reset"
    /\ \/ Goto(l, "spawn") /\ status' = "STARTING" /\ UNCHANGED shm
       \/ Fail(l) /\ status' \in {status, "STARTING"} /\ shm' = FALSE
    /\ UNCHANGED <<slot, bus, attach, control, process, watchdog, owner>>

SpawnFirst(l) ==
    /\ load[l].pc = "spawn"
    /\ pending' = TRUE /\ early' = FALSE
    /\ \/ Goto(l, "supervise") /\ child' = "starting" /\ UNCHANGED slot
       \/ Fail(l) /\ slot' = Empty /\ UNCHANGED child
    /\ UNCHANGED <<bus, stamp, region, deaths, young, watchdog, owner>>

\* Mistake: the child of a watchdog that never started is left alone.
MistakeNoKill == child

\* A supervisor that cannot start kills and reaps the child it was given.
AfterKill == "none"

StartWatchdog(l) ==
    /\ load[l].pc = "supervise"
    /\ \/ /\ Goto(l, "poll")
          /\ wd' = [NoWatchdog EXCEPT !.pc = "watch"]
          /\ plugin' = load[l].plugin /\ shutdown' = FALSE /\ young' = 0
          \* The new clock starts at 0; a stamp of an earlier one stays.
          /\ stamp' = IF stamp = "base" THEN "base" ELSE "stale"
          /\ UNCHANGED <<slot, shm, child>>
       \/ /\ Fail(l)
          /\ child' = AfterKill /\ shm' = FALSE /\ slot' = Slot("closed")
          /\ UNCHANGED <<wd, plugin, shutdown, young, stamp>>
    /\ UNCHANGED <<bus, pending, early, status, control, deaths, owner>>

\* Mistake: only an early exit ends the wait.
MistakeWaitsForExit == early

\* CHILD_READY_TIMEOUT may be over in any round.
GivesUp == TRUE

\* One round of the READY poll: the status, then the early exit, then the deadline.
PollReady(l) ==
    /\ load[l].pc = "poll"
    /\ \/ status = "READY" /\ plugin \notin WrongRole /\ Goto(l, "seen")
       \/ status = "READY" /\ plugin \in WrongRole /\ Goto(l, "detach")
       \/ status # "READY" /\ early /\ Goto(l, "detach")
       \/ GivesUp /\ Goto(l, "detach")
    /\ UNCHANGED <<slot, bus, attach, region, process, watchdog, owner>>

\* After READY was seen: no longer the initial attach.
ClearPending(l) ==
    /\ load[l].pc = "seen"
    /\ pending' = FALSE
    /\ Goto(l, "activate")
    /\ UNCHANGED <<slot, bus, early, stamp, region, process, watchdog, owner>>

\* Mistake: the launch description still removes the file when it is dropped.
MistakeUnlinks == FALSE

\* The file belongs to the supervisor from here on.
FileAfterAttach == shm

Activate(l) ==
    /\ load[l].pc = "activate"
    /\ slot' = [state |-> "active", plugin |-> load[l].plugin]
    /\ shm' = FileAfterAttach
    /\ Finish(l, "ok")
    /\ UNCHANGED <<bus, attach, status, control, process, watchdog, owner>>

\* retryable_attach_failure stops the supervisor ...
Detach(l) ==
    /\ load[l].pc = "detach" /\ ~shutdown
    /\ shutdown' = TRUE
    /\ UNCHANGED <<slot, bus, load, attach, region, process, wd, plugin, owner>>

\* Mistake: the next child starts with the QUIT that was meant for this one.
MistakeKeepsQuit == control

\* The region is armed for the next child.
Rearmed == "RUN"

\* ... joins its thread, and gives the slot back.
GiveBack(l) ==
    /\ load[l].pc = "detach" /\ shutdown /\ wd.pc = "done"
    /\ control' = Rearmed
    /\ wd' = NoWatchdog /\ shutdown' = FALSE
    /\ slot' = Empty
    /\ Fail(l)
    /\ UNCHANGED <<bus, attach, status, shm, process, plugin, owner>>

\* A failed declaration is taken back, whoever else uses the bus.
Rollback(l) ==
    /\ load[l].pc = "rollback"
    /\ bus' = FALSE
    /\ Goto(l, "done")
    /\ UNCHANGED <<slot, attach, region, process, watchdog, owner>>

LoadStep(l) ==
    \/ Declare(l) \/ Claim(l) \/ OpenRegion(l) \/ ResetRegion(l) \/ SpawnFirst(l)
    \/ StartWatchdog(l) \/ PollReady(l) \/ ClearPending(l) \/ Activate(l)
    \/ Detach(l) \/ GiveBack(l) \/ Rollback(l)

-----------------------------------------------------------------------------
(* The child: it may hang anywhere, and die anywhere.                      *)

Publish ==
    /\ child = "starting"
    /\ child' = "running" /\ status' = "READY"
    /\ UNCHANGED <<slot, bus, load, attach, control, shm, deaths, young, watchdog, owner>>

Die ==
    /\ Alive /\ deaths < MaxDeaths
    /\ child' = "exited" /\ deaths' = deaths + 1
    /\ UNCHANGED <<slot, bus, load, attach, region, young, watchdog, owner>>

ObeyQuit ==
    /\ Alive /\ control = "QUIT"
    /\ child' = "exited"
    /\ UNCHANGED <<slot, bus, load, attach, region, deaths, young, watchdog, owner>>

-----------------------------------------------------------------------------
(* The watchdog thread                                                     *)

Stop(reason) == wd' = [wd EXCEPT !.pc = "drain", !.why = reason]

\* Mistake: shutdown is looked at only when the child has exited.
MistakeOnlyOnExit == shutdown /\ child = "exited"

\* Checked at the top of every round and again when the child has exited.
MustStop == shutdown

SeeShutdown ==
    /\ wd.pc = "watch" /\ MustStop
    /\ Stop("shutdown")
    /\ UNCHANGED <<slot, bus, load, attach, region, process, plugin, shutdown, owner>>

SeeExit ==
    /\ wd.pc = "watch" /\ child = "exited" /\ ~MustStop
    /\ wd' = [wd EXCEPT !.pc = "judge"]
    /\ UNCHANGED <<slot, bus, load, attach, region, process, plugin, shutdown, owner>>

\* try_wait fails TRY_WAIT_ERROR_LIMIT times in a row.
LoseChild ==
    /\ wd.pc = "watch" /\ ~shutdown
    /\ Stop("wait")
    /\ UNCHANGED <<slot, bus, load, attach, region, process, plugin, shutdown, owner>>

\* Mistake: every death while the attach is pending is an early exit.
MistakeAlwaysEarly == pending

\* Only a child that dies before READY fails the attach.
DiedEarly == pending /\ status # "READY"

\* Mistake: a respawn starts a new streak.
MistakeForgetsStreak(long) == IF long THEN 0 ELSE 1

\* The streak after a death, by whether the child is measured to have lived long.
NextStreak(long) == IF long THEN 0 ELSE wd.fast + 1

\* Mistake: one more respawn than the limit allows.
MistakeOneMore(n) == n > MaxFast

TooFast(n) == n >= MaxFast

\* The child lived long or not; a stamp of another clock makes long lives look short.
Judge ==
    /\ wd.pc = "judge"
    /\ \/ DiedEarly /\ early' = TRUE /\ Stop("early") /\ UNCHANGED young
       \/ /\ ~DiedEarly
          /\ \E long \in BOOLEAN : \E measured \in IF stamp = "stale" THEN {FALSE, long} ELSE {long} :
                /\ young' = IF long THEN 0 ELSE young + 1
                /\ wd' = [wd EXCEPT !.fast = NextStreak(measured),
                                    !.pc = IF TooFast(NextStreak(measured)) THEN "drain" ELSE "reset",
                                    !.why = IF TooFast(NextStreak(measured)) THEN "fast" ELSE @]
          /\ UNCHANGED early
    /\ UNCHANGED <<slot, bus, load, pending, stamp, region, child, deaths, plugin, shutdown, owner>>

ResetForRespawn ==
    /\ wd.pc = "reset"
    /\ \/ status' = "STARTING" /\ wd' = [wd EXCEPT !.pc = "respawn"]
       \/ status' \in {status, "STARTING"} /\ Stop("reset")
    /\ UNCHANGED <<slot, bus, load, attach, control, shm, process, plugin, shutdown, owner>>

Respawn ==
    /\ wd.pc = "respawn"
    /\ Prompt => \A l \in Loads : load[l].pc # "seen"
    /\ \/ child' = "starting" /\ stamp' = "own" /\ wd' = [wd EXCEPT !.pc = "watch"]
       \/ Stop("spawn") /\ UNCHANGED <<child, stamp>>
    /\ UNCHANGED <<slot, bus, load, pending, early, region, deaths, young, plugin, shutdown, owner>>

\* The final drain of UI events, then QUIT.
Quit ==
    /\ wd.pc = "drain"
    /\ control' = "QUIT"
    /\ wd' = [wd EXCEPT !.pc = "reap"]
    /\ UNCHANGED <<slot, bus, load, attach, status, shm, process, plugin, shutdown, owner>>

\* The child has gone, or is killed when REAP_TIMEOUT is over.
Reap ==
    /\ wd.pc = "reap"
    /\ child' = "none"
    /\ wd' = [wd EXCEPT !.pc = "done"]
    /\ UNCHANGED <<slot, bus, load, attach, region, deaths, young, plugin, shutdown, owner>>

WatchdogStep ==
    SeeShutdown \/ SeeExit \/ LoseChild \/ Judge \/ ResetForRespawn \/ Respawn \/ Quit \/ Reap

-----------------------------------------------------------------------------
(* StreamGuard is dropped.  It outlives every load in flight.              *)

StopStream ==
    /\ owner = "up" /\ \A l \in Loads : ~InFlight(l)
    /\ owner' = "stopping"
    /\ shutdown' = (slot.state = "active")
    /\ UNCHANGED <<slot, bus, load, attach, region, process, wd, plugin>>

\* Mistake: the supervisor is told to stop, but not waited for.
MistakeNoJoin == TRUE

Joined == slot.state = "active" => wd.pc = "done"

\* The file goes with whoever owns it: the supervisor, or the launch of an empty slot.
DropSlot ==
    /\ owner = "stopping" /\ Joined
    /\ owner' = "down" /\ shm' = FALSE
    /\ UNCHANGED <<slot, bus, load, attach, status, control, process, watchdog>>

Next ==
    \/ \E l \in Loads : LoadStep(l)
    \/ Publish \/ Die \/ ObeyQuit
    \/ WatchdogStep
    \/ StopStream \/ DropSlot

Spec == Init /\ [][Next]_vars

\* Threads run; the child need not, and nobody has to send a load or stop the stream.
FairSpec ==
    /\ Spec
    /\ \A l \in Loads : WF_vars(LoadStep(l) /\ load[l].pc # "idle")
    /\ WF_vars(WatchdogStep)
    /\ WF_vars(DropSlot)

-----------------------------------------------------------------------------
(* Properties                                                              *)

Places == {"idle", "claim", "activate", "rollback", "done"} \cup Waiting
Results == {"none", "ok", "err"}
LoadType == load \in [Loads -> [pc : Places, plugin : Plugins \cup {"none"}, result : Results]]
SlotType == slot \in [state : {"empty", "loading", "active", "closed"}, plugin : Plugins \cup {"none"}]
WatchdogPlaces == {"none", "watch", "judge", "reset", "respawn", "drain", "reap", "done"}
Reasons == {"none", "shutdown", "wait", "early", "fast", "reset", "spawn"}
WatchdogType == wd \in [pc : WatchdogPlaces, fast : 0..MaxFast, why : Reasons]
FlagTypes ==
    /\ bus \in BOOLEAN /\ pending \in BOOLEAN /\ early \in BOOLEAN
    /\ shm \in BOOLEAN /\ shutdown \in BOOLEAN

\* Types of every variable.
TypeOK ==
    /\ SlotType /\ LoadType /\ WatchdogType /\ FlagTypes
    /\ stamp \in {"base", "own", "stale"}
    /\ status \in {"STARTING", "READY"} /\ control \in {"RUN", "QUIT"}
    /\ child \in {"none", "starting", "running", "exited"}
    /\ plugin \in Plugins \cup {"none"} /\ owner \in {"up", "stopping", "down"}
    /\ deaths \in 0..MaxDeaths /\ young \in Nat

Loading(l) == load[l].pc \in Waiting \cup {"activate"}

\* No orphan: a running child has a watchdog that will reap it, or a load that is about to
\* start one (outproc_effect.rs, the error paths of spawn_with_mailbox).
NoOrphan ==
    Alive => wd.pc \notin {"none", "done"} \/ \E l \in Loads : load[l].pc = "supervise"

\* After teardown there is neither a child nor a file (Drop of EffectChildSupervisor).
NothingLeft == owner = "down" => child = "none" /\ ~shm

\* The file stays for a slot that can still start a child.
FileKept == slot.state \in {"empty", "active"} /\ owner # "down" => shm

\* The child and the file of a slot have an owner at all times, and when the
\* last owner is gone they are gone.
Owned == NoOrphan /\ NothingLeft /\ FileKept

\* A slot is loading exactly as long as one load works on it (debug_assert_slot_loading),
\* except after a failed reset: then it stays loading for good, and its file is gone.
LoadingHasLoader ==
    /\ (\E l \in Loads : Loading(l)) => slot.state = "loading"
    /\ slot.state = "loading" /\ shm => \E l \in Loads : Loading(l)
    /\ \A l, m \in Loads : Loading(l) /\ Loading(m) => l = m

\* A child that is watched is not told to quit, also when an earlier attach was given up.
NoStrayQuit == control = "QUIT" => wd.pc \in {"reap", "done"}

\* An active slot has a watchdog, or one that reported why it gave up: never one that took
\* the death of the child for a failed attach.
ActiveIsSupervised ==
    slot.state = "active" /\ owner = "up" =>
        wd.pc # "none" /\ wd.why \notin {"early", "shutdown"}

\* A slot that loads has a loader, an active one a watchdog that has not left it by
\* mistake, and nobody tells the child of either to quit.
SlotAttended == LoadingHasLoader /\ ActiveIsSupervised /\ NoStrayQuit

\* No respawn storm: nothing is started after MaxFast young deaths in a row.
NoStorm == wd.pc \in {"reset", "respawn"} => young < MaxFast

\* An attached plugin is rendered once every load has returned.  This does not hold: a
\* load that fails takes the bus of another one down with it (see the README).
AttachedIsRendered ==
    slot.state = "active" /\ (\A l \in Loads : ~InFlight(l)) => bus

\* Every load returns, whatever the child does.
LoadReturns == \A l \in Loads : InFlight(l) ~> load[l].pc = "done"

\* A teardown ends, also with a child that hangs.
TeardownEnds == owner = "stopping" ~> owner = "down"

\* No thread waits for ever on a child: not the load, and not the teardown.
CallsEnd == LoadReturns /\ TeardownEnds
=============================================================================
