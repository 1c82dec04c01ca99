---------------------------- MODULE EnginePlayer ----------------------------
(***************************************************************************)
(* The engine side of a daemon's life: RustEnginePlayer over one           *)
(* DaemonClient.  A lost socket starts the respawn loop, which has to put  *)
(* back a daemon, the clock anchor, the plugins and the bus routings while *)
(* the poll loop, the DSL and quit() go on.  One sample file, one plugin   *)
(* declaration and one sequence bus stand for the maps of them.            *)
(*                                                                         *)
(* An action is one macrotask: a handler with the continuations its        *)
(* settled promises run before anything else can.  The socket is FIFO and  *)
(* the daemon answers in order.                                            *)
(***************************************************************************)
EXTENDS Integers, FiniteSets, SequencesExt

CONSTANTS
    Events,       \* plays the sequence schedules
    Calls,        \* setBusRouting calls
    Plugins,      \* what the DSL loads: at most one plugin
    Routings,     \* what they ask for
    Refused,      \* the routings the daemon rejects (kind or order violation)
    MaxAttempts,  \* MAX_RESPAWN_ATTEMPTS
    MaxLosses,    \* bound: deaths, dropped sockets and failed starts together
    MaxLives      \* bound: clears of the sequence

ASSUME EnginePlayerAssumption ==
    /\ Refused \subseteq Routings /\ "default" \notin Routings
    /\ IsFiniteSet(Events) /\ "loop" \notin Calls
    /\ MaxAttempts \in Nat \ {0} /\ MaxLosses \in Nat /\ MaxLives \in Nat

VARIABLES
    alive, child, born, dropped, losses,  \* daemon processes; the client's child;
                                          \* those whose socket broke while they lived
    ws, broken, running, intentional,     \* DaemonClient: the socket's daemon or 0
    wire, replies,                        \* requests unserved, answers undelivered
    loaded, routed,                       \* daemons with the plugin; daemon -> routing
    loop, respawning, disposed, quit, gaveUp,
    anchor,                               \* the daemon whose clock is the anchor, 0 = zero
    sampleId, inflight,                   \* the daemon that issued the cached id; a load runs
    declared, active, pluginCall,         \* loadedPlugins, pluginActiveByKey
    cache, call,                          \* busRoutings, and the calls that change it
    playing, live, life, ev,              \* poll loop, liveSequences, the scheduled plays
    lostRestoring, muddled                \* history

daemons == <<alive, child, born, dropped, losses>>
client == <<ws, broken, running, intentional, wire, replies>>
served == <<loaded, routed>>
supervisor == <<loop, respawning, disposed, quit, gaveUp>>
Restoring == loop.pc \in {"reload", "reapply"}
clock == <<anchor>>
samples == <<sampleId, inflight>>
plugin == <<declared, active, pluginCall>>
routing == <<cache, call>>
plays == <<playing, live, life, ev>>
history == <<lostRestoring, muddled>>
vars == <<daemons, client, served, supervisor, clock, samples, plugin, routing,
          plays, history>>

Daemons == 1 .. MaxLosses + 1
NoLoop == [pc |-> "none", attempt |-> 0]
IdleCall == [pc |-> "idle", value |-> "default", prev |-> "default", over |-> FALSE]
Unscheduled == [pc |-> "none", life |-> 0]

Init ==
    /\ alive = {1} /\ child = 1 /\ born = 1 /\ dropped = {} /\ losses = 0
    /\ ws = 1 /\ broken = FALSE /\ running = TRUE /\ intentional = FALSE
    /\ wire = <<>> /\ replies = <<>>
    /\ loaded = {} /\ routed = [d \in Daemons |-> "default"]
    /\ loop = NoLoop /\ respawning = FALSE /\ disposed = FALSE
    /\ quit = "none" /\ gaveUp = FALSE
    /\ anchor = 1
    /\ sampleId = 0 /\ inflight = FALSE
    /\ declared = FALSE /\ active = FALSE /\ pluginCall = "idle"
    /\ cache = "default" /\ call = [c \in Calls |-> IdleCall]
    /\ playing = FALSE /\ live = FALSE /\ life = 0
    /\ ev = [e \in Events |-> Unscheduled]
    /\ lostRestoring = FALSE /\ muddled = FALSE

Loop == "loop"
Request(kind, who, value, sample) ==
    [kind |-> kind, who |-> who, value |-> value, anchor |-> anchor, sample |-> sample]
Ask(kind, who) == Request(kind, who, "default", 0)

-----------------------------------------------------------------------------
(* The daemon and the socket.                                              *)

Lose == losses < MaxLosses /\ losses' = losses + 1

\* A panic, a segfault or a kill.
DaemonDies ==
    /\ Lose
    /\ \E d \in alive : alive' = alive \ {d}
    /\ UNCHANGED <<child, born, dropped, client, served, supervisor, clock, samples,
                   plugin, routing, plays, history>>

\* The session ends on a receive error; the process goes on accepting.
SocketBreaks ==
    /\ Lose
    /\ ws \in alive /\ ~broken
    /\ broken' = TRUE
    /\ dropped' = dropped \union {ws}
    /\ UNCHANGED <<alive, child, born, ws, running, intentional, wire, replies, served,
                   supervisor, clock, samples, plugin, routing, plays, history>>

Connected == ws \in alive /\ ~broken

\* handle_command: the daemon may refuse a sample or a plugin, and always
\* refuses a Refused routing.
Serve ==
    /\ wire # <<>> /\ Connected
    /\ wire' = Tail(wire)
    /\ \E ok \in BOOLEAN :
        LET r == Head(wire)
        IN /\ r.kind \in {"status", "play"} => ok
           /\ r.kind = "route" => (ok <=> r.value \notin Refused)
           /\ replies' = Append(replies, [kind |-> r.kind, who |-> r.who, ok |-> ok])
           /\ loaded' = IF r.kind = "plugin" /\ ok THEN loaded \union {ws} ELSE loaded
           /\ routed' = IF r.kind = "route" /\ ok THEN [routed EXCEPT ![ws] = r.value]
                        ELSE routed
    /\ UNCHANGED <<daemons, ws, broken, running, intentional, supervisor, clock, samples,
                   plugin, routing, plays, history>>

\* The 1 Hz StreamStats of the connected daemon.
StreamStats ==
    /\ Connected /\ running /\ ~disposed
    /\ anchor # ws
    /\ anchor' = ws
    /\ UNCHANGED <<daemons, client, served, supervisor, samples, plugin, routing, plays,
                   history>>

-----------------------------------------------------------------------------
(* The respawn loop.                                                       *)

\* Mutant: dispatch stays blocked after the loop.
LeaveLoopBlocked == loop' = NoLoop /\ UNCHANGED respawning

LeaveLoop == loop' = NoLoop /\ respawning' = FALSE

\* Mutant: one attempt too many.
RetryOnceMore ==
    IF loop.attempt > MaxAttempts
    THEN LeaveLoop /\ gaveUp' = TRUE /\ playing' = FALSE
    ELSE /\ IF disposed THEN LeaveLoop
            ELSE /\ loop' = [pc |-> "backoff", attempt |-> loop.attempt + 1]
                 /\ UNCHANGED respawning
         /\ UNCHANGED <<gaveUp, playing>>

\* The next attempt, or none: the poll loop stops and the engine lives on.
Retry ==
    IF loop.attempt = MaxAttempts
    THEN LeaveLoop /\ gaveUp' = TRUE /\ playing' = FALSE
    ELSE /\ IF disposed THEN LeaveLoop
            ELSE /\ loop' = [pc |-> "backoff", attempt |-> loop.attempt + 1]
                 /\ UNCHANGED respawning
         /\ UNCHANGED <<gaveUp, playing>>

At(pc) == loop' = [loop EXCEPT !.pc = pc] /\ UNCHANGED respawning

\* Mutant: the child of a failed start, or of quit(), is forgotten alive.
KillChildForgotten == child' = 0 /\ UNCHANGED alive

KillChild == alive' = alive \ {child} /\ child' = 0

\* Mutant: the close handler leaves the call waiting.
RejectedNever(c) == call[c]

\* A call whose request is rejected with the socket keeps its intent in the cache.
Rejected(c) == IF call[c].pc = "sent" THEN [call[c] EXCEPT !.pc = "done"] ELSE call[c]

\* Every request of the socket is rejected; its waiters go on without it.
FailPending ==
    /\ wire' = <<>> /\ replies' = <<>>
    /\ inflight' = FALSE
    /\ ev' = [e \in Events |-> IF ev[e].pc \in {"loading", "sent"}
                               THEN [ev[e] EXCEPT !.pc = "dropped"] ELSE ev[e]]
    /\ call' = [c \in Calls |-> Rejected(c)]
    /\ pluginCall' = IF pluginCall = "sent" THEN "done" ELSE pluginCall
    /\ active' = (active /\ pluginCall # "sent" /\ loop.pc # "reload")

BackoffElapsed ==
    /\ loop.pc = "backoff"
    /\ IF disposed
       THEN LeaveLoop /\ UNCHANGED <<daemons, intentional>>
       ELSE /\ born' = born + 1 /\ child' = born + 1
            /\ alive' = alive \union {born + 1}
            /\ intentional' = FALSE
            /\ At("starting")
            /\ UNCHANGED <<dropped, losses>>
    /\ UNCHANGED <<ws, broken, running, wire, replies, served, disposed, quit, gaveUp,
                   clock, samples, plugin, routing, plays, history>>

\* The ready line arrived and the socket is open: requests pass from here on.
Connect ==
    /\ loop.pc = "starting" /\ child \in alive
    /\ ws' = child /\ broken' = FALSE
    /\ At("handshake")
    /\ UNCHANGED <<daemons, running, intentional, wire, replies, served, disposed, quit,
                   gaveUp, clock, samples, plugin, routing, plays, history>>

Handshake ==
    /\ loop.pc = "handshake" /\ Connected
    /\ running' = TRUE
    /\ IF disposed THEN LeaveLoop /\ UNCHANGED wire
       ELSE At("session") /\ wire' = Append(wire, Ask("status", Loop))
    /\ UNCHANGED <<daemons, ws, broken, intentional, replies, served, disposed, quit,
                   gaveUp, clock, samples, plugin, routing, plays, history>>

\* Spawn, ready line, connect or handshake fails or times out: the child is killed.
StartFails ==
    /\ loop.pc \in {"starting", "handshake"}
    /\ \/ child \notin alive /\ UNCHANGED losses
       \/ loop.pc = "handshake" /\ broken /\ UNCHANGED losses
       \/ Lose
    /\ KillChild
    /\ ws' = 0 /\ broken' = FALSE
    /\ FailPending
    /\ Retry
    /\ UNCHANGED <<born, dropped, running, intentional, served, disposed, quit, clock,
                   sampleId, declared, cache, live, life, history>>

\* What the loop does after the plugin is back, and after the session is.
Reapply ==
    IF cache = "default" THEN LeaveLoop /\ UNCHANGED wire
    ELSE At("reapply") /\ wire' = Append(wire, Request("route", Loop, cache, 0))

Restore ==
    IF declared THEN At("reload") /\ wire' = Append(wire, Ask("plugin", Loop))
    ELSE Reapply

\* Mutant: it does not ask.
SessionLostUnseen == LeaveLoop /\ UNCHANGED <<gaveUp, playing>>

\* Mutant: the close handler leaves getStatus waiting.
SessionLostUnsettled == UNCHANGED <<loop, respawning, gaveUp, playing>>

\* getStatus was rejected and swallowed; the loop then asks isRunning().
SessionLost == IF disposed THEN LeaveLoop /\ UNCHANGED <<gaveUp, playing>> ELSE Retry

\* The 'close' handler, and the loop's own continuation when it was waiting.
SocketClose ==
    /\ ws # 0 /\ ~Connected /\ loop.pc # "handshake"
    /\ running' = FALSE /\ ws' = 0 /\ broken' = FALSE
    /\ FailPending
    /\ lostRestoring' = (lostRestoring \/ Restoring)
    /\ anchor' = IF loop.pc = "session" THEN 0 ELSE anchor
    /\ CASE loop.pc = "session" -> SessionLost
         [] Restoring -> LeaveLoop /\ UNCHANGED <<gaveUp, playing>>
         [] loop.pc = "none" /\ ~disposed ->
              /\ loop' = [pc |-> "backoff", attempt |-> 1] /\ respawning' = TRUE
              /\ UNCHANGED <<gaveUp, playing>>
         [] OTHER -> UNCHANGED <<loop, respawning, gaveUp, playing>>
    /\ UNCHANGED <<daemons, intentional, served, disposed, quit, sampleId, declared,
                   cache, live, life, muddled>>

-----------------------------------------------------------------------------
(* Answers.                                                                *)

Answer(kind) == replies # <<>> /\ Head(replies).kind = kind /\ replies' = Tail(replies)
Ok == Head(replies).ok
Mine == Head(replies).who = Loop

\* The session is anchored: old sample ids go, then plugins and routings return.
StatusAnswered ==
    /\ Answer("status")
    /\ anchor' = ws
    /\ IF disposed THEN LeaveLoop /\ UNCHANGED <<sampleId, wire>>
       ELSE sampleId' = 0 /\ Restore
    /\ UNCHANGED <<daemons, ws, broken, running, intentional, served, disposed, quit, gaveUp,
                   inflight, plugin, routing, plays, history>>

\* Mutant: a failed reload leaves the plugin marked active.
PluginReloadedAnyway ==
    /\ Answer("plugin") /\ Mine
    /\ Reapply
    /\ UNCHANGED <<daemons, ws, broken, running, intentional, served, disposed, quit, gaveUp,
                   clock, samples, plugin, routing, plays, history>>

PluginReloaded ==
    /\ Answer("plugin") /\ Mine
    /\ active' = Ok
    /\ Reapply
    /\ UNCHANGED <<daemons, ws, broken, running, intentional, served, disposed, quit, gaveUp,
                   clock, samples, declared, pluginCall, routing, plays, history>>

RoutingReapplied ==
    /\ Answer("route") /\ Mine
    /\ LeaveLoop
    /\ muddled' = (muddled \/ ~Ok)
    /\ UNCHANGED <<daemons, ws, broken, running, intentional, wire, served, disposed, quit,
                   gaveUp, clock, samples, plugin, routing, plays, lostRestoring>>

PluginAnswered ==
    /\ Answer("plugin") /\ ~Mine
    /\ pluginCall' = "done"
    /\ declared' = (declared \/ Ok)
    /\ active' = Ok
    /\ UNCHANGED <<daemons, ws, broken, running, intentional, wire, served, supervisor,
                   clock, samples, routing, plays, history>>

\* Mutant: the refused intent stays.
RevertNever(c) == cache

\* A refusal means the daemon did not change: the cache goes back.
Revert(c) == IF Ok THEN cache ELSE call[c].prev

RouteAnswered ==
    /\ Answer("route") /\ ~Mine
    /\ LET c == Head(replies).who
       IN /\ call' = [call EXCEPT ![c].pc = "done"]
          /\ cache' = Revert(c)
          /\ muddled' = IF call[c].over THEN muddled \/ ~Ok ELSE muddled /\ ~Ok
    /\ UNCHANGED <<daemons, ws, broken, running, intentional, wire, served, supervisor,
                   clock, samples, plugin, plays, lostRestoring>>

\* Mutant: no second look at liveSequences.
ResumedBlindly == {e \in Events : ev[e].pc = "loading"}

\* Every play that waited for the load goes on: those of a sequence that is
\* still live are sent.
Resumed == {e \in Events : ev[e].pc = "loading" /\ live}

SampleLoaded ==
    /\ Answer("load")
    /\ inflight' = FALSE
    /\ sampleId' = IF Ok THEN ws ELSE sampleId
    /\ LET go == IF Ok THEN Resumed ELSE {}
       IN /\ wire' = wire \o SetToSeq({Request("play", e, "default", ws) : e \in go})
          /\ ev' = [e \in Events |->
                      CASE e \in go -> [ev[e] EXCEPT !.pc = "sent"]
                        [] ev[e].pc = "loading" /\ e \notin go ->
                             [ev[e] EXCEPT !.pc = "dropped"]
                        [] OTHER -> ev[e]]
    /\ UNCHANGED <<daemons, ws, broken, running, intentional, served, supervisor, clock,
                   plugin, routing, playing, live, life, history>>

PlayAnswered ==
    /\ Answer("play")
    /\ ev' = [ev EXCEPT ![Head(replies).who].pc = "played"]
    /\ UNCHANGED <<daemons, ws, broken, running, intentional, wire, served, supervisor,
                   clock, samples, plugin, routing, playing, live, life, history>>

-----------------------------------------------------------------------------
(* The DSL, the poll loop and quit.                                        *)

Start ==
    /\ ~playing /\ ~disposed /\ Events # {}
    /\ playing' = TRUE
    /\ UNCHANGED <<daemons, client, served, supervisor, clock, samples, plugin, routing,
                   live, life, ev, history>>

\* scheduleEvent: enqueue makes the sequence live.
Schedule(e) ==
    /\ ev[e].pc = "none" /\ ~disposed
    /\ ev' = [ev EXCEPT ![e] = [pc |-> "queued", life |-> life]]
    /\ live' = TRUE
    /\ UNCHANGED <<daemons, client, served, supervisor, clock, samples, plugin, routing,
                   playing, life, history>>

Unqueue ==
    /\ ev' = [e \in Events |-> IF ev[e].pc = "queued" THEN [ev[e] EXCEPT !.pc = "dropped"]
                               ELSE ev[e]]
    /\ live' = FALSE
    /\ life' = life + 1

ClearSequence ==
    /\ life < MaxLives
    /\ Unqueue
    /\ UNCHANGED <<daemons, client, served, supervisor, clock, samples, plugin, routing,
                   playing, history>>

\* stopAll also silences the daemon's voices, which are not modelled here.
StopAll ==
    /\ life < MaxLives
    /\ playing' = FALSE
    /\ Unqueue
    /\ UNCHANGED <<daemons, client, served, supervisor, clock, samples, plugin, routing,
                   history>>

\* Mutant: the socket is enough.
DispatchableEarly == running

Dispatchable == ~respawning /\ running

LoadSample == inflight' = TRUE /\ wire' = Append(wire, Ask("load", Loop))

\* A tick finds a due event; executePlayback drops it, sends it or waits for
\* its sample.
Poll(e) ==
    /\ playing /\ ev[e].pc = "queued"
    /\ \/ ev' = [ev EXCEPT ![e].pc = "dropped"] /\ UNCHANGED <<wire, inflight>>
       \/ /\ live /\ Dispatchable
          /\ IF sampleId # 0
             THEN /\ ev' = [ev EXCEPT ![e].pc = "sent"]
                  /\ wire' = Append(wire, Request("play", e, "default", sampleId))
                  /\ UNCHANGED inflight
             ELSE /\ ev' = [ev EXCEPT ![e].pc = "loading"]
                  /\ IF inflight THEN UNCHANGED <<wire, inflight>> ELSE LoadSample
    /\ UNCHANGED <<daemons, ws, broken, running, intentional, replies, served, supervisor,
                   clock, sampleId, plugin, routing, playing, live, life, history>>

\* loadBuffer asks nobody whether a respawn is in progress.
Preload ==
    /\ sampleId = 0 /\ ~inflight /\ ws # 0 /\ Events # {}
    /\ LoadSample
    /\ UNCHANGED <<daemons, ws, broken, running, intentional, replies, served, supervisor,
                   clock, sampleId, plugin, routing, plays, history>>

LoadPlugin ==
    /\ Plugins # {} /\ pluginCall = "idle" /\ ~disposed
    /\ IF ws = 0
       THEN pluginCall' = "done" /\ active' = FALSE /\ UNCHANGED wire
       ELSE /\ pluginCall' = "sent" /\ wire' = Append(wire, Ask("plugin", "user"))
            /\ UNCHANGED active
    /\ UNCHANGED <<daemons, ws, broken, running, intentional, replies, served, supervisor,
                   clock, samples, declared, routing, plays, history>>

\* Calls whose answers may cross: with each other, or with the restoration.
Crossing(c) == {d \in Calls \ {c} : call[d].pc = "sent"}

SetBusRouting(c, r) ==
    /\ call[c].pc = "idle" /\ ~disposed
    /\ cache' = r
    /\ LET over == Crossing(c) # {} \/ loop.pc # "none"
           mine == [pc |-> IF ws = 0 THEN "done" ELSE "sent", value |-> r,
                    prev |-> cache, over |-> over]
       IN call' = [d \in Calls |->
                      IF d = c THEN mine
                      ELSE [call[d] EXCEPT !.over = @ \/ d \in Crossing(c)]]
    /\ wire' = IF ws = 0 THEN wire ELSE Append(wire, Request("route", c, r, 0))
    /\ UNCHANGED <<daemons, ws, broken, running, intentional, replies, served, supervisor,
                   clock, samples, plugin, plays, history>>

Quit ==
    /\ quit = "none"
    /\ quit' = "waiting" /\ disposed' = TRUE
    /\ playing' = FALSE
    /\ Unqueue
    /\ UNCHANGED <<daemons, client, served, loop, respawning, gaveUp, clock, samples, plugin,
                   routing, history>>

\* The respawn loop has ended: daemon.quit(), nothing to do without a socket.
QuitDaemon ==
    /\ quit = "waiting" /\ loop.pc = "none"
    /\ quit' = "done"
    /\ IF running
       THEN /\ intentional' = TRUE /\ running' = FALSE /\ ws' = 0 /\ broken' = FALSE
            /\ KillChild
            /\ FailPending
       ELSE UNCHANGED <<client, alive, child, inflight, ev, call, pluginCall, active>>
    /\ UNCHANGED <<born, dropped, losses, served, loop, respawning, disposed, gaveUp, clock,
                   sampleId, declared, cache, playing, live, life, history>>

Answers ==
    \/ StatusAnswered \/ PluginReloaded \/ RoutingReapplied \/ PluginAnswered
    \/ RouteAnswered \/ SampleLoaded \/ PlayAnswered

Next ==
    \/ DaemonDies \/ SocketBreaks \/ Serve \/ StreamStats
    \/ BackoffElapsed \/ Connect \/ Handshake \/ StartFails \/ SocketClose
    \/ Answers
    \/ Start \/ ClearSequence \/ StopAll \/ Preload \/ LoadPlugin
    \/ \E e \in Events : Schedule(e) \/ Poll(e)
    \/ \E c \in Calls, r \in Routings : SetBusRouting(c, r)
    \/ Quit \/ QuitDaemon

Spec == Init /\ [][Next]_vars

\* Timers fire, the daemon answers, the socket delivers and notices its end;
\* nothing is promised of the user, of deaths or of the clock's events.
FairSpec ==
    /\ Spec
    /\ WF_vars(Serve) /\ WF_vars(Answers) /\ WF_vars(SocketClose)
    /\ WF_vars(BackoffElapsed) /\ WF_vars(Connect) /\ WF_vars(Handshake \/ StartFails)
    /\ WF_vars(QuitDaemon)

-----------------------------------------------------------------------------
(* Properties.                                                             *)

Kinds == {"status", "plugin", "route", "load", "play"}

\* Types of every variable.
TypeOK ==
    /\ alive \subseteq Daemons /\ child \in Daemons \union {0}
    /\ born \in Daemons /\ dropped \subseteq Daemons /\ losses \in 0 .. MaxLosses
    /\ ws \in Daemons \union {0} /\ {broken, running, intentional} \subseteq BOOLEAN
    /\ \A i \in DOMAIN wire : wire[i].kind \in Kinds
    /\ \A i \in DOMAIN replies : replies[i].kind \in Kinds /\ replies[i].ok \in BOOLEAN
    /\ loaded \subseteq Daemons /\ routed \in [Daemons -> Routings \union {"default"}]
    /\ loop \in [pc : {"none", "backoff", "starting", "handshake", "session", "reload",
                       "reapply"},
                 attempt : 0 .. MaxAttempts]
    /\ {respawning, disposed, gaveUp} \subseteq BOOLEAN
    /\ quit \in {"none", "waiting", "done"}
    /\ anchor \in Daemons \union {0} /\ sampleId \in Daemons \union {0}
    /\ {inflight, declared, active} \subseteq BOOLEAN
    /\ pluginCall \in {"idle", "sent", "done"}
    /\ cache \in Routings \union {"default"}
    /\ call \in [Calls -> [pc : {"idle", "sent", "done"},
                           value : Routings \union {"default"},
                           prev : Routings \union {"default"}, over : BOOLEAN]]
    /\ {playing, live} \subseteq BOOLEAN /\ life \in 0 .. MaxLives + 1
    /\ ev \in [Events -> [pc : {"none", "queued", "loading", "sent", "played", "dropped"},
                          life : 0 .. MaxLives + 1]]
    /\ {lostRestoring, muddled} \subseteq BOOLEAN

\* The order respawnLoop calls load-bearing: no play reaches a daemon with a
\* time taken from a dead daemon's clock or a sample id another daemon gave.
NoStaleDispatch ==
    \A i \in DOMAIN wire :
        wire[i].kind = "play" => wire[i].anchor \in {ws, 0} /\ wire[i].sample = ws

\* One daemon process at a time, and none once quit() has returned, save those
\* whose socket broke while they lived: nobody kills them.
NoOrphanDaemon ==
    /\ alive \ dropped \subseteq {child}
    /\ quit = "done" => alive \subseteq dropped

\* The engine has no daemon and nobody is about to start one.
Abandoned == ~running /\ ~gaveUp /\ ~disposed /\ loop.pc = "none"

\* What respawnLoop's comment promises: a daemon that dies again is retried.
NeverAbandoned == ~Abandoned

\* It is, unless it dies while plugins or routings are being restored: that
\* death is absorbed by the loop's single flight, and the loop reports success.
OnlyRestoringAbandons == Abandoned => lostRestoring

Restored == Connected /\ running /\ ~disposed /\ loop.pc = "none"
Settled == Restored /\ \A c \in Calls : call[c].pc # "sent"

\* Between calls the daemon routes the bus as the cache says, which a respawn
\* will restore, unless a refused call crossed another or the restoration.
RoutingAgrees == Settled /\ ~muddled => routed[ws] = cache

\* A plugin the engine sends notes to is in the daemon, once respawn is over.
ActiveIsLoaded == Restored /\ active => ws \in loaded

\* A play of a cleared sequence is sent only if it was waiting for its sample
\* when the sequence was cleared, and something scheduled since made the
\* sequence live again: liveSequences cannot tell the two lives apart.
NoGhost ==
    [][\A e \in Events :
         ev[e].pc # "sent" /\ ev'[e].pc = "sent" /\ ev[e].life # life =>
             /\ ev[e].pc = "loading"
             /\ \E f \in Events : ev[f].pc # "none" /\ ev[f].life = life]_vars

\* What the re-check after the load promises (executePlayback): a play of a
\* sequence that was cleared is not sent.  This does not hold (see the README).
NoGhostAfterLoad ==
    [][\A e \in Events : ev[e].pc # "sent" /\ ev'[e].pc = "sent" => ev[e].life = life]_vars

\* Every loss of the daemon ends: in a daemon that plays can be sent to, in
\* the loop giving up, in quit(), or in the abandonment above.
LossEnds == ~running ~> (running /\ ~respawning) \/ gaveUp \/ disposed \/ lostRestoring

\* quit() returns, from wherever the respawn loop was.
QuitReturns == disposed ~> quit = "done"

\* Every call of setBusRouting is settled.
CallsSettle == \A c \in Calls : call[c].pc = "sent" ~> call[c].pc = "done"

\* Nothing that began goes on for ever: a loss, quit(), a call.
Settles == LossEnds /\ QuitReturns /\ CallsSettle

=============================================================================
