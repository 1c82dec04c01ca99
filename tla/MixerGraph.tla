----------------------------- MODULE MixerGraph -----------------------------
(***************************************************************************)
(* The mixer of the daemon: an array of bus stages (inserts, then sums,    *)
(* then auxes) whose activation and routing the sessions write into        *)
(* atomics, one after the other, while the audio callback reads them, one  *)
(* after the other, and carries the signal of a block through the graph it *)
(* has read.                                                               *)
(*                                                                         *)
(* A signal is the number of copies of each source it contains, and        *)
(* whether it contains something of an earlier block.                      *)
(***************************************************************************)
EXTENDS Integers, FiniteSets

CONSTANTS
    Inserts, Sums, Auxes,   \* how many stages of each kind
    MaxRoutes,              \* bound: calls of SetBusRouting
    MaxLoads                \* bound: LoadPlugin calls

ASSUME MixerAssumption ==
    /\ Inserts \in Nat \ {0} /\ Sums \in Nat /\ Auxes \in Nat
    /\ MaxRoutes \in Nat /\ MaxLoads \in Nat

LastStage == Inserts + Sums + Auxes
Stages == 1 .. LastStage
SumStages == Inserts + 1 .. Inserts + Sums
AuxStages == Inserts + Sums + 1 .. LastStage

Master == 0                  \* hw, and the source of untagged events
Buffers == {Master} \union Stages
Sources == 0 .. Inserts      \* events are tagged with an insert bus or not at all

VARIABLES
    active, routing, sends,  \* the atomics of the stages
    route,                   \* the SetBusRouting call that holds the lock
    loads,                   \* LoadPlugin calls in flight, by stage
    routes, loaded,          \* calls made so far
    declared,                \* inserts the engine was told it may play to
    undone,                  \* stages a failed load has deactivated
    events,                  \* scheduler: the sources with an event
    pc, at,                  \* the callback, and the stage it is at
    flags, targets, taps,    \* its snapshot of the atomics
    buf, stale,              \* the buffers; those with an earlier block's signal
    consumed                 \* sources whose event this block has played

atomics == <<active, routing, sends>>
control == <<atomics, route, loads, routes, loaded, declared, undone>>
snapshot == <<flags, targets, taps>>
callback == <<pc, at, snapshot, buf, stale, consumed>>
mixVars == <<control, events, callback>>

Silence == [e \in Sources |-> 0]
Plus(a, b) == [e \in Sources |-> a[e] + b[e]]
Of(e) == [Silence EXCEPT ![e] = 1]

NoCall == [pc |-> "idle", bus |-> 0, output |-> {}, on |-> {}, off |-> {}, todo |-> {}]
NoSnapshot ==
    /\ flags = [s \in Stages |-> FALSE]
    /\ targets = [s \in Stages |-> Master]
    /\ taps = [s \in Stages |-> {}]

MixInit ==
    /\ active = [s \in Stages |-> FALSE]
    /\ routing = [s \in Stages |-> Master]
    /\ sends = [s \in Stages |-> {}]
    /\ route = NoCall
    /\ loads = [s \in Stages |-> 0]
    /\ routes = 0 /\ loaded = 0
    /\ declared = {} /\ undone = {}
    /\ events = {}
    /\ pc = "idle" /\ at = 1 /\ NoSnapshot
    /\ buf = [b \in Buffers |-> Silence] /\ stale = {} /\ consumed = {}

-----------------------------------------------------------------------------
(* The sessions.                                                           *)

\* Mutant: a stage may be routed to itself.
LaterOrSame(S, s) == {t \in S : t >= s}

Later(S, s) == {t \in S : t > s}

\* The calls set_bus_routing accepts, as far as they change something: forward
\* only, an output is a sum or the master, a send goes to an aux.
Calls(s) ==
    [pc : {"output"}, bus : {s},
     output : {{}} \union {{t} : t \in ({Master} \union Later(SumStages, s)) \ {routing[s]}},
     on : SUBSET Later(AuxStages, s), off : SUBSET sends[s], todo : {{}}]

\* Mutant: a stage is not activated by a call that routes it to another.
NamedTargets(c) ==
    LET fed == (c.output \union c.on \union c.off) \ {Master}
    IN  IF fed = {} THEN {c.bus} ELSE fed

\* The stages a call names are activated, the one it is for first.
Named(c) == ({c.bus} \union c.output \union c.on \union c.off) \ {Master}

SetBusRouting(s) ==
    /\ route.pc = "idle" /\ routes < MaxRoutes
    /\ routes' = routes + 1
    /\ \E c \in Calls(s) : c.on \cap c.off = {} /\ route' = c
    /\ UNCHANGED <<atomics, loads, loaded, declared, undone, events, callback>>

FirstOf(S) == CHOOSE s \in S : \A t \in S : s <= t

\* On to the activations when no send is left to store.
Stored(c) == IF c.todo = {} THEN [c EXCEPT !.pc = "activate", !.todo = Named(c)] ELSE c

StoreOutput ==
    /\ route.pc = "output"
    /\ route' = Stored([route EXCEPT !.pc = "sends", !.todo = route.on \union route.off])
    /\ routing' = IF route.output = {} THEN routing
                  ELSE [routing EXCEPT ![route.bus] = FirstOf(route.output)]
    /\ UNCHANGED <<active, sends, loads, routes, loaded, declared, undone, events, callback>>

StoreSend ==
    /\ route.pc = "sends"
    /\ LET t == FirstOf(route.todo) IN
        /\ sends' = [sends EXCEPT ![route.bus] = IF t \in route.on THEN @ \union {t} ELSE @ \ {t}]
        /\ route' = Stored([route EXCEPT !.todo = @ \ {t}])
    /\ UNCHANGED <<active, routing, loads, routes, loaded, declared, undone, events, callback>>

\* After the last one the call is answered.
Activate ==
    /\ route.pc = "activate"
    /\ LET rest == route.todo \ {FirstOf(route.todo)} IN
        /\ active' = [active EXCEPT ![FirstOf(route.todo)] = TRUE]
        /\ undone' = undone \ {FirstOf(route.todo)}
        /\ IF rest = {} THEN /\ route' = NoCall
                             /\ declared' = declared \union ({route.bus} \cap Sources)
           ELSE route' = [route EXCEPT !.todo = rest] /\ UNCHANGED declared
    /\ UNCHANGED <<routing, sends, loads, routes, loaded, events, callback>>

\* Under the lock too; the load itself is not.
LoadPlugin(s) ==
    /\ route.pc = "idle" /\ loaded < MaxLoads
    /\ loaded' = loaded + 1
    /\ loads' = [loads EXCEPT ![s] = @ + 1]
    /\ active' = [active EXCEPT ![s] = TRUE]
    /\ undone' = undone \ {s}
    /\ UNCHANGED <<routing, sends, route, routes, declared, events, callback>>

LoadSucceeds(s) ==
    /\ loads[s] > 0
    /\ loads' = [loads EXCEPT ![s] = @ - 1]
    /\ declared' = declared \union ({s} \cap Sources)
    /\ UNCHANGED <<atomics, route, routes, loaded, undone, events, callback>>

\* The activation is undone, whoever else relies on it, and without the lock.
LoadFails(s) ==
    /\ loads[s] > 0
    /\ loads' = [loads EXCEPT ![s] = @ - 1]
    /\ active' = [active EXCEPT ![s] = FALSE]
    /\ undone' = undone \union {s}
    /\ UNCHANGED <<routing, sends, route, routes, loaded, declared, events, callback>>

\* The engine declares a bus before it plays to it.  Only the mix looks at the
\* events, so that an event comes just before it stands for any earlier moment.
PlayAt(e) ==
    /\ pc \in {"mix", "dry"}
    /\ e \notin events
    /\ e = Master \/ e \in declared
    /\ events' = events \union {e}
    /\ UNCHANGED <<control, callback>>

-----------------------------------------------------------------------------
(* The callback.                                                           *)

Begin ==
    /\ pc = "idle"
    /\ pc' = "any" /\ at' = 1
    /\ stale' = {b \in Buffers : b \in stale \/ buf[b] # Silence}
    /\ buf' = [b \in Buffers |-> Silence]
    /\ UNCHANGED <<control, events, snapshot, consumed>>

\* On to the next stage, or after the last one to p.
Onward(p) ==
    /\ pc' = IF at < LastStage THEN pc ELSE p
    /\ at' = IF at < LastStage THEN at + 1 ELSE 1

\* With no active stage the callback takes the path without a graph.
AnyActive ==
    /\ pc = "any"
    /\ IF active[at] THEN pc' = "flags" /\ at' = 1 ELSE Onward("dry")
    /\ UNCHANGED <<control, events, snapshot, buf, stale, consumed>>

\* engine.render plays every event to hw, whatever its tag.
Dry ==
    /\ pc = "dry"
    /\ consumed' = events /\ events' = {}
    /\ buf' = [buf EXCEPT ![Master] = [e \in Sources |-> IF e \in events THEN 1 ELSE 0]]
    /\ stale' = stale \ {Master}
    /\ pc' = "done"
    /\ UNCHANGED <<control, at, snapshot>>

ReadFlag ==
    /\ pc = "flags"
    /\ flags' = [flags EXCEPT ![at] = active[at]]
    /\ Onward("targets")
    /\ UNCHANGED <<control, events, targets, taps, buf, stale, consumed>>

ReadTarget ==
    /\ pc = "targets"
    /\ targets' = [targets EXCEPT ![at] = routing[at]]
    /\ Onward("taps")
    /\ UNCHANGED <<control, events, flags, taps, buf, stale, consumed>>

ReadTaps ==
    /\ pc = "taps"
    /\ taps' = [taps EXCEPT ![at] = sends[at]]
    /\ Onward("mix")
    /\ UNCHANGED <<control, events, flags, targets, buf, stale, consumed>>

\* Mutant: a stage that is only sent to is not marked.
MarkedByOutput == {s \in Stages : flags[s] \/ \E i \in Stages : flags[i] /\ targets[i] = s}

\* render_targets: the active stages and those an active stage feeds.
Marked ==
    {s \in Stages : flags[s] \/ \E i \in Stages : flags[i] /\ (targets[i] = s \/ s \in taps[i])}

\* Mutant: an inactive stage's buffer is not zeroed.
ZeroedActive == {Master} \union {s \in Stages : flags[s]}

\* Zeroed by render_multi, or by hand before it.
Zeroed == {Master} \union Marked

\* render_multi plays what the scheduler has for hw and the active stages.
MixWhat(heard) ==
    /\ pc = "mix"
    /\ consumed' = heard
    /\ events' = events \ heard
    /\ buf' = [b \in Buffers |-> IF b \in heard THEN Of(b) ELSE Silence]
    /\ stale' = stale \ Zeroed
    /\ pc' = "post" /\ at' = 1
    /\ UNCHANGED <<control, snapshot>>

Mix == MixWhat({e \in events : e = Master \/ flags[e]})

\* A command holds the scheduler's lock, and the block is silence.
Contended == MixWhat({})

\* Mutant: the loop reads the atomics again.
FedNow(s) == {routing[s]} \union sends[s]

\* Where the loop adds the signal of a stage.
Fed(s) == {targets[s]} \union taps[s]

\* One turn of the loop over the stages, in their order.
Post ==
    /\ pc = "post"
    /\ IF at \in Marked
       THEN /\ buf' = [b \in Buffers |-> IF b \in Fed(at) THEN Plus(buf[b], buf[at]) ELSE buf[b]]
            /\ stale' = IF at \in stale THEN stale \union Fed(at) ELSE stale
       ELSE UNCHANGED <<buf, stale>>
    /\ Onward("done")
    /\ UNCHANGED <<control, events, snapshot, consumed>>

\* hw goes to the device.
Return ==
    /\ pc = "done"
    /\ pc' = "idle" /\ at' = 1
    /\ flags' = [s \in Stages |-> FALSE]
    /\ targets' = [s \in Stages |-> Master]
    /\ taps' = [s \in Stages |-> {}]
    /\ consumed' = {}
    /\ UNCHANGED <<control, events, buf, stale>>

Callback ==
    \/ Begin \/ AnyActive \/ Dry \/ ReadFlag \/ ReadTarget \/ ReadTaps
    \/ Mix \/ Contended \/ Post \/ Return

MixNext ==
    \/ Callback
    \/ StoreOutput \/ StoreSend \/ Activate
    \/ \E s \in Stages : SetBusRouting(s) \/ LoadPlugin(s) \/ LoadSucceeds(s) \/ LoadFails(s)
    \/ \E e \in Sources : PlayAt(e)

MixSpec == MixInit /\ [][MixNext]_mixVars

\* The device asks for a block, again and again, and no command keeps the
\* scheduler's lock from every one of them.
MixFairSpec == MixSpec /\ WF_mixVars(Callback) /\ SF_mixVars(Mix)

-----------------------------------------------------------------------------
(* Properties.                                                             *)

\* Types of every variable; stages are routed and sent forward only.
MixTypeOK ==
    /\ active \in [Stages -> BOOLEAN] /\ flags \in [Stages -> BOOLEAN]
    /\ \A s \in Stages :
        /\ routing[s] \in {Master} \union {t \in SumStages : t > s}
        /\ targets[s] \in {Master} \union {t \in SumStages : t > s}
        /\ sends[s] \subseteq {t \in AuxStages : t > s}
        /\ taps[s] \subseteq {t \in AuxStages : t > s}
    /\ route = NoCall \/ route \in [pc : {"output", "sends", "activate"}, bus : Stages,
                                    output : SUBSET Buffers, on : SUBSET AuxStages,
                                    off : SUBSET AuxStages, todo : SUBSET Stages]
    /\ loads \in [Stages -> 0 .. MaxLoads] /\ routes \in 0 .. MaxRoutes /\ loaded \in 0 .. MaxLoads
    /\ declared \subseteq Sources /\ undone \subseteq Stages /\ events \subseteq Sources
    /\ pc \in {"idle", "any", "dry", "flags", "targets", "taps", "mix", "post", "done"}
    /\ at \in Stages
    /\ buf \in [Buffers -> [Sources -> Nat]] /\ stale \subseteq Buffers
    /\ consumed \subseteq Sources

\* f[1] + ... + f[n]
Total(f, n) == LET upTo[i \in Nat] == IF i = 0 THEN 0 ELSE upTo[i - 1] + f[i] IN upTo[n]

\* The copies of its signal a stage delivers to hw, by the graph of the snapshot.
Copies[s \in Buffers] ==
    IF s = Master THEN 1
    ELSE Copies[targets[s]]
           + Total([t \in Stages |-> IF t \in taps[s] THEN Copies[t] ELSE 0], LastStage)

\* The edges of the graph of the snapshot, and the stages an active one feeds.
Edges(s) == {targets[s]} \union taps[s]
Joined(s) == \E i \in Stages : flags[i] /\ s \in Edges(i)

\* No inactive stage that is fed feeds one that is neither active nor fed by
\* an active one: the loop does not come to that one, and its signal is lost.
Whole == \A s \in Stages : Joined(s) /\ ~flags[s] => \A t \in Edges(s) \ {Master} : flags[t] \/ Joined(t)

\* Through the graph a callback has read, however it has changed since and
\* whichever stages were active, every event it consumes reaches hw once along
\* each path of output and sends, and nothing else does.
Delivered ==
    pc = "done" /\ Whole =>
        \A e \in Sources : buf[Master][e] = IF e \in consumed THEN Copies[e] ELSE 0

\* What the snapshot is for (output.rs: a different view of the routing in the
\* two passes would let a block's signal out in a later one): hw never carries
\* the signal of an earlier block.
NoBleed == pc = "done" => Master \notin stale

\* A block's signal reaches hw whole, and in that block.
MixedInItsBlock == Delivered /\ NoBleed

\* An event for a bus that was declared is played, and does not wait in the
\* scheduler for ever, unless a failed load has undone the declaration.
Heard == \A e \in Sources : e \in events ~> e \notin events \/ e \in undone

=============================================================================
