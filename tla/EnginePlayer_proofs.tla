------------------------ MODULE EnginePlayer_proofs ------------------------
(***************************************************************************)
(* Proofs about EnginePlayer, for any number of plays, calls, deaths and   *)
(* respawn attempts and any routings.                                      *)
(***************************************************************************)
EXTENDS EnginePlayer, FiniteSetTheorems, TLAPS

Values == Routings \union {"default"}
Senders == Events \union Calls \union {"loop", "user"}
\* Routes are asked for by a call or by the loop.
Requests ==
    {r \in [kind : Kinds, who : Senders, value : Values, anchor : Nat, sample : Nat] :
        r.kind = "route" => r.who \in Calls \union {Loop}}
Replies ==
    {r \in [kind : Kinds, who : Senders, ok : BOOLEAN] :
        r.kind = "route" => r.who \in Calls \union {Loop}}
LoopPlaces == {"none", "backoff", "starting", "handshake", "session", "reload", "reapply"}
LoopStates == [pc : LoopPlaces, attempt : Nat]
CallStates == [pc : {"idle", "sent", "done"}, value : Values, prev : Values, over : BOOLEAN]
Plays == [pc : {"none", "queued", "loading", "sent", "played", "dropped"}, life : Nat]

ProcessTypes ==
    /\ alive \subseteq Nat \ {0} /\ child \in Nat /\ born \in Nat
    /\ ws \in Nat /\ broken \in BOOLEAN /\ running \in BOOLEAN
    /\ anchor \in Nat /\ sampleId \in Nat
WireTypes == wire \in Seq(Requests) /\ replies \in Seq(Replies)
LoopTypes ==
    /\ loop \in LoopStates
    /\ respawning \in BOOLEAN /\ disposed \in BOOLEAN /\ gaveUp \in BOOLEAN
    /\ quit \in {"none", "waiting", "done"} /\ lostRestoring \in BOOLEAN
PluginTypes == declared \in BOOLEAN /\ active \in BOOLEAN
CallTypes == cache \in Values /\ call \in [Calls -> CallStates]
PlayTypes ==
    /\ playing \in BOOLEAN /\ live \in BOOLEAN /\ life \in Nat /\ ev \in [Events -> Plays]
Types == ProcessTypes /\ WireTypes /\ LoopTypes /\ PluginTypes /\ CallTypes /\ PlayTypes

\* Where the respawn loop is decides what the client has.
Starting == loop.pc \in {"backoff", "starting", "handshake"}
Placed ==
    /\ loop.pc \in {"backoff", "starting"} => ws = 0
    /\ loop.pc \in {"handshake", "session", "reload", "reapply"} => ws # 0
    /\ IF Starting THEN ~running ELSE running <=> ws # 0
    /\ respawning <=> loop.pc # "none"
    /\ quit = "none" <=> ~disposed
    /\ quit = "done" => loop.pc = "none" /\ ws = 0
    /\ disposed => ~playing /\ ~live

\* Only the child is not accounted for, and without a socket it is gone.
Accounted ==
    /\ alive \ dropped \subseteq {child}
    /\ ws # 0 => ws = child
    /\ broken => ws \in dropped
    /\ ws = 0 /\ loop.pc # "starting" => alive \subseteq dropped

\* The loop has one request on its way, for the step it waits in.
ForLoop(r) == r.kind = "status" \/ (r.kind \in {"plugin", "route"} /\ r.who = Loop)
Wanted(r) ==
    /\ r.kind = "status" => loop.pc = "session"
    /\ r.kind = "plugin" /\ r.who = Loop => loop.pc = "reload"
    /\ r.kind = "route" /\ r.who = Loop => loop.pc = "reapply"
Waited ==
    /\ ws = 0 => wire = <<>> /\ replies = <<>>
    /\ \A i \in DOMAIN wire : Wanted(wire[i])
    /\ \A i \in DOMAIN replies : Wanted(replies[i])
    /\ \A i, j \in DOMAIN wire : ForLoop(wire[i]) /\ ForLoop(wire[j]) => i = j
    /\ \A i, j \in DOMAIN replies : ForLoop(replies[i]) /\ ForLoop(replies[j]) => i = j
    /\ \A i \in DOMAIN wire, j \in DOMAIN replies : ~(ForLoop(wire[i]) /\ ForLoop(replies[j]))

\* What a play is sent with is this daemon's, or is not used before it is.
Fresh ==
    /\ loop.pc \in {"none", "reload", "reapply"} /\ ws # 0 /\ ~disposed =>
          anchor \in {ws, 0} /\ sampleId \in {ws, 0}
    /\ loop.pc # "none" => \A e \in Events : ev[e].pc # "loading"
    /\ NoStaleDispatch

\* A plugin is active in the daemon it was loaded into, or is about to be loaded again.
Reloaded ==
    /\ active \/ loop.pc = "reload" => declared
    /\ active /\ ws # 0 /\ ~disposed /\ loop.pc \in {"none", "reapply"} => ws \in loaded
    /\ \A i \in DOMAIN replies : replies[i].kind = "plugin" /\ replies[i].ok => ws \in loaded

\* Without a daemon the loop works, has given up, or missed its loss.
Retried == ws = 0 /\ loop.pc = "none" => gaveUp \/ disposed \/ lostRestoring

IInv == Types /\ Placed /\ Accounted /\ Waited /\ Fresh /\ Reloaded /\ Retried
-----------------------------------------------------------------------------
(* The loop, the calls and the plays.                                      *)

LEMMA LoopLeaves ==
  ASSUME LeaveLoop
  PROVE  loop' \in LoopStates /\ loop'.pc = "none" /\ respawning' = FALSE /\ respawning' \in BOOLEAN
BY DEF LeaveLoop, NoLoop, LoopStates, LoopPlaces

LEMMA LoopMoves ==
  ASSUME LoopTypes, NEW pc \in LoopPlaces, At(pc)
  PROVE  loop' \in LoopStates /\ loop'.pc = pc /\ respawning' = respawning
BY DEF LoopTypes, LoopStates, At

LEMMA LoopRetries ==
  ASSUME LoopTypes, gaveUp \in BOOLEAN, Retry
  PROVE  /\ loop' \in LoopStates /\ loop'.pc \in {"none", "backoff"} /\ gaveUp' \in BOOLEAN
         /\ loop'.pc = "none" => respawning' = FALSE /\ (gaveUp' \/ disposed)
         /\ loop'.pc = "backoff" => respawning' = respawning
         /\ playing' \in {playing, FALSE}
<1>1. CASE loop.attempt = MaxAttempts
  BY <1>1, LoopLeaves DEF Retry
<1>2. CASE loop.attempt # MaxAttempts /\ disposed
  BY <1>2, LoopLeaves DEF Retry
<1>3. CASE loop.attempt # MaxAttempts /\ ~disposed
  BY <1>3 DEF Retry, LoopTypes, LoopStates, LoopPlaces
<1> QED
  BY <1>1, <1>2, <1>3

LEMMA CallStep ==
  ASSUME NEW r \in CallStates
  PROVE  /\ [r EXCEPT !.pc = "done"] \in CallStates
         /\ \A b \in BOOLEAN : [r EXCEPT !.over = r.over \/ b] \in CallStates
BY DEF CallStates

LEMMA PlayStep ==
  ASSUME NEW r \in Plays, NEW pc \in {"none", "queued", "loading", "sent", "played", "dropped"}
  PROVE  [r EXCEPT !.pc = pc] \in Plays /\ [r EXCEPT !.pc = pc].pc = pc
BY DEF Plays

LEMMA Unqueued ==
  ASSUME PlayTypes, Unqueue
  PROVE  /\ ev' \in [Events -> Plays] /\ live' = FALSE /\ life' \in Nat
         /\ \A e \in Events : ev'[e].pc = "loading" => ev[e].pc = "loading"
<1>1. \A e \in Events : ev[e] \in Plays /\ [ev[e] EXCEPT !.pc = "dropped"] \in Plays
                        /\ [ev[e] EXCEPT !.pc = "dropped"].pc = "dropped"
  BY PlayStep DEF PlayTypes
<1> QED
  BY <1>1 DEF PlayTypes, Unqueue

\* A lost socket rejects every request: nothing waits for it any more.
LEMMA PendingFailed ==
  ASSUME CallTypes, PlayTypes, PluginTypes, FailPending
  PROVE  /\ wire' = <<>> /\ replies' = <<>>
         /\ call' \in [Calls -> CallStates] /\ ev' \in [Events -> Plays]
         /\ \A e \in Events : ev'[e].pc # "loading"
         /\ active' \in BOOLEAN /\ (active' => active /\ loop.pc # "reload")
<1>1. \A e \in Events : ev[e] \in Plays /\ [ev[e] EXCEPT !.pc = "dropped"] \in Plays
                        /\ [ev[e] EXCEPT !.pc = "dropped"].pc = "dropped"
  BY PlayStep DEF PlayTypes
<1>2. \A c \in Calls : Rejected(c) \in CallStates
  BY CallStep DEF CallTypes, Rejected
<1>3. call' \in [Calls -> CallStates]
  BY <1>2 DEF FailPending
<1>4. ev' \in [Events -> Plays] /\ \A e \in Events : ev'[e].pc # "loading"
  BY <1>1 DEF FailPending
<1>5. active' \in BOOLEAN /\ (active' => active /\ loop.pc # "reload")
  BY DEF FailPending, PluginTypes
<1> QED
  BY <1>3, <1>4, <1>5 DEF FailPending

-----------------------------------------------------------------------------
(* The wire.                                                               *)

Unasked(s) == \A i \in DOMAIN s : ~ForLoop(s[i])

\* The answer at the head may be the loop's, and is then the only sign of it.
LEMMA HeadAnswer ==
  ASSUME WireTypes, Waited, replies # <<>>
  PROVE  /\ Head(replies) \in Replies /\ Wanted(Head(replies)) /\ ws # 0
         /\ Tail(replies) \in Seq(Replies)
         /\ \A i \in DOMAIN Tail(replies) :
               i + 1 \in DOMAIN replies /\ Tail(replies)[i] = replies[i + 1]
         /\ ForLoop(Head(replies)) => Unasked(wire) /\ Unasked(Tail(replies))
<1>1. /\ Head(replies) = replies[1] /\ 1 \in DOMAIN replies /\ Tail(replies) \in Seq(Replies)
      /\ \A i \in DOMAIN Tail(replies) :
            i + 1 \in DOMAIN replies /\ i + 1 # 1 /\ Tail(replies)[i] = replies[i + 1]
  BY DEF WireTypes
<1>2. Head(replies) \in Replies /\ Wanted(Head(replies)) /\ ws # 0
  BY <1>1 DEF WireTypes, Waited
<1>3. ForLoop(Head(replies)) => Unasked(wire) /\ Unasked(Tail(replies))
  BY <1>1 DEF Waited, Unasked
<1> QED
  BY <1>1, <1>2, <1>3

LEMMA NobodyAsks ==
  ASSUME NEW w \in Seq(Requests), NEW q \in Seq(Replies), Unasked(w), Unasked(q),
         wire' = w, replies' = q, ws' # 0
  PROVE  WireTypes' /\ Waited'
BY DEF WireTypes, Waited, Wanted, Unasked, ForLoop

LEMMA LoopAsks ==
  ASSUME NEW w \in Seq(Requests), NEW q \in Seq(Replies), Unasked(w), Unasked(q),
         NEW r \in Requests, wire' = Append(w, r), replies' = q, ws' # 0,
         ForLoop(r),
         r.kind = "status" => loop'.pc = "session",
         r.kind = "plugin" => loop'.pc = "reload",
         r.kind = "route" => loop'.pc = "reapply"
  PROVE  WireTypes' /\ Waited'
<1>1. /\ wire' \in Seq(Requests) /\ DOMAIN wire' = DOMAIN w \union {Len(w) + 1}
      /\ wire'[Len(w) + 1] = r /\ \A i \in DOMAIN w : wire'[i] = w[i]
  OBVIOUS
<1>2. \A i \in DOMAIN wire' : ForLoop(wire'[i]) => i = Len(w) + 1 /\ wire'[i] = r
  BY <1>1 DEF Unasked
<1>3. \A i \in DOMAIN replies' : ~ForLoop(replies'[i])
  BY DEF Unasked
<1> QED
  BY <1>1, <1>2, <1>3 DEF WireTypes, Waited, Wanted, ForLoop

LEMMA OtherAsks ==
  ASSUME WireTypes, Waited, NEW r \in Requests, ~ForLoop(r), ws # 0, wire' = Append(wire, r),
         UNCHANGED <<replies, ws, loop>>
  PROVE  WireTypes' /\ Waited'
<1>1. /\ wire' \in Seq(Requests) /\ DOMAIN wire' = DOMAIN wire \union {Len(wire) + 1}
      /\ wire'[Len(wire) + 1] = r /\ \A i \in DOMAIN wire : wire'[i] = wire[i]
  BY DEF WireTypes
<1>2. \A i \in DOMAIN wire' : ForLoop(wire'[i]) => i \in DOMAIN wire
  BY <1>1
<1> QED
  BY <1>1, <1>2 DEF WireTypes, Waited, Wanted, ForLoop

\* What is not a play is not dispatched with a clock or a sample.
LEMMA NoPlayAdded ==
  ASSUME WireTypes, NoStaleDispatch, UNCHANGED ws, NEW r \in Requests, wire' = Append(wire, r),
         r.kind = "play" => r.anchor \in {ws, 0} /\ r.sample = ws
  PROVE  NoStaleDispatch'
<1>1. /\ DOMAIN wire' = DOMAIN wire \union {Len(wire) + 1}
      /\ wire'[Len(wire) + 1] = r /\ \A i \in DOMAIN wire : wire'[i] = wire[i]
  BY DEF WireTypes
<1> QED
  BY <1>1 DEF NoStaleDispatch

LEMMA RequestTypes ==
  ASSUME ProcessTypes, CallTypes, NEW kind \in Kinds, NEW v \in Values, NEW n \in Nat,
         NEW who \in Senders, kind = "route" => who \in Calls \union {Loop}
  PROVE  /\ Request(kind, who, v, n) \in Requests
         /\ Request(kind, who, v, n).kind = kind /\ Request(kind, who, v, n).who = who
         /\ Request(kind, who, v, n).anchor = anchor /\ Request(kind, who, v, n).sample = n
BY DEF ProcessTypes, Request, Requests
-----------------------------------------------------------------------------
(* The daemon and the socket.                                              *)

LEMMA DaemonDiesKeeps == ASSUME IInv, DaemonDies PROVE IInv'
<1> USE DEF IInv, Types, DaemonDies
<1>1. ProcessTypes'
  <2>1. alive' \subseteq alive
    OBVIOUS
  <2> QED
    BY <2>1 DEF ProcessTypes, client, clock, samples
<1>2. Accounted'
  BY DEF Accounted, client, supervisor
<1>3. /\ WireTypes' /\ LoopTypes' /\ PluginTypes' /\ CallTypes' /\ PlayTypes'
      /\ Placed' /\ Waited' /\ Fresh' /\ Reloaded' /\ Retried'
  BY DEF WireTypes, LoopTypes, PluginTypes, CallTypes, PlayTypes, Placed, Starting, Waited, Wanted,
         Fresh, NoStaleDispatch, Reloaded, Retried, client, served, supervisor, clock, samples,
         plugin, routing, plays, history
<1> QED
  BY <1>1, <1>2, <1>3

LEMMA SocketBreaksKeeps == ASSUME IInv, SocketBreaks PROVE IInv'
<1> USE DEF IInv, Types, SocketBreaks
<1>1. ProcessTypes'
  BY DEF ProcessTypes, clock, samples
<1>2. Accounted'
  BY DEF Accounted, supervisor
<1>3. /\ WireTypes' /\ LoopTypes' /\ PluginTypes' /\ CallTypes' /\ PlayTypes'
      /\ Placed' /\ Waited' /\ Fresh' /\ Reloaded' /\ Retried'
  BY DEF WireTypes, LoopTypes, PluginTypes, CallTypes, PlayTypes, Placed, Starting, Waited, Wanted,
         Fresh, NoStaleDispatch, Reloaded, Retried, served, supervisor, clock, samples, plugin,
         routing, plays, history
<1> QED
  BY <1>1, <1>2, <1>3

LEMMA StreamStatsKeeps == ASSUME IInv, StreamStats PROVE IInv'
<1> USE DEF IInv, Types, StreamStats
<1>1. ProcessTypes'
  BY DEF ProcessTypes, daemons, client, samples
<1>2. Fresh'
  BY DEF Fresh, NoStaleDispatch, client, supervisor, samples, plays
<1>3. /\ WireTypes' /\ LoopTypes' /\ PluginTypes' /\ CallTypes' /\ PlayTypes'
      /\ Placed' /\ Accounted' /\ Waited' /\ Reloaded' /\ Retried'
  BY DEF WireTypes, LoopTypes, PluginTypes, CallTypes, PlayTypes, Placed, Starting, Accounted,
         Waited, Wanted, Reloaded, Retried, daemons, client, served, supervisor, plugin, routing,
         plays, history
<1> QED
  BY <1>1, <1>2, <1>3

\* A request becomes the answer to it, behind those before it.
LEMMA ServeKeeps == ASSUME IInv, Serve PROVE IInv'
<1> USE DEF IInv, Types
<1>1. PICK ok \in BOOLEAN :
        /\ replies' = Append(replies, [kind |-> Head(wire).kind, who |-> Head(wire).who, ok |-> ok])
        /\ loaded' = IF Head(wire).kind = "plugin" /\ ok THEN loaded \union {ws} ELSE loaded
  BY DEF Serve
<1>2. wire # <<>> /\ wire' = Tail(wire) /\ ws # 0
  BY DEF Serve, Connected, ProcessTypes
<1>3. PICK k \in Kinds, who \in Senders :
         /\ k = Head(wire).kind /\ who = Head(wire).who
         /\ k = "route" => who \in Calls \union {Loop}
  <2>1. Head(wire) \in Requests
    BY <1>2 DEF WireTypes
  <2> QED
    BY <2>1 DEF Requests
<1> DEFINE made == [kind |-> k, who |-> who, ok |-> ok]
<1>4. made \in Replies /\ made.kind = k /\ made.who = who /\ made.ok = ok
  BY <1>3 DEF Replies, Senders
<1>5. replies' = Append(replies, made)
  BY <1>1, <1>3
<1> HIDE DEF made
<1>6. PICK n \in Nat : n = Len(replies) + 1
  BY DEF WireTypes
<1>7. /\ replies' \in Seq(Replies) /\ DOMAIN replies' = DOMAIN replies \union {n}
      /\ n \notin DOMAIN replies /\ replies'[n] = made
      /\ \A i \in DOMAIN replies : replies'[i] = replies[i]
  BY <1>4, <1>5, <1>6 DEF WireTypes
<1>8. /\ wire' \in Seq(Requests) /\ 1 \in DOMAIN wire /\ Head(wire) = wire[1]
      /\ \A i \in DOMAIN wire' : i + 1 \in DOMAIN wire /\ i + 1 # 1 /\ wire'[i] = wire[i + 1]
  BY <1>2 DEF WireTypes
<1>9. ForLoop(made) <=> ForLoop(wire[1])
  BY <1>3, <1>4, <1>8 DEF ForLoop
<1>10. WireTypes'
  BY <1>7, <1>8 DEF WireTypes
<1>11. Waited'
  <2>1. \A i \in DOMAIN wire' : Wanted(wire'[i]) /\ (ForLoop(wire'[i]) => ~ForLoop(wire[1]))
    BY <1>8 DEF Waited
  <2>2. Wanted(made)
    BY <1>3, <1>4, <1>8 DEF Waited, Wanted
  <2>3. \A i \in DOMAIN replies' :
           Wanted(replies'[i]) /\ (ForLoop(replies'[i]) /\ i # n => ~ForLoop(wire[1]))
    BY <1>7, <1>8, <2>2 DEF Waited
  <2>4. \A i, j \in DOMAIN wire' : ForLoop(wire'[i]) /\ ForLoop(wire'[j]) => i = j
    <3>1. \A i, j \in DOMAIN wire' :
             ForLoop(wire'[i]) /\ ForLoop(wire'[j]) => i + 1 = j + 1 /\ i \in Int /\ j \in Int
      BY <1>8 DEF Waited
    <3> QED
      BY <3>1
  <2>5. \A i, j \in DOMAIN replies' : ForLoop(replies'[i]) /\ ForLoop(replies'[j]) => i = j
    BY <1>7, <1>9, <2>3 DEF Waited
  <2>6. \A i \in DOMAIN wire', j \in DOMAIN replies' : ~(ForLoop(wire'[i]) /\ ForLoop(replies'[j]))
    BY <1>7, <1>8, <1>9, <2>1 DEF Waited
  <2>7. UNCHANGED <<ws, loop>>
    BY DEF Serve, supervisor
  <2> QED
    BY <1>2, <2>1, <2>3, <2>4, <2>5, <2>6, <2>7 DEF Waited, Wanted
<1>12. Fresh'
  <2>1. NoStaleDispatch'
    BY <1>8 DEF Fresh, NoStaleDispatch, Serve
  <2> QED
    BY <2>1 DEF Fresh, Serve, supervisor, clock, samples, plays
<1>13. Reloaded'
  BY <1>1, <1>3, <1>4, <1>7 DEF Reloaded, Serve, supervisor, plugin
<1>14. /\ ProcessTypes' /\ LoopTypes' /\ PluginTypes' /\ CallTypes' /\ PlayTypes'
       /\ Placed' /\ Accounted' /\ Retried'
  BY DEF ProcessTypes, LoopTypes, PluginTypes, CallTypes, PlayTypes, Placed, Starting, Accounted,
         Retried, Serve, daemons, supervisor, clock, samples, plugin, routing, plays, history
<1> QED
  BY <1>10, <1>11, <1>12, <1>13, <1>14

-----------------------------------------------------------------------------
(* The respawn loop.                                                       *)

LEMMA BackoffElapsedKeeps == ASSUME IInv, BackoffElapsed PROVE IInv'
<1> USE DEF IInv, Types, BackoffElapsed
<1>1. /\ loop.pc = "backoff" /\ ws = 0
      /\ UNCHANGED <<ws, running, wire, replies, disposed, quit, gaveUp, clock, samples, loaded,
                     plugin, routing, plays, history>>
  BY DEF Placed, served
<1>2. CASE disposed
  <2>1. LeaveLoop /\ UNCHANGED daemons
    BY <1>2
  <2>2. loop' \in LoopStates /\ loop'.pc = "none" /\ respawning' = FALSE /\ respawning' \in BOOLEAN
    BY <2>1, LoopLeaves
  <2>3. ProcessTypes' /\ LoopTypes' /\ Accounted' /\ Waited'
    BY <1>1, <2>1, <2>2
    DEF ProcessTypes, LoopTypes, Accounted, Waited, daemons, clock, samples, history
  <2>4. Placed' /\ Fresh' /\ Reloaded' /\ Retried'
    BY <1>1, <1>2, <2>2
    DEF Placed, Starting, Fresh, NoStaleDispatch, Reloaded, Retried, Waited, plays, plugin
  <2>5. WireTypes' /\ PluginTypes' /\ CallTypes' /\ PlayTypes'
    BY <1>1 DEF WireTypes, PluginTypes, CallTypes, PlayTypes, plugin, routing, plays
  <2> QED
    BY <2>3, <2>4, <2>5
<1>3. CASE ~disposed
  <2>1. /\ born' = born + 1 /\ child' = born + 1 /\ alive' = alive \union {born + 1}
        /\ At("starting") /\ UNCHANGED dropped
    BY <1>3
  <2>2. loop' \in LoopStates /\ loop'.pc = "starting" /\ respawning' = respawning
    BY <2>1, LoopMoves DEF LoopPlaces
  <2>3. ProcessTypes' /\ LoopTypes' /\ Accounted' /\ Waited'
    BY <1>1, <2>1, <2>2
    DEF ProcessTypes, LoopTypes, Accounted, Waited, clock, samples, history
  <2>4. Placed' /\ Fresh' /\ Reloaded' /\ Retried'
    BY <1>1, <1>3, <2>2
    DEF Placed, Starting, Fresh, NoStaleDispatch, Reloaded, Retried, Waited, plays, plugin
  <2>5. WireTypes' /\ PluginTypes' /\ CallTypes' /\ PlayTypes'
    BY <1>1 DEF WireTypes, PluginTypes, CallTypes, PlayTypes, plugin, routing, plays
  <2> QED
    BY <2>3, <2>4, <2>5
<1> QED
  BY <1>2, <1>3

LEMMA ConnectKeeps == ASSUME IInv, Connect PROVE IInv'
<1> USE DEF IInv, Types, Connect
<1>1. loop' \in LoopStates /\ loop'.pc = "handshake" /\ respawning' = respawning
  BY LoopMoves DEF LoopPlaces
<1>2. ws' = child /\ child \in alive /\ child # 0 /\ ws = 0 /\ wire = <<>> /\ replies = <<>>
  BY DEF ProcessTypes, Placed, Waited
<1>3. ProcessTypes' /\ LoopTypes' /\ Accounted' /\ Waited'
  <2>1. broken' = FALSE /\ broken' \in BOOLEAN
    OBVIOUS
  <2>2. ProcessTypes'
    BY <1>2, <2>1 DEF ProcessTypes, daemons, clock, samples
  <2>3. LoopTypes'
    BY <1>1 DEF LoopTypes, history
  <2>4. Accounted'
    BY <1>1, <1>2, <2>1 DEF Accounted, daemons
  <2>5. Waited'
    BY <1>2 DEF Waited
  <2> QED
    BY <2>2, <2>3, <2>4, <2>5
<1>4. Placed' /\ Fresh' /\ Reloaded' /\ Retried'
  BY <1>1, <1>2 DEF Placed, Starting, Fresh, NoStaleDispatch, Reloaded, Retried, plays, plugin
<1>5. WireTypes' /\ PluginTypes' /\ CallTypes' /\ PlayTypes'
  BY DEF WireTypes, PluginTypes, CallTypes, PlayTypes, plugin, routing, plays
<1> QED
  BY <1>3, <1>4, <1>5

LEMMA HandshakeKeeps == ASSUME IInv, Handshake PROVE IInv'
<1> USE DEF IInv, Types
<1>1. /\ loop.pc = "handshake" /\ ws # 0 /\ running' = TRUE /\ running' \in BOOLEAN
      /\ UNCHANGED <<daemons, ws, broken, replies, loaded, disposed, quit, gaveUp, clock, samples,
                     plugin, routing, plays, history>>
  BY DEF Handshake, Placed, served
<1>2. Unasked(wire) /\ Unasked(replies) /\ wire \in Seq(Requests) /\ replies \in Seq(Replies)
  BY <1>1 DEF Waited, Wanted, ForLoop, Unasked, WireTypes
<1>3. ProcessTypes' /\ PluginTypes' /\ CallTypes' /\ PlayTypes'
  BY <1>1
  DEF ProcessTypes, PluginTypes, CallTypes, PlayTypes, daemons, clock, samples, plugin, routing,
      plays
<1>4. CASE disposed
  <2>1. LeaveLoop /\ UNCHANGED wire
    BY <1>4 DEF Handshake
  <2>2. loop' \in LoopStates /\ loop'.pc = "none" /\ respawning' = FALSE /\ respawning' \in BOOLEAN
    BY <2>1, LoopLeaves
  <2>3. WireTypes' /\ Waited'
    BY <1>1, <1>2, <2>1, NobodyAsks
  <2>4. LoopTypes' /\ Placed' /\ Accounted'
    BY <1>1, <1>4, <2>2 DEF LoopTypes, Placed, Starting, Accounted, daemons, history, plays
  <2>5. Fresh' /\ Reloaded' /\ Retried'
    BY <1>1, <1>4, <2>1, <2>2
    DEF Fresh, NoStaleDispatch, Reloaded, Retried, plays, plugin, history
  <2> QED
    BY <1>3, <2>3, <2>4, <2>5
<1>5. CASE ~disposed
  <2>1. At("session") /\ wire' = Append(wire, Ask("status", Loop))
    BY <1>5 DEF Handshake
  <2>2. loop' \in LoopStates /\ loop'.pc = "session" /\ respawning' = respawning
    BY <2>1, LoopMoves DEF LoopPlaces
  <2>3. PICK r \in Requests : r = Ask("status", Loop) /\ r.kind = "status"
    BY RequestTypes DEF Ask, Loop, Kinds, Values, Senders
  <2>4. WireTypes' /\ Waited'
    BY <1>1, <1>2, <2>1, <2>2, <2>3, LoopAsks DEF ForLoop
  <2>5. LoopTypes' /\ Placed' /\ Accounted'
    BY <1>1, <1>5, <2>2 DEF LoopTypes, Placed, Starting, Accounted, daemons, history, plays
  <2>6. NoStaleDispatch'
    BY <1>1, <2>1, <2>3, NoPlayAdded DEF Fresh
  <2>7. Fresh' /\ Reloaded' /\ Retried'
    BY <1>1, <2>2, <2>6 DEF Fresh, Reloaded, Retried, plays, plugin
  <2> QED
    BY <1>3, <2>4, <2>5, <2>7
<1> QED
  BY <1>4, <1>5

\* The child of a failed start is killed, and the socket is gone with it.
LEMMA StartFailsKeeps == ASSUME IInv, StartFails PROVE IInv'
<1> USE DEF IInv, Types
<1>1. /\ loop.pc \in {"starting", "handshake"} /\ alive' = alive \ {child} /\ child' = 0
      /\ ws' = 0 /\ broken' = FALSE /\ broken' \in BOOLEAN /\ Retry /\ FailPending
      /\ UNCHANGED <<born, dropped, running, disposed, quit, anchor, sampleId, declared, cache,
                     live, life, lostRestoring>>
  BY DEF StartFails, KillChild, clock, history
<1>2. /\ loop' \in LoopStates /\ loop'.pc \in {"none", "backoff"} /\ gaveUp' \in BOOLEAN
      /\ loop'.pc = "none" => respawning' = FALSE /\ (gaveUp' \/ disposed)
      /\ loop'.pc = "backoff" => respawning' = respawning
      /\ playing' \in {playing, FALSE}
  BY <1>1, LoopRetries DEF LoopTypes
<1>3. /\ wire' = <<>> /\ replies' = <<>>
      /\ call' \in [Calls -> CallStates] /\ ev' \in [Events -> Plays]
      /\ \A e \in Events : ev'[e].pc # "loading"
      /\ active' \in BOOLEAN /\ (active' => active /\ loop.pc # "reload")
  BY <1>1, PendingFailed
<1>4. ProcessTypes' /\ PluginTypes' /\ CallTypes'
  BY <1>1, <1>3 DEF ProcessTypes, PluginTypes, CallTypes
<1>5. WireTypes' /\ Waited'
  BY <1>1, <1>3 DEF WireTypes, Waited
<1>6. PlayTypes'
  <2>1. playing' \in BOOLEAN
    BY <1>2 DEF PlayTypes
  <2> QED
    BY <1>1, <1>3, <2>1 DEF PlayTypes
<1>7. LoopTypes'
  <2>1. respawning' \in BOOLEAN
    BY <1>2 DEF LoopTypes
  <2> QED
    BY <1>1, <1>2, <2>1 DEF LoopTypes
<1>8. Placed' /\ Accounted' /\ Retried'
  <2>1. disposed' => ~playing' /\ ~live'
    BY <1>1, <1>2 DEF Placed
  <2>2. (respawning' <=> loop'.pc # "none") /\ ~running'
    BY <1>1, <1>2 DEF Placed, Starting
  <2>3. Placed'
    BY <1>1, <1>2, <2>1, <2>2 DEF Placed, Starting
  <2>4. alive' \subseteq dropped'
    BY <1>1 DEF Accounted
  <2>5. Accounted' /\ Retried'
    BY <1>1, <1>2, <2>4 DEF Accounted, Retried
  <2> QED
    BY <2>3, <2>5
<1>9. Fresh' /\ Reloaded'
  BY <1>1, <1>2, <1>3 DEF Fresh, NoStaleDispatch, Reloaded
<1> QED
  BY <1>4, <1>5, <1>6, <1>7, <1>8, <1>9

LEMMA SocketCloseKeeps == ASSUME IInv, SocketClose PROVE IInv'
<1> USE DEF IInv, Types
<1>1. /\ ws # 0 /\ ~Connected /\ loop.pc # "handshake"
      /\ running' = FALSE /\ ws' = 0 /\ broken' = FALSE /\ FailPending
      /\ broken' \in BOOLEAN /\ running' \in BOOLEAN
      /\ lostRestoring' = (lostRestoring \/ Restoring)
      /\ anchor' \in {0, anchor}
      /\ UNCHANGED <<alive, child, born, dropped, disposed, quit, sampleId, declared, cache,
                     live, life>>
  BY DEF SocketClose, daemons
<1>2. /\ loop' \in LoopStates /\ loop'.pc \in {"none", "backoff"} /\ gaveUp' \in BOOLEAN
      /\ loop'.pc = "none" => respawning' = FALSE /\ (gaveUp' \/ disposed \/ Restoring)
      /\ loop'.pc = "backoff" => respawning' = TRUE
      /\ playing' \in {playing, FALSE}
  <2>1. CASE loop.pc = "session"
    <3>1. SessionLost
      BY <2>1 DEF SocketClose, Restoring
    <3>2. respawning = TRUE
      BY <2>1 DEF Placed, LoopTypes
    <3>3. CASE disposed
      BY <3>1, <3>3, LoopLeaves DEF SessionLost, LoopTypes
    <3>4. CASE ~disposed
      BY <3>1, <3>2, <3>4, LoopRetries DEF SessionLost, LoopTypes
    <3> QED
      BY <3>3, <3>4
  <2>2. CASE Restoring
    <3>1. LeaveLoop /\ UNCHANGED <<gaveUp, playing>>
      BY <2>2 DEF SocketClose, Restoring
    <3> QED
      BY <2>2, <3>1, LoopLeaves DEF LoopTypes
  <2>3. CASE loop.pc = "none" /\ ~disposed
    <3>1. /\ loop' = [pc |-> "backoff", attempt |-> 1] /\ respawning' = TRUE
          /\ UNCHANGED <<gaveUp, playing>>
      BY <2>3 DEF SocketClose, Restoring
    <3> QED
      BY <3>1 DEF LoopStates, LoopPlaces, LoopTypes
  <2>4. CASE loop.pc = "none" /\ disposed
    <3>1. UNCHANGED <<loop, respawning, gaveUp, playing>>
      BY <2>4 DEF SocketClose, Restoring
    <3> QED
      BY <2>4, <3>1 DEF Placed, LoopTypes
  <2> QED
    BY <1>1, <2>1, <2>2, <2>3, <2>4 DEF Placed, LoopTypes, LoopStates, LoopPlaces, Restoring
<1>3. /\ wire' = <<>> /\ replies' = <<>>
      /\ call' \in [Calls -> CallStates] /\ ev' \in [Events -> Plays]
      /\ \A e \in Events : ev'[e].pc # "loading"
      /\ active' \in BOOLEAN /\ (active' => active /\ loop.pc # "reload")
  BY <1>1, PendingFailed
<1>4. ProcessTypes' /\ PluginTypes' /\ CallTypes'
  BY <1>1, <1>3 DEF ProcessTypes, PluginTypes, CallTypes
<1>5. WireTypes' /\ Waited'
  BY <1>1, <1>3 DEF WireTypes, Waited
<1>6. PlayTypes'
  <2>1. playing' \in BOOLEAN
    BY <1>2 DEF PlayTypes
  <2> QED
    BY <1>1, <1>3, <2>1 DEF PlayTypes
<1>7. LoopTypes'
  <2>1. respawning' \in BOOLEAN
    BY <1>2
  <2>2. lostRestoring' \in BOOLEAN
    BY <1>1
  <2> QED
    BY <1>1, <1>2, <2>1, <2>2 DEF LoopTypes
<1>8. Placed' /\ Accounted' /\ Retried'
  <2>1. disposed' => ~playing' /\ ~live'
    BY <1>1, <1>2 DEF Placed
  <2>2. (respawning' <=> loop'.pc # "none") /\ ~running'
    BY <1>1, <1>2
  <2>3. Placed'
    BY <1>1, <1>2, <2>1, <2>2 DEF Placed, Starting
  <2>4. alive' \subseteq dropped'
    BY <1>1 DEF Accounted, Connected
  <2>5. Accounted'
    BY <1>1, <1>2, <2>4 DEF Accounted
  <2>6. Retried'
    BY <1>1, <1>2 DEF Retried
  <2> QED
    BY <2>3, <2>5, <2>6
<1>9. Fresh' /\ Reloaded'
  BY <1>1, <1>2, <1>3 DEF Fresh, NoStaleDispatch, Reloaded
<1> QED
  BY <1>4, <1>5, <1>6, <1>7, <1>8, <1>9


-----------------------------------------------------------------------------
(* Answers.                                                                *)

\* An answer that leaves the loop where it is leaves it with what it waits for.
LEMMA Answered ==
  ASSUME WireTypes, Waited, replies # <<>>, replies' = Tail(replies),
         UNCHANGED <<wire, ws, loop>>
  PROVE  WireTypes' /\ Waited'
<1>1. /\ ws # 0 /\ Tail(replies) \in Seq(Replies)
      /\ \A i \in DOMAIN replies' :
            i + 1 \in DOMAIN replies /\ replies'[i] = replies[i + 1] /\ i \in Int
  BY HeadAnswer
<1>2. \A i, j \in DOMAIN replies' : ForLoop(replies'[i]) /\ ForLoop(replies'[j]) => i = j
  <2>1. \A i, j \in DOMAIN replies' :
           ForLoop(replies'[i]) /\ ForLoop(replies'[j]) => i + 1 = j + 1
    BY <1>1 DEF Waited
  <2> QED
    BY <1>1, <2>1
<1>3. \A i \in DOMAIN replies' : Wanted(replies'[i])
  BY <1>1 DEF Waited
<1>4. \A i \in DOMAIN wire', j \in DOMAIN replies' : ~(ForLoop(wire'[i]) /\ ForLoop(replies'[j]))
  BY <1>1 DEF Waited
<1>5. WireTypes'
  BY <1>1 DEF WireTypes
<1> QED
  BY <1>1, <1>2, <1>3, <1>4, <1>5 DEF Waited, Wanted

LEMMA RepliesShrink ==
  ASSUME WireTypes, Waited, Reloaded, replies # <<>>, replies' = Tail(replies),
         UNCHANGED <<loaded, ws>>
  PROVE  \A i \in DOMAIN replies' : replies'[i].kind = "plugin" /\ replies'[i].ok => ws' \in loaded'
<1>1. \A i \in DOMAIN replies' : i + 1 \in DOMAIN replies /\ replies'[i] = replies[i + 1]
  BY HeadAnswer
<1> QED
  BY <1>1 DEF Reloaded

\* What comes after the plugins: the routings, or the end of the loop.
LEMMA ReapplyMoves ==
  ASSUME ProcessTypes, WireTypes, CallTypes, LoopTypes, Unasked(wire), Unasked(replies'),
         replies' \in Seq(Replies), ws' = ws, ws # 0, Reapply
  PROVE  /\ WireTypes' /\ Waited' /\ loop' \in LoopStates
         /\ loop'.pc \in {"none", "reapply"} /\ respawning' \in BOOLEAN
         /\ loop'.pc = "none" => respawning' = FALSE
         /\ loop'.pc = "reapply" => respawning' = respawning
         /\ NoStaleDispatch => NoStaleDispatch'
<1>1. wire \in Seq(Requests)
  BY DEF WireTypes
<1>2. CASE cache = "default"
  <2>1. LeaveLoop /\ UNCHANGED wire
    BY <1>2 DEF Reapply
  <2>2. loop' \in LoopStates /\ loop'.pc = "none" /\ respawning' = FALSE /\ respawning' \in BOOLEAN
    BY <2>1, LoopLeaves
  <2>3. WireTypes' /\ Waited'
    BY <1>1, <2>1, NobodyAsks
  <2>4. NoStaleDispatch => NoStaleDispatch'
    BY <2>1 DEF NoStaleDispatch
  <2> QED
    BY <2>2, <2>3, <2>4
<1>3. CASE cache # "default"
  <2>1. At("reapply") /\ wire' = Append(wire, Request("route", Loop, cache, 0))
    BY <1>3 DEF Reapply
  <2>2. loop' \in LoopStates /\ loop'.pc = "reapply" /\ respawning' = respawning
    BY <2>1, LoopMoves DEF LoopPlaces
  <2>3. PICK r \in Requests :
          r = Request("route", Loop, cache, 0) /\ r.kind = "route" /\ r.who = Loop
    BY RequestTypes DEF Loop, Kinds, CallTypes, Senders
  <2>4. WireTypes' /\ Waited'
    BY <1>1, <2>1, <2>2, <2>3, LoopAsks DEF ForLoop
  <2>5. NoStaleDispatch => NoStaleDispatch'
    BY <2>1, <2>3, NoPlayAdded
  <2> QED
    BY <2>2, <2>4, <2>5 DEF LoopTypes
<1> QED
  BY <1>2, <1>3

LEMMA RestoreMoves ==
  ASSUME ProcessTypes, WireTypes, CallTypes, LoopTypes, Unasked(wire), Unasked(replies'),
         replies' \in Seq(Replies), ws' = ws, ws # 0, Restore
  PROVE  /\ WireTypes' /\ Waited' /\ loop' \in LoopStates
         /\ loop'.pc \in {"none", "reload", "reapply"} /\ respawning' \in BOOLEAN
         /\ loop'.pc = "none" => respawning' = FALSE
         /\ loop'.pc # "none" => respawning' = respawning
         /\ loop'.pc = "reload" <=> declared
         /\ NoStaleDispatch => NoStaleDispatch'
<1>1. wire \in Seq(Requests)
  BY DEF WireTypes
<1>2. CASE ~declared
  <2>1. Reapply
    BY <1>2 DEF Restore
  <2> QED
    BY <1>2, <2>1, ReapplyMoves
<1>3. CASE declared
  <2>1. At("reload") /\ wire' = Append(wire, Ask("plugin", Loop))
    BY <1>3 DEF Restore
  <2>2. loop' \in LoopStates /\ loop'.pc = "reload" /\ respawning' = respawning
    BY <2>1, LoopMoves DEF LoopPlaces
  <2>3. PICK r \in Requests : r = Ask("plugin", Loop) /\ r.kind = "plugin" /\ r.who = Loop
    BY RequestTypes DEF Ask, Loop, Kinds, Values, Senders
  <2>4. WireTypes' /\ Waited'
    BY <1>1, <2>1, <2>2, <2>3, LoopAsks DEF ForLoop
  <2>5. NoStaleDispatch => NoStaleDispatch'
    BY <2>1, <2>3, NoPlayAdded
  <2> QED
    BY <1>3, <2>2, <2>4, <2>5 DEF LoopTypes
<1> QED
  BY <1>2, <1>3

LEMMA StatusAnsweredKeeps == ASSUME IInv, StatusAnswered PROVE IInv'
<1> USE DEF IInv, Types
<1>1. /\ replies # <<>> /\ Head(replies).kind = "status" /\ replies' = Tail(replies)
      /\ anchor' = ws
      /\ UNCHANGED <<daemons, ws, broken, running, loaded, disposed, quit, gaveUp, plugin, routing,
                     plays, history>>
  BY DEF StatusAnswered, Answer, served
<1>2. /\ ws # 0 /\ loop.pc = "session" /\ replies' \in Seq(Replies)
      /\ Unasked(wire) /\ Unasked(replies')
  BY <1>1, HeadAnswer DEF Wanted, ForLoop
<1>3. \A i \in DOMAIN replies' : replies'[i].kind = "plugin" /\ replies'[i].ok => ws' \in loaded'
  BY <1>1, RepliesShrink
<1>4. PluginTypes' /\ CallTypes' /\ PlayTypes'
  BY <1>1 DEF PluginTypes, CallTypes, PlayTypes, plugin, routing, plays
<1>5. Accounted' /\ Retried'
  BY <1>1, <1>2 DEF Accounted, Retried, daemons
<1>6. CASE disposed
  <2>1. LeaveLoop /\ UNCHANGED <<sampleId, wire>>
    BY <1>6 DEF StatusAnswered
  <2>2. loop' \in LoopStates /\ loop'.pc = "none" /\ respawning' = FALSE /\ respawning' \in BOOLEAN
    BY <2>1, LoopLeaves
  <2>3. WireTypes' /\ Waited'
    <3>1. wire \in Seq(Requests) /\ ws' # 0
      BY <1>1, <1>2 DEF WireTypes
    <3> QED
      BY <1>2, <2>1, <3>1, NobodyAsks
  <2>4. ProcessTypes' /\ LoopTypes'
    BY <1>1, <2>1, <2>2 DEF ProcessTypes, LoopTypes, daemons, history
  <2>5. Placed'
    BY <1>1, <1>2, <2>2 DEF Placed, Starting, plays
  <2>6. Fresh' /\ Reloaded'
    BY <1>1, <1>3, <1>6, <2>1, <2>2 DEF Fresh, NoStaleDispatch, Reloaded, plugin, plays
  <2> QED
    BY <1>4, <1>5, <2>3, <2>4, <2>5, <2>6
<1>7. CASE ~disposed
  <2>1. sampleId' = 0 /\ Restore
    BY <1>7 DEF StatusAnswered
  <2>2. /\ WireTypes' /\ Waited' /\ loop' \in LoopStates
        /\ loop'.pc \in {"none", "reload", "reapply"} /\ respawning' \in BOOLEAN
        /\ loop'.pc = "none" => respawning' = FALSE
        /\ loop'.pc # "none" => respawning' = respawning
        /\ loop'.pc = "reload" <=> declared
        /\ NoStaleDispatch => NoStaleDispatch'
    BY <1>1, <1>2, <2>1, RestoreMoves
  <2>3. ProcessTypes' /\ LoopTypes'
    BY <1>1, <2>1, <2>2 DEF ProcessTypes, LoopTypes, daemons, history
  <2>4. Placed'
    <3>1. respawning = TRUE
      BY <1>2 DEF Placed, LoopTypes
    <3>2. respawning' <=> loop'.pc # "none"
      BY <2>2, <3>1
    <3> QED
      BY <1>1, <1>2, <2>2, <3>2 DEF Placed, Starting, plays
  <2>5. Fresh'
    BY <1>1, <1>2, <2>1, <2>2 DEF Fresh, plays
  <2>6. Reloaded'
    BY <1>1, <1>3, <2>2 DEF Reloaded, plugin
  <2> QED
    BY <1>4, <1>5, <2>2, <2>3, <2>4, <2>5, <2>6
<1> QED
  BY <1>6, <1>7

LEMMA PluginReloadedKeeps == ASSUME IInv, PluginReloaded PROVE IInv'
<1> USE DEF IInv, Types
<1>1. /\ replies # <<>> /\ Head(replies).kind = "plugin" /\ Head(replies).who = Loop
      /\ replies' = Tail(replies) /\ active' = Ok /\ Reapply
      /\ UNCHANGED <<daemons, ws, broken, running, loaded, disposed, quit, gaveUp, clock, samples,
                     declared, routing, plays, history>>
  BY DEF PluginReloaded, Answer, Mine, served
<1>2. /\ ws # 0 /\ loop.pc = "reload" /\ replies' \in Seq(Replies)
      /\ Unasked(wire) /\ Unasked(replies')
  BY <1>1, HeadAnswer DEF Wanted, ForLoop
<1>3. \A i \in DOMAIN replies' : replies'[i].kind = "plugin" /\ replies'[i].ok => ws' \in loaded'
  BY <1>1, RepliesShrink
<1>4. active' \in BOOLEAN /\ (active' => ws \in loaded) /\ declared
  <2>1. Head(replies) \in Replies /\ Head(replies) = replies[1] /\ 1 \in DOMAIN replies
    BY <1>1, HeadAnswer DEF WireTypes
  <2> QED
    BY <1>1, <1>2, <2>1 DEF Ok, Replies, Reloaded
<1>5. PluginTypes' /\ CallTypes' /\ PlayTypes' /\ ProcessTypes'
  BY <1>1, <1>4
  DEF PluginTypes, CallTypes, PlayTypes, ProcessTypes, daemons, clock, samples, routing, plays
<1>6. Accounted' /\ Retried'
  BY <1>1, <1>2 DEF Accounted, Retried, daemons
<1>7. /\ WireTypes' /\ Waited' /\ loop' \in LoopStates
      /\ loop'.pc \in {"none", "reapply"} /\ respawning' \in BOOLEAN
      /\ loop'.pc = "none" => respawning' = FALSE
      /\ loop'.pc = "reapply" => respawning' = respawning
      /\ NoStaleDispatch => NoStaleDispatch'
  BY <1>1, <1>2, ReapplyMoves
<1>8. LoopTypes' /\ Placed'
  <2>1. respawning = TRUE
    BY <1>2 DEF Placed, LoopTypes
  <2>2. respawning' <=> loop'.pc # "none"
    BY <1>7, <2>1
  <2>3. LoopTypes'
    BY <1>1, <1>7 DEF LoopTypes, history
  <2> QED
    BY <1>1, <1>2, <1>7, <2>2, <2>3 DEF Placed, Starting, plays
<1>9. Fresh'
  BY <1>1, <1>2, <1>7 DEF Fresh, plays, clock, samples
<1>10. Reloaded'
  BY <1>1, <1>3, <1>4, <1>7 DEF Reloaded
<1> QED
  BY <1>5, <1>6, <1>7, <1>8, <1>9, <1>10

LEMMA RoutingReappliedKeeps == ASSUME IInv, RoutingReapplied PROVE IInv'
<1> USE DEF IInv, Types
<1>1. /\ replies # <<>> /\ Head(replies).kind = "route" /\ Head(replies).who = Loop
      /\ replies' = Tail(replies) /\ LeaveLoop
      /\ UNCHANGED <<daemons, ws, broken, running, wire, loaded, disposed, quit, gaveUp, clock,
                     samples, plugin, routing, plays, lostRestoring>>
  BY DEF RoutingReapplied, Answer, Mine, served
<1>2. /\ ws # 0 /\ loop.pc = "reapply" /\ replies' \in Seq(Replies)
      /\ Unasked(wire) /\ Unasked(replies')
  BY <1>1, HeadAnswer DEF Wanted, ForLoop
<1>3. \A i \in DOMAIN replies' : replies'[i].kind = "plugin" /\ replies'[i].ok => ws' \in loaded'
  BY <1>1, RepliesShrink
<1>4. loop' \in LoopStates /\ loop'.pc = "none" /\ respawning' = FALSE /\ respawning' \in BOOLEAN
  BY <1>1, LoopLeaves
<1>5. WireTypes' /\ Waited'
  <2>1. wire \in Seq(Requests) /\ ws' # 0
    BY <1>1, <1>2 DEF WireTypes
  <2> QED
    BY <1>1, <1>2, <2>1, NobodyAsks
<1>6. PluginTypes' /\ CallTypes' /\ PlayTypes' /\ ProcessTypes' /\ Accounted' /\ Retried'
  BY <1>1, <1>2 DEF PluginTypes, CallTypes, PlayTypes, ProcessTypes, Accounted, Retried, daemons,
                    clock, samples, plugin, routing, plays
<1>7. LoopTypes' /\ Placed'
  BY <1>1, <1>2, <1>4 DEF LoopTypes, Placed, Starting, plays
<1>8. Fresh' /\ Reloaded'
  BY <1>1, <1>2, <1>3, <1>4 DEF Fresh, NoStaleDispatch, Reloaded, plays, clock, samples, plugin
<1> QED
  BY <1>5, <1>6, <1>7, <1>8

LEMMA PluginAnsweredKeeps == ASSUME IInv, PluginAnswered PROVE IInv'
<1> USE DEF IInv, Types
<1>1. /\ replies # <<>> /\ Head(replies).kind = "plugin" /\ replies' = Tail(replies)
      /\ declared' = (declared \/ Ok) /\ active' = Ok
      /\ UNCHANGED <<daemons, ws, broken, running, wire, loaded, supervisor, clock, samples,
                     routing, plays, history>>
  BY DEF PluginAnswered, Answer, served
<1>2. ws # 0 /\ Head(replies) \in Replies /\ Head(replies) = replies[1] /\ 1 \in DOMAIN replies
  BY <1>1, HeadAnswer DEF WireTypes
<1>3. \A i \in DOMAIN replies' : replies'[i].kind = "plugin" /\ replies'[i].ok => ws' \in loaded'
  BY <1>1, RepliesShrink
<1>4. active' \in BOOLEAN /\ declared' \in BOOLEAN /\ (active' => ws \in loaded)
  BY <1>1, <1>2 DEF Ok, Replies, Reloaded, PluginTypes
<1>5. WireTypes' /\ Waited'
  BY <1>1, Answered DEF supervisor
<1>6. /\ PluginTypes' /\ CallTypes' /\ PlayTypes' /\ ProcessTypes' /\ LoopTypes' /\ Placed'
      /\ Accounted' /\ Retried'
  BY <1>1, <1>4
  DEF PluginTypes, CallTypes, PlayTypes, ProcessTypes, LoopTypes, Placed, Starting, Accounted,
      Retried, daemons, supervisor, clock, samples, routing, plays, history
<1>7. Fresh' /\ Reloaded'
  BY <1>1, <1>3, <1>4
  DEF Fresh, NoStaleDispatch, Reloaded, plays, clock, samples, supervisor
<1> QED
  BY <1>5, <1>6, <1>7

LEMMA RouteAnsweredKeeps == ASSUME IInv, RouteAnswered PROVE IInv'
<1> USE DEF IInv, Types
<1> DEFINE c == Head(replies).who
<1>1. /\ replies # <<>> /\ Head(replies).kind = "route" /\ c # Loop /\ replies' = Tail(replies)
      /\ call' = [call EXCEPT ![c].pc = "done"] /\ cache' = Revert(c)
      /\ UNCHANGED <<daemons, ws, broken, running, wire, loaded, supervisor, clock, samples,
                     plugin, plays, lostRestoring>>
  BY DEF RouteAnswered, Answer, Mine, served
<1>2. c \in Calls
  BY <1>1, HeadAnswer DEF Replies
<1>3. call[c] \in CallStates /\ call[c].prev \in Values
  BY <1>2 DEF CallTypes, CallStates
<1>4. CallTypes'
  <2>1. cache' \in Values
    BY <1>1, <1>3 DEF Revert, CallTypes
  <2>2. [call[c] EXCEPT !.pc = "done"] \in CallStates
    BY <1>3, CallStep
  <2>3. call' \in [Calls -> CallStates]
    BY <1>1, <1>2, <2>2 DEF CallTypes
  <2> QED
    BY <2>1, <2>3 DEF CallTypes
<1>5. \A i \in DOMAIN replies' : replies'[i].kind = "plugin" /\ replies'[i].ok => ws' \in loaded'
  BY <1>1, RepliesShrink
<1>6. WireTypes' /\ Waited'
  BY <1>1, Answered DEF supervisor
<1>7. PluginTypes' /\ PlayTypes' /\ ProcessTypes' /\ LoopTypes' /\ Placed' /\ Accounted' /\ Retried'
  BY <1>1
  DEF PluginTypes, PlayTypes, ProcessTypes, LoopTypes, Placed, Starting, Accounted,
      Retried, daemons, supervisor, clock, samples, plugin, plays
<1>8. Fresh' /\ Reloaded'
  BY <1>1, <1>5 DEF Fresh, NoStaleDispatch, Reloaded, plays, clock, samples, plugin, supervisor
<1> QED
  BY <1>4, <1>6, <1>7, <1>8

LEMMA PlayAnsweredKeeps == ASSUME IInv, PlayAnswered PROVE IInv'
<1> USE DEF IInv, Types
<1> DEFINE e == Head(replies).who
<1>1. /\ replies # <<>> /\ replies' = Tail(replies) /\ ev' = [ev EXCEPT ![e].pc = "played"]
      /\ UNCHANGED <<daemons, ws, broken, running, wire, loaded, supervisor, clock, samples,
                     plugin, routing, playing, live, life, history>>
  BY DEF PlayAnswered, Answer, served
<1>2. ev' \in [Events -> Plays] /\ \A f \in Events : ev'[f].pc = "loading" => ev[f].pc = "loading"
  <2>1. CASE e \in Events
    <3>1. [ev[e] EXCEPT !.pc = "played"] \in Plays /\ [ev[e] EXCEPT !.pc = "played"].pc = "played"
      BY <2>1, PlayStep DEF PlayTypes
    <3> QED
      BY <1>1, <2>1, <3>1 DEF PlayTypes
  <2>2. CASE e \notin Events
    BY <1>1, <2>2 DEF PlayTypes
  <2> QED
    BY <2>1, <2>2
<1>3. \A i \in DOMAIN replies' : replies'[i].kind = "plugin" /\ replies'[i].ok => ws' \in loaded'
  BY <1>1, RepliesShrink
<1>4. WireTypes' /\ Waited'
  BY <1>1, Answered DEF supervisor
<1>5. PlayTypes'
  BY <1>1, <1>2 DEF PlayTypes
<1>6. PluginTypes' /\ CallTypes' /\ ProcessTypes' /\ LoopTypes' /\ Placed' /\ Accounted' /\ Retried'
  BY <1>1
  DEF PluginTypes, CallTypes, ProcessTypes, LoopTypes, Placed, Starting, Accounted,
      Retried, daemons, supervisor, clock, samples, plugin, routing, history
<1>7. Fresh' /\ Reloaded'
  BY <1>1, <1>2, <1>3 DEF Fresh, NoStaleDispatch, Reloaded, clock, samples, plugin, supervisor
<1> QED
  BY <1>4, <1>5, <1>6, <1>7

\* A finite set of requests can be sent, in some order.
LEMMA SetSent ==
  ASSUME NEW T, NEW R \in SUBSET T, IsFiniteSet(R)
  PROVE  SetToSeq(R) \in Seq(T) /\ \A i \in DOMAIN SetToSeq(R) : SetToSeq(R)[i] \in R
<1>1. Cardinality(R) \in Nat /\ ExistsBijection(1 .. Cardinality(R), R)
  BY FS_CardinalityType
<1>2. \E f \in [1 .. Cardinality(R) -> R] : IsInjective(f)
  BY <1>1 DEF ExistsBijection, Bijection, Injection
<1>3. SetToSeq(R) \in [1 .. Cardinality(R) -> R]
  BY <1>2 DEF SetToSeq
<1> QED
  BY <1>1, <1>3

LEMMA WaitersSent ==
  ASSUME NEW go \in SUBSET Events, ProcessTypes, CallTypes,
         NEW s, s = SetToSeq({Request("play", e, "default", ws) : e \in go})
  PROVE  /\ s \in Seq(Requests)
         /\ \A i \in DOMAIN s : s[i].kind = "play" /\ s[i].anchor = anchor /\ s[i].sample = ws
                                /\ go # {}
<1> DEFINE R == {Request("play", e, "default", ws) : e \in go}
           f == [e \in go |-> Request("play", e, "default", ws)]
<1>1. \A e \in go : /\ Request("play", e, "default", ws) \in Requests
                    /\ Request("play", e, "default", ws).kind = "play"
                    /\ Request("play", e, "default", ws).anchor = anchor
                    /\ Request("play", e, "default", ws).sample = ws
  BY RequestTypes DEF Kinds, Values, Senders, ProcessTypes
<1>2. IsFiniteSet(go)
  BY EnginePlayerAssumption, FS_Subset
<1>3. f \in Surjection(go, R)
  BY DEF Surjection
<1>4. IsFiniteSet(R)
  BY <1>2, <1>3, FS_Surjection
<1>5. R \in SUBSET Requests
  BY <1>1
<1>6. s = SetToSeq(R)
  OBVIOUS
<1> HIDE DEF f
<1>7. s \in Seq(Requests) /\ \A i \in DOMAIN s : s[i] \in R
  <2> HIDE DEF R
  <2> QED
    BY <1>4, <1>5, <1>6, SetSent
<1> QED
  BY <1>1, <1>7

LEMMA SampleLoadedKeeps == ASSUME IInv, SampleLoaded PROVE IInv'
<1> USE DEF IInv, Types
<1> DEFINE go == IF Ok THEN Resumed ELSE {}
           s == SetToSeq({Request("play", e, "default", ws) : e \in go})
<1>1. /\ replies # <<>> /\ Head(replies).kind = "load" /\ replies' = Tail(replies)
      /\ sampleId' \in {ws, sampleId}
      /\ wire' = wire \o s
      /\ ev' = [e \in Events |->
                  CASE e \in go -> [ev[e] EXCEPT !.pc = "sent"]
                    [] ev[e].pc = "loading" /\ e \notin go -> [ev[e] EXCEPT !.pc = "dropped"]
                    [] OTHER -> ev[e]]
      /\ UNCHANGED <<daemons, ws, broken, running, loaded, supervisor, clock, plugin, routing,
                     playing, live, life, history>>
  BY DEF SampleLoaded, Answer, served
<1>2. ws # 0 /\ go \in SUBSET Events /\ \A e \in go : ev[e].pc = "loading" /\ live
  BY <1>1, HeadAnswer DEF Resumed
<1> HIDE DEF go
<1>3. /\ s \in Seq(Requests)
      /\ \A i \in DOMAIN s : s[i].kind = "play" /\ s[i].anchor = anchor /\ s[i].sample = ws
                             /\ go # {}
  BY <1>2, WaitersSent
<1> HIDE DEF s
<1>4. ev' \in [Events -> Plays] /\ \A e \in Events : ev'[e].pc # "loading"
  <2>1. \A e \in Events :
           /\ ev[e] \in Plays
           /\ [ev[e] EXCEPT !.pc = "sent"] \in Plays /\ [ev[e] EXCEPT !.pc = "sent"].pc = "sent"
           /\ [ev[e] EXCEPT !.pc = "dropped"] \in Plays
           /\ [ev[e] EXCEPT !.pc = "dropped"].pc = "dropped"
    BY PlayStep DEF PlayTypes
  <2> QED
    BY <1>1, <1>2, <2>1
<1>5. /\ wire' \in Seq(Requests)
      /\ \A i \in DOMAIN wire' : \/ i \in DOMAIN wire /\ wire'[i] = wire[i]
                                 \/ \E j \in DOMAIN s : wire'[i] = s[j]
  <2>1. wire \in Seq(Requests) /\ Len(wire) \in Nat /\ Len(s) \in Nat
    BY <1>3 DEF WireTypes
  <2>2. /\ DOMAIN wire = 1 .. Len(wire) /\ DOMAIN s = 1 .. Len(s)
        /\ wire' \in Seq(Requests) /\ DOMAIN wire' = 1 .. Len(wire) + Len(s)
        /\ \A i \in DOMAIN wire' :
              wire'[i] = IF i <= Len(wire) THEN wire[i] ELSE s[i - Len(wire)]
    BY <1>1, <1>3, <2>1
  <2>3. ASSUME NEW i \in DOMAIN wire', i > Len(wire)
        PROVE  i - Len(wire) \in DOMAIN s /\ wire'[i] = s[i - Len(wire)]
    BY <2>1, <2>2, <2>3
  <2> QED
    BY <2>1, <2>2, <2>3
<1>6. \A i \in DOMAIN wire' : ForLoop(wire'[i]) => i \in DOMAIN wire /\ wire'[i] = wire[i]
  BY <1>3, <1>5 DEF ForLoop
<1>7. WireTypes' /\ Waited'
  <2>1. /\ Tail(replies) \in Seq(Replies)
        /\ \A i \in DOMAIN replies' :
              i + 1 \in DOMAIN replies /\ replies'[i] = replies[i + 1] /\ i \in Int
    BY <1>1, HeadAnswer
  <2>2. \A i, j \in DOMAIN replies' : ForLoop(replies'[i]) /\ ForLoop(replies'[j]) => i = j
    <3>1. \A i, j \in DOMAIN replies' :
             ForLoop(replies'[i]) /\ ForLoop(replies'[j]) => i + 1 = j + 1
      BY <2>1 DEF Waited
    <3> QED
      BY <2>1, <3>1
  <2>3. \A i \in DOMAIN replies' : Wanted(replies'[i])
    BY <2>1 DEF Waited
  <2>4. \A i \in DOMAIN wire' : Wanted(wire'[i])
    BY <1>3, <1>5 DEF Waited, Wanted
  <2>5. \A i \in DOMAIN wire', j \in DOMAIN replies' : ~(ForLoop(wire'[i]) /\ ForLoop(replies'[j]))
    BY <1>6, <2>1 DEF Waited
  <2>6. \A i, j \in DOMAIN wire' : ForLoop(wire'[i]) /\ ForLoop(wire'[j]) => i = j
    BY <1>6 DEF Waited
  <2>7. WireTypes' /\ ws' # 0 /\ loop' = loop
    BY <1>1, <1>2, <1>5, <2>1 DEF WireTypes, supervisor
  <2> QED
    BY <2>2, <2>3, <2>4, <2>5, <2>6, <2>7 DEF Waited, Wanted
<1>8. Fresh'
  <2>1. go # {} => loop.pc = "none" /\ ~disposed
    BY <1>2 DEF Fresh, Placed
  <2>2. go # {} => anchor \in {ws, 0}
    BY <1>2, <2>1 DEF Fresh
  <2>3. \A i \in DOMAIN wire' :
           wire'[i].kind = "play" => wire'[i].anchor \in {ws, 0} /\ wire'[i].sample = ws
    BY <1>3, <1>5, <2>2 DEF Fresh, NoStaleDispatch
  <2>4. NoStaleDispatch'
    BY <1>1, <2>3 DEF NoStaleDispatch
  <2> QED
    BY <1>1, <1>4, <2>4 DEF Fresh, supervisor, clock
<1>9. \A i \in DOMAIN replies' : replies'[i].kind = "plugin" /\ replies'[i].ok => ws' \in loaded'
  BY <1>1, RepliesShrink
<1>10. Reloaded'
  BY <1>1, <1>9 DEF Reloaded, supervisor, plugin
<1>11. PlayTypes' /\ ProcessTypes'
  BY <1>1, <1>4 DEF PlayTypes, ProcessTypes, daemons, clock
<1>12. PluginTypes' /\ CallTypes' /\ LoopTypes' /\ Placed' /\ Accounted' /\ Retried'
  BY <1>1 DEF PluginTypes, CallTypes, LoopTypes, Placed, Starting, Accounted, Retried, daemons,
              supervisor, plugin, routing, history
<1> QED
  BY <1>7, <1>8, <1>10, <1>11, <1>12

-----------------------------------------------------------------------------
(* The DSL, the poll loop and quit.                                        *)

LEMMA StartKeeps == ASSUME IInv, Start PROVE IInv'
<1> USE DEF IInv, Types, Start
<1>1. playing' \in BOOLEAN /\ ~disposed
  OBVIOUS
<1>2. PlayTypes' /\ Placed'
  BY <1>1 DEF PlayTypes, Placed, Starting, client, supervisor
<1>3. /\ ProcessTypes' /\ WireTypes' /\ LoopTypes' /\ PluginTypes' /\ CallTypes'
      /\ Accounted' /\ Waited' /\ Fresh' /\ Reloaded' /\ Retried'
  BY DEF ProcessTypes, WireTypes, LoopTypes, PluginTypes, CallTypes, Accounted, Waited, Wanted,
         Fresh, NoStaleDispatch, Reloaded, Retried, daemons, client, served, supervisor, clock,
         samples, plugin, routing, history
<1> QED
  BY <1>2, <1>3

\* What the plays alone change disturbs no part but theirs.
LEMMA PlaysOnly ==
  ASSUME IInv, PlayTypes', disposed => ~playing' /\ ~live',
         \A e \in Events : ev'[e].pc = "loading" => ev[e].pc = "loading",
         UNCHANGED <<daemons, client, served, supervisor, clock, samples, plugin, routing, history>>
  PROVE  IInv'
<1> USE DEF IInv, Types
<1>1. /\ ProcessTypes' /\ WireTypes' /\ LoopTypes' /\ PluginTypes' /\ CallTypes'
      /\ Accounted' /\ Waited' /\ Reloaded' /\ Retried'
  BY DEF ProcessTypes, WireTypes, LoopTypes, PluginTypes, CallTypes, Accounted, Waited, Wanted,
         Reloaded, Retried, daemons, client, served, supervisor, clock, samples, plugin, routing,
         history
<1>2. Placed' /\ Fresh'
  BY DEF Placed, Starting, Fresh, NoStaleDispatch, client, supervisor, clock, samples
<1> QED
  BY <1>1, <1>2

LEMMA ScheduleKeeps == ASSUME IInv, NEW e \in Events, Schedule(e) PROVE IInv'
<1> USE DEF IInv, Types, Schedule
<1> DEFINE queued == [pc |-> "queued", life |-> life]
<1>1. queued \in Plays /\ queued.pc = "queued" /\ live' = TRUE /\ live' \in BOOLEAN /\ ~disposed
  BY DEF Plays, PlayTypes
<1>2. ev' \in [Events -> Plays] /\ \A f \in Events : ev'[f].pc = "loading" => ev[f].pc = "loading"
  BY <1>1 DEF PlayTypes
<1>3. PlayTypes'
  BY <1>1, <1>2 DEF PlayTypes
<1> QED
  BY <1>1, <1>2, <1>3, PlaysOnly

LEMMA ClearSequenceKeeps == ASSUME IInv, ClearSequence PROVE IInv'
<1> USE DEF IInv, Types, ClearSequence
<1>1. /\ ev' \in [Events -> Plays] /\ live' = FALSE /\ life' \in Nat
      /\ \A e \in Events : ev'[e].pc = "loading" => ev[e].pc = "loading"
  BY Unqueued
<1>2. PlayTypes'
  BY <1>1 DEF PlayTypes
<1>3. disposed => ~playing' /\ ~live'
  BY <1>1 DEF Placed
<1> QED
  BY <1>1, <1>2, <1>3, PlaysOnly

LEMMA StopAllKeeps == ASSUME IInv, StopAll PROVE IInv'
<1> USE DEF IInv, Types, StopAll
<1>1. /\ ev' \in [Events -> Plays] /\ live' = FALSE /\ life' \in Nat
      /\ \A e \in Events : ev'[e].pc = "loading" => ev[e].pc = "loading"
  BY Unqueued
<1>2. playing' = FALSE /\ PlayTypes'
  BY <1>1 DEF PlayTypes
<1> QED
  BY <1>1, <1>2, PlaysOnly

\* A load is asked for like anything the loop does not wait for.
LEMMA LoadAsks ==
  ASSUME IInv, LoadSample, ws # 0, UNCHANGED <<replies, ws, loop>>
  PROVE  WireTypes' /\ Waited' /\ NoStaleDispatch'
<1> USE DEF IInv, Types
<1>1. PICK r \in Requests : r = Ask("load", Loop) /\ r.kind = "load"
  BY RequestTypes DEF Ask, Loop, Kinds, Values, Senders
<1>2. wire' = Append(wire, r)
  BY <1>1 DEF LoadSample
<1>3. WireTypes' /\ Waited'
  BY <1>1, <1>2, OtherAsks DEF ForLoop
<1>4. NoStaleDispatch'
  BY <1>1, <1>2, NoPlayAdded DEF Fresh
<1> QED
  BY <1>3, <1>4

LEMMA PollKeeps == ASSUME IInv, NEW e \in Events, Poll(e) PROVE IInv'
<1> USE DEF IInv, Types
<1>1. UNCHANGED <<daemons, ws, broken, running, intentional, replies, served, supervisor, clock,
                  sampleId, plugin, routing, playing, live, life, history>>
  BY DEF Poll
<1>2. \A pc \in {"dropped", "sent", "loading"} :
         [ev EXCEPT ![e].pc = pc] \in [Events -> Plays]
  <2>1. \A pc \in {"dropped", "sent", "loading"} : [ev[e] EXCEPT !.pc = pc] \in Plays
    BY PlayStep DEF PlayTypes
  <2> QED
    BY <2>1 DEF PlayTypes
<1>3. ev' \in [Events -> Plays]
  BY <1>2 DEF Poll
<1>4. WireTypes' /\ Waited' /\ Fresh'
  <2>1. CASE ev' = [ev EXCEPT ![e].pc = "dropped"] /\ UNCHANGED <<wire, inflight>>
    <3>1. \A f \in Events : ev'[f].pc = "loading" => ev[f].pc = "loading"
      BY <2>1, PlayStep DEF PlayTypes
    <3> QED
      BY <1>1, <2>1, <3>1
      DEF WireTypes, Waited, Wanted, Fresh, NoStaleDispatch, supervisor, clock
  <2>2. CASE /\ live /\ Dispatchable /\ sampleId # 0
             /\ ev' = [ev EXCEPT ![e].pc = "sent"]
             /\ wire' = Append(wire, Request("play", e, "default", sampleId))
    <3>1. /\ ws # 0 /\ loop.pc = "none" /\ ~disposed /\ sampleId = ws /\ anchor \in {ws, 0}
      BY <2>2 DEF Dispatchable, Placed, Starting, Fresh
    <3>2. PICK r \in Requests :
            /\ r = Request("play", e, "default", sampleId) /\ r.kind = "play"
            /\ r.anchor = anchor /\ r.sample = sampleId
      BY RequestTypes DEF Kinds, Values, Senders, ProcessTypes
    <3>3. WireTypes' /\ Waited'
      BY <1>1, <2>2, <3>1, <3>2, OtherAsks DEF ForLoop, supervisor
    <3>4. NoStaleDispatch'
      BY <1>1, <2>2, <3>1, <3>2, NoPlayAdded DEF Fresh
    <3> QED
      BY <1>1, <3>1, <3>3, <3>4 DEF Fresh, supervisor, clock
  <2>3. CASE /\ live /\ Dispatchable
             /\ IF inflight THEN UNCHANGED <<wire, inflight>> ELSE LoadSample
    <3>1. ws # 0 /\ loop.pc = "none"
      BY <2>3 DEF Dispatchable, Placed, Starting
    <3>2. WireTypes' /\ Waited' /\ NoStaleDispatch'
      <4>1. CASE inflight
        BY <1>1, <2>3, <4>1 DEF WireTypes, Waited, Wanted, Fresh, NoStaleDispatch, supervisor
      <4>2. CASE ~inflight
        BY <1>1, <2>3, <3>1, <4>2, LoadAsks DEF supervisor
      <4> QED
        BY <4>1, <4>2
    <3> QED
      BY <1>1, <3>1, <3>2 DEF Fresh, supervisor, clock
  <2> QED
    BY <2>1, <2>2, <2>3 DEF Poll
<1>5. PlayTypes' /\ Reloaded'
  BY <1>1, <1>3 DEF PlayTypes, Reloaded, served, supervisor, plugin
<1>6. /\ ProcessTypes' /\ PluginTypes' /\ CallTypes' /\ LoopTypes' /\ Placed' /\ Accounted'
      /\ Retried'
  BY <1>1 DEF ProcessTypes, PluginTypes, CallTypes, LoopTypes, Placed, Starting, Accounted,
              Retried, daemons, supervisor, clock, plugin, routing, history
<1> QED
  BY <1>4, <1>5, <1>6

LEMMA PreloadKeeps == ASSUME IInv, Preload PROVE IInv'
<1> USE DEF IInv, Types
<1>1. /\ ws # 0 /\ LoadSample
      /\ UNCHANGED <<daemons, ws, broken, running, intentional, replies, served, supervisor, clock,
                     sampleId, plugin, routing, plays, history>>
  BY DEF Preload
<1>2. WireTypes' /\ Waited' /\ NoStaleDispatch'
  BY <1>1, LoadAsks DEF supervisor
<1>3. Fresh' /\ Reloaded'
  BY <1>1, <1>2 DEF Fresh, Reloaded, served, supervisor, clock, plugin, plays
<1>4. /\ ProcessTypes' /\ PluginTypes' /\ CallTypes' /\ LoopTypes' /\ PlayTypes' /\ Placed'
      /\ Accounted' /\ Retried'
  BY <1>1 DEF ProcessTypes, PluginTypes, CallTypes, LoopTypes, PlayTypes, Placed, Starting,
              Accounted, Retried, daemons, supervisor, clock, plugin, routing, plays, history
<1> QED
  BY <1>2, <1>3, <1>4

LEMMA LoadPluginKeeps == ASSUME IInv, LoadPlugin PROVE IInv'
<1> USE DEF IInv, Types
<1>1. UNCHANGED <<daemons, ws, broken, running, intentional, replies, served, supervisor, clock,
                  samples, declared, routing, plays, history>>
  BY DEF LoadPlugin
<1>2. active' \in BOOLEAN /\ (active' => active)
  BY DEF LoadPlugin, PluginTypes
<1>3. WireTypes' /\ Waited' /\ NoStaleDispatch'
  <2>1. CASE ws = 0
    BY <1>1, <2>1
    DEF LoadPlugin, WireTypes, Waited, Wanted, Fresh, NoStaleDispatch, supervisor
  <2>2. CASE ws # 0
    <3>1. PICK r \in Requests : r = Ask("plugin", "user") /\ r.kind = "plugin" /\ r.who = "user"
      BY RequestTypes DEF Ask, Kinds, Values, Senders
    <3>2. wire' = Append(wire, r)
      BY <2>2, <3>1 DEF LoadPlugin
    <3>3. ~ForLoop(r)
      BY <3>1 DEF ForLoop, Loop
    <3>4. WireTypes' /\ Waited'
      BY <1>1, <2>2, <3>2, <3>3, OtherAsks DEF supervisor
    <3>5. NoStaleDispatch'
      BY <1>1, <3>1, <3>2, NoPlayAdded DEF Fresh
    <3> QED
      BY <3>4, <3>5
  <2> QED
    BY <2>1, <2>2
<1>4. PluginTypes' /\ Fresh' /\ Reloaded'
  BY <1>1, <1>2, <1>3
  DEF PluginTypes, Fresh, Reloaded, served, supervisor, clock, samples, plays
<1>5. /\ ProcessTypes' /\ CallTypes' /\ LoopTypes' /\ PlayTypes' /\ Placed' /\ Accounted'
      /\ Retried'
  BY <1>1 DEF ProcessTypes, CallTypes, LoopTypes, PlayTypes, Placed, Starting, Accounted, Retried,
              daemons, supervisor, clock, samples, routing, plays, history
<1> QED
  BY <1>3, <1>4, <1>5

LEMMA SetBusRoutingKeeps ==
  ASSUME IInv, NEW c \in Calls, NEW v \in Routings, SetBusRouting(c, v)
  PROVE  IInv'
<1> USE DEF IInv, Types
<1> DEFINE over == Crossing(c) # {} \/ loop.pc # "none"
           mine == [pc |-> IF ws = 0 THEN "done" ELSE "sent", value |-> v,
                    prev |-> cache, over |-> over]
<1>1. /\ cache' = v
      /\ call' = [d \in Calls |->
                     IF d = c THEN mine ELSE [call[d] EXCEPT !.over = @ \/ d \in Crossing(c)]]
      /\ wire' = IF ws = 0 THEN wire ELSE Append(wire, Request("route", c, v, 0))
      /\ UNCHANGED <<daemons, ws, broken, running, intentional, replies, served, supervisor, clock,
                     samples, plugin, plays, history>>
  BY DEF SetBusRouting
<1>2. CallTypes'
  <2>1. mine \in CallStates
    BY DEF CallStates, CallTypes, Values
  <2>2. \A d \in Calls : [call[d] EXCEPT !.over = @ \/ d \in Crossing(c)] \in CallStates
    BY CallStep DEF CallTypes
  <2> HIDE DEF mine
  <2>3. call' \in [Calls -> CallStates]
    BY <1>1, <2>1, <2>2
  <2> QED
    BY <1>1, <2>3 DEF CallTypes, Values
<1>3. WireTypes' /\ Waited' /\ NoStaleDispatch'
  <2>1. CASE ws = 0
    BY <1>1, <2>1
    DEF WireTypes, Waited, Wanted, Fresh, NoStaleDispatch, supervisor
  <2>2. CASE ws # 0
    <3>1. PICK r \in Requests :
            r = Request("route", c, v, 0) /\ r.kind = "route" /\ r.who = c
      BY RequestTypes DEF Kinds, Values, Senders
    <3>2. wire' = Append(wire, r)
      BY <1>1, <2>2, <3>1
    <3>3. ~ForLoop(r)
      BY <3>1, EnginePlayerAssumption DEF ForLoop, Loop
    <3>4. WireTypes' /\ Waited'
      BY <1>1, <2>2, <3>2, <3>3, OtherAsks DEF supervisor
    <3>5. NoStaleDispatch'
      BY <1>1, <3>1, <3>2, NoPlayAdded DEF Fresh
    <3> QED
      BY <3>4, <3>5
  <2> QED
    BY <2>1, <2>2
<1>4. Fresh' /\ Reloaded'
  BY <1>1, <1>3 DEF Fresh, Reloaded, served, supervisor, clock, samples, plugin, plays
<1>5. /\ ProcessTypes' /\ LoopTypes' /\ PluginTypes' /\ PlayTypes' /\ Placed' /\ Accounted'
      /\ Retried'
  BY <1>1 DEF ProcessTypes, LoopTypes, PluginTypes, PlayTypes, Placed, Starting, Accounted, Retried,
              daemons, supervisor, clock, samples, plugin, plays, history
<1> QED
  BY <1>2, <1>3, <1>4, <1>5

LEMMA QuitKeeps == ASSUME IInv, Quit PROVE IInv'
<1> USE DEF IInv, Types
<1>1. /\ quit' = "waiting" /\ disposed' = TRUE /\ playing' = FALSE /\ Unqueue
      /\ UNCHANGED <<daemons, client, served, loop, respawning, gaveUp, clock, samples, plugin,
                     routing, history>>
  BY DEF Quit
<1>2. /\ ev' \in [Events -> Plays] /\ live' = FALSE /\ life' \in Nat
      /\ \A e \in Events : ev'[e].pc = "loading" => ev[e].pc = "loading"
  BY <1>1, Unqueued
<1>3. PlayTypes' /\ LoopTypes' /\ Placed'
  BY <1>1, <1>2 DEF PlayTypes, LoopTypes, Placed, Starting, client, history
<1>4. Fresh' /\ Reloaded' /\ Retried'
  BY <1>1, <1>2
  DEF Fresh, NoStaleDispatch, Reloaded, Retried, client, served, samples, plugin, history
<1>5. /\ ProcessTypes' /\ WireTypes' /\ PluginTypes' /\ CallTypes' /\ Accounted' /\ Waited'
  BY <1>1 DEF ProcessTypes, WireTypes, PluginTypes, CallTypes, Accounted, Waited, Wanted, daemons,
              client, clock, samples, plugin, routing
<1> QED
  BY <1>3, <1>4, <1>5

LEMMA QuitDaemonKeeps == ASSUME IInv, QuitDaemon PROVE IInv'
<1> USE DEF IInv, Types
<1>1. /\ quit = "waiting" /\ loop.pc = "none" /\ disposed /\ quit' = "done"
      /\ UNCHANGED <<born, dropped, served, loop, respawning, disposed, gaveUp, clock, sampleId,
                     declared, cache, playing, live, life, history>>
  BY DEF QuitDaemon, Placed
<1>2. CASE running
  <2>1. /\ running' = FALSE /\ ws' = 0 /\ broken' = FALSE /\ alive' = alive \ {child}
        /\ running' \in BOOLEAN /\ broken' \in BOOLEAN /\ child' = 0 /\ FailPending
    BY <1>2 DEF QuitDaemon, KillChild
  <2>2. /\ wire' = <<>> /\ replies' = <<>>
        /\ call' \in [Calls -> CallStates] /\ ev' \in [Events -> Plays]
        /\ \A e \in Events : ev'[e].pc # "loading"
        /\ active' \in BOOLEAN /\ (active' => active /\ loop.pc # "reload")
    BY <2>1, PendingFailed
  <2>3. ProcessTypes' /\ WireTypes' /\ LoopTypes' /\ PluginTypes' /\ CallTypes' /\ PlayTypes'
    BY <1>1, <2>1, <2>2
    DEF ProcessTypes, WireTypes, LoopTypes, PluginTypes, CallTypes, PlayTypes, clock, history
  <2>4. Placed' /\ Accounted' /\ Waited'
    BY <1>1, <2>1, <2>2 DEF Placed, Starting, Accounted, Waited
  <2>5. Fresh' /\ Reloaded' /\ Retried'
    BY <1>1, <2>1, <2>2 DEF Fresh, NoStaleDispatch, Reloaded, Retried
  <2> QED
    BY <2>3, <2>4, <2>5
<1>3. CASE ~running
  <2>1. UNCHANGED <<client, alive, child, inflight, ev, call, pluginCall, active>> /\ ws = 0
    BY <1>1, <1>3 DEF QuitDaemon, Placed, Starting
  <2>2. ProcessTypes' /\ WireTypes' /\ LoopTypes' /\ PluginTypes' /\ CallTypes' /\ PlayTypes'
    BY <1>1, <2>1
    DEF ProcessTypes, WireTypes, LoopTypes, PluginTypes, CallTypes, PlayTypes, client, clock,
        history
  <2>3. Placed' /\ Accounted' /\ Waited'
    BY <1>1, <2>1 DEF Placed, Starting, Accounted, Waited, Wanted, client
  <2>4. Fresh' /\ Reloaded' /\ Retried'
    BY <1>1, <2>1 DEF Fresh, NoStaleDispatch, Reloaded, Retried, client, served
  <2> QED
    BY <2>2, <2>3, <2>4
<1> QED
  BY <1>2, <1>3

-----------------------------------------------------------------------------
(* The invariant and what it gives.                                        *)

LEMMA InitGives == Init => IInv
<1> SUFFICES ASSUME Init PROVE IInv
  OBVIOUS
<1>1. ProcessTypes /\ WireTypes /\ LoopTypes /\ PluginTypes /\ CallTypes /\ PlayTypes
  <2>1. IdleCall \in CallStates /\ Unscheduled \in Plays /\ NoLoop \in LoopStates
    BY DEF IdleCall, CallStates, Values, Unscheduled, Plays, NoLoop, LoopStates, LoopPlaces
  <2>2. ProcessTypes /\ WireTypes
    <3>1. running \in BOOLEAN /\ broken \in BOOLEAN
      BY DEF Init
    <3>2. alive \subseteq Nat \ {0}
      BY DEF Init
    <3>3. wire \in Seq(Requests) /\ replies \in Seq(Replies)
      BY DEF Init
    <3> QED
      BY <3>1, <3>2, <3>3 DEF Init, ProcessTypes, WireTypes
  <2>3. LoopTypes
    BY <2>1 DEF Init, LoopTypes
  <2>4. PluginTypes /\ CallTypes
    BY <2>1 DEF Init, PluginTypes, CallTypes, Values
  <2>5. PlayTypes
    BY <2>1 DEF Init, PlayTypes
  <2> QED
    BY <2>2, <2>3, <2>4, <2>5
<1>2. Placed /\ Accounted /\ Waited
  BY DEF Init, Placed, Starting, Accounted, Waited, NoLoop
<1>3. Fresh /\ Reloaded /\ Retried
  BY DEF Init, Fresh, NoStaleDispatch, Reloaded, Retried, NoLoop, Unscheduled
<1> QED
  BY <1>1, <1>2, <1>3 DEF IInv, Types

LEMMA StepKeeps == IInv /\ [Next]_vars => IInv'
<1> SUFFICES ASSUME IInv, [Next]_vars PROVE IInv'
  OBVIOUS
<1>1. CASE DaemonDies
  BY <1>1, DaemonDiesKeeps
<1>2. CASE SocketBreaks
  BY <1>2, SocketBreaksKeeps
<1>3. CASE Serve
  BY <1>3, ServeKeeps
<1>4. CASE StreamStats
  BY <1>4, StreamStatsKeeps
<1>5. CASE BackoffElapsed
  BY <1>5, BackoffElapsedKeeps
<1>6. CASE Connect
  BY <1>6, ConnectKeeps
<1>7. CASE Handshake
  BY <1>7, HandshakeKeeps
<1>8. CASE StartFails
  BY <1>8, StartFailsKeeps
<1>9. CASE SocketClose
  BY <1>9, SocketCloseKeeps
<1>10. CASE Answers
  BY <1>10, StatusAnsweredKeeps, PluginReloadedKeeps, RoutingReappliedKeeps, PluginAnsweredKeeps,
     RouteAnsweredKeeps, SampleLoadedKeeps, PlayAnsweredKeeps DEF Answers
<1>11. CASE Start \/ ClearSequence \/ StopAll \/ Preload \/ LoadPlugin
  BY <1>11, StartKeeps, ClearSequenceKeeps, StopAllKeeps, PreloadKeeps, LoadPluginKeeps
<1>12. CASE \E e \in Events : Schedule(e) \/ Poll(e)
  BY <1>12, ScheduleKeeps, PollKeeps
<1>13. CASE \E c \in Calls, r \in Routings : SetBusRouting(c, r)
  BY <1>13, SetBusRoutingKeeps
<1>14. CASE Quit \/ QuitDaemon
  BY <1>14, QuitKeeps, QuitDaemonKeeps
<1>15. CASE UNCHANGED vars
  BY <1>15
  DEF vars, IInv, Types, ProcessTypes, WireTypes, LoopTypes, PluginTypes, CallTypes, PlayTypes,
      Placed, Starting, Accounted, Waited, Wanted, Fresh, NoStaleDispatch, Reloaded, Retried,
      daemons, client, served, supervisor, clock, samples, plugin, routing, plays, history
<1> QED
  BY <1>1, <1>2, <1>3, <1>4, <1>5, <1>6, <1>7, <1>8, <1>9, <1>10, <1>11, <1>12, <1>13, <1>14, <1>15
  DEF Next

LEMMA Invariant == Spec => []IInv
BY InitGives, StepKeeps, PTL DEF Spec

\* Whatever is lost, retried, cleared or quit, in whatever order: at most one
\* daemon process is alive, the client's child, and none once quit() has
\* returned, save those whose socket broke while they lived.
THEOREM OneDaemon == Spec => []NoOrphanDaemon
<1>1. IInv => NoOrphanDaemon
  BY DEF IInv, Placed, Accounted, NoOrphanDaemon
<1> QED
  BY <1>1, Invariant, PTL

\* The engine is left without a daemon and without a loop only by a death
\* while plugins or routings were being restored.
THEOREM RetriedUnlessRestoring == Spec => []OnlyRestoringAbandons
<1>1. IInv => OnlyRestoringAbandons
  BY DEF IInv, Placed, Starting, Retried, OnlyRestoringAbandons, Abandoned
<1> QED
  BY <1>1, Invariant, PTL

\* No play is sent with the clock of a dead daemon or a sample id that another
\* daemon gave, over any number of respawns.
THEOREM DispatchIsFresh == Spec => []NoStaleDispatch
<1>1. IInv => NoStaleDispatch
  BY DEF IInv, Fresh
<1> QED
  BY <1>1, Invariant, PTL

\* A plugin the engine sends notes to is loaded in the daemon it is connected
\* to, once no respawn is under way.
THEOREM NotesReachThePlugin == Spec => []ActiveIsLoaded
<1>1. IInv => ActiveIsLoaded
  BY DEF IInv, Types, ProcessTypes, Reloaded, ActiveIsLoaded, Restored, Connected
<1> QED
  BY <1>1, Invariant, PTL

-----------------------------------------------------------------------------
(* Plays of cleared sequences.                                             *)

\* What waits in the queue was scheduled since the last clear, and so was
\* something, whenever the sequence is live.
Lives ==
    /\ live => \E f \in Events : ev[f].pc # "none" /\ ev[f].life = life
    /\ \A e \in Events : ev[e].pc = "queued" => ev[e].life = life

\* A play in a step that schedules and clears nothing.
Moves(e) ==
    /\ ev'[e].life = ev[e].life
    /\ ev[e].pc # "none" => ev'[e].pc # "none"
    /\ ev'[e].pc = "queued" => ev[e].pc = "queued"

\* Sent from the queue, or from the wait for its sample while the sequence is live.
Sent(e) ==
    ev[e].pc # "sent" /\ ev'[e].pc = "sent" =>
        ev[e].pc = "queued" \/ (ev[e].pc = "loading" /\ live)

LEMMA MovesKeep ==
  ASSUME Lives, UNCHANGED <<live, life>>, \A e \in Events : Moves(e)
  PROVE  Lives'
BY DEF Lives, Moves

LEMMA PlaysKept ==
  ASSUME Lives, UNCHANGED <<live, life, ev>>
  PROVE  Lives' /\ \A e \in Events : Sent(e)
BY DEF Lives, Sent

LEMMA PlayFields ==
  ASSUME NEW r \in Plays, NEW pc \in {"none", "queued", "loading", "sent", "played", "dropped"}
  PROVE  [r EXCEPT !.pc = pc].life = r.life /\ [r EXCEPT !.pc = pc].pc = pc
BY DEF Plays

LEMMA FailedPlays ==
  ASSUME PlayTypes, Lives, FailPending, UNCHANGED <<live, life>>
  PROVE  Lives' /\ \A e \in Events : Sent(e)
<1>1. \A e \in Events :
         /\ ev[e] \in Plays /\ [ev[e] EXCEPT !.pc = "dropped"].life = ev[e].life
         /\ [ev[e] EXCEPT !.pc = "dropped"].pc = "dropped"
  BY PlayFields DEF PlayTypes
<1>2. \A e \in Events : Moves(e) /\ Sent(e)
  BY <1>1 DEF FailPending, Moves, Sent
<1> QED
  BY <1>2, MovesKeep

LEMMA UnqueuedPlays ==
  ASSUME PlayTypes, Unqueue
  PROVE  Lives' /\ \A e \in Events : Sent(e)
<1>1. \A e \in Events : ev[e] \in Plays /\ [ev[e] EXCEPT !.pc = "dropped"].pc = "dropped"
  BY PlayFields DEF PlayTypes
<1> QED
  BY <1>1 DEF Unqueue, Lives, Sent

LEMMA ScheduledPlays ==
  ASSUME PlayTypes, Lives, NEW e \in Events, Schedule(e)
  PROVE  Lives' /\ \A f \in Events : Sent(f)
<1> DEFINE queued == [pc |-> "queued", life |-> life]
<1>1. queued.pc = "queued" /\ queued.life = life
  OBVIOUS
<1> HIDE DEF queued
<1>2. ev'[e] = queued /\ life' = life /\ \A f \in Events \ {e} : ev'[f] = ev[f]
  BY DEF Schedule, PlayTypes, queued
<1> QED
  BY <1>1, <1>2 DEF Lives, Sent

LEMMA PolledPlays ==
  ASSUME PlayTypes, Lives, NEW e \in Events, Poll(e)
  PROVE  Lives' /\ \A f \in Events : Sent(f)
<1>1. \A pc \in {"dropped", "sent", "loading"} :
         [ev[e] EXCEPT !.pc = pc].life = ev[e].life /\ [ev[e] EXCEPT !.pc = pc].pc = pc
  BY PlayFields DEF PlayTypes
<1>2. PICK pc \in {"dropped", "sent", "loading"} : ev' = [ev EXCEPT ![e].pc = pc]
  BY DEF Poll
<1>3. ev[e].pc = "queued" /\ UNCHANGED <<live, life>>
  BY DEF Poll
<1>4. \A f \in Events : Moves(f) /\ Sent(f)
  BY <1>1, <1>2, <1>3 DEF Moves, Sent, PlayTypes
<1> QED
  BY <1>3, <1>4, MovesKeep

LEMMA LoadedPlays ==
  ASSUME PlayTypes, Lives, SampleLoaded
  PROVE  Lives' /\ \A e \in Events : Sent(e)
<1> DEFINE go == IF Ok THEN Resumed ELSE {}
<1>1. /\ ev' = [e \in Events |->
                  CASE e \in go -> [ev[e] EXCEPT !.pc = "sent"]
                    [] ev[e].pc = "loading" /\ e \notin go -> [ev[e] EXCEPT !.pc = "dropped"]
                    [] OTHER -> ev[e]]
      /\ UNCHANGED <<live, life>>
  BY DEF SampleLoaded
<1>2. \A e \in go : ev[e].pc = "loading" /\ live
  BY DEF Resumed
<1> HIDE DEF go
<1>3. \A e \in Events :
         /\ [ev[e] EXCEPT !.pc = "sent"].life = ev[e].life
         /\ [ev[e] EXCEPT !.pc = "sent"].pc = "sent"
         /\ [ev[e] EXCEPT !.pc = "dropped"].life = ev[e].life
         /\ [ev[e] EXCEPT !.pc = "dropped"].pc = "dropped"
  BY PlayFields DEF PlayTypes
<1>4. \A e \in Events : Moves(e) /\ Sent(e)
  BY <1>1, <1>2, <1>3 DEF Moves, Sent
<1> QED
  BY <1>1, <1>4, MovesKeep

LEMMA AnsweredPlays ==
  ASSUME PlayTypes, Lives, PlayAnswered
  PROVE  Lives' /\ \A e \in Events : Sent(e)
<1>1. \A e \in Events : [ev[e] EXCEPT !.pc = "played"].life = ev[e].life
                        /\ [ev[e] EXCEPT !.pc = "played"].pc = "played"
  BY PlayFields DEF PlayTypes
<1>2. \A e \in Events : ev'[e] \in {ev[e], [ev[e] EXCEPT !.pc = "played"]}
  BY DEF PlayAnswered, PlayTypes
<1>3. \A e \in Events : Moves(e) /\ Sent(e)
  BY <1>1, <1>2 DEF Moves, Sent
<1>4. UNCHANGED <<live, life>>
  BY DEF PlayAnswered
<1> QED
  BY <1>3, <1>4, MovesKeep

LEMMA PlaysStep == PlayTypes /\ Lives /\ [Next]_vars => Lives' /\ \A e \in Events : Sent(e)
<1> SUFFICES ASSUME PlayTypes, Lives, [Next]_vars PROVE Lives' /\ \A e \in Events : Sent(e)
  OBVIOUS
<1>1. CASE StartFails \/ SocketClose
  BY <1>1, FailedPlays DEF StartFails, SocketClose
<1>2. CASE QuitDaemon
  <2>1. CASE running
    BY <1>2, <2>1, FailedPlays DEF QuitDaemon
  <2>2. CASE ~running
    BY <1>2, <2>2, PlaysKept DEF QuitDaemon
  <2> QED
    BY <2>1, <2>2
<1>3. CASE ClearSequence \/ StopAll \/ Quit
  BY <1>3, UnqueuedPlays DEF ClearSequence, StopAll, Quit
<1>4. CASE SampleLoaded \/ PlayAnswered
  BY <1>4, LoadedPlays, AnsweredPlays
<1>5. CASE \E e \in Events : Schedule(e) \/ Poll(e)
  BY <1>5, ScheduledPlays, PolledPlays
<1>6. CASE \/ DaemonDies \/ SocketBreaks \/ Serve \/ StreamStats \/ BackoffElapsed \/ Connect
           \/ Handshake \/ StatusAnswered \/ PluginReloaded \/ RoutingReapplied \/ PluginAnswered
           \/ RouteAnswered \/ Start \/ Preload \/ LoadPlugin
           \/ \E c \in Calls, r \in Routings : SetBusRouting(c, r)
  <2>1. UNCHANGED <<live, life, ev>>
    BY <1>6
    DEF DaemonDies, SocketBreaks, Serve, StreamStats, BackoffElapsed, Connect, Handshake,
        StatusAnswered, PluginReloaded, RoutingReapplied, PluginAnswered, RouteAnswered, Start,
        Preload, LoadPlugin, SetBusRouting, plays
  <2> QED
    BY <2>1, PlaysKept
<1>7. CASE UNCHANGED vars
  BY <1>7, PlaysKept DEF vars, plays
<1> QED
  BY <1>1, <1>2, <1>3, <1>4, <1>5, <1>6, <1>7 DEF Next, Answers

\* A play of a cleared sequence is sent only after waiting for its sample, and
\* only if something scheduled since the clear made the sequence live again.
THEOREM GhostsWaited == Spec => NoGhost
<1> DEFINE Ghostless ==
      \A e \in Events :
          ev[e].pc # "sent" /\ ev'[e].pc = "sent" /\ ev[e].life # life =>
              /\ ev[e].pc = "loading"
              /\ \E f \in Events : ev[f].pc # "none" /\ ev[f].life = life
<1>1. Init => Lives
  BY DEF Init, Lives, Unscheduled
<1>2. IInv => PlayTypes
  BY DEF IInv, Types
<1>3. PlayTypes /\ Lives /\ [Next]_vars => Lives' /\ [Ghostless]_vars
  BY PlaysStep DEF Lives, Sent
<1>4. Spec => [][Ghostless]_vars
  BY <1>1, <1>2, <1>3, Invariant, PTL DEF Spec
<1> QED
  BY <1>4 DEF NoGhost

-----------------------------------------------------------------------------
(* The bus routing.                                                        *)

\* What the last routing request on the wire asks for, the daemon's routing
\* when there is none.
IsRoute(r) == r.kind = "route"
FinalIs(v) ==
    /\ \A i \in DOMAIN wire :
          IsRoute(wire[i]) /\ (\A j \in DOMAIN wire : IsRoute(wire[j]) => j <= i) =>
              wire[i].value = v
    /\ (\A i \in DOMAIN wire : ~IsRoute(wire[i])) => routed[ws] = v

\* The refusal of a request that crosses another is on its way.
Crossed(who) == who = Loop \/ call[who].over
Refusal ==
    \/ \E i \in DOMAIN wire :
          IsRoute(wire[i]) /\ wire[i].value \in Refused /\ Crossed(wire[i].who)
    \/ \E i \in DOMAIN replies :
          IsRoute(replies[i]) /\ ~replies[i].ok /\ Crossed(replies[i].who)

\* A call that is waiting and that nothing crosses.
Waiting(c) == call[c].pc = "sent"
Lone(c) == Waiting(c) /\ ~call[c].over

RouteTypes == routed \in [Daemons -> Values] /\ muddled \in BOOLEAN

\* A call waits only for a daemon, with one request or answer of its own.
NoSent == ws = 0 => \A c \in Calls : ~Waiting(c)
Items ==
    /\ \A i \in DOMAIN wire : IsRoute(wire[i]) =>
          /\ wire[i].value # "default"
          /\ wire[i].who # Loop =>
                Waiting(wire[i].who) /\ wire[i].value = call[wire[i].who].value
    /\ \A i \in DOMAIN replies :
          IsRoute(replies[i]) /\ replies[i].who # Loop => Waiting(replies[i].who)
    /\ \A i, j \in DOMAIN wire :
          IsRoute(wire[i]) /\ IsRoute(wire[j]) /\ wire[i].who = wire[j].who => i = j
    /\ \A i, j \in DOMAIN replies :
          IsRoute(replies[i]) /\ IsRoute(replies[j]) /\ replies[i].who = replies[j].who => i = j
    /\ \A i \in DOMAIN wire, j \in DOMAIN replies :
          ~(IsRoute(wire[i]) /\ IsRoute(replies[j]) /\ wire[i].who = replies[j].who)

\* Every daemon after the first is paid for by a loss, so the bound on losses
\* bounds them.
Counting ==
    /\ losses \in Nat /\ losses <= MaxLosses /\ born # 0 /\ (broken => ws # 0)
    /\ loop.pc = "backoff" => born <= losses
    /\ loop.pc = "starting" \/ ws # 0 =>
          /\ child = born /\ born <= losses + 1
          /\ child \notin alive \/ broken => born <= losses

\* A daemon that was not connected yet has the default routing.
NewDaemons ==
    /\ \A d \in Daemons : d > born => routed[d] = "default"
    /\ loop.pc = "starting" => routed[child] = "default"

\* With no lone call, the last word on its way to the daemon is the cache's, or
\* the loop has not restored yet, or a refused call crossed another.
Agreement ==
    ~disposed /\ ws # 0 /\ (\A c \in Calls : ~Lone(c)) =>
        \/ muddled \/ Refusal \/ FinalIs(cache)
        \/ loop.pc \in {"handshake", "session", "reload"} /\ FinalIs("default")

\* A lone call knows what the daemon routed before it.
Alone ==
    ~disposed => \A c \in Calls : Lone(c) =>
        /\ loop.pc = "none" /\ cache = call[c].value
        /\ \A d \in Calls : Waiting(d) => d = c
        /\ (\E i \in DOMAIN wire : IsRoute(wire[i])) => muddled \/ routed[ws] = call[c].prev
        /\ \A i \in DOMAIN replies : IsRoute(replies[i]) =>
              /\ replies[i].ok => routed[ws] = cache
              /\ ~replies[i].ok => muddled \/ routed[ws] = call[c].prev

Numbered == Counting /\ NewDaemons
Spoken == NoSent /\ Items /\ Agreement /\ Alone
RInv == RouteTypes /\ Numbered /\ Spoken

LEMMA InitRoutes == Init => RInv
<1> SUFFICES ASSUME Init PROVE RInv
  OBVIOUS
<1>1. \A c \in Calls : ~Waiting(c)
  BY DEF Init, IdleCall, Waiting
<1>2. wire = <<>> /\ replies = <<>> /\ ws = 1 /\ routed = [d \in Daemons |-> "default"]
      /\ cache = "default" /\ loop.pc = "none"
  BY DEF Init, NoLoop
<1>3. RouteTypes
  BY <1>2 DEF RouteTypes, Values, Init
<1>4. 1 \in Daemons
  BY EnginePlayerAssumption DEF Daemons
<1>5. Numbered
  BY <1>2, EnginePlayerAssumption DEF Init, Numbered, Counting, NewDaemons
<1>6. NoSent /\ Items
  BY <1>1, <1>2 DEF NoSent, Items
<1>7. FinalIs(cache)
  BY <1>2, <1>4 DEF FinalIs
<1> QED
  BY <1>1, <1>3, <1>5, <1>6, <1>7 DEF RInv, Spoken, Agreement, Alone, Lone

LEMMA RoutesAgree == IInv /\ RInv => RoutingAgrees
<1> SUFFICES ASSUME IInv, RInv, Settled, ~muddled PROVE routed[ws] = cache
  BY DEF RoutingAgrees
<1>1. /\ ws # 0 /\ ~disposed /\ loop.pc = "none" /\ \A c \in Calls : ~Waiting(c)
  BY DEF Settled, Restored, Connected, Waiting, IInv, Types, ProcessTypes
<1>2. \A i \in DOMAIN wire : ~IsRoute(wire[i])
  BY <1>1 DEF RInv, Spoken, Items, IInv, Types, WireTypes, Waited, Wanted, IsRoute, Requests
<1>3. \A i \in DOMAIN replies : ~IsRoute(replies[i])
  BY <1>1 DEF RInv, Spoken, Items, IInv, Types, WireTypes, Waited, Wanted, IsRoute, Replies
<1>4. FinalIs(cache)
  BY <1>1, <1>2, <1>3 DEF RInv, Spoken, Agreement, Refusal, Lone
<1> QED
  BY <1>2, <1>4 DEF FinalIs

-----------------------------------------------------------------------------
\* The routings of s are those of t, k places further.
Carried(s, t, k) ==
    /\ \A i \in DOMAIN t : IsRoute(t[i]) => i + k \in DOMAIN s /\ t[i] = s[i + k]
    /\ \A i \in DOMAIN s : IsRoute(s[i]) => i - k \in DOMAIN t /\ t[i - k] = s[i]

LEMMA CarriedSame == ASSUME NEW T, NEW s \in Seq(T) PROVE Carried(s, s, 0)
BY DEF Carried

LEMMA CarriedAppend ==
  ASSUME NEW T, NEW s \in Seq(T), NEW r \in T, ~IsRoute(r)
  PROVE  Carried(s, Append(s, r), 0)
<1>1. /\ DOMAIN Append(s, r) = DOMAIN s \union {Len(s) + 1} /\ Append(s, r)[Len(s) + 1] = r
      /\ \A i \in DOMAIN s : Append(s, r)[i] = s[i] /\ i + 0 = i /\ i - 0 = i
  OBVIOUS
<1> QED
  BY <1>1 DEF Carried

LEMMA CarriedTail ==
  ASSUME NEW T, NEW s \in Seq(T), s # <<>>, ~IsRoute(Head(s))
  PROVE  Carried(s, Tail(s), 1)
<1>1. /\ Head(s) = s[1] /\ \A i \in DOMAIN Tail(s) : i + 1 \in DOMAIN s /\ Tail(s)[i] = s[i + 1]
      /\ \A i \in DOMAIN s : i # 1 => i - 1 \in DOMAIN Tail(s) /\ Tail(s)[i - 1] = s[i]
  OBVIOUS
<1> QED
  BY <1>1 DEF Carried

LEMMA CarriedJoin ==
  ASSUME NEW T, NEW s \in Seq(T), NEW u \in Seq(T), \A i \in DOMAIN u : ~IsRoute(u[i])
  PROVE  Carried(s, s \o u, 0)
<1>1. /\ DOMAIN s = 1 .. Len(s) /\ DOMAIN u = 1 .. Len(u) /\ Len(s) \in Nat /\ Len(u) \in Nat
      /\ DOMAIN (s \o u) = 1 .. Len(s) + Len(u)
      /\ \A i \in DOMAIN (s \o u) : (s \o u)[i] = IF i <= Len(s) THEN s[i] ELSE u[i - Len(s)]
  OBVIOUS
<1>2. \A i \in DOMAIN (s \o u) : i > Len(s) => i - Len(s) \in DOMAIN u
  BY <1>1
<1>3. \A i \in DOMAIN (s \o u) : IsRoute((s \o u)[i]) => i \in DOMAIN s /\ (s \o u)[i] = s[i]
  BY <1>1, <1>2
<1>4. \A i \in DOMAIN s : i \in DOMAIN (s \o u) /\ (s \o u)[i] = s[i] /\ i + 0 = i /\ i - 0 = i
  BY <1>1
<1> QED
  BY <1>3, <1>4 DEF Carried

\* A step that only moves the routings on the wire along.
Along(m, k) ==
    /\ WireTypes' /\ Carried(wire, wire', m) /\ Carried(replies, replies', k)
    /\ UNCHANGED <<ws, routed, cache, call, muddled>>
    /\ disposed => disposed'

LEMMA PlacesAreNumbers ==
  ASSUME WireTypes
  PROVE  (\A i \in DOMAIN wire : i \in Nat) /\ (\A i \in DOMAIN replies : i \in Nat)
BY DEF WireTypes

LEMMA FinalAlong ==
  ASSUME WireTypes, NEW m \in Nat, NEW k \in Nat, Along(m, k), NEW v
  PROVE  FinalIs(v) => FinalIs(v)'
<1>1. /\ \A i \in DOMAIN wire : i \in Nat
      /\ \A i \in DOMAIN wire' : i \in Nat
  BY PlacesAreNumbers DEF Along, WireTypes
<1>2. Carried(wire, wire', m)
  BY DEF Along
<1>3. ASSUME FinalIs(v), NEW i \in DOMAIN wire', IsRoute(wire'[i]),
             \A j \in DOMAIN wire' : IsRoute(wire'[j]) => j <= i
      PROVE  wire'[i].value = v
  <2>1. i + m \in DOMAIN wire /\ wire'[i] = wire[i + m]
    BY <1>2, <1>3 DEF Carried
  <2>2. \A j \in DOMAIN wire : IsRoute(wire[j]) => j <= i + m
    BY <1>1, <1>2, <1>3 DEF Carried
  <2> QED
    BY <1>3, <2>1, <2>2 DEF FinalIs
<1>4. ASSUME FinalIs(v), \A i \in DOMAIN wire' : ~IsRoute(wire'[i]) PROVE routed'[ws'] = v
  <2>1. \A i \in DOMAIN wire : ~IsRoute(wire[i])
    BY <1>2, <1>4 DEF Carried
  <2> QED
    BY <1>4, <2>1 DEF FinalIs, Along
<1> QED
  BY <1>3, <1>4 DEF FinalIs

LEMMA RefusalAlong ==
  ASSUME NEW m \in Nat, NEW k \in Nat, Along(m, k), Refusal
  PROVE  Refusal'
<1>1. call' = call /\ Carried(wire, wire', m) /\ Carried(replies, replies', k)
  BY DEF Along
<1>2. CASE \E i \in DOMAIN wire :
             IsRoute(wire[i]) /\ wire[i].value \in Refused /\ Crossed(wire[i].who)
  BY <1>1, <1>2 DEF Refusal, Carried, Crossed
<1>3. CASE \E i \in DOMAIN replies :
             IsRoute(replies[i]) /\ ~replies[i].ok /\ Crossed(replies[i].who)
  BY <1>1, <1>3 DEF Refusal, Carried, Crossed
<1> QED
  BY <1>2, <1>3 DEF Refusal

LEMMA ItemsAlong ==
  ASSUME WireTypes, NEW m \in Nat, NEW k \in Nat, Along(m, k), Items
  PROVE  Items'
<1>1. /\ \A i \in DOMAIN wire' : IsRoute(wire'[i]) =>
            i + m \in DOMAIN wire /\ wire'[i] = wire[i + m] /\ i \in Nat
      /\ \A i \in DOMAIN replies' : IsRoute(replies'[i]) =>
            i + k \in DOMAIN replies /\ replies'[i] = replies[i + k] /\ i \in Nat
      /\ call' = call
  BY DEF Along, Carried, WireTypes
<1>2. /\ \A i \in DOMAIN wire' : IsRoute(wire'[i]) =>
            /\ wire'[i].value # "default"
            /\ wire'[i].who # Loop =>
                  /\ call'[wire'[i].who].pc = "sent"
                  /\ wire'[i].value = call'[wire'[i].who].value
      /\ \A i \in DOMAIN replies' :
            IsRoute(replies'[i]) /\ replies'[i].who # Loop => call'[replies'[i].who].pc = "sent"
  BY <1>1 DEF Items, Waiting
<1>3. \A i, j \in DOMAIN wire' :
         IsRoute(wire'[i]) /\ IsRoute(wire'[j]) /\ wire'[i].who = wire'[j].who => i = j
  <2>1. \A i, j \in DOMAIN wire' :
           IsRoute(wire'[i]) /\ IsRoute(wire'[j]) /\ wire'[i].who = wire'[j].who => i + m = j + m
    BY <1>1 DEF Items
  <2> QED
    BY <1>1, <2>1
<1>4. \A i, j \in DOMAIN replies' :
         IsRoute(replies'[i]) /\ IsRoute(replies'[j]) /\ replies'[i].who = replies'[j].who => i = j
  <2>1. \A i, j \in DOMAIN replies' :
           IsRoute(replies'[i]) /\ IsRoute(replies'[j]) /\ replies'[i].who = replies'[j].who =>
               i + k = j + k
    BY <1>1 DEF Items
  <2> QED
    BY <1>1, <2>1
<1>5. \A i \in DOMAIN wire', j \in DOMAIN replies' :
         ~(IsRoute(wire'[i]) /\ IsRoute(replies'[j]) /\ wire'[i].who = replies'[j].who)
  BY <1>1 DEF Items
<1> QED
  BY <1>2, <1>3, <1>4, <1>5 DEF Items, Waiting

LEMMA SpokenAlong ==
  ASSUME WireTypes, NEW m \in Nat, NEW k \in Nat, Along(m, k), Spoken,
         loop'.pc = loop.pc \/ {loop.pc, loop'.pc} \subseteq {"handshake", "session", "reload"}
             \/ (loop.pc # "none" /\ (disposed \/ cache = "default"))
  PROVE  Spoken'
<1>1. UNCHANGED <<ws, routed, cache, call, muddled>> /\ (disposed => disposed')
  BY DEF Along
<1>2. NoSent'
  BY <1>1 DEF Spoken, NoSent, Waiting
<1>3. Items'
  BY ItemsAlong DEF Spoken
<1>4. Agreement'
  <2> SUFFICES ASSUME ~disposed', ws' # 0, \A c \in Calls : ~Lone(c)'
               PROVE  \/ muddled' \/ Refusal' \/ FinalIs(cache)'
                      \/ loop'.pc \in {"handshake", "session", "reload"} /\ FinalIs("default")'
    BY DEF Agreement
  <2>1. ~disposed /\ ws # 0 /\ \A c \in Calls : ~Lone(c)
    BY <1>1 DEF Lone, Waiting
  <2>2. \/ muddled \/ Refusal \/ FinalIs(cache)
        \/ loop.pc \in {"handshake", "session", "reload"} /\ FinalIs("default")
    BY <2>1 DEF Spoken, Agreement
  <2>3. (Refusal => Refusal') /\ (FinalIs("default") => FinalIs("default")')
        /\ (FinalIs(cache) => FinalIs(cache)')
    <3>1. PICK v : v = cache
      OBVIOUS
    <3>2. FinalIs(v) => FinalIs(v)'
      BY FinalAlong
    <3> QED
      BY <1>1, <3>1, <3>2, FinalAlong, RefusalAlong DEF FinalIs
  <2> QED
    BY <1>1, <2>1, <2>2, <2>3
<1>5. Alone'
  <2> SUFFICES ASSUME ~disposed', NEW c \in Calls, Lone(c)'
               PROVE  /\ loop'.pc = "none" /\ cache' = call'[c].value
                      /\ \A d \in Calls : Waiting(d)' => d = c
                      /\ (\E i \in DOMAIN wire' : IsRoute(wire'[i])) =>
                            muddled' \/ routed'[ws'] = call'[c].prev
                      /\ \A i \in DOMAIN replies' : IsRoute(replies'[i]) =>
                            /\ replies'[i].ok => routed'[ws'] = cache'
                            /\ ~replies'[i].ok => muddled' \/ routed'[ws'] = call'[c].prev
    BY DEF Alone
  <2>1. ~disposed /\ Lone(c)
    BY <1>1 DEF Lone, Waiting
  <2>2. Carried(wire, wire', m) /\ Carried(replies, replies', k)
    BY DEF Along
  <2>3. loop'.pc = "none" /\ cache' = call'[c].value /\ \A d \in Calls : Waiting(d)' => d = c
    BY <1>1, <2>1 DEF Spoken, Alone, Waiting
  <2>4. (\E i \in DOMAIN wire' : IsRoute(wire'[i])) =>
            muddled' \/ routed'[ws'] = call'[c].prev
    BY <1>1, <2>1, <2>2 DEF Spoken, Alone, Carried
  <2>5. \A i \in DOMAIN replies' : IsRoute(replies'[i]) =>
            /\ replies'[i].ok => routed'[ws'] = cache'
            /\ ~replies'[i].ok => muddled' \/ routed'[ws'] = call'[c].prev
    BY <1>1, <2>1, <2>2 DEF Spoken, Alone, Carried
  <2> QED
    BY <2>3, <2>4, <2>5
<1> QED
  BY <1>2, <1>3, <1>4, <1>5 DEF Spoken

-----------------------------------------------------------------------------
(* The steps that ask for no routing and answer none.                      *)

RoutesUntouched == UNCHANGED <<ws, routed, cache, call, muddled>> /\ (disposed => disposed')
DaemonsUntouched == UNCHANGED <<alive, child, born, losses, ws, broken, routed>>

LEMMA NumberedStays ==
  ASSUME Numbered, DaemonsUntouched, loop'.pc \in {"backoff", "starting"} => loop'.pc = loop.pc
  PROVE  Numbered'
BY DEF DaemonsUntouched, Numbered, Counting, NewDaemons

LEMMA StillAlong ==
  ASSUME WireTypes, UNCHANGED <<wire, replies>>, RoutesUntouched
  PROVE  Along(0, 0)
BY CarriedSame DEF WireTypes, Along, RoutesUntouched

LEMMA AskedAlong ==
  ASSUME WireTypes, NEW r \in Requests, ~IsRoute(r), wire' = Append(wire, r), UNCHANGED replies,
         RoutesUntouched
  PROVE  Along(0, 0)
BY CarriedSame, CarriedAppend DEF WireTypes, Along, RoutesUntouched

LEMMA AnsweredAlong ==
  ASSUME WireTypes, replies # <<>>, ~IsRoute(Head(replies)), replies' = Tail(replies),
         UNCHANGED wire, RoutesUntouched
  PROVE  Along(0, 1)
BY CarriedSame, CarriedTail DEF WireTypes, Along, RoutesUntouched

\* A step whose loop stays, leaves, or moves before the routings.
LEMMA AlongKeeps ==
  ASSUME IInv, RInv, NEW m \in Nat, NEW k \in Nat, Along(m, k), DaemonsUntouched,
         loop'.pc = loop.pc \/ {loop.pc, loop'.pc} \subseteq {"handshake", "session", "reload"}
             \/ (loop.pc # "none" /\ (disposed \/ cache = "default")
                    /\ loop'.pc \notin {"backoff", "starting"})
  PROVE  RInv'
<1>1. Spoken'
  BY SpokenAlong DEF IInv, Types, RInv
<1>2. Numbered'
  BY NumberedStays DEF RInv
<1>3. RouteTypes'
  BY DEF RInv, RouteTypes, Along
<1> QED
  BY <1>1, <1>2, <1>3 DEF RInv

LEMMA DaemonDiesRoutes == ASSUME IInv, RInv, DaemonDies PROVE RInv'
<1>1. Along(0, 0)
  BY StillAlong
  DEF IInv, Types, DaemonDies, RoutesUntouched, client, served, supervisor, routing, history
<1>2. loop' = loop
  BY DEF DaemonDies, supervisor
<1>3. Spoken' /\ RouteTypes'
  BY <1>1, <1>2, SpokenAlong
  DEF IInv, Types, RInv, RouteTypes, DaemonDies, served, history
<1>4. losses' \in Nat /\ losses' = losses + 1 /\ losses' <= MaxLosses
  BY EnginePlayerAssumption DEF RInv, Numbered, Counting, DaemonDies, Lose
<1>5. UNCHANGED <<child, born, ws, broken, routed>> /\ born \in Nat
  BY DEF DaemonDies, client, served, IInv, Types, ProcessTypes
<1>6. Numbered'
  BY <1>2, <1>4, <1>5 DEF RInv, Numbered, Counting, NewDaemons
<1> QED
  BY <1>3, <1>6 DEF RInv

LEMMA SocketBreaksRoutes == ASSUME IInv, RInv, SocketBreaks PROVE RInv'
<1>1. Along(0, 0)
  BY StillAlong
  DEF IInv, Types, SocketBreaks, RoutesUntouched, served, supervisor, routing, history
<1>2. loop' = loop
  BY DEF SocketBreaks, supervisor
<1>3. Spoken' /\ RouteTypes'
  BY <1>1, <1>2, SpokenAlong
  DEF IInv, Types, RInv, RouteTypes, SocketBreaks, served, history
<1>4. ws # 0
  BY DEF SocketBreaks, IInv, Types, ProcessTypes
<1>5. losses' \in Nat /\ losses' = losses + 1 /\ losses' <= MaxLosses
  BY EnginePlayerAssumption DEF RInv, Numbered, Counting, SocketBreaks, Lose
<1>6. UNCHANGED <<alive, child, born, ws, routed>> /\ born \in Nat
  BY DEF SocketBreaks, served, IInv, Types, ProcessTypes
<1>7. Numbered'
  BY <1>2, <1>4, <1>5, <1>6 DEF RInv, Numbered, Counting, NewDaemons
<1> QED
  BY <1>3, <1>7 DEF RInv

\* Nothing on the wire, nothing on the loop.
LEMMA IdleKeeps ==
  ASSUME IInv, RInv,
         UNCHANGED <<daemons, ws, broken, wire, replies, served, loop, routing, history>>,
         disposed => disposed'
  PROVE  RInv'
<1>1. Along(0, 0) /\ DaemonsUntouched
  BY StillAlong
  DEF IInv, Types, RoutesUntouched, DaemonsUntouched, daemons, served, routing, history
<1> QED
  BY <1>1, AlongKeeps

LEMMA IdleRoutes ==
  ASSUME IInv, RInv,
         StreamStats \/ Start \/ ClearSequence \/ StopAll \/ Quit \/ (\E e \in Events : Schedule(e))
             \/ UNCHANGED vars
  PROVE  RInv'
BY IdleKeeps
DEF StreamStats, Start, ClearSequence, StopAll, Quit, Schedule, vars, client, supervisor,
                 daemons

LEMMA AskKeeps ==
  ASSUME IInv, RInv, NEW r \in Requests, ~IsRoute(r), wire' = Append(wire, r),
         UNCHANGED <<daemons, ws, broken, replies, served, routing, history, disposed>>,
         loop'.pc = loop.pc \/ {loop.pc, loop'.pc} \subseteq {"handshake", "session", "reload"}
  PROVE  RInv'
<1>1. Along(0, 0) /\ DaemonsUntouched
  BY AskedAlong
  DEF IInv, Types, RoutesUntouched, DaemonsUntouched, daemons, served, routing, history
<1> QED
  BY <1>1, AlongKeeps

LEMMA LoadRoutes ==
  ASSUME IInv, RInv, LoadSample,
         UNCHANGED <<daemons, ws, broken, replies, served, routing, history, supervisor>>
  PROVE  RInv'
<1>1. PICK r \in Requests : r = Ask("load", Loop) /\ r.kind = "load"
  BY RequestTypes DEF Ask, Loop, Kinds, Values, Senders, IInv, Types
<1> QED
  BY <1>1, AskKeeps DEF LoadSample, IsRoute, supervisor

LEMMA PreloadRoutes == ASSUME IInv, RInv, Preload PROVE RInv'
BY LoadRoutes DEF Preload

LEMMA PollRoutes == ASSUME IInv, RInv, NEW e \in Events, Poll(e) PROVE RInv'
<1>1. UNCHANGED <<daemons, ws, broken, replies, served, routing, history, supervisor>>
  BY DEF Poll
<1>2. CASE UNCHANGED wire
  BY <1>1, <1>2, IdleKeeps DEF supervisor
<1>3. CASE LoadSample
  BY <1>1, <1>3, LoadRoutes
<1>4. CASE wire' = Append(wire, Request("play", e, "default", sampleId))
  <2>1. PICK r \in Requests : r = Request("play", e, "default", sampleId) /\ r.kind = "play"
    BY RequestTypes DEF Kinds, Values, Senders, IInv, Types, ProcessTypes
  <2> QED
    BY <1>1, <1>4, <2>1, AskKeeps DEF IsRoute, supervisor
<1> QED
  BY <1>2, <1>3, <1>4 DEF Poll

LEMMA LoadPluginRoutes == ASSUME IInv, RInv, LoadPlugin PROVE RInv'
<1>1. UNCHANGED <<daemons, ws, broken, replies, served, routing, history, supervisor>>
  BY DEF LoadPlugin
<1>2. CASE UNCHANGED wire
  BY <1>1, <1>2, IdleKeeps DEF supervisor
<1>3. CASE wire' = Append(wire, Ask("plugin", "user"))
  <2>1. PICK r \in Requests : r = Ask("plugin", "user") /\ r.kind = "plugin"
    BY RequestTypes DEF Ask, Kinds, Values, Senders, IInv, Types
  <2> QED
    BY <1>1, <1>3, <2>1, AskKeeps DEF IsRoute, supervisor
<1> QED
  BY <1>2, <1>3 DEF LoadPlugin

LEMMA AnswerKeeps ==
  ASSUME IInv, RInv, replies # <<>>, ~IsRoute(Head(replies)), replies' = Tail(replies),
         UNCHANGED <<wire, daemons, ws, broken, served, routing, history, disposed>>,
         loop'.pc = loop.pc
             \/ (loop.pc # "none" /\ loop'.pc = "none" /\ (disposed \/ cache = "default"))
  PROVE  RInv'
<1>1. Along(0, 1) /\ DaemonsUntouched
  BY AnsweredAlong
  DEF IInv, Types, RoutesUntouched, DaemonsUntouched, daemons, served, routing, history
<1> QED
  BY <1>1, AlongKeeps

LEMMA PluginAnsweredRoutes == ASSUME IInv, RInv, PluginAnswered PROVE RInv'
BY AnswerKeeps DEF PluginAnswered, Answer, IsRoute, supervisor

LEMMA PlayAnsweredRoutes == ASSUME IInv, RInv, PlayAnswered PROVE RInv'
BY AnswerKeeps DEF PlayAnswered, Answer, IsRoute, supervisor

LEMMA SampleLoadedRoutes == ASSUME IInv, RInv, SampleLoaded PROVE RInv'
<1> DEFINE go == IF Ok THEN Resumed ELSE {}
           s == SetToSeq({Request("play", e, "default", ws) : e \in go})
<1>1. /\ replies # <<>> /\ Head(replies).kind = "load" /\ replies' = Tail(replies)
      /\ wire' = wire \o s
      /\ UNCHANGED <<daemons, ws, broken, served, supervisor, routing, history>>
  BY DEF SampleLoaded, Answer
<1>2. go \in SUBSET Events
  BY DEF Resumed
<1> HIDE DEF go
<1>3. s \in Seq(Requests) /\ \A i \in DOMAIN s : s[i].kind = "play"
  <2>1. ProcessTypes /\ CallTypes
    BY DEF IInv, Types
  <2>2. /\ s \in Seq(Requests)
        /\ \A i \in DOMAIN s : s[i].kind = "play" /\ s[i].anchor = anchor /\ s[i].sample = ws
                               /\ go # {}
    BY <1>2, <2>1, WaitersSent
  <2> QED
    BY <2>2
<1> HIDE DEF s
<1>4. Carried(wire, wire', 0) /\ Carried(replies, replies', 1)
  BY <1>1, <1>3, CarriedJoin, CarriedTail DEF IInv, Types, WireTypes, IsRoute
<1>5. WireTypes'
  BY SampleLoadedKeeps DEF IInv, Types
<1>6. Along(0, 1) /\ DaemonsUntouched
  BY <1>1, <1>4, <1>5
  DEF Along, DaemonsUntouched, daemons, served, routing, history, supervisor
<1> QED
  BY <1>1, <1>6, AlongKeeps DEF supervisor

LEMMA HandshakeRoutes == ASSUME IInv, RInv, Handshake PROVE RInv'
<1>1. /\ loop.pc = "handshake"
      /\ UNCHANGED <<daemons, ws, broken, replies, served, disposed, routing, history>>
  BY DEF Handshake
<1>2. CASE disposed
  <2>1. LeaveLoop /\ UNCHANGED wire
    BY <1>2 DEF Handshake
  <2>2. loop'.pc = "none"
    BY <2>1, LoopLeaves
  <2>3. Along(0, 0) /\ DaemonsUntouched
    BY <1>1, <2>1, StillAlong
    DEF IInv, Types, RoutesUntouched, DaemonsUntouched, daemons, served, routing, history
  <2> QED
    BY <1>1, <1>2, <2>2, <2>3, AlongKeeps
<1>3. CASE ~disposed
  <2>1. At("session") /\ wire' = Append(wire, Ask("status", Loop))
    BY <1>3 DEF Handshake
  <2>2. loop'.pc = "session"
    BY <2>1, LoopMoves DEF LoopPlaces, IInv, Types
  <2>3. PICK r \in Requests : r = Ask("status", Loop) /\ r.kind = "status"
    BY RequestTypes DEF Ask, Loop, Kinds, Values, Senders, IInv, Types
  <2> QED
    BY <1>1, <2>1, <2>2, <2>3, AskKeeps DEF IsRoute
<1> QED
  BY <1>2, <1>3

-----------------------------------------------------------------------------
(* Daemons that come and go.                                               *)

LEMMA FailedKeeps ==
  ASSUME IInv, RInv, FailPending, ws' = 0
  PROVE  Spoken'
<1>1. WireTypes' /\ wire' = <<>> /\ replies' = <<>>
  BY PendingFailed DEF IInv, Types, WireTypes
<1>2. \A c \in Calls : ~Waiting(c)'
  BY DEF FailPending, Rejected, Waiting, IInv, Types, CallTypes, CallStates
<1> QED
  BY <1>1, <1>2 DEF Spoken, NoSent, Items, Agreement, Alone, Lone

LEMMA ConnectRoutes == ASSUME IInv, RInv, Connect PROVE RInv'
<1>1. /\ loop.pc = "starting" /\ child \in alive /\ ws' = child /\ broken' = FALSE /\ ws = 0
      /\ UNCHANGED <<daemons, wire, replies, served, routing, history>>
  BY DEF Connect, IInv, Placed
<1>2. loop'.pc = "handshake"
  BY LoopMoves DEF Connect, LoopPlaces, IInv, Types
<1>3. wire = <<>> /\ replies = <<>> /\ \A c \in Calls : ~Waiting(c)
  BY <1>1 DEF IInv, Waited, RInv, Spoken, NoSent
<1>4. routed'[ws'] = "default"
  BY <1>1 DEF RInv, Numbered, NewDaemons, served
<1>5. Spoken'
  BY <1>1, <1>2, <1>3, <1>4
            DEF Spoken, NoSent, Items, Agreement, Alone, Lone, Waiting, FinalIs, routing
<1>6. Numbered' /\ RouteTypes'
  BY <1>1, <1>2
            DEF RInv, Numbered, Counting, NewDaemons, RouteTypes, daemons, served, history, IInv,
                    Types, ProcessTypes
<1> QED
  BY <1>5, <1>6 DEF RInv

LEMMA BackoffElapsedRoutes == ASSUME IInv, RInv, BackoffElapsed PROVE RInv'
<1>1. /\ loop.pc = "backoff" /\ ws = 0
      /\ UNCHANGED <<ws, broken, wire, replies, disposed, served, routing, history>>
  BY DEF BackoffElapsed, IInv, Placed
<1>2. CASE disposed
  <2>1. LeaveLoop /\ UNCHANGED daemons
    BY <1>2 DEF BackoffElapsed
  <2>2. loop'.pc = "none"
    BY <2>1, LoopLeaves
  <2>3. Along(0, 0) /\ DaemonsUntouched
    BY <1>1, <2>1, StillAlong
    DEF IInv, Types, RoutesUntouched, DaemonsUntouched, daemons, served, routing, history
  <2> QED
    BY <1>1, <1>2, <2>2, <2>3, AlongKeeps
<1>3. CASE ~disposed
  <2>1. /\ born' = born + 1 /\ child' = born + 1 /\ alive' = alive \union {born + 1}
        /\ At("starting") /\ UNCHANGED losses
    BY <1>3 DEF BackoffElapsed
  <2>2. loop'.pc = "starting"
    BY <2>1, LoopMoves DEF LoopPlaces, IInv, Types
  <2>3. \A c \in Calls : ~Waiting(c)
    BY <1>1 DEF RInv, Spoken, NoSent
  <2>4. Spoken'
    BY <1>1, <2>3 DEF IInv, Waited, Spoken, NoSent, Items, Agreement, Alone, Lone, Waiting, routing
  <2>5. Counting'
    BY <1>1, <2>1, <2>2 DEF RInv, Numbered, Counting, IInv, Types, ProcessTypes
  <2>6. born + 1 \in Daemons
    BY <1>1, EnginePlayerAssumption DEF RInv, Numbered, Counting, IInv, Types, ProcessTypes, Daemons
  <2>7. NewDaemons' /\ RouteTypes'
    BY <1>1, <2>1, <2>6 DEF RInv, Numbered, NewDaemons, RouteTypes, served, history, IInv, Types,
                            ProcessTypes, Daemons
  <2> QED
    BY <2>4, <2>5, <2>7 DEF RInv, Numbered
<1> QED
  BY <1>2, <1>3

LEMMA StartFailsRoutes == ASSUME IInv, RInv, StartFails PROVE RInv'
<1>1. /\ loop.pc \in {"starting", "handshake"} /\ ws' = 0 /\ broken' = FALSE /\ Retry /\ FailPending
      /\ UNCHANGED <<born, served, history>>
  BY DEF StartFails
<1>2. loop'.pc \in {"none", "backoff"}
  BY <1>1, LoopRetries DEF IInv, Types, LoopTypes
<1>3. Spoken'
  BY <1>1, FailedKeeps
<1>4. losses' \in Nat /\ losses' <= MaxLosses /\ born <= losses'
  <2>1. CASE child \notin alive /\ UNCHANGED losses
    BY <1>1, <2>1 DEF RInv, Numbered, Counting, IInv, Placed
  <2>2. CASE loop.pc = "handshake" /\ broken /\ UNCHANGED losses
    BY <1>1, <2>2 DEF RInv, Numbered, Counting, IInv, Placed
  <2>3. CASE Lose
    BY <1>1, <2>3, EnginePlayerAssumption
    DEF RInv, Numbered, Counting, IInv, Placed, Lose, Types, ProcessTypes
  <2> QED
    BY <2>1, <2>2, <2>3 DEF StartFails
<1>5. Numbered' /\ RouteTypes'
  BY <1>1, <1>2, <1>4 DEF RInv, Numbered, Counting, NewDaemons, RouteTypes, served, history
<1> QED
  BY <1>3, <1>5 DEF RInv

LEMMA SocketCloseRoutes == ASSUME IInv, RInv, SocketClose PROVE RInv'
<1>1. /\ ws # 0 /\ ~Connected /\ ws' = 0 /\ broken' = FALSE /\ FailPending
      /\ UNCHANGED <<daemons, served, muddled>>
  BY DEF SocketClose
<1>2. loop'.pc # "starting"
  <2>1. CASE loop.pc = "session" /\ ~disposed
    BY <2>1, LoopRetries DEF SocketClose, SessionLost, IInv, Types, LoopTypes, Restoring
  <2>2. CASE (loop.pc = "session" /\ disposed) \/ Restoring
    BY <2>2, LoopLeaves DEF SocketClose, SessionLost, Restoring
  <2>3. CASE loop.pc = "none" /\ ~disposed
    BY <2>3 DEF SocketClose, Restoring
  <2>4. CASE loop.pc # "session" /\ ~Restoring /\ ~(loop.pc = "none" /\ ~disposed)
    BY <1>1, <2>4 DEF SocketClose, IInv, Placed
  <2> QED
    BY <2>1, <2>2, <2>3, <2>4
<1>3. Spoken'
  BY <1>1, FailedKeeps
<1>4. born <= losses
  BY <1>1 DEF RInv, Numbered, Counting, Connected, IInv, Accounted
<1>5. Numbered' /\ RouteTypes'
  BY <1>1, <1>2, <1>4 DEF RInv, Numbered, Counting, NewDaemons, RouteTypes, daemons, served
<1> QED
  BY <1>3, <1>5 DEF RInv

LEMMA QuitDaemonRoutes == ASSUME IInv, RInv, QuitDaemon PROVE RInv'
<1>1. /\ UNCHANGED <<born, losses, served, loop, disposed, cache, history>> /\ loop.pc = "none"
  BY DEF QuitDaemon
<1>2. CASE running
  <2>1. ws' = 0 /\ broken' = FALSE /\ FailPending
    BY <1>2 DEF QuitDaemon
  <2>2. Spoken'
    BY <2>1, FailedKeeps
  <2>3. Numbered' /\ RouteTypes'
    BY <1>1, <2>1 DEF RInv, Numbered, Counting, NewDaemons, RouteTypes, served, history
  <2> QED
    BY <2>2, <2>3 DEF RInv
<1>3. CASE ~running
  <2>1. UNCHANGED <<client, alive, child, dropped, call>>
    BY <1>3 DEF QuitDaemon
  <2> QED
    BY <1>1, <2>1, IdleKeeps DEF client, daemons, routing
<1> QED
  BY <1>2, <1>3

-----------------------------------------------------------------------------
(* The steps that ask for a routing.                                       *)

\* A routing that is asked for is the last word on its way to the daemon, and
\* the only one of its caller.
LEMMA RouteAsked ==
  ASSUME WireTypes, Items, NEW r \in Requests, IsRoute(r), r.value # "default",
         NEW k \in Nat, Carried(replies, replies', k), replies' \in Seq(Replies),
         wire' = Append(wire, r),
         \A i \in DOMAIN wire : IsRoute(wire[i]) => wire[i].who # r.who,
         \A i \in DOMAIN replies : IsRoute(replies[i]) => replies[i].who # r.who,
         \A d \in Calls : Waiting(d) => call'[d].pc = "sent" /\ call'[d].value = call[d].value,
         r.who # Loop => call'[r.who].pc = "sent" /\ call'[r.who].value = r.value
  PROVE  Items' /\ FinalIs(r.value)'
<1>1. PICK n \in Nat : n = Len(wire) + 1
  BY DEF WireTypes
<1>2. /\ DOMAIN wire' = DOMAIN wire \union {n} /\ n \notin DOMAIN wire /\ wire'[n] = r
      /\ \A i \in DOMAIN wire : wire'[i] = wire[i] /\ i <= n /\ i \in Nat
  BY <1>1 DEF WireTypes
<1>3. \A i \in DOMAIN replies' : IsRoute(replies'[i]) =>
         i + k \in DOMAIN replies /\ replies'[i] = replies[i + k] /\ i \in Nat
  BY DEF Carried
<1>4. /\ \A i \in DOMAIN wire : IsRoute(wire[i]) => wire[i].who \in Calls \union {Loop}
      /\ \A i \in DOMAIN replies : IsRoute(replies[i]) => replies[i].who \in Calls \union {Loop}
  BY DEF WireTypes, Requests, Replies, IsRoute
<1>5. /\ \A i \in DOMAIN wire' : IsRoute(wire'[i]) =>
            /\ wire'[i].value # "default"
            /\ wire'[i].who # Loop =>
                  /\ call'[wire'[i].who].pc = "sent"
                  /\ wire'[i].value = call'[wire'[i].who].value
      /\ \A i \in DOMAIN replies' :
            IsRoute(replies'[i]) /\ replies'[i].who # Loop => call'[replies'[i].who].pc = "sent"
  BY <1>2, <1>3, <1>4 DEF Items
<1>6. \A i, j \in DOMAIN wire' :
         IsRoute(wire'[i]) /\ IsRoute(wire'[j]) /\ wire'[i].who = wire'[j].who => i = j
  BY <1>2 DEF Items
<1>7. \A i, j \in DOMAIN replies' :
         IsRoute(replies'[i]) /\ IsRoute(replies'[j]) /\ replies'[i].who = replies'[j].who => i = j
  <2>1. \A i, j \in DOMAIN replies' :
           IsRoute(replies'[i]) /\ IsRoute(replies'[j]) /\ replies'[i].who = replies'[j].who =>
               i + k = j + k
    BY <1>3 DEF Items
  <2> QED
    BY <1>3, <2>1
<1>8. \A i \in DOMAIN wire', j \in DOMAIN replies' :
         ~(IsRoute(wire'[i]) /\ IsRoute(replies'[j]) /\ wire'[i].who = replies'[j].who)
  BY <1>2, <1>3 DEF Items
<1>9. Items'
  BY <1>5, <1>6, <1>7, <1>8 DEF Items, Waiting
<1>10. FinalIs(r.value)'
  <2>1. \A i \in DOMAIN wire' :
          IsRoute(wire'[i]) /\ (\A j \in DOMAIN wire' : IsRoute(wire'[j]) => j <= i) => i = n
    BY <1>2
  <2>2. \E i \in DOMAIN wire' : IsRoute(wire'[i])
    BY <1>2
  <2> QED
    BY <1>2, <2>1, <2>2 DEF FinalIs
<1> QED
  BY <1>9, <1>10

\* The loop's own request is unlike any other.
LEMMA ReapplyAsks ==
  ASSUME IInv, RInv, Reapply, loop.pc \in {"session", "reload"}, ~disposed, ws # 0,
         replies' \in Seq(Replies), Carried(replies, replies', 1),
         UNCHANGED <<daemons, ws, broken, served, routing, history, disposed>>
  PROVE  RInv'
<1>1. CASE cache = "default"
  <2>1. LeaveLoop /\ UNCHANGED wire
    BY <1>1 DEF Reapply
  <2>2. loop'.pc = "none"
    BY <2>1, LoopLeaves
  <2>3. Along(0, 1) /\ DaemonsUntouched
    BY <2>1, CarriedSame
    DEF Along, IInv, Types, WireTypes, DaemonsUntouched, daemons, served, routing, history
  <2> QED
    BY <1>1, <2>2, <2>3, AlongKeeps
<1>2. CASE cache # "default"
  <2>1. At("reapply") /\ wire' = Append(wire, Request("route", Loop, cache, 0))
    BY <1>2 DEF Reapply
  <2>2. loop'.pc = "reapply"
    BY <2>1, LoopMoves DEF LoopPlaces, IInv, Types
  <2>3. PICK r \in Requests :
          /\ r = Request("route", Loop, cache, 0) /\ r.kind = "route" /\ r.who = Loop
          /\ r.value = cache
    <3>1. Request("route", Loop, cache, 0).value = cache
      BY DEF Request
    <3> QED
      BY <3>1, RequestTypes DEF Loop, Kinds, CallTypes, Senders, IInv, Types
  <2>4. /\ \A i \in DOMAIN wire : IsRoute(wire[i]) => wire[i].who # Loop
        /\ \A i \in DOMAIN replies : IsRoute(replies[i]) => replies[i].who # Loop
    BY DEF IInv, Waited, Wanted, IsRoute
  <2>5. WireTypes /\ Items
    BY DEF IInv, Types, RInv, Spoken
  <2>6. wire' = Append(wire, r) /\ call' = call
    BY <2>1, <2>3 DEF routing
  <2>7. Items' /\ FinalIs(r.value)'
    BY <1>2, <2>3, <2>4, <2>5, <2>6, RouteAsked DEF IsRoute, Waiting
  <2>8. FinalIs(cache)'
    BY <2>3, <2>7 DEF FinalIs, routing
  <2>9. NoSent' /\ Agreement'
    BY <2>6, <2>8 DEF RInv, Spoken, NoSent, Agreement, Waiting
  <2>10. Alone'
    BY <2>6 DEF RInv, Spoken, Alone, Lone, Waiting
  <2>11. Numbered' /\ RouteTypes'
    BY <2>2 DEF RInv, Numbered, Counting, NewDaemons, RouteTypes, daemons, served, history
  <2> QED
    BY <2>7, <2>9, <2>10, <2>11 DEF RInv, Spoken
<1> QED
  BY <1>1, <1>2

LEMMA PluginReloadedRoutes == ASSUME IInv, RInv, PluginReloaded PROVE RInv'
<1>1. /\ replies # <<>> /\ Head(replies).kind = "plugin" /\ Head(replies).who = Loop
      /\ replies' = Tail(replies) /\ Reapply
      /\ UNCHANGED <<daemons, ws, broken, served, disposed, routing, history>>
  BY DEF PluginReloaded, Answer, Mine
<1>2. ws # 0 /\ loop.pc = "reload" /\ replies' \in Seq(Replies)
  BY <1>1, HeadAnswer DEF Wanted, IInv, Types
<1>3. Carried(replies, replies', 1)
  BY <1>1, CarriedTail DEF IInv, Types, WireTypes, IsRoute
<1>4. CASE ~disposed
  BY <1>1, <1>2, <1>3, <1>4, ReapplyAsks
<1>5. CASE disposed
  <2>1. /\ Items' /\ NoSent'
    <3>1. CASE cache = "default"
      <4>1. UNCHANGED wire
        BY <1>1, <3>1 DEF Reapply
      <4>2. Along(0, 1)
        BY <1>1, <1>2, <1>3, <4>1, CarriedSame
        DEF Along, IInv, Types, WireTypes, served, routing, history
      <4>3. Items'
        BY <4>2, ItemsAlong DEF IInv, Types, RInv, Spoken
      <4> QED
        BY <1>1, <4>3 DEF RInv, Spoken, NoSent, Waiting, routing
    <3>2. CASE cache # "default"
      <4>1. wire' = Append(wire, Request("route", Loop, cache, 0))
        BY <1>1, <3>2 DEF Reapply
      <4>2. PICK r \in Requests :
              /\ r = Request("route", Loop, cache, 0) /\ r.kind = "route" /\ r.who = Loop
              /\ r.value = cache
        <5>1. Request("route", Loop, cache, 0).value = cache
          BY DEF Request
        <5> QED
          BY <5>1, RequestTypes DEF Loop, Kinds, CallTypes, Senders, IInv, Types
      <4>3. /\ \A i \in DOMAIN wire : IsRoute(wire[i]) => wire[i].who # Loop
            /\ \A i \in DOMAIN replies : IsRoute(replies[i]) => replies[i].who # Loop
        BY <1>2 DEF IInv, Waited, Wanted, IsRoute
      <4>4. WireTypes /\ Items /\ wire' = Append(wire, r) /\ call' = call
        BY <1>1, <4>1, <4>2 DEF IInv, Types, RInv, Spoken, routing
      <4>5. Items'
        BY <1>2, <1>3, <3>2, <4>2, <4>3, <4>4, RouteAsked DEF IsRoute, Waiting
      <4> QED
        BY <1>1, <4>5 DEF RInv, Spoken, NoSent, Waiting, routing
    <3> QED
      BY <3>1, <3>2
  <2>2. loop'.pc \in {"none", "reapply"}
    BY <1>1, LoopLeaves, LoopMoves DEF Reapply, LoopPlaces, IInv, Types
  <2>3. Numbered' /\ RouteTypes' /\ Agreement' /\ Alone'
    BY <1>1, <1>5, <2>2
    DEF RInv, Numbered, Counting, NewDaemons, RouteTypes, Agreement, Alone, daemons, served, history
  <2> QED
    BY <2>1, <2>3 DEF RInv, Spoken
<1> QED
  BY <1>4, <1>5

LEMMA StatusAnsweredRoutes == ASSUME IInv, RInv, StatusAnswered PROVE RInv'
<1>1. /\ replies # <<>> /\ Head(replies).kind = "status" /\ replies' = Tail(replies)
      /\ UNCHANGED <<daemons, ws, broken, served, disposed, routing, history>>
  BY DEF StatusAnswered, Answer
<1>2. ws # 0 /\ loop.pc = "session" /\ replies' \in Seq(Replies)
  BY <1>1, HeadAnswer DEF Wanted, IInv, Types
<1>3. Carried(replies, replies', 1)
  BY <1>1, CarriedTail DEF IInv, Types, WireTypes, IsRoute
<1>4. CASE disposed
  <2>1. LeaveLoop /\ UNCHANGED wire
    BY <1>4 DEF StatusAnswered
  <2>2. loop'.pc = "none"
    BY <2>1, LoopLeaves
  <2> QED
    BY <1>1, <1>2, <1>4, <2>1, <2>2, AnswerKeeps DEF IsRoute
<1>5. CASE ~disposed /\ ~declared
  BY <1>1, <1>2, <1>3, <1>5, ReapplyAsks DEF StatusAnswered, Restore
<1>6. CASE ~disposed /\ declared
  <2>1. At("reload") /\ wire' = Append(wire, Ask("plugin", Loop))
    BY <1>6 DEF StatusAnswered, Restore
  <2>2. loop'.pc = "reload"
    BY <2>1, LoopMoves DEF LoopPlaces, IInv, Types
  <2>3. PICK r \in Requests : r = Ask("plugin", Loop) /\ r.kind = "plugin"
    BY RequestTypes DEF Ask, Loop, Kinds, Values, Senders, IInv, Types
  <2>4. wire' \in Seq(Requests) /\ Carried(wire, wire', 0)
    BY <2>1, <2>3, CarriedAppend DEF IInv, Types, WireTypes, IsRoute
  <2>5. Along(0, 1) /\ DaemonsUntouched
    BY <1>1, <1>2, <1>3, <2>4
    DEF Along, WireTypes, DaemonsUntouched, daemons, served, routing, history
  <2> QED
    BY <1>2, <2>2, <2>5, AlongKeeps
<1> QED
  BY <1>4, <1>5, <1>6

LEMMA SetBusRoutingRoutes ==
  ASSUME IInv, RInv, NEW c \in Calls, NEW v \in Routings, SetBusRouting(c, v)
  PROVE  RInv'
<1> DEFINE over == Crossing(c) # {} \/ loop.pc # "none"
           mine == [pc |-> IF ws = 0 THEN "done" ELSE "sent", value |-> v,
                    prev |-> cache, over |-> over]
<1>1. /\ call[c].pc = "idle" /\ ~disposed /\ cache' = v
      /\ call' = [d \in Calls |->
                     IF d = c THEN mine ELSE [call[d] EXCEPT !.over = @ \/ d \in Crossing(c)]]
      /\ wire' = IF ws = 0 THEN wire ELSE Append(wire, Request("route", c, v, 0))
      /\ UNCHANGED <<daemons, ws, broken, replies, served, loop, disposed, history>>
  BY DEF SetBusRouting, supervisor
<1>2. c # Loop /\ v # "default" /\ v \in Values
  BY EnginePlayerAssumption DEF Loop, Values
<1>3. /\ \A d \in Calls : d # c =>
            /\ call'[d].pc = call[d].pc /\ call'[d].value = call[d].value
            /\ call'[d].over <=> (call[d].over \/ d \in Crossing(c))
      /\ call'[c].pc = (IF ws = 0 THEN "done" ELSE "sent") /\ call'[c].value = v
      /\ call'[c].prev = cache /\ (call'[c].over <=> over)
  BY <1>1 DEF IInv, Types, CallTypes, CallStates
<1> HIDE DEF mine
<1>4. Numbered' /\ RouteTypes'
  BY <1>1 DEF RInv, Numbered, Counting, NewDaemons, RouteTypes, daemons, served, history
<1>5. CASE ws = 0
  <2>1. wire' = <<>> /\ replies' = <<>> /\ ws' = 0
    BY <1>1, <1>5 DEF IInv, Waited
  <2>2. \A d \in Calls : ~Waiting(d)'
    BY <1>3, <1>5 DEF RInv, Spoken, NoSent, Waiting
  <2> QED
    BY <1>4, <2>1, <2>2 DEF RInv, Spoken, NoSent, Items, Agreement, Alone, Lone
<1>6. CASE ws # 0
  <2>1. PICK r \in Requests :
          r = Request("route", c, v, 0) /\ r.kind = "route" /\ r.who = c /\ r.value = v
    <3>1. Request("route", c, v, 0).value = v
      BY DEF Request
    <3> QED
      BY <1>2, <3>1, RequestTypes DEF Kinds, Senders, IInv, Types
  <2>2. /\ \A i \in DOMAIN wire : IsRoute(wire[i]) => wire[i].who # c
        /\ \A i \in DOMAIN replies : IsRoute(replies[i]) => replies[i].who # c
    BY <1>1, <1>2 DEF RInv, Spoken, Items, Waiting
  <2>3. WireTypes /\ Items /\ wire' = Append(wire, r) /\ replies' \in Seq(Replies)
        /\ Carried(replies, replies', 0)
    BY <1>1, <1>6, <2>1, CarriedSame DEF IInv, Types, WireTypes, RInv, Spoken
  <2>4. \A d \in Calls : Waiting(d) => call'[d].pc = "sent" /\ call'[d].value = call[d].value
    BY <1>1, <1>3 DEF Waiting
  <2>5. Items' /\ FinalIs(r.value)'
    BY <1>2, <1>3, <1>6, <2>1, <2>2, <2>3, <2>4, RouteAsked DEF IsRoute
  <2>6. FinalIs(cache)'
    BY <1>1, <2>1, <2>5 DEF FinalIs
  <2>7. NoSent' /\ Agreement'
    BY <1>1, <1>6, <2>6 DEF NoSent, Agreement
  <2>8. Alone'
    <3> SUFFICES ASSUME NEW d \in Calls, Lone(d)'
                 PROVE  /\ loop'.pc = "none" /\ cache' = call'[d].value
                        /\ \A e \in Calls : Waiting(e)' => e = d
                        /\ (\E i \in DOMAIN wire' : IsRoute(wire'[i])) =>
                              muddled' \/ routed'[ws'] = call'[d].prev
                        /\ \A i \in DOMAIN replies' : ~IsRoute(replies'[i])
      BY DEF Alone
    <3>1. d = c /\ Crossing(c) = {} /\ loop.pc = "none"
      BY <1>3 DEF Lone, Waiting, Crossing
    <3>2. \A e \in Calls : ~Waiting(e)
      BY <1>1, <3>1 DEF Crossing, Waiting
    <3>3. /\ \A i \in DOMAIN wire : IsRoute(wire[i]) => wire[i].who # Loop /\ wire[i].who \in Calls
          /\ \A i \in DOMAIN replies :
                IsRoute(replies[i]) => replies[i].who # Loop /\ replies[i].who \in Calls
      BY <3>1 DEF IInv, Types, WireTypes, Requests, Replies, Waited, Wanted, IsRoute
    <3>4. /\ \A i \in DOMAIN wire : ~IsRoute(wire[i])
          /\ \A i \in DOMAIN replies : ~IsRoute(replies[i])
      BY <3>2, <3>3 DEF RInv, Spoken, Items
    <3>5. muddled \/ routed[ws] = cache
      BY <1>1, <1>6, <3>1, <3>2, <3>4 DEF RInv, Spoken, Agreement, Lone, Refusal, FinalIs
    <3> QED
      BY <1>1, <1>3, <3>1, <3>2, <3>4, <3>5 DEF Waiting, served, history
  <2> QED
    BY <1>4, <2>5, <2>7, <2>8 DEF RInv, Spoken
<1> QED
  BY <1>5, <1>6

-----------------------------------------------------------------------------
(* The steps that answer a routing, and the theorem.                       *)

\* The answer at the head is the only sign of its caller.
LEMMA RouteHeard ==
  ASSUME WireTypes, Items, replies # <<>>, IsRoute(Head(replies)), replies' = Tail(replies),
         UNCHANGED wire,
         \A d \in Calls : d # Head(replies).who /\ Waiting(d) =>
             call'[d].pc = "sent" /\ call'[d].value = call[d].value
  PROVE  /\ WireTypes' /\ Items' /\ Head(replies) = replies[1] /\ 1 \in DOMAIN replies
         /\ Head(replies).who \in Calls \union {Loop}
         /\ \A i \in DOMAIN replies' :
               /\ i \in Nat /\ i + 1 \in DOMAIN replies /\ replies'[i] = replies[i + 1]
               /\ IsRoute(replies'[i]) => replies'[i].who # Head(replies).who
         /\ \A i \in DOMAIN replies : i # 1 => i - 1 \in DOMAIN replies'
                   /\ replies'[i - 1] = replies[i]
         /\ \A i \in DOMAIN wire : IsRoute(wire[i]) => wire[i].who # Head(replies).who
<1>1. /\ Head(replies) = replies[1] /\ 1 \in DOMAIN replies /\ WireTypes'
      /\ \A i \in DOMAIN replies' :
            i \in Nat /\ i + 1 # 1 /\ i + 1 \in DOMAIN replies /\ replies'[i] = replies[i + 1]
      /\ \A i \in DOMAIN replies : i # 1 => i - 1 \in DOMAIN replies'
                /\ replies'[i - 1] = replies[i]
  BY DEF WireTypes
<1>2. /\ \A i \in DOMAIN wire : IsRoute(wire[i]) => wire[i].who \in Calls \union {Loop}
      /\ \A i \in DOMAIN replies : IsRoute(replies[i]) => replies[i].who \in Calls \union {Loop}
  BY DEF WireTypes, Requests, Replies, IsRoute
<1>3. /\ \A i \in DOMAIN wire : IsRoute(wire[i]) => wire[i].who # Head(replies).who
      /\ \A i \in DOMAIN replies' : IsRoute(replies'[i]) => replies'[i].who # Head(replies).who
  BY <1>1 DEF Items
<1>4. /\ \A i \in DOMAIN wire' : IsRoute(wire'[i]) =>
            /\ wire'[i].value # "default"
            /\ wire'[i].who # Loop =>
                  /\ call'[wire'[i].who].pc = "sent"
                  /\ wire'[i].value = call'[wire'[i].who].value
      /\ \A i \in DOMAIN replies' :
            IsRoute(replies'[i]) /\ replies'[i].who # Loop => call'[replies'[i].who].pc = "sent"
  BY <1>1, <1>2, <1>3 DEF Items
<1>5. \A i, j \in DOMAIN replies' :
         IsRoute(replies'[i]) /\ IsRoute(replies'[j]) /\ replies'[i].who = replies'[j].who => i = j
  <2>1. \A i, j \in DOMAIN replies' :
           IsRoute(replies'[i]) /\ IsRoute(replies'[j]) /\ replies'[i].who = replies'[j].who =>
               i + 1 = j + 1
    BY <1>1 DEF Items
  <2> QED
    BY <1>1, <2>1
<1>6. /\ \A i, j \in DOMAIN wire' :
            IsRoute(wire'[i]) /\ IsRoute(wire'[j]) /\ wire'[i].who = wire'[j].who => i = j
      /\ \A i \in DOMAIN wire', j \in DOMAIN replies' :
            ~(IsRoute(wire'[i]) /\ IsRoute(replies'[j]) /\ wire'[i].who = replies'[j].who)
  BY <1>1 DEF Items
<1>7. Items'
  BY <1>4, <1>5, <1>6 DEF Items, Waiting
<1> QED
  BY <1>1, <1>2, <1>3, <1>7

\* A refusal that is not the head's is still on its way.
LEMMA RefusalHeard ==
  ASSUME WireTypes, Items, Refusal, replies # <<>>, IsRoute(Head(replies)),
         replies' = Tail(replies), UNCHANGED wire,
         ~Head(replies).ok => ~Crossed(Head(replies).who),
         \A d \in Calls : d # Head(replies).who => call'[d] = call[d]
  PROVE  Refusal'
<1>1. /\ Head(replies) = replies[1] /\ 1 \in DOMAIN replies
      /\ \A i \in DOMAIN replies : i # 1 => i - 1 \in DOMAIN replies'
                /\ replies'[i - 1] = replies[i]
      /\ \A i \in DOMAIN wire : IsRoute(wire[i]) => wire[i].who # Head(replies).who
  BY RouteHeard DEF Waiting
<1>2. /\ \A i \in DOMAIN wire : IsRoute(wire[i]) => wire[i].who \in Calls \union {Loop}
      /\ \A i \in DOMAIN replies : IsRoute(replies[i]) => replies[i].who \in Calls \union {Loop}
  BY DEF WireTypes, Requests, Replies, IsRoute
<1>3. CASE \E i \in DOMAIN wire :
             IsRoute(wire[i]) /\ wire[i].value \in Refused /\ Crossed(wire[i].who)
  BY <1>1, <1>2, <1>3 DEF Refusal, Crossed
<1>4. ASSUME NEW i \in DOMAIN replies, IsRoute(replies[i]), ~replies[i].ok, Crossed(replies[i].who)
      PROVE  Refusal'
  <2>1. i # 1
    BY <1>1, <1>4
  <2>2. replies[i].who # Head(replies).who
    BY <1>1, <1>4, <2>1 DEF Items
  <2>3. Crossed(replies[i].who) => replies[i].who = Loop \/ call'[replies[i].who].over
    BY <1>2, <1>4, <2>2 DEF Crossed
  <2> QED
    <3>1. PICK j \in DOMAIN replies' : replies'[j] = replies[i]
      BY <1>1, <2>1
    <3>2. /\ IsRoute(replies'[j]) /\ ~replies'[j].ok
          /\ replies'[j].who = Loop \/ call'[replies'[j].who].over
      BY <1>4, <2>3, <3>1
    <3> QED
      BY <3>2 DEF Refusal, Crossed
<1> QED
  BY <1>3, <1>4 DEF Refusal

LEMMA RoutingReappliedRoutes == ASSUME IInv, RInv, RoutingReapplied PROVE RInv'
<1>1. /\ replies # <<>> /\ Head(replies).kind = "route" /\ Head(replies).who = Loop
      /\ replies' = Tail(replies) /\ LeaveLoop /\ muddled' = (muddled \/ ~Ok)
      /\ UNCHANGED <<daemons, ws, broken, wire, served, disposed, routing>>
  BY DEF RoutingReapplied, Answer, Mine
<1>2. loop.pc = "reapply" /\ loop'.pc = "none" /\ Ok \in BOOLEAN
  BY <1>1, HeadAnswer, LoopLeaves DEF Wanted, IInv, Types, Ok, Replies
<1>3. WireTypes /\ Items
  BY DEF IInv, Types, RInv, Spoken
<1>4. Items'
  BY <1>1, <1>3, RouteHeard DEF IsRoute, Waiting, routing
<1>5. muddled' \in BOOLEAN
  BY <1>1
<1>6. Numbered' /\ RouteTypes' /\ NoSent'
  BY <1>1, <1>2, <1>5
  DEF RInv, Numbered, Counting, NewDaemons, RouteTypes, Spoken, NoSent, Waiting, daemons, served,
      routing
<1>7. Agreement'
  <2> SUFFICES ASSUME ~disposed', ws' # 0, \A c \in Calls : ~Lone(c)', ~muddled'
               PROVE  Refusal' \/ FinalIs(cache)'
    BY DEF Agreement
  <2>1. ~muddled /\ Ok
    BY <1>1, <1>2
  <2>2. Refusal \/ FinalIs(cache)
    BY <1>1, <1>2, <2>1 DEF RInv, Spoken, Agreement, Lone, Waiting, routing
  <2>3. Refusal => Refusal'
    BY <1>1, <1>3, <2>1, RefusalHeard DEF IsRoute, Ok, routing
  <2>4. FinalIs(cache) => FinalIs(cache)'
    BY <1>1 DEF FinalIs, served, routing
  <2> QED
    BY <2>2, <2>3, <2>4
<1>8. Alone'
  BY <1>1, <1>2 DEF RInv, Spoken, Alone, Lone, Waiting, routing
<1> QED
  BY <1>4, <1>6, <1>7, <1>8 DEF RInv, Spoken

LEMMA RouteAnsweredRoutes == ASSUME IInv, RInv, RouteAnswered PROVE RInv'
<1>1. PICK c \in Calls : c = Head(replies).who
  BY HeadAnswer DEF RouteAnswered, Answer, Mine, Replies, IInv, Types
<1>2. /\ replies # <<>> /\ Head(replies).kind = "route" /\ c # Loop /\ replies' = Tail(replies)
      /\ call' = [call EXCEPT ![c].pc = "done"] /\ cache' = Revert(c)
      /\ muddled' = IF call[c].over THEN muddled \/ ~Ok ELSE muddled /\ ~Ok
      /\ UNCHANGED <<daemons, ws, broken, wire, served, loop, disposed>>
  BY <1>1 DEF RouteAnswered, Answer, Mine, supervisor
<1>3. /\ \A d \in Calls : d # c => call'[d] = call[d]
      /\ call'[c].pc = "done" /\ call'[c].over = call[c].over
  BY <1>2 DEF IInv, Types, CallTypes, CallStates
<1>4. WireTypes /\ Items
  BY DEF IInv, Types, RInv, Spoken
<1>5. /\ Items' /\ Head(replies) = replies[1] /\ 1 \in DOMAIN replies
      /\ \A i \in DOMAIN replies' :
            IsRoute(replies'[i]) => replies'[i].who # c /\ i + 1 \in DOMAIN replies
                                        /\ replies'[i] = replies[i + 1]
      /\ \A i \in DOMAIN wire : IsRoute(wire[i]) => wire[i].who # c
  BY <1>1, <1>2, <1>3, <1>4, RouteHeard DEF IsRoute, Waiting
<1>6. Waiting(c) /\ Ok \in BOOLEAN
  <2>1. Ok \in BOOLEAN
    BY <1>2, HeadAnswer DEF IInv, Types, Ok, Replies
  <2>2. Waiting(c)
    BY <1>1, <1>2, <1>4, <1>5 DEF Items, IsRoute
  <2> QED
    BY <2>1, <2>2
<1>7. muddled' \in BOOLEAN
  BY <1>2, <1>6 DEF RInv, RouteTypes
<1>8. Numbered' /\ RouteTypes' /\ NoSent'
  <2>1. \A d \in Calls : Waiting(d)' => Waiting(d)
    BY <1>3, <1>6 DEF Waiting
  <2> QED
    BY <1>2, <1>7, <2>1
    DEF RInv, Numbered, Counting, NewDaemons, RouteTypes, Spoken, NoSent, daemons, served
<1>9. \A d \in Calls : Lone(d)' => Lone(d) /\ d # c
  BY <1>3 DEF Lone, Waiting
<1>10. Alone'
  BY <1>2, <1>6, <1>9 DEF RInv, Spoken, Alone
<1>11. Agreement'
  <2> SUFFICES ASSUME ~disposed, ws # 0, \A d \in Calls : ~Lone(d)', ~muddled'
               PROVE  \/ Refusal' \/ FinalIs(cache)'
                      \/ loop'.pc \in {"handshake", "session", "reload"} /\ FinalIs("default")'
    BY <1>2 DEF Agreement
  <2>1. CASE call[c].over
    <3>1. \A d \in Calls : ~Lone(d)
      BY <1>3, <2>1 DEF Lone, Waiting
    <3>2. ~muddled /\ Ok /\ cache' = cache
      BY <1>2, <1>6, <2>1 DEF Revert
    <3>3. \/ Refusal \/ FinalIs(cache)
          \/ loop.pc \in {"handshake", "session", "reload"} /\ FinalIs("default")
      BY <3>1, <3>2 DEF RInv, Spoken, Agreement
    <3>4. Refusal => Refusal'
      BY <1>1, <1>2, <1>3, <1>4, <3>2, RefusalHeard DEF IsRoute, Ok
    <3>5. (FinalIs(cache) => FinalIs(cache)') /\ (FinalIs("default") => FinalIs("default")')
      BY <1>2, <3>2 DEF FinalIs, served
    <3> QED
      BY <1>2, <3>3, <3>4, <3>5
  <2>2. CASE ~call[c].over
    <3>1. /\ loop.pc = "none" /\ \A d \in Calls : Waiting(d) => d = c
          /\ Ok => routed[ws] = cache
          /\ ~Ok => muddled \/ routed[ws] = call[c].prev
      BY <1>2, <1>5, <1>6, <2>2 DEF RInv, Spoken, Alone, Lone, IsRoute, Ok
    <3>2. \A i \in DOMAIN wire : ~IsRoute(wire[i])
      BY <1>4, <1>5, <3>1
      DEF Items, IInv, Types, WireTypes, Requests, Waited, Wanted, IsRoute
    <3>3. routed[ws] = cache'
      BY <1>2, <1>6, <2>2, <3>1 DEF Revert
    <3>4. FinalIs(cache)'
      BY <1>2, <3>2, <3>3 DEF FinalIs, served
    <3> QED
      BY <3>4
  <2> QED
    BY <1>6, <2>1, <2>2
<1> QED
  BY <1>5, <1>8, <1>10, <1>11 DEF RInv, Spoken

\* A routing that is served is the daemon's from then on, unless it is refused.
LEMMA ServeRoutes == ASSUME IInv, RInv, Serve PROVE RInv'
<1>1. PICK r \in Requests, ok \in BOOLEAN :
        /\ r = Head(wire) /\ wire # <<>> /\ wire' = Tail(wire)
        /\ r.kind = "route" => (ok <=> r.value \notin Refused)
        /\ replies' = Append(replies, [kind |-> r.kind, who |-> r.who, ok |-> ok])
        /\ routed' = IF r.kind = "route" /\ ok THEN [routed EXCEPT ![ws] = r.value] ELSE routed
  <2>1. Head(wire) \in Requests /\ wire # <<>> /\ wire' = Tail(wire)
    BY DEF Serve, IInv, Types, WireTypes
  <2>2. PICK ok \in BOOLEAN :
          /\ Head(wire).kind = "route" => (ok <=> Head(wire).value \notin Refused)
          /\ replies' = Append(replies, [kind |-> Head(wire).kind, who |-> Head(wire).who,
                                        ok |-> ok])
          /\ routed' = IF Head(wire).kind = "route" /\ ok
                       THEN [routed EXCEPT ![ws] = Head(wire).value] ELSE routed
    BY DEF Serve
  <2> QED
    BY <2>1, <2>2
<1>2. /\ ws # 0 /\ UNCHANGED <<daemons, ws, broken, loop, disposed, routing, history>>
  BY DEF Serve, Connected, supervisor, IInv, Types, ProcessTypes
<1>3. PICK made \in Replies :
        /\ made.kind = r.kind /\ made.who = r.who /\ made.ok = ok
        /\ replies' = Append(replies, made)
  <2>1. [kind |-> r.kind, who |-> r.who, ok |-> ok] \in Replies
    BY DEF Requests, Replies
  <2> QED
    BY <1>1, <2>1
<1>4. PICK n \in Nat : n = Len(replies) + 1
  BY DEF IInv, Types, WireTypes
<1>5. /\ DOMAIN replies' = DOMAIN replies \union {n} /\ n \notin DOMAIN replies
      /\ replies'[n] = made /\ \A i \in DOMAIN replies : replies'[i] = replies[i]
  BY <1>3, <1>4 DEF IInv, Types, WireTypes
<1>6. /\ 1 \in DOMAIN wire /\ r = wire[1]
      /\ \A i \in DOMAIN wire' :
            i + 1 \in DOMAIN wire /\ i \in Nat /\ i + 1 # 1 /\ wire'[i] = wire[i + 1]
      /\ \A i \in DOMAIN wire : i # 1 => i - 1 \in DOMAIN wire' /\ wire'[i - 1] = wire[i]
                                    /\ i - 1 \in Nat /\ i \in Nat /\ i > 1
  BY <1>1 DEF IInv, Types, WireTypes
<1>7. WireTypes'
  BY ServeKeeps DEF IInv, Types
<1>8. CASE r.kind # "route"
  <2>1. Carried(wire, wire', 1) /\ Carried(replies, replies', 0)
    BY <1>1, <1>3, <1>8, CarriedTail, CarriedAppend DEF IInv, Types, WireTypes, IsRoute
  <2>2. Along(1, 0) /\ DaemonsUntouched
    BY <1>1, <1>2, <1>7, <1>8, <2>1 DEF Along, DaemonsUntouched, daemons, routing, history
  <2> QED
    BY <1>2, <2>2, AlongKeeps
<1>9. CASE r.kind = "route"
  <2>1. ws \in Daemons
    BY <1>2, EnginePlayerAssumption
    DEF RInv, Numbered, Counting, IInv, Types, ProcessTypes, Accounted, Daemons
  <2>2. routed' \in [Daemons -> Values] /\ \A d \in Daemons : d # ws => routed'[d] = routed[d]
    BY <1>1, <2>1 DEF RInv, RouteTypes, Requests
  <2>3. routed'[ws] = IF ok THEN r.value ELSE routed[ws]
    BY <1>1, <1>9, <2>1 DEF RInv, RouteTypes
  <2>4. Numbered' /\ RouteTypes'
    <3>1. loop.pc # "starting"
      BY <1>2 DEF IInv, Placed
    <3>2. ws = born /\ born \in Nat
      BY <1>2 DEF RInv, Numbered, Counting, IInv, Accounted, Types, ProcessTypes
    <3>3. \A d \in Daemons : d > born => d # ws
      BY <3>2
    <3>4. NewDaemons'
      BY <1>2, <2>2, <3>1, <3>3 DEF RInv, Numbered, NewDaemons, daemons
    <3>5. Counting' /\ RouteTypes'
      BY <1>2, <2>2 DEF RInv, Numbered, Counting, RouteTypes, daemons, history
    <3> QED
      BY <3>4, <3>5 DEF Numbered
  <2>5. /\ IsRoute(r) /\ IsRoute(made)
        /\ \A i \in DOMAIN wire' : IsRoute(wire'[i]) => wire'[i].who # r.who
        /\ \A i \in DOMAIN replies : IsRoute(replies[i]) => replies[i].who # r.who
        /\ r.value # "default" /\ r.who \in Calls \union {Loop}
        /\ r.who # Loop => Waiting(r.who) /\ r.value = call[r.who].value
    BY <1>3, <1>6, <1>9 DEF RInv, Spoken, Items, IsRoute, Requests
  <2>6. Items'
    <3>1. Items /\ call' = call
      BY <1>2 DEF RInv, Spoken, routing
    <3>2. /\ \A i \in DOMAIN wire' : IsRoute(wire'[i]) =>
                /\ wire'[i].value # "default"
                /\ wire'[i].who # Loop =>
                      /\ call'[wire'[i].who].pc = "sent"
                      /\ wire'[i].value = call'[wire'[i].who].value
          /\ \A i \in DOMAIN replies' :
                IsRoute(replies'[i]) /\ replies'[i].who # Loop =>
                    call'[replies'[i].who].pc = "sent"
      BY <1>3, <1>5, <1>6, <2>5, <3>1 DEF Items, Waiting
    <3>3. \A i, j \in DOMAIN wire' :
             IsRoute(wire'[i]) /\ IsRoute(wire'[j]) /\ wire'[i].who = wire'[j].who => i = j
      <4>1. \A i, j \in DOMAIN wire' :
               IsRoute(wire'[i]) /\ IsRoute(wire'[j]) /\ wire'[i].who = wire'[j].who =>
                   i + 1 = j + 1
        BY <1>6, <3>1 DEF Items
      <4> QED
        BY <1>6, <4>1
    <3>4. \A i, j \in DOMAIN replies' :
             IsRoute(replies'[i]) /\ IsRoute(replies'[j]) /\ replies'[i].who = replies'[j].who =>
                 i = j
      BY <1>3, <1>5, <2>5, <3>1 DEF Items
    <3>5. \A i \in DOMAIN wire', j \in DOMAIN replies' :
             ~(IsRoute(wire'[i]) /\ IsRoute(replies'[j]) /\ wire'[i].who = replies'[j].who)
      BY <1>3, <1>5, <1>6, <2>5, <3>1 DEF Items
    <3> QED
      BY <3>2, <3>3, <3>4, <3>5 DEF Items, Waiting
  <2>7. NoSent'
    BY <1>2 DEF RInv, Spoken, NoSent
  <2>8. ASSUME NEW v, FinalIs(v), v # "default" \/ v = "default"
        PROVE  FinalIs(v)' \/ (~ok /\ v = r.value)
    <3>1. ASSUME NEW i \in DOMAIN wire', IsRoute(wire'[i]),
                 \A j \in DOMAIN wire' : IsRoute(wire'[j]) => j <= i
          PROVE  wire'[i].value = v
      <4>1. \A j \in DOMAIN wire : IsRoute(wire[j]) => j <= i + 1
        BY <1>6, <3>1
      <4> QED
        BY <1>6, <2>8, <3>1, <4>1 DEF FinalIs
    <3>2. ASSUME \A i \in DOMAIN wire' : ~IsRoute(wire'[i])
          PROVE  routed'[ws'] = v \/ (~ok /\ v = r.value)
      <4>1. \A j \in DOMAIN wire : IsRoute(wire[j]) => j <= 1
        BY <1>6, <3>2
      <4>2. r.value = v
        BY <1>6, <2>5, <2>8, <4>1 DEF FinalIs
      <4> QED
        BY <1>2, <2>3, <4>2
    <3> QED
      BY <3>1, <3>2 DEF FinalIs
  <2>9. Agreement'
    <3> SUFFICES ASSUME ~disposed, ws # 0, \A c \in Calls : ~Lone(c), ~muddled
                 PROVE  \/ Refusal' \/ FinalIs(cache)'
                        \/ loop'.pc \in {"handshake", "session", "reload"} /\ FinalIs("default")'
      BY <1>2 DEF Agreement, Lone, Waiting, routing, history
    <3>1. Crossed(r.who)
      BY <2>5 DEF Crossed, Lone
    <3>2. ~ok => Refusal'
      BY <1>2, <1>3, <1>5, <2>5, <3>1 DEF Refusal, Crossed, routing
    <3>3. ASSUME ok, Refusal PROVE Refusal'
      <4>1. CASE \E i \in DOMAIN wire :
                   IsRoute(wire[i]) /\ wire[i].value \in Refused /\ Crossed(wire[i].who)
        <5>1. PICK i \in DOMAIN wire :
                IsRoute(wire[i]) /\ wire[i].value \in Refused /\ Crossed(wire[i].who)
          BY <4>1
        <5>2. i # 1
          BY <1>1, <1>6, <1>9, <3>3, <5>1
        <5> QED
          BY <1>2, <1>6, <5>1, <5>2 DEF Refusal, Crossed, routing
      <4>2. CASE \E i \in DOMAIN replies :
                   IsRoute(replies[i]) /\ ~replies[i].ok /\ Crossed(replies[i].who)
        BY <1>2, <1>5, <4>2 DEF Refusal, Crossed, routing
      <4> QED
        BY <3>3, <4>1, <4>2 DEF Refusal
    <3>4. ok /\ FinalIs(cache) => FinalIs(cache)'
      <4>1. PICK v : v = cache
        OBVIOUS
      <4>2. ok /\ FinalIs(v) => FinalIs(v)'
        BY <2>8
      <4> QED
        BY <1>2, <4>1, <4>2 DEF FinalIs, routing
    <3>5. ok /\ FinalIs("default") => FinalIs("default")'
      BY <2>8
    <3>6. \/ Refusal \/ FinalIs(cache)
          \/ loop.pc \in {"handshake", "session", "reload"} /\ FinalIs("default")
      BY DEF RInv, Spoken, Agreement
    <3> QED
      BY <1>2, <3>2, <3>3, <3>4, <3>5, <3>6
  <2>10. Alone'
    <3> SUFFICES ASSUME ~disposed, NEW c \in Calls, Lone(c)
                 PROVE  /\ loop.pc = "none" /\ cache = call[c].value
                        /\ \A d \in Calls : Waiting(d) => d = c
                        /\ \A i \in DOMAIN wire' : ~IsRoute(wire'[i])
                        /\ \A i \in DOMAIN replies' : IsRoute(replies'[i]) =>
                              /\ replies'[i].ok => routed'[ws] = cache
                              /\ ~replies'[i].ok => muddled \/ routed'[ws] = call[c].prev
      BY <1>2 DEF Alone, Lone, Waiting, routing, history
    <3>1. /\ loop.pc = "none" /\ cache = call[c].value
          /\ \A d \in Calls : Waiting(d) => d = c
          /\ muddled \/ routed[ws] = call[c].prev
      BY <1>6, <2>5 DEF RInv, Spoken, Alone
    <3>2. /\ \A i \in DOMAIN wire : IsRoute(wire[i]) => wire[i].who = c
          /\ \A i \in DOMAIN replies : IsRoute(replies[i]) => replies[i].who = c
      BY <3>1
      DEF RInv, Spoken, Items, IInv, Types, WireTypes, Requests, Replies, Waited, Wanted, IsRoute
    <3>3. r.who = c /\ r.value = cache
      <4>1. r.who = c
        BY <1>6, <2>5, <3>2
      <4> QED
        BY <2>5, <3>1, <4>1, EnginePlayerAssumption DEF Loop
    <3>4. \A i \in DOMAIN wire' : ~IsRoute(wire'[i])
      BY <1>6, <2>5, <3>2, <3>3
    <3>5. \A i \in DOMAIN replies' : IsRoute(replies'[i]) => i = n
      BY <1>5, <2>5, <3>2, <3>3
    <3>6. made.ok => routed'[ws] = cache
      BY <1>3, <2>3, <3>3
    <3>7. ~made.ok => muddled \/ routed'[ws] = call[c].prev
      BY <1>3, <2>3, <3>1
    <3> QED
      BY <1>5, <3>1, <3>4, <3>5, <3>6, <3>7
  <2> QED
    BY <2>4, <2>6, <2>7, <2>9, <2>10 DEF RInv, Spoken
<1> QED
  BY <1>8, <1>9

LEMMA RoutesStep == IInv /\ RInv /\ [Next]_vars => RInv'
<1> SUFFICES ASSUME IInv, RInv, [Next]_vars PROVE RInv'
  OBVIOUS
<1>1. CASE DaemonDies \/ SocketBreaks \/ Serve
  BY <1>1, DaemonDiesRoutes, SocketBreaksRoutes, ServeRoutes
<1>2. CASE BackoffElapsed \/ Connect \/ Handshake \/ StartFails \/ SocketClose
  BY <1>2, BackoffElapsedRoutes, ConnectRoutes, HandshakeRoutes, StartFailsRoutes, SocketCloseRoutes
<1>3. CASE Answers
  BY <1>3, StatusAnsweredRoutes, PluginReloadedRoutes, RoutingReappliedRoutes,
     PluginAnsweredRoutes, RouteAnsweredRoutes, SampleLoadedRoutes, PlayAnsweredRoutes DEF Answers
<1>4. CASE Preload \/ LoadPlugin \/ QuitDaemon
  BY <1>4, PreloadRoutes, LoadPluginRoutes, QuitDaemonRoutes
<1>5. CASE \E e \in Events : Poll(e)
  BY <1>5, PollRoutes
<1>6. CASE \E c \in Calls, r \in Routings : SetBusRouting(c, r)
  BY <1>6, SetBusRoutingRoutes
<1>7. CASE StreamStats \/ Start \/ ClearSequence \/ StopAll \/ Quit
             \/ (\E e \in Events : Schedule(e)) \/ UNCHANGED vars
  BY <1>7, IdleRoutes
<1> QED
  BY <1>1, <1>2, <1>3, <1>4, <1>5, <1>6, <1>7 DEF Next

\* Between calls, and once no respawn is under way, the daemon the engine is
\* connected to routes the bus as the engine's cache says, which the next
\* respawn restores: unless a refused call crossed another or the restoration.
THEOREM RoutingsSurvive == Spec => []RoutingAgrees
<1>1. Spec => []RInv
  BY InitRoutes, RoutesStep, Invariant, PTL DEF Spec
<1> QED
  BY <1>1, RoutesAgree, Invariant, PTL

=============================================================================
