--------------------------- MODULE UiEvents_proofs ---------------------------
(***************************************************************************)
(* Proofs about UiEvents, for any number of sessions, commands and deaths  *)
(* and any ring of at least two slots.                                     *)
(***************************************************************************)
EXTENDS UiEvents, TLAPS

At(q) == slot[evt_slot_index(q)]
Window == evtAck + 1 .. evtSeq

\* A close publishes two events, and a window opens on an empty ring.
Room ==
    /\ outbox = <<>>
    /\ evtSeq <= evtAck + 2
    /\ ui = "open" => evtSeq = evtAck
    /\ ui = "closing" => evtSeq <= evtAck + 1

\* Every close had a command that opened its window.
Ordered == cmd.kind = "open" /\ cmd.answer = "none"
Counted ==
    /\ cycle <= posts
    /\ ui = "open" => cycle + 1 <= posts
    /\ Ordered => cycle + 1 <= posts
    /\ ui = "open" /\ Ordered => cycle + 2 <= posts
    /\ ui = "closing" => cycle > 0

\* What waits in the ring: events of past closes, and one UI_CLOSED at most, in front.
Published ==
    /\ \A q \in Window : At(q) \in Events /\ At(q).cycle <= cycle
    /\ \A q \in Window : q > evtAck + 1 => At(q).kind \in Completions

\* The close in progress waits for its own UI_CLOSED, the newest event.
Awaiting ==
    ui = "closing" /\ Alive =>
        closedSeq = evtSeq /\ evtSeq > 0 /\ At(evtSeq) = [kind |-> "closed", cycle |-> cycle]

\* A notice of this generation is about the event it names.
About(n) ==
    /\ n.gen <= generation
    /\ n.gen = generation /\ life # "gone" =>
          /\ n.seq <= evtSeq
          /\ n.seq > evtAck => At(n.seq) = [kind |-> "closed", cycle |-> n.cycle]
Noticed == \A n \in notices : About(n)

\* A respawn begins with an empty ring.
Fresh == life \in {"reset", "respawning"} => evtSeq = 0

\* Nobody but the engine lets a close complete as saved.
Saved ==
    /\ life = "alive" =>
          \A q \in Window : At(q).kind = "done-saved" => At(q).cycle \in saved
    /\ life = "alive" /\ ui = "closing" /\ evtAck >= closedSeq => cycle \in saved

\* A close the engine was told of is not waiting to be told of.
Asked ==
    /\ AskedOnce
    /\ \A i \in DOMAIN told : told[i] <= cycle
    /\ \A q \in Window : At(q).kind = "closed" /\ (\E i \in DOMAIN told : told[i] = At(q).cycle)
          => pendingSafepoint = q

Facts == Room /\ Published /\ Awaiting /\ Noticed /\ Fresh /\ Saved /\ Asked

IInv == TypeOK /\ Counted /\ Facts

-----------------------------------------------------------------------------
(* The ring.                                                               *)

LEMMA Division ==
  ASSUME NEW q \in Nat
  PROVE  q \div EvtSlots \in Int /\ q = EvtSlots * (q \div EvtSlots) + (q % EvtSlots)
  BY EvtSlotsAssumption

\* The two events of a close have different slots.
LEMMA SlotIndex ==
  ASSUME NEW q \in Nat
  PROVE  /\ evt_slot_index(q) \in 0 .. EvtSlots - 1
         /\ evt_slot_index(q + 1) # evt_slot_index(q)
<1> DEFINE d == q \div EvtSlots
           e == (q + 1) \div EvtSlots
           r == q % EvtSlots
<1>1. r \in 0 .. EvtSlots - 1
  BY EvtSlotsAssumption
<1>2. d \in Int /\ e \in Int /\ q = EvtSlots * d + r /\ q + 1 = EvtSlots * e + ((q + 1) % EvtSlots)
  BY Division
<1> HIDE DEF d, e
<1>3. SUFFICES ASSUME (q + 1) % EvtSlots = r PROVE FALSE
  BY <1>1 DEF evt_slot_index
<1> HIDE DEF r
<1>4. EvtSlots * d < EvtSlots * e /\ EvtSlots * e < EvtSlots * d + EvtSlots
  BY <1>1, <1>2, <1>3, EvtSlotsAssumption
<1>5. d < e /\ e < d + 1
  <2>1. CASE e <= d
    BY <2>1, <1>2, <1>4, EvtSlotsAssumption
  <2>2. CASE e >= d + 1
    BY <2>2, <1>2, <1>4, EvtSlotsAssumption
  <2> QED
    BY <1>2, <2>1, <2>2
<1> QED
  BY <1>2, <1>5

\* Publishing one event when one slot at least is free.
LEMMA Publishes ==
  ASSUME RingType, outbox = <<>>, evtSeq <= evtAck + 1, NEW e \in Events, Publish(<<e>>)
  PROVE  /\ evtSeq' = evtSeq + 1 /\ evtAck' = evtAck /\ outbox' = <<>>
         /\ slot' = [slot EXCEPT ![evt_slot_index(evtSeq + 1)] = e]
<1> DEFINE all == outbox \o <<e>>
           n == IF Len(all) <= Free THEN Len(all) ELSE Free
<1>1. all = <<e>> /\ Len(all) = 1
  OBVIOUS
<1>2. Free >= 1
  BY EvtSlotsAssumption DEF Free, RingType
<1>3. n = 1
  BY <1>1, <1>2
<1>4. 1 .. n = {1}
  BY <1>3
<1>5. SubSeq(all, n + 1, Len(all)) = <<>>
  BY <1>1, <1>3
<1>6. /\ evtSeq' = evtSeq + n /\ evtAck' = evtAck /\ outbox' = SubSeq(all, n + 1, Len(all))
      /\ slot' = [i \in DOMAIN slot |->
                    IF \E k \in 1 .. n : evt_slot_index(evtSeq + k) = i
                      THEN all[CHOOSE k \in 1 .. n : evt_slot_index(evtSeq + k) = i]
                      ELSE slot[i]]
  BY DEF Publish
<1> HIDE DEF all, n
<1>7. slot' = [i \in DOMAIN slot |-> IF evt_slot_index(evtSeq + 1) = i THEN e ELSE slot[i]]
  <2>1. ASSUME NEW i, evt_slot_index(evtSeq + 1) = i
        PROVE  (CHOOSE k \in 1 .. n : evt_slot_index(evtSeq + k) = i) = 1
    BY <1>4, <2>1
  <2> QED
    BY <1>1, <1>4, <1>6, <2>1
<1> QED
  BY <1>3, <1>5, <1>6, <1>7 DEF RingType

LEMMA PublishesNothing ==
  ASSUME RingType, outbox = <<>>, evtSeq <= evtAck + 2, Publish(<<>>)
  PROVE  UNCHANGED <<evtSeq, evtAck, outbox, slot>>
<1> DEFINE all == outbox \o <<>>
           n == IF Len(all) <= Free THEN Len(all) ELSE Free
<1>1. all = <<>> /\ Len(all) = 0
  OBVIOUS
<1>2. n = 0
  BY <1>1, EvtSlotsAssumption DEF Free, RingType
<1>3. SubSeq(all, n + 1, Len(all)) = <<>>
  BY <1>1, <1>2
<1>4. /\ evtSeq' = evtSeq + n /\ evtAck' = evtAck /\ outbox' = SubSeq(all, n + 1, Len(all))
      /\ slot' = [i \in DOMAIN slot |->
                    IF \E k \in 1 .. n : evt_slot_index(evtSeq + k) = i
                      THEN all[CHOOSE k \in 1 .. n : evt_slot_index(evtSeq + k) = i]
                      ELSE slot[i]]
  BY DEF Publish
<1> QED
  BY <1>2, <1>3, <1>4 DEF RingType

\* An event published joins the window's end and disturbs no other.
LEMMA Sends ==
  ASSUME RingType, Room, ui \in {"open", "closing"}, NEW e \in Events, Publish(<<e>>)
  PROVE  /\ evtSeq' = evtSeq + 1 /\ UNCHANGED evtAck /\ outbox' = <<>> /\ RingType'
         /\ Window' = Window \cup {evtSeq + 1} /\ slot'[evt_slot_index(evtSeq + 1)] = e
         /\ \A q \in Window : q = evtSeq /\ At(q)' = At(q)
<1>1. /\ evtSeq' = evtSeq + 1 /\ evtAck' = evtAck /\ outbox' = <<>>
      /\ slot' = [slot EXCEPT ![evt_slot_index(evtSeq + 1)] = e]
  BY Publishes DEF Room, RingType
<1>2. evtSeq \in Nat /\ evtAck \in Nat /\ evtAck <= evtSeq /\ evtSeq <= evtAck + 1
  BY DEF Room, RingType
<1>3. /\ evt_slot_index(evtSeq) \in 0 .. EvtSlots - 1
      /\ evt_slot_index(evtSeq + 1) \in 0 .. EvtSlots - 1
      /\ evt_slot_index(evtSeq + 1) # evt_slot_index(evtSeq)
  BY <1>2, SlotIndex
<1>4. slot \in [0 .. EvtSlots - 1 -> Events \cup {NoEvent}]
  BY DEF RingType
<1>5. RingType'
  BY <1>1, <1>2, <1>3, <1>4 DEF RingType
<1>6. Window' = Window \cup {evtSeq + 1}
  BY <1>1, <1>2 DEF Window
<1>7. /\ slot'[evt_slot_index(evtSeq + 1)] = e
      /\ slot'[evt_slot_index(evtSeq)] = slot[evt_slot_index(evtSeq)]
  BY <1>1, <1>3, <1>4
<1>8. \A q \in Window : q = evtSeq
  BY <1>2 DEF Window
<1> QED
  BY <1>1, <1>5, <1>6, <1>7, <1>8 DEF At

-----------------------------------------------------------------------------
(* Types, action by action: what the parts need to know of a step.          *)

\* What the facts are about.
core == <<ring, ui, closedSeq, outbox, cycle, generation, pendingSafepoint, notices, told, saved>>

\* A step that leaves all this alone keeps the facts, if the child's life goes on or down.
LEMMA Quiet ==
  ASSUME Facts, UNCHANGED core,
         \/ life' = life
         \/ life = "alive" /\ life' = "dead"
         \/ life = "reset" /\ life' = "respawning"
         \/ life = "quitting" /\ life' = "gone"
  PROVE  Facts'
<1> USE DEF Facts, core, ring
<1>1. Room' /\ Published'
  BY DEF Room, Published, Window, At
<1>2. Awaiting' /\ Noticed'
  BY DEF Awaiting, Noticed, About, At, Alive
<1>3. Fresh'
  BY DEF Fresh
<1>4. Saved'
  BY DEF Saved, Window, At
<1>5. Asked'
  BY DEF Asked, AskedOnce, Window, At
<1> QED
  BY <1>1, <1>2, <1>3, <1>4, <1>5

\* The child: its machine's types and the ring's.
LEMMA OpenCommandKeeps == ASSUME IInv, OpenCommand PROVE IInv'
<1> USE DEF ring, process, owner, pump, engine, machine
<1>1. /\ Alive /\ cmd.kind = "open" /\ cmd.answer = "none"
      /\ UNCHANGED <<ring, life, ready, ownerTold, openFailed, deaths, closedSeq, overdue, outbox,
                     cycle, pump, routed, session, posts, engine>>
      /\ \/ ui = "closed" /\ evtAck = evtSeq /\ ui' = "open" /\ cmd' = [cmd EXCEPT !.answer = "ok"]
         \/ ui' = ui /\ cmd' = [cmd EXCEPT !.answer = "failed"]
  BY DEF OpenCommand, Received, Answer, MayOpen, Drained
<1>6. unreserved' \in BOOLEAN
  BY DEF OpenCommand, IInv, TypeOK, ProcessType
<1>2. DaemonType' /\ cmd'.kind = "open" /\ cmd'.answer # "none"
  BY <1>1 DEF IInv, TypeOK, DaemonType, Commands
<1>3. TypeOK'
  <2>1. RingType' /\ PumpType' /\ EngineType'
    BY <1>1 DEF IInv, TypeOK, RingType, PumpType, EngineType
  <2>2. ProcessType'
    BY <1>1, <1>6 DEF IInv, TypeOK, ProcessType
  <2>3. MachineType'
    BY <1>1 DEF IInv, TypeOK, MachineType, Alive
  <2> QED
    BY <1>2, <2>1, <2>2, <2>3 DEF TypeOK
<1>4. Counted'
  BY <1>1, <1>2 DEF IInv, Counted, Ordered, TypeOK, MachineType, DaemonType
<1>5. Facts'
  <2>1. CASE ui' = ui
    BY <1>1, <2>1, Quiet DEF IInv, core
  <2>2. CASE ui = "closed" /\ evtAck = evtSeq /\ ui' = "open"
    <3> USE <1>1, <2>2 DEF IInv, Facts
    <3>1. Room' /\ Published'
      BY DEF Room, Published, Window, At, TypeOK, RingType
    <3>2. Awaiting' /\ Noticed'
      BY DEF Awaiting, Noticed, About, At
    <3>3. Fresh'
      BY DEF Fresh
    <3>4. Saved'
      BY DEF Saved, Window, At
    <3>5. Asked'
      BY DEF Asked, AskedOnce, Window, At
    <3> QED
      BY <3>1, <3>2, <3>3, <3>4, <3>5
  <2> QED
    BY <1>1, <2>1, <2>2
<1> QED
  BY <1>3, <1>4, <1>5 DEF IInv

\* ... and the whole invariant, if it keeps the other types and posts what it orders.
LEMMA Quietly ==
  ASSUME IInv, UNCHANGED core, UNCHANGED abandonedSafepoint,
         \/ life' = life
         \/ life = "alive" /\ life' = "dead"
         \/ life = "reset" /\ life' = "respawning"
         \/ life = "quitting" /\ life' = "gone",
         ProcessType', DaemonType', overdue' \in BOOLEAN,
         lifecycle' \in {"closed", "opening", "open", "closing"},
         \/ posts' = posts /\ (Ordered' => Ordered)
         \/ posts' = posts + 1
  PROVE  IInv'
<1> USE DEF core, ring
<1>1. Facts'
  BY Quiet DEF IInv
<1>2. RingType' /\ PumpType' /\ EngineType'
  BY DEF IInv, TypeOK, RingType, PumpType, EngineType
<1>3. MachineType'
  BY DEF IInv, TypeOK, MachineType, DaemonType, Alive
<1>4. Counted'
  <2>1. UNCHANGED <<cycle, ui>> /\ cycle \in Nat /\ posts \in Nat /\ posts' \in Nat
    BY DEF IInv, TypeOK, MachineType, DaemonType
  <2> QED
    BY <2>1 DEF IInv, Counted, Ordered
<1> QED
  BY <1>1, <1>2, <1>3, <1>4 DEF IInv, TypeOK

LEMMA CheckReadyKeeps == ASSUME IInv, NEW s \in Sessions, CheckReady(s) PROVE IInv'
<1> USE DEF ring, process, owner, machine, pump, daemon, engine
<1>1. /\ UNCHANGED <<core, abandonedSafepoint, life>>
      /\ lifecycle' \in {"closed", "opening", "open", "closing"}
  BY DEF CheckReady, core, IInv, TypeOK, PumpType
<1>2. ProcessType' /\ overdue' \in BOOLEAN
  BY DEF CheckReady, IInv, TypeOK, ProcessType, MachineType
<1>3. DaemonType' /\ ((posts' = posts /\ (Ordered' => Ordered)) \/ posts' = posts + 1)
  BY DEF CheckReady, IInv, TypeOK, DaemonType, Places, Goto, Ordered
<1> QED
  BY <1>1, <1>2, <1>3, Quietly DEF core

LEMMA BeginOpenKeeps == ASSUME IInv, NEW s \in Sessions, BeginOpen(s) PROVE IInv'
<1> USE DEF ring, process, owner, machine, pump, daemon, engine
<1>1. /\ UNCHANGED <<core, abandonedSafepoint, life>>
      /\ lifecycle' \in {"closed", "opening", "open", "closing"}
  BY DEF BeginOpen, core, IInv, TypeOK, PumpType
<1>2. ProcessType' /\ overdue' \in BOOLEAN
  BY DEF BeginOpen, IInv, TypeOK, ProcessType, MachineType
<1>3. DaemonType' /\ ((posts' = posts /\ (Ordered' => Ordered)) \/ posts' = posts + 1)
  BY DEF BeginOpen, IInv, TypeOK, DaemonType, Places, Goto, Ordered
<1> QED
  BY <1>1, <1>2, <1>3, Quietly DEF core

LEMMA SetRouteKeeps == ASSUME IInv, NEW s \in Sessions, SetRoute(s) PROVE IInv'
<1> USE DEF ring, process, owner, machine, pump, daemon, engine
<1>1. /\ UNCHANGED <<core, abandonedSafepoint, life>>
      /\ lifecycle' \in {"closed", "opening", "open", "closing"}
  BY DEF SetRoute, core, IInv, TypeOK, PumpType
<1>2. ProcessType' /\ overdue' \in BOOLEAN
  BY DEF SetRoute, IInv, TypeOK, ProcessType, MachineType
<1>3. DaemonType' /\ ((posts' = posts /\ (Ordered' => Ordered)) \/ posts' = posts + 1)
  BY DEF SetRoute, IInv, TypeOK, DaemonType, Places, Goto, Ordered
<1> QED
  BY <1>1, <1>2, <1>3, Quietly DEF core

LEMMA CloseRequestKeeps == ASSUME IInv, NEW s \in Sessions, CloseRequest(s) PROVE IInv'
<1> USE DEF ring, process, owner, machine, pump, daemon, engine
<1>1. /\ UNCHANGED <<core, abandonedSafepoint, life>>
      /\ lifecycle' \in {"closed", "opening", "open", "closing"}
  BY DEF CloseRequest, core, IInv, TypeOK, PumpType
<1>2. ProcessType' /\ overdue' \in BOOLEAN
  BY DEF CloseRequest, IInv, TypeOK, ProcessType, MachineType
<1>3. DaemonType' /\ ((posts' = posts /\ (Ordered' => Ordered)) \/ posts' = posts + 1)
  BY DEF CloseRequest, IInv, TypeOK, DaemonType, Places, Goto, Ordered
<1> QED
  BY <1>1, <1>2, <1>3, Quietly DEF core

LEMMA FinishOpenKeeps == ASSUME IInv, NEW s \in Sessions, FinishOpen(s) PROVE IInv'
<1> USE DEF ring, process, owner, machine, pump, daemon, engine
<1>1. /\ UNCHANGED <<core, abandonedSafepoint, life>>
      /\ lifecycle' \in {"closed", "opening", "open", "closing"}
  BY DEF FinishOpen, core, IInv, TypeOK, PumpType
<1>2. ProcessType' /\ overdue' \in BOOLEAN
  BY DEF FinishOpen, IInv, TypeOK, ProcessType, MachineType
<1>3. DaemonType' /\ ((posts' = posts /\ (Ordered' => Ordered)) \/ posts' = posts + 1)
  BY DEF FinishOpen, IInv, TypeOK, DaemonType, Places, Goto, Ordered
<1> QED
  BY <1>1, <1>2, <1>3, Quietly DEF core

LEMMA ClearRouteKeeps == ASSUME IInv, NEW s \in Sessions, ClearRoute(s) PROVE IInv'
<1> USE DEF ring, process, owner, machine, pump, daemon, engine
<1>1. /\ UNCHANGED <<core, abandonedSafepoint, life>>
      /\ lifecycle' \in {"closed", "opening", "open", "closing"}
  BY DEF ClearRoute, core, IInv, TypeOK, PumpType
<1>2. ProcessType' /\ overdue' \in BOOLEAN
  BY DEF ClearRoute, IInv, TypeOK, ProcessType, MachineType
<1>3. DaemonType' /\ ((posts' = posts /\ (Ordered' => Ordered)) \/ posts' = posts + 1)
  <2>1. routed' \in BOOLEAN
    BY DEF ClearRoute
  <2>2. session' \in [Sessions -> Places]
    BY DEF ClearRoute, Goto, Places, IInv, TypeOK, DaemonType
  <2>3. UNCHANGED <<cmd, posts>>
    BY DEF ClearRoute
  <2> QED
    BY <2>1, <2>2, <2>3 DEF IInv, TypeOK, DaemonType, Ordered
<1> QED
  BY <1>1, <1>2, <1>3, Quietly DEF core

LEMMA AwaitKeeps == ASSUME IInv, NEW s \in Sessions, Await(s) PROVE IInv'
<1> USE DEF ring, process, owner, machine, pump, daemon, engine
<1>1. /\ UNCHANGED <<core, abandonedSafepoint, life>>
      /\ lifecycle' \in {"closed", "opening", "open", "closing"}
  BY DEF Await, core, IInv, TypeOK, PumpType
<1>2. ProcessType' /\ overdue' \in BOOLEAN
  BY DEF Await, IInv, TypeOK, ProcessType, MachineType
<1>3. DaemonType' /\ ((posts' = posts /\ (Ordered' => Ordered)) \/ posts' = posts + 1)
  <2>1. session' \in [Sessions -> Places]
    BY DEF Await, Goto, Places, IInv, TypeOK, DaemonType
  <2>2. UNCHANGED <<routed, posts>>
    BY DEF Await
  <2>3. cmd' \in {cmd, NoCmd, [cmd EXCEPT !.abandoned = TRUE, !.by = "nobody"]}
    BY DEF Await
  <2>4. cmd \in Commands
    BY DEF IInv, TypeOK, DaemonType
  <2>5. [cmd EXCEPT !.abandoned = TRUE, !.by = "nobody"] \in Commands
    BY <2>4 DEF Commands
  <2>6. NoCmd \in Commands /\ NoCmd.kind = "none"
    BY DEF NoCmd, Commands
  <2>7. cmd' \in Commands
    BY <2>3, <2>4, <2>5, <2>6
  <2>8. Ordered' => Ordered
    <3>1. CASE cmd' = NoCmd
      BY <2>6, <3>1 DEF Ordered
    <3>2. CASE cmd' = [cmd EXCEPT !.abandoned = TRUE, !.by = "nobody"]
      BY <2>4, <3>2 DEF Ordered, Commands
    <3> QED
      BY <2>3, <3>1, <3>2 DEF Ordered
  <2> QED
    BY <2>1, <2>2, <2>7, <2>8 DEF IInv, TypeOK, DaemonType, Ordered
<1> QED
  BY <1>1, <1>2, <1>3, Quietly DEF core

LEMMA PostKeeps == ASSUME IInv, NEW s \in Sessions, Post(s) PROVE IInv'
<1> USE DEF ring, process, owner, machine, pump, daemon, engine
<1>1. /\ UNCHANGED <<core, abandonedSafepoint, life>>
      /\ lifecycle' \in {"closed", "opening", "open", "closing"}
  BY DEF Post, core, IInv, TypeOK, PumpType
<1>2. ProcessType' /\ overdue' \in BOOLEAN
  BY DEF Post, IInv, TypeOK, ProcessType, MachineType
<1>3. DaemonType' /\ ((posts' = posts /\ (Ordered' => Ordered)) \/ posts' = posts + 1)
  <2>1. session' \in [Sessions -> Places]
    BY DEF Post, Goto, Places, IInv, TypeOK, DaemonType
  <2>2. /\ UNCHANGED routed
        /\ \/ UNCHANGED <<cmd, posts>>
           \/ /\ posts < MaxCmds /\ posts' = posts + 1
              /\ \E kind \in {"open", "close"} : cmd' = [NoCmd EXCEPT !.kind = kind, !.by = s]
    BY DEF Post
  <2>3. CASE UNCHANGED <<cmd, posts>>
    BY <2>1, <2>2, <2>3 DEF IInv, TypeOK, DaemonType, Ordered
  <2>4. ASSUME posts < MaxCmds, posts' = posts + 1, NEW kind \in {"open", "close"},
               cmd' = [NoCmd EXCEPT !.kind = kind, !.by = s]
        PROVE  DaemonType' /\ ((posts' = posts /\ (Ordered' => Ordered)) \/ posts' = posts + 1)
    <3>1. cmd' \in Commands
      BY <2>4 DEF NoCmd, Commands
    <3>2. posts' \in 0 .. MaxCmds /\ posts \in Nat 
      BY <2>4, UiBoundsAssumption DEF IInv, TypeOK, DaemonType, Ordered
    <3> QED
      BY <2>1, <2>2, <2>4, <3>1, <3>2 DEF IInv, TypeOK, DaemonType
  <2> QED
    BY <2>2, <2>3, <2>4
<1> QED
  BY <1>1, <1>2, <1>3, Quietly DEF core

LEMMA CloseTimeoutKeeps == ASSUME IInv, CloseTimeout PROVE IInv'
<1> USE DEF ring, process, owner, machine, pump, daemon, engine
<1>1. /\ UNCHANGED <<core, abandonedSafepoint, life>>
      /\ lifecycle' \in {"closed", "opening", "open", "closing"}
  BY DEF CloseTimeout, core, IInv, TypeOK, PumpType
<1>2. ProcessType' /\ overdue' \in BOOLEAN
  BY DEF CloseTimeout, IInv, TypeOK, ProcessType, MachineType
<1>3. DaemonType' /\ ((posts' = posts /\ (Ordered' => Ordered)) \/ posts' = posts + 1)
  BY DEF CloseTimeout, IInv, TypeOK, DaemonType, Places, Goto, Ordered
<1> QED
  BY <1>1, <1>2, <1>3, Quietly DEF core

LEMMA BecomeReadyKeeps == ASSUME IInv, BecomeReady PROVE IInv'
<1> USE DEF ring, process, owner, machine, pump, daemon, engine
<1>1. /\ UNCHANGED <<core, abandonedSafepoint, life>>
      /\ lifecycle' \in {"closed", "opening", "open", "closing"}
  BY DEF BecomeReady, core, IInv, TypeOK, PumpType
<1>2. ProcessType' /\ overdue' \in BOOLEAN
  BY DEF BecomeReady, IInv, TypeOK, ProcessType, MachineType
<1>3. DaemonType' /\ ((posts' = posts /\ (Ordered' => Ordered)) \/ posts' = posts + 1)
  BY DEF BecomeReady, IInv, TypeOK, DaemonType, Places, Goto, Ordered
<1> QED
  BY <1>1, <1>2, <1>3, Quietly DEF core

LEMMA DieKeeps == ASSUME IInv, Die PROVE IInv'
<1> USE DEF ring, process, owner, machine, pump, daemon, engine
<1>1. /\ UNCHANGED <<core, abandonedSafepoint>>
      /\ lifecycle' \in {"closed", "opening", "open", "closing"}
  BY DEF Die, core, IInv, TypeOK, PumpType
<1>4. life = "alive" /\ life' = "dead"
  BY DEF Die
<1>2. ProcessType' /\ overdue' \in BOOLEAN
  <2>1. deaths' \in 0 .. MaxDeaths
    BY UiBoundsAssumption DEF Die, IInv, TypeOK, ProcessType
  <2>2. life' = "dead" /\ UNCHANGED <<ready, ownerTold, openFailed, unreserved, overdue>>
    BY DEF Die
  <2> QED
    BY <2>1, <2>2 DEF IInv, TypeOK, ProcessType, MachineType
<1>3. DaemonType' /\ ((posts' = posts /\ (Ordered' => Ordered)) \/ posts' = posts + 1)
  BY DEF Die, IInv, TypeOK, DaemonType, Places, Goto, Ordered
<1> QED
  BY <1>1, <1>2, <1>3, <1>4, Quietly DEF core

LEMMA NotifyRespawnKeeps == ASSUME IInv, NotifyRespawn PROVE IInv'
<1> USE DEF ring, process, owner, machine, pump, daemon, engine
<1>1. /\ UNCHANGED <<core, abandonedSafepoint>>
      /\ lifecycle' \in {"closed", "opening", "open", "closing"}
  BY DEF NotifyRespawn, core, IInv, TypeOK, PumpType
<1>4. life = "reset" /\ life' = "respawning"
  BY DEF NotifyRespawn
<1>2. ProcessType' /\ overdue' \in BOOLEAN
  <2>1. ownerTold' \in BOOLEAN
    BY DEF NotifyRespawn, IInv, TypeOK, DaemonType
  <2>2. life' = "respawning" /\ UNCHANGED <<ready, openFailed, unreserved, deaths, overdue>>
    BY DEF NotifyRespawn
  <2> QED
    BY <2>1, <2>2 DEF IInv, TypeOK, ProcessType, MachineType
<1>3. DaemonType' /\ ((posts' = posts /\ (Ordered' => Ordered)) \/ posts' = posts + 1)
  <2>1. routed' \in BOOLEAN
    BY DEF NotifyRespawn
  <2>2. UNCHANGED <<cmd, session, posts>>
    BY DEF NotifyRespawn
  <2> QED
    BY <2>1, <2>2 DEF IInv, TypeOK, DaemonType, Ordered
<1> QED
  BY <1>1, <1>2, <1>3, <1>4, Quietly DEF core

LEMMA ReapedKeeps == ASSUME IInv, Reaped PROVE IInv'
<1> USE DEF ring, process, owner, machine, pump, daemon, engine
<1>1. /\ UNCHANGED <<core, abandonedSafepoint>>
      /\ lifecycle' \in {"closed", "opening", "open", "closing"}
  BY DEF Reaped, core, IInv, TypeOK, PumpType
<1>4. life = "quitting" /\ life' = "gone"
  BY DEF Reaped
<1>2. ProcessType' /\ overdue' \in BOOLEAN
  BY DEF Reaped, IInv, TypeOK, ProcessType, MachineType
<1>3. DaemonType' /\ ((posts' = posts /\ (Ordered' => Ordered)) \/ posts' = posts + 1)
  BY DEF Reaped, IInv, TypeOK, DaemonType, Places, Goto, Ordered
<1> QED
  BY <1>1, <1>2, <1>3, <1>4, Quietly DEF core

\* A close begins: on an empty ring, for an engine that never heard of it.
LEMMA BeginCloseKeeps ==
  ASSUME IInv, Alive, BeginClose, UNCHANGED <<process, pump, engine, posts>>
  PROVE  RingType' /\ ProcessType' /\ MachineType' /\ PumpType' /\ EngineType' /\ Facts'
         /\ \/ ui' = ui /\ cycle' = cycle
            \/ ui = "open" /\ ui' = "closing" /\ cycle' = cycle + 1
<1> USE DEF ring, process, owner, machine, pump, engine
<1>1. CASE ui # "open"
  <2>1. UNCHANGED <<ring, machine>>
    BY <1>1 DEF BeginClose
  <2>2. Facts'
    BY <2>1, Quiet DEF IInv, core
  <2>3. RingType' /\ PumpType' /\ EngineType'
    BY <2>1 DEF IInv, TypeOK, RingType, PumpType, EngineType
  <2>4. ProcessType'
    BY DEF IInv, TypeOK, ProcessType
  <2>5. MachineType'
    BY <2>1 DEF IInv, TypeOK, MachineType, Alive
  <2> QED
    BY <2>1, <2>2, <2>3, <2>4, <2>5
<1>2. CASE ui = "open"
  <2>1. cycle \in Nat /\ posts \in 0 .. MaxCmds /\ MaxCmds \in Nat /\ cycle + 1 <= posts
    BY <1>2, UiBoundsAssumption DEF IInv, TypeOK, MachineType, DaemonType, Counted
  <2> DEFINE event == [kind |-> "closed", cycle |-> cycle + 1]
  <2>12. event \in Events
    BY <2>1 DEF Events
  <2> HIDE DEF event
  <2>2. PICK e \in Events : e = event
    BY <2>12
  <2>3. /\ ui' = "closing" /\ overdue' = FALSE /\ cycle' = cycle + 1 /\ Publish(<<e>>)
        /\ closedSeq' = IF outbox' = <<>> THEN evtSeq' ELSE 0
    BY <1>2, <2>2 DEF BeginClose, event
  <2>4. /\ evtSeq' = evtSeq + 1 /\ UNCHANGED evtAck /\ outbox' = <<>> /\ RingType'
        /\ Window' = {evtSeq + 1} /\ slot'[evt_slot_index(evtSeq + 1)] = e
    <3>1. evtSeq = evtAck /\ evtAck \in Nat
      BY <1>2 DEF IInv, Facts, Room, TypeOK, RingType
    <3>2. Window = {}
      BY <3>1 DEF Window
    <3> QED
      BY <1>2, <2>3, <3>2, Sends DEF IInv, TypeOK, Facts
  <2>5. closedSeq' = evtSeq' /\ evtSeq \in Nat /\ evtAck = evtSeq
    BY <1>2, <2>3, <2>4 DEF IInv, Facts, Room, TypeOK, RingType
  <2>6. MachineType' /\ ProcessType' /\ PumpType' /\ EngineType'
    <3>1. MachineType'
      <4>1. overdue' \in BOOLEAN
        BY <2>3
      <4>2. outbox' \in Seq(Events)
        BY <2>4
      <4>3. closedSeq' \in Nat /\ closedSeq' <= evtSeq' /\ cycle' \in 0 .. posts'
        BY <2>1, <2>3, <2>4, <2>5
      <4> QED
        BY <2>3, <4>1, <4>2, <4>3 DEF MachineType
    <3>2. ProcessType'
      BY DEF IInv, TypeOK, ProcessType
    <3>3. PumpType' /\ EngineType'
      BY <2>4, <2>5 DEF IInv, TypeOK, PumpType, EngineType
    <3> QED
      BY <3>1, <3>2, <3>3
  <2>7. e.kind = "closed" /\ e.cycle = cycle + 1 /\ e = [kind |-> "closed", cycle |-> cycle + 1]
    BY <2>2 DEF event
  <2>8. Room' /\ Published'
    BY <2>1, <2>7, <2>3, <2>4, <2>5 DEF Room, Published, At
  <2>9. Awaiting' /\ Fresh'
    <3>1. slot'[evt_slot_index(evtSeq')] = e
      BY <2>4
    <3> QED
      BY <2>7, <2>3, <2>5, <3>1, <2>4 DEF Awaiting, Fresh, Alive, At
  <2>10. Noticed'
    <3>1. \A n \in notices :
             /\ n.gen <= generation /\ n.seq \in Nat
             /\ n.gen = generation /\ life # "gone" => n.seq <= evtSeq
      BY DEF IInv, Facts, Noticed, About, TypeOK, EngineType, Notices
    <3> QED
      BY <2>4, <2>5, <3>1 DEF Noticed, About
  <2>11. Saved'
    BY <2>3, <2>4, <2>5, <2>7 DEF Saved, At
  <2>13. Asked'
    <3>1. AskedOnce'
      BY DEF IInv, Facts, Asked, AskedOnce
    <3>2. told \in Seq(1 .. MaxCmds)
      BY DEF IInv, TypeOK, EngineType
    <3>3. \A i \in DOMAIN told : told[i] \in Nat
      BY <3>2, UiBoundsAssumption
    <3>4. \A i \in DOMAIN told : told[i] <= cycle
      BY DEF IInv, Facts, Asked
    <3>5. \A q \in Window' : At(q)'.cycle = cycle + 1
      BY <2>4, <2>7 DEF At
    <3> QED
      BY <2>1, <2>3, <3>1, <3>3, <3>4, <3>5 DEF Asked
  <2> QED
    BY <1>2, <2>3, <2>4, <2>6, <2>8, <2>9, <2>10, <2>11, <2>13 DEF Facts
<1> QED
  BY <1>1, <1>2

LEMMA CloseCommandKeeps == ASSUME IInv, CloseCommand PROVE IInv'
<1>1. /\ Alive /\ cmd.kind = "close" /\ BeginClose /\ UNCHANGED <<process, pump, engine, posts>>
      /\ cmd' = [cmd EXCEPT !.answer = "ok"] /\ UNCHANGED <<routed, session>>
  BY DEF CloseCommand, Received, Answer
<1>2. /\ RingType' /\ ProcessType' /\ MachineType' /\ PumpType' /\ EngineType' /\ Facts'
      /\ \/ ui' = ui /\ cycle' = cycle
         \/ ui = "open" /\ ui' = "closing" /\ cycle' = cycle + 1
  BY <1>1, BeginCloseKeeps
<1>3. DaemonType' /\ cmd'.kind = "close"
  BY <1>1 DEF IInv, TypeOK, DaemonType, Commands
<1>4. Counted'
  <2>1. cycle \in Nat /\ posts \in Nat
    BY DEF IInv, TypeOK, MachineType, DaemonType
  <2>2. ~Ordered'
    BY <1>3 DEF Ordered
  <2> QED
    BY <1>1, <1>2, <2>1, <2>2 DEF IInv, Counted
<1> QED
  BY <1>2, <1>3, <1>4 DEF IInv, TypeOK

LEMMA WindowClosedKeeps == ASSUME IInv, WindowClosed PROVE IInv'
<1>1. Alive /\ BeginClose /\ UNCHANGED <<process, pump, engine, posts, cmd, routed, session>>
  BY DEF WindowClosed, daemon
<1>2. /\ RingType' /\ ProcessType' /\ MachineType' /\ PumpType' /\ EngineType' /\ Facts'
      /\ \/ ui' = ui /\ cycle' = cycle
         \/ ui = "open" /\ ui' = "closing" /\ cycle' = cycle + 1
  BY <1>1, BeginCloseKeeps
<1>3. DaemonType'
  BY <1>1 DEF IInv, TypeOK, DaemonType
<1>4. Counted'
  <2>1. cycle \in Nat /\ posts \in Nat
    BY DEF IInv, TypeOK, MachineType, DaemonType
  <2>2. Ordered' <=> Ordered
    BY <1>1 DEF Ordered
  <2> QED
    BY <1>1, <1>2, <2>1, <2>2 DEF IInv, Counted
<1> QED
  BY <1>2, <1>3, <1>4 DEF IInv, TypeOK

\* A close ends: its completion follows what is left of it in the ring.
LEMMA FinishCloseKeeps ==
  ASSUME IInv, Alive, ui = "closing", NEW c \in Completions, FinishClose(c),
         UNCHANGED <<process, pump, daemon, engine>>,
         c = "done-saved" /\ life = "alive" => cycle \in saved
  PROVE  IInv'
<1> USE DEF ring, process, owner, machine, pump, daemon, engine
<1>1. cycle \in 1 .. MaxCmds /\ cycle <= posts /\ posts \in Nat /\ MaxCmds \in Nat
  BY UiBoundsAssumption DEF IInv, TypeOK, MachineType, DaemonType, Counted
<1> DEFINE event == [kind |-> c, cycle |-> cycle]
<1>2. event \in Events
  BY <1>1 DEF Events
<1> HIDE DEF event
<1>3. PICK e \in Events : e = event
  BY <1>2
<1>4. /\ ui' = "closed" /\ closedSeq' = 0 /\ overdue' = FALSE /\ UNCHANGED cycle
      /\ Publish(<<e>>)
  BY <1>3 DEF FinishClose, event
<1>5. /\ evtSeq' = evtSeq + 1 /\ UNCHANGED evtAck /\ outbox' = <<>> /\ RingType'
      /\ Window' = Window \cup {evtSeq + 1} /\ slot'[evt_slot_index(evtSeq + 1)] = e
      /\ \A q \in Window : q = evtSeq /\ At(q)' = At(q)
  BY <1>4, Sends DEF IInv, TypeOK, Facts
<1>6. e.kind = c /\ e.cycle = cycle
  BY <1>3 DEF event
<1>7. /\ evtSeq \in Nat /\ evtAck \in Nat /\ evtSeq <= evtAck + 1 /\ evtAck <= evtSeq
      /\ \A q \in Window : q = evtAck + 1
  BY DEF IInv, Facts, Room, TypeOK, RingType, Window
<1>8. TypeOK'
  <2>1. overdue' \in BOOLEAN
    BY <1>4
  <2>2. outbox' \in Seq(Events)
    BY <1>5
  <2>3. MachineType'
    BY <1>1, <1>4, <1>5, <1>7, <2>1, <2>2 DEF MachineType
  <2>4. ProcessType'
    BY DEF IInv, TypeOK, ProcessType
  <2>5. PumpType' /\ DaemonType' /\ EngineType'
    BY <1>5, <1>7 DEF IInv, TypeOK, PumpType, DaemonType, EngineType
  <2> QED
    BY <1>5, <2>3, <2>4, <2>5 DEF TypeOK
<1>9. Counted'
  BY <1>1, <1>4 DEF IInv, Counted, Ordered
<1>10. Room' /\ Published'
  <2>1. \A q \in Window : At(q) \in Events /\ At(q).cycle <= cycle
    BY DEF IInv, Facts, Published
  <2>2. \A q \in Window' : At(q)' \in Events /\ At(q)'.cycle <= cycle
    BY <1>1, <1>5, <1>6, <2>1 DEF At
  <2>3. \A q \in Window' : q > evtAck + 1 => At(q)'.kind \in Completions
    BY <1>5, <1>6, <1>7 DEF At
  <2> QED
    BY <1>4, <1>5, <1>7, <2>2, <2>3 DEF Room, Published
<1>11. Awaiting' /\ Fresh'
  BY <1>4 DEF Awaiting, Fresh, Alive
<1>12. Noticed'
  <2> SUFFICES ASSUME NEW n \in notices
               PROVE  /\ n.gen <= generation
                      /\ n.gen = generation /\ life # "gone" =>
                            /\ n.seq <= evtSeq'
                            /\ n.seq > evtAck =>
                                  slot'[evt_slot_index(n.seq)]
                                            = [kind |-> "closed", cycle |-> n.cycle]
    BY <1>5 DEF Noticed, About, At
  <2>1. n.seq \in Nat /\ n.gen <= generation
    BY DEF IInv, Facts, Noticed, About, TypeOK, EngineType, Notices
  <2>2. CASE n.gen = generation /\ life # "gone"
    <3>1. /\ n.seq <= evtSeq
          /\ n.seq > evtAck => At(n.seq) = [kind |-> "closed", cycle |-> n.cycle]
      BY <2>2 DEF IInv, Facts, Noticed, About
    <3>2. n.seq > evtAck => n.seq \in Window
      BY <1>7, <2>1, <3>1 DEF Window
    <3> QED
      BY <1>5, <1>7, <2>1, <3>1, <3>2 DEF At
  <2> QED
    BY <2>1, <2>2
<1>13. Saved'
  <2>1. life = "alive" => \A q \in Window : At(q).kind = "done-saved" => At(q).cycle \in saved
    BY DEF IInv, Facts, Saved
  <2> QED
    BY <1>4, <1>5, <1>6, <2>1 DEF Saved, At
<1>14. Asked'
  <2>1. /\ AskedOnce
        /\ \A i \in DOMAIN told : told[i] <= cycle
        /\ \A q \in Window : At(q).kind = "closed" /\ (\E i \in DOMAIN told : told[i] = At(q).cycle)
              => pendingSafepoint = q
    BY DEF IInv, Facts, Asked
  <2>2. \A q \in Window' : At(q)'.kind = "closed" => q \in Window /\ At(q)' = At(q)
    BY <1>5, <1>6 DEF At, Completions
  <2> QED
    BY <1>4, <2>1, <2>2 DEF Asked, AskedOnce
<1> QED
  BY <1>8, <1>9, <1>10, <1>11, <1>12, <1>13, <1>14 DEF IInv, Facts

LEMMA TickKeeps == ASSUME IInv, Tick PROVE IInv'
<1>1. Alive /\ UNCHANGED <<process, pump, daemon, engine>>
  BY DEF Tick
<1>2. CASE ui = "closing" /\ SafepointCompleted /\ FinishClose("done-saved")
  <2>1. life = "alive" => cycle \in saved
    BY <1>2 DEF SafepointCompleted, IInv, Facts, Saved
  <2> QED
    BY <1>1, <1>2, <2>1, FinishCloseKeeps DEF Completions
<1>3. CASE ui = "closing" /\ FinishClose("done-timeout")
  BY <1>1, <1>3, FinishCloseKeeps DEF Completions
<1>4. CASE RetryPublication
  <2>1. UNCHANGED <<evtSeq, evtAck, outbox, slot>>
    BY <1>4, PublishesNothing DEF RetryPublication, IInv, Facts, Room, TypeOK
  <2>2. UNCHANGED <<closedSeq, ui, overdue, cycle>>
    BY <1>4, <2>1 DEF RetryPublication, IInv, Facts, Room
  <2>3. ProcessType' /\ DaemonType' /\ overdue' \in BOOLEAN
    BY <1>1, <2>2 DEF IInv, TypeOK, ProcessType, DaemonType, MachineType, process, daemon
  <2> QED
    BY <1>1, <2>1, <2>2, <2>3, Quietly
    DEF core, process, pump, daemon, engine, ring, Ordered, IInv, TypeOK, PumpType
<1> QED
  BY <1>2, <1>3, <1>4 DEF Tick

-----------------------------------------------------------------------------
(* The host's end.                                                         *)

\* The head is completed; what follows it is what it was.
LEMMA Completes ==
  ASSUME RingType, Room, evtAck < evtSeq, evtAck' = evtAck + 1, UNCHANGED <<evtSeq, slot>>
  PROVE  /\ RingType' /\ evtSeq' <= evtAck' + 1
         /\ Window' = Window \ {evtAck + 1} /\ evtAck + 1 \in Window
         /\ \A q : At(q)' = At(q)
BY DEF RingType, Room, Window, At

LEMMA NoticedOn ==
  ASSUME Noticed, EngineType, RingType, RingType', evtAck' >= evtAck,
         UNCHANGED <<evtSeq, slot, generation>>, life' # "gone" => life # "gone"
  PROVE  \A n \in notices : About(n)'
<1>1. \A n \in notices : n.seq \in Nat
  BY DEF EngineType, Notices
<1>2. evtAck \in Nat /\ evtAck' \in Nat
  BY DEF RingType
<1> SUFFICES ASSUME NEW n \in notices PROVE About(n)'
  OBVIOUS
<1>3. About(n) /\ n.seq \in Nat
  BY <1>1 DEF Noticed
<1>4. (n.seq > evtAck' => n.seq > evtAck) /\ At(n.seq)' = At(n.seq)
  BY <1>2, <1>3 DEF At
<1> QED
  BY <1>3, <1>4 DEF About

\* Between closes, completing the head leaves completions at most.
LEMMA HeadGone ==
  ASSUME IInv, ui = "closed", evtAck < evtSeq, evtAck' = evtAck + 1,
         UNCHANGED <<evtSeq, slot, life, ui, closedSeq, outbox, cycle, generation>>,
         UNCHANGED <<notices, told, saved>>
  PROVE  RingType' /\ Facts'
<1>1. /\ RingType' /\ evtSeq' <= evtAck' + 1 /\ Window' = Window \ {evtAck + 1}
      /\ \A q : At(q)' = At(q)
  BY Completes DEF IInv, TypeOK, Facts
<1>2. evtAck \in Nat /\ evtSeq \in Nat
  BY DEF IInv, TypeOK, RingType
<1>3. Room'
  BY <1>1, <1>2 DEF IInv, Facts, Room
<1>4. Published'
  <2>1. \A q \in Window' : q <= evtAck' + 1 /\ q \in Int
    BY <1>1, <1>2 DEF Window
  <2>2. \A q \in Window' : At(q) \in Events /\ At(q).cycle <= cycle
    BY <1>1 DEF IInv, Facts, Published
  <2> QED
    BY <1>1, <1>2, <2>1, <2>2 DEF Published
<1>5. Noticed'
  BY <1>1, <1>2, NoticedOn DEF IInv, Facts, TypeOK, Noticed
<1>6. Awaiting' /\ Fresh' /\ Saved'
  BY <1>1 DEF IInv, Facts, Awaiting, Fresh, Saved
<1>7. Asked'
  <2>1. \A q \in Window' : At(q).kind # "closed"
    BY <1>1, <1>2 DEF IInv, Facts, Published, Completions, Window
  <2> QED
    BY <1>1, <2>1 DEF IInv, Facts, Asked, AskedOnce
<1> QED
  BY <1>1, <1>3, <1>4, <1>5, <1>6, <1>7 DEF Facts

LEMMA PollClosedKeeps == ASSUME IInv, PollClosed PROVE IInv'
<1> USE DEF process, owner, machine, daemon
<1>1. /\ life = "alive" /\ evtAck < evtSeq /\ head.kind = "closed" /\ lifecycle' = "closing"
      /\ UNCHANGED <<evtSeq, slot, process, machine, generation, daemon, saved>>
  BY DEF PollClosed
<1>2. /\ evtSeq \in Nat /\ evtAck \in Nat /\ evtAck + 1 \in Window /\ head = At(evtAck + 1)
      /\ At(evtAck + 1) \in Events /\ At(evtAck + 1).cycle <= cycle
  BY <1>1 DEF IInv, TypeOK, RingType, Facts, Published, Window, At, head
<1>3. ProcessType' /\ DaemonType'
  BY <1>1 DEF IInv, TypeOK, ProcessType, DaemonType
<1>4. Counted' /\ Awaiting' /\ Fresh'
  BY <1>1 DEF IInv, Facts, Counted, Ordered, Awaiting, Fresh, At, Alive
<1>5. CASE /\ AbandonPublished
           /\ pendingSafepoint' = 0 /\ abandonedSafepoint' = evtAck + 1
           /\ evtAck' = evtAck + 1
           /\ UNCHANGED <<notices, told>>
  <2>1. ui = "closed"
    BY <1>1, <1>2, <1>5 DEF AbandonPublished, IInv, Facts, Room, TypeOK, MachineType
  <2>2. RingType' /\ Facts'
    BY <1>1, <1>5, <2>1, HeadGone DEF IInv
  <2>3. MachineType' /\ EngineType'
    BY <1>1, <1>5 DEF IInv, TypeOK, MachineType, EngineType, Alive
  <2>4. PumpType'
    BY <1>1, <1>2, <1>5 DEF IInv, TypeOK, PumpType
  <2> QED
    BY <1>3, <1>4, <2>2, <2>3, <2>4 DEF IInv, TypeOK
<1>6. CASE /\ ~AlreadyNotified
           /\ UNCHANGED <<evtAck, abandonedSafepoint>>
           /\ \/ NotifySafepoint /\ pendingSafepoint' = evtAck + 1
              \/ UNCHANGED <<notices, told, pendingSafepoint>>
  <2>1. Room' /\ Published' /\ RingType' /\ Window' = Window /\ \A q : At(q)' = At(q)
    BY <1>1, <1>6 DEF IInv, Facts, TypeOK, Room, Published, RingType, Window, At
  <2>2. Saved'
    BY <1>1, <1>6, <2>1 DEF IInv, Facts, Saved
  <2>3. MachineType'
    BY <1>1, <1>6 DEF IInv, TypeOK, MachineType, Alive
  <2>4. PumpType'
    BY <1>1, <1>2, <1>6 DEF IInv, TypeOK, PumpType, RingType
  <2>5. CASE UNCHANGED <<notices, told>> /\ pendingSafepoint' \in {pendingSafepoint, evtAck + 1}
    <3>1. EngineType' /\ Noticed'
      <4>1. \A m \in notices : About(m)'
        BY <1>1, <1>2, <1>6, <2>1, NoticedOn DEF IInv, Facts, TypeOK, RingType
      <4> QED
        BY <1>1, <2>5, <4>1 DEF IInv, TypeOK, EngineType, Noticed
    <3>2. Asked'
      <4>1. \A q \in Window : At(q).kind = "closed" => q = evtAck + 1
        BY <1>2 DEF IInv, Facts, Published, Completions, Window
      <4> QED
        BY <1>1, <2>1, <2>5, <4>1 DEF IInv, Facts, Asked, AskedOnce
    <3> QED
      BY <1>3, <1>4, <2>1, <2>2, <2>3, <2>4, <3>1, <3>2 DEF IInv, TypeOK, Facts
  <2>6. CASE NotifySafepoint /\ routed /\ pendingSafepoint' = evtAck + 1
    <3>8. head.cycle \in 1 .. MaxCmds /\ head = [kind |-> "closed", cycle |-> head.cycle]
      BY <1>1, <1>2 DEF Events
    <3>3. generation \in Nat /\ told \in Seq(1 .. MaxCmds)
      BY DEF IInv, TypeOK, PumpType, EngineType
    <3>2. PICK c \in 1 .. MaxCmds :
            c \in Nat /\ c = head.cycle /\ head = [kind |-> "closed", cycle |-> c]
      BY <3>8, UiBoundsAssumption
    <3> DEFINE notice == [gen |-> generation, seq |-> evtAck + 1, cycle |-> c]
    <3>9. notice \in Notices
      BY <1>2, <3>2, <3>3 DEF Notices
    <3>10. notice.gen = generation /\ notice.seq = evtAck + 1 /\ notice.cycle = c
      OBVIOUS
    <3>11. notices' = notices \cup {notice} /\ told' = Append(told, c)
      BY <2>6, <3>2 DEF NotifySafepoint
    <3> HIDE DEF notice
    <3>12. PICK n \in Notices : n = notice
      BY <3>9
    <3>1. /\ notices' = notices \cup {n} /\ told' = Append(told, c)
          /\ n.gen = generation /\ n.seq = evtAck + 1 /\ n.cycle = c
      BY <3>10, <3>11, <3>12
    <3>4. EngineType'
      <4>2. told' \in Seq(1 .. MaxCmds)
        BY <3>1, <3>2, <3>3
      <4> QED
        BY <1>1, <3>1, <4>2 DEF IInv, TypeOK, EngineType
    <3>5. Noticed'
      <4>2. evtAck + 1 <= evtSeq
        BY <1>1, <1>2
      <4>3. \A m \in notices : About(m)'
        BY <1>1, <1>2, <1>6, <2>1, NoticedOn DEF IInv, Facts, TypeOK, RingType
      <4>4. n.gen = generation' /\ n.seq <= evtSeq' /\ generation' \in Nat
        BY <1>1, <1>2, <3>1, <4>2, <3>3
      <4>5. slot'[evt_slot_index(n.seq)] = [kind |-> "closed", cycle |-> n.cycle]
        BY <1>1, <1>2, <3>1, <3>2 DEF At
      <4>6. About(n)'
        BY <4>4, <4>5 DEF About, At
      <4> QED
        BY <3>1, <4>3, <4>6 DEF Noticed
    <3>6. \A i \in DOMAIN told : told[i] # c
      BY <1>1, <1>2, <1>6, <3>2 DEF AlreadyNotified, IInv, Facts, Asked
    <3>7. Asked'
      <4>1. \A q \in Window : At(q).kind = "closed" => q = evtAck + 1
        BY <1>2 DEF IInv, Facts, Published, Completions, Window
      <4>2. /\ DOMAIN told' = DOMAIN told \cup {Len(told) + 1} /\ told'[Len(told) + 1] = c
            /\ \A i \in DOMAIN told : told'[i] = told[i]
        BY <3>1, <3>2, <3>3
      <4>3. AskedOnce'
        BY <3>6, <4>2 DEF IInv, Facts, Asked, AskedOnce
      <4>4. \A i \in DOMAIN told' : told'[i] <= cycle
        BY <1>1, <1>2, <3>2, <4>2 DEF IInv, Facts, Asked
      <4> QED
        BY <1>1, <2>1, <2>6, <4>1, <4>3, <4>4 DEF Asked
    <3> QED
      BY <1>3, <1>4, <2>1, <2>2, <2>3, <2>4, <3>4, <3>5, <3>7 DEF IInv, TypeOK, Facts
  <2> QED
    BY <1>6, <2>5, <2>6 DEF NotifySafepoint
<1> QED
  BY <1>5, <1>6 DEF PollClosed

LEMMA PollDoneKeeps == ASSUME IInv, PollDone PROVE IInv'
<1> USE DEF process, owner, machine, engine
<1>1. /\ life = "alive" /\ evtAck < evtSeq /\ head.kind \in Completions /\ lifecycle' = "closed"
      /\ evtAck' = evtAck + 1 /\ routed' = FALSE
      /\ UNCHANGED <<evtSeq, slot, process, machine, generation, pendingSafepoint,
                     abandonedSafepoint, cmd, session, posts, engine>>
  BY DEF PollDone
<1>2. evtSeq \in Nat /\ evtAck \in Nat /\ head = At(evtAck + 1)
  BY DEF IInv, TypeOK, RingType, At, head
<1>3. ui = "closed"
  BY <1>1, <1>2 DEF IInv, TypeOK, MachineType, Facts, Room, Awaiting, Completions, Alive
<1>4. RingType' /\ Facts'
  BY <1>1, <1>3, HeadGone DEF IInv
<1>5. ProcessType' /\ MachineType' /\ EngineType'
  BY <1>1 DEF IInv, TypeOK, ProcessType, MachineType, EngineType, Alive
<1>6. PumpType'
  BY <1>1 DEF IInv, TypeOK, PumpType
<1>7. DaemonType'
  <2>1. routed' \in BOOLEAN
    BY <1>1
  <2> QED
    BY <1>1, <2>1 DEF IInv, TypeOK, DaemonType
<1>8. Counted'
  BY <1>1 DEF IInv, Counted, Ordered
<1> QED
  BY <1>4, <1>5, <1>6, <1>7, <1>8 DEF IInv, TypeOK

LEMMA AckSafepointKeeps == ASSUME IInv, NEW n \in notices, AckSafepoint(n) PROVE IInv'
<1> USE DEF process, owner, machine, daemon
<1>1. /\ notices' = notices \ {n} /\ saved' = saved \cup {n.cycle}
      /\ UNCHANGED <<evtSeq, slot, process, machine, generation, lifecycle, daemon, told>>
      /\ abandonedSafepoint' \in {0, abandonedSafepoint}
      /\ \/ UNCHANGED <<evtAck, pendingSafepoint>>
         \/ /\ n.gen = generation /\ pendingSafepoint = n.seq /\ evtAck + 1 = n.seq
            /\ n.seq <= evtSeq /\ evtAck' = n.seq /\ pendingSafepoint' = 0
  BY DEF AckSafepoint, Current
<1>2. /\ evtSeq \in Nat /\ evtAck \in Nat /\ evtAck <= evtSeq
      /\ n.cycle \in 1 .. MaxCmds /\ n.seq \in Nat /\ About(n)
  BY DEF IInv, TypeOK, RingType, EngineType, Notices, Facts, Noticed
<1>3. ProcessType' /\ DaemonType' /\ MachineType' /\ EngineType'
  BY <1>1, <1>2 DEF IInv, TypeOK, ProcessType, DaemonType, MachineType, EngineType, Alive
<1>4. RingType' /\ PumpType' /\ evtAck' >= evtAck /\ \A q : At(q)' = At(q)
  BY <1>1, <1>2 DEF IInv, TypeOK, RingType, PumpType, At
<1>5. Counted'
  BY <1>1 DEF IInv, Counted, Ordered
<1>6. Awaiting' /\ Fresh'
  BY <1>1, <1>4 DEF IInv, Facts, Awaiting, Fresh, Alive
<1>7. Noticed'
  BY <1>1, <1>4, NoticedOn DEF IInv, Facts, TypeOK, Noticed
<1>8. CASE UNCHANGED <<evtAck, pendingSafepoint>>
  <2>1. Window' = Window /\ Room'
    BY <1>1, <1>8 DEF IInv, Facts, Room, Window
  <2>2. Published' /\ Saved' /\ Asked'
    BY <1>1, <1>4, <1>8, <2>1 DEF IInv, Facts, Published, Saved, Asked, AskedOnce
  <2> QED
    BY <1>3, <1>4, <1>5, <1>6, <1>7, <2>1, <2>2 DEF IInv, TypeOK, Facts
<1>9. CASE /\ n.gen = generation /\ pendingSafepoint = n.seq /\ evtAck + 1 = n.seq
           /\ n.seq <= evtSeq /\ evtAck' = evtAck + 1 /\ pendingSafepoint' = 0
  <2>1. Window' = Window \ {evtAck + 1}
    BY <1>1, <1>2, <1>9, Completes DEF IInv, TypeOK, Facts
  <2>2. Room'
    BY <1>1, <1>2, <1>9 DEF IInv, Facts, Room
  <2>3. Published'
    <3>1. \A q \in Window' : At(q) \in Events /\ At(q).cycle <= cycle
      BY <2>1 DEF IInv, Facts, Published
    <3>2. \A q \in Window' : q \in Int /\ q > evtAck + 1 /\ At(q).kind \in Completions
      BY <1>2, <2>1 DEF IInv, Facts, Published, Window
    <3> QED
      BY <1>1, <1>4, <3>1, <3>2 DEF Published
  <2>4. Saved'
    <3>1. life = "alive" /\ ui = "closing" => cycle = n.cycle
      BY <1>2, <1>9 DEF About, IInv, Facts, Room, Awaiting, Alive
    <3>2. life = "alive" => \A q \in Window : At(q).kind = "done-saved" => At(q).cycle \in saved
      BY DEF IInv, Facts, Saved
    <3> QED
      BY <1>1, <1>4, <2>1, <3>1, <3>2 DEF Saved
  <2>5. Asked'
    <3>1. \A q \in Window' : At(q).kind # "closed"
      BY <1>2, <2>1 DEF IInv, Facts, Published, Completions, Window
    <3> QED
      BY <1>1, <1>4, <3>1 DEF IInv, Facts, Asked, AskedOnce
  <2> QED
    BY <1>3, <1>4, <1>5, <1>6, <1>7, <2>2, <2>3, <2>4, <2>5 DEF IInv, TypeOK, Facts
<1> QED
  BY <1>1, <1>8, <1>9

-----------------------------------------------------------------------------
(* Death, reset, respawn and the end.                                      *)

LEMMA Emptied ==
  ASSUME RingType', outbox' = <<>>, evtAck' = evtSeq'
  PROVE  Window' = {} /\ Room' /\ Published'
<1>1. PICK n \in Nat : evtSeq' = n /\ evtAck' = n
  BY DEF RingType
<1>2. n + 1 .. n = {}
  OBVIOUS
<1>3. Window' = {}
  BY <1>1, <1>2 DEF Window
<1>4. Room'
  BY <1>1 DEF Room
<1>5. Published'
  BY <1>3 DEF Published
<1> QED
  BY <1>3, <1>4, <1>5

LEMMA ResetRegionTypes ==
  ASSUME TypeOK, ResetRegion
  PROVE  RingType' /\ evtSeq' = 0 /\ evtAck' = 0 /\ ready' = FALSE /\ cmd' \in Commands /\ ~Ordered'
<1>1. /\ evtSeq' = 0 /\ evtAck' = 0 /\ slot' = [i \in DOMAIN slot |-> NoEvent]
      /\ cmd' = NoCmd /\ ready' = FALSE
  BY DEF ResetRegion
<1>2. RingType'
  BY <1>1 DEF TypeOK, RingType
<1>3. NoCmd \in Commands /\ NoCmd.kind = "none"
  BY DEF NoCmd, Commands
<1> QED
  BY <1>1, <1>2, <1>3 DEF Ordered

LEMMA ResetAfterChildExitKeeps == ASSUME IInv, ResetAfterChildExit PROVE IInv'
<1> USE DEF machine, engine
<1>1. /\ life = "dead" /\ life' \in {"reset", "respawning"} /\ ResetRegion
      /\ generation' = generation + 1 /\ lifecycle' = "closed"
      /\ abandonedSafepoint' = 0 /\ pendingSafepoint' = 0
      /\ UNCHANGED <<ownerTold, openFailed, unreserved, deaths, machine, routed, session,
                     posts, engine>>
  BY DEF ResetAfterChildExit, ForgetSafepoints, owner
<1>2. RingType' /\ evtSeq' = 0 /\ evtAck' = 0 /\ ready' = FALSE /\ cmd' \in Commands /\ ~Ordered'
  BY <1>1, ResetRegionTypes DEF IInv
<1>3. ProcessType'
  <2>1. ready' \in BOOLEAN
    BY <1>2
  <2> QED
    BY <1>1, <2>1 DEF IInv, TypeOK, ProcessType
<1>4. MachineType' /\ DaemonType' /\ EngineType'
  BY <1>1, <1>2 DEF IInv, TypeOK, MachineType, DaemonType, EngineType, Alive
<1>5. generation \in Nat /\ PumpType'
  BY <1>1, <1>2 DEF IInv, TypeOK, PumpType
<1>6. Counted'
  BY <1>1, <1>2 DEF IInv, Counted
<1>7. Window' = {} /\ Room' /\ Published'
  BY <1>1, <1>2, Emptied DEF IInv, Facts, Room
<1>8. Awaiting' /\ Fresh' /\ Saved'
  BY <1>1, <1>2 DEF Awaiting, Fresh, Saved, Alive
<1>9. Noticed'
  <2>1. \A n \in notices : n.gen \in Nat /\ n.gen <= generation
    BY DEF IInv, TypeOK, EngineType, Notices, Facts, Noticed, About
  <2> QED
    BY <1>1, <1>5, <2>1 DEF Noticed, About
<1>10. Asked'
  BY <1>1, <1>7 DEF IInv, Facts, Asked, AskedOnce
<1> QED
  BY <1>2, <1>3, <1>4, <1>5, <1>6, <1>7, <1>8, <1>9, <1>10 DEF IInv, TypeOK, Facts

LEMMA ResetFailsKeeps == ASSUME IInv, ResetFails PROVE IInv'
<1> USE DEF machine, engine
<1>1. /\ life' = "gone" /\ ResetRegion /\ lifecycle' = "closed" /\ pendingSafepoint' = 0
      /\ UNCHANGED <<ownerTold, openFailed, unreserved, deaths, machine, generation,
                     abandonedSafepoint, routed, session, posts, engine>>
  BY DEF ResetFails, owner
<1>2. RingType' /\ evtSeq' = 0 /\ evtAck' = 0 /\ ready' = FALSE /\ cmd' \in Commands /\ ~Ordered'
  BY <1>1, ResetRegionTypes DEF IInv
<1>3. ProcessType'
  <2>1. ready' \in BOOLEAN
    BY <1>2
  <2> QED
    BY <1>1, <2>1 DEF IInv, TypeOK, ProcessType
<1>4. MachineType' /\ DaemonType' /\ EngineType' /\ PumpType'
  BY <1>1, <1>2 DEF IInv, TypeOK, MachineType, DaemonType, EngineType, PumpType, Alive
<1>5. Counted'
  BY <1>1, <1>2 DEF IInv, Counted
<1>6. Window' = {} /\ Room' /\ Published'
  BY <1>1, <1>2, Emptied DEF IInv, Facts, Room
<1>7. Awaiting' /\ Fresh' /\ Saved'
  BY <1>1, <1>2 DEF Awaiting, Fresh, Saved, Alive
<1>8. Noticed'
  BY <1>1 DEF IInv, Facts, Noticed, About
<1>9. Asked'
  BY <1>1, <1>6 DEF IInv, Facts, Asked, AskedOnce
<1> QED
  BY <1>2, <1>3, <1>4, <1>5, <1>6, <1>7, <1>8, <1>9 DEF IInv, TypeOK, Facts

LEMMA SpawnKeeps == ASSUME IInv, Spawn PROVE IInv'
<1> USE DEF ring, pump, daemon, engine
<1>1. /\ life = "respawning" /\ life' = "alive"
      /\ ui' = "closed" /\ closedSeq' = 0 /\ overdue' = FALSE /\ outbox' = <<>>
      /\ ownerTold' = FALSE /\ unreserved' = FALSE
      /\ openFailed' = (cmd.kind = "open" /\ cmd.abandoned)
      /\ UNCHANGED <<ring, ready, deaths, cycle, pump, daemon, engine>>
  BY DEF Spawn
<1>2. RingType' /\ evtSeq' = 0 /\ evtAck' = 0
  BY <1>1 DEF IInv, Facts, Fresh, TypeOK, RingType
<1>3. ownerTold' \in BOOLEAN /\ openFailed' \in BOOLEAN /\ unreserved' \in BOOLEAN
          /\ overdue' \in BOOLEAN
  BY <1>1
<1>4. ProcessType' /\ MachineType'
  BY <1>1, <1>2, <1>3 DEF IInv, TypeOK, ProcessType, MachineType
<1>5. PumpType' /\ DaemonType' /\ EngineType'
  BY <1>1 DEF IInv, TypeOK, PumpType, DaemonType, EngineType
<1>6. Counted'
  BY <1>1 DEF IInv, Counted, Ordered
<1>7. Window' = {} /\ Room' /\ Published'
  BY <1>1, <1>2, Emptied
<1>8. Awaiting' /\ Fresh' /\ Saved'
  BY <1>1, <1>7 DEF Awaiting, Fresh, Saved, Alive
<1>9. Noticed'
  BY <1>1, <1>2, NoticedOn DEF IInv, TypeOK, Facts, Noticed, RingType
<1>10. Asked'
  BY <1>1, <1>7 DEF IInv, Facts, Asked, AskedOnce
<1> QED
  BY <1>2, <1>4, <1>5, <1>6, <1>7, <1>8, <1>9, <1>10 DEF IInv, TypeOK, Facts

\* The drain sends at most one notice, and of a close the engine was not told of.
LEMMA DrainKeeps ==
  ASSUME IInv, FinalDrain,
         UNCHANGED <<ready, ownerTold, openFailed, unreserved, deaths, machine, generation, cmd,
                   session, posts, saved>>,
         \/ life = "alive" /\ life' = "quitting"
         \/ life' = "gone"
  PROVE  IInv'
<1> USE DEF machine
<1> DEFINE closes == {q \in Window : At(q).kind = "closed"}
           notice(q) == [gen |-> generation, seq |-> q, cycle |-> At(q).cycle]
<1>1. PICK new \in {IF routed THEN closes \ {pendingSafepoint} ELSE {}, {}} :
         /\ evtAck' = evtSeq /\ UNCHANGED <<evtSeq, slot>>
         /\ notices' = notices \cup {notice(q) : q \in new}
         /\ told' = IF new = {} THEN told ELSE Append(told, At(CHOOSE q \in new : TRUE).cycle)
         /\ pendingSafepoint' = 0
         /\ abandonedSafepoint' = IF closes = {} THEN abandonedSafepoint
                                                 ELSE CHOOSE q \in closes : TRUE
         /\ lifecycle' = "closed"
         /\ routed' \in {routed, routed /\ ~(\E q \in Window : At(q).kind \in Completions)}
  BY DEF FinalDrain, Window, At
<1>2. \A q \in new : q \in Window /\ At(q).kind = "closed" /\ q # pendingSafepoint
  OBVIOUS
<1>3. \A q \in Window : q \in Nat /\ q <= evtSeq /\ At(q) \in Events /\ At(q).cycle <= cycle
  BY DEF IInv, TypeOK, RingType, Facts, Published, Window
<1>4. evtSeq \in Nat /\ evtAck \in Nat /\ evtAck <= evtSeq /\ generation \in Nat
  BY DEF IInv, TypeOK, RingType, PumpType
<1>5. RingType'
  BY <1>1, <1>4 DEF IInv, TypeOK, RingType
<1>6. ProcessType'
  BY DEF IInv, TypeOK, ProcessType
<1>7. MachineType'
  BY <1>1 DEF IInv, TypeOK, MachineType, Alive
<1>8. PumpType'
  <2>1. abandonedSafepoint' \in Nat
    <3>1. \A q \in closes : q \in Nat
      BY <1>3
    <3> QED
      BY <1>1, <3>1 DEF IInv, TypeOK, PumpType
  <2> QED
    BY <1>1, <1>4, <2>1 DEF IInv, TypeOK, PumpType
<1>9. DaemonType'
  <2>1. routed' \in BOOLEAN
    BY <1>1 DEF IInv, TypeOK, DaemonType
  <2> QED
    BY <2>1 DEF IInv, TypeOK, DaemonType
<1>10. Counted'
  BY DEF IInv, Counted, Ordered
<1>11. Window' = {} /\ Room' /\ Published'
  BY <1>1, <1>5, Emptied DEF IInv, Facts, Room
<1>12. Awaiting' /\ Fresh' /\ Saved'
  BY <1>1, <1>11 DEF IInv, Facts, Awaiting, Fresh, Saved, At, Alive
<1>13. \A q \in new : notice(q) \in Notices /\ At(q).cycle \in 1 .. MaxCmds
  BY <1>2, <1>3, <1>4 DEF Notices, Events
<1>14. Noticed'
  <2>1. \A n \in notices : About(n)'
    BY <1>1, <1>4, <1>5, NoticedOn DEF IInv, Facts, TypeOK
  <2>2. ASSUME NEW m, NEW q \in new, m = notice(q) PROVE About(m)'
    <3>1. PICK k \in Nat : k = q /\ k <= evtSeq
      BY <1>2, <1>3
    <3>2. m.gen = generation /\ m.seq = k
      BY <2>2, <3>1
    <3> QED
      BY <1>1, <1>4, <3>1, <3>2 DEF About
  <2> QED
    BY <1>1, <2>1, <2>2 DEF Noticed
<1>15. CASE new = {}
  <2>1. told' = told /\ notices' = notices
    BY <1>1, <1>15
  <2>2. EngineType'
    BY <2>1 DEF IInv, TypeOK, EngineType
  <2>3. Asked'
    BY <1>11, <2>1 DEF IInv, Facts, Asked, AskedOnce
  <2> QED
    BY <1>5, <1>6, <1>7, <1>8, <1>9, <1>10, <1>11, <1>12, <1>14, <2>2, <2>3 DEF IInv, TypeOK, Facts
<1>16. CASE new # {}
  <2>1. PICK q \in new : told' = Append(told, At(q).cycle)
    BY <1>1, <1>16
  <2>2. PICK c \in 1 .. MaxCmds : c = At(q).cycle /\ c <= cycle
    BY <1>2, <1>3, <1>13
  <2>3. told \in Seq(1 .. MaxCmds) /\ told' = Append(told, c)
    BY <2>1, <2>2 DEF IInv, TypeOK, EngineType
  <2>4. /\ DOMAIN told' = DOMAIN told \cup {Len(told) + 1} /\ told'[Len(told) + 1] = c
        /\ \A i \in DOMAIN told : told'[i] = told[i]
    BY <2>3
  <2>5. \A i \in DOMAIN told : told[i] # c
    BY <1>2, <2>2 DEF IInv, Facts, Asked
  <2>6. AskedOnce'
    BY <2>4, <2>5 DEF IInv, Facts, Asked, AskedOnce
  <2>7. \A i \in DOMAIN told' : told'[i] <= cycle'
    BY <2>2, <2>4 DEF IInv, Facts, Asked
  <2>8. Asked'
    BY <1>11, <2>6, <2>7 DEF Asked
  <2>9. EngineType'
    <3>1. told' \in Seq(1 .. MaxCmds)
      BY <2>3
    <3>2. notices' \subseteq Notices
      BY <1>1, <1>13 DEF IInv, TypeOK, EngineType
    <3> QED
      BY <3>1, <3>2 DEF IInv, TypeOK, EngineType
  <2> QED
    BY <1>5, <1>6, <1>7, <1>8, <1>9, <1>10, <1>11, <1>12, <1>14, <2>8, <2>9 DEF IInv, TypeOK, Facts
<1> QED
  BY <1>15, <1>16

LEMMA ShutdownKeeps == ASSUME IInv, Shutdown PROVE IInv'
  BY DrainKeeps DEF Shutdown, owner

LEMMA GiveUpKeeps == ASSUME IInv, GiveUp PROVE IInv'
  BY DrainKeeps DEF GiveUp, owner

-----------------------------------------------------------------------------
(* The invariant.                                                          *)

LEMMA InitInv == Init => IInv
<1> SUFFICES ASSUME Init PROVE IInv
  OBVIOUS
<1> USE DEF Init
<1>1. RingType
  BY EvtSlotsAssumption DEF RingType
<1>2. ready \in BOOLEAN /\ overdue \in BOOLEAN /\ routed \in BOOLEAN
  OBVIOUS
<1>3. ownerTold \in BOOLEAN /\ openFailed \in BOOLEAN /\ unreserved \in BOOLEAN
  OBVIOUS
<1>4. ProcessType /\ MachineType /\ PumpType
  BY <1>2, <1>3, UiBoundsAssumption DEF ProcessType, MachineType, PumpType
<1>5. DaemonType
  <2>1. NoCmd \in Commands
    BY DEF NoCmd, Commands
  <2>2. session \in [Sessions -> Places]
    BY DEF Places
  <2> QED
    BY <1>2, <2>1, <2>2, UiBoundsAssumption DEF DaemonType
<1>6. EngineType
  BY DEF EngineType
<1>7. Window = {}
  BY DEF Window
<1>8. Room /\ Published /\ Awaiting /\ Noticed /\ Fresh
  BY <1>7 DEF Room, Published, Awaiting, Noticed, Fresh, Alive
<1>9. Saved /\ Asked
  BY <1>7 DEF Saved, Asked, AskedOnce
<1>10. Counted
  BY DEF Counted, Ordered, NoCmd
<1> QED
  BY <1>1, <1>4, <1>5, <1>6, <1>8, <1>9, <1>10 DEF IInv, TypeOK, Facts

LEMMA StutterKeeps == ASSUME IInv, UNCHANGED vars PROVE IInv'
<1> USE DEF vars, ring, process, owner, machine, pump, daemon, engine
<1>1. ProcessType' /\ DaemonType' /\ overdue' \in BOOLEAN
  BY DEF IInv, TypeOK, ProcessType, DaemonType, MachineType
<1>2. lifecycle' \in {"closed", "opening", "open", "closing"}
  BY DEF IInv, TypeOK, PumpType
<1> QED
  BY <1>1, <1>2, Quietly DEF core, Ordered

LEMMA StepKeeps == IInv /\ [Next]_vars => IInv'
<1> SUFFICES ASSUME IInv, [Next]_vars PROVE IInv'
  OBVIOUS
<1>1. CASE UNCHANGED vars
  BY <1>1, StutterKeeps
<1>2. CASE OpenCommand \/ CloseCommand \/ WindowClosed \/ CloseTimeout \/ Tick
  BY <1>2, OpenCommandKeeps, CloseCommandKeeps, WindowClosedKeeps, CloseTimeoutKeeps, TickKeeps
<1>3. ASSUME NEW s \in Sessions, CheckReady(s) \/ CloseRequest(s) \/ SessionStep(s)
      PROVE  IInv'
  BY <1>3, CheckReadyKeeps, CloseRequestKeeps, BeginOpenKeeps, SetRouteKeeps, PostKeeps, AwaitKeeps,
     FinishOpenKeeps, ClearRouteKeeps DEF SessionStep
<1>4. CASE PollClosed \/ PollDone \/ \E n \in notices : AckSafepoint(n)
  BY <1>4, PollClosedKeeps, PollDoneKeeps, AckSafepointKeeps
<1>5. CASE Die \/ ResetAfterChildExit \/ ResetFails \/ NotifyRespawn \/ Spawn \/ BecomeReady
  BY <1>5, DieKeeps, ResetAfterChildExitKeeps, ResetFailsKeeps, NotifyRespawnKeeps, SpawnKeeps,
     BecomeReadyKeeps
<1>6. CASE Shutdown \/ GiveUp \/ Reaped
  BY <1>6, ShutdownKeeps, GiveUpKeeps, ReapedKeeps
<1> QED
  BY <1>1, <1>2, <1>3, <1>4, <1>5, <1>6 DEF Next

LEMMA Invariant == Spec => []IInv
  BY InitInv, StepKeeps, PTL DEF Spec

\* Every variable keeps its type, for any number of sessions, commands and deaths.
THEOREM TypeCorrect == Spec => []TypeOK
<1>1. IInv => TypeOK
  BY DEF IInv
<1> QED
  BY <1>1, Invariant, PTL

\* The drain gate on OPEN_UI makes any ring of two or more slots enough: no event of
\* the child is ever kept back for want of a slot.
THEOREM NothingDeferred == Spec => []NeverDeferred
<1>1. IInv => NeverDeferred
  BY DEF IInv, Facts, Room, NeverDeferred
<1> QED
  BY <1>1, Invariant, PTL

\* A close that completes as saved was saved by the engine, that very close; and the
\* engine is asked at most once per close.
THEOREM SavedAndAskedOnce == Spec => [](DoneMeansSaved /\ AskedOnce)
<1>1. IInv => DoneMeansSaved
  <2> SUFFICES ASSUME IInv, life = "alive", NEW i \in 1 .. evtSeq - evtAck,
                      At(evtAck + i).kind = "done-saved"
               PROVE  At(evtAck + i).cycle \in saved
    BY DEF DoneMeansSaved, Unacked, At
  <2>1. evtAck + i \in Window
    BY DEF IInv, TypeOK, RingType, Window
  <2> QED
    BY <2>1 DEF IInv, Facts, Saved
<1>2. IInv => AskedOnce
  BY DEF IInv, Facts, Asked
<1> QED
  BY <1>1, <1>2, Invariant, PTL

-----------------------------------------------------------------------------
(* The ring implements EventChannel: each step of the child and the host is *)
(* one of the channel's, or none.                                          *)

Queue == Unacked \o outbox
Over == life \in {"quitting", "gone"}
Epoch == generation + IF Over THEN 1 ELSE 0

\* Nothing is retained, so the queue is what is in the ring.
QueueShape ==
    /\ evtSeq - evtAck \in Nat /\ evtSeq \in Nat /\ evtAck \in Nat
    /\ Queue = Unacked /\ Queue \in Seq(Events) /\ Len(Queue) = evtSeq - evtAck
    /\ \A i \in 1 .. evtSeq - evtAck : Queue[i] = slot[evt_slot_index(evtAck + i)]

LEMMA QueueIs == IInv => QueueShape
<1> SUFFICES ASSUME IInv PROVE QueueShape
  OBVIOUS
<1>1. evtSeq - evtAck \in Nat /\ evtSeq \in Nat /\ evtAck \in Nat
  BY DEF IInv, TypeOK, RingType
<1>2. \A i \in 1 .. evtSeq - evtAck : slot[evt_slot_index(evtAck + i)] \in Events
  BY <1>1 DEF IInv, Facts, Published, Window, At
<1>3. Unacked \in Seq(Events) /\ Len(Unacked) = evtSeq - evtAck
  BY <1>1, <1>2 DEF Unacked
<1>4. Queue = Unacked
  BY <1>3 DEF Queue, IInv, Facts, Room
<1> QED
  BY <1>1, <1>3, <1>4 DEF QueueShape, Unacked

LEMMA Stays ==
  ASSUME IInv, UNCHANGED <<ring, outbox, generation>>, Over' <=> Over
  PROVE  UNCHANGED <<Queue, Epoch>>
  BY DEF ring, Queue, Epoch, Unacked

LEMMA Sent ==
  ASSUME IInv, IInv', NEW e \in Events, ui \in {"open", "closing"}, Publish(<<e>>),
         UNCHANGED <<generation, life>>
  PROVE  Queue' = Append(Queue, e) /\ UNCHANGED Epoch
<1>1. /\ evtSeq' = evtSeq + 1 /\ UNCHANGED evtAck /\ slot'[evt_slot_index(evtSeq + 1)] = e
      /\ \A q \in Window : At(q)' = At(q)
  BY Sends DEF IInv, TypeOK, Facts
<1>2. PICK n \in Nat, b \in Nat : n = evtSeq - evtAck /\ b = evtAck /\ evtSeq = b + n
  BY QueueIs DEF QueueShape
<1>3. \A i \in 1 .. n : slot'[evt_slot_index(b + i)] = slot[evt_slot_index(b + i)]
  <2>1. \A i \in 1 .. n : b + i \in Window
    BY <1>2 DEF Window
  <2>2. \A q \in Window : slot'[evt_slot_index(q)] = slot[evt_slot_index(q)]
    BY <1>1 DEF At
  <2> QED
    BY <2>1, <2>2
<1>4. /\ Queue \in Seq(Events) /\ Len(Queue) = n
      /\ \A i \in 1 .. n : Queue[i] = slot[evt_slot_index(b + i)]
  BY <1>2, QueueIs DEF QueueShape
<1>5. /\ Queue' \in Seq(Events) /\ Len(Queue') = n + 1
      /\ \A i \in 1 .. n + 1 : Queue'[i] = slot'[evt_slot_index(b + i)]
  <2>1. QueueShape'
    BY QueueIs, PTL
  <2> QED
    BY <1>1, <1>2, <2>1 DEF QueueShape
<1>6. Queue'[n + 1] = e
  BY <1>1, <1>2, <1>5
<1>7. \A i \in 1 .. n : Queue'[i] = Queue[i]
  BY <1>3, <1>4, <1>5
<1>8. Queue' = Append(Queue, e)
  BY <1>4, <1>5, <1>6, <1>7
<1>9. UNCHANGED Epoch
  BY DEF Epoch, Over
<1> QED
  BY <1>8, <1>9

LEMMA Completed ==
  ASSUME IInv, IInv', evtAck < evtSeq, evtAck' = evtAck + 1,
         UNCHANGED <<evtSeq, slot, generation, life>>
  PROVE  Queue # <<>> /\ Queue' = Tail(Queue) /\ UNCHANGED Epoch
<1>1. PICK n \in Nat, b \in Nat : n = evtSeq - evtAck /\ b = evtAck /\ n > 0
  BY QueueIs DEF QueueShape
<1>2. /\ Queue \in Seq(Events) /\ Len(Queue) = n
      /\ \A i \in 1 .. n : Queue[i] = slot[evt_slot_index(b + i)]
  BY <1>1, QueueIs DEF QueueShape
<1>3. /\ Queue' \in Seq(Events) /\ Len(Queue') = n - 1
      /\ \A i \in 1 .. n - 1 : Queue'[i] = slot[evt_slot_index(b + 1 + i)]
  <2>1. QueueShape'
    BY QueueIs, PTL
  <2> QED
    BY <1>1, <2>1 DEF QueueShape
<1>4. \A i \in 1 .. n - 1 : Queue'[i] = Queue[i + 1]
  <2> SUFFICES ASSUME NEW i \in 1 .. n - 1 PROVE Queue'[i] = Queue[i + 1]
    OBVIOUS
  <2>1. i + 1 \in 1 .. n /\ b + 1 + i = b + (i + 1)
    BY <1>1
  <2> QED
    BY <1>2, <1>3, <2>1
<1>5. Queue # <<>> /\ Queue' = Tail(Queue)
  BY <1>1, <1>2, <1>3, <1>4
<1>6. UNCHANGED Epoch
  BY DEF Epoch, Over
<1> QED
  BY <1>5, <1>6

LEMMA Ended ==
  ASSUME IInv, IInv', evtAck' = evtSeq', ~Over,
         \/ generation' = generation + 1 /\ ~Over'
         \/ generation' = generation /\ Over'
  PROVE  Queue' = <<>> /\ Epoch' = Epoch + 1
<1>1. QueueShape'
  BY QueueIs, PTL
<1>2. generation \in Nat
  BY DEF IInv, TypeOK, PumpType
<1>3. Epoch = generation
  BY <1>2 DEF Epoch
<1>4. Epoch' = generation + 1
  <2>1. CASE generation' = generation + 1 /\ ~Over'
    BY <1>2, <2>1 DEF Epoch
  <2>2. CASE generation' = generation /\ Over'
    BY <1>2, <2>2 DEF Epoch
  <2> QED
    BY <2>1, <2>2
<1> QED
  BY <1>1, <1>3, <1>4 DEF QueueShape

\* What a step of the channel is, as this module sees it.
ChannelStep ==
    \/ \E e \in Events : Queue' = Append(Queue, e) /\ UNCHANGED Epoch
    \/ Queue # <<>> /\ Queue' = Tail(Queue) /\ UNCHANGED Epoch
    \/ Queue' = <<>> /\ Epoch' = Epoch + 1
    \/ UNCHANGED <<Queue, Epoch>>

LEMMA BeginCloseMaps ==
  ASSUME IInv, IInv', BeginClose, UNCHANGED <<process, pump>>
  PROVE  ChannelStep
<1>1. CASE ui # "open"
  BY <1>1, Stays DEF BeginClose, machine, process, pump, Over, ChannelStep
<1>2. CASE ui = "open"
  <2>1. Publish(<<[kind |-> "closed", cycle |-> cycle']>>) /\ cycle' = cycle + 1
    BY <1>2 DEF BeginClose
  <2>2. [kind |-> "closed", cycle |-> cycle'] \in Events
    <3>1. cycle \in Nat /\ posts \in 0 .. MaxCmds /\ MaxCmds \in Nat /\ cycle + 1 <= posts
      BY <1>2, UiBoundsAssumption DEF IInv, TypeOK, MachineType, DaemonType, Counted
    <3> QED
      BY <2>1, <3>1 DEF Events
  <2>3. PICK e \in Events : e = [kind |-> "closed", cycle |-> cycle']
    BY <2>2
  <2>4. Publish(<<e>>)
    BY <2>1, <2>3
  <2>5. Queue' = Append(Queue, e) /\ UNCHANGED Epoch
    BY <1>2, <2>4, Sent DEF process, pump
  <2> QED
    BY <2>5 DEF ChannelStep
<1> QED
  BY <1>1, <1>2

LEMMA TickMaps == ASSUME IInv, IInv', Tick PROVE ChannelStep
<1>1. Alive /\ UNCHANGED <<life, generation>>
  BY DEF Tick, process, pump
<1>2. ASSUME NEW c \in Completions, ui = "closing", FinishClose(c) PROVE ChannelStep
  <2>1. [kind |-> c, cycle |-> cycle] \in Events
    BY <1>2, UiBoundsAssumption DEF IInv, TypeOK, MachineType, DaemonType, Counted, Events
  <2>2. PICK e \in Events : e = [kind |-> c, cycle |-> cycle]
    BY <2>1
  <2>3. Publish(<<e>>)
    BY <1>2, <2>2 DEF FinishClose
  <2>4. Queue' = Append(Queue, e) /\ UNCHANGED Epoch
    BY <1>1, <1>2, <2>3, Sent
  <2> QED
    BY <2>4 DEF ChannelStep
<1>3. CASE RetryPublication
  <2>1. UNCHANGED <<evtSeq, evtAck, outbox, slot>>
    BY <1>3, PublishesNothing DEF RetryPublication, IInv, Facts, Room, TypeOK
  <2> QED
    BY <1>1, <2>1, Stays DEF ring, Over, ChannelStep
<1> QED
  BY <1>2, <1>3 DEF Tick, Completions

LEMMA AckSafepointMaps ==
  ASSUME IInv, IInv', NEW n \in notices, AckSafepoint(n)
  PROVE  ChannelStep
<1>1. UNCHANGED <<evtSeq, slot, generation, life, outbox>>
  BY DEF AckSafepoint, process, machine
<1>2. n.seq \in Nat /\ evtAck \in Nat /\ evtSeq \in Nat
  BY DEF IInv, TypeOK, EngineType, Notices, RingType
<1>3. CASE UNCHANGED evtAck
  BY <1>1, <1>3, Stays DEF ring, Over, ChannelStep
<1>4. CASE evtAck' = evtAck + 1 /\ evtAck < evtSeq
  BY <1>1, <1>4, Completed DEF ChannelStep
<1> QED
  BY <1>2, <1>3, <1>4 DEF AckSafepoint

LEMMA PollMaps == ASSUME IInv, IInv', PollClosed \/ PollDone PROVE ChannelStep
<1>1. evtAck < evtSeq /\ UNCHANGED <<evtSeq, slot, generation, life, outbox>>
  BY DEF PollClosed, PollDone, process, machine
<1>2. CASE UNCHANGED evtAck
  BY <1>1, <1>2, Stays DEF ring, Over, ChannelStep
<1>3. CASE evtAck' = evtAck + 1
  BY <1>1, <1>3, Completed DEF ChannelStep
<1> QED
  BY <1>2, <1>3 DEF PollClosed, PollDone

LEMMA EndMaps ==
  ASSUME IInv, IInv', ResetAfterChildExit \/ ResetFails \/ Shutdown \/ GiveUp
  PROVE  ChannelStep
<1>1. evtAck' = evtSeq' /\ ~Over
  BY DEF ResetAfterChildExit, ResetFails, Shutdown, GiveUp, ResetRegion, FinalDrain, Over
<1>2. \/ generation' = generation + 1 /\ ~Over'
      \/ generation' = generation /\ Over'
  BY DEF ResetAfterChildExit, ResetFails, Shutdown, GiveUp, Over
<1> QED
  BY <1>1, <1>2, Ended DEF ChannelStep

LEMMA StepMaps == ASSUME IInv, IInv', [Next]_vars PROVE ChannelStep
<1> USE DEF ring, process, owner, machine, pump, daemon, engine
<1>1. CASE UNCHANGED vars
  BY <1>1, Stays DEF vars, Over, ChannelStep
<1>2. CASE CloseCommand \/ WindowClosed
  BY <1>2, BeginCloseMaps DEF CloseCommand, WindowClosed
<1>3. CASE \/ OpenCommand \/ CloseTimeout \/ Die \/ NotifyRespawn \/ BecomeReady \/ Reaped
           \/ \E s \in Sessions : CheckReady(s) \/ CloseRequest(s) \/ SessionStep(s)
  <2>1. UNCHANGED <<ring, outbox, generation>>
    BY <1>3 DEF OpenCommand, CloseTimeout, Die, NotifyRespawn, BecomeReady, Reaped, CheckReady,
                CloseRequest, SessionStep, BeginOpen, SetRoute, Post, Await, FinishOpen, ClearRoute
  <2>2. Over' <=> Over
    BY <1>3 DEF OpenCommand, CloseTimeout, Die, NotifyRespawn, BecomeReady, Reaped, CheckReady,
                CloseRequest, SessionStep, BeginOpen, SetRoute, Post, Await, FinishOpen, ClearRoute,
                Over
  <2> QED
    BY <2>1, <2>2, Stays DEF ChannelStep
<1>4. CASE Spawn
  <2>1. UNCHANGED <<ring, outbox, generation>> /\ (Over' <=> Over)
    BY <1>4 DEF Spawn, Over, IInv, Facts, Room
  <2> QED
    BY <2>1, Stays DEF ChannelStep
<1>5. CASE Tick \/ PollClosed \/ PollDone \/ \E n \in notices : AckSafepoint(n)
  BY <1>5, TickMaps, PollMaps, AckSafepointMaps
<1>6. CASE ResetAfterChildExit \/ ResetFails \/ Shutdown \/ GiveUp
  BY <1>6, EndMaps
<1> QED
  BY <1>1, <1>2, <1>3, <1>4, <1>5, <1>6 DEF Next

\* The ring is a lossless FIFO channel: what the child publishes the host completes
\* in that order, each event once, and only the end of the child's life drops any.
THEOREM RingIsLossless == Spec => LosslessFifo
<1>1. Init => Channel!Init
  <2> SUFFICES ASSUME Init PROVE Channel!Init
    OBVIOUS
  <2>1. Len(Queue) = 0 /\ Queue \in Seq(Events)
    BY InitInv, QueueIs DEF Init, QueueShape
  <2>2. Epoch = 0
    BY DEF Epoch, Over, Init
  <2> QED
    BY <2>1, <2>2 DEF Channel!Init, Queue, Epoch, Over
<1>2. IInv /\ IInv' /\ [Next]_vars => [Channel!Next]_<<Unacked \o outbox, Epoch>>
  BY StepMaps
  DEF ChannelStep, Channel!Next, Channel!Send, Channel!Complete, Channel!End, Queue, Epoch, Over
<1> QED
  BY <1>1, <1>2, Invariant, PTL DEF Spec, LosslessFifo, Channel!Spec, Epoch, Over

-----------------------------------------------------------------------------
(* One session's window: what the daemon knows of it while it is there.    *)

Idle == ui = "closed" /\ evtSeq = evtAck
Tracked == ~openFailed /\ ~unreserved

\* An OPEN_UI in the mailbox has its session waiting, or was given up.
Expected ==
    cmd.kind = "open" =>
        /\ cmd.abandoned \/ (cmd.by \in Sessions /\ session[cmd.by] = "wait")
        /\ cmd.abandoned /\ life \in {"alive", "dead"} => openFailed

\* A completion is the last of its close.
Last ==
    Alive => \A q \in Window : At(q).kind \in Completions => q = evtSeq /\ ui = "closed"

\* A window on the screen, or its events, is one that the pump and the route know of.
Known(s) ==
    life \in {"alive", "dead"} /\ Tracked /\ ~Idle =>
        /\ lifecycle # "closed" /\ routed
        /\ session[s] \notin {"route", "post", "failed", "unroute"}
        /\ session[s] = "wait" => cmd.by = s /\ cmd.kind = "open" /\ cmd.answer = "ok"

\* ... and the route still knows of it until the owner is told.
Owned(s) ==
    life = "reset" /\ Tracked /\ ui # "closed" =>
        routed /\ session[s] \notin {"failed", "unroute"}

\* Between two children nothing answers, and a call that has yet to post finds room.
Between(s) ==
    life = "reset" =>
        /\ ~ready /\ cmd.answer = "none"
        /\ session[s] \in {"begin", "route", "post"} => cmd = NoCmd
Posting(s) == session[s] \in {"begin", "route", "post", "postClose"} => posts < MaxCmds

Tracking ==
    /\ Expected /\ Last /\ RespawnIsNotified
    /\ \A s \in Sessions : Known(s) /\ Owned(s) /\ Between(s) /\ Posting(s)

OneSession == \E s : Sessions = {s}

\* A step of the session: the others do not exist.
LEMMA Moves ==
  ASSUME OneSession, TypeOK, NEW s \in Sessions, NEW pc, Goto(s, pc)
  PROVE  session'[s] = pc /\ \A t \in Sessions : t = s
BY DEF OneSession, TypeOK, DaemonType, Goto

LEMMA BeginOpenTracks ==
  ASSUME OneSession, TypeOK, Tracking, NEW s \in Sessions, BeginOpen(s)
  PROVE  Tracking'
<1> USE DEF ring, process, machine, pump, daemon, engine
<1>1. PICK pc \in {"idle", "route"} : /\ Goto(s, pc) /\ (pc = "route" => lifecycle = "closed")
         /\ (pc = "idle" => lifecycle' = lifecycle)
  BY DEF BeginOpen
<1>2. session'[s] = pc /\ \A t \in Sessions : t = s
  BY <1>1, Moves
<1>3. session[s] = "begin" /\ UNCHANGED <<ring, process, machine, routed, cmd, posts>>
  BY DEF BeginOpen
<1>4. Expected' 
  BY <1>2, <1>3 DEF Tracking, Expected
<1>5. Last' /\ RespawnIsNotified'
  BY <1>3 DEF Tracking, Last, Window, At, RespawnIsNotified, Alive
<1>6. Known(s)' /\ Owned(s)' /\ Between(s)' /\ Posting(s)'
  BY <1>1, <1>2, <1>3 DEF Tracking, Known, Owned, Between, Posting, Tracked, Idle
<1> QED
  BY <1>2, <1>4, <1>5, <1>6 DEF Tracking
LEMMA CheckReadyTracks ==
  ASSUME OneSession, TypeOK, Tracking, NEW s \in Sessions, CheckReady(s)
  PROVE  Tracking'
<1> USE DEF ring, process, owner, machine, pump, daemon, engine
<1>1. PICK pc : pc = "begin" /\ Goto(s, pc)
  BY DEF CheckReady
<1>3. /\ session[s] = "idle" /\ ready /\ posts < MaxCmds
      /\ UNCHANGED <<ring, process, machine, pump, routed, cmd, posts>>
  BY DEF CheckReady
<1>2. session'[s] = pc /\ \A t \in Sessions : t = s
  BY <1>1, Moves
<1>4. Expected'
  BY <1>1, <1>2, <1>3 DEF Tracking, Expected
<1>5. Last' /\ RespawnIsNotified'
  BY <1>3 DEF Tracking, Last, Window, At, RespawnIsNotified, Alive
<1>6. Known(s)' /\ Owned(s)' /\ Between(s)' /\ Posting(s)'
  BY <1>1, <1>2, <1>3
  DEF Tracking, Known, Owned, Between, Posting, Tracked, Idle
<1> QED
  BY <1>2, <1>4, <1>5, <1>6 DEF Tracking

LEMMA SetRouteTracks ==
  ASSUME OneSession, TypeOK, Tracking, NEW s \in Sessions, SetRoute(s)
  PROVE  Tracking'
<1> USE DEF ring, process, owner, machine, pump, daemon, engine
<1>1. PICK pc : pc = "post" /\ Goto(s, pc)
  BY DEF SetRoute
<1>3. /\ session[s] = "route" /\ routed' = TRUE
      /\ UNCHANGED <<ring, process, machine, pump, cmd, posts>>
  BY DEF SetRoute
<1>2. session'[s] = pc /\ \A t \in Sessions : t = s
  BY <1>1, Moves
<1>4. Expected'
  BY <1>1, <1>2, <1>3 DEF Tracking, Expected
<1>5. Last' /\ RespawnIsNotified'
  BY <1>3 DEF Tracking, Last, Window, At, RespawnIsNotified, Alive
<1>6. Known(s)' /\ Owned(s)' /\ Between(s)' /\ Posting(s)'
  BY <1>1, <1>2, <1>3
  DEF Tracking, Known, Owned, Between, Posting, Tracked, Idle
<1> QED
  BY <1>2, <1>4, <1>5, <1>6 DEF Tracking

LEMMA CloseRequestTracks ==
  ASSUME OneSession, TypeOK, Tracking, NEW s \in Sessions, CloseRequest(s)
  PROVE  Tracking'
<1> USE DEF ring, process, owner, machine, pump, daemon, engine
<1>1. PICK pc : pc = "postClose" /\ Goto(s, pc)
  BY DEF CloseRequest
<1>3. /\ session[s] = "idle" /\ posts < MaxCmds
      /\ UNCHANGED <<ring, process, machine, pump, routed, cmd, posts>>
  BY DEF CloseRequest
<1>2. session'[s] = pc /\ \A t \in Sessions : t = s
  BY <1>1, Moves
<1>4. Expected'
  BY <1>1, <1>2, <1>3 DEF Tracking, Expected
<1>5. Last' /\ RespawnIsNotified'
  BY <1>3 DEF Tracking, Last, Window, At, RespawnIsNotified, Alive
<1>6. Known(s)' /\ Owned(s)' /\ Between(s)' /\ Posting(s)'
  BY <1>1, <1>2, <1>3
  DEF Tracking, Known, Owned, Between, Posting, Tracked, Idle
<1> QED
  BY <1>2, <1>4, <1>5, <1>6 DEF Tracking

LEMMA FinishOpenTracks ==
  ASSUME OneSession, TypeOK, Tracking, NEW s \in Sessions, FinishOpen(s)
  PROVE  Tracking'
<1> USE DEF ring, process, owner, machine, pump, daemon, engine
<1>1. PICK pc \in {"idle", "unroute"} :
         Goto(s, pc) /\ (pc = "idle" <=> session[s] = "opened")
  BY DEF FinishOpen
<1>3. /\ session[s] \in {"opened", "failed"}
      /\ session[s] = "opened" /\ lifecycle # "closed" => lifecycle' # "closed"
      /\ UNCHANGED <<ring, process, machine, routed, cmd, posts>>
  BY DEF FinishOpen
<1>2. session'[s] = pc /\ \A t \in Sessions : t = s
  BY <1>1, Moves
<1>4. Expected'
  BY <1>1, <1>2, <1>3 DEF Tracking, Expected
<1>5. Last' /\ RespawnIsNotified'
  BY <1>3 DEF Tracking, Last, Window, At, RespawnIsNotified, Alive
<1>6. Known(s)' /\ Owned(s)' /\ Between(s)' /\ Posting(s)'
  BY <1>1, <1>2, <1>3
  DEF Tracking, Known, Owned, Between, Posting, Tracked, Idle
<1> QED
  BY <1>2, <1>4, <1>5, <1>6 DEF Tracking

LEMMA ClearRouteTracks ==
  ASSUME OneSession, TypeOK, Tracking, NEW s \in Sessions, ClearRoute(s)
  PROVE  Tracking'
<1> USE DEF ring, process, owner, machine, pump, daemon, engine
<1>1. PICK pc : pc = "idle" /\ Goto(s, pc)
  BY DEF ClearRoute
<1>3. /\ session[s] = "unroute" /\ routed' = FALSE
      /\ UNCHANGED <<ring, process, machine, pump, cmd, posts>>
  BY DEF ClearRoute
<1>2. session'[s] = pc /\ \A t \in Sessions : t = s
  BY <1>1, Moves
<1>4. Expected'
  BY <1>1, <1>2, <1>3 DEF Tracking, Expected
<1>5. Last' /\ RespawnIsNotified'
  BY <1>3 DEF Tracking, Last, Window, At, RespawnIsNotified, Alive
<1>6. Known(s)' /\ Owned(s)' /\ Between(s)' /\ Posting(s)'
  BY <1>1, <1>2, <1>3
  DEF Tracking, Known, Owned, Between, Posting, Tracked, Idle
<1> QED
  BY <1>2, <1>4, <1>5, <1>6 DEF Tracking

LEMMA PostTracks ==
  ASSUME OneSession, TypeOK, Tracking, NEW s \in Sessions, Post(s)
  PROVE  Tracking'
<1> USE DEF ring, process, owner, machine, pump, daemon, engine
<1>3. /\ session[s] \in {"post", "postClose"}
      /\ UNCHANGED <<ring, process, machine, pump, routed>>
  BY DEF Post
<1>1. PICK pc \in {"wait", "waitClose", "failed", "idle"} :
         /\ Goto(s, pc)
         /\ session[s] = "post" <=> pc \in {"wait", "failed"}
         /\ \/ /\ pc \in {"wait", "waitClose"}
               /\ cmd' = [NoCmd EXCEPT !.kind = IF pc = "wait" THEN "open" ELSE "close", !.by = s]
            \/ /\ pc \in {"failed", "idle"} /\ UNCHANGED cmd
               /\ ~(MailboxFree /\ posts < MaxCmds)
  <2>1. CASE session[s] = "post"
    BY <2>1 DEF Post
  <2>2. CASE session[s] = "postClose"
    BY <2>2 DEF Post
  <2> QED
    BY <1>3, <2>1, <2>2
<1>2. session'[s] = pc /\ \A t \in Sessions : t = s
  BY <1>1, Moves
<1>7. /\ pc = "wait" => cmd'.kind = "open"
      /\ pc = "waitClose" => cmd'.kind = "close"
      /\ pc \in {"wait", "waitClose"} =>
            cmd'.by = s /\ cmd'.answer = "none" /\ cmd'.abandoned = FALSE
  BY <1>1 DEF NoCmd
<1>4. Expected'
  BY <1>1, <1>2, <1>3, <1>7 DEF Tracking, Expected
<1>5. Last' /\ RespawnIsNotified'
  BY <1>3 DEF Tracking, Last, Window, At, RespawnIsNotified, Alive
<1>8. Posting(s)' /\ Between(s)'
  BY <1>1, <1>2, <1>3, <1>7 DEF Tracking, Posting, Between
<1>9. Known(s)'
  BY <1>1, <1>2, <1>3, <1>7 DEF Tracking, Known, Tracked, Idle
<1>10. Owned(s)'
  BY <1>1, <1>2, <1>3 DEF Tracking, Owned, Between, Posting, MailboxFree, Tracked
<1> QED
  BY <1>2, <1>4, <1>5, <1>8, <1>9, <1>10 DEF Tracking

LEMMA AwaitTracks ==
  ASSUME OneSession, TypeOK, Tracking, NEW s \in Sessions, Await(s)
  PROVE  Tracking'
<1> USE DEF ring, process, owner, machine, pump, daemon, engine
<1>3. /\ session[s] \in {"wait", "waitClose"}
      /\ UNCHANGED <<ring, life, ready, ownerTold, unreserved, deaths, machine, pump, routed,
                     posts>>
  BY DEF Await
<1>1. PICK pc \in {"opened", "failed", "idle"} :
         /\ Goto(s, pc)
         /\ session[s] = "wait" <=> pc \in {"opened", "failed"}
         /\ \/ /\ cmd.by = s /\ cmd.answer # "none" /\ cmd' = NoCmd /\ UNCHANGED openFailed
               /\ pc = "failed" => cmd.answer # "ok"
            \/ /\ cmd.by # s /\ UNCHANGED cmd /\ pc # "opened"
               /\ openFailed' = (openFailed \/ session[s] = "wait")
            \/ /\ cmd.by = s /\ cmd.answer = "none" /\ pc # "opened"
               /\ cmd' = [cmd EXCEPT !.abandoned = TRUE, !.by = "nobody"]
               /\ openFailed' = (openFailed \/ session[s] = "wait")
  <2>1. CASE session[s] = "wait"
    BY <2>1 DEF Await
  <2>2. CASE session[s] = "waitClose"
    BY <2>2 DEF Await
  <2> QED
    BY <1>3, <2>1, <2>2
<1>2. session'[s] = pc /\ \A t \in Sessions : t = s
  BY <1>1, Moves
<1>7. cmd \in Commands
  BY DEF TypeOK, DaemonType
<1>4. Expected'
  <2>1. CASE cmd' = NoCmd
    BY <2>1 DEF Expected, NoCmd
  <2>2. CASE cmd.by # s /\ UNCHANGED cmd /\ openFailed' = (openFailed \/ session[s] = "wait")
    BY <1>2, <1>3, <2>2 DEF Tracking, Expected
  <2>3. CASE /\ cmd' = [cmd EXCEPT !.abandoned = TRUE, !.by = "nobody"]
             /\ cmd.by = s /\ openFailed' = (openFailed \/ session[s] = "wait")
    <3>1. cmd'.kind = cmd.kind /\ cmd'.abandoned
      BY <1>7, <2>3 DEF Commands
    <3> QED
      BY <1>2, <1>3, <2>3, <3>1 DEF Tracking, Expected
  <2> QED
    BY <1>1, <2>1, <2>2, <2>3
<1>5. openFailed => openFailed'
  BY <1>1
<1>6. Last' /\ RespawnIsNotified'
  BY <1>3, <1>5 DEF Tracking, Last, Window, At, RespawnIsNotified, Alive
<1>8. Posting(s)'
  BY <1>1, <1>2 DEF Posting
<1>11. Between(s)'
  <2>1. NoCmd.answer = "none"
            /\ [cmd EXCEPT !.abandoned = TRUE, !.by = "nobody"].answer = cmd.answer
    BY <1>7 DEF NoCmd, Commands
  <2> QED
    BY <1>1, <1>2, <1>3, <2>1 DEF Tracking, Between
<1>9. Known(s)'
  BY <1>1, <1>2, <1>3, <1>5 DEF Tracking, Known, Tracked, Idle
<1>10. Owned(s)'
  BY <1>1, <1>2, <1>3, <1>5 DEF Tracking, Owned, Between, Tracked
<1> QED
  BY <1>2, <1>4, <1>6, <1>8, <1>9, <1>10, <1>11 DEF Tracking

\* The child.  No session moves, but its call may be answered.
LEMMA OpenCommandTracks == ASSUME OneSession, IInv, Tracking, OpenCommand PROVE Tracking'
<1> USE DEF ring, pump
<1>1. /\ Alive /\ ready /\ cmd.kind = "open" /\ cmd.answer = "none"
      /\ \/ ui = "closed" /\ evtAck = evtSeq /\ ui' = "open" /\ cmd' = [cmd EXCEPT !.answer = "ok"]
            /\ (unreserved' \/ (lifecycle # "closed" /\ routed))
         \/ ui' = ui /\ cmd' = [cmd EXCEPT !.answer = "failed"] /\ unreserved' = unreserved
      /\ UNCHANGED <<ring, life, ready, ownerTold, openFailed, pump, routed, session, posts>>
  BY DEF OpenCommand, Received, Answer, MayOpen, Drained
<1>2. cmd'.kind = "open" /\ cmd'.by = cmd.by /\ cmd'.abandoned = cmd.abandoned
          /\ cmd'.answer # "none"
  BY <1>1 DEF IInv, TypeOK, DaemonType, Commands
<1>3. ui' = "open" => cmd'.answer = "ok" \/ ui = "open"
  BY <1>1 DEF IInv, TypeOK, DaemonType, Commands
<1>4. Expected'
  BY <1>1, <1>2 DEF Tracking, Expected
<1>5. Last' /\ RespawnIsNotified'
  <2>1. Last'
    BY <1>1 DEF Tracking, Last, Window, At, Alive, IInv, TypeOK, RingType
  <2> QED
    BY <1>1, <2>1 DEF RespawnIsNotified, Alive
<1>6. ASSUME NEW s \in Sessions PROVE Known(s)' /\ Owned(s)' /\ Between(s)' /\ Posting(s)'
  <2>1. Known(s) /\ Posting(s)
    BY DEF Tracking
  <2>2. Owned(s)' /\ Between(s)' /\ Posting(s)'
    BY <1>1, <2>1 DEF Owned, Between, Posting, Alive
  <2>3. Known(s)'
    <3>1. CASE ui = "closed" /\ evtAck = evtSeq /\ ui' = "open" /\ (unreserved'
              \/ (lifecycle # "closed" /\ routed))
      <4>1. (cmd.by \in Sessions /\ session[cmd.by] = "wait") \/ openFailed
                \/ life \notin {"alive", "dead"}
        BY <1>1 DEF Tracking, Expected
      <4>2. cmd.by \in Sessions => cmd.by = s
        BY DEF OneSession
      <4> QED
        BY <1>1, <1>2, <1>3, <3>1, <4>1, <4>2 DEF Known, Tracked, Idle
    <3>2. CASE ui' = ui /\ cmd' = [cmd EXCEPT !.answer = "failed"] /\ unreserved' = unreserved
      BY <1>1, <2>1, <3>2 DEF Known, Tracked, Idle
    <3> QED
      BY <1>1, <3>1, <3>2
  <2> QED
    BY <2>2, <2>3
<1> QED
  BY <1>4, <1>5, <1>6 DEF Tracking

\* A step of the child's close, whatever it publishes, does not open a window.
LEMMA ChildTracks ==
  ASSUME IInv, Tracking, Alive, Last',
         UNCHANGED <<process, pump, routed, session, posts>>,
         Idle => Idle', ui = "closed" => ui' = "closed",
         \/ UNCHANGED cmd
         \/ cmd.kind = "close" /\ cmd'.kind = "close"
  PROVE  Tracking'
<1> USE DEF process, pump
<1>1. Expected'
  BY DEF Tracking, Expected
<1>2. RespawnIsNotified'
  BY DEF RespawnIsNotified, Alive
<1>3. ASSUME NEW s \in Sessions PROVE Known(s)' /\ Owned(s)' /\ Between(s)' /\ Posting(s)'
  <2>1. Known(s) /\ Posting(s)
    BY DEF Tracking
  <2>2. Owned(s)' /\ Between(s)' /\ Posting(s)'
    BY <2>1 DEF Owned, Between, Posting, Alive
  <2>3. Known(s)'
    BY <2>1 DEF Known, Tracked
  <2> QED
    BY <2>2, <2>3
<1> QED
  BY <1>1, <1>2, <1>3 DEF Tracking

LEMMA BeginCloseTracks ==
  ASSUME IInv, Tracking, Alive, BeginClose,
         UNCHANGED <<process, pump, routed, session, posts>>,
         \/ UNCHANGED cmd
         \/ cmd.kind = "close" /\ cmd'.kind = "close"
  PROVE  Tracking'
<1> USE DEF ring, process, machine
<1>1. CASE ui # "open"
  <2>1. UNCHANGED <<ring, machine>>
    BY <1>1 DEF BeginClose
  <2>2. Last'
    BY <2>1 DEF Tracking, Last, Window, At, Alive
  <2> QED
    BY <2>1, <2>2, ChildTracks DEF Idle
<1>2. CASE ui = "open"
  <2>1. cycle \in Nat /\ posts \in 0 .. MaxCmds /\ MaxCmds \in Nat /\ cycle + 1 <= posts
    BY <1>2, UiBoundsAssumption DEF IInv, TypeOK, MachineType, DaemonType, Counted
  <2>2. [kind |-> "closed", cycle |-> cycle + 1] \in Events
    BY <2>1 DEF Events
  <2>3. PICK e \in Events : e = [kind |-> "closed", cycle |-> cycle + 1]
    BY <2>2
  <2>4. e.kind = "closed" /\ ui' = "closing" /\ Publish(<<e>>)
    BY <1>2, <2>3 DEF BeginClose
  <2>5. Window' = Window \cup {evtSeq + 1} /\ slot'[evt_slot_index(evtSeq + 1)] = e
    BY <1>2, <2>4, Sends DEF IInv, TypeOK, Facts
  <2>6. Window = {}
    <3>1. evtSeq = evtAck /\ evtAck \in Nat
      BY <1>2 DEF IInv, Facts, Room, TypeOK, RingType
    <3> QED
      BY <3>1 DEF Window
  <2>7. Last'
    BY <2>4, <2>5, <2>6 DEF Last, At, Completions
  <2> QED
    BY <1>2, <2>4, <2>7, ChildTracks DEF Idle
<1> QED
  BY <1>1, <1>2

LEMMA CloseTracks ==
  ASSUME IInv, Tracking, CloseCommand \/ WindowClosed
  PROVE  Tracking'
<1>1. CASE CloseCommand
  <2>1. /\ Alive /\ BeginClose /\ UNCHANGED <<process, pump, routed, session, posts>>
        /\ cmd.kind = "close" /\ cmd' = [cmd EXCEPT !.answer = "ok"]
    BY <1>1 DEF CloseCommand, Received, Answer
  <2>2. cmd'.kind = "close"
    BY <2>1 DEF IInv, TypeOK, DaemonType, Commands
  <2> QED
    BY <2>1, <2>2, BeginCloseTracks
<1>2. CASE WindowClosed
  BY <1>2, BeginCloseTracks DEF WindowClosed, daemon
<1> QED
  BY <1>1, <1>2

LEMMA TickTracks == ASSUME IInv, Tracking, Tick PROVE Tracking'
<1> USE DEF ring, process, machine, daemon
<1>1. Alive /\ UNCHANGED <<process, pump, daemon>>
  BY DEF Tick
<1>2. ASSUME NEW c \in Completions, ui = "closing", FinishClose(c) PROVE Tracking'
  <2>1. [kind |-> c, cycle |-> cycle] \in Events
    BY <1>2, UiBoundsAssumption DEF IInv, TypeOK, MachineType, DaemonType, Counted, Events
  <2>2. PICK e \in Events : e = [kind |-> c, cycle |-> cycle]
    BY <2>1
  <2>3. Publish(<<e>>) /\ ui' = "closed"
    BY <1>2, <2>2 DEF FinishClose
  <2>4. /\ evtSeq' = evtSeq + 1 /\ Window' = Window \cup {evtSeq + 1}
        /\ \A q \in Window : q = evtSeq /\ At(q)' = At(q)
    BY <1>2, <2>3, Sends DEF IInv, TypeOK, Facts
  <2>5. \A q \in Window : At(q).kind \notin Completions
    BY <1>1, <1>2, <2>4 DEF Tracking, Last
  <2>6. Last'
    BY <2>3, <2>4, <2>5 DEF Last
  <2> QED
    BY <1>1, <1>2, <2>3, <2>6, ChildTracks DEF Idle
<1>3. CASE RetryPublication
  <2>1. UNCHANGED <<evtSeq, evtAck, outbox, slot>>
    BY <1>3, PublishesNothing DEF RetryPublication, IInv, Facts, Room, TypeOK
  <2>2. UNCHANGED ui
    BY <1>3 DEF RetryPublication
  <2>3. Last'
    BY <1>1, <2>1, <2>2 DEF Tracking, Last, Window, At, Alive
  <2> QED
    BY <1>1, <2>1, <2>2, <2>3, ChildTracks DEF Idle
<1> QED
  BY <1>2, <1>3 DEF Tick, Completions

LEMMA CloseTimeoutTracks == ASSUME IInv, Tracking, CloseTimeout PROVE Tracking'
<1> USE DEF ring, process, daemon
<1>1. Alive /\ UNCHANGED <<ring, process, pump, daemon, ui>>
  BY DEF CloseTimeout
<1>2. Last'
  BY <1>1 DEF Tracking, Last, Window, At, Alive
<1> QED
  BY <1>1, <1>2, ChildTracks DEF Idle

\* The pump.  Completing events leaves a window's owner known, and its last event ends it.
LEMMA PollClosedTracks == ASSUME IInv, Tracking, PollClosed PROVE Tracking'
<1> USE DEF process, machine, daemon
<1>1. /\ life = "alive" /\ evtAck < evtSeq /\ lifecycle' = "closing"
          /\ evtAck' \in {evtAck, evtAck + 1}
      /\ UNCHANGED <<evtSeq, slot, process, machine, daemon>>
  BY DEF PollClosed
<1>2. evtAck \in Nat /\ evtSeq \in Nat
  BY DEF IInv, TypeOK, RingType
<1>3. Expected' /\ RespawnIsNotified'
  BY <1>1 DEF Tracking, Expected, RespawnIsNotified
<1>4. Last'
  <2>1. PICK b \in Nat, n \in Nat : evtAck' = b /\ evtSeq = n /\ (evtAck = b \/ b = evtAck + 1)
    BY <1>1, <1>2
  <2>2. \A q \in b + 1 .. n : q \in Window
    BY <1>2, <2>1 DEF Window
  <2>3. Window' = b + 1 .. n /\ evtSeq' = evtSeq /\ ui' = ui /\ Alive /\ \A q : At(q)' = At(q)
    BY <1>1, <2>1 DEF Window, At, Alive
  <2> QED
    BY <2>2, <2>3 DEF Tracking, Last
<1>5. ASSUME NEW s \in Sessions PROVE Known(s)' /\ Owned(s)' /\ Between(s)' /\ Posting(s)'
  <2>1. Known(s) /\ Posting(s) /\ ~Idle
    BY <1>1, <1>2 DEF Tracking, Idle
  <2> QED
    BY <1>1, <2>1 DEF Known, Owned, Between, Posting, Tracked
<1> QED
  BY <1>3, <1>4, <1>5 DEF Tracking

LEMMA PollDoneTracks == ASSUME IInv, Tracking, PollDone PROVE Tracking'
<1> USE DEF process, machine
<1>1. /\ life = "alive" /\ evtAck < evtSeq /\ head.kind \in Completions /\ evtAck' = evtAck + 1
      /\ UNCHANGED <<evtSeq, slot, process, machine, cmd, session, posts>>
  BY DEF PollDone
<1>2. evtAck \in Nat /\ evtSeq \in Nat /\ evtAck + 1 \in Window /\ head = At(evtAck + 1)
  BY <1>1 DEF IInv, TypeOK, RingType, Window, At, head
<1>3. Expected' /\ RespawnIsNotified'
  BY <1>1 DEF Tracking, Expected, RespawnIsNotified
<1>4. evtAck + 1 = evtSeq /\ ui = "closed"
  BY <1>1, <1>2 DEF Tracking, Last, Alive
<1>5. Idle' /\ Last'
  BY <1>1, <1>2, <1>4 DEF Idle, Last, Window
<1>6. ASSUME NEW s \in Sessions PROVE Known(s)' /\ Owned(s)' /\ Between(s)' /\ Posting(s)'
  BY <1>1, <1>5 DEF Tracking, Known, Owned, Between, Posting
<1> QED
  BY <1>3, <1>5, <1>6 DEF Tracking

LEMMA AckSafepointTracks ==
  ASSUME IInv, Tracking, NEW n \in notices, AckSafepoint(n)
  PROVE  Tracking'
<1> USE DEF process, machine, daemon
<1>1. /\ UNCHANGED <<evtSeq, slot, process, machine, lifecycle, daemon>>
      /\ UNCHANGED evtAck \/ (evtAck' = evtAck + 1 /\ evtAck < evtSeq)
  <2>1. evtAck \in Nat /\ evtSeq \in Nat /\ n.seq \in Nat
    BY DEF IInv, TypeOK, RingType, EngineType, Notices
  <2> QED
    BY <2>1 DEF AckSafepoint
<1>2. evtAck \in Nat /\ evtSeq \in Nat
  BY DEF IInv, TypeOK, RingType
<1>3. Expected' /\ RespawnIsNotified'
  BY <1>1 DEF Tracking, Expected, RespawnIsNotified
<1>4. Last'
  BY <1>1, <1>2 DEF Tracking, Last, Window, At, Alive
<1>5. ASSUME NEW s \in Sessions PROVE Known(s)' /\ Owned(s)' /\ Between(s)' /\ Posting(s)'
  <2>1. Known(s) /\ Owned(s) /\ Between(s) /\ Posting(s) /\ (Idle => Idle')
    BY <1>1, <1>2 DEF Tracking, Idle
  <2> QED
    BY <1>1, <2>1 DEF Known, Owned, Between, Posting, Tracked
<1> QED
  BY <1>3, <1>4, <1>5 DEF Tracking

\* A step of the child's process that neither resets nor begins a life.
LEMMA QuietTracks ==
  ASSUME IInv, Tracking,
         UNCHANGED <<ring, ui, owner, lifecycle, routed, cmd, session, posts>>,
         \/ life' = life /\ (life # "reset" \/ ready' = ready)
         \/ life = "alive" /\ life' = "dead"
         \/ life = "quitting" /\ life' = "gone"
  PROVE  Tracking'
<1> USE DEF ring, owner
<1>1. Expected' /\ RespawnIsNotified'
  BY DEF Tracking, Expected, RespawnIsNotified
<1>2. Last'
  BY DEF Tracking, Last, Window, At, Alive
<1>3. ASSUME NEW s \in Sessions PROVE Known(s)' /\ Owned(s)' /\ Between(s)' /\ Posting(s)'
  <2>1. Known(s) /\ Owned(s) /\ Between(s) /\ Posting(s) /\ (Idle' <=> Idle)
            /\ (Tracked' <=> Tracked)
    BY DEF Tracking, Idle, Tracked
  <2> QED
    BY <2>1 DEF Known, Owned, Between, Posting
<1> QED
  BY <1>1, <1>2, <1>3 DEF Tracking

LEMMA LifeTracks ==
  ASSUME IInv, Tracking, Die \/ BecomeReady \/ Reaped \/ UNCHANGED vars
  PROVE  Tracking'
<1> USE DEF ring, process, owner, machine, pump, daemon, vars
<1>1. /\ UNCHANGED <<ring, ui, owner, lifecycle, routed, cmd, session, posts>>
      /\ \/ life' = life /\ (life # "reset" \/ ready' = ready)
         \/ life = "alive" /\ life' = "dead"
         \/ life = "quitting" /\ life' = "gone"
  BY DEF Die, BecomeReady, Reaped
<1> QED
  BY <1>1, QuietTracks

\* The end of the watchdog: nobody is told of anything any more.
LEMMA EndTracks ==
  ASSUME IInv, Tracking, Shutdown \/ GiveUp \/ ResetFails
  PROVE  Tracking'
<1>1. life' \in {"quitting", "gone"} /\ evtAck' = evtSeq' /\ UNCHANGED <<session, posts>>
      /\ (UNCHANGED cmd \/ cmd' = NoCmd)
  BY DEF Shutdown, GiveUp, ResetFails, FinalDrain, ResetRegion
<1>2. NoCmd.kind = "none"
  BY DEF NoCmd
<1>3. Expected'
  <2>1. CASE UNCHANGED cmd
    BY <1>1, <2>1 DEF Tracking, Expected
  <2>2. CASE cmd' = NoCmd
    BY <1>2, <2>2 DEF Expected
  <2> QED
    BY <1>1, <2>1, <2>2
<1>4. Last' /\ RespawnIsNotified'
  <2>1. PICK n \in Nat : evtSeq' = n
    BY DEF IInv, TypeOK, RingType, Shutdown, GiveUp, ResetFails, FinalDrain, ResetRegion
  <2>3. n + 1 .. n = {}
    OBVIOUS
  <2>2. Window' = {}
    BY <1>1, <2>1, <2>3 DEF Window
  <2> QED
    BY <1>1, <2>2 DEF Last, RespawnIsNotified
<1>5. ASSUME NEW s \in Sessions PROVE Known(s)' /\ Owned(s)' /\ Between(s)' /\ Posting(s)'
  BY <1>1 DEF Tracking, Known, Owned, Between, Posting
<1> QED
  BY <1>3, <1>4, <1>5 DEF Tracking

LEMMA ResetAfterChildExitTracks ==
  ASSUME OneSession, IInv, Tracking, ResetAfterChildExit
  PROVE  Tracking'
<1> USE DEF owner
<1>1. /\ life = "dead" /\ life' = IF lifecycle # "closed" THEN "reset" ELSE "respawning"
      /\ evtSeq' = 0 /\ evtAck' = 0 /\ cmd' = NoCmd /\ ready' = FALSE
      /\ UNCHANGED <<owner, ui, routed, session, posts>>
  BY DEF ResetAfterChildExit, ResetRegion, closed_visible_ui, machine
<1>2. NoCmd.kind = "none" /\ NoCmd.answer = "none"
  BY DEF NoCmd
<1>3. Expected' /\ Last'
  BY <1>1, <1>2 DEF Expected, Last, Alive
<1>4. \A s \in Sessions : Known(s)
  BY DEF Tracking
<1>5. ASSUME NEW s \in Sessions
      PROVE  RespawnIsNotified' /\ Known(s)' /\ Owned(s)' /\ Between(s)' /\ Posting(s)'
  <2>1. Known(s) /\ Posting(s)
    BY DEF Tracking
  <2> QED
    BY <1>1, <1>2, <2>1 DEF Known, Owned, Between, Posting, RespawnIsNotified, Tracked, Idle
<1> QED
  BY <1>3, <1>5 DEF Tracking, OneSession

LEMMA NotifyRespawnTracks ==
  ASSUME OneSession, IInv, Tracking, NotifyRespawn
  PROVE  Tracking'
<1>1. /\ life = "reset" /\ life' = "respawning" /\ ownerTold' = routed
      /\ UNCHANGED <<openFailed, unreserved, ui, cmd, session, posts>>
  BY DEF NotifyRespawn, machine
<1>2. Expected' /\ Last'
  BY <1>1 DEF Tracking, Expected, Last, Alive
<1>3. ASSUME NEW s \in Sessions
      PROVE  RespawnIsNotified' /\ Known(s)' /\ Owned(s)' /\ Between(s)' /\ Posting(s)'
  <2>1. Owned(s) /\ Posting(s)
    BY DEF Tracking
  <2> QED
    BY <1>1, <2>1 DEF Known, Owned, Between, Posting, RespawnIsNotified, Tracked
<1> QED
  BY <1>2, <1>3 DEF Tracking, OneSession

LEMMA SpawnTracks == ASSUME IInv, Tracking, Spawn PROVE Tracking'
<1>1. /\ life = "respawning" /\ life' = "alive" /\ ui' = "closed"
      /\ openFailed' = (cmd.kind = "open" /\ cmd.abandoned)
      /\ UNCHANGED <<evtSeq, evtAck, slot, cmd, session, posts>>
  BY DEF Spawn, ring, daemon
<1>2. evtSeq = 0 /\ evtAck = 0
  BY <1>1 DEF IInv, TypeOK, RingType, Facts, Fresh
<1>3. Idle' /\ Last'
  BY <1>1, <1>2 DEF Idle, Last, Window
<1>4. Expected' /\ RespawnIsNotified'
  BY <1>1 DEF Tracking, Expected, RespawnIsNotified
<1>5. ASSUME NEW s \in Sessions PROVE Known(s)' /\ Owned(s)' /\ Between(s)' /\ Posting(s)'
  BY <1>1, <1>3 DEF Tracking, Known, Owned, Between, Posting
<1> QED
  BY <1>3, <1>4, <1>5 DEF Tracking

\* All steps together.
LEMMA StepTracks ==
  ASSUME OneSession
  PROVE  IInv /\ Tracking /\ [Next]_vars => Tracking'
<1> SUFFICES ASSUME IInv, Tracking, [Next]_vars PROVE Tracking'
  OBVIOUS
<1>1. TypeOK
  BY DEF IInv
<1>2. CASE OpenCommand \/ CloseCommand \/ WindowClosed \/ CloseTimeout \/ Tick
  BY <1>2, OpenCommandTracks, CloseTracks, CloseTimeoutTracks, TickTracks
<1>3. ASSUME NEW s \in Sessions, CheckReady(s) \/ CloseRequest(s) \/ SessionStep(s)
      PROVE  Tracking'
  BY <1>1, <1>3, CheckReadyTracks, CloseRequestTracks, BeginOpenTracks, SetRouteTracks, PostTracks,
     AwaitTracks, FinishOpenTracks, ClearRouteTracks DEF SessionStep
<1>4. CASE PollClosed \/ PollDone \/ \E n \in notices : AckSafepoint(n)
  BY <1>4, PollClosedTracks, PollDoneTracks, AckSafepointTracks
<1>5. CASE ResetAfterChildExit \/ NotifyRespawn \/ Spawn
  BY <1>5, ResetAfterChildExitTracks, NotifyRespawnTracks, SpawnTracks
<1>6. CASE Die \/ BecomeReady \/ Reaped \/ UNCHANGED vars
  BY <1>6, LifeTracks
<1>7. CASE Shutdown \/ GiveUp \/ ResetFails
  BY <1>7, EndTracks
<1> QED
  BY <1>2, <1>3, <1>4, <1>5, <1>6, <1>7 DEF Next

LEMMA InitTracks == Init => Tracking
<1> SUFFICES ASSUME Init PROVE Tracking
  OBVIOUS
<1>1. Expected
  BY DEF Init, Expected, NoCmd
<1>2. Last /\ RespawnIsNotified
  BY DEF Init, Last, Window, RespawnIsNotified
<1>3. \A s \in Sessions : Known(s) /\ Owned(s) /\ Between(s) /\ Posting(s)
  BY DEF Init, Known, Owned, Between, Posting, Idle
<1> QED
  BY <1>1, <1>2, <1>3 DEF Tracking

\* What the owner of a window learns of its end is what happened, and once: for one
\* session (two can clear each other's route) and any number of commands and deaths.
THEOREM OwnerLearnsTheEnd ==
  ASSUME OneSession
  PROVE  Spec => []OwnerToldTruth
<1>1. Spec => []Tracking
  BY InitTracks, StepTracks, Invariant, PTL DEF Spec
<1>2. Tracking => RespawnIsNotified
  BY DEF Tracking
<1> QED
  BY <1>1, <1>2, SavedAndAskedOnce, PTL DEF OwnerToldTruth

=============================================================================
