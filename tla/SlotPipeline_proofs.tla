------------------------- MODULE SlotPipeline_proofs -------------------------
(***************************************************************************)
(* Proofs about SlotPipeline, for any number of slots and any bounds.      *)
(*                                                                         *)
(* The safety properties hold of a child that is never replaced, and of    *)
(* effect children that are replaced after the host has run out of slots.  *)
(* The remaining cases are false, see the README.                          *)
(***************************************************************************)
EXTENDS SlotPipeline, TLAPS

SafeMode == MaxRespawns = 0 \/ (~InOrder /\ Settled)

Active == childPc \in {"reading", "processing", "writing", "tagged"}

\* At most Slots blocks are unfinished, and a slot being filled is a free one.
Window ==
    /\ seqRequest <= seqDone + Slots
    /\ hostPc = "writing" => SlotFree

NeverDead == MaxRespawns = 0 => childPc # "dead"

\* The child works on unfinished blocks only.  One that is polling has finished
\* everything counted in seqDone, or replaces a dead one and the host has stalled.
ChildAhead ==
    /\ Active => seqDone < childSeq /\ childSeq <= upTo
    /\ childPc = "polling" => last = seqDone \/ (~InOrder /\ ~SlotFree)

\* A replacement brings a stalled host forward by finishing the newest block.
CatchUp ==
    /\ ~SlotFree
    /\ (childPc = "polling" /\ ~InOrder) \/ (Active /\ childSeq = seqRequest)

\* A tag beyond seqDone is this child's latest, or was left by a dead one.
TagsBehind ==
    \A i \in SlotIds : seqTag[i] > seqDone =>
        \/ childPc = "tagged" /\ seqTag[i] = childSeq
        \/ childPc = "dead"
        \/ CatchUp

TaggedIsOut ==
    childPc = "tagged" =>
        seqTag[slot_index(childSeq)] = childSeq /\ output[slot_index(childSeq)] = childSeq

CopyingIsReady == hostPc = "copying" => Ready

\* Of the submitted blocks, the last Slots ones are in their slots, but for the
\* one that is being overwritten.
InputHeld ==
    \A q \in 1 .. seqRequest :
        seqRequest + (IF hostPc = "writing" THEN 1 ELSE 0) < q + Slots
            => input[slot_index(q)] = q

\* What the host may still play is complete: the block it asks for, and the newest
\* one unless the host cannot go on to it.
OutputHeld ==
    \A q \in 1 .. seqRequest :
        q >= target /\ seqTag[slot_index(q)] = q
            => output[slot_index(q)] = q \/ (q = seqRequest /\ ~SlotFree)

IInv ==
    /\ TypeOK /\ Window /\ NeverDead /\ ChildAhead /\ TagsBehind /\ TaggedIsOut
    /\ CopyingIsReady /\ InputHeld /\ OutputHeld /\ ConsumesOwnBlock /\ FreshIsOwnBlock

-----------------------------------------------------------------------------
(* Slot numbers: all the proofs use of them. *)

\* Every sequence number has a slot.
LEMMA SlotIndexType == ASSUME NEW q \in Int PROVE slot_index(q) \in SlotIds
  BY SlotsAssumption DEF slot_index, SlotIds

\* A sequence number is a multiple of Slots plus the number of its slot.
LEMMA Division ==
  ASSUME NEW q \in Nat
  PROVE  q \div Slots \in Int /\ q = Slots * (q \div Slots) + (q % Slots)
  BY SlotsAssumption

\* Two blocks that are less than Slots apart have different slots.
LEMMA SlotsDiffer ==
  ASSUME NEW a \in Nat, NEW b \in Nat, a < b, b < a + Slots
  PROVE  slot_index(a) # slot_index(b)
<1> DEFINE x == a \div Slots
           y == b \div Slots
<1>1. x \in Int /\ y \in Int /\ a = Slots * x + slot_index(a) /\ b = Slots * y + slot_index(b)
  BY Division DEF slot_index
<1>2. SUFFICES ASSUME slot_index(a) = slot_index(b) PROVE FALSE
  OBVIOUS
<1> HIDE DEF x, y
<1>3. Slots \in Nat /\ Slots >= 2 /\ slot_index(a) \in Int
  BY SlotsAssumption, SlotIndexType DEF SlotIds
<1>4. Slots * x < Slots * y /\ Slots * y < Slots * x + Slots
  BY <1>1, <1>2, <1>3
<1>5. x < y /\ y < x + 1
  <2>1. CASE y <= x
    BY <2>1, <1>1, <1>3, <1>4
  <2>2. CASE y >= x + 1
    BY <2>2, <1>1, <1>3, <1>4
  <2> QED BY <2>1, <2>2, <1>1
<1> QED BY <1>1, <1>5

\* The submit guard, without its case for the first blocks.
LEMMA SlotFreeBound == TypeOK => (SlotFree <=> seqRequest + 1 <= seqDone + Slots)
  BY SlotsAssumption DEF TypeOK, SlotFree, newSeq

-----------------------------------------------------------------------------
(* Type correctness. *)

\* The fresh region has the right types.
LEMMA TypeInit == Init => TypeOK
  BY SlotsAssumption DEF Init, TypeOK, Torn

\* No step of the host, the child or the watchdog breaks the types.
LEMMA TypeStep == TypeOK /\ [Next]_vars => TypeOK'
<1> SUFFICES ASSUME TypeOK, [Next]_vars PROVE TypeOK'
  OBVIOUS
<1> USE SlotsAssumption DEF TypeOK, Torn, hostVars, childVars
<1>1. CASE BeginSubmit
  BY <1>1 DEF BeginSubmit
<1>2. CASE Publish
  <2>1. newSeq \in Nat /\ seqRequest' = newSeq /\ newSeq = seqRequest + 1
    BY <1>2 DEF Publish, newSeq
  <2>2. input' \in [SlotIds -> Nat \cup {Torn}]
    BY <1>2, <2>1 DEF Publish
  <2>3. seqTag' \in [SlotIds -> 0 .. seqRequest']
    BY <1>2, <2>1 DEF Publish
  <2> QED BY <1>2, <2>1, <2>2, <2>3 DEF Publish
<1>3. CASE Stall
  BY <1>3 DEF Stall
<1>4. CASE BeginPlay
  BY <1>4 DEF BeginPlay
<1>5. CASE FinishPlay
  <2>1. target \in Int
    BY DEF target
  <2>2. output[slot_index(target)] \in Nat \cup {Torn}
    BY <2>1, SlotIndexType
  <2> QED BY <1>5, <2>1, <2>2 DEF FinishPlay
<1>6. CASE RepeatPrevious
  BY <1>6 DEF RepeatPrevious
<1>7. CASE Poll
  BY <1>7 DEF Poll, FirstSeq
<1>8. CASE FinishRead
  <2>1. input[slot_index(childSeq)] \in Nat \cup {Torn}
    BY SlotIndexType
  <2> QED BY <1>8, <2>1 DEF FinishRead
<1>9. CASE BeginWrite
  BY <1>9 DEF BeginWrite
<1>10. CASE Tag
  BY <1>10 DEF Tag
<1>11. CASE Done
  BY <1>11 DEF Done
<1>12. CASE Crash
  BY <1>12 DEF Crash
<1>13. CASE Respawn
  BY <1>13 DEF Respawn, ResumePoint
<1>14. CASE UNCHANGED vars
  BY <1>14 DEF vars
<1> QED
  BY <1>1, <1>2, <1>3, <1>4, <1>5, <1>6, <1>7, <1>8, <1>9, <1>10, <1>11, <1>12, <1>13, <1>14
  DEF Next, HostStep, ChildStep

\* The sequence numbers stay in order and every tag, snapshot and cursor stays at or
\* below seq_request, whatever child runs and however often it is replaced.
THEOREM TypeCorrect == Spec => []TypeOK
  BY TypeInit, TypeStep, PTL DEF Spec

-----------------------------------------------------------------------------
(* The inductive invariant. *)

\* The fresh region satisfies the inductive invariant.
LEMMA InvInit == Init => IInv
<1> SUFFICES ASSUME Init PROVE IInv
  OBVIOUS
<1>1. TypeOK
  BY TypeInit
<1>2. Window /\ NeverDead /\ ChildAhead /\ TaggedIsOut /\ CopyingIsReady
  BY SlotsAssumption DEF Init, Window, NeverDead, ChildAhead, Active, TaggedIsOut, CopyingIsReady
<1>3. TagsBehind
  BY DEF Init, TagsBehind
<1>4. InputHeld /\ OutputHeld /\ ConsumesOwnBlock /\ FreshIsOwnBlock
  BY DEF Init, InputHeld, OutputHeld, ConsumesOwnBlock, FreshIsOwnBlock
<1> QED BY <1>1, <1>2, <1>3, <1>4 DEF IInv

\* The block a child works on and a block the host may still play or has just
\* submitted share a slot only when they are the same block.
LEMMA SameSlotSameBlock ==
  ASSUME TypeOK, Window, ChildAhead, Active,
         NEW q \in 1 .. seqRequest, q >= target,
         slot_index(q) = slot_index(childSeq)
  PROVE  q = childSeq
<1>1. childSeq \in Nat /\ q \in Nat /\ q < childSeq + Slots /\ childSeq < q + Slots
  BY SlotsAssumption DEF TypeOK, Window, ChildAhead, target
<1>2. CASE q < childSeq
  BY <1>1, <1>2, SlotsDiffer
<1>3. CASE childSeq < q
  BY <1>1, <1>3, SlotsDiffer
<1> QED BY <1>1, <1>2, <1>3

\* The host's steps change neither the child's state nor seq_done.
LEMMA HostKeepsChild ==
  ASSUME HostStep
  PROVE  UNCHANGED <<seqDone, seqTag, output, childVars, respawns>>
  BY DEF HostStep, BeginSubmit, Publish, Stall, BeginPlay, FinishPlay, RepeatPrevious, childVars

\* Each step of the audio callback keeps the inductive invariant.
LEMMA HostInv == IInv /\ HostStep => IInv'
<1> SUFFICES ASSUME IInv, HostStep PROVE IInv'
  OBVIOUS
<1>T. TypeOK /\ TypeOK'
  BY TypeStep DEF IInv, Next
<1>U. UNCHANGED <<seqDone, seqTag, output, childPc, childSeq, upTo, last, scratch, respawns>>
  BY HostKeepsChild DEF childVars
<1>C. NeverDead' /\ ConsumesOwnBlock' /\ TaggedIsOut'
  BY <1>U DEF IInv, NeverDead, ConsumesOwnBlock, TaggedIsOut
\* All but Publish leave seq_request alone, and with it what is said of the child.
<1>K. ASSUME seqRequest' = seqRequest
      PROVE  ChildAhead' /\ TagsBehind' /\ OutputHeld'
  <2>1. SlotFree' <=> SlotFree
    BY <1>K, <1>U DEF SlotFree, newSeq
  <2>2. ChildAhead'
    BY <1>U, <2>1 DEF IInv, ChildAhead, Active
  <2>3. TagsBehind'
    BY <1>K, <1>U, <2>1 DEF IInv, TagsBehind, CatchUp, Active
  <2>4. OutputHeld'
    BY <1>K, <1>U, <2>1 DEF IInv, OutputHeld, target
  <2> QED BY <2>2, <2>3, <2>4
<1>1. CASE BeginSubmit
  <2>1. seqRequest' = seqRequest /\ heard' = heard /\ hostPc' = "writing" /\ hostPc = "idle"
    BY <1>1 DEF BeginSubmit
  <2>2. Window'
    BY <1>1, <1>U, <2>1 DEF IInv, Window, BeginSubmit, SlotFree, newSeq
  <2>3. InputHeld'
    <3>1. SUFFICES ASSUME NEW q \in 1 .. seqRequest, seqRequest + 1 < q + Slots
                   PROVE  input'[slot_index(q)] = q
      BY <2>1 DEF InputHeld
    <3>2. slot_index(q) # slot_index(newSeq) /\ slot_index(q) \in SlotIds
      BY <3>1, <1>T, SlotsDiffer, SlotIndexType DEF TypeOK, newSeq
    <3>3. input[slot_index(q)] = q
      BY <2>1, <3>1, <1>T, SlotsAssumption DEF IInv, InputHeld, TypeOK
    <3> QED BY <1>1, <1>T, <3>2, <3>3 DEF BeginSubmit, TypeOK
  <2>4. CopyingIsReady' /\ FreshIsOwnBlock'
    BY <2>1 DEF IInv, CopyingIsReady, FreshIsOwnBlock
  <2> QED BY <1>T, <1>C, <1>K, <2>1, <2>2, <2>3, <2>4 DEF IInv
<1>2. CASE Publish
  <2>1. /\ hostPc = "writing" /\ hostPc' = "playing" /\ heard' = heard
        /\ seqRequest' = seqRequest + 1
        /\ input' = [input EXCEPT ![slot_index(seqRequest + 1)] = seqRequest + 1]
    BY <1>2 DEF Publish, newSeq
  <2>2. SlotFree /\ seqRequest + 1 <= seqDone + Slots
    BY <1>T, <2>1, SlotFreeBound DEF IInv, Window
  <2>3. Window' /\ CopyingIsReady' /\ FreshIsOwnBlock'
    BY <1>U, <2>1, <2>2 DEF IInv, Window, CopyingIsReady, FreshIsOwnBlock
  <2>4. ChildAhead'
    BY <1>U, <2>2 DEF IInv, ChildAhead, Active
  <2>5. TagsBehind'
    BY <1>U, <2>2 DEF IInv, TagsBehind, CatchUp
  <2>6. InputHeld'
    <3>1. SUFFICES ASSUME NEW q \in 1 .. seqRequest + 1, seqRequest + 1 < q + Slots
                   PROVE  input'[slot_index(q)] = q
      BY <2>1 DEF InputHeld
    <3>2. slot_index(q) \in SlotIds
      BY SlotIndexType
    <3>3. CASE q = seqRequest + 1
      BY <3>2, <3>3, <2>1, <1>T DEF TypeOK
    <3>4. CASE q # seqRequest + 1
      <4>1. slot_index(q) # slot_index(seqRequest + 1)
        BY <3>1, <3>4, <1>T, SlotsDiffer DEF TypeOK
      <4>2. input[slot_index(q)] = q
        BY <2>1, <3>1, <3>4, <1>T DEF IInv, InputHeld, TypeOK
      <4> QED BY <2>1, <3>2, <4>1, <4>2, <1>T DEF TypeOK
    <3> QED BY <3>3, <3>4
  <2>7. OutputHeld'
    <3>1. SUFFICES ASSUME NEW q \in 1 .. seqRequest + 1, q >= seqRequest,
                          seqTag[slot_index(q)] = q
                   PROVE  output[slot_index(q)] = q
      BY <1>U, <2>1, <1>T DEF OutputHeld, target, TypeOK
    <3>2. q <= seqRequest
      BY <3>1, <1>T, SlotIndexType DEF TypeOK
    <3> QED BY <3>1, <3>2, <2>2, <1>T DEF IInv, OutputHeld, target, TypeOK
  <2> QED BY <1>T, <1>C, <2>3, <2>4, <2>5, <2>6, <2>7 DEF IInv
<1>3. CASE Stall \/ BeginPlay \/ RepeatPrevious
  <2>1. /\ UNCHANGED <<seqRequest, input, heard>>
        /\ hostPc # "writing" /\ hostPc' # "writing" /\ (hostPc' = "copying" => Ready)
    BY <1>3 DEF Stall, BeginPlay, RepeatPrevious
  <2>2. Window' /\ InputHeld'
    BY <1>U, <2>1 DEF IInv, Window, InputHeld
  <2>3. CopyingIsReady' /\ FreshIsOwnBlock'
    BY <1>U, <2>1 DEF IInv, CopyingIsReady, FreshIsOwnBlock, Ready, target
  <2> QED BY <1>T, <1>C, <1>K, <2>1, <2>2, <2>3 DEF IInv
<1>4. CASE FinishPlay
  <2>1. /\ UNCHANGED <<seqRequest, input>> /\ hostPc = "copying" /\ hostPc' = "idle"
        /\ heard' = [seq |-> target, data |-> output[slot_index(target)]]
    BY <1>4 DEF FinishPlay
  <2>2. Window' /\ InputHeld' /\ CopyingIsReady'
    BY <1>U, <2>1 DEF IInv, Window, InputHeld, CopyingIsReady
  <2>3. FreshIsOwnBlock'
    <3>1. Ready
      BY <2>1 DEF IInv, CopyingIsReady
    <3>2. target \in 1 .. seqRequest /\ target # seqRequest
      BY <3>1, <1>T DEF Ready, target, TypeOK
    <3>3. output[slot_index(target)] = target
      BY <3>1, <3>2 DEF IInv, OutputHeld, Ready
    <3> QED BY <2>1, <3>3 DEF FreshIsOwnBlock
  <2> QED BY <1>T, <1>C, <1>K, <2>1, <2>2, <2>3 DEF IInv
<1> QED BY <1>1, <1>2, <1>3, <1>4 DEF HostStep

\* The child's steps and its replacement change neither the host's state nor the input.
LEMMA ChildKeepsHost ==
  ASSUME ChildStep \/ Crash \/ Respawn
  PROVE  UNCHANGED <<seqRequest, input, hostPc, heard>>
  BY DEF ChildStep, Poll, FinishRead, BeginWrite, Tag, Done, Crash, Respawn, hostVars

\* Each step of the child's audio loop keeps the inductive invariant.
LEMMA ChildInv == IInv /\ ChildStep => IInv'
<1> SUFFICES ASSUME IInv, ChildStep PROVE IInv'
  OBVIOUS
<1>T. TypeOK /\ TypeOK'
  BY TypeStep DEF IInv, Next
<1>U. UNCHANGED <<seqRequest, input, hostPc, heard>>
  BY ChildKeepsHost
<1>N. NeverDead' /\ InputHeld' /\ FreshIsOwnBlock'
  <2>1. childPc' # "dead"
    BY DEF ChildStep, Poll, FinishRead, BeginWrite, Tag, Done
  <2> QED BY <1>U, <2>1 DEF IInv, NeverDead, InputHeld, FreshIsOwnBlock
\* All but Done leave seq_done alone, and with it the window.
<1>K. ASSUME seqDone' = seqDone
      PROVE  Window' /\ (SlotFree' <=> SlotFree)
  BY <1>K, <1>U DEF IInv, Window, SlotFree, newSeq
<1>A. Active => seqDone < childSeq /\ childSeq \in 1 .. seqRequest
  BY <1>T DEF IInv, ChildAhead, TypeOK
<1>1. CASE Poll
  <2>1. /\ childPc = "polling" /\ childPc' = "reading" /\ last < seqRequest
        /\ upTo' = seqRequest /\ childSeq' = FirstSeq
        /\ UNCHANGED <<seqDone, seqTag, output, last, scratch>>
    BY <1>1 DEF Poll
  <2>2. ChildAhead'
    <3>1. seqDone < childSeq' /\ childSeq' <= seqRequest
      <4>1. last = seqDone \/ (~InOrder /\ seqDone + Slots < seqRequest + 1)
        BY <2>1, <1>T, SlotFreeBound, SlotsAssumption DEF IInv, ChildAhead, TypeOK
      <4> QED BY <2>1, <4>1, <1>T, SlotsAssumption DEF FirstSeq, TypeOK
    <3> QED BY <1>U, <2>1, <3>1 DEF ChildAhead
  <2>3. TagsBehind'
    BY <1>U, <1>K, <2>1 DEF IInv, TagsBehind, CatchUp, Active, FirstSeq
  <2>4. TaggedIsOut' /\ ConsumesOwnBlock' /\ CopyingIsReady' /\ OutputHeld'
    BY <1>U, <1>K, <2>1
    DEF IInv, TaggedIsOut, ConsumesOwnBlock, CopyingIsReady, OutputHeld, Ready, target
  <2> QED BY <1>T, <1>N, <1>K, <2>1, <2>2, <2>3, <2>4 DEF IInv
<1>2. CASE FinishRead
  <2>1. /\ childPc = "reading" /\ childPc' = "processing"
        /\ scratch' = input[slot_index(childSeq)]
        /\ UNCHANGED <<seqDone, seqTag, output, childSeq, upTo, last>>
    BY <1>2 DEF FinishRead
  <2>2. ConsumesOwnBlock'
    <3>1. seqRequest + (IF hostPc = "writing" THEN 1 ELSE 0) < childSeq + Slots
      BY <1>T, <1>A, <2>1, SlotFreeBound, SlotsAssumption DEF IInv, Window, Active, TypeOK
    <3>2. input[slot_index(childSeq)] = childSeq
      BY <1>A, <2>1, <3>1 DEF IInv, InputHeld, Active
    <3> QED BY <2>1, <3>2 DEF ConsumesOwnBlock
  <2>3. ChildAhead' /\ TagsBehind'
    BY <1>U, <1>K, <2>1 DEF IInv, ChildAhead, TagsBehind, CatchUp, Active
  <2>4. TaggedIsOut' /\ CopyingIsReady' /\ OutputHeld'
    BY <1>U, <1>K, <2>1 DEF IInv, TaggedIsOut, CopyingIsReady, OutputHeld, Ready, target
  <2> QED BY <1>T, <1>N, <1>K, <2>1, <2>2, <2>3, <2>4 DEF IInv
<1>3. CASE BeginWrite
  <2>1. /\ childPc = "processing" /\ childPc' = "writing"
        /\ output' = [output EXCEPT ![slot_index(childSeq)] = Torn]
        /\ UNCHANGED <<seqDone, seqTag, childSeq, upTo, last, scratch>>
    BY <1>3 DEF BeginWrite
  <2>2. ChildAhead' /\ TagsBehind'
    BY <1>U, <1>K, <2>1 DEF IInv, ChildAhead, TagsBehind, CatchUp, Active
  <2>3. TaggedIsOut' /\ CopyingIsReady' /\ ConsumesOwnBlock'
    BY <1>U, <2>1 DEF IInv, TaggedIsOut, CopyingIsReady, ConsumesOwnBlock, Ready, target
  <2>4. OutputHeld'
    <3>1. SUFFICES ASSUME NEW q \in 1 .. seqRequest, q >= target, seqTag[slot_index(q)] = q
                   PROVE  output'[slot_index(q)] = q \/ (q = seqRequest /\ ~SlotFree)
      BY <1>U, <1>K, <2>1 DEF OutputHeld, target
    <3>2. CASE slot_index(q) = slot_index(childSeq)
      <4>1. q = childSeq
        BY <1>T, <2>1, <3>1, <3>2, SameSlotSameBlock DEF IInv, Active
      <4>2. slot_index(q) \in SlotIds /\ seqTag[slot_index(q)] > seqDone
        BY <1>T, <1>A, <2>1, <3>1, <4>1, SlotIndexType DEF Active
      <4>3. CatchUp
        BY <2>1, <4>2 DEF IInv, TagsBehind
      <4> QED BY <2>1, <4>1, <4>3 DEF CatchUp
    <3>3. CASE slot_index(q) # slot_index(childSeq)
      <4>1. output'[slot_index(q)] = output[slot_index(q)]
        BY <1>T, <2>1, <3>3, SlotIndexType DEF TypeOK
      <4> QED BY <3>1, <4>1 DEF IInv, OutputHeld
    <3> QED BY <3>2, <3>3
  <2> QED BY <1>T, <1>N, <1>K, <2>1, <2>2, <2>3, <2>4 DEF IInv
<1>4. CASE Tag
  <2>1. /\ childPc = "writing" /\ childPc' = "tagged"
        /\ output' = [output EXCEPT ![slot_index(childSeq)] = scratch]
        /\ seqTag' = [seqTag EXCEPT ![slot_index(childSeq)] = childSeq]
        /\ UNCHANGED <<seqDone, childSeq, upTo, last, scratch>>
    BY <1>4 DEF Tag
  <2>2. slot_index(childSeq) \in SlotIds /\ scratch = childSeq
    BY <1>T, <2>1, SlotIndexType DEF IInv, ConsumesOwnBlock, TypeOK
  <2>3. TaggedIsOut' /\ ConsumesOwnBlock'
    BY <1>T, <2>1, <2>2 DEF TaggedIsOut, ConsumesOwnBlock, TypeOK
  <2>4. ChildAhead'
    BY <1>U, <1>K, <2>1 DEF IInv, ChildAhead, Active
  <2>5. TagsBehind'
    BY <1>T, <1>U, <1>K, <2>1 DEF IInv, TagsBehind, CatchUp, Active, TypeOK
  <2>6. ASSUME NEW q \in 1 .. seqRequest, q >= target,
               slot_index(q) = slot_index(childSeq)
        PROVE  q = childSeq
    BY <1>T, <2>1, <2>6, SameSlotSameBlock DEF IInv, Active
  <2>7. CopyingIsReady'
    <3>1. SUFFICES ASSUME hostPc = "copying" PROVE Ready'
      BY <1>U DEF CopyingIsReady
    <3>2. target \in 1 .. seqRequest /\ seqTag[slot_index(target)] = target
      BY <1>T, <3>1 DEF IInv, CopyingIsReady, Ready, target, TypeOK
    <3>3. seqTag'[slot_index(target)] = target
      BY <1>T, <2>1, <2>2, <2>6, <3>2, SlotIndexType DEF TypeOK
    <3> QED BY <1>U, <3>2, <3>3 DEF Ready, target
  <2>8. OutputHeld'
    <3>1. SUFFICES ASSUME NEW q \in 1 .. seqRequest, q >= target, seqTag'[slot_index(q)] = q
                   PROVE  output'[slot_index(q)] = q \/ (q = seqRequest /\ ~SlotFree)
      BY <1>U, <1>K, <2>1 DEF OutputHeld, target
    <3>2. CASE slot_index(q) = slot_index(childSeq)
      BY <1>T, <2>1, <2>2, <2>6, <3>1, <3>2 DEF TypeOK
    <3>3. CASE slot_index(q) # slot_index(childSeq)
      <4>1. output'[slot_index(q)] = output[slot_index(q)] /\ seqTag[slot_index(q)] = q
        BY <1>T, <2>1, <3>1, <3>3, SlotIndexType DEF TypeOK
      <4> QED BY <3>1, <4>1 DEF IInv, OutputHeld
    <3> QED BY <3>2, <3>3
  <2> QED BY <1>T, <1>N, <1>K, <2>1, <2>3, <2>4, <2>5, <2>7, <2>8 DEF IInv
<1>5. CASE Done
  <2>1. /\ childPc = "tagged" /\ seqDone' = childSeq /\ last' = childSeq
        /\ UNCHANGED <<seqTag, output, upTo, scratch>>
        /\ \/ childSeq < upTo /\ childSeq' = childSeq + 1 /\ childPc' = "reading"
           \/ childPc' = "polling"
    BY <1>5 DEF Done
  <2>2. Window'
    BY <1>T, <1>U, <1>A, <2>1, SlotsAssumption
    DEF IInv, Window, Active, SlotFree, newSeq, TypeOK
  <2>3. ChildAhead'
    BY <1>T, <2>1 DEF ChildAhead, Active, TypeOK
  <2>4. \A i \in SlotIds : seqTag[i] <= childSeq
    <3>1. SUFFICES ASSUME NEW i \in SlotIds, seqTag[i] > childSeq PROVE FALSE
      BY <1>T DEF TypeOK
    <3>2. CatchUp
      BY <1>T, <1>A, <2>1, <3>1 DEF IInv, TagsBehind, Active, TypeOK
    <3> QED BY <1>T, <2>1, <3>1, <3>2 DEF CatchUp, TypeOK
  <2>5. TagsBehind'
    BY <1>T, <2>1, <2>4 DEF TagsBehind, TypeOK
  <2>6. TaggedIsOut' /\ ConsumesOwnBlock' /\ CopyingIsReady'
    BY <1>U, <2>1 DEF IInv, TaggedIsOut, ConsumesOwnBlock, CopyingIsReady, Ready, target
  <2>7. OutputHeld'
    <3>1. SUFFICES ASSUME NEW q \in 1 .. seqRequest, q >= target, seqTag[slot_index(q)] = q
                   PROVE  output[slot_index(q)] = q
      BY <1>U, <2>1 DEF OutputHeld, target
    <3>2. CASE q < seqRequest
      BY <1>T, <3>1, <3>2 DEF IInv, OutputHeld, TypeOK
    <3>3. CASE q = seqRequest
      <4>1. q = childSeq
        BY <1>T, <1>A, <2>1, <2>4, <3>1, <3>3, SlotIndexType DEF Active, TypeOK
      <4> QED BY <2>1, <4>1 DEF IInv, TaggedIsOut
    <3> QED BY <1>T, <3>2, <3>3 DEF TypeOK
  <2> QED BY <1>T, <1>N, <2>2, <2>3, <2>5, <2>6, <2>7 DEF IInv
<1> QED BY <1>1, <1>2, <1>3, <1>4, <1>5 DEF ChildStep

\* A death and a replacement keep the inductive invariant, where SafeMode allows them.
LEMMA DeathInv == SafeMode /\ IInv /\ (Crash \/ Respawn) => IInv'
<1> SUFFICES ASSUME SafeMode, IInv, Crash \/ Respawn PROVE IInv'
  OBVIOUS
<1>T. TypeOK /\ TypeOK'
  BY TypeStep DEF IInv, Next
<1>U. /\ UNCHANGED <<seqRequest, seqDone, seqTag, input, output, hostPc, heard>>
      /\ SlotFree' <=> SlotFree
  BY ChildKeepsHost DEF Crash, Respawn, SlotFree, newSeq
<1>1. Window' /\ CopyingIsReady' /\ InputHeld' /\ OutputHeld' /\ FreshIsOwnBlock'
  BY <1>U DEF IInv, Window, CopyingIsReady, InputHeld, OutputHeld, FreshIsOwnBlock, Ready, target
<1>2. CASE Crash
  <2>1. childPc' = "dead" /\ MaxRespawns # 0
    BY <1>T, <1>2 DEF Crash, TypeOK
  <2> QED BY <1>T, <1>1, <2>1
    DEF IInv, NeverDead, ChildAhead, Active, TagsBehind, TaggedIsOut, ConsumesOwnBlock
<1>3. CASE Respawn
  <2>1. ~InOrder /\ ~SlotFree /\ childPc' = "polling"
    BY <1>3 DEF SafeMode, IInv, NeverDead, Respawn
  <2> QED BY <1>T, <1>U, <1>1, <2>1
    DEF IInv, NeverDead, ChildAhead, Active, TagsBehind, CatchUp, TaggedIsOut, ConsumesOwnBlock
<1> QED BY <1>2, <1>3

\* Every step keeps the inductive invariant.
LEMMA InvStep == SafeMode /\ IInv /\ [Next]_vars => IInv'
<1> SUFFICES ASSUME SafeMode, IInv, [Next]_vars PROVE IInv'
  OBVIOUS
<1>1. CASE UNCHANGED vars
  BY <1>1
  DEF IInv, vars, hostVars, childVars, TypeOK, Window, NeverDead, ChildAhead, Active, TagsBehind,
      CatchUp, TaggedIsOut, CopyingIsReady, Ready, target, InputHeld, OutputHeld, SlotFree, newSeq,
      ConsumesOwnBlock, FreshIsOwnBlock
<1> QED BY <1>1, HostInv, ChildInv, DeathInv DEF Next

\* The inductive invariant holds in every state the pipeline reaches.
LEMMA Invariant == ASSUME SafeMode PROVE Spec => []IInv
<1>1. Init => IInv
  BY InvInit
<1>2. IInv /\ [Next]_vars => IInv'
  BY SafeMode, InvStep
<1> QED BY <1>1, <1>2, PTL DEF Spec

-----------------------------------------------------------------------------
(* The safety properties. *)

\* In a state of the invariant, host and child are not in the same slot.
LEMMA InvExclusive == IInv => SlotExclusive
<1> SUFFICES ASSUME IInv PROVE SlotExclusive
  OBVIOUS
<1>T. TypeOK
  BY DEF IInv
<1>1. ASSUME hostPc = "writing", childPc = "reading"
      PROVE  slot_index(newSeq) # slot_index(childSeq)
  <2>1. childSeq \in Nat /\ childSeq < newSeq /\ newSeq < childSeq + Slots
    BY <1>T, <1>1, SlotFreeBound, SlotsAssumption
    DEF IInv, Window, ChildAhead, Active, newSeq, TypeOK
  <2> QED BY <1>T, <2>1, SlotsDiffer DEF newSeq, TypeOK
<1>2. ASSUME hostPc = "copying", childPc = "writing",
             slot_index(target) = slot_index(childSeq)
      PROVE  FALSE
  <2>1. target \in 1 .. seqRequest /\ seqTag[slot_index(target)] = target
    BY <1>T, <1>2 DEF IInv, CopyingIsReady, Ready, target, TypeOK
  <2>2. target = childSeq
    BY <1>T, <1>2, <2>1, SameSlotSameBlock DEF IInv, Active, TypeOK
  <2>3. seqTag[slot_index(target)] > seqDone /\ slot_index(target) \in SlotIds
    BY <1>T, <1>2, <2>1, <2>2, SlotIndexType DEF IInv, ChildAhead, Active, TypeOK
  <2>4. CatchUp
    BY <1>2, <2>3 DEF IInv, TagsBehind
  <2> QED BY <1>T, <1>2, <2>2, <2>4 DEF CatchUp, target, TypeOK
<1> QED BY <1>1, <1>2 DEF SlotExclusive

\* Accesses to a slot never overlap, for any number of slots: with a child of either
\* kind that is not replaced, and with effect children replaced after the host stalled.
THEOREM Exclusive == ASSUME SafeMode PROVE Spec => []SlotExclusive
  BY SafeMode, Invariant, InvExclusive, PTL

\* Under the same conditions the host never plays a block under another's number.
THEOREM NoFalseFresh == ASSUME SafeMode PROVE Spec => []FreshIsOwnBlock
<1>1. IInv => FreshIsOwnBlock
  BY DEF IInv
<1> QED BY SafeMode, Invariant, <1>1, PTL

\* Under the same conditions the child processes the block its sequence number names.
THEOREM OwnInput == ASSUME SafeMode PROVE Spec => []ConsumesOwnBlock
<1>1. IInv => ConsumesOwnBlock
  BY DEF IInv
<1> QED BY SafeMode, Invariant, <1>1, PTL
=============================================================================
