---------------------------- MODULE SlotPipeline ----------------------------
(***************************************************************************)
(* The audio path of the out-of-process plugin sandbox: the daemon's audio *)
(* callback (PipelinedEffectHost::process_block) hands blocks to a child   *)
(* process through Slots shared-memory slots, and plays what the child     *)
(* computed one block later.  Neither side ever waits for the other.       *)
(*                                                                         *)
(* A block is its sequence number.  Copying into or out of a slot is not   *)
(* atomic: it has a begin and an end, and a slot that is being written     *)
(* holds Torn.  The audio threads communicate only through seq_request,    *)
(* seq_done and the per-slot seq_tag, each one atomic step here.           *)
(***************************************************************************)
EXTENDS Integers

CONSTANTS
    Slots,        \* SLOTS: number of ping-pong slots
    InOrder,      \* TRUE: instrument child (every block); FALSE: effect child (latest block)
    Settled,      \* TRUE: a replacement child polls only once the host has run out of slots
    MaxSeq,       \* bound: blocks the host submits
    MaxRespawns   \* bound: children that die and are replaced

ASSUME SlotsAssumption == Slots \in Nat /\ Slots >= 2
ASSUME ModeAssumption == InOrder \in BOOLEAN /\ Settled \in BOOLEAN
ASSUME BoundsAssumption == MaxSeq \in Nat /\ MaxRespawns \in Nat

VARIABLES
    seqRequest,   \* shm seq_request; the host's own `submitted` is always the same number
    seqDone,      \* shm seq_done
    seqTag,       \* shm seq_tag[slot]
    input,        \* shm input[slot]: the block it holds, 0 when never written, Torn
    output,       \* shm output[slot]: likewise
    hostPc,       \* where the audio callback is
    heard,        \* last block played fresh: the one asked for, and what the slot held
    childPc,      \* where the child's audio thread is
    childSeq,     \* block the child works on
    upTo,         \* the child's snapshot of seq_request (its `cur`)
    last,         \* last block this child finished
    scratch,      \* the child's private working buffer
    respawns      \* replacements so far

hostVars == <<hostPc, heard>>
childVars == <<childPc, childSeq, upTo, last, scratch>>
vars == <<seqRequest, seqDone, seqTag, input, output, hostVars, childVars, respawns>>

Torn == -1
SlotIds == 0 .. Slots - 1
slot_index(seq) == seq % Slots

Init ==
    /\ seqRequest = 0 /\ seqDone = 0
    /\ seqTag = [i \in SlotIds |-> 0]
    /\ input = [i \in SlotIds |-> 0]
    /\ output = [i \in SlotIds |-> 0]
    /\ hostPc = "idle" /\ heard = [seq |-> 0, data |-> 0]
    /\ childPc = "polling"
    /\ childSeq = 0 /\ upTo = 0 /\ last = 0 /\ scratch = 0
    /\ respawns = 0

-----------------------------------------------------------------------------
(* The host's audio callback: submit this block, then play the previous one. *)

newSeq == seqRequest + 1
target == seqRequest - 1

\* Mistake: the guard looks one block too far back.
MistakeSlotFreeEarly == newSeq <= Slots + 1 \/ seqDone >= newSeq - Slots - 1

\* The submit guard: the previous occupant of the new block's slot is finished.
SlotFree == newSeq <= Slots \/ seqDone >= newSeq - Slots

\* Mistake: a global cursor instead of the per-slot tag.
MistakeReadyByCursor == target >= 1 /\ seqDone >= target

\* The per-slot tag says the slot holds the output of exactly this block.
Ready == target >= 1 /\ seqTag[slot_index(target)] = target

BeginSubmit ==
    /\ hostPc = "idle" /\ SlotFree
    /\ newSeq <= MaxSeq
    /\ input' = [input EXCEPT ![slot_index(newSeq)] = Torn]
    /\ hostPc' = "writing"
    /\ UNCHANGED <<seqRequest, seqDone, seqTag, output, heard, childVars, respawns>>

Publish ==
    /\ hostPc = "writing"
    /\ input' = [input EXCEPT ![slot_index(newSeq)] = newSeq]
    /\ seqRequest' = newSeq
    /\ hostPc' = "playing"
    /\ UNCHANGED <<seqDone, seqTag, output, heard, childVars, respawns>>

\* No free slot: nothing is submitted and the same target is played again.
Stall ==
    /\ hostPc = "idle" /\ ~SlotFree
    /\ hostPc' = "playing"
    /\ UNCHANGED <<seqRequest, seqDone, seqTag, input, output, heard, childVars, respawns>>

BeginPlay ==
    /\ hostPc = "playing" /\ Ready
    /\ hostPc' = "copying"
    /\ UNCHANGED <<seqRequest, seqDone, seqTag, input, output, heard, childVars, respawns>>

FinishPlay ==
    /\ hostPc = "copying"
    /\ heard' = [seq |-> target, data |-> output[slot_index(target)]]
    /\ hostPc' = "idle"
    /\ UNCHANGED <<seqRequest, seqDone, seqTag, input, output, childVars, respawns>>

\* Not ready: repeat the last good block, or silence before the first one.
RepeatPrevious ==
    /\ hostPc = "playing" /\ ~Ready
    /\ hostPc' = "idle"
    /\ UNCHANGED <<seqRequest, seqDone, seqTag, input, output, heard, childVars, respawns>>

HostStep ==
    BeginSubmit \/ Publish \/ Stall \/ BeginPlay \/ FinishPlay \/ RepeatPrevious

-----------------------------------------------------------------------------
(* The child's audio loop. *)

\* Mistake: the child runs ahead of what is published.
MistakeOneAhead == seqRequest + 1

\* An effect child jumps to the newest block, an instrument child takes the next one.
FirstSeq == IF InOrder THEN last + 1 ELSE seqRequest

Poll ==
    /\ childPc = "polling" /\ seqRequest > last
    /\ upTo' = seqRequest
    /\ childSeq' = FirstSeq
    /\ childPc' = "reading"
    /\ UNCHANGED <<seqRequest, seqDone, seqTag, input, output, hostVars, last, scratch, respawns>>

FinishRead ==
    /\ childPc = "reading"
    /\ scratch' = input[slot_index(childSeq)]
    /\ childPc' = "processing"
    /\ UNCHANGED <<seqRequest, seqDone, seqTag, input, output, hostVars, childSeq, upTo, last,
                   respawns>>

BeginWrite ==
    /\ childPc = "processing"
    /\ output' = [output EXCEPT ![slot_index(childSeq)] = Torn]
    /\ childPc' = "writing"
    /\ UNCHANGED <<seqRequest, seqDone, seqTag, input, hostVars, childSeq, upTo, last, scratch,
                   respawns>>

\* The copy ends and the slot's tag is stored: nobody looks at the slot in between.
Tag ==
    /\ childPc = "writing"
    /\ output' = [output EXCEPT ![slot_index(childSeq)] = scratch]
    /\ seqTag' = [seqTag EXCEPT ![slot_index(childSeq)] = childSeq]
    /\ childPc' = "tagged"
    /\ UNCHANGED <<seqRequest, seqDone, input, hostVars, childSeq, upTo, last, scratch, respawns>>

Done ==
    /\ childPc = "tagged"
    /\ seqDone' = childSeq
    /\ last' = childSeq
    /\ \/ childSeq < upTo /\ childSeq' = childSeq + 1 /\ childPc' = "reading"
       \/ childSeq >= upTo /\ childPc' = "polling" /\ UNCHANGED childSeq
    /\ UNCHANGED <<seqRequest, seqTag, input, output, hostVars, upTo, scratch, respawns>>

ChildStep == Poll \/ FinishRead \/ BeginWrite \/ Tag \/ Done

-----------------------------------------------------------------------------
(* The child process may die anywhere; the watchdog starts a replacement.    *)
(* reset_child_starting leaves seq_request, seq_done and the tags as they    *)
(* are, and the replacement starts with last = 0.                            *)

Crash ==
    /\ childPc # "dead" /\ respawns < MaxRespawns
    /\ childPc' = "dead"
    /\ UNCHANGED <<seqRequest, seqDone, seqTag, input, output, hostVars, childSeq, upTo, last,
                   scratch, respawns>>

\* Mistake: the replacement waits for a block newer than any submitted so far.
MistakeResumeAtNewest == seqRequest

ResumePoint == 0

Respawn ==
    /\ childPc = "dead"
    /\ Settled => ~SlotFree
    /\ childPc' = "polling"
    /\ last' = ResumePoint
    /\ respawns' = respawns + 1
    /\ UNCHANGED <<seqRequest, seqDone, seqTag, input, output, hostVars, childSeq, upTo, scratch>>

Next == HostStep \/ ChildStep \/ Crash \/ Respawn

\* The audio device keeps calling the host, the child spins, the watchdog polls.
Fairness == WF_vars(HostStep) /\ WF_vars(ChildStep) /\ WF_vars(Respawn)

Spec == Init /\ [][Next]_vars
FairSpec == Spec /\ Fairness

-----------------------------------------------------------------------------
(* Properties. *)

TypeOK ==
    /\ seqRequest \in Nat /\ seqDone \in 0 .. seqRequest
    /\ seqTag \in [SlotIds -> 0 .. seqRequest]
    /\ input \in [SlotIds -> Nat \cup {Torn}]
    /\ output \in [SlotIds -> Nat \cup {Torn}]
    /\ hostPc \in {"idle", "writing", "playing", "copying"}
    /\ heard \in [seq : Int, data : Nat \cup {Torn}]
    /\ childPc \in {"polling", "reading", "processing", "writing", "tagged", "dead"}
    /\ childSeq \in 0 .. seqRequest /\ upTo \in 0 .. seqRequest /\ last \in 0 .. seqRequest
    /\ scratch \in Nat \cup {Torn}
    /\ respawns \in Nat

\* Accesses to one slot never overlap in time: the host does not fill an input
\* slot the child is reading, and does not copy an output slot the child is
\* filling.  This is what makes the raw-pointer copies on both sides sound.
SlotExclusive ==
    /\ ~(hostPc = "writing" /\ childPc = "reading"
           /\ slot_index(newSeq) = slot_index(childSeq))
    /\ ~(hostPc = "copying" /\ childPc = "writing"
           /\ slot_index(target) = slot_index(childSeq))

\* No false-fresh: a block played as fresh is the processed form of exactly the
\* block the host asked for, whatever blocks the child skipped or redid.
FreshIsOwnBlock == heard.data = heard.seq

\* The child works on the block its sequence number names: the host has not
\* recycled the slot before the child came to it, however late it came.
ConsumesOwnBlock == childPc \in {"processing", "writing", "tagged"} => scratch = childSeq

\* A host that has run out of slots gets one back, also when the child it was
\* waiting for has died and a replacement must take over.
StallEnds == ~SlotFree ~> SlotFree
=============================================================================
