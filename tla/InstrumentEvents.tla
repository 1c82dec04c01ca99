-------------------------- MODULE InstrumentEvents --------------------------
(***************************************************************************)
(* Notes on their way to an instrument plugin and back.                    *)
(*                                                                         *)
(* Each callback of the host pushes the notes it was given into a backlog, *)
(* fills one window of shared memory from it, and drains the windows of    *)
(* NOTE_ENDs the child has written, to keep a table of sounding voices.    *)
(* The child takes every block in order; what does not fit into its output *)
(* window spills into a queue.  Both queues are bounded, the host may be   *)
(* late, and the child may die.  The audio of the same slots is the        *)
(* subject of SlotPipeline.                                                *)
(***************************************************************************)
EXTENDS Integers, Sequences, SequencesExt, FiniteSets

CONSTANTS
    Notes,      \* keys, each played once
    Key0,       \* key 0 of channel 0
    Vst3,       \* whether the child hosts a VST3 plugin or a CLAP plugin
    Slots,      \* SLOTS
    Window,     \* MAX_EVENTS_PER_BLOCK
    Backlog,    \* EVENT_BACKING_CAPACITY
    Spill,      \* EVENT_SPILL_CAPACITY
    MaxBlocks,  \* bound: blocks submitted
    MaxDeaths   \* bound: deaths of the child

All == "all"  \* VoiceAddr::WILDCARD

ASSUME EventsAssumption ==
    /\ IsFiniteSet(Notes) /\ All \notin Notes /\ Vst3 \in BOOLEAN
    /\ {Slots, Window, Backlog, MaxBlocks} \subseteq Nat \ {0} /\ {Spill, MaxDeaths} \subseteq Nat

On(n) == [kind |-> "on", key |-> n]
Off(n) == [kind |-> "off", key |-> n]
Choke == [kind |-> "choke", key |-> All]

VARIABLES
    incoming, down, up,       \* notes not yet popped; notes switched on, off
    backlog, flush,           \* EventBackingRing
    submitted, cursor,        \* the host's position, as submitter and as reader
    host, counting, voices,   \* place in process_block; NoteOns to count; VoiceTable
    input, output, tag, done, lost, \* the region: windows, seq_tag, seq_done, a NoteEnd was dropped
    child, last, made, spill, \* the child's place and position, its outputs, its FIFO
    held, tails,              \* the plugin: keys held, and released keys still sounding
    news, deaths,             \* a respawn the host has not seen: "none", "due", "told"
    accepted, got,            \* history: events accepted, events the plugin got
    overtaken, brief, torn    \* history: notes whose off was dropped behind their on; notes
                              \* that began and ended in one block; whether a window was read
                              \* between its rewriting and its tagging

engine == <<incoming, down, up>>
queue == <<backlog, flush>>
hostVars == <<host, counting, voices, cursor>>
region == <<input, output, tag, done, lost>>
childVars == <<child, last, made, spill>>
plugin == <<held, tails>>
respawn == <<news, deaths>>
history == <<accepted, got, overtaken, brief, torn>>
vars == <<engine, queue, submitted, hostVars, region, childVars, plugin, respawn, history>>

slot_index(seq) == seq % Slots
NoVoices == [n \in Notes |-> 0]
\* The first n elements, or all.
First(q, n) == SubSeq(q, 1, IF Len(q) < n THEN Len(q) ELSE n)
Keys(events, kind) == {events[i].key : i \in {j \in DOMAIN events : events[j].kind = kind}}

Init ==
    /\ incoming = <<>> /\ down = {} /\ up = {}
    /\ backlog = <<>> /\ flush = FALSE
    /\ submitted = 0 /\ cursor = 0
    /\ host = "idle" /\ counting = {} /\ voices = NoVoices
    /\ input = [i \in 0..Slots-1 |-> <<>>] /\ output = [i \in 0..Slots-1 |-> <<>>]
    /\ tag = [i \in 0..Slots-1 |-> 0] /\ done = 0 /\ lost = FALSE
    /\ child = "poll" /\ last = 0 /\ made = <<>> /\ spill = <<>>
    /\ held = {} /\ tails = {}
    /\ news = "none" /\ deaths = 0
    /\ accepted = <<>> /\ got = <<>> /\ overtaken = {} /\ brief = {} /\ torn = FALSE

-----------------------------------------------------------------------------
(* The engine plays notes.                                                 *)

NoteOn(n) ==
    /\ n \notin down
    /\ incoming' = Append(incoming, On(n)) /\ down' = down \cup {n}
    /\ UNCHANGED <<up, queue, submitted, hostVars, region, childVars, plugin, respawn, history>>

NoteOff(n) ==
    /\ n \in down \ up
    /\ incoming' = Append(incoming, Off(n)) /\ up' = up \cup {n}
    /\ UNCHANGED <<down, queue, submitted, hostVars, region, childVars, plugin, respawn, history>>

-----------------------------------------------------------------------------
(* The host's callback                                                     *)

\* A full backlog drops the newest event.
Kept(q) == First(q, Backlog)

\* Mistake: a dropped NoteOff asks for nothing.
MistakeNoFlush(dropped) == FALSE

\* A dropped NoteOff asks for a choke.
AsksForChoke(dropped) == Keys(dropped, "off") # {}

\* Mistake: the guard lets a slot go one block early.
MistakeEarly(seq) == done >= seq - Slots - 1

slot_free(seq) == done >= seq - Slots

\* Mistake: the voices of a dead child are kept.
MistakeKeepsVoices == voices

VoicesAfterRespawn == NoVoices

\* The callback sees a respawn, pushes the new events, and submits a block if its slot is
\* free; a stall pops nothing.  NoteOns of the block are counted at the end of the callback.
Submit ==
    /\ host = "idle" /\ submitted < MaxBlocks
    /\ host' = "drain" /\ incoming' = <<>>
    /\ IF news = "told" THEN voices' = VoicesAfterRespawn /\ news' = "none"
                        ELSE UNCHANGED <<voices, news>>
    /\ LET all == backlog \o incoming
           kept == Kept(all)
           dropped == SubSeq(all, Len(kept) + 1, Len(all))
           choke == flush \/ AsksForChoke(dropped)
           window == First((IF choke THEN <<Choke>> ELSE <<>>) \o kept, Window)
           fresh == Len(window) - (IF choke THEN 1 ELSE 0)
       IN /\ overtaken' = overtaken \cup (Keys(dropped, "off") \cap (Keys(all, "on")))
          /\ accepted' = IF deaths > 0 THEN <<>>
                         ELSE accepted \o SubSeq(kept, Len(backlog) + 1, Len(kept))
          /\ \/ /\ slot_free(submitted + 1)
                /\ submitted' = submitted + 1
                /\ input' = [input EXCEPT ![slot_index(submitted + 1)] = window]
                /\ backlog' = SubSeq(kept, fresh + 1, Len(kept)) /\ flush' = FALSE
                /\ counting' = Keys(window, "on")
             \/ /\ ~slot_free(submitted + 1)
                /\ backlog' = kept /\ flush' = choke /\ counting' = {}
                /\ UNCHANGED <<submitted, input>>
    /\ UNCHANGED <<down, up, cursor, output, tag, done, lost, childVars, plugin, deaths, got, brief,
                   torn>>

next == cursor + 1
Done == host' = "count" /\ UNCHANGED <<voices, cursor>>

\* Mistake: the gap is skipped, the voices whose ends were in it are kept.
MistakeSkipsOnly == voices

VoicesAfterGap == NoVoices

\* recover_from_recycled_slot: what was in the gap is unknown, so all voices are forgotten.
Recover == host' = "count" /\ voices' = VoicesAfterGap /\ cursor' = submitted

\* What the ends in a window do to the table.
Without(table, ends) ==
    [n \in Notes |-> IF All \in ends \/ (n \in ends /\ table[n] = 0) THEN 0
                     ELSE IF n \in ends THEN table[n] - 1 ELSE table[n]]

\* Mistake: a slot that is not finished yet is taken for a recycled one.
MistakeNotNext(seq) == tag[slot_index(seq)] # seq

Recycled(seq) == tag[slot_index(seq)] > seq

\* The drain: nothing more to read, a recycled slot, or the window of the next block.
Drain ==
    /\ host = "drain"
    /\ \/ cursor = submitted /\ Done
       \/ cursor < submitted /\ Recycled(next) /\ Recover
       \/ /\ cursor < submitted /\ ~Recycled(next) /\ tag[slot_index(next)] < next
          /\ Done
       \/ /\ cursor < submitted /\ tag[slot_index(next)] = next
          /\ host' = "read" /\ UNCHANGED <<voices, cursor>>
    /\ UNCHANGED <<engine, queue, submitted, counting, region, childVars, plugin, respawn, history>>

\* The events are read without protection: the child may have begun to rewrite the window,
\* and a tag that is not stored yet cannot tell.
Read ==
    /\ host = "read"
    /\ host' = "check"
    /\ voices' = Without(voices, Keys(output[slot_index(next)], "end"))
    /\ torn' = (torn \/ (child = "tag" /\ slot_index(last + 1) = slot_index(next)))
    /\ UNCHANGED <<engine, queue, submitted, cursor, counting, region, childVars, plugin, respawn,
                   accepted, got, overtaken, brief>>

\* Mistake: what was read is believed.
MistakeTrusts(seq) == TRUE

StillThere(seq) == tag[slot_index(seq)] = seq

\* After reading, the tag is read again.
Revalidate ==
    /\ host = "check"
    /\ \/ StillThere(next) /\ host' = "drain" /\ cursor' = next /\ UNCHANGED voices
       \/ ~StillThere(next) /\ Recover
    /\ UNCHANGED <<engine, queue, submitted, counting, region, childVars, plugin, respawn, history>>

\* A dropped NoteEnd forgets all voices; then the NoteOns of this block are counted.
Count ==
    /\ host = "count"
    /\ host' = "idle" /\ lost' = FALSE /\ counting' = {}
    /\ voices' = [n \in Notes |-> (IF lost THEN 0 ELSE voices[n])
                                    + (IF n \in counting THEN 1 ELSE 0)]
    /\ UNCHANGED <<engine, queue, submitted, cursor, input, output, tag, done, childVars,
                   plugin, respawn, history>>

HostStep == Submit \/ Drain \/ Read \/ Revalidate \/ Count

-----------------------------------------------------------------------------
(* The child and its plugin                                                *)

\* VST3 knows no wildcard: it is rounded to key 0.
vst3_channel_pitch(key) == IF key = All THEN Key0 ELSE key

Ended(n) == [kind |-> "end", key |-> n]

\* One event of a window: what it does to the plugin, and what the child adds to the output.
classify_event(p, e) ==
    CASE e.kind = "on" -> [p EXCEPT !.held = @ \cup {e.key}]
      [] Vst3 /\ e.kind # "on" ->
            [p EXCEPT !.held = @ \ {vst3_channel_pitch(e.key)}, !.out = Append(@, Ended(e.key))]
      [] ~Vst3 /\ e.kind = "off" ->
            [p EXCEPT !.held = @ \ {e.key}, !.tails = IF e.key \in p.held THEN @ \cup {e.key}
                      ELSE @]
      [] ~Vst3 /\ e.kind = "choke" ->
            [p EXCEPT !.held = {}, !.tails = {},
                      !.out = @ \o SetToSeq({Ended(n) : n \in p.held \cup p.tails})]

\* The notes of a window: its events but for the choke.
NotesOf(window) ==
    LET upTo[i \in 0 .. Len(window)] ==
            IF i = 0 THEN <<>>
            ELSE IF window[i] # Choke THEN Append(upTo[i - 1], window[i])
            ELSE upTo[i - 1]
    IN upTo[Len(window)]

\* Mistake: an instrument child jumps to the newest block, like an effect child.
MistakeSkips == submitted

NextSeq == last + 1

\* The plugin processes the next block.  A CLAP plugin ends voices when it likes, released or
\* held; a VST3 plugin reports no ends of its own.
Process ==
    /\ child = "poll" /\ last < submitted
    /\ LET window == input[slot_index(NextSeq)]
           p == FoldLeft(classify_event, [held |-> held, tails |-> tails, out |-> <<>>], window)
       IN \E quiet \in IF Vst3 THEN {{}} ELSE SUBSET (p.held \cup p.tails) :
             /\ held' = p.held \ quiet /\ tails' = p.tails \ quiet
             /\ made' = p.out \o SetToSeq({Ended(n) : n \in quiet})
             /\ brief' = brief \cup (Keys(window, "on") \cap Keys(made', "end"))
             /\ got' = IF deaths > 0 THEN <<>>
                       ELSE got \o NotesOf(window)
    /\ last' = NextSeq - 1
    /\ child' = "write"
    /\ UNCHANGED <<engine, queue, submitted, hostVars, region, spill, respawn, accepted, overtaken,
                   torn>>

\* Mistake: an event that fits neither window nor queue is dropped without a word.
MistakeSilent(n) == FALSE

TellsLoss(n) == n > Window + Spill

\* write_output_events: spilled events first, then this block's, the rest spills.
Write ==
    /\ child = "write"
    /\ LET all == spill \o made
           kept == First(all, Window + Spill)
       IN /\ output' = [output EXCEPT ![slot_index(last + 1)] = First(all, Window)]
          /\ spill' = SubSeq(kept, Window + 1, Len(kept))
          /\ lost' = (lost \/ TellsLoss(Len(all)))
    /\ child' = "tag" /\ made' = <<>>
    /\ UNCHANGED <<engine, queue, submitted, hostVars, input, tag, done, last, plugin, respawn,
                   history>>

\* seq_tag and seq_done; that they are two stores is SlotPipeline's subject.
Tag ==
    /\ child = "tag"
    /\ done' = last + 1
    /\ tag' = [tag EXCEPT ![slot_index(last + 1)] = last + 1]
    /\ last' = last + 1 /\ child' = "poll"
    /\ UNCHANGED <<engine, queue, submitted, hostVars, input, output, lost, made, spill, plugin,
                   respawn, history>>

ChildStep == Process \/ Write \/ Tag

-----------------------------------------------------------------------------
(* Death and replacement                                                   *)

Die ==
    /\ child # "dead" /\ deaths < MaxDeaths
    /\ child' = "dead" /\ deaths' = deaths + 1
    /\ made' = <<>> /\ spill' = <<>> /\ held' = {} /\ tails' = {}
    /\ accepted' = <<>> /\ got' = <<>>
    /\ UNCHANGED <<engine, queue, submitted, hostVars, region, last, news, overtaken, brief, torn>>

ResumePoint == 0

\* The replacement runs before respawn_count says so.
Respawn ==
    /\ child = "dead"
    /\ child' = "poll" /\ last' = ResumePoint /\ news' = "due"
    /\ UNCHANGED <<engine, queue, submitted, hostVars, region, made, spill, plugin, deaths,
                   history>>

CountRespawn ==
    /\ news = "due"
    /\ news' = "told"
    /\ UNCHANGED <<engine, queue, submitted, hostVars, region, childVars, plugin, deaths, history>>

Next ==
    \/ \E n \in Notes : NoteOn(n) \/ NoteOff(n)
    \/ HostStep \/ ChildStep
    \/ Die \/ Respawn \/ CountRespawn

Spec == Init /\ [][Next]_vars

-----------------------------------------------------------------------------
(* Properties                                                              *)

Events == {On(n) : n \in Notes} \cup {Off(n) : n \in Notes}
Ends == {Ended(n) : n \in Notes \cup {All}}

\* The type invariant; the queues and windows never hold more than they are built for.
TypeOK ==
    /\ incoming \in Seq(Events) /\ up \subseteq down /\ down \subseteq Notes
    /\ backlog \in Seq(Events) /\ Len(backlog) <= Backlog /\ flush \in BOOLEAN
    /\ submitted \in 0..MaxBlocks /\ cursor \in 0..submitted
    /\ host \in {"idle", "drain", "read", "check", "count"} /\ counting \subseteq Notes
    /\ voices \in [Notes -> Nat]
    /\ \A i \in 0..Slots-1 :
          /\ input[i] \in Seq(Events \cup {Choke}) /\ Len(input[i]) <= Window
          /\ output[i] \in Seq(Ends) /\ Len(output[i]) <= Window
          /\ tag[i] \in 0..MaxBlocks
    /\ done \in 0..MaxBlocks /\ lost \in BOOLEAN
    /\ child \in {"poll", "write", "tag", "dead"} /\ last \in 0..MaxBlocks
    /\ made \in Seq(Ends) /\ spill \in Seq(Ends) /\ Len(spill) <= Spill
    /\ held \subseteq Notes /\ tails \subseteq Notes
    /\ news \in {"none", "due", "told"} /\ deaths \in 0..MaxDeaths /\ torn \in BOOLEAN

\* Late, but lossless and in order: the plugin gets exactly the events the backlog took, each
\* once, whatever waited and however far the child was behind (acceptance criterion 12 of the
\* M2 design document).
InOrderOnce == IsPrefix(got, accepted)

\* Recovering from a recycled slot passes over finished blocks only, so no NOTE_END that is
\* still to be written is missed (the drain of process_block).
NothingSkipped == deaths = 0 => cursor <= done

\* Events arrive in both directions: those to the plugin late but all and in order, those
\* from it unless they are told as lost.
EventsIntact == InOrderOnce /\ NothingSkipped

\* Everything has been delivered, processed, reported and read.
Settled ==
    /\ host = "idle" /\ incoming = <<>> /\ backlog = <<>> /\ ~flush
    /\ child = "poll" /\ last = submitted /\ cursor = submitted
    /\ spill = <<>> /\ ~lost /\ news = "none"

\* Bound of the run: a behaviour is not followed beyond a torn window, of which NoLeak says
\* nothing any more.
Untorn == ~torn

Leaked == {n \in Notes : voices[n] > 0 /\ n \notin held \cup tails}

\* The voice table does not leak: after drops, gaps and respawns it may have forgotten a
\* voice, but counts none that has ended, except one that began and ended in one block, by its
\* release or by the plugin itself, and unless a window was read while it was rewritten (the
\* race the code accepts, instrument_host.rs:396-407).
NoLeak == Settled /\ ~torn => Leaked \subseteq brief

\* No ended voice is counted.  This does not hold (see the README: the child may finish a
\* block before the callback that submitted it counts its NoteOns, and its NOTE_ENDs are then
\* read or skipped first).
NoLeakAtAll == Settled => Leaked = {}

\* A released note does not stay held because its NoteOff found the backlog full, unless its
\* NoteOn was waiting in the same backlog (the sticky flag of EventBackingRing).  A VST3
\* plugin is not protected: it gets the choke as a note-off of key 0.
ChokeProtects == ~Vst3 /\ deaths = 0 /\ Settled => held \cap up \subseteq overtaken

\* No released note stays held.  This does not hold either (see the README).
NoStuckNote == deaths = 0 /\ Settled => held \cap up = {}
=============================================================================
