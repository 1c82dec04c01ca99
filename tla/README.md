# OrbitScore: a TLA+ model of a live-coding music system

OrbitScore is a live-coding music system.  An editor extension sends lines of a score
to a TypeScript engine; the engine interprets and schedules them and talks over a
WebSocket to a Rust audio daemon; the daemon plays samples and runs CLAP and VST3
plugins, each in a child process of its own, connected by one shared-memory region.
Code is evaluated while music plays, and any of these processes may hang or crash
without stopping the others.  That is where the program's hard behaviour is: lines
evaluated between timers that are already running, lock-free sharing of audio buffers
and routing, a mailbox shared by sessions and a child that may be dead, handshakes over
three processes, and restarts at every level.  This project models it.

Paths below are relative to `src/rust/crates/` unless they start with `src/` or
`packages/` (`src/packages/`).

## 1. The system

### Components

| Component | State | Operations | Talks to |
|---|---|---|---|
| Editor session: `packages/vscode-extension/src/{extension,engine-lifecycle,*-bridge}.ts`, the engine's `cli/repl-mode.ts` | one engine handle, the pipes, the bridges' pending calls, the REPL's input queue and its incomplete-block buffer | start, stop, restart, evaluate, ask and be answered or time out; take a line, execute it | engine processes, by stdin and stdout lines |
| Engine core: `packages/engine/src/{core,interpreter}/` | sequence and transport state, RUN/LOOP/MUTE groups, loop timers, scheduled events | RUN, LOOP, MUTE, gain, tempo, start, stop; timer callbacks; poll | engine client |
| Engine client: `packages/engine/src/audio/rust-engine/` | socket, pending requests, respawn loop, sample ids, plugins, bus routings, clock anchor | request, lose, respawn, restore, dispatch, quit | daemon |
| Daemon session: `session.rs`, `server.rs`, `protocol.rs` | request ids, stopped plays, tasks that announce ends | one handler per request | engine (WebSocket), engine wrapper |
| Audio core and output: `orbit-audio-core`, `orbit-audio-native`, `orbit-link-audio` | scheduled plays and the transport; per bus stage: active, routing, sends; device buffers, egress ring | schedule, stop, render, mix, resample, send | daemon |
| Supervisor: `orbit-audio-daemon/src/outproc_{effect,instrument,respawn_guard}.rs`, `load_outproc_plugin_impl` in `engine_wrap.rs` | slot state, child handle, respawn statistics, fast-death streak, attach flags | load, watch, reset, respawn, give up, quit, reap, tear down | the shared region and everything below |
| Slot pipeline: `orbit-audio-sandbox/src/{transport,host,instrument_host}.rs`, the child mains | `seq_request`, `seq_done`, `seq_tag[]`, `input[]`, `output[]` in shared memory; the host's `submitted`, `last_good`; the child's `last` | submit, stall, play, repeat; poll, read, process, write, tag, done | host audio thread and child audio thread, by atomics only |
| Instrument events: `event_backing_ring.rs`, `event_spill_fifo.rs`, `instrument_host.rs` | backlog, note-flush flag, event cursor, voice table, spill queue | push, fill, drain, recover, spill, choke | slot pipeline |
| Command mailbox: `transport.rs` (`CommandMailboxHost`, `service_command_mailbox`) | `cmd_*` fields; under a mutex, generation and the in-flight command | issue, await, time out, answer, reset | session threads, child main thread, watchdog |
| State saving: `orbit-audio-daemon/src/engine_wrap.rs` (`save_outproc_plugin_state`) | temporary file, final file, latest state for a respawn | save, verify, rename, clean up | mailbox, file system |
| UI close state machine: `orbit-child-ui/src/lib.rs`, `orbit-child-runtime/src/ui_service.rs` | closed/open/closing, close deadline, sequence of this close's event, retained events | open, three ways to close, tick | mailbox (commands), event ring |
| Event ring and pump: `transport.rs` (`EventRingChild`, `EventRingHost`, `UiEventPump`) | `evt_*` fields; generation, lifecycle, pending and abandoned safepoint | queue, publish, poll, acknowledge, reset, final drain | child main thread, watchdog, engine through the daemon |
| Child runtime: `orbit-child-runtime/src/lib.rs`, `parent_watch.rs` | stop flag, parent pid | run, tick, notice an orphaned parent | main loop of every child |
| Parser, timing, chords; plugin hosts; scanner, test oracles, spikes | (pure functions; foreign interfaces; tools) | | |

### How they interact, and what is hard about it

* The audio callback and the child's audio loop share buffers **without locks or
  waiting**.  Both copy with raw pointers; only sequence numbers, read and written
  in the right order, keep them apart.  The child may be slow, skip blocks, or die
  in the middle of a copy.
* The callback reads the bus graph from **atomics that sessions rewrite one by one**,
  and only tries the scheduler's lock: a block may be mixed by a graph that never was,
  and a block of the wall clock may pass without one of the transport.
* A **play's end** is announced by a task that slept by the wall clock, while the voice
  follows the transport and Stop removes it under a lock the task does not take.
* Sessions share **one mailbox**.  A command may time out and be answered later;
  the child may die with it; the answer is read without the lock that protects the
  rest.  Saving leaves a temporary file whose owner changes as this goes wrong.
* Closing a plugin window is a **handshake of three processes**: the child announces
  the close, the engine saves the plugin's state, the daemon acknowledges, the child
  destroys the window and announces that.  The editor may be absent, the engine slow,
  the child impatient, and the ring has two slots.
* A **death and respawn of a plugin** may fall anywhere into all of this.  The region is
  reused, some fields are reset and others not, acknowledgements for the dead child are
  still on their way, and a load may be waiting for the child that just died.
* A **death and respawn of the daemon** interrupts every engine call.  The replacement
  has another clock, other sample ids, no plugins and no routings; these are put back
  one request at a time while plays fall due and the user goes on.
* **Live lines** rewrite groups, timers and queued events of a loop between its timer
  callbacks, which come late.
* **Processes of the engine** overlap in the editor: the old one's output, exit and
  broken pipe are heard after the new one was started.

### What correctness means, by component

| Component | Properties |
|---|---|
| Editor session | no engine lost from sight; no answer given to another's call; no line lost, doubled or reordered; stopping and failed starts come to an end |
| Engine core | a loop has one timer; silence after stop and mute; events in time; no event of an undisturbed loop missing or doubled |
| Engine client | no orphaned daemon; every loss ends; no stale clock or sample id; what is cached is what the daemon has |
| Daemon session, audio core | voices in step with the transport; ends announced after the sound, once, and not after a Stop was answered |
| Output | a block's signal mixed whole, in its own block, by the graph that was read; no declared bus unheard |
| Supervisor | no respawn storm, no orphan, no slot stuck in Loading |
| Slot pipeline | exclusive access to slots; no block played under another's number; a stall ends |
| Instrument events | delayed but lossless delivery; no hanging note after overflow; no voice counted that has ended |
| Mailbox | one command at a time; no replay in a replacement; success only for one's own command; every call returns |
| State saving | only completely saved state reaches the final path; no temporary file is lost track of |
| UI close, ring, pump | lossless in-order events; "saved" only when saved; the engine asked once; a close ends at both sides; a death is reported |

`PROJECT.json` lists the hazards behind these properties with their source lines.

## 2. Modules

| Module | Models |
|---|---|
| `SlotPipeline`, `SlotPipeline_proofs` | the audio path: `PipelinedEffectHost::process_block` (and the same steps of the instrument host) against the child's audio loop, with deaths and replacements |
| `CommandMailbox`, `CommandMailbox_proofs` | `CommandMailboxHost`, `service_command_mailbox`, `reset_child_starting`, `write_sidecar`, `save_outproc_plugin_state` |
| `EventChannel` | what the event ring promises: a FIFO that loses nothing while the child lives |
| `UiEvents`, `UiEvents_proofs` | the event ring in detail, with the child's close state machine, the daemon's pump, the sessions' open and close calls, and the watchdog's reset; refines `EventChannel` |
| `Supervisor`, `Supervisor_proofs` | `load_outproc_plugin_impl`, `spawn_with_mailbox`, the watchdog's loop, `StreamGuard` and the drops |
| `InstrumentEvents`, `AudioCallback_proofs` | the backing ring, the event windows, the host's drain and voice table, the child's spill queue |
| `EnginePlayer`, `EnginePlayer_proofs` | `RustEnginePlayer` over `DaemonClient`: start, loss, respawn loop, restoration, dispatch, routing cache, quit |
| `Playback`, `Performance_proofs` | PlayAt, Stop, StopAll and `schedule_play_ended` against the scheduler's render |
| `MixerGraph`, `AudioCallback_proofs` | the audio callback's bus graph against SetBusRouting and LoadPlugin |
| `LiveLoop`, `Performance_proofs` | RUN, LOOP, MUTE, gain, tempo and the transport against a sequence's timers and the schedulers' queues |
| `EditorSession`, `MCEditorSession`, `EditorSession_proofs` | the extension's engine handle, bridges and the REPL's line queue |

The modules are instances of one system but are checked apart: what one needs of
another it restates in the few words the other's properties justify (`UiEvents` takes
the mailbox as "one command at a time, answered once"; `EnginePlayer` takes the daemon
as a FIFO server that may die).  Their product is far beyond TLC.
`Playback` and `LiveLoop`, and `InstrumentEvents` and `MixerGraph`, share a module of
proofs; the names of `Playback`'s and `MixerGraph`'s specifications have a prefix for it
(`PlaySpec`, `MixSpec`).

### SlotPipeline

A block is its sequence number; audio data is not modelled.  A copy has a begin and
an end, and a slot being written holds `Torn`, so overlapping access becomes visible
as data.  The atomics `seq_request`, `seq_done` and `seq_tag` are one step each.  The
host's `submitted` always equals `seq_request` when it is read, so one variable stands
for both.  `BeginSubmit` and `Publish` are the submit half of the callback, `Stall`
its other branch; `BeginPlay`, `FinishPlay` and `RepeatPrevious` are the play half,
for the block the host submitted one callback earlier.  `Poll`, `FinishRead`,
`BeginWrite`, `Tag` and `Done` are one turn of the child's loop.

`InOrder` selects the child: an instrument child takes every block
(`in_order_seqs`), an effect child jumps to the newest.  `input` stands for the
instrument's event window as well, which is filled and read at the same places.

`Settled` is an assumption about time.  A replacement starts with `last = 0` over
tags and cursors that `reset_child_starting` leaves as they are.  When `Settled`
holds, it polls only after the host has run out of slots: starting a process takes
many callbacks, and the host has at most `Slots` free ones.  The code does not
enforce this, and with `Settled = FALSE` even the effect child violates
`SlotExclusive`.

### CommandMailbox

One action for each critical section of the coordinator's mutex and for each unlocked
look at the region, since those are the points where another thread can run.  An
answer is modelled by whose it is (`reply.of`), with 0 for the fields cleared by a new
command; "length not zero" in the code is `of # 0`.  `MaxPolls` stands for the
timeout clock.  Answers to a dead child's command are the watchdog's
(`AnswerForDead`).  Deleting a temporary file may fail wherever the code does it: in the
coordinator (`CleanUp`), which reports what it could not delete, and in the caller
(`Discard`), which drops the error; `unnoticed` holds those files.

### UiEvents

The pump's mutex makes each of its operations one action.  `open_outproc_plugin_ui`
is seven critical sections (`CheckReady` to `ClearRoute`), so its overlap with the
watchdog is explored.  The command mailbox appears with what `CommandMailbox` shows
of it: one command at a time, answered once, given up after a timeout; the unlocked
read of the answer is not repeated here.

* The child's tick is one action.  It reads `evt_ack_seq` more than once, but that
  only grows while the child lives, so an earlier value is a tick that ran earlier.
* A poll of the ring completes one event per action; the code's loop is several.
* A poll that finds the route locked changes nothing and is retried: it is a stutter,
  or for a close the disjunct that neither notifies nor marks it.
* The user and the plugin close windows whenever they like (`WindowClosed`); a
  command may be refused by the plugin (`OpenCommand`'s second disjunct).
* `AckSafepoint` is the engine's answer, at any time or never, duplicated by nobody
  but possibly for a child that has died since.
* Teardown (`Shutdown`, `GiveUp`) completes published events without their saves, and
  says so loudly; `DoneMeansSaved` therefore speaks of a child that is not quitting.

### Supervisor

Loads run on session threads and hold the slot's mutex only where the code does: to
claim the slot, to hand it to the watchdog, to put it back.  Between those places
`load` records where a load is (opening the region, spawning, waiting for READY), and
the watchdog's judgement of a death is a step of its own (`judge`), made from flags the
load is about to change.  `child` is the operating system's process with its zombie
state, so that "reaped" means something.  `Prompt` is an assumption about time: a load
that has seen READY says so (`initial_attach_pending`) before a child that dies at once
has been replaced.  Without it the model reaches the hazard at `outproc_effect.rs:593`
(section 3).  The effect role stands for both roles; the instrument's watchdog is the
same loop.

### InstrumentEvents

The callback is five steps (`Submit`, `Drain`, `Read`, `Revalidate`, `Count`), because
the child runs between them: `Read` looks at a window without protection and
`Revalidate` reads the tag again.  Each note is switched on and off once.
`classify_event` is what the two kinds of plugin do with an event; a CLAP plugin may end
any voice when it likes, released or held, also in the block that began it.  `brief` names
the notes that began and ended in one block.  A window may be read between the child's
rewriting and its tagging of that slot, where the tag cannot tell; a read that overlaps the
copy itself is the same case.  `torn` remembers that this happened, and the run does not
follow a behaviour beyond it (`CONSTRAINT Untorn`), since `NoLeak` says nothing of it.

### EnginePlayer

An action is one macrotask: a handler and the continuations its settled promises run
before anything else can.  `wire` and `replies` are the two directions of the socket;
the daemon answers in order.  Daemons are numbered, and whatever must not outlive one
(clock anchor, sample id, loaded plugin, routing) carries its number.  One sample, one
plugin and one bus stand for the maps of them.  `lostRestoring` remembers that a daemon
died while plugins or routings were being put back, `muddled` that a refused routing
call crossed another or the restoration; both mark the known exceptions of section 3.

### Playback

Time is counted in blocks.  The wall clock moves with every callback, the transport only
with those that got the scheduler's lock (`Miss` is the one that did not).  A play is
named by the block it was asked to start at; its channel may be registered late, and
its task sleeps by whichever clock the handler read.  `late` and `lagging` name the
plays whose first frame could not be read in time and those whose task slept by a clock
the transport had fallen behind.

### MixerGraph

A signal is the number of copies of each source in it, so a doubled or lost path is
visible, and `stale` marks what an earlier block left behind.  The callback reads one
stage's flag, target and taps per step, while `StoreOutput`, `StoreSend` and `Activate`
write one atomic per step.  Three reductions keep it small, none of which hides an
outcome: `PlayAt` happens only just before the mix (events are read only there), calls
that change nothing are left out, and what a callback has read is reset at its end.
`Whole` names a case the code gives up on: an inactive stage that is fed and feeds one
that is neither active nor fed by an active stage loses its signal.

### LiveLoop

Time is counted in fractions of `LOOP_TIMER_LEAD_MS` (`Lead`), from the start of the
transport.  A line of the score is one action, or two with other timers between them
when it waits for a sample (`RunNamed` and `StartRun`, `LoopNamed` and `StartLoop`).
`timers` holds the pending timeouts with what their closures captured, and `loopTimer`
the handle the state manager stored, so a timer that nobody could cancel any more is a
state of the model.  `sounds` is the scheduler's queue for the sequence as bags of
times (for audio sequences the player's, for note sequences the MIDI scheduler's with
note ends).  Pattern positions are two: the start and the middle.  The schedulers poll
every millisecond, and so nothing happens while something is due (`Polled`).

### EditorSession

Events of a process (its output, exit, `error`, EPIPE) arrive in any order and after
the next process was spawned.  A line is its kind: a whole statement, the first or
second half of one, a bad one, a blank one, a meta line that wants an answer.  The
parser appears only by its verdict on a sequence of such kinds.  `MCEditorSession`
gives the two evaluations of the run.  The device bridge is the FIFO of the code; the
plugin-state and plugin-UI bridges, which match by request id, are one kind, `keyed`.
A timeout may come at any moment.

## 3. Runs

| Run | Shows | Bounds |
|---|---|---|
| `EffectPipeline` | with two slots, slots are exclusive, no false fresh block, the child reads its own block, a stall ends | 8 blocks, 2 deaths |
| `CommandMailbox` | no replay, success within a life, every temporary file owned or its removal failed, every call returns | 2 sessions, 2 commands, 2 deaths |
| `UiEvents` | the ring implements the channel; the owner is told the truth; nothing is ever deferred; closes end | 2 event slots, 1 session, 3 commands, 2 deaths |
| `Supervisor` | child and file owned, the slot attended, no respawn storm, every load and the teardown end | 2 loads (one plugin of the wrong role), give-up after 2, 3 deaths |
| `InstrumentEvents` | events intact in both directions, a choke for every dropped NoteOff, no ended voice counted but brief ones | 2 notes, 2 slots, windows and backlog of 1, no spill room, 4 blocks, 1 death, up to a torn window |
| `EngineRespawn` | no orphaned daemon, only restoring abandons, routings agree, everything settles | 2 routing calls, 2 losses, 2 attempts |
| `EngineDispatch` | no play with a dead clock or sample id, notes only to loaded plugins, no play of a cleared sequence but the known one | 2 plays, 1 plugin, 2 losses, 1 clear |
| `SilentDeath` | **violation**: a daemon that dies while being restored is not retried | as `EngineRespawn` |
| `Playback` | voices in step, ends after their sound (but for late plays and lagging clocks), none decided on after an answered Stop, every end told | 2 plays of 2 blocks, 1 missed callback |
| `MixerGraph` | signals whole and in their block, no declared bus unheard | one insert, sum and aux, 2 routing calls, 1 load |
| `LiveLoop` | one timer per loop, silence, events in time, none missing or doubled | lead 2, durations 4 and 5, grid 4 (a bar, the default), lag 1, time 13, 4 lines |
| `EditorSession` | no stray engine, own answers (but after a timed-out or cut device answer), lines once, stopping and failed starts end | 2 engines, 2 calls, 1 evaluation |

Some properties are conjunctions of named parts, each of which a reader may look up:

| Property | Parts |
|---|---|
| `FilesAccounted` (mailbox) | every temporary file has an owner, or its removal failed (reported by the coordinator, unnoticed by a caller); only a completely saved one is renamed |
| `OwnerToldTruth` (UI) | `DoneMeansSaved`: "saved" only when this close was saved; `AskedOnce`: one request to save per close; `RespawnIsNotified`: an open window's owner hears of the respawn that closes it |
| `Owned` (supervisor) | `NoOrphan`, `NothingLeft` after teardown, `FileKept` until then |
| `SlotAttended` | `LoadingHasLoader`, `ActiveIsSupervised`, `NoStrayQuit` |
| `CallsEnd` | `LoadReturns`, `TeardownEnds` |
| `EventsIntact` (instrument) | `InOrderOnce` to the plugin, `NothingSkipped` from it |
| `Settles` (engine) | `LossEnds`, `QuitReturns`, `CallsSettle` |
| `MixedInItsBlock` (mixer) | `Delivered`: each event once per path of the graph read; `NoBleed`: nothing of an earlier block |
| `NothingHangs` (editor) | `StoppedEnds`, `EndIsNoticed` |

The type invariants are part of the proofs (section 5) or written down beside the
variables; the runs spend their properties on what could be wrong.

Why these bounds are enough to see the interesting cases:

* `EffectPipeline`: every slot is reused at least three times, and a replacement dies a
  second time after its predecessor left tags behind.  The proofs remove the bound.
* `CommandMailbox`: a conflict needs one command that was given up and one that follows
  it; two deaths put a second generation between them.
* `UiEvents`: one command opens a window, the second closes it or opens it again, the
  third opens the replacement's: two closes in one generation and one across a death,
  which is what a stale acknowledgement or a reused sequence number needs.  Two slots is
  the production value.  The second death is the one whose window a command to the first
  child may have opened.  One session, because `RespawnIsNotified` is false with two
  (below); the other properties are proved for any number.
* `Supervisor`: the second load meets whatever the first left behind; three deaths are
  one more than the give-up limit and allow a death on both sides of an attach.
* `InstrumentEvents`: one place everywhere makes each queue overflow with the second
  note, and a window that is reused after two blocks makes the drain lose the race.  What
  comes after a torn window is left to the proofs of `EventsIntact` and `ChokeProtects`.
* `EngineRespawn`, `EngineDispatch`: two losses put the second into the recovery from the
  first, at any of its places.  Routings and plays do not read each other's state, so
  they are explored apart.
* `Playback`: a play for now and one ahead, each as long as two blocks, is what tells a
  late start, a missed lock and a Stop in the middle from each other.  Proved without
  the bounds.
* `MixerGraph`: one stage of each kind has all kinds of edges (insert to sum, to aux, to
  hw; sum to aux); two routing calls leave an intermediate graph between them.
* `LiveLoop`: 13 units hold two passes and a half.  Two units to the 100 ms let a timer
  be late by half the lead and events lie between boundaries.  `MaxLag < Lead` and at
  most half a pattern is an assumption (`LiveLoopAssumption`): a callback a whole lead
  late plays the head of a pass twice after LOOP was evaluated again.  Four lines are
  what start, mute, unmute and stop need.  A grid of 4 lets a loop wait up to a whole bar
  for its start; grids of 0, 2 and 6 give the same.  One sequence: sequences share only the
  poll.
* `EditorSession`: two processes have all the overlaps of an old and a new one; two calls
  are what answers can be confused between; each evaluation has a half statement.

Every property of a passing run has a mutant in `PROJECT.json`: a plausible mistake in
the code, written out beside the right definition, that makes TLC find the property
violated.

### What the violation means

`SilentDeath`: `respawnLoop` promises in its comment that a daemon that dies again is
retried.  A second loss while the loop is restoring plugins or routings is absorbed by
the loop's own single flight: the restoring requests fail, their failures are logged,
and the loop reports success without a daemon.  `OnlyRestoringAbandons` shows that this
is the only way, and `LossEnds` that every other loss ends well.

### Other places where code and comment disagree

Met while modelling and visible in the modules, but not given a run of their own; a
definition named here can be put into a configuration to see its counterexample.

Plugin slot and its region:

* `OkIsOwn` (mailbox): `issue_command` reads the answer after the lock
  (`orbit-audio-sandbox/src/transport.rs:1018`).  If a death, a reset and another
  session's command fall between the read of `cmd_ack_seq` and that of `cmd_result`, the
  cleared fields are an OK of length 0.  Saving is protected by that length
  (`FilesAccounted`), opening and closing windows are not.
* `Supervisor` with `Prompt = FALSE` violates `SlotAttended`: a child that publishes READY
  and dies before the load has cleared `initial_attach_pending` is taken for a failed
  attach, and an active slot has no watchdog (`outproc_effect.rs:593`).
* A caller that cannot delete its temporary file drops the error (`engine_wrap.rs:3119`,
  `:3130`, `:3138`, `:3145`, `:3152`): nobody retries or reports it (`unnoticed`), while the
  coordinator's failures are reported.  `FilesAccounted` excepts these files.
* `AttachedIsRendered` (supervisor): the roll-back of a failed load switches off the bus
  an overlapping successful load switched on (`engine_wrap.rs:2715`).
* A failed reset after a load leaves the slot Loading for good (`engine_wrap.rs:3285`,
  against the comments at 3256-3258 and 4540-4541); `LoadingHasLoader` excepts it.
* `last_respawn_ns` of an earlier attach is used for the first death of the next
  (`outproc_effect.rs:608`, against `outproc_respawn_guard.rs:18-21`).
* An instrument child that replaces another starts at block 1 and may rewrite the slot the
  host is copying (`clap-instrument-child`'s `main.rs:242`, against `transport.rs:25-27`;
  its own comment names `#418`): `SlotPipeline` with `InOrder = TRUE`, one death.
* A timed-out `OPEN_UI` sets the lifecycle back to closed, though the child may open the
  window later; a respawn then tells nobody (`transport.rs:1418`, against
  `src/docs/specs-v2/PLUGIN_UI_HOSTING_SPEC_v1.md:640`).
* `NoStuckNote` (instrument events): a NoteOff dropped behind its own NoteOn in the backlog
  is followed by a choke that overtakes the NoteOn (`instrument_host.rs:264`).
  `ChokeProtects` excepts exactly these.  A VST3 child rounds the choke to a note-off of
  key 0 (`vst3-instrument-child`'s `main.rs:252`), so it is not protected at all.
* `NoLeakAtAll`: a child may finish a block before the callback that submitted it counts
  its NoteOns (`instrument_host.rs:417`).  The NOTE_END of a note that began and ended in
  that block, by its release or because the plugin ended a held voice (one-shot, voice
  stealing), is then read while the count is 0, and the voice stays counted (`brief`).
* A window that is read while the child rewrites it, before the tag tells, may give wrong
  ends; `instrument_host.rs:396-407` accepts this race.  `NoLeak` excepts it (`torn`).

Daemon:

* A Stop answered between a task's waking and its sending lets both notices reach the
  engine, and its mark in `stopped_play_ids` stays (`session.rs:1965-1966`); the property
  `NoEndAfterStop` speaks of the decision to send.
* A play asked for in the past, or whose channel is registered after its start, is read from
  its first frame when it can be, but its end is announced by its start and length, while it
  still sounds (`late`).
* The uptime stands in for the transport's clock when the lock is taken
  (`engine_wrap.rs:4435`): the end of a play may come before its sound (`lagging`).
* Events of an inactive bus wait while any bus is active and are played dry when none is
  (`orbit-audio-native/src/output.rs:535`); a signal relayed by an inactive stage may be
  lost (`output.rs:608-635`, `Whole`).
* An `OPEN_UI` whose `begin_open` came before a reset of the child and whose posting came
  after it opens the replacement's window while the pump's lifecycle is closed:
  `finish_open` has no generation and `issue_command` does not ask for readiness
  (`transport.rs:1278`, `:945`).  The next death of that child tells nobody.  The
  respawn's notification may also take the route that a new request has just set
  (`outproc_respawn_guard.rs:54`), with the same outcome.  `unreserved` marks these
  windows and `RespawnIsNotified` excepts them.
* `RespawnIsNotified` fails with two sessions: the one whose `OPEN_UI` failed clears, after
  its `finish_open(false)`, the route another has meanwhile set for the same target
  (`engine_wrap.rs:2993-2999` compares only the target), and a later death of the child
  tells nobody.
* Two sessions that save the same target (`engine_wrap.rs:3151`) race.

Engine (`packages/engine/src/`):

* `NoGhostAfterLoad`: a play waiting for its sample is sent after its sequence was cleared,
  if the sequence was started again meanwhile (`audio/rust-engine/rust-engine-player.ts:1291`).
* A refused routing call restores the value before it even if another call changed it
  since (`rust-engine-player.ts:893`, `muddled`).
* A socket that breaks while its daemon lives leaves that daemon running
  (`daemon-client.ts:862`, `dropped`).  `pluginNoteOn` is not held back while respawning.
* `MuteFlag` (live loop): MUTE reaches a sequence only while it is in the LOOP group
  (`interpreter/process-statement.ts:779`, against
  `src/docs/core/INSTRUCTION_ORBITSCORE_DSL.md:403-407`): after
  `LOOP(k); MUTE(k); LOOP(); MUTE(); LOOP(k)` the loop is silent though MUTE names
  nothing.
* `GroupLoops`: `global.stop()` with parentheses does not empty the groups
  (`parser/parse-statement.ts:589`, against `process-statement.ts:511-512`), and neither
  does a load that fails: the next `LOOP(k)` finds `k` in the group and does not start it.
* `KeepsGrid`: the timer that notices an unmute moves the grid to the present
  (`core/sequence/playback/loop-sequence.ts:177,190`, against its comment at 26-29).
* `WaitsForGrid`: `gain()`, `pan()` and a second `LOOP(k)` schedule a loop anew, by passes
  counted from its start, also backwards (`core/sequence/scheduling/event-scheduler.ts:170`).
  A loop that still waits for its bar is then heard in the bar before it, and when it waits
  longer than its pattern lasts it loses its first pass, against
  `INSTRUCTION_ORBITSCORE_DSL.md:289` and `core/global/quantize-manager.ts:4-5`.  `Gapless`
  excepts a loop that was scheduled anew while it waited so long (`Waits`).
* The loop timer clears the sequence's events 100 ms before the boundary, and with them
  those of the last 100 ms of the pass (`loop-sequence.ts:196`); the model's pattern ends
  before.
* A one-shot's end is timed from its call though its events lie a lead later; its timer is
  never cancelled and clears what a later LOOP scheduled.  RUN ends the LOOP of the same
  sequence, though `INSTRUCTION_ORBITSCORE_DSL.md:363-366` calls them independent, and is
  silent when muted (:371).

Editor (`packages/vscode-extension/src/`):

* An answer later than the device bridge's 10 s goes to the next device call
  (`device-switch-bridge.ts:31-32,90`), and a wrong device is shown and saved.  The handler
  of stdout splits each chunk into lines and keeps no remainder (`extension.ts:1456-1457`),
  so an answer cut by a chunk boundary reaches no bridge
  (`device-switch-bridge.ts:77-85` and `extension.ts:1488-1490` name the case).  Its call
  stays in the list, and the answer to the next device call is given to it, without any
  timeout.  `OwnAnswer` excepts device calls to an engine with such a timeout or cut
  (`astray`).  A call with a request id whose answer is cut only times out.
* `applyEngineStdoutChunk` waits for "Global running" (`engine-lifecycle.ts:147`), and the
  engine prints "Global starting" (`transport-control.ts:29`), so the editor never knows
  that the transport plays and its guard at `extension.ts:2948` never acts; the engine's
  own guard does.
* `globalInitialized` is set when the code is written to the engine, not when it ran.

## 4. Fairness

* `SlotPipeline`: the audio device keeps calling the host, the child's loop spins, the
  watchdog respawns (it polls `try_wait` until it gives up, which the model leaves to
  `MaxRespawns`).  The child need not be fast.
* `CommandMailbox`: only the calling threads are assumed to run.  The child may hang
  and the watchdog may be late: a call returns by its own timeout.
* `UiEvents`: the child's main loop ticks, time passes, the watchdog polls and
  respawns, the sessions' threads run.  Nothing is assumed of the engine (it may never
  save), the editor (it may never connect) or the user.  The child's answers to
  commands are not assumed either.
* `Supervisor`: a load that began, the watchdog's thread and the drop of the slot run on.
  Nothing is assumed of the child: it may never publish READY nor obey QUIT.
* `EnginePlayer`: the daemon serves requests, answers arrive, a lost socket is noticed, the
  loop's timers fire.  Nothing is assumed of the user, and deaths are not fair.
* `Playback`: the callback renders again (weak fairness of `Render`, so it does not miss
  the lock for ever), and the runtime polls its tasks.
* `MixerGraph`: the device asks for blocks, and no command keeps the lock from every one
  of them: strong fairness of `Mix`, since it is disabled whenever the lock is taken.
* `EditorSession`: the extension host's kill timers fire, and exit or error events come.
  The engine may hang in a line and ignore SIGTERM.
* `InstrumentEvents`, `LiveLoop`, `EngineDispatch`: safety only.

`CHECK_DEADLOCK FALSE` stands in a configuration because its bounds stop the system; in
the code it goes on for ever, as the callback of `MixerGraph` does, whose run checks
deadlock.

## 5. Proofs

`SlotPipeline_proofs` proves, for every number of slots, every bound and both kinds of
child:

* `TypeCorrect`: `Spec => []TypeOK`, without further assumptions.  The ordering of the
  cursors it contains (tags, `seq_done` and snapshots at or below `seq_request`) holds
  however often children are replaced.
* `Exclusive`, `NoFalseFresh`, `OwnInput`: `Spec => []SlotExclusive`,
  `[]FreshIsOwnBlock` and `[]ConsumesOwnBlock`, under `SafeMode`: either no child is
  replaced, or the children are effect children and `Settled` holds.  The other cases
  are false: see the replaced instrument child in section 3.

The properties are not inductive.  `SlotExclusive` says nothing about which blocks are
unfinished, and `FreshIsOwnBlock` nothing about slots the host is not copying yet.  The
inductive invariant `IInv` adds:

| Part | Says |
|---|---|
| `Window` | at most `Slots` blocks are unfinished; a slot being filled is a free one |
| `NeverDead` | without replacements, no child dies |
| `ChildAhead` | the child works on unfinished blocks; a poller has finished all of `seq_done`, or replaces a dead child while the host is stalled |
| `TagsBehind` | a tag beyond `seq_done` is the child's latest, or was left behind by a dead one |
| `TaggedIsOut` | the child's tag and its output slot agree |
| `CopyingIsReady` | what the host copies stays ready while it copies |
| `InputHeld` | the last `Slots` submitted blocks are in their slots |
| `OutputHeld` | a tagged block the host may still play is complete in its slot |

The argument: two blocks less than `Slots` apart have different slots (`SlotsDiffer`),
the submit guard keeps all blocks both sides touch within such a window, and so a shared
slot means a shared block (`SameSlotSameBlock`).  The host plays `target` only when its
tag is there, and the child is then beyond it.  The exception is the replacement, which
may redo the newest block: `ChildAhead` and `OutputHeld` say that the host is then
stalled one block behind, which is what `Settled` is needed for.  `HostInv`, `ChildInv`
and `DeathInv` go through the steps of each actor, one named step per action.

`SlotPipeline`'s named assumptions are all the proofs use: `Slots >= 2` (the code's
compile-time assertion) and the types of the bounds and flags.

`Performance_proofs` proves, of `Playback` and for any set of plays, lengths and bounds,
`PlayTypeCorrect`, and `KeepsStep` (`InStep`), `EndsAfterSound` (`EndedAfterSound`) and
`NoEndDecided` (`NoEndAfterStop`).  `EndedAfterSound` excepts the plays that are `late`
or `lagging`, and `NoEndAfterStop` is about the decision to send (section 3).  None of
them is inductive: that an end is announced after the sound rests on when its task went
to sleep.  `PlayInv` adds that the transport stands behind the wall clock by the missed
blocks (`Clocks`), that a play nobody asked for is nowhere (`Unborn`), that what is
scheduled has something left (`Unread`), that a play in time has its start ahead or is
read in step (`Punctual`), that a sleeping task wakes when its play will have ended
(`WakesAtEnd`), that a play whose task has woken is over (`AwakeIsOver`), and that a
stop that was answered is marked until the task takes the mark (`Marked`, which gives
`NoEndAfterStop`).

Of `LiveLoop` it proves, for any tempi, grid, lead and lag within `LiveLoopAssumption`,
`OneLoopTimer` (`Armed`), `StoppedIsQuiet` (`Quiet`) and `NothingLate` (`OnTime`).  The
first two share `IInv`: timers are records (`Shapes`), there is at most one loop timer
(`OneTimer`), it is the one `stop()` would cancel and a loop has one (`Held`), and what
loops plays (`LoopPlays`).  `OnTime` needs a second invariant, `Timely`: every armed timer
of an unmuted loop fires, with its lag, before the boundary it schedules (`Ahead`).

`EachEventOnce` (`Gapless`) needs callbacks that are late by less than half of any pattern
(`Prompt`; the lead of a short pattern is half of it).  Just at the half it is false, as TLC
shows with lag 2 and lead 3: what a gain change put into the queue for the next pass sounds
at the boundary, and the timer that fires after it puts it there again.  The invariant is
`Regular`: while a loop is undisturbed, its queue has nothing twice or behind the clock
(`Single`); what it owes at this instant is queued or was dispatched, not both (`Present`);
up to the end of the pass that its timer has to follow it has exactly the events of the grid
(`Complete`); and that timer fires after the last event of the pass and before its end
(`Paced`).  Hence clearing the queue loses nothing, and the clock does not pass the end
before the timer has run.  The arithmetic of passes (`PassBeats`, `Apart`) rests on division
with remainder being unique (`DividesOnce`).

`CommandMailbox_proofs` proves, for any number of sessions, commands, deaths and polls,
`TypeCorrect`, `OwnCommands` (`NoReplay`), `OwnAnswers` (`OkWithinLife`), `FilesSafe`
(`FilesAccounted`) and `SlotKept` (a command is never posted over an unanswered one).
The parts of `IInv`: the slot is empty exactly when nothing waits (`Slot`), the child
executes the newest unanswered command (`Executing`), a good answer is the child's
(`Reply`), calls have numbers of their own (`Numbered`, `Distinct`), the slot belongs to
the call that waits while its child lives (`Waiting`), what a caller was told in that
life is true (`Told`), every temporary file is the slot's, a concluding caller's, or one
whose removal failed (`Files`), and what was renamed was saved (`FinalIsSaved`).  The
hard part is `Cheated`: after a child's death a caller may take a cleared answer for
success, as `OkIsOwn` shows it does, but then its file is gone or complete, or the
answer is of length 0 and the file is not taken.

`Supervisor_proofs` proves, for any number of loads, plugins and deaths and any limit of
fast respawns, `TypeCorrect`, `NothingOrphaned` (`Owned`), `StormEnds` (`NoStorm`) and
`Attended` (`SlotAttended`).  Where the load that works on the slot is decides what there
may be already (`Place`), one load works at a time (`One`), a slot nobody works on has
neither child nor watchdog (`Bare`), the file belongs to a load or to the slot (`File`),
the watchdog's place says in which state its child is (`Watched`), its count is never less
than the young deaths in a row (`Streak`), and a teardown begins when no load is in flight
(`Down`).  `Attached`, the part about the flags a load and the watchdog's judgement race
for, is conditional on `Prompt`: `Attended` assumes it and is false without it (section 3);
the other theorems hold either way.

`UiEvents_proofs` proves, for any number of sessions, commands and deaths and any ring of
at least two slots, `TypeCorrect`, `NothingDeferred` (`NeverDeferred`), `SavedAndAskedOnce`
(`DoneMeansSaved` and `AskedOnce`) and the refinement `RingIsLossless` (`LosslessFifo`:
every step is a `Send`, `Complete` or `End` of `EventChannel`, or a stutter).  A close
publishes two events and a window opens on an empty ring (`Room`), so nothing waits for a
slot; each close had a command (`Counted`).  The ring holds completions behind one
`UI_CLOSED` at most (`Published`); a close in progress waits for the newest event
(`Awaiting`); a notice of this generation names the event it is about while that is in the
ring (`Noticed`); a respawn begins empty (`Fresh`).  From these follow that only the engine's
own save lets a close complete as saved (`Saved`), and that a close the engine was told of
is either completed or marked as pending (`Asked`).  Without `Noticed`, an acknowledgement
for a dead child could complete its successor's close.

`OwnerLearnsTheEnd` adds the last part of `OwnerToldTruth`, `RespawnIsNotified`, for one
session (`OneSession`; it is false with two, section 3) and any number of commands and
deaths.  `Tracking` follows a window from the command to the notification.  While it is on
the screen, or its events are in the ring, the pump and the route know of it, and the
session is not where it would clear either (`Known`); between the reset and the
notification the route still does (`Owned`).  A session that waits has its own command in
the mailbox, or gave it up (`Expected`), and none posts to a child that is being replaced
unless it finds the mailbox empty (`Between`).  A completion is the last event of its close
(`Last`).

`EnginePlayer_proofs` proves, for any number of plays, calls, losses and attempts,
`OneDaemon` (`NoOrphanDaemon`), `RetriedUnlessRestoring` (`OnlyRestoringAbandons`),
`DispatchIsFresh` (`NoStaleDispatch`), `NotesReachThePlugin` (`ActiveIsLoaded`) and the
action property `GhostsWaited` (`NoGhost`).  The
place of the respawn loop decides whether there is a socket and whether dispatch is blocked
(`Placed`), and only the client's child, or a daemon whose socket broke, is alive
(`Accounted`).  The loop has at most one request or answer on its way, of the kind it waits
for (`Waited`): this is what makes an answer tell which step of the restoration is over.
`Fresh` then says that the clock and the sample id are this daemon's, or unset, from the
moment the session is answered, and that nobody waits for a sample while the loop runs, so
that no play resumes in the middle of it.  A plugin is active only in the daemon that
confirmed it, or is about to be asked for again (`Reloaded`).  `Retried` is the last part:
without a socket and without a loop, the engine gave up, quit or missed the loss.
`GhostsWaited` needs an invariant of its own, `Lives`: what is queued was scheduled since
the last clear, and so was something whenever the sequence is live.

`RoutingsSurvive` (`RoutingAgrees`) follows the routing requests on the wire one by one
(`RInv`).  A call has one request or answer on its way, with the value it asked for
(`Items`).  With no *lone* call waiting, one that nothing crosses, the last request on the
wire asks for what the cache says, or the loop has not come to it yet, or a refusal of a
crossed request is on its way (`Agreement`).  A lone call is the only one, and until it is
answered the daemon has what the cache held before it, so that its refusal may put that
back (`Alone`).  Daemons not connected yet have the default (`NewDaemons`), and there is
one for every loss (`Counting`).

`EditorSession_proofs` proves, for any number of engines, calls and evaluations and any
text, `TypeCorrect`, `EveryEngineReached` (`NoStray`), `EveryLineOnce` (`LinesOnce`) and
`AnswersMatch` (`OwnAnswer`).  `NoStray` rests on two facts about events that come late:
a process announces its end only when it has ended (`Ended`), and one that is not yet
born announces nothing (`Unborn`).  For `LinesOnce`, what was written to a running
engine is what it handled, what its block buffer holds and the code in its pipe, in this
order (`Once`); the lines of code are filtered out of the pipe by a recursive function,
whose behaviour at both ends of a list is proved by induction.  For `OwnAnswer`, a
request in a pipe is of the kind of its call (`Addressed`), the device bridge's list has
every waiting device call once (`Queued`), and, unless such a call to this engine timed
out or such an answer of it was cut, the device requests in the pipe and the answers on
their way are the head of that list, and all of it while the engine runs (`Matching`).

`AudioCallback_proofs` proves, of `InstrumentEvents` and for any notes, slots, blocks and
deaths and any size of window, backlog and spill queue, `TypeCorrect`, `EventsSurvive`
(`EventsIntact`), `ChokesSurvive` (`ChokeProtects`) and `VoicesEnd` (`NoLeak`).  What was
accepted can be cut, in order, into what the plugin got, one piece for each window it has
still to take, and the backlog; the invariant says so with a function of the places of the
cuts (`Divided`), since a step that moves events from one list to the next leaves the whole
as it is.  For that the windows have to be the right ones.  `EventsIntact` and
`ChokeProtects` speak of the time before the first death (what a child that died had taken
is gone), and until then the child is where `seq_done` says and no more than `Slots` blocks
are open (`Places`), the tags are of finished blocks, the last of each slot (`Tags`), and
the drain is behind the child and at most `Slots` blocks behind the host (`Reader`).
`Others` is the rest of `TypeOK`.
`ChokeProtects` needs `Quelled`: for every released note that was not overtaken, an off or
a choke with no on behind it is on its way, in a window or the backlog or asked for by the
sticky flag, or the note is off and no on for it is.  Process folds over a window;
that the fold keeps what each event keeps is an induction over the window.

`NoLeak` is proved after any number of deaths and excepts what its statement names: runs
with a torn window and notes that are `brief`. `Voices` says that a note is counted at
most once, and has at most one on among all that is queued and written (`Once`).
`Follows` says that a counted voice is followed by something that will take it away: its
note waits in a window that the child has still to take, or sounds in the plugin
(`Rings`), or its end is on its way in a window, or in the spill queue, that the host
has not read; or the host will forget all voices, because an end was lost or a window
recycled before the drain came to it.  It speaks of every life of a child from the
submit at which the host sees the respawn (`Life`); before that the host forgets the
voices anyway, and it says nothing once a window was torn.  A plugin that ends a voice
by itself leaves the end where `Follows` looks for it, unless the note began in that
very block.

Of `MixerGraph` it proves, for any number of inserts, sums and auxes, calls and loads,
`MixTypeCorrect` and `BlocksAreWhole` (`MixedInItsBlock`).  `Mixer` has the shape of the
sessions' half (`Controls`: a call in progress routes and sends forward only, `RouteOK`)
and of the callback's (`Signal`), that the snapshot is for one block (`Fresh`), that the
loop adds up buffers that were zeroed (`Clean`), and `Conserved`: what hw has of a source,
and what the stages still to come hold of it times the paths from there, are together what
the graph owes.  One turn of the loop leaves that sum as it is (`Passed`): what a stage
holds times its paths is what it adds to its output and sends times theirs.  This is where
`Whole` is needed, since a stage the loop does not come to keeps what it got.  The paths are
counted by a function that calls itself for later stages; that it is well defined
(`RuleExists`), and what sums of values are (`TotalPlus`, `TotalTimes`, `TotalAt`), are
inductions.

The modules' named assumptions are all the proofs use: the types of the bounds and flags,
`Slots >= 2` and `EvtSlots >= 2` (the code's compile-time assertions), that no key is the
wildcard of a choke (keys are 0 to 127, the wildcard is -1), for `LiveLoop` that callbacks
are late by less than the lead and no more than half a pattern, and for `EnginePlayer` that
the plays are finitely many and a call is not named like the loop.  Some theorems
have a hypothesis of their own, as told above: `SafeMode` (slot pipeline), `OneSession`
(`OwnerLearnsTheEnd`) and `Prompt` (`Attended`, and another of this name for `EachEventOnce`);
without it TLC finds a counterexample.

Induction over data is carried out where it is needed, from the well-foundedness of the
order of the naturals (`Least`, `ByInduction`, for a set of numbers rather than a
predicate, which the provers could not instantiate).

Only model-checked: everything that is live (`StallEnds`, `Answered`, `CloseEnds`,
`CallsEnd`, `Settles`, `Told`, `Heard`, `NothingHangs`), which needs fairness and so
`ENABLED`.

## 6. Not modelled

* Memory ordering weaker than sequential consistency.  The release/acquire pairs of the
  code are taken to do what their comments say.
* Audio: partial buffers, frame counts, gain ramps, fades, panning, resampling, formats;
  capture, the egress ring of Link audio and the rebuilding of an output stream.
* Window geometry, titles, dirty notifications.
* The plugin itself and the plugin interfaces (CLAP, VST3, in-process hosting), the
  operating system's process and window services.
* The parser, the pattern's timing and chord calculation: pure functions of program text
  with unit tests of their own.  The editor's parser verdicts are an exception.
* The joining of a child's threads and its notice of an orphaned parent.
* The editor's saved device setting (written while an engine may be starting),
  `deactivate()`, which sends SIGTERM only, views, completion, the MCP transport.
* The plugin scanner, oracles, verification tools, spikes and wasm builds.

Most lines of the repository are input and output, foreign interfaces, arithmetic on
samples and presentation.  The map covers the control of the system's core; the greater
part of the code has none that a state machine would say more about than its tests do.

## 7. Plan

Done: the slot pipeline, the mailbox, the UI handshake, the supervisor, the instrument's
events, the engine's daemon client, playback, the mixer graph, live loops and the editor's
session.  Every safety property of the runs is proved.

What would add most, in this order:

1. The egress ring and the rebuilding of the output stream (`orbit-link-audio`,
   `orbit-audio-native`), against the callback.
2. Two sequences in `LiveLoop`, with `RUN` and `LOOP` lines that name both and a sample
   that one of them fails to load.
3. The daemon session's handshake and ticker with several sessions at once.
