---------------------------- MODULE EditorSession ----------------------------
(***************************************************************************)
(* The editor's side: the VS Code extension's one engine handle, the node  *)
(* processes it spawns one after the other, the pipes between them, the    *)
(* REPL's line queue at their far end, and the bridges that wait for an    *)
(* answer line.  The device bridge matches answers first come first        *)
(* served, the plugin-state and the plugin-UI bridge by request id: one    *)
(* kind, "keyed", stands for both.                                         *)
(*                                                                         *)
(* An action is one event of the extension host or of the engine's event   *)
(* loop.  Events of a process (its output, its exit, an EPIPE) arrive in   *)
(* any order, and after the next process was spawned.                      *)
(***************************************************************************)
EXTENDS Integers, SequencesExt

CONSTANTS
    Calls,       \* agent calls that wait for an answer line
    Texts,       \* what an evaluation sends: sequences of line kinds
    MaxEngines,  \* bound: processes spawned
    MaxEvals     \* bound: evaluations

Engines == 1 .. MaxEngines
Kinds == {"device", "keyed"}
CodeKinds == {"whole", "open", "close", "bad"}
LineKinds == CodeKinds \union {"blank"}

ASSUME EditorSessionAssumption ==
    MaxEngines \in Nat \ {0} /\ MaxEvals \in Nat /\ Texts \subseteq Seq(LineKinds)

VARIABLES
    current, born,    \* engineProcess (0 = null); processes spawned so far
    life, notice,     \* a process; its 'exit' or 'error' event still to come
    told, timer,      \* sent SIGTERM; their two-second timers
    pipe,             \* its stdin as the extension sees it
    stdin, stdout,    \* lines written and not taken up, printed and not read
    busy, buffer, empties,       \* the REPL: line in execution, incomplete input,
                                 \* blank lines in a row
    call, queue,      \* the calls; the device bridge's pending list
    evals, written, handled,  \* history: code lines sent and carried out
    astray            \* history: engines a device call gave up on, or whose device
                      \* answer was cut in two

processes == <<current, born, life, notice, told, timer>>
pipes == <<pipe, stdin, stdout>>
repl == <<busy, buffer, empties>>
bridges == <<call, queue>>
history == <<evals, written, handled, astray>>
vars == <<processes, pipes, repl, bridges, history>>

Idle == [kind |-> "idle", call |-> "none"]
Unsent == [pc |-> "idle", kind |-> "keyed", to |-> 0, by |-> "none", from |-> 0]

Init ==
    /\ current = 0 /\ born = 0
    /\ life = [p \in Engines |-> "unborn"] /\ notice = [p \in Engines |-> "none"]
    /\ told = {} /\ timer = {}
    /\ pipe = [p \in Engines |-> "open"]
    /\ stdin = [p \in Engines |-> <<>>] /\ stdout = [p \in Engines |-> <<>>]
    /\ busy = [p \in Engines |-> Idle] /\ buffer = [p \in Engines |-> <<>>]
    /\ empties = [p \in Engines |-> 0]
    /\ call = [c \in Calls |-> Unsent] /\ queue = <<>>
    /\ evals = 0 /\ written = [p \in Engines |-> <<>>]
    /\ handled = [p \in Engines |-> <<>>] /\ astray = {}

\* The lines of these kinds, in their order.
OfKind(lines, kinds) ==
    LET picked[i \in 0 .. Len(lines)] ==
            IF i = 0 THEN <<>>
            ELSE IF lines[i].kind \in kinds THEN Append(picked[i - 1], lines[i])
            ELSE picked[i - 1]
    IN picked[Len(lines)]

Alive(p) == life[p] = "live"
Waiting(c) == call[c].pc = "waiting"
Failed == [Unsent EXCEPT !.pc = "failed"]

-----------------------------------------------------------------------------
(* The engine process.                                                     *)

\* SIGTERM's shutdown() ends it, or it crashes, is killed, runs out of memory.
Die(p) ==
    /\ life' = [life EXCEPT ![p] = "dead"]
    /\ notice' = [notice EXCEPT ![p] = "exit"]
    /\ stdin' = [stdin EXCEPT ![p] = <<>>]
    /\ busy' = [busy EXCEPT ![p] = Idle]
    /\ buffer' = [buffer EXCEPT ![p] = <<>>]
    /\ empties' = [empties EXCEPT ![p] = 0]
    /\ written' = [written EXCEPT ![p] = <<>>] /\ handled' = [handled EXCEPT ![p] = <<>>]
    /\ UNCHANGED <<current, born, told, pipe, stdout, bridges, evals, astray>>

Exits(p) == Alive(p) /\ Die(p) /\ UNCHANGED timer

\* The parser's verdict, for the kinds of line there are: input it cannot
\* continue, and input that ends too early.
SyntaxError(code) ==
    \E i \in DOMAIN code :
        \/ code[i].kind = "bad"
        \/ code[i].kind = "close" /\ (i = 1 \/ code[i - 1].kind # "open")
        \/ code[i].kind = "open" /\ i < Len(code) /\ code[i + 1].kind # "close"
EndsEarly(code) == ~SyntaxError(code) /\ Last(code).kind = "open"

\* executeCurrentBuffer up to its await: incomplete input waits for more, unless
\* forced; a syntax error drops it; the rest is executed.
ExecuteBuffer(p, code, forced) ==
    IF EndsEarly(code) /\ ~forced
    THEN /\ buffer' = [buffer EXCEPT ![p] = code]
         /\ UNCHANGED <<busy, handled>>
    ELSE /\ handled' = [handled EXCEPT ![p] = @ \o code]
         /\ IF SyntaxError(code) \/ EndsEarly(code)
            THEN buffer' = [buffer EXCEPT ![p] = <<>>] /\ UNCHANGED busy
            ELSE /\ buffer' = [buffer EXCEPT ![p] = code]
                 /\ busy' = [busy EXCEPT ![p] = [Idle EXCEPT !.kind = "code"]]

\* Mutant: a line does not wait for the one before it (#476).
FreeForInput(p) == Alive(p) /\ busy[p].kind \in {"idle", "code"}

\* lineQueue: the next line only when the last one has been carried out.
FreeForNext(p) == Alive(p) /\ busy[p].kind = "idle"

TakesLine(p) ==
    /\ FreeForNext(p) /\ stdin[p] # <<>>
    /\ stdin' = [stdin EXCEPT ![p] = Tail(@)]
    /\ UNCHANGED <<processes, pipe, stdout, bridges, evals, written, astray>>

\* A meta line goes past the buffer, which stays as it is.
MetaLine(p) ==
    /\ TakesLine(p) /\ Head(stdin[p]).kind \in Kinds
    /\ busy' = [busy EXCEPT ![p] = Head(stdin[p])]
    /\ UNCHANGED <<buffer, empties, handled>>

\* The second blank line in a row forces what is in the buffer.
BlankLine(p) ==
    /\ TakesLine(p) /\ Head(stdin[p]).kind = "blank"
    /\ IF empties[p] >= 1 /\ buffer[p] # <<>>
       THEN empties' = [empties EXCEPT ![p] = 0] /\ ExecuteBuffer(p, buffer[p], TRUE)
       ELSE /\ empties' = [empties EXCEPT ![p] = IF @ < 2 THEN @ + 1 ELSE @]
            /\ UNCHANGED <<busy, buffer, handled>>

CodeLine(p) ==
    /\ TakesLine(p) /\ Head(stdin[p]).kind \in CodeKinds
    /\ empties' = [empties EXCEPT ![p] = 0]
    /\ ExecuteBuffer(p, Append(buffer[p], Head(stdin[p])), FALSE)

\* interpreter.execute has resolved or thrown; nothing bounds how long it takes.
CodeDone(p) ==
    /\ Alive(p) /\ busy[p].kind = "code"
    /\ busy' = [busy EXCEPT ![p] = Idle]
    /\ buffer' = [buffer EXCEPT ![p] = <<>>]
    /\ UNCHANGED <<processes, pipes, empties, bridges, history>>

\* One answer line, whether the command succeeded or threw.
MetaDone(p) ==
    /\ Alive(p) /\ busy[p].kind \in Kinds
    /\ stdout' = [stdout EXCEPT ![p] = Append(@, busy[p])]
    /\ busy' = [busy EXCEPT ![p] = Idle]
    /\ UNCHANGED <<processes, pipe, stdin, buffer, empties, bridges, history>>

-----------------------------------------------------------------------------
(* The extension: the engine handle.                                       *)

\* spawn returns a handle; a spawn that fails says so later, by 'error' alone.
Start ==
    /\ current = 0 /\ born < MaxEngines
    /\ born' = born + 1 /\ current' = born + 1
    /\ \/ life' = [life EXCEPT ![born + 1] = "live"] /\ UNCHANGED notice
       \/ /\ life' = [life EXCEPT ![born + 1] = "dead"]
          /\ notice' = [notice EXCEPT ![born + 1] = "error"]
    /\ UNCHANGED <<told, timer, pipes, repl, bridges, history>>

\* Every call that still waits is answered with a failure.
DrainAll ==
    /\ queue' = <<>>
    /\ call' = [c \in Calls |-> IF Waiting(c) THEN Failed ELSE call[c]]

\* Mutant: the calls are left to the next process.
StopUndrained ==
    /\ current # 0
    /\ told' = told \union {current} /\ timer' = timer \union {current}
    /\ current' = 0
    /\ UNCHANGED <<born, life, notice, pipes, repl, bridges, history>>

\* stopEngine: the handle goes at once, the process on SIGTERM or two seconds later.
Stop ==
    /\ current # 0
    /\ told' = told \union {current} /\ timer' = timer \union {current}
    /\ current' = 0
    /\ DrainAll
    /\ UNCHANGED <<born, life, notice, pipes, repl, history>>

\* Mutant: "a signal was sent" taken for "it has exited" (#532).
StillRuns(p) == Alive(p) /\ p \notin told

\* exitCode and signalCode are both null.
NotExited(p) == Alive(p)

KillTimer(p) ==
    /\ p \in timer
    /\ timer' = timer \ {p}
    /\ IF NotExited(p) THEN Die(p)
       ELSE UNCHANGED <<current, born, life, notice, told, pipes, repl, bridges, history>>

\* Mutant: the event clears the handle whoever it belongs to (#528).
ClearAnyway(p) == current' = 0 /\ DrainAll

\* Only the current engine's end clears the handle and fails the calls.
ClearIfCurrent(p) ==
    IF p = current THEN current' = 0 /\ DrainAll ELSE UNCHANGED <<current, bridges>>

Noticed(p, event) ==
    /\ notice[p] = event
    /\ notice' = [notice EXCEPT ![p] = "none"]
    /\ UNCHANGED <<born, life, told, timer, pipes, repl, history>>

ExitEvent(p) == Noticed(p, "exit") /\ ClearIfCurrent(p)

\* Mutant: a failed spawn is logged only (#533).
ErrorLogged(p) == Noticed(p, "error") /\ UNCHANGED <<current, bridges>>

ErrorEvent(p) == Noticed(p, "error") /\ ClearIfCurrent(p)

\* An EPIPE of an engine that is still current fails the calls, not the handle.
StdinError(p) ==
    /\ pipe[p] = "broken"
    /\ pipe' = [pipe EXCEPT ![p] = "closed"]
    /\ IF p = current THEN DrainAll ELSE UNCHANGED bridges
    /\ UNCHANGED <<processes, stdin, stdout, repl, history>>

-----------------------------------------------------------------------------
(* The extension: what it sends and what comes back.                       *)

Writable == current # 0 /\ pipe[current] # "closed"

\* A write to a process that is gone breaks the pipe.
WriteLines(lines) ==
    IF Alive(current)
    THEN /\ stdin' = [stdin EXCEPT ![current] = @ \o lines]
         /\ UNCHANGED <<pipe, stdout>>
    ELSE /\ pipe' = [pipe EXCEPT ![current] = "broken"]
         /\ UNCHANGED <<stdin, stdout>>

\* The code and its line breaks arrive as one chunk.
Evaluate(text) ==
    /\ Writable /\ evals < MaxEvals
    /\ evals' = evals + 1
    /\ LET line(i) == [kind |-> text[i], call |-> <<evals, i>>]
           lines == [i \in DOMAIN text |-> line(i)]
       IN /\ WriteLines(lines)
          /\ written' = IF Alive(current)
                        THEN [written EXCEPT ![current] = @ \o OfKind(lines, CodeKinds)]
                        ELSE written
    /\ UNCHANGED <<processes, repl, bridges, handled, astray>>

\* A meta line with its pending entry; without a writable stdin the call is refused.
Send(c, kind) ==
    /\ call[c].pc = "idle" /\ current # 0
    /\ IF Writable
       THEN /\ call' = [call EXCEPT ![c] = [Unsent EXCEPT !.pc = "waiting", !.kind = kind,
                                                          !.to = current]]
            /\ queue' = IF kind = "device" THEN Append(queue, c) ELSE queue
            /\ WriteLines(<<[kind |-> kind, call |-> c]>>)
       ELSE /\ call' = [call EXCEPT ![c] = Failed]
            /\ UNCHANGED <<queue, pipes>>
    /\ UNCHANGED <<processes, repl, history>>

\* 10 s for a device or a state, 35 s for a plugin window.
TimesOut(c) ==
    /\ Waiting(c)
    /\ call' = [call EXCEPT ![c] = Failed]
    /\ queue' = RemoveFirst(queue, c)
    /\ astray' = IF call[c].kind = "device" THEN astray \union {call[c].to} ELSE astray
    /\ UNCHANGED <<processes, pipes, repl, evals, written, handled>>

Answered(c, line, p) ==
    call' = [call EXCEPT ![c] = [@ EXCEPT !.pc = "answered", !.by = line.call, !.from = p]]

\* The oldest device call gets the answer, or the call the answer names.
Matched(line, p) ==
    IF line.kind = "device"
    THEN /\ queue # <<>>
         /\ Answered(Head(queue), line, p)
         /\ queue' = Tail(queue)
    ELSE /\ Waiting(line.call)
         /\ Answered(line.call, line, p)
         /\ UNCHANGED queue

HasTaker(line) == IF line.kind = "device" THEN queue # <<>> ELSE Waiting(line.call)

\* Mutant: a stale engine's lines are matched too (#528).
TakenFrom(p) == TRUE

\* Lines of an engine that is not current any more reach no bridge.
HeardFrom(p) == p = current

StdoutLine(p) ==
    /\ stdout[p] # <<>>
    /\ stdout' = [stdout EXCEPT ![p] = Tail(@)]
    /\ LET line == Head(stdout[p])
       IN IF HeardFrom(p) /\ HasTaker(line) THEN Matched(line, p) ELSE UNCHANGED bridges
    /\ UNCHANGED <<processes, pipe, stdin, repl, history>>

\* The line comes in two chunks: each chunk is split for itself, with no remainder carried
\* over, neither piece parses, and no bridge hears of it.
StdoutCut(p) ==
    /\ stdout[p] # <<>>
    /\ stdout' = [stdout EXCEPT ![p] = Tail(@)]
    /\ astray' = IF Head(stdout[p]).kind = "device" THEN astray \union {p} ELSE astray
    /\ UNCHANGED <<processes, pipe, stdin, repl, bridges, evals, written, handled>>

Repl(p) ==
    \/ Exits(p) \/ MetaLine(p) \/ BlankLine(p) \/ CodeLine(p) \/ CodeDone(p) \/ MetaDone(p)

Events(p) ==
    \/ KillTimer(p) \/ ExitEvent(p) \/ ErrorEvent(p) \/ StdinError(p)
    \/ StdoutLine(p) \/ StdoutCut(p)

Next ==
    \/ Start \/ Stop
    \/ \E p \in Engines : Repl(p) \/ Events(p)
    \/ \E t \in Texts : Evaluate(t)
    \/ \E c \in Calls : TimesOut(c) \/ \E k \in Kinds : Send(c, k)

Spec == Init /\ [][Next]_vars

\* The extension host's timers and events come; nothing is promised of the
\* engine, which may hang in a line or ignore SIGTERM.
FairSpec ==
    /\ Spec
    /\ \A p \in Engines : WF_vars(KillTimer(p)) /\ WF_vars(ExitEvent(p) \/ ErrorEvent(p))

-----------------------------------------------------------------------------
(* Properties.                                                             *)

\* Types of every variable.
TypeOK ==
    /\ current \in Engines \union {0} /\ born \in Engines \union {0}
    /\ life \in [Engines -> {"unborn", "live", "dead"}]
    /\ notice \in [Engines -> {"none", "exit", "error"}]
    /\ told \subseteq Engines /\ timer \subseteq told
    /\ pipe \in [Engines -> {"open", "broken", "closed"}]
    /\ \A p \in Engines : busy[p].kind \in Kinds \union {"idle", "code"}
    /\ empties \in [Engines -> 0 .. 2]
    /\ \A c \in Calls : call[c].pc \in {"idle", "waiting", "answered", "failed"}
    /\ queue \in Seq(Calls) /\ evals \in 0 .. MaxEvals /\ astray \subseteq Engines

\* A running engine is the one the extension can still reach, or one it has
\* told to stop: no event of an earlier process loses the handle of a later.
NoStray == \A p \in Engines : Alive(p) => p = current \/ p \in told

\* An answer comes from the engine the call was sent to and answers that call;
\* a device call may get another's only after one to that engine timed out or
\* one of that engine's device answers was cut at the end of a chunk.
OwnAnswer ==
    \A c \in Calls : call[c].pc = "answered" =>
        /\ call[c].from = call[c].to
        /\ call[c].by = c \/ (call[c].kind = "device" /\ call[c].to \in astray)

\* Every line of code a living engine got is carried out (or refused by the
\* parser) once and in order, waits in the queue, or waits for its other half.
LinesOnce ==
    \A p \in Engines : Alive(p) =>
        written[p] = handled[p]
            \o (IF busy[p].kind = "code" THEN <<>> ELSE buffer[p])
            \o OfKind(stdin[p], CodeKinds)

\* An engine told to stop ends, even one that hangs; an engine that ended, or
\* never started, is not kept as current.
StoppedEnds == \A p \in Engines : p \in told ~> ~Alive(p)
EndIsNoticed == \A p \in Engines : (current = p /\ ~Alive(p)) ~> current # p
NothingHangs == StoppedEnds /\ EndIsNoticed

=============================================================================
