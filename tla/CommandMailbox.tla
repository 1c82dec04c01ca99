--------------------------- MODULE CommandMailbox ---------------------------
(***************************************************************************)
(* The host-to-child command mailbox in the shared region: one command     *)
(* outstanding at a time, posted under the coordinator's mutex, awaited    *)
(* without it.  Commands time out, the child dies with a command in hand,  *)
(* and the watchdog resets the mailbox before it starts a replacement.     *)
(* State saving puts its result in a temporary file (the sidecar), which   *)
(* the caller renames over the final path.                                 *)
(*                                                                         *)
(* Each step below is one critical section of the mutex, or one unlocked   *)
(* access to the region: those are the points where others can run.        *)
(***************************************************************************)
EXTENDS Integers, FiniteSets

CONSTANTS
    Issuers,    \* threads that issue commands (one per client session)
    MaxCmds,    \* bound: commands posted
    MaxDeaths,  \* bound: deaths of the child process
    MaxPolls    \* polls before a waiting issuer's timeout expires

ASSUME MailboxAssumption ==
    /\ IsFiniteSet(Issuers)
    /\ MaxCmds \in Nat /\ MaxDeaths \in Nat /\ MaxPolls \in Nat

VARIABLES
    cmdSeq, cmdKind, ackSeq,  \* shm cmd_seq, cmd_kind, cmd_ack_seq
    reply,       \* shm cmd_result with its length and detail: whose answer it is (0: cleared)
    generation,  \* coordinator state, under the mutex
    inFlight,    \* coordinator state, under the mutex
    call,        \* each issuer's issue_command call
    childPc,     \* the child: "idle", "executing", or "dead", "reset" (ready to respawn), "gone"
    childSeq,    \* the command it executes
    deaths,
    sidecar,     \* temporary files on disk, by command: "partial" or "complete"
    final,       \* the state files renamed into place, by command
    succeeded,   \* history: commands a child answered with success
    undeleted,   \* history: sidecars whose removal failed and was reported
    unnoticed    \* history: sidecars whose removal by the caller failed, with nobody told

shm == <<cmdSeq, cmdKind, ackSeq, reply>>
child == <<childPc, childSeq, deaths>>
files == <<sidecar, final, succeeded, undeleted, unnoticed>>
vars == <<shm, generation, inFlight, call, child, files>>

Kinds == {"save", "ui"}
NoCommand == [seq |-> 0, gen |-> 0, abandoned |-> FALSE, kind |-> "ui"]
NoCall == [pc |-> "idle", kind |-> "ui", seq |-> 0, gen |-> 0, polls |-> 0,
           got |-> [result |-> "ok", of |-> 0], outcome |-> "none"]
Without(f, s) == [x \in DOMAIN f \ {s} |-> f[x]]
With(f, s, v) == [x \in DOMAIN f \cup {s} |-> IF x = s THEN v ELSE f[x]]

Init ==
    /\ cmdSeq = 0 /\ cmdKind = "none" /\ ackSeq = 0
    /\ reply = [result |-> "ok", of |-> 0]
    /\ generation = 0 /\ inFlight = NoCommand
    /\ call = [i \in Issuers |-> NoCall]
    /\ childPc = "idle" /\ childSeq = 0 /\ deaths = 0
    /\ sidecar = [s \in {} |-> "partial"] /\ final = {} /\ succeeded = {}
    /\ undeleted = {} /\ unnoticed = {}

-----------------------------------------------------------------------------
(* Issuing a command.  While one is outstanding the call fails at once with *)
(* Busy or Poisoned and changes nothing.                                    *)

Outstanding == inFlight # NoCommand

\* Mistake: a timeout alone frees the mailbox.
MistakeFreeOnTimeout == inFlight.abandoned

\* Mistake: the answer alone frees the mailbox, before its caller has read it.
MistakeFreeOnAnswer == ackSeq = inFlight.seq

\* An abandoned command whose late answer has arrived gives its slot back.
Releasable == inFlight.abandoned /\ ackSeq = inFlight.seq

\* Mistake: the leftover sidecar is forgotten instead of removed.
MistakeKeepsSidecar(ok) == UNCHANGED <<sidecar, undeleted>>

\* Removing the outstanding command's sidecar: it works, finds nothing, or fails loudly.
CleanUp(ok) ==
    IF ok THEN sidecar' = Without(sidecar, inFlight.seq) /\ UNCHANGED undeleted
          ELSE /\ inFlight.seq \in DOMAIN sidecar
               /\ undeleted' = undeleted \cup {inFlight.seq}
               /\ UNCHANGED sidecar

\* The slot is free, but the leftover sidecar cannot be removed or the argument
\* does not fit: the call fails and nothing is in flight.
Reject(i) ==
    /\ call[i].pc = "idle"
    /\ Outstanding => Releasable
    /\ \E ok \in BOOLEAN : CleanUp(ok)
    /\ inFlight' = NoCommand
    /\ UNCHANGED <<shm, generation, call, child, final, succeeded, unnoticed>>

Post(i, kind) ==
    /\ call[i].pc = "idle" /\ cmdSeq < MaxCmds
    /\ Outstanding => Releasable
    /\ CleanUp(TRUE)
    /\ cmdSeq' = cmdSeq + 1
    /\ cmdKind' = kind
    /\ reply' = [result |-> "ok", of |-> 0]
    /\ inFlight' = [seq |-> cmdSeq', gen |-> generation, abandoned |-> FALSE, kind |-> kind]
    /\ call' = [call EXCEPT ![i] = [NoCall EXCEPT !.pc = "check", !.kind = kind,
                                                  !.seq = cmdSeq', !.gen = generation]]
    /\ UNCHANGED <<ackSeq, generation, child, final, succeeded, unnoticed>>

-----------------------------------------------------------------------------
(* Waiting for the answer. *)

Mine(i) == inFlight.seq = call[i].seq /\ inFlight.gen = call[i].gen
Abandon(i) == inFlight' = IF Mine(i) THEN [inFlight EXCEPT !.abandoned = TRUE] ELSE inFlight

Return(i, outcome) == call' = [call EXCEPT ![i].outcome = outcome, ![i].pc = "returned"]

\* Under the mutex: a new generation means the child died and the mailbox was reset.
CheckGeneration(i) ==
    /\ call[i].pc = "check"
    /\ IF generation # call[i].gen
         THEN Return(i, "exited")
         ELSE call' = [call EXCEPT ![i].pc = "load"]
    /\ UNCHANGED <<shm, generation, inFlight, child, files>>

\* Mistake: the clock is not looked at while the child keeps silent.
MistakeNoTimeout(polls) == "check"

AfterSilence(polls) == IF polls < MaxPolls THEN "check" ELSE "expired"

\* Unlocked: look at cmd_ack_seq; when it is not there yet, sleep or give up.
LoadAck(i) ==
    /\ call[i].pc = "load"
    /\ LET polls == call[i].polls
       IN  \/ ackSeq = call[i].seq /\ call' = [call EXCEPT ![i].pc = "read"]
           \/ ackSeq > call[i].seq /\ call' = [call EXCEPT ![i].pc = "overtaken"]
           \/ /\ ackSeq < call[i].seq
              /\ call' = [call EXCEPT ![i].pc = AfterSilence(polls),
                                      ![i].polls = IF polls < MaxPolls THEN polls + 1 ELSE polls]
    /\ UNCHANGED <<shm, generation, inFlight, child, files>>

\* Unlocked: read the result, its length and its detail, in one step: whoever writes them
\* meanwhile has reset the mailbox first, and the answer read is already another's.
ReadReply(i) ==
    /\ call[i].pc = "read"
    /\ call' = [call EXCEPT ![i].got = reply, ![i].pc = "settle"]
    /\ UNCHANGED <<shm, generation, inFlight, child, files>>

Settle(i) ==
    /\ call[i].pc = "settle"
    /\ inFlight' = IF Mine(i) THEN NoCommand ELSE inFlight
    /\ Return(i, call[i].got.result)
    /\ UNCHANGED <<shm, generation, child, files>>

\* An answer to a later command, or the timeout: the slot stays taken until acknowledged.
GiveUp(i) ==
    /\ call[i].pc \in {"overtaken", "expired"}
    /\ Abandon(i)
    /\ Return(i, IF call[i].pc = "expired" THEN "timeout" ELSE "protocol")
    /\ UNCHANGED <<shm, generation, child, files>>

\* Mistake: whatever lies at the temporary path is renamed.
MistakeTrustsPath(i) == call[i].seq \in DOMAIN sidecar

\* Acknowledged with a length, and the file at the temporary path has that length.
Verified(i) ==
    /\ call[i].outcome = "ok" /\ call[i].got.of # 0
    /\ call[i].seq \in DOMAIN sidecar /\ sidecar[call[i].seq] = "complete"

\* Mistake: the file is left where it is when the save did not succeed.
MistakeNotDiscarded(s) == UNCHANGED <<sidecar, unnoticed>>

\* The caller removes its temporary file, without looking whether that worked.
Discard(s) ==
    \/ sidecar' = Without(sidecar, s) /\ UNCHANGED unnoticed
    \/ s \in DOMAIN sidecar /\ unnoticed' = unnoticed \cup {s} /\ UNCHANGED sidecar

\* The caller.  save_outproc_plugin_state renames a sidecar of the acknowledged length; it
\* keeps it after a timeout and removes it otherwise, also when the rename failed.
Conclude(i) ==
    /\ call[i].pc = "returned"
    /\ LET s == call[i].seq
       IN  \/ /\ call[i].kind = "ui" \/ call[i].outcome = "timeout"
              /\ UNCHANGED <<final, sidecar, unnoticed>>
           \/ /\ call[i].kind = "save" /\ Verified(i)
              /\ final' = final \cup {s}
              /\ sidecar' = Without(sidecar, s)
              /\ UNCHANGED unnoticed
           \/ /\ call[i].kind = "save" /\ call[i].outcome # "timeout"
              /\ Discard(s)
              /\ UNCHANGED final
    /\ call' = [call EXCEPT ![i] = NoCall]
    /\ UNCHANGED <<shm, generation, inFlight, child, succeeded, undeleted>>

IssuerStep(i) ==
    \/ CheckGeneration(i) \/ LoadAck(i) \/ ReadReply(i) \/ Settle(i) \/ GiveUp(i)
    \/ Conclude(i)

-----------------------------------------------------------------------------
(* The child's main loop and its watchdog. *)

Fetch ==
    /\ childPc = "idle" /\ cmdSeq > ackSeq
    /\ childPc' = "executing"
    /\ childSeq' = cmdSeq
    /\ UNCHANGED <<shm, generation, inFlight, call, deaths, files>>

\* write_sidecar creates the file, then fills and syncs it.
WriteSidecar ==
    /\ childPc = "executing" /\ cmdKind = "save"
    /\ \/ childSeq \notin DOMAIN sidecar /\ sidecar' = With(sidecar, childSeq, "partial")
       \/ /\ childSeq \in DOMAIN sidecar /\ sidecar[childSeq] = "partial"
          /\ sidecar' = With(sidecar, childSeq, "complete")
    /\ UNCHANGED <<shm, generation, inFlight, call, child, final, succeeded, undeleted, unnoticed>>

Answer(result) ==
    /\ childPc = "executing"
    /\ result = "ok" /\ cmdKind = "save" =>
          childSeq \in DOMAIN sidecar /\ sidecar[childSeq] = "complete"
    /\ reply' = [result |-> result, of |-> childSeq]
    /\ ackSeq' = childSeq
    /\ succeeded' = IF result = "ok" THEN succeeded \cup {childSeq} ELSE succeeded
    /\ childPc' = "idle"
    /\ UNCHANGED <<cmdSeq, cmdKind, generation, inFlight, call, childSeq, deaths, sidecar, final,
                   undeleted, unnoticed>>

Die ==
    /\ childPc \in {"idle", "executing"} /\ deaths < MaxDeaths
    /\ childPc' = "dead"
    /\ deaths' = deaths + 1
    /\ UNCHANGED <<shm, generation, inFlight, call, childSeq, files>>

\* Mistake: the replacement finds the command its predecessor did not answer.
MistakeLeavesCommand == UNCHANGED <<cmdSeq, ackSeq, reply, cmdKind>>

\* Mistake: the replacement starts from a zeroed command counter.
MistakeZeroesCounter ==
    /\ cmdSeq' = 0
    /\ reply' = [result |-> "exited", of |-> 0] /\ ackSeq' = cmdSeq
    /\ cmdKind' = "none"

\* reset_child_starting: an unanswered command is answered for the dead child, and
\* cmd_seq is left alone, so that no later command reuses its number.
AnswerForDead ==
    /\ UNCHANGED cmdSeq
    /\ IF cmdSeq > ackSeq
         THEN reply' = [result |-> "exited", of |-> 0] /\ ackSeq' = cmdSeq
         ELSE UNCHANGED <<reply, ackSeq>>
    /\ cmdKind' = "none"

\* Under the mutex; when the sidecar cannot be removed the watchdog gives up.
ResetAfterChildExit ==
    /\ childPc = "dead"
    /\ AnswerForDead
    /\ generation' = generation + 1
    /\ inFlight' = NoCommand
    /\ \E ok \in BOOLEAN : CleanUp(ok) /\ childPc' = IF ok THEN "reset" ELSE "gone"
    /\ UNCHANGED <<call, childSeq, deaths, final, succeeded, unnoticed>>

Spawn ==
    /\ childPc = "reset"
    /\ childPc' = "idle"
    /\ UNCHANGED <<shm, generation, inFlight, call, childSeq, deaths, files>>

Next ==
    \/ \E i \in Issuers :
          \/ Reject(i) \/ \E kind \in Kinds : Post(i, kind)
          \/ IssuerStep(i)
    \/ Fetch \/ WriteSidecar \/ \E result \in {"ok", "failed"} : Answer(result)
    \/ Die \/ ResetAfterChildExit \/ Spawn

\* Issuing threads run; the child may hang and the watchdog is not relied upon.
Fairness == \A i \in Issuers : WF_vars(IssuerStep(i))

Spec == Init /\ [][Next]_vars
FairSpec == Spec /\ Fairness

-----------------------------------------------------------------------------
(* Properties. *)

Outcomes == {"none", "ok", "failed", "exited", "timeout", "protocol"}
Replies == [result : {"ok", "failed", "exited"}, of : Nat]

TypeOK ==
    /\ cmdSeq \in 0 .. MaxCmds /\ cmdKind \in Kinds \cup {"none"} /\ ackSeq \in 0 .. cmdSeq
    /\ reply \in Replies
    /\ generation \in Nat
    /\ inFlight \in [seq : Nat, gen : Nat, abandoned : BOOLEAN, kind : Kinds]
    /\ call \in [Issuers ->
          [pc : {"idle", "check", "load", "read", "settle", "overtaken", "expired", "returned"},
           kind : Kinds, seq : Nat, gen : Nat, polls : Nat, got : Replies, outcome : Outcomes]]
    /\ childPc \in {"idle", "executing", "dead", "reset", "gone"}
    /\ childSeq \in Nat /\ deaths \in Nat
    /\ DOMAIN sidecar \subseteq Nat
    /\ \A s \in DOMAIN sidecar : sidecar[s] \in {"partial", "complete"}
    /\ final \subseteq Nat /\ succeeded \subseteq Nat /\ undeleted \subseteq Nat
    /\ unnoticed \subseteq Nat

\* Discipline 0 of the mailbox: a command is never posted over one that has not
\* been answered, whatever timed out or died in between.
NeverOverwritten == [][cmdSeq' # cmdSeq => ackSeq = cmdSeq]_vars

\* Discipline 0-b: what a child executes is always the command the coordinator
\* holds, of its own generation; a replacement never redoes its predecessor's.
NoReplay == childPc = "executing" => inFlight.seq = childSeq /\ inFlight.gen = generation

\* A caller told that its command succeeded was told so of its own command, as
\* long as the child it asked is still the one in place.
OkWithinLife ==
    \A i \in Issuers :
        call[i].outcome = "ok" /\ call[i].gen = generation
            => call[i].seq \in succeeded

\* The same without the proviso, which does not hold: the answer to a dead
\* child's command can be taken for that of its replacement's (see the README).
OkIsOwn == \A i \in Issuers : call[i].outcome = "ok" => call[i].seq \in succeeded

\* Every temporary file has someone who will still remove or rename it, or its
\* removal was tried and failed: reported by the coordinator, or unnoticed by
\* the caller, which drops the error of remove_file.
SidecarsAccounted ==
    \A s \in DOMAIN sidecar :
        \/ s = inFlight.seq
        \/ s \in undeleted \cup unnoticed
        \/ \E i \in Issuers : call[i].pc # "idle" /\ call[i].kind = "save" /\ call[i].seq = s

\* Only state a child reported as completely saved is renamed into place.
FinalIsSaved == final \subseteq succeeded

\* The files of a save: none is lost sight of, and none that is not complete
\* takes the place of the saved state.
FilesAccounted == SidecarsAccounted /\ FinalIsSaved

\* Every call returns, with a hung or dead child too.
Answered == \A i \in Issuers : call[i].pc # "idle" ~> call[i].pc = "idle"
=============================================================================
