------------------------ MODULE CommandMailbox_proofs ------------------------
(***************************************************************************)
(* Proofs about CommandMailbox, for any number of sessions, commands,      *)
(* deaths and polls.                                                       *)
(***************************************************************************)
EXTENDS CommandMailbox, TLAPS

\* The slot is empty exactly when nothing waits for an answer, and else holds the newest
\* command, of this generation.
Slot ==
    /\ inFlight = NoCommand => ackSeq = cmdSeq
    /\ inFlight # NoCommand =>
          /\ inFlight.seq = cmdSeq /\ cmdSeq > 0
          /\ inFlight.gen = generation /\ inFlight.kind = cmdKind

\* The child executes the newest command, which nobody has answered.
Executing == childPc = "executing" => childSeq = cmdSeq /\ ackSeq < cmdSeq

\* A good answer to the command in the slot is the child's.
Reply ==
    /\ inFlight # NoCommand /\ ackSeq = cmdSeq /\ reply.result = "ok" => cmdSeq \in succeeded
    /\ reply.result = "exited" => reply.of = 0

\* The numbers of the calls.
Numbered ==
    \A i \in Issuers :
        /\ call[i].pc = "idle" => call[i] = NoCall
        /\ call[i].pc # "idle" =>
              /\ call[i].seq > 0 /\ call[i].seq <= cmdSeq /\ call[i].gen <= generation
              /\ call[i].gen < generation /\ inFlight # NoCommand => call[i].seq < cmdSeq
        /\ call[i].pc \in {"read", "settle"} => call[i].seq <= ackSeq

Distinct ==
    \A i, j \in Issuers :
        i # j /\ call[i].pc # "idle" /\ call[j].pc # "idle" => call[i].seq # call[j].seq

\* While its child lives, the slot belongs to the call that waits.
Waits(i) == call[i].pc \in {"check", "load", "read", "settle", "overtaken", "expired"}
Waiting ==
    \A i \in Issuers :
        Waits(i) /\ call[i].gen = generation =>
            inFlight.seq = call[i].seq /\ ~inFlight.abandoned /\ inFlight.kind = call[i].kind

\* What a caller was told while its child lived is true.
Told ==
    \A i \in Issuers :
        /\ call[i].pc = "settle" /\ call[i].gen = generation /\ call[i].got.result = "ok"
              => call[i].seq \in succeeded
        /\ call[i].outcome = "ok" => call[i].pc = "returned" /\ call[i].got.result = "ok"
        /\ call[i].outcome = "ok" /\ call[i].gen = generation => call[i].seq \in succeeded

\* The answer that can be read is nobody's success.
NoNews == childPc = "gone" /\ (reply.of = 0 \/ reply.result # "ok")

\* What a caller is told after its child's death does not make it take an unfinished file.
Cheated ==
    \A i \in Issuers :
        /\ call[i].pc \in {"check", "load", "read"} /\ call[i].gen < generation
              => call[i].seq \in succeeded \/ call[i].seq \notin DOMAIN sidecar \/ NoNews
        /\ call[i].pc \in {"settle", "returned"} /\ call[i].gen < generation
              /\ call[i].got.result = "ok" /\ call[i].got.of # 0
              => call[i].seq \in succeeded \/ call[i].seq \notin DOMAIN sidecar
                 \/ (call[i].pc = "returned" /\ call[i].outcome # "ok")

\* Each temporary file belongs to the slot or to a caller about to conclude, or could not be
\* removed.
Files ==
    /\ \A s \in DOMAIN sidecar : s > 0 /\ s <= cmdSeq
    /\ inFlight.seq \in DOMAIN sidecar => inFlight.kind = "save"
    /\ \A s \in DOMAIN sidecar :
          \/ s = inFlight.seq
          \/ s \in undeleted \cup unnoticed
          \/ \E i \in Issuers : /\ call[i].pc = "returned" /\ call[i].outcome # "timeout"
                                /\ call[i].kind = "save" /\ call[i].seq = s

IInv ==
    /\ TypeOK /\ Slot /\ Executing /\ Reply /\ Numbered /\ Distinct /\ Waiting /\ Told
    /\ Cheated /\ Files /\ FinalIsSaved

LEMMA InitInv == Init => IInv
<1> SUFFICES ASSUME Init PROVE IInv
  OBVIOUS
<1>1. TypeOK
  BY MailboxAssumption
            DEF MailboxAssumption, Init, TypeOK, NoCommand, NoCall, Kinds, Replies, Outcomes
<1>2. Slot /\ Executing /\ Reply /\ Numbered /\ Distinct /\ Waiting /\ Told /\ Cheated
  BY DEF Init, Slot, Executing, Reply, Numbered, Distinct, Waiting, Waits, Told, Cheated, NoNews,
         NoCommand, NoCall
<1>3. Files /\ FinalIsSaved
  BY DEF Init, Files, FinalIsSaved, NoCommand, NoCall
<1> QED
  BY <1>1, <1>2, <1>3 DEF IInv

LEMMA StepKeeps == IInv /\ [Next]_vars => IInv'
<1> SUFFICES ASSUME IInv, [Next]_vars PROVE IInv'
  OBVIOUS
<1> USE DEF IInv
<1>1. CASE UNCHANGED vars
  BY <1>1 DEF vars, shm, child, files, TypeOK, Slot, Executing, Reply, Numbered, Distinct,
      Waiting, Waits, Told, Cheated, NoNews, Files, FinalIsSaved
<1>2. ASSUME NEW i \in Issuers, Reject(i) PROVE IInv'
  <2>1. Slot' /\ Executing' /\ Reply' /\ Numbered' /\ Distinct' /\ Waiting' /\ Told' /\ Cheated'
         /\ Files' /\ FinalIsSaved'
    BY <1>2 DEF Reject, CleanUp, Without, NoCommand, Outstanding, Releasable, shm, child, files,
           Slot, Executing, Reply, Numbered, Distinct, Waiting, Waits, Told, Cheated, NoNews,
           Files, FinalIsSaved
  <2>2. TypeOK'
    BY <1>2 DEF Reject, CleanUp, Without, NoCommand, Outstanding, Releasable, shm, child, files,
           TypeOK, Replies, Outcomes, Kinds
  <2> QED
    BY <2>1, <2>2 DEF IInv
<1>3. ASSUME NEW i \in Issuers, NEW kind \in Kinds, Post(i, kind) PROVE IInv'
  <2>1. TypeOK'
    <3>1. cmdSeq' \in 0 .. MaxCmds /\ ackSeq' \in 0 .. cmdSeq' /\ cmdKind' \in Kinds \cup {"none"}
      BY <1>3, MailboxAssumption DEF Post, TypeOK, MailboxAssumption
    <3>2. inFlight' \in [seq : Nat, gen : Nat, abandoned : BOOLEAN, kind : Kinds]
      BY <1>3, <3>1 DEF Post, TypeOK
    <3>3. [NoCall EXCEPT !.pc = "check", !.kind = kind, !.seq = cmdSeq', !.gen = generation]
            = [NoCall EXCEPT !.pc = "check", !.kind = kind, !.seq = cmdSeq + 1, !.gen = generation]
          /\ cmdSeq + 1 \in Nat
      BY <1>3 DEF Post, TypeOK
    <3>4. call' \in [Issuers ->
            [pc : {"idle", "check", "load", "read", "settle", "overtaken", "expired", "returned"},
             kind : Kinds, seq : Nat, gen : Nat, polls : Nat, got : Replies, outcome : Outcomes]]
      BY <1>3, <3>3 DEF Post, TypeOK, NoCall, Replies, Outcomes
    <3>5. /\ DOMAIN sidecar' \subseteq Nat
          /\ \A s \in DOMAIN sidecar' : sidecar'[s] \in {"partial", "complete"}
          /\ undeleted' \subseteq Nat
      BY <1>3 DEF Post, TypeOK, CleanUp, Without
    <3> QED
      BY <1>3, <3>1, <3>2, <3>4, <3>5 DEF Post, TypeOK, Replies, child
  <2>2. Told' /\ FinalIsSaved'
    BY <1>3 DEF Post, CleanUp, Without, NoCommand, NoCall, Outstanding, Releasable, shm, child,
           files, Told, Waits, FinalIsSaved
  <2>3. Slot'
    BY <1>3 DEF Post, CleanUp, Without, NoCommand, NoCall, Outstanding, Releasable, shm, child,
           files, TypeOK, Slot
  <2>4. Reply'
    BY <1>3 DEF Post, CleanUp, Without, NoCommand, NoCall, Outstanding, Releasable, shm, child,
           files, TypeOK, Reply
  <2>5. Numbered'
    BY <1>3 DEF Post, CleanUp, Without, NoCommand, NoCall, Outstanding, Releasable, shm, child,
           files, TypeOK, Numbered
  <2>6. Cheated'
    BY <1>3 DEF Post, CleanUp, Without, NoCommand, NoCall, Outstanding, Releasable, shm, child,
           files, TypeOK, Cheated, NoNews, Waits
  <2>7. Files'
    BY <1>3 DEF Post, CleanUp, Without, NoCommand, NoCall, Outstanding, Releasable, shm, child,
           files, TypeOK, Files, Waits
  <2>8. Waiting'
    BY <1>3 DEF Post, CleanUp, Without, NoCommand, NoCall, Outstanding, Releasable, shm, child,
           files, Waiting, Waits, Slot, Distinct, Numbered
  <2>9. Executing'
    BY <1>3 DEF Post, CleanUp, Without, NoCommand, NoCall, Outstanding, Releasable, shm, child,
           files, TypeOK, Executing, Slot
  <2>10. Distinct'
    BY <1>3 DEF Post, CleanUp, Without, NoCommand, NoCall, Outstanding, Releasable, shm, child,
           files, TypeOK, Distinct, Numbered
  <2> QED
    BY <2>1, <2>2, <2>3, <2>4, <2>5, <2>6, <2>7, <2>8, <2>9, <2>10 DEF IInv
<1>4. ASSUME NEW i \in Issuers, CheckGeneration(i) PROVE IInv'
  <2>1. TypeOK' /\ Slot' /\ Executing' /\ Reply' /\ FinalIsSaved'
    BY <1>4 DEF CheckGeneration, Return, shm, child, files, TypeOK, Slot, Executing, Reply,
           FinalIsSaved
  <2>2. Numbered'
    BY <1>4 DEF CheckGeneration, Return, shm, child, files, TypeOK, Numbered
  <2>3. Distinct'
    BY <1>4 DEF CheckGeneration, Return, shm, child, files, TypeOK, Distinct
  <2>4. Waiting'
    BY <1>4 DEF CheckGeneration, Return, shm, child, files, TypeOK, Waiting, Waits
  <2>5. Told'
    BY <1>4 DEF CheckGeneration, Return, shm, child, files, TypeOK, Told, Waits
  <2>6. Cheated'
    BY <1>4 DEF CheckGeneration, Return, shm, child, files, TypeOK, Cheated, NoNews, Waits
  <2>7. Files'
    BY <1>4 DEF CheckGeneration, Return, shm, child, files, TypeOK, Files, Waits
  <2> QED
    BY <2>1, <2>2, <2>3, <2>4, <2>5, <2>6, <2>7 DEF IInv
<1>5. ASSUME NEW i \in Issuers, LoadAck(i) PROVE IInv'
  <2>1. TypeOK' /\ Slot' /\ Executing' /\ Reply' /\ FinalIsSaved'
    BY <1>5 DEF LoadAck, AfterSilence, shm, child, files, TypeOK, Slot, Executing, Reply,
           FinalIsSaved
  <2>2. Numbered'
    BY <1>5 DEF LoadAck, AfterSilence, shm, child, files, TypeOK, Numbered
  <2>3. Distinct'
    BY <1>5 DEF LoadAck, AfterSilence, shm, child, files, TypeOK, Distinct
  <2>4. Waiting'
    BY <1>5 DEF LoadAck, AfterSilence, shm, child, files, TypeOK, Waiting, Waits
  <2>5. Told'
    BY <1>5 DEF LoadAck, AfterSilence, shm, child, files, TypeOK, Told, Waits
  <2>6. Cheated'
    BY <1>5 DEF LoadAck, AfterSilence, shm, child, files, TypeOK, Cheated, NoNews, Waits
  <2>7. Files'
    BY <1>5 DEF LoadAck, AfterSilence, shm, child, files, TypeOK, Files, Waits
  <2> QED
    BY <2>1, <2>2, <2>3, <2>4, <2>5, <2>6, <2>7 DEF IInv
<1>6. ASSUME NEW i \in Issuers, ReadReply(i) PROVE IInv'
  <2>1. TypeOK' /\ Slot' /\ Executing' /\ Reply' /\ FinalIsSaved'
    BY <1>6 DEF ReadReply, shm, child, files, TypeOK, Slot, Executing, Reply, FinalIsSaved
  <2>2. Numbered'
    BY <1>6 DEF ReadReply, shm, child, files, TypeOK, Numbered
  <2>3. Distinct'
    BY <1>6 DEF ReadReply, shm, child, files, TypeOK, Distinct
  <2>4. Waiting'
    BY <1>6 DEF ReadReply, shm, child, files, TypeOK, Waiting, Waits
  <2>5. Told'
    BY <1>6 DEF ReadReply, shm, child, files, TypeOK, Told, Waits
  <2>6. Cheated'
    BY <1>6 DEF ReadReply, shm, child, files, TypeOK, Cheated, NoNews, Waits
  <2>7. Files'
    BY <1>6 DEF ReadReply, shm, child, files, TypeOK, Files, Waits
  <2> QED
    BY <2>1, <2>2, <2>3, <2>4, <2>5, <2>6, <2>7 DEF IInv
<1>7. ASSUME NEW i \in Issuers, Settle(i) PROVE IInv'
  <2>1. TypeOK' /\ Executing' /\ Reply' /\ FinalIsSaved'
    BY <1>7 DEF Settle, Return, Mine, NoCommand, shm, child, files, TypeOK, Executing, Reply,
           FinalIsSaved
  <2>2. Slot'
    BY <1>7 DEF Settle, Return, Mine, NoCommand, shm, child, files, TypeOK, Slot
  <2>3. Numbered'
    BY <1>7 DEF Settle, Return, Mine, NoCommand, shm, child, files, TypeOK, Numbered
  <2>4. Distinct'
    BY <1>7 DEF Settle, Return, Mine, NoCommand, shm, child, files, TypeOK, Distinct
  <2>5. Waiting'
    BY <1>7 DEF Settle, Return, Mine, NoCommand, shm, child, files, TypeOK, Waiting, Waits
  <2>6. Told'
    BY <1>7 DEF Settle, Return, Mine, NoCommand, shm, child, files, TypeOK, Told, Waits
  <2>7. Cheated'
    BY <1>7 DEF Settle, Return, Mine, NoCommand, shm, child, files, TypeOK, Cheated, NoNews,
           Waits
  <2>8. Files'
    BY <1>7 DEF Settle, Return, Mine, NoCommand, shm, child, files, TypeOK, Files, Waits
  <2> QED
    BY <2>1, <2>2, <2>3, <2>4, <2>5, <2>6, <2>7, <2>8 DEF IInv
<1>8. ASSUME NEW i \in Issuers, GiveUp(i) PROVE IInv'
  <2>1. TypeOK' /\ Executing' /\ FinalIsSaved'
    BY <1>8 DEF GiveUp, Return, Abandon, Mine, shm, child, files, TypeOK, Executing,
           FinalIsSaved
  <2>2. Slot'
    BY <1>8 DEF GiveUp, Return, Abandon, Mine, shm, child, files, TypeOK, Slot
  <2>3. Reply'
    BY <1>8 DEF GiveUp, Return, Abandon, Mine, shm, child, files, TypeOK, Reply
  <2>4. Numbered'
    BY <1>8 DEF GiveUp, Return, Abandon, Mine, shm, child, files, TypeOK, Numbered
  <2>5. Distinct'
    BY <1>8 DEF GiveUp, Return, Abandon, Mine, shm, child, files, TypeOK, Distinct
  <2>6. Waiting'
    BY <1>8 DEF GiveUp, Return, Abandon, Mine, shm, child, files, TypeOK, Waiting, Waits
  <2>7. Told'
    BY <1>8 DEF GiveUp, Return, Abandon, Mine, shm, child, files, TypeOK, Told, Waits
  <2>8. Cheated'
    BY <1>8 DEF GiveUp, Return, Abandon, Mine, shm, child, files, TypeOK, Cheated, NoNews, Waits
  <2>9. Files'
    BY <1>8 DEF GiveUp, Return, Abandon, Mine, shm, child, files, TypeOK, Files, Waits
  <2> QED
    BY <2>1, <2>2, <2>3, <2>4, <2>5, <2>6, <2>7, <2>8, <2>9 DEF IInv
<1>9. ASSUME NEW i \in Issuers, Conclude(i) PROVE IInv'
  <2>1. Slot' /\ Executing' /\ Reply' /\ Numbered' /\ Distinct' /\ Waiting' /\ Told' /\ Cheated'
         /\ Files'
    BY <1>9 DEF Conclude, Verified, Discard, Without, NoCall, shm, child, files, Slot, Executing,
           Reply, Numbered, Distinct, Waiting, Waits, Told, Cheated, NoNews, Files
  <2>2. TypeOK'
    BY <1>9 DEF Conclude, Verified, Discard, Without, NoCall, shm, child, files, TypeOK, Replies,
           Outcomes, Kinds
  <2>3. FinalIsSaved'
    <3>1. CASE call[i].kind = "save" /\ Verified(i)
      <4>1. call[i].pc = "returned" /\ call[i].gen <= generation /\ call[i].got.result = "ok"
        BY <1>9, <3>1 DEF Conclude, Verified, Numbered, Told, TypeOK
      <4>2. call[i].seq \in succeeded
        BY <3>1, <4>1 DEF Verified, Told, Cheated, TypeOK
      <4> QED
        BY <1>9, <3>1, <4>2 DEF Conclude, FinalIsSaved
    <3>2. CASE ~(call[i].kind = "save" /\ Verified(i))
      BY <1>9, <3>2 DEF Conclude, FinalIsSaved
    <3> QED
      BY <3>1, <3>2
  <2> QED
    BY <2>1, <2>2, <2>3 DEF IInv
<1>10. ASSUME Fetch PROVE IInv'
  <2>1. TypeOK' /\ Slot' /\ Executing' /\ Reply' /\ Numbered' /\ Distinct' /\ Waiting' /\ Told'
         /\ Cheated' /\ Files' /\ FinalIsSaved'
    BY <1>10 DEF Fetch, shm, child, files, TypeOK, Slot, Executing, Reply, Numbered, Distinct,
           Waiting, Waits, Told, Cheated, NoNews, Files, FinalIsSaved
  <2> QED
    BY <2>1 DEF IInv
<1>11. ASSUME WriteSidecar PROVE IInv'
  <2>1. TypeOK' /\ Slot' /\ Executing' /\ Reply' /\ Numbered' /\ Distinct' /\ Waiting' /\ Told'
         /\ FinalIsSaved'
    BY <1>11 DEF WriteSidecar, With, shm, child, files, TypeOK, Slot, Executing, Reply,
           Numbered, Distinct, Waiting, Waits, Told, FinalIsSaved
  <2>2. Cheated'
    BY <1>11 DEF WriteSidecar, With, shm, child, files, TypeOK, Cheated, NoNews, Slot,
           Executing, Reply, Waiting, Waits, Told, Numbered
  <2>3. Files'
    BY <1>11 DEF WriteSidecar, With, shm, child, files, TypeOK, Files, Slot, Distinct, Numbered,
           Waiting, Waits, Executing
  <2> QED
    BY <2>1, <2>2, <2>3 DEF IInv
<1>12. ASSUME NEW result \in {"ok", "failed"}, Answer(result) PROVE IInv'
  <2>1. Executing' /\ Reply' /\ Distinct' /\ Waiting' /\ Told' /\ Cheated' /\ Files' /\
         FinalIsSaved'
    BY <1>12 DEF Answer, shm, child, files, Executing, Reply, Distinct, Waiting, Waits, Told,
           Cheated, NoNews, Files, FinalIsSaved
  <2>2. TypeOK'
    BY <1>12 DEF Answer, shm, child, files, TypeOK, Replies, Outcomes, Kinds, Executing, Slot,
           Numbered
  <2>3. Slot'
    BY <1>12 DEF Answer, shm, child, files, TypeOK, Slot, Executing, Numbered
  <2>4. Numbered'
    BY <1>12 DEF Answer, shm, child, files, TypeOK, Numbered, Slot, Executing
  <2> QED
    BY <2>1, <2>2, <2>3, <2>4 DEF IInv
<1>13. ASSUME Die PROVE IInv'
  <2>1. TypeOK' /\ Slot' /\ Executing' /\ Reply' /\ Numbered' /\ Distinct' /\ Waiting' /\ Told'
         /\ Cheated' /\ Files' /\ FinalIsSaved'
    BY <1>13 DEF Die, shm, child, files, TypeOK, Slot, Executing, Reply, Numbered, Distinct,
           Waiting, Waits, Told, Cheated, NoNews, Files, FinalIsSaved
  <2> QED
    BY <2>1 DEF IInv
<1>14. ASSUME ResetAfterChildExit PROVE IInv'
  <2>1. Executing' /\ Reply' /\ Distinct' /\ Files' /\ FinalIsSaved'
    BY <1>14 DEF ResetAfterChildExit, AnswerForDead, CleanUp, Without, NoCommand, shm, child,
           files, Executing, Reply, Distinct, Files, Waits, FinalIsSaved
  <2>2. Slot'
    BY <1>14 DEF ResetAfterChildExit, AnswerForDead, CleanUp, Without, NoCommand, shm, child,
           files, TypeOK, Slot
  <2>3. Numbered'
    BY <1>14 DEF ResetAfterChildExit, AnswerForDead, CleanUp, Without, NoCommand, shm, child,
           files, TypeOK, Numbered
  <2>4. TypeOK'
    BY <1>14 DEF ResetAfterChildExit, AnswerForDead, CleanUp, Without, NoCommand, shm, child,
           files, TypeOK, Replies, Outcomes, Kinds
  <2>5. Waiting'
    BY <1>14 DEF ResetAfterChildExit, AnswerForDead, CleanUp, Without, NoCommand, shm, child,
           files, TypeOK, Waiting, Waits, Slot, Distinct, Numbered
  <2>6. Told'
    BY <1>14 DEF ResetAfterChildExit, AnswerForDead, CleanUp, Without, NoCommand, shm, child,
           files, TypeOK, Told, Reply, Slot, Waiting, Waits, Numbered
  <2>7. Cheated'
    BY <1>14 DEF ResetAfterChildExit, AnswerForDead, CleanUp, Without, NoCommand, shm, child,
           files, TypeOK, Cheated, NoNews, Slot, Executing, Reply, Waiting, Waits, Told,
           Numbered
  <2> QED
    BY <2>1, <2>2, <2>3, <2>4, <2>5, <2>6, <2>7 DEF IInv
<1>15. ASSUME Spawn PROVE IInv'
  <2>1. TypeOK' /\ Slot' /\ Executing' /\ Reply' /\ Numbered' /\ Distinct' /\ Waiting' /\ Told'
         /\ Cheated' /\ Files' /\ FinalIsSaved'
    BY <1>15 DEF Spawn, shm, child, files, TypeOK, Slot, Executing, Reply, Numbered, Distinct,
           Waiting, Waits, Told, Cheated, NoNews, Files, FinalIsSaved
  <2> QED
    BY <2>1 DEF IInv
<1> QED
  BY <1>1, <1>2, <1>3, <1>4, <1>5, <1>6, <1>7, <1>8, <1>9, <1>10, <1>11, <1>12, <1>13, <1>14,
         <1>15 DEF Next, IssuerStep

LEMMA Inductive == Spec => []IInv
<1> QED
  BY InitInv, StepKeeps, PTL DEF Spec

\* Type correctness.
THEOREM TypeCorrect == Spec => []TypeOK
<1>1. IInv => TypeOK
  BY DEF IInv
<1> QED
  BY <1>1, Inductive, PTL

\* A child never executes a command of a predecessor, nor one whose caller gave it up
\* and whose slot was given away.
THEOREM OwnCommands == Spec => []NoReplay
<1>1. IInv => NoReplay
  BY DEF IInv, TypeOK, Executing, Slot, NoReplay
<1> QED
  BY <1>1, Inductive, PTL

\* A caller told "ok" while its child lives was told so by that child, of its command.
THEOREM OwnAnswers == Spec => []OkWithinLife
<1>1. IInv => OkWithinLife
  BY DEF IInv, Told, OkWithinLife
<1> QED
  BY <1>1, Inductive, PTL

\* Every temporary file of a save is still somebody's or could not be removed (reported, or
\* unnoticed by the caller that tried), and only a file the child called complete replaces
\* the saved state: even when a caller takes the answer to its dead child's command for a
\* success, no file of its own is there to rename.
THEOREM FilesSafe == Spec => []FilesAccounted
<1>1. IInv => FilesAccounted
  BY DEF IInv, Files, FilesAccounted, SidecarsAccounted
<1> QED
  BY <1>1, Inductive, PTL

\* A command is never posted over an unanswered one.
THEOREM SlotKept == Spec => NeverOverwritten
<1>1. IInv /\ [Next]_vars => [cmdSeq' # cmdSeq => ackSeq = cmdSeq]_vars
  <2> SUFFICES ASSUME IInv, Next PROVE cmdSeq' # cmdSeq => ackSeq = cmdSeq
    BY DEF vars
  <2>1. ASSUME NEW i \in Issuers, NEW kind \in Kinds, Post(i, kind) PROVE ackSeq = cmdSeq
    BY <2>1 DEF IInv, Slot, Post, Outstanding, Releasable
  <2> QED
    BY <2>1 DEF Next, Reject, IssuerStep, CheckGeneration, LoadAck, ReadReply, Settle, GiveUp,
        Conclude, Fetch, WriteSidecar, Answer, Die, ResetAfterChildExit, AnswerForDead, Spawn, shm
<1> QED
  BY <1>1, Inductive, PTL DEF Spec, NeverOverwritten
=============================================================================
