------------------------- MODULE JudgePipeline_proofs -------------------------
(****************************************************************************)
(* Proofs about JudgePipeline, for any finite set of submissions, any       *)
(* number of retries and any bound on adverse events:                       *)
(*   - the type invariant;                                                  *)
(*   - the invariant PipelineInv, which says what the row lock, the claim   *)
(*     and the phases of the judges guarantee;                              *)
(*   - that every step is a step of SubmitLifecycle or leaves its variables *)
(*     alone, so what is proved of SubmitLifecycle holds of the pipeline.   *)
(* And about the channel its messages take, for any callers and any number  *)
(* of messages:                                                             *)
(*   - the invariant QueueInv, which says where each confirmation is, and   *)
(*     with it what an answer of publish is worth.                          *)
(****************************************************************************)
EXTENDS MCJudgedInTheEnd, SequenceTheorems, FiniteSetTheorems, TLAPS

USE DEF Judges, Terminal, Promise!Terminal, Promise!Statuses

\* A judge at work works on a submission: its own, or the one of the message
\* the consumer holds.
LEMMA JobType ==
  ASSUME TypeOK, NEW j \in Judges, pc[j] # "idle"
  PROVE  Job(j) \in Submits
<1>1. CASE j = Consumer
  <2>1. delivery \in Message
    BY <1>1 DEF TypeOK
  <2> QED
    BY <1>1, <2>1 DEF Job, Message
<1>2. CASE j # Consumer
  BY <1>2 DEF Job
<1> QED
  BY <1>1, <1>2

\* A first publish makes a message that has not been retried.
LEMMA FreshType == \A s \in Submits : Fresh(s) \in Message
<1>1. 0 \in 0..MaxRetries
  BY PipelineAssumption
<1> QED
  BY <1>1 DEF Fresh, Message

\* Queues stay bags of messages.
LEMMA EnqueueType ==
  ASSUME NEW queue \in [Message -> Nat], NEW m \in Message
  PROVE  Enqueue(queue, m) \in [Message -> Nat]
<1>1. MaxCopies \in Nat
  BY PipelineAssumption
<1> QED
  BY <1>1 DEF Enqueue

\* Leaving judgeAsync keeps the types of a judge's state.
LEMMA ReturnType ==
  ASSUME TypeOK, NEW j \in Judges, NEW r \in {"done", "failed"}, Return(j, r),
         delivery' = delivery
  PROVE  /\ pc' \in [Judges -> Phases]
         /\ verdict' \in [Judges -> Terminal \cup {"none"}]
         /\ first' \in [Judges -> BOOLEAN]
         /\ (pc[j] # "idle" => (pc'[Consumer] # "idle" => delivery' \in Message))
BY PipelineAssumption DEF TypeOK, Return, Phases

\* The process starts in a state of the declared types.
LEMMA InitTypeOK == Init => TypeOK
BY PipelineAssumption DEF Init, TypeOK, Phases

\* The steps of the submit handler, the ticker's publishes and resets and the
\* expiry of Redis keys keep the types.
LEMMA SubmitTypeOK ==
  ASSUME TypeOK, NEW s \in Submits,
         \/ CheckQuestion(s) \/ CreateSubmit(s) \/ PublishSubmit(s)
         \/ Republish(s) \/ ResetRunning(s) \/ RuntimeExpire(s)
  PROVE  TypeOK'
<1> USE PipelineAssumption DEF db, redis, broker, judge, tick, hist, Trouble, NoTrouble
<1>1. CASE CheckQuestion(s)
  BY <1>1 DEF TypeOK, CheckQuestion
<1>2. CASE CreateSubmit(s)
  BY <1>2 DEF TypeOK, CreateSubmit
<1>3. CASE PublishSubmit(s)
  <2>1. Enqueue(main, Fresh(s)) \in [Message -> Nat]
    BY EnqueueType, FreshType DEF TypeOK
  <2>2. pc' = pc \/ pc' = [pc EXCEPT ![s] = "claim"]
    BY <1>3 DEF PublishSubmit, Goto
  <2>3. main' = main \/ main' = Enqueue(main, Fresh(s))
    BY <1>3 DEF PublishSubmit
  <2>4. trouble' \in Nat
    BY <1>3 DEF TypeOK, PublishSubmit, Published
  <2> QED
    BY <1>3, <2>1, <2>2, <2>3, <2>4 DEF TypeOK, PublishSubmit, Phases
<1>4. CASE Republish(s)
  <2>1. Enqueue(main, Fresh(s)) \in [Message -> Nat]
    BY EnqueueType, FreshType DEF TypeOK
  <2>2. main' = main \/ main' = Enqueue(main, Fresh(s))
    BY <1>4 DEF Republish
  <2>3. trouble' \in Nat
    BY <1>4 DEF TypeOK, Republish, Published
  <2> QED
    BY <1>4, <2>1, <2>2, <2>3 DEF TypeOK, Republish
<1>5. CASE ResetRunning(s)
  BY <1>5 DEF TypeOK, ResetRunning
<1>6. CASE RuntimeExpire(s)
  BY <1>6 DEF TypeOK, RuntimeExpire
<1> QED
  BY <1>1, <1>2, <1>3, <1>4, <1>5, <1>6

\* The steps of judgeAsync keep the types.
LEMMA JudgeTypeOK ==
  ASSUME TypeOK, VerdictKnown, NEW j \in Judges, JudgeStep(j)
  PROVE  TypeOK'
<1> USE PipelineAssumption
    DEF db, redis, broker, judge, tick, hist, Trouble, NoTrouble, Goto
<1>0. pc[j] # "idle" /\ Job(j) \in Submits
  BY JobType DEF JudgeStep, Claim, LoadSubmit, LoadQuestion, Execute, FinishJudgeSubmit,
       LockQuestion, CountAccepted, CommitAccepted, RecordFirstAccepted, PublishVerdict
<1>1. CASE Claim(j)
  BY <1>0, <1>1, ReturnType DEF TypeOK, Claim, Phases
<1>2. CASE LoadSubmit(j)
  BY <1>0, <1>2, ReturnType DEF TypeOK, LoadSubmit, SetRuntime, Phases
<1>3. CASE LoadQuestion(j)
  BY <1>0, <1>3 DEF TypeOK, LoadQuestion, Phases
<1>4. CASE Execute(j)
  BY <1>0, <1>4 DEF TypeOK, Execute, Phases
<1>5. CASE FinishJudgeSubmit(j)
  <2>1. verdict[j] \in Terminal
    BY <1>5 DEF VerdictKnown, FinishJudgeSubmit
  <2> QED
    BY <1>0, <1>5, <2>1, ReturnType DEF TypeOK, FinishJudgeSubmit, Phases
<1>6. CASE LockQuestion(j)
  BY <1>0, <1>6, ReturnType DEF TypeOK, LockQuestion, Phases
<1>7. CASE CountAccepted(j)
  <2>1. Promise!NoAcceptedBefore(Job(j)) \in BOOLEAN
    BY DEF Promise!NoAcceptedBefore
  <2> QED
    <3>1. CASE Rollback(j)
      BY <1>0, <1>7, <3>1, ReturnType DEF TypeOK, CountAccepted, Rollback, Phases
    <3>2. CASE ~Rollback(j)
      BY <1>0, <1>7, <2>1, <3>2 DEF TypeOK, CountAccepted, Phases
    <3> QED
      BY <3>1, <3>2
<1>8. CASE CommitAccepted(j)
  <2>1. CASE Rollback(j) /\ UNCHANGED <<status, acceptedNum, award>>
    BY <1>0, <1>8, <2>1, ReturnType DEF TypeOK, CommitAccepted, Rollback, Phases
  <2>2. CASE ~(Rollback(j) /\ UNCHANGED <<status, acceptedNum, award>>) /\ status[Job(j)] = "running"
    BY <1>0, <1>8, <2>2 DEF TypeOK, CommitAccepted, Phases
  <2>3. CASE ~(Rollback(j) /\ UNCHANGED <<status, acceptedNum, award>>) /\ status[Job(j)] # "running"
    BY <1>0, <1>8, <2>3 DEF TypeOK, CommitAccepted, Phases
  <2> QED
    BY <2>1, <2>2, <2>3
<1>9. CASE RecordFirstAccepted(j)
  BY <1>0, <1>9 DEF TypeOK, RecordFirstAccepted, Phases
<1>10. CASE PublishVerdict(j)
  BY <1>0, <1>10, ReturnType DEF TypeOK, PublishVerdict, SetRuntime, Phases
<1> QED
  BY <1>1, <1>2, <1>3, <1>4, <1>5, <1>6, <1>7, <1>8, <1>9, <1>10 DEF JudgeStep
\* The steps of the broker and of the consumer around judgeAsync keep the types.
LEMMA QueueTypeOK ==
  ASSUME TypeOK,
         \/ \E m \in Message : Deliver(m) \/ RetryExpire(m)
         \/ ConsumerStep
  PROVE  TypeOK'
<1> USE PipelineAssumption
    DEF db, redis, broker, judge, tick, hist, Trouble, NoTrouble, Goto
<1>1. ASSUME NEW m \in Message, Deliver(m) PROVE TypeOK'
  BY <1>1 DEF TypeOK, Deliver, Phases
<1>2. ASSUME NEW m \in Message, RetryExpire(m) PROVE TypeOK'
  BY <1>2, EnqueueType DEF TypeOK, RetryExpire
<1>3. CASE Ack
  BY <1>3 DEF TypeOK, Ack, Phases
<1>4. CASE RetryOrDeadLetter
  <2> DEFINE next == [delivery EXCEPT !.retries = @ + 1]
  <2>1. delivery \in Message /\ delivery.submit \in Submits
    BY <1>4 DEF TypeOK, RetryOrDeadLetter, Message
  <2>2. ~Exhausted(delivery) => next \in Message
    BY <2>1, PipelineAssumption DEF Exhausted, Message
  <2>3. retry' = retry \/ (~Exhausted(delivery) /\ retry' = Enqueue(retry, next))
    BY <1>4 DEF RetryOrDeadLetter
  <2>4. retry' \in [Message -> Nat]
    BY <2>2, <2>3, EnqueueType DEF TypeOK
  <2>5. main' = main \/ main' = Enqueue(main, delivery)
    BY <1>4 DEF RetryOrDeadLetter
  <2>6. main' \in [Message -> Nat]
    BY <2>1, <2>5, EnqueueType DEF TypeOK
  <2>7. dlq' \subseteq Submits
    BY <1>4, <2>1 DEF TypeOK, RetryOrDeadLetter
  <2>8. trouble' \in Nat
    BY <1>4 DEF TypeOK, RetryOrDeadLetter, Published
  <2>9. /\ pc' \in [Judges -> Phases]
        /\ delivery' \in Message \cup {None}
        /\ pc'[Consumer] # "idle" => delivery' \in Message
    BY <1>4, <2>1 DEF TypeOK, RetryOrDeadLetter, Phases
  <2> QED
    BY <1>4, <2>4, <2>6, <2>7, <2>8, <2>9 DEF TypeOK, RetryOrDeadLetter
<1>5. CASE MarkSubmitSystemError
  BY <1>5 DEF TypeOK, MarkSubmitSystemError, Phases, Message
<1>6. CASE AnnounceSystemError
  BY <1>6 DEF TypeOK, AnnounceSystemError, SetRuntime, Phases, Message
<1> QED
  BY <1>1, <1>2, <1>3, <1>4, <1>5, <1>6 DEF ConsumerStep

\* The ticker's scan, the question handlers, a lost connection and a crash keep
\* the types.
LEMMA EnvironmentTypeOK ==
  ASSUME TypeOK,
         \/ \E old \in SUBSET Submits : ScanPending(old)
         \/ \E q \in Questions : SetQuestionDeleted(q)
         \/ LoseConnection
         \/ Crash
  PROVE  TypeOK'
<1> USE DEF db, redis, broker, judge, tick, hist, Trouble
<1>0. Requeued \in [Message -> Nat]
  BY EnqueueType DEF TypeOK, Requeued
<1>1. ASSUME NEW old \in SUBSET Submits, ScanPending(old) PROVE TypeOK'
  BY <1>1 DEF TypeOK, ScanPending
<1>2. ASSUME NEW q \in Questions, SetQuestionDeleted(q) PROVE TypeOK'
  BY <1>2 DEF TypeOK, SetQuestionDeleted
<1>3. CASE LoseConnection
  <2>1. main' \in [Message -> Nat]
    BY <1>0, <1>3 DEF LoseConnection
  <2>2. trouble' \in Nat
    BY <1>3 DEF TypeOK, LoseConnection
  <2>3. connected' = FALSE
    BY <1>3 DEF LoseConnection
  <2> QED
    BY <1>3, <2>1, <2>2, <2>3 DEF TypeOK, LoseConnection
<1>4. CASE Crash
  BY <1>0, <1>4 DEF TypeOK, Crash, Phases
<1> QED
  BY <1>1, <1>2, <1>3, <1>4

\* The parts of PipelineInv that are not the type invariant.
CoreInv ==
  /\ VerdictKnown
  /\ TransactionLock
  /\ CountFresh
  /\ RowNew
  /\ ClaimHeld
  /\ AnnouncedFinal
  /\ RecordAwarded
  /\ SingleJudge
  /\ RuntimeVerdictBacked

\* A judge about to commit knows whether it is first while nothing else is
\* accepted and no other judge reaches its commit.
LEMMA CountFreshStays ==
  ASSUME CountFresh,
         \A i \in Judges : pc'[i] = "commit" =>
            pc[i] = "commit" /\ first'[i] = first[i] /\ Job(i)' = Job(i),
         \A s \in Submits : status'[s] = "accepted" <=> status[s] = "accepted"
  PROVE  CountFresh'
<1> SUFFICES ASSUME NEW i \in Judges, pc'[i] = "commit"
             PROVE  first'[i] <=> Promise!NoAcceptedBefore(Job(i))'
  BY DEF CountFresh
<1>1. pc[i] = "commit" /\ first'[i] = first[i] /\ Job(i)' = Job(i)
  OBVIOUS
<1>2. first[i] <=> Promise!NoAcceptedBefore(Job(i))
  BY <1>1 DEF CountFresh
<1>3. Promise!NoAcceptedBefore(Job(i))' <=> Promise!NoAcceptedBefore(Job(i))
  BY <1>1 DEF Promise!NoAcceptedBefore, Promise!SameTask
<1> QED
  BY <1>1, <1>2, <1>3

\* Two judges work on one submission only if they did before.
LEMMA SingleJudgeStays ==
  ASSUME SingleJudge, reset \subseteq reset',
         \A i \in Judges : pc'[i] \in Judging => pc[i] \in Judging /\ Job(i)' = Job(i)
  PROVE  SingleJudge'
BY DEF SingleJudge

\* The claim gives the row to this judge alone, unless a tick took it back.
LEMMA ClaimInv ==
  ASSUME PipelineInv, NEW j \in Judges, Claim(j)
  PROVE  CoreInv'
<1> USE DEF PipelineInv, CoreInv
<1>1. /\ TypeOK' /\ Job(j) \in Submits
      /\ \A i \in Judges : Job(i)' = Job(i) /\ (pc[i] # "idle" => Job(i) \in Submits)
  BY JudgeTypeOK, JobType DEF JudgeStep, Claim, Job, judge
<1>2. pc[j] = "claim" /\ \A i \in Judges \ {j} : pc'[i] = pc[i] /\ first'[i] = first[i]
  BY DEF Claim, Return, Goto, TypeOK, judge
<1>3. \A s \in Submits : status'[s] # status[s] => s = Job(j) /\ status[s] = "pending" /\ status'[s] \in {"running"}
  BY <1>1 DEF Claim, Return, Goto, TypeOK
<1>4. /\ pc'[j] \in {"load", "idle", "done", "failed"}
      /\ pc'[j] = "load" => status'[Job(j)] = "running" /\ status[Job(j)] = "pending"
  BY <1>1, <1>3 DEF Claim, Return, Goto, TypeOK, VerdictKnown
<1>5. \A s \in Submits : status'[s] = "accepted" <=> status[s] = "accepted"
  BY <1>3
<1>6. VerdictKnown'
  BY <1>1 DEF VerdictKnown, TypeOK, Claim, Return, Goto
<1>7. TransactionLock'
  BY <1>1, <1>2 DEF TransactionLock, TypeOK, Claim, Return, Goto, InTransaction
<1>8. CountFresh'
  <2>1. pc'[j] # "commit"
    BY <1>1 DEF TypeOK, Claim, Return, Goto
  <2> QED
    BY <1>1, <1>2, <1>5, <2>1, CountFreshStays
<1>9. RowNew'
  BY <1>1 DEF RowNew, TypeOK, Claim
<1>10. ClaimHeld'
  BY <1>1, <1>2, <1>3, <1>4 DEF ClaimHeld, TypeOK, Claim, hist, Judging
<1>11. AnnouncedFinal'
  <2>1. \A i \in Judges : pc[i] \in {"record", "publish"} => verdict[i] \in Terminal
    BY DEF VerdictKnown, Terminal, Promise!Terminal
  <2>2. reset' = reset /\ \A i \in Judges \ {j} : verdict'[i] = verdict[i]
    BY DEF Claim, Return, TypeOK, judge, hist
  <2>3. "pending" \notin Terminal /\ "running" \notin Terminal /\ "none" \notin Terminal
    BY DEF Terminal, Promise!Terminal
  <2>4. \A s \in Submits : status[s] \in Terminal \/ status[s] = "systemError" => status'[s] = status[s]
    BY <1>3, <2>3
  <2>5. pc'[j] \notin {"record", "publish"}
    BY <1>4
  <2>6. ASSUME NEW i \in Judges, pc'[i] \in {"record", "publish"}, Job(i) \notin reset
        PROVE  status'[Job(i)] \in {verdict'[i], "systemError"}
    BY <1>1, <1>2, <1>4, <2>1, <2>2, <2>4, <2>5, <2>6 DEF AnnouncedFinal
  <2>7. \A i \in Judges : pc'[i] = "deadEvent" => status'[Job(i)] = "systemError"
    BY <1>1, <1>2, <1>4, <2>4 DEF AnnouncedFinal
  <2> QED
    BY <1>1, <2>2, <2>6, <2>7 DEF AnnouncedFinal
<1>12. RecordAwarded'
  BY <1>1 DEF RecordAwarded, TypeOK, Claim, Return, Goto, redis, hist
<1>13. SingleJudge'
  BY <1>1, <1>2, <1>3, <1>4 DEF SingleJudge, ClaimHeld, TypeOK, Claim, hist, Judging
<1>14. RuntimeVerdictBacked'
  BY <1>1, <1>3 DEF RuntimeVerdictBacked, TypeOK, Claim, redis, hist
<1> QED
  BY <1>6, <1>7, <1>8, <1>9, <1>10, <1>11, <1>12, <1>13, <1>14

\* Announcing "Judging" keeps the invariant: it is not a verdict.
LEMMA LoadSubmitInv ==
  ASSUME PipelineInv, NEW j \in Judges, LoadSubmit(j)
  PROVE  CoreInv'
<1> USE DEF PipelineInv, CoreInv
<1>1. /\ TypeOK' /\ Job(j) \in Submits
      /\ \A i \in Judges : Job(i)' = Job(i) /\ (pc[i] # "idle" => Job(i) \in Submits)
  BY JudgeTypeOK, JobType DEF JudgeStep, LoadSubmit, Job, judge
<1>2. pc[j] = "load" /\ \A i \in Judges \ {j} : pc'[i] = pc[i] /\ first'[i] = first[i]
  BY DEF LoadSubmit, SetRuntime, Return, Goto, TypeOK, judge
<1>3. \A s \in Submits : status'[s] = "accepted" <=> status[s] = "accepted"
  BY DEF LoadSubmit, db
<1>4. VerdictKnown'
  BY <1>1 DEF VerdictKnown, TypeOK, LoadSubmit, Return, Goto
<1>5. TransactionLock'
  BY <1>1, <1>2 DEF TransactionLock, TypeOK, LoadSubmit, Return, Goto, db, InTransaction
<1>6. CountFresh'
  <2>1. pc'[j] # "commit"
    BY <1>1 DEF TypeOK, LoadSubmit, Return, Goto
  <2> QED
    BY <1>1, <1>2, <1>3, <2>1, CountFreshStays
<1>7. RowNew'
  BY <1>1 DEF RowNew, TypeOK, LoadSubmit, db
<1>8. ClaimHeld'
  BY <1>1 DEF ClaimHeld, TypeOK, LoadSubmit, Return, Goto, db, hist, Judging
<1>9. AnnouncedFinal'
  BY <1>1 DEF AnnouncedFinal, TypeOK, LoadSubmit, Return, Goto, db, hist, Judging
<1>10. RecordAwarded'
  BY <1>1 DEF RecordAwarded, TypeOK, LoadSubmit, Return, Goto, hist
<1>11. SingleJudge'
  <2>1. pc[j] \in Judging /\ reset' = reset
    BY DEF LoadSubmit, Judging, hist
  <2>2. \A i \in Judges : pc'[i] \in Judging => pc[i] \in Judging
    BY <1>2, <2>1
  <2> QED
    BY <1>1, <2>1, <2>2, SingleJudgeStays
<1>12. RuntimeVerdictBacked'
  BY <1>1 DEF RuntimeVerdictBacked, TypeOK, LoadSubmit, SetRuntime, db, hist
<1> QED
  BY <1>4, <1>5, <1>6, <1>7, <1>8, <1>9, <1>10, <1>11, <1>12

\* A question that cannot be read leaves the judge with the verdict "rejected".
LEMMA LoadQuestionInv ==
  ASSUME PipelineInv, NEW j \in Judges, LoadQuestion(j)
  PROVE  CoreInv'
<1> USE DEF PipelineInv, CoreInv
<1>1. /\ TypeOK' /\ Job(j) \in Submits
      /\ \A i \in Judges : Job(i)' = Job(i) /\ (pc[i] # "idle" => Job(i) \in Submits)
  BY JudgeTypeOK, JobType DEF JudgeStep, LoadQuestion, Job, judge
<1>2. pc[j] = "question" /\ \A i \in Judges \ {j} : pc'[i] = pc[i] /\ first'[i] = first[i]
  BY DEF LoadQuestion, Return, Goto, TypeOK, judge
<1>3. \A s \in Submits : status'[s] = "accepted" <=> status[s] = "accepted"
  BY DEF LoadQuestion, db
<1>4. VerdictKnown'
  BY <1>1 DEF VerdictKnown, TypeOK, LoadQuestion, Goto
<1>5. TransactionLock'
  BY <1>1, <1>2 DEF TransactionLock, TypeOK, LoadQuestion, Goto, db, InTransaction
<1>6. CountFresh'
  BY <1>1, <1>2, <1>3
  DEF CountFresh, TypeOK, LoadQuestion, Goto, Promise!NoAcceptedBefore, Promise!SameTask
<1>7. RowNew'
  BY <1>1 DEF RowNew, TypeOK, LoadQuestion, db
<1>8. ClaimHeld'
  BY <1>1 DEF ClaimHeld, TypeOK, LoadQuestion, Goto, db, hist, Judging
<1>9. AnnouncedFinal'
  BY <1>1 DEF AnnouncedFinal, TypeOK, LoadQuestion, Goto, db, hist, Judging
<1>10. RecordAwarded'
  BY <1>1 DEF RecordAwarded, TypeOK, LoadQuestion, Goto, redis, hist
<1>11. SingleJudge'
  <2>1. \A i \in Judges : pc'[i] \in Judging => pc[i] \in Judging
    BY <1>2 DEF Judging
  <2>2. reset' = reset
    BY DEF LoadQuestion, hist
  <2> QED
    BY <1>1, <2>1, <2>2 DEF SingleJudge
<1>12. RuntimeVerdictBacked'
  BY <1>1 DEF RuntimeVerdictBacked, TypeOK, LoadQuestion, db, redis, hist
<1> QED
  BY <1>4, <1>5, <1>6, <1>7, <1>8, <1>9, <1>10, <1>11, <1>12

\* The verdict that leads to the transaction is "accepted"; others lead to the
\* plain update.
LEMMA ExecuteInv ==
  ASSUME PipelineInv, NEW j \in Judges, Execute(j)
  PROVE  CoreInv'
<1> USE DEF PipelineInv, CoreInv
<1>1. /\ TypeOK' /\ Job(j) \in Submits
      /\ \A i \in Judges : Job(i)' = Job(i) /\ (pc[i] # "idle" => Job(i) \in Submits)
  BY JudgeTypeOK, JobType DEF JudgeStep, Execute, Job, judge
<1>2. pc[j] = "execute" /\ \A i \in Judges \ {j} : pc'[i] = pc[i] /\ first'[i] = first[i]
  BY DEF Execute, Return, Goto, TypeOK, judge
<1>3. \A s \in Submits : status'[s] = "accepted" <=> status[s] = "accepted"
  BY DEF Execute, db
<1>4. VerdictKnown'
  BY <1>1 DEF VerdictKnown, TypeOK, Execute, Goto
<1>5. TransactionLock'
  BY <1>1, <1>2 DEF TransactionLock, TypeOK, Execute, Goto, db, InTransaction
<1>6. CountFresh'
  BY <1>1, <1>2, <1>3
  DEF CountFresh, TypeOK, Execute, Goto, Promise!NoAcceptedBefore, Promise!SameTask
<1>7. RowNew'
  BY <1>1 DEF RowNew, TypeOK, Execute, db
<1>8. ClaimHeld'
  BY <1>1 DEF ClaimHeld, TypeOK, Execute, Goto, db, hist, Judging
<1>9. AnnouncedFinal'
  BY <1>1 DEF AnnouncedFinal, TypeOK, Execute, Goto, db, hist, Judging
<1>10. RecordAwarded'
  BY <1>1 DEF RecordAwarded, TypeOK, Execute, Goto, redis, hist
<1>11. SingleJudge'
  BY <1>1 DEF SingleJudge, TypeOK, Execute, Goto, hist, Judging
<1>12. RuntimeVerdictBacked'
  BY <1>1 DEF RuntimeVerdictBacked, TypeOK, Execute, db, redis, hist
<1> QED
  BY <1>4, <1>5, <1>6, <1>7, <1>8, <1>9, <1>10, <1>11, <1>12

\* The plain update changes only a running row, and to a final status.
LEMMA FinishJudgeSubmitInv ==
  ASSUME PipelineInv, NEW j \in Judges, FinishJudgeSubmit(j)
  PROVE  CoreInv'
<1> USE DEF PipelineInv, CoreInv
<1>1. /\ TypeOK' /\ Job(j) \in Submits
      /\ \A i \in Judges : Job(i)' = Job(i) /\ (pc[i] # "idle" => Job(i) \in Submits)
  BY JudgeTypeOK, JobType DEF JudgeStep, FinishJudgeSubmit, Job, judge
<1>2. pc[j] = "finish" /\ \A i \in Judges \ {j} : pc'[i] = pc[i] /\ first'[i] = first[i]
  BY DEF FinishJudgeSubmit, Return, Goto, TypeOK, judge
<1>3. \A s \in Submits : status'[s] # status[s] => s = Job(j) /\ status[s] = "running" /\ status'[s] \in {"rejected", "systemError"}
  BY <1>1 DEF FinishJudgeSubmit, Return, Goto, TypeOK, VerdictKnown
<1>4. /\ pc'[j] \in {"publish", "idle", "done", "failed"}
      /\ pc'[j] = "publish" => status'[Job(j)] # "running"
  BY <1>1, <1>3 DEF FinishJudgeSubmit, Return, Goto, TypeOK, VerdictKnown
<1>5. \A s \in Submits : status'[s] = "accepted" <=> status[s] = "accepted"
  BY <1>3
<1>6. VerdictKnown'
  BY <1>1 DEF VerdictKnown, TypeOK, FinishJudgeSubmit, Return, Goto
<1>7. TransactionLock'
  BY <1>1, <1>2 DEF TransactionLock, TypeOK, FinishJudgeSubmit, Return, Goto, InTransaction
<1>8. CountFresh'
  <2>1. pc'[j] # "commit"
    BY <1>1 DEF TypeOK, FinishJudgeSubmit, Return, Goto
  <2> QED
    BY <1>1, <1>2, <1>5, <2>1, CountFreshStays
<1>9. RowNew'
  BY <1>1 DEF RowNew, TypeOK, FinishJudgeSubmit
<1>10. ClaimHeld'
  <2>1. \A i \in Judges : pc'[i] \in Judging => i # j /\ pc[i] \in Judging
    BY <1>2, <1>4 DEF Judging
  <2>2. \A i \in Judges : pc'[i] \in Judging /\ Job(i) = Job(j) => Job(i) \in reset
    BY <1>2, <2>1 DEF SingleJudge, Judging
  <2>3. reset' = reset
    BY DEF FinishJudgeSubmit, hist
  <2>4. ASSUME NEW i \in Judges, pc'[i] \in Judging, Job(i) \notin reset
        PROVE  status'[Job(i)] \in {"running", "systemError"}
    <3>1. pc[i] \in Judging /\ pc[i] # "idle" /\ Job(i) # Job(j)
      BY <2>1, <2>2, <2>4 DEF Judging
    <3>2. Job(i) \in Submits /\ status'[Job(i)] = status[Job(i)]
      BY <1>1, <1>3, <3>1
    <3> QED
      BY <2>4, <3>1, <3>2 DEF ClaimHeld
  <2> QED
    BY <1>1, <2>3, <2>4 DEF ClaimHeld
<1>11. AnnouncedFinal'
  <2>1. \A i \in Judges : pc[i] \in {"record", "publish"} => verdict[i] \in Terminal
    BY DEF VerdictKnown, Terminal, Promise!Terminal
  <2>2. reset' = reset /\ \A i \in Judges \ {j} : verdict'[i] = verdict[i]
    BY DEF FinishJudgeSubmit, Return, TypeOK, judge, hist
  <2>3. "pending" \notin Terminal /\ "running" \notin Terminal /\ "none" \notin Terminal
    BY DEF Terminal, Promise!Terminal
  <2>4. \A s \in Submits : status[s] \in Terminal \/ status[s] = "systemError" => status'[s] = status[s]
    BY <1>3, <2>3
  <2>5. pc'[j] \in {"record", "publish"} /\ Job(j) \notin reset => status'[Job(j)] \in {verdict'[j], "systemError"}
    <3>1. pc'[j] \in {"record", "publish"} =>
            /\ verdict' = verdict
            /\ status' = IF status[Job(j)] = "running" THEN [status EXCEPT ![Job(j)] = verdict[j]] ELSE status
      BY DEF FinishJudgeSubmit, Return, Goto, TypeOK
    <3>2. Job(j) \notin reset => status[Job(j)] \in {"running", "systemError"}
      BY <1>2 DEF ClaimHeld, Judging
    <3> QED
      BY <1>1, <3>1, <3>2 DEF TypeOK
  <2>6. ASSUME NEW i \in Judges, pc'[i] \in {"record", "publish"}, Job(i) \notin reset
        PROVE  status'[Job(i)] \in {verdict'[i], "systemError"}
    BY <1>1, <1>2, <1>4, <2>1, <2>2, <2>4, <2>5, <2>6 DEF AnnouncedFinal
  <2>7. \A i \in Judges : pc'[i] = "deadEvent" => status'[Job(i)] = "systemError"
    BY <1>1, <1>2, <1>4, <2>4 DEF AnnouncedFinal
  <2> QED
    BY <1>1, <2>2, <2>6, <2>7 DEF AnnouncedFinal
<1>12. RecordAwarded'
  BY <1>1 DEF RecordAwarded, TypeOK, FinishJudgeSubmit, Return, Goto, redis, hist
<1>13. SingleJudge'
  <2>1. pc[j] \in Judging /\ reset' = reset
    BY DEF FinishJudgeSubmit, Judging, hist
  <2>2. \A i \in Judges : pc'[i] \in Judging => pc[i] \in Judging
    BY <1>2, <2>1
  <2> QED
    BY <1>1, <2>1, <2>2, SingleJudgeStays
<1>14. RuntimeVerdictBacked'
  BY <1>1, <1>3 DEF RuntimeVerdictBacked, TypeOK, FinishJudgeSubmit, redis, hist
<1> QED
  BY <1>6, <1>7, <1>8, <1>9, <1>10, <1>11, <1>12, <1>13, <1>14

\* The judge enters its transaction as the holder of the lock.
LEMMA LockQuestionInv ==
  ASSUME PipelineInv, NEW j \in Judges, LockQuestion(j)
  PROVE  CoreInv'
<1> USE DEF PipelineInv, CoreInv
<1>1. /\ TypeOK' /\ Job(j) \in Submits
      /\ \A i \in Judges : Job(i)' = Job(i) /\ (pc[i] # "idle" => Job(i) \in Submits)
  BY JudgeTypeOK, JobType DEF JudgeStep, LockQuestion, Job, judge
<1>2. pc[j] = "lock" /\ \A i \in Judges \ {j} : pc'[i] = pc[i] /\ first'[i] = first[i]
  BY DEF LockQuestion, Return, Goto, TypeOK, judge
<1>3. \A s \in Submits : status'[s] = "accepted" <=> status[s] = "accepted"
  BY DEF LockQuestion, db
<1>4. VerdictKnown'
  BY <1>1 DEF VerdictKnown, TypeOK, LockQuestion, Return, Goto
<1>5. TransactionLock'
  BY <1>1, <1>2, PipelineAssumption
  DEF TransactionLock, TypeOK, LockQuestion, Return, Goto, InTransaction
<1>6. CountFresh'
  <2>1. pc'[j] # "commit"
    BY <1>1 DEF TypeOK, LockQuestion, Return, Goto
  <2> QED
    BY <1>1, <1>2, <1>3, <2>1, CountFreshStays
<1>7. RowNew'
  BY <1>1 DEF RowNew, TypeOK, LockQuestion
<1>8. ClaimHeld'
  BY <1>1 DEF ClaimHeld, TypeOK, LockQuestion, Return, Goto, hist, Judging
<1>9. AnnouncedFinal'
  BY <1>1 DEF AnnouncedFinal, TypeOK, LockQuestion, Return, Goto, hist, Judging
<1>10. RecordAwarded'
  BY <1>1 DEF RecordAwarded, TypeOK, LockQuestion, Return, Goto, redis, hist
<1>11. SingleJudge'
  <2>1. pc[j] \in Judging /\ reset' = reset
    BY DEF LockQuestion, Judging, hist
  <2>2. \A i \in Judges : pc'[i] \in Judging => pc[i] \in Judging
    BY <1>2, <2>1
  <2> QED
    BY <1>1, <2>1, <2>2, SingleJudgeStays
<1>12. RuntimeVerdictBacked'
  BY <1>1 DEF RuntimeVerdictBacked, TypeOK, LockQuestion, redis, hist
<1> QED
  BY <1>4, <1>5, <1>6, <1>7, <1>8, <1>9, <1>10, <1>11, <1>12

\* The count is exact when it is taken, and the lock keeps it so.
LEMMA CountAcceptedInv ==
  ASSUME PipelineInv, NEW j \in Judges, CountAccepted(j)
  PROVE  CoreInv'
<1> USE DEF PipelineInv, CoreInv
<1>1. /\ TypeOK' /\ Job(j) \in Submits
      /\ \A i \in Judges : Job(i)' = Job(i) /\ (pc[i] # "idle" => Job(i) \in Submits)
  BY JudgeTypeOK, JobType DEF JudgeStep, CountAccepted, Job, judge
<1>2. pc[j] = "count" /\ \A i \in Judges \ {j} : pc'[i] = pc[i] /\ first'[i] = first[i]
  BY DEF CountAccepted, Rollback, Return, Goto, TypeOK, judge
<1>3. \A s \in Submits : status'[s] = "accepted" <=> status[s] = "accepted"
  BY DEF CountAccepted, db
<1>4. VerdictKnown'
  BY <1>1 DEF VerdictKnown, TypeOK, CountAccepted, Rollback, Return, Goto
<1>5. TransactionLock'
  BY <1>1, <1>2, PipelineAssumption
  DEF TransactionLock, TypeOK, CountAccepted, Rollback, Return, Goto, InTransaction
<1>6. CountFresh'
  BY <1>1, <1>2, <1>3
  DEF CountFresh, TypeOK, CountAccepted, Rollback, Return, Goto, Promise!NoAcceptedBefore, Promise!SameTask
<1>7. RowNew'
  BY <1>1 DEF RowNew, TypeOK, CountAccepted, Rollback
<1>8. ClaimHeld'
  BY <1>1 DEF ClaimHeld, TypeOK, CountAccepted, Rollback, Return, Goto, hist, Judging
<1>9. AnnouncedFinal'
  BY <1>1 DEF AnnouncedFinal, TypeOK, CountAccepted, Rollback, Return, Goto, hist, Judging
<1>10. RecordAwarded'
  BY <1>1 DEF RecordAwarded, TypeOK, CountAccepted, Rollback, Return, Goto, redis, hist
<1>11. SingleJudge'
  <2>1. pc[j] \in Judging /\ reset' = reset
    BY DEF CountAccepted, Judging, hist
  <2>2. \A i \in Judges : pc'[i] \in Judging => pc[i] \in Judging
    BY <1>2, <2>1
  <2> QED
    BY <1>1, <2>1, <2>2, SingleJudgeStays
<1>12. RuntimeVerdictBacked'
  BY <1>1 DEF RuntimeVerdictBacked, TypeOK, CountAccepted, Rollback, redis, hist
<1> QED
  BY <1>4, <1>5, <1>6, <1>7, <1>8, <1>9, <1>10, <1>11, <1>12

\* Only the holder of the lock commits, so no count of another judge goes stale.
LEMMA CommitAcceptedInv ==
  ASSUME PipelineInv, NEW j \in Judges, CommitAccepted(j)
  PROVE  CoreInv'
<1> USE DEF PipelineInv, CoreInv
<1>1. /\ TypeOK' /\ Job(j) \in Submits
      /\ \A i \in Judges : Job(i)' = Job(i) /\ (pc[i] # "idle" => Job(i) \in Submits)
  BY JudgeTypeOK, JobType DEF JudgeStep, CommitAccepted, Job, judge
<1>2. pc[j] = "commit" /\ \A i \in Judges \ {j} : pc'[i] = pc[i] /\ first'[i] = first[i]
  BY DEF CommitAccepted, Rollback, Return, Goto, TypeOK, judge
<1>3. \A s \in Submits : status'[s] # status[s] => s = Job(j) /\ status[s] = "running" /\ status'[s] \in {"accepted"}
  BY <1>1 DEF CommitAccepted, Rollback, Return, Goto, TypeOK
<1>4. /\ pc'[j] \in {"record", "publish", "idle", "done", "failed"}
      /\ pc'[j] \in {"record", "publish"} => status'[Job(j)] # "running"
  BY <1>1, <1>3 DEF CommitAccepted, Rollback, Return, Goto, TypeOK, VerdictKnown
<1>5. VerdictKnown'
  BY <1>1 DEF VerdictKnown, TypeOK, CommitAccepted, Rollback, Return, Goto
<1>6. TransactionLock'
  BY <1>1, <1>2, PipelineAssumption
  DEF TransactionLock, TypeOK, CommitAccepted, Rollback, Return, Goto, InTransaction
<1>7. CountFresh'
  <2> SUFFICES ASSUME NEW i \in Judges, pc'[i] = "commit"
               PROVE  (first[i] <=> Promise!NoAcceptedBefore(Job(i)))'
    BY DEF CountFresh
  <2>1. i # j /\ pc[i] = "commit" /\ first'[i] = first[i]
    BY <1>2, <1>4
  <2>2. QuestionOf[Job(i)] # QuestionOf[Job(j)]
    BY <1>2, <2>1 DEF TransactionLock, InTransaction
  <2> QED
    BY <1>1, <1>3, <2>1, <2>2 DEF CountFresh, Promise!NoAcceptedBefore, Promise!SameTask
<1>8. RowNew'
  BY <1>1 DEF RowNew, TypeOK, CommitAccepted, Rollback
<1>9. ClaimHeld'
  <2>1. \A i \in Judges : pc'[i] \in Judging => i # j /\ pc[i] \in Judging
    BY <1>2, <1>4 DEF Judging
  <2>2. \A i \in Judges : pc'[i] \in Judging /\ Job(i) = Job(j) => Job(i) \in reset
    BY <1>2, <2>1 DEF SingleJudge, Judging
  <2>3. reset' = reset
    BY DEF CommitAccepted
  <2>4. ASSUME NEW i \in Judges, pc'[i] \in Judging, Job(i) \notin reset
        PROVE  status'[Job(i)] \in {"running", "systemError"}
    <3>1. pc[i] \in Judging /\ pc[i] # "idle" /\ Job(i) # Job(j)
      BY <2>1, <2>2, <2>4 DEF Judging
    <3>2. Job(i) \in Submits /\ status'[Job(i)] = status[Job(i)]
      BY <1>1, <1>3, <3>1
    <3> QED
      BY <2>4, <3>1, <3>2 DEF ClaimHeld
  <2> QED
    BY <1>1, <2>3, <2>4 DEF ClaimHeld
<1>10. AnnouncedFinal'
  <2>1. \A i \in Judges : pc[i] \in {"record", "publish"} => verdict[i] \in Terminal
    BY DEF VerdictKnown, Terminal, Promise!Terminal
  <2>2. reset' = reset /\ \A i \in Judges \ {j} : verdict'[i] = verdict[i]
    BY DEF CommitAccepted, Rollback, Return, TypeOK, judge
  <2>3. "pending" \notin Terminal /\ "running" \notin Terminal /\ "none" \notin Terminal
    BY DEF Terminal, Promise!Terminal
  <2>4. \A s \in Submits : status[s] \in Terminal \/ status[s] = "systemError" => status'[s] = status[s]
    BY <1>3, <2>3
  <2>5. pc'[j] \in {"record", "publish"} /\ Job(j) \notin reset => status'[Job(j)] \in {verdict'[j], "systemError"}
    <3>1. pc'[j] \in {"record", "publish"} =>
            /\ verdict' = verdict
            /\ \/ status' = [status EXCEPT ![Job(j)] = "accepted"]
               \/ status[Job(j)] # "running" /\ status' = status
      BY DEF CommitAccepted, Rollback, Return, Goto, TypeOK
    <3>2. Job(j) \notin reset => status[Job(j)] \in {"running", "systemError"}
      BY <1>2 DEF ClaimHeld, Judging
    <3>3. verdict[j] = "accepted"
      BY <1>2 DEF VerdictKnown
    <3> QED
      BY <1>1, <3>1, <3>2, <3>3 DEF TypeOK
  <2>6. ASSUME NEW i \in Judges, pc'[i] \in {"record", "publish"}, Job(i) \notin reset
        PROVE  status'[Job(i)] \in {verdict'[i], "systemError"}
    BY <1>1, <1>2, <1>4, <2>1, <2>2, <2>4, <2>5, <2>6 DEF AnnouncedFinal
  <2>7. \A i \in Judges : pc'[i] = "deadEvent" => status'[Job(i)] = "systemError"
    BY <1>1, <1>2, <1>4, <2>4 DEF AnnouncedFinal
  <2> QED
    BY <1>1, <2>2, <2>6, <2>7 DEF AnnouncedFinal
<1>11. RecordAwarded'
  BY <1>1 DEF RecordAwarded, TypeOK, CommitAccepted, Rollback, Return, Goto, redis
<1>12. SingleJudge'
  BY <1>1, <1>2, <1>3, <1>4 DEF SingleJudge, ClaimHeld, TypeOK, CommitAccepted, Judging
<1>13. RuntimeVerdictBacked'
  BY <1>1, <1>3 DEF RuntimeVerdictBacked, TypeOK, CommitAccepted, Rollback, redis
<1> QED
  BY <1>5, <1>6, <1>7, <1>8, <1>9, <1>10, <1>11, <1>12, <1>13

\* Only a submission judged first accepted is recorded.
LEMMA RecordFirstAcceptedInv ==
  ASSUME PipelineInv, NEW j \in Judges, RecordFirstAccepted(j)
  PROVE  CoreInv'
<1> USE DEF PipelineInv, CoreInv
<1>1. /\ TypeOK' /\ Job(j) \in Submits
      /\ \A i \in Judges : Job(i)' = Job(i) /\ (pc[i] # "idle" => Job(i) \in Submits)
  BY JudgeTypeOK, JobType DEF JudgeStep, RecordFirstAccepted, Job, judge
<1>2. pc[j] = "record" /\ \A i \in Judges \ {j} : pc'[i] = pc[i] /\ first'[i] = first[i]
  BY DEF RecordFirstAccepted, Return, Goto, TypeOK, judge
<1>3. \A s \in Submits : status'[s] = "accepted" <=> status[s] = "accepted"
  BY DEF RecordFirstAccepted, db
<1>4. VerdictKnown'
  BY <1>1 DEF VerdictKnown, TypeOK, RecordFirstAccepted, Goto
<1>5. TransactionLock'
  BY <1>1, <1>2 DEF TransactionLock, TypeOK, RecordFirstAccepted, Goto, db, InTransaction
<1>6. CountFresh'
  BY <1>1, <1>2, <1>3
  DEF CountFresh, TypeOK, RecordFirstAccepted, Goto, Promise!NoAcceptedBefore, Promise!SameTask
<1>7. RowNew'
  BY <1>1 DEF RowNew, TypeOK, RecordFirstAccepted, db
<1>8. ClaimHeld'
  BY <1>1 DEF ClaimHeld, TypeOK, RecordFirstAccepted, Goto, db, hist, Judging
<1>9. AnnouncedFinal'
  BY <1>1 DEF AnnouncedFinal, TypeOK, RecordFirstAccepted, Goto, db, hist, Judging
<1>10. RecordAwarded'
  BY <1>1 DEF RecordAwarded, TypeOK, RecordFirstAccepted, Goto, hist
<1>11. SingleJudge'
  BY <1>1 DEF SingleJudge, TypeOK, RecordFirstAccepted, Goto, hist, Judging
<1>12. RuntimeVerdictBacked'
  BY <1>1 DEF RuntimeVerdictBacked, TypeOK, RecordFirstAccepted, db, hist
<1> QED
  BY <1>4, <1>5, <1>6, <1>7, <1>8, <1>9, <1>10, <1>11, <1>12

\* A judge announces a verdict the row has, unless a tick took the row back.
LEMMA PublishVerdictInv ==
  ASSUME PipelineInv, NEW j \in Judges, PublishVerdict(j)
  PROVE  CoreInv'
<1> USE DEF PipelineInv, CoreInv
<1>1. /\ TypeOK' /\ Job(j) \in Submits
      /\ \A i \in Judges : Job(i)' = Job(i) /\ (pc[i] # "idle" => Job(i) \in Submits)
  BY JudgeTypeOK, JobType DEF JudgeStep, PublishVerdict, Job, judge
<1>2. pc[j] = "publish" /\ \A i \in Judges \ {j} : pc'[i] = pc[i] /\ first'[i] = first[i]
  BY DEF PublishVerdict, SetRuntime, Return, Goto, TypeOK, judge
<1>3. \A s \in Submits : status'[s] = "accepted" <=> status[s] = "accepted"
  BY DEF PublishVerdict, db
<1>4. VerdictKnown'
  BY <1>1 DEF VerdictKnown, TypeOK, PublishVerdict, Return
<1>5. TransactionLock'
  BY <1>1, <1>2 DEF TransactionLock, TypeOK, PublishVerdict, Return, db, InTransaction
<1>6. CountFresh'
  BY <1>1, <1>2, <1>3
  DEF CountFresh, TypeOK, PublishVerdict, Return, Promise!NoAcceptedBefore, Promise!SameTask
<1>7. RowNew'
  BY <1>1 DEF RowNew, TypeOK, PublishVerdict, db
<1>8. ClaimHeld'
  BY <1>1 DEF ClaimHeld, TypeOK, PublishVerdict, Return, db, hist, Judging
<1>9. AnnouncedFinal'
  BY <1>1 DEF AnnouncedFinal, TypeOK, PublishVerdict, Return, db, hist, Judging
<1>10. RecordAwarded'
  BY <1>1 DEF RecordAwarded, TypeOK, PublishVerdict, Return, hist
<1>11. SingleJudge'
  BY <1>1 DEF SingleJudge, TypeOK, PublishVerdict, Return, hist, Judging
<1>12. RuntimeVerdictBacked'
  BY <1>1, <1>2
  DEF RuntimeVerdictBacked, TypeOK, PublishVerdict, SetRuntime, db, hist, AnnouncedFinal
<1> QED
  BY <1>4, <1>5, <1>6, <1>7, <1>8, <1>9, <1>10, <1>11, <1>12

\* The steps that touch neither a judge, a row's status nor what Redis says.
Untouched == <<status, lock, runtime, recorded, handler, judge, hist>>

\* A step that leaves judges, statuses and Redis alone keeps the invariant.
LEMMA UntouchedInv ==
  ASSUME PipelineInv, UNCHANGED Untouched
  PROVE  CoreInv'
BY DEF PipelineInv, CoreInv, Untouched, judge, hist, Job, Promise!NoAcceptedBefore, Promise!SameTask,
   VerdictKnown, TransactionLock, CountFresh, RowNew, ClaimHeld, AnnouncedFinal, RecordAwarded,
   SingleJudge, RuntimeVerdictBacked

\* The handler checks the question of a row that does not exist yet.
LEMMA CheckQuestionInv ==
  ASSUME PipelineInv, NEW s \in Submits, CheckQuestion(s)
  PROVE  CoreInv'
<1> USE DEF PipelineInv, CoreInv
<1>1. TypeOK' /\ \A i \in Judges : pc[i] # "idle" => Job(i) \in Submits
  BY SubmitTypeOK, JobType
<1>2. \A i \in Judges : Job(i)' = Job(i)
  BY DEF CheckQuestion, Job, judge
<1>3. VerdictKnown'
  BY <1>1, <1>2 DEF VerdictKnown, TypeOK, CheckQuestion, judge
<1>4. TransactionLock'
  BY <1>1, <1>2 DEF TransactionLock, TypeOK, CheckQuestion, db, judge, InTransaction
<1>5. CountFresh'
  BY <1>1, <1>2
  DEF CountFresh, TypeOK, CheckQuestion, db, judge, Promise!NoAcceptedBefore, Promise!SameTask
<1>6. RowNew'
  BY <1>1, <1>2 DEF RowNew, TypeOK, CheckQuestion, db
<1>7. ClaimHeld'
  BY <1>1, <1>2 DEF ClaimHeld, TypeOK, CheckQuestion, db, judge, hist, Judging
<1>8. AnnouncedFinal'
  BY <1>1, <1>2 DEF AnnouncedFinal, TypeOK, CheckQuestion, db, judge, hist, Judging
<1>9. RecordAwarded'
  BY <1>1, <1>2 DEF RecordAwarded, TypeOK, CheckQuestion, redis, judge, hist
<1>10. SingleJudge'
  BY <1>1, <1>2 DEF SingleJudge, TypeOK, CheckQuestion, judge, hist, Judging
<1>11. RuntimeVerdictBacked'
  BY <1>1, <1>2 DEF RuntimeVerdictBacked, TypeOK, CheckQuestion, db, redis, hist
<1> QED
  BY <1>3, <1>4, <1>5, <1>6, <1>7, <1>8, <1>9, <1>10, <1>11

\* The insertion makes a row no judge works on.
LEMMA CreateSubmitInv ==
  ASSUME PipelineInv, NEW s \in Submits, CreateSubmit(s)
  PROVE  CoreInv'
<1> USE DEF PipelineInv, CoreInv
<1>1. TypeOK' /\ \A i \in Judges : pc[i] # "idle" => Job(i) \in Submits
  BY SubmitTypeOK, JobType
<1>2. \A i \in Judges : Job(i)' = Job(i)
  BY DEF CreateSubmit, Job, judge
<1>3. /\ status[s] = "none"
      /\ \A r \in Submits : status'[r] = IF r = s THEN "pending" ELSE status[r]
  BY DEF CreateSubmit, RowNew, TypeOK
<1>4. VerdictKnown'
  BY <1>1, <1>2, <1>3 DEF VerdictKnown, TypeOK, CreateSubmit, judge
<1>5. TransactionLock'
  BY <1>1, <1>2, <1>3 DEF TransactionLock, TypeOK, CreateSubmit, judge, InTransaction
<1>6. CountFresh'
  BY <1>1, <1>2, <1>3
  DEF CountFresh, TypeOK, CreateSubmit, judge, Promise!NoAcceptedBefore, Promise!SameTask
<1>7. RowNew'
  BY <1>1, <1>2, <1>3 DEF RowNew, TypeOK, CreateSubmit
<1>8. ClaimHeld'
  BY <1>1, <1>2, <1>3 DEF ClaimHeld, TypeOK, CreateSubmit, judge, hist, Judging
<1>9. AnnouncedFinal'
  <2>1. \A i \in Judges : pc[i] \in {"record", "publish"} => verdict[i] # "none"
    BY DEF VerdictKnown, Terminal, Promise!Terminal
  <2>2. UNCHANGED <<pc, verdict, reset>>
    BY DEF CreateSubmit, judge, hist
  <2> QED
    BY <1>1, <1>2, <1>3, <2>1, <2>2 DEF AnnouncedFinal
<1>10. RecordAwarded'
  BY <1>1, <1>2, <1>3 DEF RecordAwarded, TypeOK, CreateSubmit, redis, judge, hist
<1>11. SingleJudge'
  BY <1>1, <1>2, <1>3 DEF SingleJudge, TypeOK, CreateSubmit, judge, hist, Judging
<1>12. RuntimeVerdictBacked'
  BY <1>1, <1>2, <1>3 DEF RuntimeVerdictBacked, TypeOK, CreateSubmit, redis, hist
<1> QED
  BY <1>4, <1>5, <1>6, <1>7, <1>8, <1>9, <1>10, <1>11, <1>12

\* A submission judged without the queue starts with an unclaimed phase.
LEMMA PublishSubmitInv ==
  ASSUME PipelineInv, NEW s \in Submits, PublishSubmit(s)
  PROVE  CoreInv'
<1> USE DEF PipelineInv, CoreInv
<1>1. TypeOK' /\ \A i \in Judges : pc[i] # "idle" => Job(i) \in Submits
  BY SubmitTypeOK, JobType
<1>2. \A i \in Judges : Job(i)' = Job(i)
  BY DEF PublishSubmit, Job, judge
<1>3. VerdictKnown'
  BY <1>1, <1>2 DEF VerdictKnown, TypeOK, PublishSubmit, Goto
<1>4. TransactionLock'
  BY <1>1, <1>2 DEF TransactionLock, TypeOK, PublishSubmit, db, Goto, InTransaction
<1>5. CountFresh'
  BY <1>1, <1>2
  DEF CountFresh, TypeOK, PublishSubmit, db, Goto, Promise!NoAcceptedBefore, Promise!SameTask
<1>6. RowNew'
  BY <1>1, <1>2 DEF RowNew, TypeOK, PublishSubmit, db
<1>7. ClaimHeld'
  BY <1>1, <1>2 DEF ClaimHeld, TypeOK, PublishSubmit, db, hist, Goto, Judging
<1>8. AnnouncedFinal'
  BY <1>1, <1>2 DEF AnnouncedFinal, TypeOK, PublishSubmit, db, hist, Goto, Judging
<1>9. RecordAwarded'
  BY <1>1, <1>2 DEF RecordAwarded, TypeOK, PublishSubmit, redis, hist, Goto
<1>10. SingleJudge'
  BY <1>1, <1>2 DEF SingleJudge, TypeOK, PublishSubmit, hist, Goto, Judging
<1>11. RuntimeVerdictBacked'
  BY <1>1, <1>2 DEF RuntimeVerdictBacked, TypeOK, PublishSubmit, db, redis, hist
<1> QED
  BY <1>3, <1>4, <1>5, <1>6, <1>7, <1>8, <1>9, <1>10, <1>11

\* A row taken back by the tick is remembered in "reset".
LEMMA ResetRunningInv ==
  ASSUME PipelineInv, NEW s \in Submits, ResetRunning(s)
  PROVE  CoreInv'
<1> USE DEF PipelineInv, CoreInv
<1>1. TypeOK' /\ \A i \in Judges : pc[i] # "idle" => Job(i) \in Submits
  BY SubmitTypeOK, JobType
<1>2. \A i \in Judges : Job(i)' = Job(i)
  BY DEF ResetRunning, Job, judge
<1>3. VerdictKnown'
  BY <1>1, <1>2 DEF VerdictKnown, TypeOK, ResetRunning, judge
<1>4. TransactionLock'
  BY <1>1, <1>2 DEF TransactionLock, TypeOK, ResetRunning, judge, InTransaction
<1>5. CountFresh'
  BY <1>1, <1>2
  DEF CountFresh, TypeOK, ResetRunning, judge, Promise!NoAcceptedBefore, Promise!SameTask
<1>6. RowNew'
  BY <1>1, <1>2 DEF RowNew, TypeOK, ResetRunning
<1>7. ClaimHeld'
  BY <1>1, <1>2 DEF ClaimHeld, TypeOK, ResetRunning, judge, Judging
<1>8. AnnouncedFinal'
  BY <1>1, <1>2 DEF AnnouncedFinal, TypeOK, ResetRunning, judge, Judging
<1>9. RecordAwarded'
  BY <1>1, <1>2 DEF RecordAwarded, TypeOK, ResetRunning, redis, judge
<1>10. SingleJudge'
  BY <1>1, <1>2 DEF SingleJudge, TypeOK, ResetRunning, judge, Judging
<1>11. RuntimeVerdictBacked'
  BY <1>1, <1>2 DEF RuntimeVerdictBacked, TypeOK, ResetRunning, redis
<1> QED
  BY <1>3, <1>4, <1>5, <1>6, <1>7, <1>8, <1>9, <1>10, <1>11

\* A Redis key that expires no longer says anything.
LEMMA RuntimeExpireInv ==
  ASSUME PipelineInv, NEW s \in Submits, RuntimeExpire(s)
  PROVE  CoreInv'
<1> USE DEF PipelineInv, CoreInv
<1>1. TypeOK' /\ \A i \in Judges : pc[i] # "idle" => Job(i) \in Submits
  BY SubmitTypeOK, JobType
<1>2. \A i \in Judges : Job(i)' = Job(i)
  BY DEF RuntimeExpire, Job, judge
<1>3. VerdictKnown'
  BY <1>1, <1>2 DEF VerdictKnown, TypeOK, RuntimeExpire, judge
<1>4. TransactionLock'
  BY <1>1, <1>2 DEF TransactionLock, TypeOK, RuntimeExpire, db, judge, InTransaction
<1>5. CountFresh'
  BY <1>1, <1>2
  DEF CountFresh, TypeOK, RuntimeExpire, db, judge, Promise!NoAcceptedBefore, Promise!SameTask
<1>6. RowNew'
  BY <1>1, <1>2 DEF RowNew, TypeOK, RuntimeExpire, db
<1>7. ClaimHeld'
  BY <1>1, <1>2 DEF ClaimHeld, TypeOK, RuntimeExpire, db, judge, hist, Judging
<1>8. AnnouncedFinal'
  BY <1>1, <1>2 DEF AnnouncedFinal, TypeOK, RuntimeExpire, db, judge, hist, Judging
<1>9. RecordAwarded'
  BY <1>1, <1>2 DEF RecordAwarded, TypeOK, RuntimeExpire, judge, hist
<1>10. SingleJudge'
  BY <1>1, <1>2 DEF SingleJudge, TypeOK, RuntimeExpire, judge, hist, Judging
<1>11. RuntimeVerdictBacked'
  BY <1>1, <1>2 DEF RuntimeVerdictBacked, TypeOK, RuntimeExpire, db, hist
<1> QED
  BY <1>3, <1>4, <1>5, <1>6, <1>7, <1>8, <1>9, <1>10, <1>11

\* The consumer is idle after the acknowledgement.
LEMMA AckInv ==
  ASSUME PipelineInv, Ack
  PROVE  CoreInv'
<1> USE DEF PipelineInv, CoreInv
<1>1. TypeOK' /\ \A i \in Judges : pc[i] # "idle" => Job(i) \in Submits
  BY QueueTypeOK, JobType DEF ConsumerStep
<1>2. /\ \A i \in Judges \ {Consumer} : Job(i)' = Job(i) /\ pc'[i] = pc[i]
      /\ pc'[Consumer] \in {"idle", "done", "dead"}
  BY DEF Ack, TypeOK, Goto, Job
<1>3. VerdictKnown'
  BY <1>1, <1>2 DEF VerdictKnown, TypeOK, Ack, Goto
<1>4. TransactionLock'
  BY <1>1, <1>2 DEF TransactionLock, TypeOK, Ack, db, Goto, InTransaction
<1>5. CountFresh'
  BY <1>1, <1>2
  DEF CountFresh, TypeOK, Ack, db, Goto, Promise!NoAcceptedBefore, Promise!SameTask
<1>6. RowNew'
  BY <1>1, <1>2 DEF RowNew, TypeOK, Ack, db
<1>7. ClaimHeld'
  BY <1>1, <1>2 DEF ClaimHeld, TypeOK, Ack, db, hist, Goto, Judging
<1>8. AnnouncedFinal'
  BY <1>1, <1>2 DEF AnnouncedFinal, TypeOK, Ack, db, hist, Goto, Judging
<1>9. RecordAwarded'
  BY <1>1, <1>2 DEF RecordAwarded, TypeOK, Ack, redis, hist, Goto
<1>10. SingleJudge'
  BY <1>1, <1>2 DEF SingleJudge, TypeOK, Ack, hist, Goto, Judging
<1>11. RuntimeVerdictBacked'
  BY <1>1, <1>2 DEF RuntimeVerdictBacked, TypeOK, Ack, db, redis, hist
<1> QED
  BY <1>3, <1>4, <1>5, <1>6, <1>7, <1>8, <1>9, <1>10, <1>11

\* A retried or dead-lettered message leaves the row as it is.
LEMMA RetryOrDeadLetterInv ==
  ASSUME PipelineInv, RetryOrDeadLetter
  PROVE  CoreInv'
<1> USE DEF PipelineInv, CoreInv
<1>1. TypeOK' /\ \A i \in Judges : pc[i] # "idle" => Job(i) \in Submits
  BY QueueTypeOK, JobType DEF ConsumerStep
<1>2. /\ \A i \in Judges \ {Consumer} : Job(i)' = Job(i) /\ pc'[i] = pc[i]
      /\ pc'[Consumer] \in {"idle", "done", "dead"}
  BY DEF RetryOrDeadLetter, TypeOK, Goto, Job
<1>3. VerdictKnown'
  BY <1>1, <1>2 DEF VerdictKnown, TypeOK, RetryOrDeadLetter, Goto
<1>4. TransactionLock'
  BY <1>1, <1>2 DEF TransactionLock, TypeOK, RetryOrDeadLetter, db, Goto, InTransaction
<1>5. CountFresh'
  BY <1>1, <1>2
  DEF CountFresh, TypeOK, RetryOrDeadLetter, db, Goto, Promise!NoAcceptedBefore, Promise!SameTask
<1>6. RowNew'
  BY <1>1, <1>2 DEF RowNew, TypeOK, RetryOrDeadLetter, db
<1>7. ClaimHeld'
  BY <1>1, <1>2 DEF ClaimHeld, TypeOK, RetryOrDeadLetter, db, hist, Goto, Judging
<1>8. AnnouncedFinal'
  BY <1>1, <1>2 DEF AnnouncedFinal, TypeOK, RetryOrDeadLetter, db, hist, Goto, Judging
<1>9. RecordAwarded'
  BY <1>1, <1>2 DEF RecordAwarded, TypeOK, RetryOrDeadLetter, redis, hist, Goto
<1>10. SingleJudge'
  BY <1>1, <1>2 DEF SingleJudge, TypeOK, RetryOrDeadLetter, hist, Goto, Judging
<1>11. RuntimeVerdictBacked'
  BY <1>1, <1>2 DEF RuntimeVerdictBacked, TypeOK, RetryOrDeadLetter, db, redis, hist
<1> QED
  BY <1>3, <1>4, <1>5, <1>6, <1>7, <1>8, <1>9, <1>10, <1>11

\* Giving up changes only a row without a verdict.
LEMMA MarkSubmitSystemErrorInv ==
  ASSUME PipelineInv, MarkSubmitSystemError
  PROVE  CoreInv'
<1> USE DEF PipelineInv, CoreInv
<1>1. TypeOK' /\ \A i \in Judges : pc[i] # "idle" => Job(i) \in Submits
  BY QueueTypeOK, JobType DEF ConsumerStep
<1>2. \A i \in Judges : Job(i)' = Job(i)
  BY DEF MarkSubmitSystemError, Job, judge
<1>3. Job(Consumer) = delivery.submit /\ pc[Consumer] # "idle"
  BY DEF Job, MarkSubmitSystemError
<1>4. VerdictKnown'
  BY <1>1, <1>2, <1>3 DEF VerdictKnown, TypeOK, MarkSubmitSystemError, AnnouncedFinal, Goto
<1>5. TransactionLock'
  BY <1>1, <1>2, <1>3
  DEF TransactionLock, TypeOK, MarkSubmitSystemError, AnnouncedFinal, Goto, InTransaction
<1>6. CountFresh'
  BY <1>1, <1>2, <1>3
  DEF CountFresh, TypeOK, MarkSubmitSystemError, AnnouncedFinal, Goto, Promise!NoAcceptedBefore, Promise!SameTask
<1>7. RowNew'
  BY <1>1, <1>2, <1>3 DEF RowNew, TypeOK, MarkSubmitSystemError, AnnouncedFinal
<1>8. ClaimHeld'
  BY <1>1, <1>2, <1>3
  DEF ClaimHeld, TypeOK, MarkSubmitSystemError, AnnouncedFinal, hist, Goto, Judging
<1>9. AnnouncedFinal'
  BY <1>1, <1>2, <1>3 DEF AnnouncedFinal, TypeOK, MarkSubmitSystemError, hist, Goto, Judging
<1>10. RecordAwarded'
  BY <1>1, <1>2, <1>3
  DEF RecordAwarded, TypeOK, MarkSubmitSystemError, AnnouncedFinal, redis, hist, Goto
<1>11. SingleJudge'
  BY <1>1, <1>2, <1>3
  DEF SingleJudge, TypeOK, MarkSubmitSystemError, AnnouncedFinal, hist, Goto, Judging
<1>12. RuntimeVerdictBacked'
  BY <1>1, <1>2, <1>3
  DEF RuntimeVerdictBacked, TypeOK, MarkSubmitSystemError, AnnouncedFinal, redis, hist
<1> QED
  BY <1>4, <1>5, <1>6, <1>7, <1>8, <1>9, <1>10, <1>11, <1>12

\* Giving up is announced once the row says so.
LEMMA AnnounceSystemErrorInv ==
  ASSUME PipelineInv, AnnounceSystemError
  PROVE  CoreInv'
<1> USE DEF PipelineInv, CoreInv
<1>1. TypeOK' /\ \A i \in Judges : pc[i] # "idle" => Job(i) \in Submits
  BY QueueTypeOK, JobType DEF ConsumerStep
<1>2. \A i \in Judges : Job(i)' = Job(i)
  BY DEF AnnounceSystemError, Job, judge
<1>3. Job(Consumer) = delivery.submit /\ pc[Consumer] # "idle"
  BY DEF Job, AnnounceSystemError
<1>4. VerdictKnown'
  BY <1>1, <1>2, <1>3 DEF VerdictKnown, TypeOK, AnnounceSystemError, AnnouncedFinal, Goto
<1>5. TransactionLock'
  BY <1>1, <1>2, <1>3
  DEF TransactionLock, TypeOK, AnnounceSystemError, AnnouncedFinal, db, Goto, InTransaction
<1>6. CountFresh'
  BY <1>1, <1>2, <1>3
  DEF CountFresh, TypeOK, AnnounceSystemError, AnnouncedFinal, db, Goto, Promise!NoAcceptedBefore, Promise!SameTask
<1>7. RowNew'
  BY <1>1, <1>2, <1>3 DEF RowNew, TypeOK, AnnounceSystemError, AnnouncedFinal, db
<1>8. ClaimHeld'
  BY <1>1, <1>2, <1>3
  DEF ClaimHeld, TypeOK, AnnounceSystemError, AnnouncedFinal, db, hist, Goto, Judging
<1>9. AnnouncedFinal'
  BY <1>1, <1>2, <1>3 DEF AnnouncedFinal, TypeOK, AnnounceSystemError, db, hist, Goto, Judging
<1>10. RecordAwarded'
  BY <1>1, <1>2, <1>3
  DEF RecordAwarded, TypeOK, AnnounceSystemError, AnnouncedFinal, hist, Goto
<1>11. SingleJudge'
  BY <1>1, <1>2, <1>3
  DEF SingleJudge, TypeOK, AnnounceSystemError, AnnouncedFinal, hist, Goto, Judging
<1>12. RuntimeVerdictBacked'
  BY <1>1, <1>2, <1>3
  DEF RuntimeVerdictBacked, TypeOK, AnnounceSystemError, SetRuntime, AnnouncedFinal, db, hist
<1> QED
  BY <1>4, <1>5, <1>6, <1>7, <1>8, <1>9, <1>10, <1>11, <1>12

\* A delivered message has not been claimed.
LEMMA DeliverInv ==
  ASSUME PipelineInv, NEW m \in Message, Deliver(m)
  PROVE  CoreInv'
<1> USE DEF PipelineInv, CoreInv
<1>1. TypeOK' /\ \A i \in Judges : pc[i] # "idle" => Job(i) \in Submits
  BY QueueTypeOK, JobType
<1>2. /\ \A i \in Judges \ {Consumer} : Job(i)' = Job(i) /\ pc'[i] = pc[i]
      /\ pc'[Consumer] = "claim"
  BY DEF Deliver, TypeOK, Goto, Job
<1>3. VerdictKnown'
  BY <1>1, <1>2 DEF VerdictKnown, TypeOK, Deliver, Goto
<1>4. TransactionLock'
  BY <1>1, <1>2 DEF TransactionLock, TypeOK, Deliver, db, Goto, InTransaction
<1>5. CountFresh'
  BY <1>1, <1>2
  DEF CountFresh, TypeOK, Deliver, db, Goto, Promise!NoAcceptedBefore, Promise!SameTask
<1>6. RowNew'
  BY <1>1, <1>2 DEF RowNew, TypeOK, Deliver, db
<1>7. ClaimHeld'
  BY <1>1, <1>2 DEF ClaimHeld, TypeOK, Deliver, db, hist, Goto, Judging
<1>8. AnnouncedFinal'
  BY <1>1, <1>2 DEF AnnouncedFinal, TypeOK, Deliver, db, hist, Goto, Judging
<1>9. RecordAwarded'
  BY <1>1, <1>2 DEF RecordAwarded, TypeOK, Deliver, redis, hist, Goto
<1>10. SingleJudge'
  BY <1>1, <1>2 DEF SingleJudge, TypeOK, Deliver, hist, Goto, Judging
<1>11. RuntimeVerdictBacked'
  BY <1>1, <1>2 DEF RuntimeVerdictBacked, TypeOK, Deliver, db, redis, hist
<1> QED
  BY <1>3, <1>4, <1>5, <1>6, <1>7, <1>8, <1>9, <1>10, <1>11

\* A crash frees the locks with the transactions and forgets the judges.
LEMMA CrashInv ==
  ASSUME PipelineInv, Crash
  PROVE  CoreInv'
<1> USE DEF PipelineInv, CoreInv
<1>1. TypeOK' /\ \A i \in Judges : pc[i] # "idle" => Job(i) \in Submits
  BY EnvironmentTypeOK, JobType
<1>2. VerdictKnown'
  BY <1>1 DEF VerdictKnown, TypeOK, Crash
<1>3. TransactionLock'
  BY <1>1 DEF TransactionLock, TypeOK, Crash, InTransaction
<1>4. CountFresh'
  BY <1>1 DEF CountFresh, TypeOK, Crash, Promise!NoAcceptedBefore, Promise!SameTask
<1>5. RowNew'
  BY <1>1 DEF RowNew, TypeOK, Crash
<1>6. ClaimHeld'
  BY <1>1 DEF ClaimHeld, TypeOK, Crash, hist, Judging
<1>7. AnnouncedFinal'
  BY <1>1 DEF AnnouncedFinal, TypeOK, Crash, hist, Judging
<1>8. RecordAwarded'
  BY <1>1 DEF RecordAwarded, TypeOK, Crash, redis, hist
<1>9. SingleJudge'
  BY <1>1 DEF SingleJudge, TypeOK, Crash, hist, Judging
<1>10. RuntimeVerdictBacked'
  BY <1>1 DEF RuntimeVerdictBacked, TypeOK, Crash, redis, hist
<1> QED
  BY <1>2, <1>3, <1>4, <1>5, <1>6, <1>7, <1>8, <1>9, <1>10

----------------------------------------------------------------------------
(* The row locks, and the submissions of a process to which nothing happens *)

\* While a judge takes a step, the others stay where they are and everybody
\* keeps its submission.
LEMMA OthersWait ==
  ASSUME TypeOK, NEW j \in Judges, JudgeStep(j)
  PROVE  /\ \A i \in Judges \ {j} : pc'[i] = pc[i]
         /\ \A i \in Judges : Job(i)' = Job(i)
         /\ UNCHANGED <<handler, main, connected, deleted>>
<1>1. delivery' = delivery
  BY DEF JudgeStep, Claim, LoadSubmit, LoadQuestion, Execute, FinishJudgeSubmit, LockQuestion,
         CountAccepted, CommitAccepted, RecordFirstAccepted, PublishVerdict, judge
<1>2. UNCHANGED <<handler, main, connected, deleted>>
  BY DEF JudgeStep, Claim, LoadSubmit, LoadQuestion, Execute, FinishJudgeSubmit, LockQuestion,
         CountAccepted, CommitAccepted, RecordFirstAccepted, PublishVerdict, broker, db
<1>3. \E phase : pc' = [pc EXCEPT ![j] = phase]
  <2>1. CASE Claim(j) \/ LoadSubmit(j)
    BY <2>1 DEF Claim, LoadSubmit, Return, Goto
  <2>2. CASE LoadQuestion(j) \/ Execute(j)
    BY <2>2 DEF LoadQuestion, Execute, Goto
  <2>3. CASE FinishJudgeSubmit(j) \/ LockQuestion(j)
    BY <2>3 DEF FinishJudgeSubmit, LockQuestion, Return, Goto
  <2>4. CASE CountAccepted(j) \/ CommitAccepted(j)
    BY <2>4 DEF CountAccepted, CommitAccepted, Rollback, Return, Goto
  <2>5. CASE RecordFirstAccepted(j) \/ PublishVerdict(j)
    BY <2>5 DEF RecordFirstAccepted, PublishVerdict, Return, Goto
  <2> QED
    BY <2>1, <2>2, <2>3, <2>4, <2>5 DEF JudgeStep
<1>4. \A i \in Judges \ {j} : pc'[i] = pc[i]
  BY <1>3 DEF TypeOK
<1> QED
  BY <1>1, <1>2, <1>4 DEF Job

\* Nobody is the holder of a free lock.
LEMMA HolderIsJudge ==
  ASSUME TypeOK, NEW q \in Questions, lock[q] # None
  PROVE  lock[q] \in Judges
BY DEF TypeOK

\* Locks that stay where they are, with holders that stay in their transactions,
\* are held.
LEMMA LockStays ==
  ASSUME TypeOK, LockHeld, lock' = lock,
         \A i \in Judges : pc[i] \in InTransaction =>
                             pc'[i] \in InTransaction /\ Job(i)' = Job(i)
  PROVE  LockHeld'
<1> SUFFICES ASSUME NEW q \in Questions, lock[q] # None
             PROVE  pc'[lock[q]] \in InTransaction /\ QuestionOf[Job(lock[q])'] = q
  BY DEF LockHeld
<1>1. lock[q] \in Judges
  BY HolderIsJudge
<1>2. pc[lock[q]] \in InTransaction /\ QuestionOf[Job(lock[q])] = q
  BY DEF LockHeld
<1> QED
  BY <1>1, <1>2

\* A judge takes the lock of its own question and lets go of no other.
LEMMA JudgeLockHeld ==
  ASSUME PipelineInv, NEW j \in Judges, JudgeStep(j)
  PROVE  LockHeld'
<1>1. /\ TypeOK /\ LockHeld /\ TypeOK'
      /\ \A i \in Judges \ {j} : pc'[i] = pc[i]
      /\ \A i \in Judges : Job(i)' = Job(i)
  BY OthersWait, JudgeTypeOK DEF PipelineInv
<1>2. ASSUME lock' = lock, pc[j] \in InTransaction => pc'[j] \in InTransaction
      PROVE  LockHeld'
  BY <1>1, <1>2, LockStays
<1>3. ASSUME NEW q \in Questions, NEW h \in Judges \ {j}, h = lock'[q], lock'[q] = lock[q]
      PROVE  pc'[h] \in InTransaction /\ QuestionOf[Job(h)'] = q
  <2>1. h # None
    BY PipelineAssumption
  <2>2. pc[h] \in InTransaction /\ QuestionOf[Job(h)] = q
    BY <1>1, <1>3, <2>1 DEF LockHeld
  <2> QED
    BY <1>1, <2>2
<1>4. ASSUME \A q \in Questions : lock'[q] # None =>
                (lock'[q] = lock[q] /\ lock[q] # j) \/ (lock'[q] = j /\ q = QuestionOf[Job(j)]),
             (\E q \in Questions : lock'[q] = j) => pc'[j] \in InTransaction
      PROVE  LockHeld'
  <2>1. ASSUME NEW q \in Questions, NEW h \in Judges, h = lock'[q]
        PROVE  pc'[h] \in InTransaction /\ QuestionOf[Job(h)'] = q
    <3>1. h # None
      BY PipelineAssumption
    <3>2. CASE h = j
      <4>1. q = QuestionOf[Job(j)]
        BY <1>4, <2>1, <3>1, <3>2
      <4> QED
        BY <1>1, <1>4, <2>1, <3>2, <4>1
    <3>3. CASE h # j
      BY <1>3, <1>4, <2>1, <3>1, <3>3
    <3> QED
      BY <3>2, <3>3
  <2>2. \A q \in Questions : lock'[q] # None => lock'[q] \in Judges
    BY <1>1 DEF TypeOK
  <2> QED
    BY <2>1, <2>2 DEF LockHeld, Job
<1>5. ASSUME lock' = [lock EXCEPT ![QuestionOf[Job(j)]] = None]
      PROVE  LockHeld'
  <2>1. \A q \in Questions : lock[q] = j => q = QuestionOf[Job(j)]
    BY <1>1, PipelineAssumption DEF LockHeld
  <2>2. \A q \in Questions : IF q = QuestionOf[Job(j)] THEN lock'[q] = None
                                                       ELSE lock'[q] = lock[q]
    BY <1>1, <1>5 DEF TypeOK
  <2>3. \A q \in Questions : lock'[q] # None => lock'[q] = lock[q] /\ lock[q] # j
    BY <2>1, <2>2
  <2>4. \A q \in Questions : lock'[q] # j
    BY <2>3, PipelineAssumption
  <2>5. (\E q \in Questions : lock'[q] = j) => pc'[j] \in InTransaction
    BY <2>4
  <2>6. \A q \in Questions : lock'[q] # None =>
           (lock'[q] = lock[q] /\ lock[q] # j) \/ (lock'[q] = j /\ q = QuestionOf[Job(j)])
    BY <2>3
  <2> QED
    BY <1>4, <2>5, <2>6
<1>6. CASE Claim(j) \/ LoadSubmit(j) \/ LoadQuestion(j) \/ Execute(j)
  <2>1. lock' = lock /\ pc[j] \notin InTransaction
    BY <1>6 DEF Claim, LoadSubmit, LoadQuestion, Execute, db, InTransaction
  <2> QED
    BY <1>2, <2>1
<1>7. CASE FinishJudgeSubmit(j) \/ RecordFirstAccepted(j) \/ PublishVerdict(j)
  <2>1. lock' = lock /\ pc[j] \notin InTransaction
    BY <1>7 DEF FinishJudgeSubmit, RecordFirstAccepted, PublishVerdict, db, InTransaction
  <2> QED
    BY <1>2, <2>1
<1>8. CASE LockQuestion(j)
  <2>1. CASE lock' = lock
    <3>1. pc[j] \notin InTransaction
      BY <1>8 DEF LockQuestion, InTransaction
    <3> QED
      BY <1>2, <2>1, <3>1
  <2>2. CASE lock' # lock
    <3>1. lock' = [lock EXCEPT ![QuestionOf[Job(j)]] = j] /\ pc[j] = "lock" /\ pc'[j] = "count"
      BY <1>1, <1>8, <2>2 DEF LockQuestion, Goto, TypeOK
    <3>2. \A q \in Questions : lock[q] # j
      BY <1>1, <3>1, PipelineAssumption DEF LockHeld, InTransaction
    <3>3. \A q \in Questions : lock'[q] = IF q = QuestionOf[Job(j)] THEN j ELSE lock[q]
      BY <1>1, <3>1 DEF TypeOK
    <3>4. \A q \in Questions : lock'[q] = lock[q] \/ (lock'[q] = j /\ q = QuestionOf[Job(j)])
      BY <3>3
    <3> QED
      BY <1>4, <3>1, <3>2, <3>4 DEF InTransaction
  <2> QED
    BY <2>1, <2>2
<1>9. CASE CountAccepted(j)
  <2>1. \/ lock' = lock /\ pc'[j] = "commit"
        \/ lock' = [lock EXCEPT ![QuestionOf[Job(j)]] = None]
    BY <1>1, <1>9 DEF CountAccepted, Rollback, Goto, TypeOK
  <2> QED
    BY <1>2, <1>5, <2>1 DEF InTransaction
<1>10. CASE CommitAccepted(j)
  <2>1. lock' = [lock EXCEPT ![QuestionOf[Job(j)]] = None]
    BY <1>10 DEF CommitAccepted, Rollback
  <2> QED
    BY <1>5, <2>1
<1> QED
  BY <1>6, <1>7, <1>8, <1>9, <1>10 DEF JudgeStep

\* No other step touches a lock or a judge in its transaction, but for the crash,
\* which frees them all.
LEMMA NextLockHeld ==
  ASSUME PipelineInv, [Next]_vars
  PROVE  LockHeld'
<1> USE DEF Goto
<1>0. TypeOK /\ LockHeld
  BY DEF PipelineInv
<1>1. ASSUME lock' = lock, pc' = pc, delivery' = delivery
      PROVE  LockHeld'
  BY <1>0, <1>1, LockStays DEF Job
<1>2. ASSUME lock' = lock, NEW phase, pc' = [pc EXCEPT ![Consumer] = phase],
             pc[Consumer] \notin InTransaction
      PROVE  LockHeld'
  <2>1. \A i \in Judges : pc[i] \in InTransaction => i # Consumer /\ pc'[i] = pc[i]
    BY <1>0, <1>2 DEF TypeOK
  <2> QED
    BY <1>0, <1>2, <2>1, LockStays DEF Job
<1>3. CASE \E j \in Judges : JudgeStep(j)
  BY <1>3, JudgeLockHeld
<1>4. CASE \E s \in Submits : CheckQuestion(s) \/ CreateSubmit(s) \/ Republish(s)
                              \/ ResetRunning(s) \/ RuntimeExpire(s)
  BY <1>1, <1>4 DEF CheckQuestion, CreateSubmit, Republish, ResetRunning, RuntimeExpire, db, judge
<1>5. ASSUME NEW s \in Submits, PublishSubmit(s) PROVE LockHeld'
  <2>1. lock' = lock /\ delivery' = delivery
    BY <1>5 DEF PublishSubmit, db
  <2>2. pc' = pc \/ pc' = [pc EXCEPT ![s] = "claim"]
    BY <1>5 DEF PublishSubmit
  <2>3. CASE pc' = pc
    BY <1>1, <2>1, <2>3
  <2>4. CASE pc' = [pc EXCEPT ![s] = "claim"]
    <3>1. pc[s] = "idle"
      BY <1>5 DEF PipelineInv, OneGoroutine, PublishSubmit
    <3> QED
      BY <1>0, <2>1, <2>4, <3>1, LockStays DEF TypeOK, Job, InTransaction
  <2> QED
    BY <2>2, <2>3, <2>4
<1>6. CASE \E m \in Message : Deliver(m)
  BY <1>2, <1>6 DEF Deliver, db, InTransaction
<1>7. CASE \E m \in Message : RetryExpire(m)
  BY <1>1, <1>7 DEF RetryExpire, db, judge
<1>8. CASE Ack \/ AnnounceSystemError
  BY <1>2, <1>8 DEF Ack, AnnounceSystemError, db, InTransaction
<1>9. CASE RetryOrDeadLetter
  <2>1. lock' = lock /\ pc[Consumer] = "failed"
    BY <1>9 DEF RetryOrDeadLetter, db
  <2>2. \E phase : pc' = [pc EXCEPT ![Consumer] = phase]
    BY <1>9 DEF RetryOrDeadLetter
  <2> QED
    BY <1>2, <2>1, <2>2 DEF InTransaction
<1>10. CASE MarkSubmitSystemError
  BY <1>2, <1>10 DEF MarkSubmitSystemError, InTransaction
<1>11. CASE \/ \E old \in SUBSET Submits : ScanPending(old)
            \/ \E q \in Questions : SetQuestionDeleted(q)
            \/ LoseConnection
            \/ UNCHANGED vars
  BY <1>1, <1>11 DEF ScanPending, SetQuestionDeleted, LoseConnection, vars, db, judge
<1>12. CASE Crash
  BY <1>12 DEF Crash, LockHeld
<1> QED
  BY <1>3, <1>4, <1>5, <1>6, <1>7, <1>8, <1>9, <1>10, <1>11, <1>12 DEF Next, ConsumerStep

\* No judge makes a row or unmakes one.
LEMMA JudgeKeepsRows ==
  ASSUME TypeOK, VerdictKnown, NEW j \in Judges, JudgeStep(j)
  PROVE  \A s \in Submits : status'[s] = "none" <=> status[s] = "none"
<1>1. CASE Claim(j)
  BY <1>1 DEF Claim, TypeOK
<1>2. CASE FinishJudgeSubmit(j)
  <2>1. verdict[j] \in {"rejected", "systemError"}
    BY <1>2 DEF FinishJudgeSubmit, VerdictKnown
  <2> QED
    BY <1>2, <2>1 DEF FinishJudgeSubmit, TypeOK
<1>3. CASE CommitAccepted(j)
  BY <1>3 DEF CommitAccepted, TypeOK
<1>4. CASE LoadSubmit(j) \/ LoadQuestion(j) \/ Execute(j) \/ LockQuestion(j)
  BY <1>4 DEF LoadSubmit, LoadQuestion, Execute, LockQuestion, db
<1>5. CASE CountAccepted(j) \/ RecordFirstAccepted(j) \/ PublishVerdict(j)
  BY <1>5 DEF CountAccepted, RecordFirstAccepted, PublishVerdict, db
<1> QED
  BY <1>1, <1>2, <1>3, <1>4, <1>5 DEF JudgeStep

\* A row, once made, is never unmade, and its goroutine was not running when it
\* was made.
LEMMA NextOneGoroutine ==
  ASSUME PipelineInv, [Next]_vars
  PROVE  OneGoroutine'
<1>0. TypeOK /\ VerdictKnown /\ OneGoroutine /\ RowNew
  BY DEF PipelineInv
<1>1. ASSUME handler' = handler,
             \A s \in Submits : /\ status'[s] = "none" <=> status[s] = "none"
                                /\ pc[s] = "idle" => pc'[s] = "idle"
      PROVE  OneGoroutine'
  BY <1>0, <1>1 DEF OneGoroutine
<1>2. ASSUME handler' = handler, status' = status, pc' = pc
      PROVE  OneGoroutine'
  BY <1>1, <1>2
<1>3. ASSUME handler' = handler, status' = status, NEW phase, pc' = [pc EXCEPT ![Consumer] = phase]
      PROVE  OneGoroutine'
  <2>1. \A s \in Submits : pc'[s] = pc[s]
    BY <1>0, <1>3, PipelineAssumption DEF TypeOK
  <2> QED
    BY <1>1, <1>3, <2>1
<1>4. ASSUME NEW j \in Judges, JudgeStep(j) PROVE OneGoroutine'
  <2>1. handler' = handler /\ \A i \in Judges \ {j} : pc'[i] = pc[i]
    BY <1>0, <1>4, OthersWait
  <2>2. pc[j] # "idle"
    BY <1>4 DEF JudgeStep, Claim, LoadSubmit, LoadQuestion, Execute, FinishJudgeSubmit,
         LockQuestion, CountAccepted, CommitAccepted, RecordFirstAccepted, PublishVerdict
  <2>3. \A s \in Submits : status'[s] = "none" <=> status[s] = "none"
    BY <1>0, <1>4, JudgeKeepsRows
  <2> QED
    BY <1>1, <2>1, <2>2, <2>3
<1>5. ASSUME NEW s \in Submits, CheckQuestion(s) PROVE OneGoroutine'
  <2>1. /\ handler' = [handler EXCEPT ![s] = "checked"] /\ status[s] = "none"
        /\ status' = status /\ pc' = pc
    BY <1>5 DEF CheckQuestion, db, judge
  <2> QED
    BY <1>0, <2>1 DEF OneGoroutine, TypeOK
<1>6. ASSUME NEW s \in Submits, CreateSubmit(s) PROVE OneGoroutine'
  <2>1. /\ handler[s] = "checked" /\ handler' = [handler EXCEPT ![s] = "created"]
        /\ status' = [status EXCEPT ![s] = "pending"] /\ pc' = pc
    BY <1>6 DEF CreateSubmit, judge
  <2> QED
    BY <1>0, <2>1 DEF OneGoroutine, TypeOK
<1>7. ASSUME NEW s \in Submits, PublishSubmit(s) PROVE OneGoroutine'
  <2>1. /\ handler[s] = "created" /\ handler' = [handler EXCEPT ![s] = "idle"]
        /\ status' = status
    BY <1>7 DEF PublishSubmit, db
  <2>2. \A r \in Submits \ {s} : pc'[r] = pc[r]
    BY <1>0, <1>7 DEF PublishSubmit, Goto, TypeOK
  <2> QED
    BY <1>0, <2>1, <2>2 DEF OneGoroutine, TypeOK
<1>8. CASE \E s \in Submits : Republish(s) \/ RuntimeExpire(s)
  BY <1>2, <1>8 DEF Republish, RuntimeExpire, db, judge
<1>9. ASSUME NEW s \in Submits, ResetRunning(s) PROVE OneGoroutine'
  <2>1. /\ status[s] = "running" /\ status' = [status EXCEPT ![s] = "pending"]
        /\ handler' = handler /\ pc' = pc
    BY <1>9 DEF ResetRunning, judge
  <2> QED
    BY <1>0, <1>1, <2>1 DEF TypeOK
<1>10. CASE \E m \in Message : Deliver(m)
  BY <1>3, <1>10 DEF Deliver, Goto, db
<1>11. CASE \E m \in Message : RetryExpire(m)
  BY <1>2, <1>11 DEF RetryExpire, db, judge
<1>12. CASE Ack \/ AnnounceSystemError
  BY <1>3, <1>12 DEF Ack, AnnounceSystemError, Goto, db
<1>13. CASE RetryOrDeadLetter
  <2>1. handler' = handler /\ status' = status
    BY <1>13 DEF RetryOrDeadLetter, db
  <2>2. \E phase : pc' = [pc EXCEPT ![Consumer] = phase]
    BY <1>13 DEF RetryOrDeadLetter, Goto
  <2> QED
    BY <1>3, <2>1, <2>2
<1>14. CASE MarkSubmitSystemError
  <2>1. handler' = handler /\ \A s \in Submits : pc'[s] = pc[s]
    BY <1>0, <1>14, PipelineAssumption DEF MarkSubmitSystemError, Goto, TypeOK
  <2>2. \A s \in Submits : status'[s] = "none" <=> status[s] = "none"
    BY <1>0, <1>14 DEF MarkSubmitSystemError, TypeOK
  <2> QED
    BY <1>1, <2>1, <2>2
<1>15. CASE \/ \E old \in SUBSET Submits : ScanPending(old)
            \/ \E q \in Questions : SetQuestionDeleted(q)
            \/ LoseConnection
            \/ UNCHANGED vars
  BY <1>2, <1>15 DEF ScanPending, SetQuestionDeleted, LoseConnection, vars, db, judge
<1>16. CASE Crash
  BY <1>0, <1>16 DEF Crash, OneGoroutine
<1> QED
  BY <1>4, <1>5, <1>6, <1>7, <1>8, <1>9, <1>10, <1>11, <1>12, <1>13, <1>14, <1>15, <1>16
  DEF Next, ConsumerStep

\* An adverse event is counted, so a behaviour without one had none before.
LEMMA TroubleCounts == ASSUME TypeOK, Trouble PROVE trouble' # 0
BY DEF TypeOK, Trouble

\* A judge to which nothing adverse happens: the row is read, the question is
\* there, the transaction commits. It takes a pending row away only by claiming
\* it, and a running one only with its verdict.
LEMMA JudgeGoesOn ==
  ASSUME TypeOK, VerdictKnown, QuestionsThere, NEW j \in Judges, JudgeStep(j), trouble' = 0
  PROVE  /\ trouble = 0
         /\ \A s \in Submits :
              /\ status'[s] = "pending" =>
                   status[s] = "pending" /\ ~(pc[j] = "claim" /\ s = Job(j))
              /\ status'[s] = "running" =>
                   \/ s = Job(j) /\ pc'[j] \in Judging
                   \/ status[s] = "running" /\ ~(pc[j] \in Judging /\ s = Job(j))
<1> DEFINE Goal ==
      /\ trouble = 0
      /\ \A s \in Submits :
           /\ status'[s] = "pending" =>
                status[s] = "pending" /\ ~(pc[j] = "claim" /\ s = Job(j))
           /\ status'[s] = "running" =>
                \/ s = Job(j) /\ pc'[j] \in Judging
                \/ status[s] = "running" /\ ~(pc[j] \in Judging /\ s = Job(j))
<1>0. ~Trouble
  BY TroubleCounts
<1>00. trouble' = trouble => trouble = 0
  OBVIOUS
<1>j. pc[j] # "idle" => Job(j) \in Submits
  BY JobType
<1>g. Job(j) \in Submits => (trouble = 0 => ~deleted[QuestionOf[Job(j)]])
  BY PipelineAssumption DEF QuestionsThere
<1>1. CASE Claim(j)
  <2>1. trouble = 0 /\ pc[j] = "claim"
    BY <1>0, <1>1 DEF Claim
  <2>2. \/ /\ status[Job(j)] = "pending"
           /\ status' = [status EXCEPT ![Job(j)] = "running"] /\ pc'[j] = "load"
        \/ status[Job(j)] # "pending" /\ status' = status
    BY <1>0, <1>1 DEF Claim, Goto, TypeOK
  <2> QED
    BY <1>j, <2>1, <2>2 DEF TypeOK, Judging
<1>2. CASE LoadSubmit(j) \/ LoadQuestion(j) \/ Execute(j)
  <2>1. trouble = 0 /\ status' = status /\ pc[j] # "claim"
    BY <1>0, <1>2 DEF LoadSubmit, LoadQuestion, Execute, db, NoTrouble
  <2>2. pc'[j] \in Judging
    <3>1. CASE LoadSubmit(j)
      BY <1>0, <3>1 DEF LoadSubmit, Goto, TypeOK, Judging
    <3>2. CASE LoadQuestion(j)
      BY <3>2 DEF LoadQuestion, Goto, TypeOK, Judging
    <3>3. CASE Execute(j)
      BY <3>3 DEF Execute, Goto, TypeOK, Judging
    <3> QED
      BY <1>2, <3>1, <3>2, <3>3
  <2> QED
    BY <2>1, <2>2
<1>3. CASE FinishJudgeSubmit(j)
  <2>1. trouble = 0 /\ pc[j] = "finish"
    BY <1>0, <1>3 DEF FinishJudgeSubmit
  <2>2. verdict[j] \in {"rejected", "systemError"}
    BY <2>1 DEF VerdictKnown
  <2>3. status' = IF status[Job(j)] = "running"
                  THEN [status EXCEPT ![Job(j)] = verdict[j]] ELSE status
    BY <1>0, <1>3 DEF FinishJudgeSubmit
  <2> QED
    BY <1>j, <2>1, <2>2, <2>3 DEF TypeOK
<1>4. CASE LockQuestion(j)
  <2>1. trouble = 0 /\ pc[j] = "lock" /\ status' = status
    BY <1>0, <1>4 DEF LockQuestion, NoTrouble
  <2>2. pc'[j] = "count"
    BY <1>0, <1>4, <1>j, <1>g, <2>1 DEF LockQuestion, Goto, TypeOK
  <2> QED
    BY <2>1, <2>2 DEF Judging
<1>5. CASE CountAccepted(j)
  <2>1. trouble = 0 /\ pc[j] = "count" /\ status' = status /\ pc'[j] = "commit"
    BY <1>0, <1>5 DEF CountAccepted, Rollback, Goto, TypeOK
  <2> QED
    BY <2>1 DEF Judging
<1>6. CASE CommitAccepted(j)
  <2>1. trouble = 0 /\ pc[j] = "commit"
    BY <1>0, <1>6 DEF CommitAccepted, Rollback
  <2>2. \/ status' = [status EXCEPT ![Job(j)] = "accepted"]
        \/ status[Job(j)] # "running" /\ status' = status
    BY <1>0, <1>6 DEF CommitAccepted, Rollback
  <2> QED
    BY <1>j, <2>1, <2>2 DEF TypeOK
<1>7. CASE RecordFirstAccepted(j) \/ PublishVerdict(j)
  <2>1. trouble = 0 /\ status' = status /\ pc[j] \in {"record", "publish"}
    BY <1>7 DEF RecordFirstAccepted, PublishVerdict, db
  <2> QED
    BY <2>1 DEF Judging
<1> QED
  BY <1>1, <1>2, <1>3, <1>4, <1>5, <1>6, <1>7 DEF JudgeStep

\* Nobody deletes a question without counting it.
LEMMA NextQuestionsThere ==
  ASSUME PipelineInv, [Next]_vars
  PROVE  QuestionsThere'
<1> SUFFICES ASSUME trouble' = 0 PROVE deleted' = deleted /\ trouble = 0
  BY DEF PipelineInv, QuestionsThere
<1>0. TypeOK /\ VerdictKnown /\ QuestionsThere /\ ~Trouble
  BY TroubleCounts DEF PipelineInv
<1>1. CASE \E j \in Judges : JudgeStep(j)
  BY <1>0, <1>1, JudgeGoesOn, OthersWait
<1>2. CASE \E s \in Submits : CheckQuestion(s) \/ CreateSubmit(s) \/ RuntimeExpire(s)
  BY <1>2 DEF CheckQuestion, CreateSubmit, RuntimeExpire, db
<1>3. CASE \E s \in Submits : PublishSubmit(s) \/ Republish(s) \/ ResetRunning(s)
  BY <1>0, <1>3 DEF PublishSubmit, Republish, ResetRunning, Published, NoTrouble, db
<1>4. CASE \E m \in Message : Deliver(m) \/ RetryExpire(m)
  BY <1>4 DEF Deliver, RetryExpire, db
<1>5. CASE ConsumerStep
  BY <1>0, <1>5 DEF ConsumerStep, Ack, RetryOrDeadLetter, MarkSubmitSystemError,
       AnnounceSystemError, Published, NoTrouble, db
<1>6. CASE \E old \in SUBSET Submits : ScanPending(old)
  BY <1>6 DEF ScanPending, db
<1>7. CASE \E q \in Questions : SetQuestionDeleted(q)
  BY <1>0, <1>7 DEF SetQuestionDeleted
<1>8. CASE LoseConnection \/ Crash
  BY <1>0, <1>8 DEF LoseConnection, Crash
<1>9. CASE UNCHANGED vars
  BY <1>9 DEF vars, db
<1> QED
  BY <1>1, <1>2, <1>3, <1>4, <1>5, <1>6, <1>7, <1>8, <1>9 DEF Next

\* Where a pending row is on its way to a judge.
Handed(s) ==
  \/ handler[s] = "created"
  \/ connected /\ \E m \in Message : m.submit = s /\ main[m] > 0
  \/ \E j \in Judges : pc[j] = "claim" /\ Job(j) = s

\* A queue loses nothing by what is added to it, and the message added is there.
LEMMA EnqueueKeeps ==
  ASSUME NEW queue \in [Message -> Nat], NEW m \in Message
  PROVE  /\ Enqueue(queue, m)[m] > 0
         /\ \A n \in Message : queue[n] > 0 => Enqueue(queue, m)[n] > 0
<1>1. MaxCopies \in Nat \ {0}
  BY PipelineAssumption
<1>2. Enqueue(queue, m)[m] = IF queue[m] < MaxCopies THEN queue[m] + 1 ELSE queue[m]
  BY DEF Enqueue
<1>3. Enqueue(queue, m)[m] > 0
  BY <1>1, <1>2
<1>4. \A n \in Message \ {m} : Enqueue(queue, m)[n] = queue[n]
  BY DEF Enqueue
<1> QED
  BY <1>3, <1>4

\* What is on its way stays on its way while requests, the queue and the judges
\* that have not claimed it yet stay as they are.
LEMMA HandedStays ==
  ASSUME NEW s \in Submits, Handed(s),
         handler[s] = "created" => handler'[s] = "created",
         connected => connected',
         \A m \in Message : m.submit = s /\ main[m] > 0 => main'[m] > 0,
         \A j \in Judges : pc[j] = "claim" /\ Job(j) = s => pc'[j] = "claim" /\ Job(j)' = s
  PROVE  Handed(s)'
BY DEF Handed

\* A submission that has its judge keeps it while nobody leaves its phase.
LEMMA AttendedStays ==
  ASSUME NEW s \in Submits, ~Abandoned(s),
         \A j \in Judges : pc[j] \in Judging /\ Job(j) = s => pc'[j] \in Judging /\ Job(j)' = s
  PROVE  ~Abandoned(s)'
BY DEF Abandoned

\* A step that takes no submission from the way to its judge loses none.
LEMMA StaysFound ==
  ASSUME PipelineInv, trouble = 0,
         \A s \in Submits :
           /\ status'[s] = "pending" => status[s] = "pending" /\ (Handed(s) => Handed(s)')
           /\ status'[s] = "running" => status[s] = "running" /\ (~Abandoned(s) => ~Abandoned(s)')
  PROVE  NotLost'
<1>1. NotLost
  BY DEF PipelineInv
<1>2. \A s \in Submits : /\ status[s] = "pending" => Handed(s)
                         /\ status[s] = "running" => ~Abandoned(s)
  BY <1>1 DEF NotLost, Handed
<1>3. \A s \in Submits : /\ status'[s] = "pending" => Handed(s)'
                         /\ status'[s] = "running" => ~Abandoned(s)'
  BY <1>2
<1> QED
  BY <1>3 DEF NotLost, Handed

\* A judge loses no submission: it claims the pending one, and gives the running
\* one its verdict.
LEMMA JudgeNotLost ==
  ASSUME PipelineInv, trouble' = 0, NEW j \in Judges, JudgeStep(j)
  PROVE  NotLost'
<1>0. TypeOK /\ VerdictKnown /\ QuestionsThere /\ NotLost
  BY DEF PipelineInv
<1>1. /\ \A i \in Judges \ {j} : pc'[i] = pc[i]
      /\ \A i \in Judges : Job(i)' = Job(i)
      /\ handler' = handler /\ main' = main /\ connected' = connected
  BY <1>0, OthersWait
<1>2. /\ trouble = 0
      /\ \A s \in Submits :
           /\ status'[s] = "pending" =>
                status[s] = "pending" /\ ~(pc[j] = "claim" /\ s = Job(j))
           /\ status'[s] = "running" =>
                \/ s = Job(j) /\ pc'[j] \in Judging
                \/ status[s] = "running" /\ ~(pc[j] \in Judging /\ s = Job(j))
  BY <1>0, JudgeGoesOn
<1>3. ASSUME NEW s \in Submits, status'[s] = "pending" PROVE Handed(s)'
  <2>1. status[s] = "pending" /\ ~(pc[j] = "claim" /\ s = Job(j))
    BY <1>2, <1>3
  <2>2. Handed(s)
    BY <1>0, <1>2, <2>1 DEF NotLost, Handed
  <2>3. \A i \in Judges : pc[i] = "claim" /\ Job(i) = s => pc'[i] = "claim" /\ Job(i)' = s
    BY <1>1, <2>1
  <2> QED
    BY <1>1, <2>2, <2>3, HandedStays
<1>4. ASSUME NEW s \in Submits, status'[s] = "running" PROVE ~Abandoned(s)'
  <2>1. CASE s = Job(j) /\ pc'[j] \in Judging
    BY <1>1, <2>1 DEF Abandoned
  <2>2. CASE status[s] = "running" /\ ~(pc[j] \in Judging /\ s = Job(j))
    <3>1. ~Abandoned(s)
      BY <1>0, <1>2, <2>2 DEF NotLost
    <3>2. \A i \in Judges : pc[i] \in Judging /\ Job(i) = s => pc'[i] \in Judging /\ Job(i)' = s
      BY <1>1, <2>2
    <3> QED
      BY <3>1, <3>2, AttendedStays
  <2> QED
    BY <1>2, <1>4, <2>1, <2>2
<1> QED
  BY <1>3, <1>4 DEF NotLost, Handed

\* The request that made a row publishes it or starts a goroutine for it.
LEMMA PublishNotLost ==
  ASSUME PipelineInv, trouble' = 0, NEW s \in Submits, PublishSubmit(s)
  PROVE  NotLost'
<1>0. TypeOK /\ OneGoroutine /\ ~Trouble
  BY TroubleCounts DEF PipelineInv
<1>1. /\ handler[s] = "created" /\ handler' = [handler EXCEPT ![s] = "idle"]
      /\ status' = status /\ connected' = connected /\ delivery' = delivery
  BY <1>0 DEF PublishSubmit, db
<1>2. trouble = 0
  BY <1>0 DEF PublishSubmit, Published, NoTrouble
<1>3. \/ connected /\ main' = Enqueue(main, Fresh(s)) /\ pc' = pc
      \/ main' = main /\ pc' = [pc EXCEPT ![s] = "claim"]
  BY <1>0 DEF PublishSubmit, Published, Goto
<1>4. \A i \in Judges : Job(i)' = Job(i)
  BY <1>1 DEF Job
<1>5. /\ \A i \in Judges \ {s} : pc'[i] = pc[i]
      /\ pc[s] = "idle"
      /\ \A r \in Submits \ {s} : handler'[r] = handler[r]
  BY <1>0, <1>1, <1>3 DEF OneGoroutine, TypeOK
<1>6. Fresh(s) \in Message /\ Fresh(s).submit = s
  BY FreshType DEF Fresh
<1>7. \A m \in Message : main[m] > 0 => main'[m] > 0
  BY <1>0, <1>3, <1>6, EnqueueKeeps DEF TypeOK
<1>8. Handed(s)'
  <2>1. CASE connected /\ main' = Enqueue(main, Fresh(s)) /\ pc' = pc
    <3>1. main'[Fresh(s)] > 0
      BY <1>0, <1>6, <2>1, EnqueueKeeps DEF TypeOK
    <3> QED
      BY <1>1, <1>6, <2>1, <3>1 DEF Handed
  <2>2. CASE pc' = [pc EXCEPT ![s] = "claim"]
    <3>1. pc'[s] = "claim" /\ Job(s)' = s /\ s \in Judges
      BY <1>0, <2>2, PipelineAssumption DEF TypeOK, Job
    <3> QED
      BY <3>1 DEF Handed
  <2> QED
    BY <1>3, <2>1, <2>2
<1>9. ASSUME NEW r \in Submits \ {s}, Handed(r) PROVE Handed(r)'
  <2>1. \A i \in Judges : pc[i] = "claim" /\ Job(i) = r => pc'[i] = "claim" /\ Job(i)' = r
    BY <1>4, <1>5
  <2> QED
    BY <1>1, <1>5, <1>7, <1>9, <2>1, HandedStays
<1>10. ASSUME NEW r \in Submits, ~Abandoned(r) PROVE ~Abandoned(r)'
  <2>1. \A i \in Judges : pc[i] \in Judging /\ Job(i) = r => pc'[i] \in Judging /\ Job(i)' = r
    BY <1>4, <1>5 DEF Judging
  <2> QED
    BY <1>10, <2>1, AttendedStays
<1> QED
  BY <1>1, <1>2, <1>8, <1>9, <1>10, StaysFound

\* The consumer that takes a message is about to claim its submission.
LEMMA DeliverNotLost ==
  ASSUME PipelineInv, trouble' = 0, NEW m \in Message, Deliver(m)
  PROVE  NotLost'
<1>0. TypeOK
  BY DEF PipelineInv
<1>1. /\ pc[Consumer] = "idle" /\ main' = [main EXCEPT ![m] = @ - 1] /\ delivery' = m
      /\ pc' = [pc EXCEPT ![Consumer] = "claim"]
      /\ status' = status /\ handler' = handler /\ connected' = connected /\ trouble = 0
  BY DEF Deliver, Goto, db
<1>2. /\ pc'[Consumer] = "claim" /\ Job(Consumer)' = m.submit
      /\ \A i \in Judges \ {Consumer} : pc'[i] = pc[i] /\ Job(i)' = Job(i)
  BY <1>0, <1>1 DEF TypeOK, Job
<1>3. \A n \in Message \ {m} : main'[n] = main[n]
  BY <1>0, <1>1 DEF TypeOK
<1>4. Handed(m.submit)'
  BY <1>2 DEF Handed
<1>5. ASSUME NEW r \in Submits, Handed(r), r # m.submit PROVE Handed(r)'
  <2>1. \A n \in Message : n.submit = r /\ main[n] > 0 => main'[n] > 0
    BY <1>3, <1>5
  <2>2. \A i \in Judges : pc[i] = "claim" /\ Job(i) = r => pc'[i] = "claim" /\ Job(i)' = r
    BY <1>1, <1>2
  <2> QED
    BY <1>1, <1>5, <2>1, <2>2, HandedStays
<1>6. ASSUME NEW r \in Submits, ~Abandoned(r) PROVE ~Abandoned(r)'
  <2>1. \A i \in Judges : pc[i] \in Judging /\ Job(i) = r => pc'[i] \in Judging /\ Job(i)' = r
    BY <1>1, <1>2 DEF Judging
  <2> QED
    BY <1>6, <2>1, AttendedStays
<1> QED
  BY <1>1, <1>4, <1>5, <1>6, StaysFound

\* No other step loses a submission, but for the adverse ones.
LEMMA NextNotLost ==
  ASSUME PipelineInv, [Next]_vars
  PROVE  NotLost'
<1> SUFFICES ASSUME trouble' = 0 PROVE NotLost'
  BY DEF NotLost
<1>0. TypeOK /\ NotLost /\ ~Trouble
  BY TroubleCounts DEF PipelineInv
<1>1. ASSUME trouble = 0, status' = status, handler' = handler, connected' = connected,
             pc' = pc, delivery' = delivery, \A m \in Message : main[m] > 0 => main'[m] > 0
      PROVE  NotLost'
  <2>1. \A s \in Submits : Handed(s) => Handed(s)'
    BY <1>1 DEF Handed, Job
  <2>2. \A s \in Submits : ~Abandoned(s) => ~Abandoned(s)'
    BY <1>1 DEF Abandoned, Job
  <2> QED
    BY <1>1, <2>1, <2>2, StaysFound
<1>2. ASSUME trouble = 0, handler' = handler, connected' = connected,
             NEW phase, pc' = [pc EXCEPT ![Consumer] = phase],
             pc[Consumer] \notin Judging, pc[Consumer] # "claim",
             \A m \in Message : main[m] > 0 => main'[m] > 0,
             \A s \in Submits : status'[s] \in {"pending", "running"} => status'[s] = status[s]
      PROVE  NotLost'
  <2>1. \A i \in Judges \ {Consumer} : pc'[i] = pc[i] /\ Job(i)' = Job(i)
    BY <1>0, <1>2 DEF TypeOK, Job
  <2>2. ASSUME NEW s \in Submits, Handed(s) PROVE Handed(s)'
    BY <1>2, <2>1, <2>2, HandedStays
  <2>3. ASSUME NEW s \in Submits, ~Abandoned(s) PROVE ~Abandoned(s)'
    BY <1>2, <2>1, <2>3, AttendedStays
  <2> QED
    BY <1>2, <2>2, <2>3, StaysFound
<1>3. CASE \E j \in Judges : JudgeStep(j)
  BY <1>3, JudgeNotLost
<1>4. ASSUME NEW s \in Submits, CheckQuestion(s) PROVE NotLost'
  <2>1. /\ trouble = 0 /\ status' = status /\ main' = main /\ connected' = connected
        /\ pc' = pc /\ delivery' = delivery
        /\ handler[s] = "idle" /\ handler' = [handler EXCEPT ![s] = "checked"]
    BY <1>4 DEF CheckQuestion, db, broker, judge
  <2>2. \A r \in Submits : Handed(r) => Handed(r)'
    BY <1>0, <2>1 DEF Handed, Job, TypeOK
  <2>3. \A r \in Submits : ~Abandoned(r) => ~Abandoned(r)'
    BY <2>1 DEF Abandoned, Job
  <2> QED
    BY <2>1, <2>2, <2>3, StaysFound
<1>5. ASSUME NEW s \in Submits, CreateSubmit(s) PROVE NotLost'
  <2>1. /\ trouble = 0 /\ status' = [status EXCEPT ![s] = "pending"] /\ main' = main
        /\ connected' = connected /\ pc' = pc /\ delivery' = delivery
        /\ handler' = [handler EXCEPT ![s] = "created"]
    BY <1>5 DEF CreateSubmit, broker, judge
  <2>2. handler'[s] = "created" /\ Handed(s)'
    BY <1>0, <2>1 DEF Handed, TypeOK
  <2>3. \A r \in Submits : Handed(r) => Handed(r)'
    BY <1>0, <2>1 DEF Handed, Job, TypeOK
  <2>4. \A r \in Submits : ~Abandoned(r) => ~Abandoned(r)'
    BY <2>1 DEF Abandoned, Job
  <2>5. \A r \in Submits \ {s} : status'[r] = status[r]
    BY <1>0, <2>1 DEF TypeOK
  <2>6. status'[s] = "pending"
    BY <1>0, <2>1 DEF TypeOK
  <2>7. \A r \in Submits : /\ status[r] = "pending" => Handed(r)
                           /\ status[r] = "running" => ~Abandoned(r)
    BY <1>0, <2>1 DEF NotLost, Handed
  <2>8. \A r \in Submits : /\ status'[r] = "pending" => Handed(r)'
                           /\ status'[r] = "running" => ~Abandoned(r)'
    BY <2>2, <2>3, <2>4, <2>5, <2>6, <2>7
  <2> QED
    BY <2>8 DEF NotLost, Handed
<1>6. CASE \E s \in Submits : PublishSubmit(s)
  BY <1>6, PublishNotLost
<1>7. ASSUME NEW s \in Submits, Republish(s) PROVE NotLost'
  <2>1. /\ trouble = 0 /\ status' = status /\ handler' = handler /\ connected' = connected
        /\ pc' = pc /\ delivery' = delivery
    BY <1>0, <1>7 DEF Republish, Published, NoTrouble, db, judge
  <2>2. main' = Enqueue(main, Fresh(s)) \/ main' = main
    BY <1>7 DEF Republish
  <2>3. \A m \in Message : main[m] > 0 => main'[m] > 0
    BY <1>0, <2>2, FreshType, EnqueueKeeps DEF TypeOK
  <2> QED
    BY <1>1, <2>1, <2>3
<1>8. ASSUME NEW s \in Submits, ResetRunning(s) PROVE NotLost'
  BY <1>0, <1>8 DEF ResetRunning, NotLost, NoTrouble
<1>9. ASSUME NEW s \in Submits, RuntimeExpire(s) PROVE NotLost'
  BY <1>1, <1>9 DEF RuntimeExpire, db, broker, judge
<1>10. CASE \E m \in Message : Deliver(m)
  BY <1>10, DeliverNotLost
<1>11. ASSUME NEW m \in Message, RetryExpire(m) PROVE NotLost'
  <2>1. \A n \in Message : main[n] > 0 => main'[n] > 0
    BY <1>0, <1>11, EnqueueKeeps DEF RetryExpire, TypeOK
  <2> QED
    BY <1>1, <1>11, <2>1 DEF RetryExpire, db, judge
<1>12. CASE Ack \/ AnnounceSystemError
  BY <1>0, <1>2, <1>12 DEF Ack, AnnounceSystemError, Goto, NoTrouble, db, broker, Judging
<1>13. CASE RetryOrDeadLetter
  <2>1. /\ trouble = 0 /\ status' = status /\ handler' = handler /\ connected' = connected
        /\ pc[Consumer] = "failed"
    BY <1>0, <1>13 DEF RetryOrDeadLetter, Published, NoTrouble, db
  <2>2. \E phase : pc' = [pc EXCEPT ![Consumer] = phase]
    BY <1>13 DEF RetryOrDeadLetter, Goto
  <2>3. main' = main \/ main' = Enqueue(main, delivery)
    BY <1>13 DEF RetryOrDeadLetter
  <2>4. delivery \in Message
    BY <1>0, <2>1 DEF TypeOK
  <2>5. \A m \in Message : main[m] > 0 => main'[m] > 0
    BY <1>0, <2>3, <2>4, EnqueueKeeps DEF TypeOK
  <2> QED
    BY <1>2, <2>1, <2>2, <2>5 DEF Judging
<1>14. CASE MarkSubmitSystemError
  <2>1. /\ trouble = 0 /\ handler' = handler /\ connected' = connected /\ main' = main
        /\ pc[Consumer] = "dead"
    BY <1>0, <1>14 DEF MarkSubmitSystemError, NoTrouble, broker
  <2>2. \E phase : pc' = [pc EXCEPT ![Consumer] = phase]
    BY <1>14 DEF MarkSubmitSystemError, Goto
  <2>3. \A s \in Submits : status'[s] \in {"pending", "running"} => status'[s] = status[s]
    BY <1>0, <1>14 DEF MarkSubmitSystemError, TypeOK
  <2> QED
    BY <1>2, <2>1, <2>2, <2>3 DEF Judging
<1>15. CASE \E old \in SUBSET Submits : ScanPending(old)
  BY <1>1, <1>15 DEF ScanPending, db, broker, judge
<1>16. CASE \/ \E q \in Questions : SetQuestionDeleted(q)
            \/ LoseConnection
            \/ Crash
  BY <1>0, <1>16 DEF SetQuestionDeleted, LoseConnection, Crash
<1>17. CASE UNCHANGED vars
  BY <1>1, <1>17 DEF vars, db, broker, judge
<1> QED
  BY <1>3, <1>4, <1>5, <1>6, <1>7, <1>8, <1>9, <1>10, <1>11, <1>12, <1>13, <1>14, <1>15,
     <1>16, <1>17 DEF Next, ConsumerStep

----------------------------------------------------------------------------
\* The invariant holds when the process starts.
LEMMA InitPipelineInv == Init => PipelineInv
<1> SUFFICES ASSUME Init PROVE PipelineInv
  OBVIOUS
<1>1. TypeOK
  BY InitTypeOK
<1>2. VerdictKnown /\ TransactionLock /\ CountFresh /\ RowNew /\ ClaimHeld /\ SingleJudge
  BY DEF Init, VerdictKnown, TransactionLock, CountFresh, RowNew, ClaimHeld, SingleJudge,
       InTransaction, Judging
<1>3. AnnouncedFinal /\ RecordAwarded /\ RuntimeVerdictBacked
  BY DEF Init, AnnouncedFinal, RecordAwarded, RuntimeVerdictBacked
<1>4. LockHeld /\ NotLost /\ OneGoroutine /\ QuestionsThere
  BY DEF Init, LockHeld, NotLost, OneGoroutine, QuestionsThere
<1> QED
  BY <1>1, <1>2, <1>3, <1>4 DEF PipelineInv

\* Every step of judgeAsync keeps the invariant.
LEMMA JudgeStepInv ==
  ASSUME PipelineInv, NEW j \in Judges, JudgeStep(j)
  PROVE  TypeOK' /\ CoreInv'
<1>1. TypeOK'
  BY JudgeTypeOK DEF PipelineInv
<1>2. CoreInv'
  BY ClaimInv, LoadSubmitInv, LoadQuestionInv, ExecuteInv, FinishJudgeSubmitInv,
     LockQuestionInv, CountAcceptedInv, CommitAcceptedInv, RecordFirstAcceptedInv,
     PublishVerdictInv DEF JudgeStep
<1> QED
  BY <1>1, <1>2

\* Every step about one submission outside judgeAsync keeps the invariant.
LEMMA SubmitStepInv ==
  ASSUME PipelineInv, NEW s \in Submits,
         \/ CheckQuestion(s) \/ CreateSubmit(s) \/ PublishSubmit(s)
         \/ Republish(s) \/ ResetRunning(s) \/ RuntimeExpire(s)
  PROVE  TypeOK' /\ CoreInv'
<1>1. TypeOK'
  BY SubmitTypeOK DEF PipelineInv
<1>2. CASE Republish(s)
  <2>1. UNCHANGED Untouched
    BY <1>2 DEF Republish, Untouched, db, redis
  <2> QED
    BY <1>1, <2>1, UntouchedInv
<1>3. CASE ~Republish(s)
  <2>1. CoreInv'
    BY <1>3, CheckQuestionInv, CreateSubmitInv, PublishSubmitInv, ResetRunningInv,
       RuntimeExpireInv
  <2> QED
    BY <1>1, <2>1
<1> QED
  BY <1>2, <1>3

\* Every step of the broker and of the consumer keeps the invariant.
LEMMA QueueStepInv ==
  ASSUME PipelineInv,
         \/ \E m \in Message : Deliver(m) \/ RetryExpire(m)
         \/ ConsumerStep
  PROVE  TypeOK' /\ CoreInv'
<1>1. TypeOK'
  BY QueueTypeOK DEF PipelineInv
<1>2. ASSUME NEW m \in Message, RetryExpire(m) PROVE CoreInv'
  <2>1. UNCHANGED Untouched
    BY <1>2 DEF RetryExpire, Untouched, db, redis
  <2> QED
    BY <2>1, UntouchedInv
<1>3. CoreInv'
  BY <1>2, DeliverInv, AckInv, RetryOrDeadLetterInv, MarkSubmitSystemErrorInv,
     AnnounceSystemErrorInv DEF ConsumerStep
<1> QED
  BY <1>1, <1>3

\* The ticker's scan and every step of the environment keep the invariant.
LEMMA EnvironmentStepInv ==
  ASSUME PipelineInv,
         \/ \E old \in SUBSET Submits : ScanPending(old)
         \/ \E q \in Questions : SetQuestionDeleted(q)
         \/ LoseConnection
         \/ Crash
  PROVE  TypeOK' /\ CoreInv'
<1>1. TypeOK'
  BY EnvironmentTypeOK DEF PipelineInv
<1>2. CASE ~Crash
  <2>1. UNCHANGED Untouched
    BY <1>2 DEF ScanPending, SetQuestionDeleted, LoseConnection, Untouched, db, redis
  <2> QED
    BY <1>1, <2>1, UntouchedInv
<1>3. CASE Crash
  BY <1>1, <1>3, CrashInv
<1> QED
  BY <1>2, <1>3

\* The invariant is inductive.
LEMMA NextPipelineInv == PipelineInv /\ [Next]_vars => PipelineInv'
<1> SUFFICES ASSUME PipelineInv, [Next]_vars PROVE PipelineInv'
  OBVIOUS
<1>1. TypeOK' /\ CoreInv'
  <2>1. CASE UNCHANGED vars
    <3>1. TypeOK'
      BY <2>1 DEF PipelineInv, TypeOK, vars, db, redis, broker, judge, tick, hist
    <3>2. UNCHANGED Untouched
      BY <2>1 DEF Untouched, vars, db, redis
    <3> QED
      BY <3>1, <3>2, UntouchedInv
  <2>2. CASE Next
    BY <2>2, JudgeStepInv, SubmitStepInv, QueueStepInv, EnvironmentStepInv DEF Next
  <2> QED
    BY <2>1, <2>2
<1>2. LockHeld' /\ OneGoroutine' /\ QuestionsThere' /\ NotLost'
  BY NextLockHeld, NextOneGoroutine, NextQuestionsThere, NextNotLost
<1> QED
  BY <1>1, <1>2 DEF PipelineInv, CoreInv

\* What a claim, a verdict in Redis, a count and an award rest on holds in every
\* reachable state: the inductive invariant of the handlers of the judge.
THEOREM PipelineInvariant == Spec => []PipelineInv
BY InitPipelineInv, NextPipelineInv, PTL DEF Spec

\* The type invariant, for every instance.
THEOREM PipelineTypeCorrect == Spec => []TypeOK
<1>1. PipelineInv => TypeOK
  BY DEF PipelineInv
<1> QED
  BY <1>1, InitPipelineInv, NextPipelineInv, PTL DEF Spec

\* The claim UPDATE lets two goroutines judge one submission only after a tick
\* took it back from the first of them.
THEOREM ClaimIsExclusive == Spec => []SingleJudge
<1>1. PipelineInv => SingleJudge
  BY DEF PipelineInv
<1> QED
  BY <1>1, InitPipelineInv, NextPipelineInv, PTL DEF Spec

\* A verdict read from Redis is the verdict of the row, unless a tick took the row
\* back or a dead letter marked it a system error.
THEOREM RuntimeIsBacked == Spec => []RuntimeVerdictBacked
<1>1. PipelineInv => RuntimeVerdictBacked
  BY DEF PipelineInv
<1> QED
  BY <1>1, InitPipelineInv, NextPipelineInv, PTL DEF Spec

\* While nothing has gone wrong no created submission is out of everyone's hands:
\* the publish, the queue, the claim and the judge hand it to one another with no
\* gap, whatever overlaps. This is what EventuallyJudged has of safety.
THEOREM NothingLost == Spec => []NotLost
<1>1. PipelineInv => NotLost
  BY DEF PipelineInv
<1> QED
  BY <1>1, InitPipelineInv, NextPipelineInv, PTL DEF Spec

\* No way out of finishAcceptedJudgeSubmit leaves a question's row locked, and a
\* judge that holds a lock waits for none: the row locks cannot deadlock.
THEOREM RowLocksAreHeld == Spec => [](LockHeld /\ TransactionLock)
<1>1. PipelineInv => LockHeld /\ TransactionLock
  BY DEF PipelineInv
<1> QED
  BY <1>1, InitPipelineInv, NextPipelineInv, PTL DEF Spec

----------------------------------------------------------------------------
(* The pipeline implements SubmitLifecycle.                                 *)

\* A step of judgeAsync is a claim, a verdict, or nothing for the life cycle:
\* the locked count is the life cycle's "no accepted submission before".
LEMMA JudgeStepRefines ==
  ASSUME PipelineInv, NEW j \in Judges, JudgeStep(j)
  PROVE  [Promise!Next]_(Promise!lifecycleVars)
<1> DEFINE s == Job(j)
<1> USE DEF Promise!lifecycleVars
<1>0. s \in Submits
  BY JobType DEF PipelineInv, JudgeStep, Claim, LoadSubmit, LoadQuestion, Execute,
     FinishJudgeSubmit, LockQuestion, CountAccepted, CommitAccepted, RecordFirstAccepted,
     PublishVerdict
<1>1. CASE Claim(j)
  <2>1. Promise!Claim(s) \/ UNCHANGED Promise!lifecycleVars
    BY <1>1 DEF Claim, Promise!Claim, Promise!Move, hist
  <2> QED
    BY <1>0, <2>1 DEF Promise!Next
<1>2. CASE FinishJudgeSubmit(j)
  <2>1. verdict[j] \in {"rejected", "systemError"}
    BY <1>2 DEF PipelineInv, VerdictKnown, FinishJudgeSubmit
  <2>2. Promise!Finish(s) \/ UNCHANGED Promise!lifecycleVars
    BY <1>2, <2>1 DEF FinishJudgeSubmit, Promise!Finish, Promise!Move, hist
  <2> QED
    BY <1>0, <2>2 DEF Promise!Next
<1>3. CASE CommitAccepted(j)
  <2>1. first[j] <=> Promise!NoAcceptedBefore(s)
    BY <1>3 DEF PipelineInv, CountFresh, CommitAccepted
  <2>2. Promise!Accept(s) \/ UNCHANGED Promise!lifecycleVars
    BY <1>3, <2>1 DEF CommitAccepted, Rollback, Promise!Accept, Promise!Move
  <2> QED
    BY <1>0, <2>2 DEF Promise!Next
<1>4. CASE \/ LoadSubmit(j) \/ LoadQuestion(j) \/ Execute(j) \/ LockQuestion(j)
           \/ CountAccepted(j) \/ RecordFirstAccepted(j) \/ PublishVerdict(j)
  BY <1>4 DEF LoadSubmit, LoadQuestion, Execute, LockQuestion, CountAccepted,
     RecordFirstAccepted, PublishVerdict, db, hist
<1> QED
  BY <1>1, <1>2, <1>3, <1>4 DEF JudgeStep

\* Of the other steps about one submission, only the insertion and the reset of
\* a stuck row are steps of the life cycle.
LEMMA SubmitStepRefines ==
  ASSUME PipelineInv, NEW s \in Submits,
         \/ CheckQuestion(s) \/ CreateSubmit(s) \/ PublishSubmit(s)
         \/ Republish(s) \/ ResetRunning(s) \/ RuntimeExpire(s)
  PROVE  [Promise!Next]_(Promise!lifecycleVars)
<1> USE DEF Promise!lifecycleVars
<1>1. CASE CreateSubmit(s)
  <2>1. Promise!Create(s)
    BY <1>1 DEF PipelineInv, RowNew, CreateSubmit, Promise!Create, Promise!Move, hist
  <2> QED
    BY <2>1 DEF Promise!Next
<1>2. CASE ResetRunning(s)
  <2>1. Promise!Requeue(s)
    BY <1>2 DEF ResetRunning, Promise!Requeue, Promise!Move
  <2> QED
    BY <2>1 DEF Promise!Next
<1>3. CASE CheckQuestion(s) \/ PublishSubmit(s) \/ Republish(s) \/ RuntimeExpire(s)
  BY <1>3 DEF CheckQuestion, PublishSubmit, Republish, RuntimeExpire, db, hist
<1> QED
  BY <1>1, <1>2, <1>3

\* Of the consumer's steps, only giving up on a dead letter is one.
LEMMA ConsumerStepRefines ==
  ASSUME PipelineInv, ConsumerStep
  PROVE  [Promise!Next]_(Promise!lifecycleVars)
<1> USE DEF Promise!lifecycleVars
<1>1. CASE MarkSubmitSystemError
  <2>1. delivery.submit \in Submits
    BY <1>1 DEF PipelineInv, TypeOK, MarkSubmitSystemError, Message
  <2>2. Promise!GiveUp(delivery.submit) \/ UNCHANGED Promise!lifecycleVars
    BY <1>1 DEF MarkSubmitSystemError, Promise!GiveUp, Promise!Move, hist
  <2> QED
    BY <2>1, <2>2 DEF Promise!Next
<1>2. CASE Ack \/ RetryOrDeadLetter \/ AnnounceSystemError
  BY <1>2 DEF Ack, RetryOrDeadLetter, AnnounceSystemError, db, hist
<1> QED
  BY <1>1, <1>2 DEF ConsumerStep

\* Every step of the pipeline is a step of the life cycle or leaves it alone.
LEMMA NextRefines == PipelineInv /\ [Next]_vars => [Promise!Next]_(Promise!lifecycleVars)
<1> SUFFICES ASSUME PipelineInv, [Next]_vars
             PROVE  [Promise!Next]_(Promise!lifecycleVars)
  OBVIOUS
<1>1. CASE UNCHANGED vars
  BY <1>1 DEF vars, db, hist, Promise!lifecycleVars
<1>2. ASSUME NEW m \in Message, Deliver(m) \/ RetryExpire(m)
      PROVE  UNCHANGED Promise!lifecycleVars
  BY <1>2 DEF Deliver, RetryExpire, db, hist, Promise!lifecycleVars
<1>3. CASE \/ \E old \in SUBSET Submits : ScanPending(old)
           \/ \E q \in Questions : SetQuestionDeleted(q)
           \/ LoseConnection
           \/ Crash
  BY <1>3 DEF ScanPending, SetQuestionDeleted, LoseConnection, Crash, db, hist,
     Promise!lifecycleVars
<1> QED
  BY <1>1, <1>2, <1>3, JudgeStepRefines, SubmitStepRefines, ConsumerStepRefines DEF Next

\* Every behaviour of the pipeline is one the abstract life cycle allows.
THEOREM PipelineImplementsLifecycle == Spec => ImplementsLifecycle
<1>1. Init => Promise!Init
  BY DEF Init, Promise!Init
<1> QED
  BY <1>1, InitPipelineInv, NextPipelineInv, NextRefines, PTL
  DEF Spec, ImplementsLifecycle, Promise!Spec

\* What SubmitLifecycle_proofs proves of the life cycle, for the pipeline's
\* instance of it, in which there are no tasks of the agent.
LifecycleProofs == INSTANCE SubmitLifecycle_proofs
  WITH t1 <- {}, t2 <- {}, Tasks <- {}, MaxRound <- 1,
       part <- "submissions", token <- TRUE, question <- {}, task <- {}, at <- {}, round <- {},
       fits <- {}, submits <- {}, verdict <- {}, server <- {}, posts <- {}, bound <- {},
       agents <- {}, author <- {}, raced <- FALSE, trouble <- 0

\* The pipeline's constants are as the life cycle assumes.
LEMMA LifecycleAssumption ==
  /\ IsFiniteSet(Submits)
  /\ UserOf \in [Submits -> Users]
  /\ QuestionOf \in [Submits -> Questions]
  /\ IsFiniteSet({}) /\ 1 \in Nat \ {0} /\ MaxTrouble \in Nat
BY PipelineAssumption, FS_EmptySet

\* The two instances of SubmitLifecycle specify the same behaviours.
LEMMA SameLifecycle == Promise!Spec => LifecycleProofs!Spec
<1> USE DEF Promise!lifecycleVars, LifecycleProofs!lifecycleVars
<1>1. Promise!Init => LifecycleProofs!Init
  BY DEF Promise!Init, LifecycleProofs!Init
<1>2. [Promise!Next]_(Promise!lifecycleVars)
        => [LifecycleProofs!Next]_(LifecycleProofs!lifecycleVars)
  BY DEF Promise!Next, Promise!Create, Promise!Claim, Promise!Requeue, Promise!Finish,
     Promise!Accept, Promise!GiveUp, Promise!Move, Promise!NoAcceptedBefore,
     Promise!SameTask, LifecycleProofs!Next, LifecycleProofs!Create,
     LifecycleProofs!Claim, LifecycleProofs!Requeue, LifecycleProofs!Finish,
     LifecycleProofs!Accept, LifecycleProofs!GiveUp, LifecycleProofs!Move,
     LifecycleProofs!NoAcceptedBefore, LifecycleProofs!SameTask
<1> QED
  BY <1>1, <1>2, PTL DEF Promise!Spec, LifecycleProofs!Spec

\* question.acceptedNum is exact in every reachable state, whatever overlaps,
\* is redelivered or crashes.
THEOREM PipelineCountsExact == Spec => []AcceptedNumExact
<1>1. LifecycleProofs!Spec => []LifecycleProofs!LifecycleInv
  BY LifecycleProofs!LifecycleSafety, LifecycleAssumption
  DEF IsFiniteSet, LifecycleProofs!IsFiniteSet
<1>2. LifecycleProofs!LifecycleInv => AcceptedNumExact
  BY DEF LifecycleProofs!LifecycleInv, AcceptedNumExact, Promise!AcceptedNumExact, Promise!AcceptedOf,
     LifecycleProofs!AcceptedNumExact, LifecycleProofs!AcceptedOf,
     Promise!Cardinality, LifecycleProofs!Cardinality
<1> QED
  BY <1>1, <1>2, SameLifecycle, PipelineImplementsLifecycle, PTL DEF ImplementsLifecycle

\* At most one submission of an author on a question is ever its first accepted
\* one, and only such a submission reaches the 24h ranking.
THEOREM PipelineFirstAcceptedUnique == Spec => []FirstAcceptedUnique
<1>1. LifecycleProofs!Spec => []LifecycleProofs!LifecycleInv
  BY LifecycleProofs!LifecycleSafety, LifecycleAssumption
  DEF IsFiniteSet, LifecycleProofs!IsFiniteSet
<1>2. LifecycleProofs!LifecycleInv /\ PipelineInv => FirstAcceptedUnique
  BY DEF LifecycleProofs!LifecycleInv, FirstAcceptedUnique, Promise!FirstAcceptedUnique, Promise!SameTask,
     LifecycleProofs!FirstAcceptedUnique, LifecycleProofs!SameTask, PipelineInv,
     RecordAwarded
<1> QED
  BY <1>1, <1>2, SameLifecycle, PipelineImplementsLifecycle, InitPipelineInv,
     NextPipelineInv, PTL DEF ImplementsLifecycle, Spec

\* No judge, tick, dead letter or crash takes a row out of a final status.
THEOREM PipelineVerdictFinal == Spec => VerdictFinal
<1>1. PipelineInv /\ [Next]_vars
        => [\A s \in Submits : status[s] \in Terminal => status'[s] = status[s]]_vars
  <2> SUFFICES ASSUME PipelineInv, [Promise!Next]_(Promise!lifecycleVars),
                      NEW s \in Submits, status[s] \in Terminal
               PROVE  status'[s] = status[s]
    BY NextRefines
  <2> QED
    BY DEF PipelineInv, TypeOK, Promise!lifecycleVars, Promise!Next, Promise!Create,
       Promise!Claim, Promise!Requeue, Promise!Finish, Promise!Accept, Promise!GiveUp,
       Promise!Move
<1> QED
  BY <1>1, InitPipelineInv, NextPipelineInv, PTL DEF Spec, VerdictFinal

----------------------------------------------------------------------------
(* JudgeQueue                                                               *)

\* The confirmations that calls have taken: every call took one, except those
\* that gave up and the one that is waiting.
Taken == published - behind - (IF Q!Quiet THEN 0 ELSE 1)

\* q.mu: one call at a time, about the last message.
Locked ==
  /\ \A c, d \in Callers : waiting[c] # 0 /\ waiting[d] # 0 => c = d
  /\ \A c \in Callers : waiting[c] \in {0, published}

\* Of messages that are not sent the broker knows nothing.
Unsent == \A m \in Q!Messages : m > published => fate[m] = "none"

\* The confirmations of the messages after lo, up to hi, once each and in order,
\* among deliveries.
Carries(frames, lo, hi) ==
  /\ \A i \in DOMAIN frames : frames[i].kind = "confirm" => frames[i].message \in lo + 1 .. hi
  /\ \A i, j \in DOMAIN frames :
       i < j /\ frames[i].kind = "confirm" /\ frames[j].kind = "confirm" =>
         frames[i].message < frames[j].message
  /\ \A n \in lo + 1 .. hi :
       \E i \in DOMAIN frames : frames[i].kind = "confirm" /\ frames[i].message = n

\* Confirmations pass through inbound and confirms in the order of the messages.
Counted(t) ==
  /\ t \in Nat /\ t + Len(confirms) <= confirmed
  /\ confirms # <<>> => Head(confirms) = t + 1
  /\ IF open THEN Carries(inbound, t + Len(confirms), confirmed) ELSE inbound = <<>>

\* With the types and with what an answer promises, an inductive invariant.
QueueInv == Q!TypeOK /\ Locked /\ Unsent /\ Counted(Taken) /\ Q!OkIsKept

\* A frame that is added at the end keeps the order: a delivery, or the next
\* confirmation.
LEMMA CarriesAnother ==
  ASSUME NEW frames \in Seq(Q!Frame), NEW lo \in Nat, NEW hi \in Nat, lo <= hi,
         Carries(frames, lo, hi), NEW f \in Q!Frame,
         NEW top \in Nat,
         IF f.kind = "confirm" THEN f.message = hi + 1 /\ top = hi + 1 ELSE top = hi
  PROVE  Carries(Append(frames, f), lo, top)
<1> DEFINE more == Append(frames, f)
           k == Len(frames)
<1>1. /\ k \in Nat /\ DOMAIN frames = 1..k /\ DOMAIN more = 1..k + 1
      /\ \A i \in 1..k : more[i] = frames[i]
      /\ more[k + 1] = f
  BY AppendProperties, LenProperties
<1> HIDE DEF more, k
<1>2. \A i \in 1..k : frames[i].kind = "confirm" => frames[i].message \in lo + 1 .. hi
  BY <1>1 DEF Carries
<1>3. \A i \in 1..k + 1 : i \in 1..k \/ i = k + 1
  BY <1>1
<1>4. ASSUME NEW i \in DOMAIN more, more[i].kind = "confirm"
      PROVE  more[i].message \in lo + 1 .. top
  BY <1>1, <1>2, <1>3, <1>4
<1>5. ASSUME NEW i \in DOMAIN more, NEW j \in DOMAIN more,
             i < j, more[i].kind = "confirm", more[j].kind = "confirm"
      PROVE  more[i].message < more[j].message
  <2>1. i \in 1..k
    BY <1>1, <1>5
  <2>2. CASE j \in 1..k
    BY <1>1, <1>5, <2>1, <2>2 DEF Carries
  <2>3. CASE j = k + 1
    <3>1. frames[i].message \in lo + 1 .. hi /\ more[i] = frames[i]
      BY <1>1, <1>2, <1>5, <2>1
    <3>2. more[j].message = hi + 1
      BY <1>1, <1>5, <2>3
    <3> QED BY <3>1, <3>2
  <2> QED BY <1>1, <1>3, <2>2, <2>3
<1>6. ASSUME NEW n \in lo + 1 .. top
      PROVE  \E i \in DOMAIN more : more[i].kind = "confirm" /\ more[i].message = n
  <2>1. CASE n \in lo + 1 .. hi
    <3>1. PICK i \in DOMAIN frames : frames[i].kind = "confirm" /\ frames[i].message = n
      BY <2>1 DEF Carries
    <3> QED BY <1>1, <3>1
  <2>2. CASE n \notin lo + 1 .. hi
    <3>1. f.kind = "confirm" /\ n = hi + 1
      BY <2>2
    <3>2. k + 1 \in DOMAIN more
      BY <1>1
    <3> QED BY <1>1, <3>1, <3>2
  <2> QED BY <2>1, <2>2
<1> QED BY <1>4, <1>5, <1>6 DEF Carries, more

\* The first confirmation is the next one, and without the first frame the rest
\* is in order.
LEMMA CarriesRest ==
  ASSUME NEW frames \in Seq(Q!Frame), NEW lo \in Nat, NEW hi \in Nat, lo <= hi,
         Carries(frames, lo, hi), frames # <<>>
  PROVE  IF Head(frames).kind = "confirm"
         THEN /\ Head(frames).message = lo + 1 /\ lo + 1 <= hi
              /\ Carries(Tail(frames), lo + 1, hi)
         ELSE Carries(Tail(frames), lo, hi)
<1> DEFINE rest == Tail(frames)
           k == Len(rest)
           low == IF Head(frames).kind = "confirm" THEN lo + 1 ELSE lo
<1>1. /\ k \in Nat /\ DOMAIN rest = 1..k /\ DOMAIN frames = 1..k + 1
      /\ \A i \in 1..k : rest[i] = frames[i + 1]
      /\ Head(frames) = frames[1]
  <2>1. rest \in Seq(Q!Frame) /\ Len(rest) = Len(frames) - 1
    BY HeadTailProperties
  <2>2. k \in Nat /\ Len(frames) \in Nat /\ DOMAIN rest = 1..k /\ DOMAIN frames = 1..Len(frames)
    BY <2>1, LenProperties
  <2>3. \A i \in 1..k : rest[i] = frames[i + 1]
    BY <2>1, HeadTailProperties
  <2> QED BY <2>1, <2>2, <2>3
<1> HIDE DEF rest, k
<1>2. 1 \in 1..k + 1 /\ \A i \in 1..k : i + 1 \in 1..k + 1 /\ 1 < i + 1
  BY <1>1
<1>3. Head(frames).kind = "confirm" => Head(frames).message = lo + 1 /\ lo + 1 <= hi
  <2> SUFFICES ASSUME frames[1].kind = "confirm" PROVE frames[1].message = lo + 1 /\ lo + 1 <= hi
    BY <1>1
  <2>1. frames[1].message \in lo + 1 .. hi
    BY <1>1, <1>2 DEF Carries
  <2>2. lo + 1 \in lo + 1 .. hi
    BY <2>1
  <2>3. PICK i \in 1..k + 1 : frames[i].kind = "confirm" /\ frames[i].message = lo + 1
    BY <1>1, <2>2 DEF Carries
  <2>4. i = 1 \/ 1 < i
    BY <1>1
  <2>5. 1 < i => frames[1].message < lo + 1
    BY <1>1, <1>2, <2>3 DEF Carries
  <2> QED BY <2>1, <2>3, <2>4, <2>5
<1>4. ASSUME NEW i \in DOMAIN rest, rest[i].kind = "confirm"
      PROVE  rest[i].message \in low + 1 .. hi
  <2>1. i + 1 \in DOMAIN frames /\ rest[i] = frames[i + 1]
    BY <1>1, <1>2
  <2>2. frames[i + 1].message \in lo + 1 .. hi
    BY <1>4, <2>1 DEF Carries
  <2>3. Head(frames).kind = "confirm" => frames[1].message < frames[i + 1].message
    BY <1>1, <1>2, <1>4, <2>1 DEF Carries
  <2> QED BY <1>1, <1>3, <2>1, <2>2, <2>3
<1>5. ASSUME NEW i \in DOMAIN rest, NEW j \in DOMAIN rest,
             i < j, rest[i].kind = "confirm", rest[j].kind = "confirm"
      PROVE  rest[i].message < rest[j].message
  <2>1. /\ i + 1 \in DOMAIN frames /\ j + 1 \in DOMAIN frames /\ i + 1 < j + 1
        /\ rest[i] = frames[i + 1] /\ rest[j] = frames[j + 1]
    BY <1>1, <1>2, <1>5
  <2> QED BY <1>5, <2>1 DEF Carries
<1>6. ASSUME NEW n \in low + 1 .. hi
      PROVE  \E i \in DOMAIN rest : rest[i].kind = "confirm" /\ rest[i].message = n
  <2>1. n \in lo + 1 .. hi
    BY <1>6
  <2>2. PICK i \in 1..k + 1 : frames[i].kind = "confirm" /\ frames[i].message = n
    BY <1>1, <2>1 DEF Carries
  <2>3. i # 1
    <3>1. CASE Head(frames).kind = "confirm"
      BY <1>1, <1>3, <1>6, <2>2, <3>1
    <3>2. CASE Head(frames).kind # "confirm"
      BY <1>1, <2>2, <3>2
    <3> QED BY <3>1, <3>2
  <2>4. i - 1 \in 1..k /\ (i - 1) + 1 = i
    BY <1>1, <2>3
  <2>5. rest[i - 1] = frames[i] /\ i - 1 \in DOMAIN rest
    BY <1>1, <2>4
  <2> QED BY <2>2, <2>5
<1>7. Carries(rest, low, hi)
  BY <1>4, <1>5, <1>6 DEF Carries
<1> QED BY <1>3, <1>7 DEF rest

\* What the invariant says of numbers and sequences.
LEMMA QueueTypes ==
  ASSUME QueueInv
  PROVE  /\ MaxPublishes \in Nat /\ published \in Nat /\ behind \in Nat /\ confirmed \in Nat
         /\ published <= MaxPublishes /\ confirmed <= published /\ behind <= published
         /\ inbound \in Seq(Q!Frame) /\ DOMAIN inbound = 1..Len(inbound) /\ Len(inbound) \in Nat
         /\ \A i \in DOMAIN inbound : inbound[i] \in Q!Frame
         /\ confirms \in Seq(Q!Messages) /\ (Len(confirms) = 0 \/ Len(confirms) = 1)
         /\ confirms # <<>> => Len(confirms) = 1
         /\ confirms # <<>> => Head(confirms) \in Q!Messages
<1>1. Q!TypeOK
  BY DEF QueueInv
<1>2. MaxPublishes \in Nat
  BY QueueAssumption
<1>3. published \in 0..MaxPublishes /\ confirmed \in 0..published /\ behind \in 0..published
  BY <1>1 DEF Q!TypeOK
<1>4. inbound \in Seq(Q!Frame) /\ confirms \in Seq(Q!Messages) /\ Len(confirms) <= 1
  BY <1>1 DEF Q!TypeOK
<1>5. DOMAIN inbound = 1..Len(inbound) /\ Len(inbound) \in Nat /\ \A i \in DOMAIN inbound : inbound[i] \in Q!Frame
  BY <1>4, LenProperties, ElementOfSeq
<1>6. Len(confirms) \in Nat /\ (Len(confirms) = 0 => confirms = <<>>)
  BY <1>4, LenProperties, EmptySeq
<1>7. Len(confirms) = 0 \/ Len(confirms) = 1
  <2> DEFINE l == Len(confirms)
  <2>1. l \in Nat /\ l <= 1
    BY <1>4, <1>6
  <2> HIDE DEF l
  <2>2. l = 0 \/ l = 1
    BY <2>1
  <2> QED BY <2>2 DEF l
<1>8. confirms # <<>> => Head(confirms) \in Q!Messages
  BY <1>4, HeadTailProperties
<1> QED BY <1>2, <1>3, <1>4, <1>5, <1>6, <1>7, <1>8

\* Taken, for the provers, without its IF.
LEMMA TakenIs ==
  /\ Q!Quiet => Taken = published - behind - 0
  /\ ~Q!Quiet => Taken = published - behind - 1
  /\ Q!Quiet' => Taken' = published' - behind' - 0
  /\ ~Q!Quiet' => Taken' = published' - behind' - 1
BY Zenon DEF Taken

\* A step keeps OkIsKept when it takes no message from its queue, answers no
\* call with success and lowers no count.
LEMMA OkKept ==
  ASSUME QueueInv, behind' \in Nat, behind' >= behind,
         \A m \in Q!Messages : fate[m] \in Q!Kept => fate'[m] \in Q!Kept,
         \A m \in Q!Messages : answer'[m] = "ok" => answer[m] = "ok"
  PROVE  Q!OkIsKept'
<1> SUFFICES ASSUME NEW m \in Q!Messages, answer'[m] = "ok"
             PROVE  \E n \in 1..m : n >= m - behind' /\ fate'[n] \in Q!Kept
  BY DEF Q!OkIsKept, Q!Messages, Q!Kept
<1>1. PICK n \in 1..m : n >= m - behind /\ fate[n] \in Q!Kept
  BY DEF QueueInv, Q!OkIsKept
<1>2. m \in Nat /\ behind \in Nat /\ MaxPublishes \in Nat /\ n \in Nat
  BY QueueTypes DEF Q!Messages
<1>3. n \in Q!Messages
  BY <1>2 DEF Q!Messages
<1>4. behind' \in Nat /\ behind' >= behind /\ n >= m - behind
  BY <1>1
<1>5. \A x, y, z, w \in Nat : x >= y - z /\ w >= z => x >= y - w
  OBVIOUS
<1>6. n >= m - behind'
  BY <1>2, <1>4, <1>5
<1> QED BY <1>1, <1>3, <1>6

\* It holds at the start.
LEMMA InitQueue == Q!Init => QueueInv
<1> SUFFICES ASSUME Q!Init PROVE QueueInv
  OBVIOUS
<1>1. /\ inbound = <<>> /\ inbound \in Seq(Q!Frame) /\ DOMAIN inbound = {}
      /\ confirms = <<>> /\ confirms \in Seq(Q!Messages) /\ Len(confirms) = 0
  BY DEF Q!Init
<1>2. 0 \in 0..MaxPublishes /\ 0 \in 0..0
  BY QueueAssumption
<1>3. Q!TypeOK
  BY <1>1, <1>2 DEF Q!Init, Q!TypeOK
<1>4. Locked /\ Unsent /\ Q!OkIsKept /\ Q!Quiet
  BY DEF Q!Init, Locked, Unsent, Q!OkIsKept, Q!Quiet
<1>5. Taken = 0
  BY <1>4, TakenIs DEF Q!Init
<1>6. Counted(Taken)
  BY <1>1, <1>5 DEF Q!Init, Counted, Carries
<1> QED BY <1>3, <1>4, <1>6 DEF QueueInv

\* publish begins: the lock is free, so the message is the only one waiting.
LEMMA QueuePublish ==
  ASSUME QueueInv, NEW c \in Callers, Q!Publish(c)
  PROVE  QueueInv'
<1>1. /\ Q!Quiet /\ published < MaxPublishes /\ published' = published + 1
      /\ fate' = [fate EXCEPT ![published + 1] = "sent"]
      /\ waiting' = [waiting EXCEPT ![c] = published + 1]
      /\ forward' \in {forward, published + 1}
      /\ UNCHANGED <<open, answer, confirmed, unacked, delivered, inbound, confirms, behind>>
  BY DEF Q!Publish, Q!Send
<1>2. /\ published + 1 \in 1..MaxPublishes /\ published + 1 \in 0..MaxPublishes
      /\ confirmed \in 0..published' /\ behind \in 0..published'
  BY <1>1, QueueTypes
<1>3. Q!TypeOK'
  <2>1. /\ waiting' \in [Callers -> 0..MaxPublishes] /\ forward' \in 0..MaxPublishes
        /\ fate' \in [Q!Messages -> {"none", "sent", "refused"} \cup Q!Kept]
    BY <1>1, <1>2 DEF QueueInv, Q!TypeOK, Q!Messages
  <2> QED BY <1>1, <1>2, <2>1 DEF QueueInv, Q!TypeOK, Q!Messages, Q!Kept, Q!Frame
<1>4. \A d \in Callers : waiting[d] = 0 /\ waiting'[d] = IF d = c THEN published + 1 ELSE 0
  BY <1>1 DEF Q!Quiet, QueueInv, Q!TypeOK
<1>5. published + 1 # 0
  BY QueueTypes
<1>6. Locked' /\ ~Q!Quiet'
  BY <1>1, <1>4, <1>5 DEF Locked, Q!Quiet
<1>7. Taken' = Taken
  BY <1>1, <1>6, TakenIs, QueueTypes
<1>8. Counted(Taken)'
  BY <1>1, <1>7 DEF QueueInv, Counted, Carries
<1>9. Unsent' /\ Q!OkIsKept'
  <2>1. fate[published + 1] = "none"
    BY <1>1, <1>2, QueueTypes DEF QueueInv, Unsent, Q!Messages
  <2>2. \A m \in Q!Messages : fate'[m] = IF m = published + 1 THEN "sent" ELSE fate[m]
    BY <1>1 DEF QueueInv, Q!TypeOK
  <2>3. \A m \in Q!Messages : fate[m] \in Q!Kept => fate'[m] \in Q!Kept
    BY <2>1, <2>2 DEF Q!Kept
  <2>4. Q!OkIsKept'
    BY <1>1, <2>3, OkKept, QueueTypes
  <2>5. \A m \in Q!Messages : m > published + 1 => m > published /\ m # published + 1
    BY QueueTypes DEF Q!Messages
  <2> QED BY <1>1, <2>2, <2>4, <2>5 DEF QueueInv, Unsent, Q!Messages
<1> QED BY <1>3, <1>6, <1>8, <1>9 DEF QueueInv

\* A call that ends leaves nobody waiting.
LEMMA AnswerEnds ==
  ASSUME QueueInv, NEW c \in Callers, waiting[c] # 0, NEW a \in {"ok", "error"}, Q!Answer(c, a)
  PROVE  /\ waiting[c] = published /\ published \in Q!Messages /\ ~Q!Quiet
         /\ waiting' \in [Callers -> 0..MaxPublishes]
         /\ \A d \in Callers : waiting'[d] = 0
         /\ Q!Quiet'
         /\ answer' \in [Q!Messages -> {"none", "ok", "error"}]
         /\ \A m \in Q!Messages : answer'[m] = IF m = published THEN a ELSE answer[m]
<1>1. waiting \in [Callers -> 0..MaxPublishes] /\ answer \in [Q!Messages -> {"none", "ok", "error"}]
  BY DEF QueueInv, Q!TypeOK
<1>2. waiting[c] = published
  BY DEF QueueInv, Locked
<1>3. published \in Q!Messages
  BY <1>2, QueueTypes DEF Q!Messages
<1>4. 0 \in 0..MaxPublishes
  BY QueueTypes
<1>5. waiting' = [waiting EXCEPT ![c] = 0] /\ answer' = [answer EXCEPT ![published] = a]
  BY <1>2 DEF Q!Answer
<1>6. \A d \in Callers : waiting'[d] = 0
  BY <1>1, <1>5 DEF QueueInv, Locked
<1>7. waiting' \in [Callers -> 0..MaxPublishes]
  BY <1>1, <1>4, <1>5
<1>8. /\ answer' \in [Q!Messages -> {"none", "ok", "error"}]
      /\ \A m \in Q!Messages : answer'[m] = IF m = published THEN a ELSE answer[m]
  BY <1>1, <1>3, <1>5
<1> QED BY <1>2, <1>3, <1>6, <1>7, <1>8 DEF Q!Quiet

\* A call takes the confirmation of the message that many before its own as calls
\* have given up.
LEMMA QueueTake ==
  ASSUME QueueInv, NEW c \in Callers, Q!TakeConfirm(c)
  PROVE  QueueInv'
<1> DEFINE a == IF fate[Head(confirms)] \in Q!Kept THEN "ok" ELSE "error"
<1>1. /\ waiting[c] # 0 /\ confirms # <<>> /\ Q!Answer(c, a) /\ confirms' = <<>>
      /\ UNCHANGED <<open, published, fate, confirmed, unacked, delivered, forward, inbound, behind>>
  BY DEF Q!TakeConfirm
<1>2. a \in {"ok", "error"} /\ (a = "ok" <=> fate[Head(confirms)] \in Q!Kept)
  OBVIOUS
<1> HIDE DEF a
<1>3. /\ waiting[c] = published /\ published \in Q!Messages /\ ~Q!Quiet
      /\ waiting' \in [Callers -> 0..MaxPublishes]
      /\ \A d \in Callers : waiting'[d] = 0
      /\ Q!Quiet'
      /\ answer' \in [Q!Messages -> {"none", "ok", "error"}]
      /\ \A m \in Q!Messages : answer'[m] = IF m = published THEN a ELSE answer[m]
  BY <1>1, <1>2, AnswerEnds
<1>4. confirms' \in Seq(Q!Messages) /\ Len(confirms') = 0
  BY <1>1
<1>5. Q!TypeOK'
  BY <1>1, <1>3, <1>4 DEF QueueInv, Q!TypeOK, Q!Messages, Q!Kept, Q!Frame
<1>6. Locked' /\ Unsent'
  BY <1>1, <1>3 DEF QueueInv, Locked, Unsent, Q!Messages
<1>7. Taken = published - behind - 1 /\ Taken' = published' - behind' - 0
  BY <1>3, TakenIs, Zenon
<1>8. Len(confirms) = 1 /\ Taken \in Nat /\ Head(confirms) = Taken + 1
  BY <1>1, QueueTypes DEF QueueInv, Counted
<1>9. Taken' = Taken + 1 /\ Taken' \in Nat /\ Head(confirms) = published - behind
  BY <1>1, <1>7, <1>8, QueueTypes
<1>10. Taken' + Len(confirms') = Taken + Len(confirms)
  BY <1>4, <1>8, <1>9
<1>11. Counted(Taken)'
  BY <1>1, <1>9, <1>10 DEF QueueInv, Counted, Carries
<1>12. Q!OkIsKept'
  <2> SUFFICES ASSUME NEW m \in Q!Messages, answer'[m] = "ok"
               PROVE  \E n \in 1..m : n >= m - behind /\ fate[n] \in Q!Kept
    BY <1>1 DEF Q!OkIsKept, Q!Messages, Q!Kept
  <2>1. CASE m = published
    <3>1. fate[Head(confirms)] \in Q!Kept
      BY <1>2, <1>3, <2>1
    <3>2. Head(confirms) \in 1..m /\ Head(confirms) >= m - behind
      BY <1>1, <1>9, <2>1, QueueTypes DEF Q!Messages
    <3> QED BY <3>1, <3>2
  <2>2. CASE m # published
    BY <1>3, <2>2 DEF QueueInv, Q!OkIsKept
  <2> QED BY <2>1, <2>2
<1> QED BY <1>5, <1>6, <1>11, <1>12 DEF QueueInv

\* A call that gives up leaves its confirmation to the next one.
LEMMA QueueGiveUp ==
  ASSUME QueueInv, NEW c \in Callers, Q!GiveUp(c)
  PROVE  QueueInv'
<1>1. /\ waiting[c] # 0 /\ Q!Answer(c, "error") /\ behind' = behind + 1
      /\ UNCHANGED <<open, published, fate, confirmed, unacked, delivered, forward, inbound, confirms>>
  BY DEF Q!GiveUp
<1>2. /\ ~Q!Quiet
      /\ waiting' \in [Callers -> 0..MaxPublishes]
      /\ \A d \in Callers : waiting'[d] = 0
      /\ Q!Quiet'
      /\ answer' \in [Q!Messages -> {"none", "ok", "error"}]
      /\ \A m \in Q!Messages : answer'[m] = IF m = published THEN "error" ELSE answer[m]
  BY <1>1, AnswerEnds
<1>3. Taken = published - behind - 1 /\ Taken' = published' - behind' - 0
  BY <1>2, TakenIs, Zenon
<1>4. Taken \in Nat
  BY DEF QueueInv, Counted
<1>5. Taken' = Taken /\ behind' \in 0..published
  BY <1>1, <1>3, <1>4, QueueTypes
<1>6. Q!TypeOK'
  BY <1>1, <1>2, <1>5 DEF QueueInv, Q!TypeOK, Q!Messages, Q!Kept, Q!Frame
<1>7. Locked' /\ Unsent'
  BY <1>1, <1>2 DEF QueueInv, Locked, Unsent, Q!Messages
<1>8. Counted(Taken)'
  BY <1>1, <1>5 DEF QueueInv, Counted, Carries
<1>9. Q!OkIsKept'
  BY <1>1, <1>2, OkKept, QueueTypes
<1> QED BY <1>6, <1>7, <1>8, <1>9 DEF QueueInv

\* The broker decides what becomes of a message.
LEMMA QueueHandle ==
  ASSUME QueueInv, NEW m \in Q!Messages, Q!Handle(m)
  PROVE  QueueInv'
<1>1. PICK f \in {"refused"} \cup Q!Kept :
        /\ fate' = [fate EXCEPT ![m] = f] /\ fate[m] = "sent"
        /\ UNCHANGED <<open, waiting, published, answer, confirmed, unacked, delivered, forward,
                       inbound, confirms, behind>>
  BY DEF Q!Handle
<1>2. \A n \in Q!Messages : fate'[n] = IF n = m THEN f ELSE fate[n]
  BY <1>1 DEF QueueInv, Q!TypeOK
<1>3. fate' \in [Q!Messages -> {"none", "sent", "refused"} \cup Q!Kept]
  BY <1>1 DEF QueueInv, Q!TypeOK
<1>4. Q!TypeOK'
  BY <1>1, <1>3 DEF QueueInv, Q!TypeOK, Q!Messages, Q!Kept, Q!Frame
<1>5. Locked' /\ Unsent'
  BY <1>1, <1>2 DEF QueueInv, Locked, Unsent, Q!Messages
<1>6. Taken' = Taken
  BY <1>1 DEF Taken, Q!Quiet
<1>7. Counted(Taken)'
  BY <1>1, <1>6 DEF QueueInv, Counted, Carries
<1>8. \A n \in Q!Messages : fate[n] \in Q!Kept => fate'[n] \in Q!Kept
  BY <1>1, <1>2 DEF Q!Kept
<1>9. Q!OkIsKept'
  BY <1>1, <1>8, OkKept, QueueTypes
<1> QED BY <1>4, <1>5, <1>7, <1>9 DEF QueueInv

\* What the lock, the fates and the answers guarantee does not depend on the
\* connection and the consumer.
LEMMA CallsKept ==
  ASSUME QueueInv, UNCHANGED <<waiting, published, fate, answer, behind>>
  PROVE  Locked' /\ Unsent' /\ Q!OkIsKept' /\ Taken' = Taken
BY DEF QueueInv, Locked, Unsent, Q!OkIsKept, Taken, Q!Quiet, Q!Messages, Q!Kept

\* The broker confirms the next message.
LEMMA QueueConfirm ==
  ASSUME QueueInv, Q!Confirm
  PROVE  QueueInv'
<1> DEFINE f == [kind |-> "confirm", message |-> confirmed + 1]
<1>1. /\ open /\ confirmed < published /\ confirmed' = confirmed + 1
      /\ inbound' = Append(inbound, f)
      /\ UNCHANGED <<open, waiting, published, fate, answer, unacked, delivered, forward, confirms,
                     behind>>
  BY DEF Q!Confirm, Q!Arrives
<1>2. confirmed + 1 \in Q!Messages /\ confirmed + 1 \in 0..published
  BY <1>1, QueueTypes DEF Q!Messages
<1>3. f \in Q!Frame /\ f.kind = "confirm" /\ f.message = confirmed + 1
  BY <1>2 DEF Q!Frame
<1> HIDE DEF f
<1>4. inbound' \in Seq(Q!Frame)
  BY <1>1, <1>3, QueueTypes, AppendProperties
<1>5. Q!TypeOK'
  BY <1>1, <1>2, <1>4 DEF QueueInv, Q!TypeOK, Q!Messages, Q!Kept, Q!Frame
<1>6. Locked' /\ Unsent' /\ Q!OkIsKept' /\ Taken' = Taken
  BY <1>1, CallsKept
<1> DEFINE r == Taken + Len(confirms)
<1>7. r \in Nat /\ r <= confirmed /\ Carries(inbound, r, confirmed) /\ Taken \in Nat
  BY <1>1, QueueTypes DEF QueueInv, Counted
<1>8. Carries(inbound', r, confirmed + 1)
  <2> HIDE DEF r
  <2> QED BY <1>1, <1>3, <1>7, CarriesAnother, QueueTypes
<1>9. r <= confirmed + 1
  BY <1>7, QueueTypes
<1>10. Counted(Taken)'
  BY <1>1, <1>6, <1>7, <1>8, <1>9 DEF QueueInv, Counted, Carries
<1> QED BY <1>5, <1>6, <1>10 DEF QueueInv

\* The broker delivers a message.
LEMMA QueueDeliver ==
  ASSUME QueueInv, NEW m \in Q!Messages, Q!Deliver(m)
  PROVE  QueueInv'
<1> DEFINE f == [kind |-> "deliver", message |-> m]
<1>1. /\ open /\ unacked' = m
      /\ inbound' = Append(inbound, f)
      /\ UNCHANGED <<open, waiting, published, fate, answer, confirmed, delivered, forward, confirms,
                     behind>>
  BY DEF Q!Deliver, Q!Arrives
<1>2. m \in 0..MaxPublishes
  BY QueueTypes DEF Q!Messages
<1>3. f \in Q!Frame /\ f.kind # "confirm"
  BY DEF Q!Frame
<1> HIDE DEF f
<1>4. inbound' \in Seq(Q!Frame)
  BY <1>1, <1>3, QueueTypes, AppendProperties
<1>5. Q!TypeOK'
  BY <1>1, <1>2, <1>4 DEF QueueInv, Q!TypeOK, Q!Messages, Q!Kept, Q!Frame
<1>6. Locked' /\ Unsent' /\ Q!OkIsKept' /\ Taken' = Taken
  BY <1>1, CallsKept
<1> DEFINE r == Taken + Len(confirms)
<1>7. r \in Nat /\ r <= confirmed /\ Carries(inbound, r, confirmed) /\ Taken \in Nat
  BY <1>1, QueueTypes DEF QueueInv, Counted
<1>8. Carries(inbound', r, confirmed)
  <2> HIDE DEF r
  <2> QED BY <1>1, <1>3, <1>7, CarriesAnother, QueueTypes
<1>9. Counted(Taken)'
  BY <1>1, <1>6, <1>7, <1>8 DEF QueueInv, Counted, Carries
<1> QED BY <1>5, <1>6, <1>9 DEF QueueInv

\* The library reads a frame.
LEMMA QueueRead ==
  ASSUME QueueInv, Q!Read
  PROVE  QueueInv'
<1> DEFINE f == Head(inbound)
           r == Taken + Len(confirms)
<1>1. /\ open /\ inbound # <<>> /\ inbound' = Tail(inbound)
      /\ UNCHANGED <<open, waiting, published, fate, answer, confirmed, unacked, forward, behind>>
  BY DEF Q!Read
<1>2. /\ f.kind = "deliver" => delivered' = delivered \cup {f.message} /\ confirms' = confirms
      /\ f.kind # "deliver" => confirms = <<>> /\ confirms' = <<f.message>> /\ delivered' = delivered
  BY DEF Q!Read
<1>3. inbound' \in Seq(Q!Frame) /\ f \in Q!Frame
  BY <1>1, QueueTypes, HeadTailProperties
<1>4. f.message \in Q!Messages /\ f.kind \in {"confirm", "deliver"}
  BY <1>3 DEF Q!Frame
<1>5. Q!TypeOK'
  <2>1. delivered' \subseteq Q!Messages /\ confirms' \in Seq(Q!Messages) /\ Len(confirms') <= 1
    <3>1. CASE f.kind = "deliver"
      BY <1>2, <1>4, <3>1 DEF QueueInv, Q!TypeOK
    <3>2. CASE f.kind # "deliver"
      <4>1. confirms' = <<f.message>> /\ delivered' = delivered
        BY <1>2, <3>2
      <4>2. <<f.message>> \in Seq(Q!Messages) /\ Len(<<f.message>>) = 1
        BY <1>4
      <4> QED BY <4>1, <4>2 DEF QueueInv, Q!TypeOK
    <3> QED BY <3>1, <3>2
  <2> QED BY <1>1, <1>3, <2>1 DEF QueueInv, Q!TypeOK, Q!Messages, Q!Kept, Q!Frame
<1>6. Locked' /\ Unsent' /\ Q!OkIsKept' /\ Taken' = Taken
  BY <1>1, CallsKept
<1>7. r \in Nat /\ r <= confirmed /\ Carries(inbound, r, confirmed) /\ Taken \in Nat
  BY <1>1, QueueTypes DEF QueueInv, Counted
<1>8. IF f.kind = "confirm"
      THEN f.message = r + 1 /\ r + 1 <= confirmed /\ Carries(inbound', r + 1, confirmed)
      ELSE Carries(inbound', r, confirmed)
  <2> HIDE DEF r
  <2> QED BY <1>1, <1>7, CarriesRest, QueueTypes
<1>9. Counted(Taken)'
  <2>1. CASE f.kind = "deliver"
    BY <1>1, <1>2, <1>6, <1>7, <1>8, <2>1 DEF QueueInv, Counted, Carries
  <2>2. CASE f.kind = "confirm"
    <3>1. /\ Len(confirms) = 0 /\ Len(confirms') = 1 /\ Head(confirms') = f.message
          /\ confirms' # <<>>
      BY <1>2, <2>2
    <3>2. r = Taken /\ Taken + Len(confirms') = r + 1
      BY <1>7, <3>1
    <3> QED BY <1>1, <1>6, <1>7, <1>8, <2>2, <3>1, <3>2 DEF Counted, Carries
  <2> QED BY <1>4, <2>1, <2>2
<1> QED BY <1>5, <1>6, <1>9 DEF QueueInv

\* The consumer's acknowledgements and the loss of the connection.
LEMMA QueueConsumer ==
  ASSUME QueueInv, Q!Ack \/ Q!Nack \/ Q!Lose
  PROVE  QueueInv'
<1>1. /\ UNCHANGED <<waiting, published, fate, answer, confirmed, confirms, behind>>
      /\ unacked' \in {unacked, 0} /\ forward' \in {forward, 0} /\ delivered' \subseteq delivered
      /\ \/ open' = open /\ inbound' = inbound
         \/ open' = FALSE /\ inbound' = <<>>
  BY DEF Q!Ack, Q!Nack, Q!Lose, Q!Acknowledged
<1>2. 0 \in 0..MaxPublishes /\ inbound' \in Seq(Q!Frame) /\ open' \in BOOLEAN
  <2>1. 0 \in 0..MaxPublishes
    BY QueueAssumption
  <2>2. inbound \in Seq(Q!Frame) /\ <<>> \in Seq(Q!Frame) /\ open \in BOOLEAN
    BY EmptySeq DEF QueueInv, Q!TypeOK
  <2> QED BY <1>1, <2>1, <2>2
<1>3. Q!TypeOK'
  BY <1>1, <1>2 DEF QueueInv, Q!TypeOK, Q!Messages, Q!Kept, Q!Frame
<1>4. Locked' /\ Unsent' /\ Q!OkIsKept' /\ Taken' = Taken
  BY <1>1, CallsKept
<1>5. Counted(Taken)'
  BY <1>1, <1>4 DEF QueueInv, Counted, Carries
<1> QED BY <1>3, <1>4, <1>5 DEF QueueInv

\* Every step of the channel keeps the invariant.
LEMMA StepQueue == QueueInv /\ [Q!Next]_qVars => QueueInv'
<1> SUFFICES ASSUME QueueInv, [Q!Next]_qVars PROVE QueueInv'
  OBVIOUS
<1>1. ASSUME NEW c \in Callers, Q!Publish(c) \/ Q!TakeConfirm(c) \/ Q!GiveUp(c)
      PROVE  QueueInv'
  BY <1>1, QueuePublish, QueueTake, QueueGiveUp
<1>2. ASSUME NEW m \in Q!Messages, Q!Handle(m) \/ Q!Deliver(m)
      PROVE  QueueInv'
  BY <1>2, QueueHandle, QueueDeliver
<1>3. CASE Q!Confirm
  BY <1>3, QueueConfirm
<1>4. CASE Q!Read
  BY <1>4, QueueRead
<1>5. CASE Q!Ack \/ Q!Nack \/ Q!Lose
  BY <1>5, QueueConsumer
<1>6. CASE UNCHANGED qVars
  <2>1. Locked' /\ Unsent' /\ Q!OkIsKept' /\ Taken' = Taken
    BY <1>6, CallsKept DEF qVars
  <2>2. Q!TypeOK'
    BY <1>6 DEF qVars, QueueInv, Q!TypeOK, Q!Messages, Q!Kept, Q!Frame
  <2>3. Counted(Taken)'
    BY <1>6, <2>1 DEF qVars, QueueInv, Counted, Carries
  <2> QED BY <2>1, <2>2, <2>3 DEF QueueInv
<1> QED BY <1>1, <1>2, <1>3, <1>4, <1>5, <1>6 DEF Q!Next

\* The message the broker waits to see acknowledged is on its way to the consumer
\* or with it.
InHand ==
  open /\ unacked # 0 =>
    \/ unacked \in delivered
    \/ \E i \in DOMAIN inbound : inbound[i].kind = "deliver" /\ inbound[i].message = unacked

\* The publish that hands a message on is answered or under way.
HandedOn ==
  forward # 0 => answer[forward] # "none" \/ \E c \in Callers : waiting[c] = forward

\* A publish is under way from its beginning to its answer.
LEMMA CallHandsOn ==
  ASSUME QueueInv, HandedOn, NEW c \in Callers,
         Q!Publish(c) \/ Q!TakeConfirm(c) \/ Q!GiveUp(c)
  PROVE  HandedOn'
<1>1. /\ waiting \in [Callers -> 0..MaxPublishes] /\ forward \in 0..MaxPublishes
      /\ answer \in [Q!Messages -> {"none", "ok", "error"}]
  BY DEF QueueInv, Q!TypeOK
<1>2. CASE Q!Publish(c)
  <2>1. /\ Q!Quiet /\ forward' \in {forward, published + 1} /\ answer' = answer
        /\ waiting' = [waiting EXCEPT ![c] = published + 1]
        /\ forward' # forward => forward' = published + 1
    BY <1>2 DEF Q!Publish, Q!Send
  <2>2. waiting'[c] = published + 1
    BY <1>1, <2>1
  <2>3. CASE forward' = published + 1
    BY <2>2, <2>3 DEF HandedOn
  <2>4. CASE forward' = forward
    <3>1. \A d \in Callers : waiting[d] = 0
      BY <2>1 DEF Q!Quiet
    <3> QED
      BY <2>1, <2>4, <3>1 DEF HandedOn
  <2> QED
    BY <2>1, <2>3, <2>4
<1>3. CASE Q!TakeConfirm(c) \/ Q!GiveUp(c)
  <2>1. PICK a \in {"ok", "error"} : waiting[c] # 0 /\ Q!Answer(c, a) /\ forward' = forward
    BY <1>3 DEF Q!TakeConfirm, Q!GiveUp
  <2>2. \A m \in Q!Messages : answer'[m] = IF m = published THEN a ELSE answer[m]
    BY <2>1, AnswerEnds
  <2>3. forward # 0 => forward \in Q!Messages
    BY <1>1, QueueTypes DEF Q!Messages
  <2>4. \A d \in Callers : waiting[d] = forward /\ forward # 0 => forward = published
    BY DEF QueueInv, Locked
  <2> QED
    BY <2>1, <2>2, <2>3, <2>4 DEF HandedOn
<1> QED
  BY <1>2, <1>3

\* The frame of a delivery stays where it was when another is added.
LEMMA FrameStays ==
  ASSUME NEW frames \in Seq(Q!Frame), NEW f \in Q!Frame, NEW m,
         \E i \in DOMAIN frames : frames[i].kind = "deliver" /\ frames[i].message = m
  PROVE  \E i \in DOMAIN Append(frames, f) :
            Append(frames, f)[i].kind = "deliver" /\ Append(frames, f)[i].message = m
<1>1. PICK i \in DOMAIN frames : frames[i].kind = "deliver" /\ frames[i].message = m
  OBVIOUS
<1>2. i \in DOMAIN Append(frames, f) /\ Append(frames, f)[i] = frames[i]
  BY AppendProperties, LenProperties
<1> QED
  BY <1>1, <1>2

\* It is the first frame or one of the rest.
LEMMA FrameComes ==
  ASSUME NEW frames \in Seq(Q!Frame), NEW i \in DOMAIN frames
  PROVE  \/ frames[i] = Head(frames)
         \/ \E k \in DOMAIN Tail(frames) : Tail(frames)[k] = frames[i]
<1>1. DOMAIN frames = 1..Len(frames) /\ Len(frames) \in Nat /\ frames # <<>>
  BY LenProperties, EmptySeq
<1>2. /\ Head(frames) = frames[1] /\ Tail(frames) \in Seq(Q!Frame)
      /\ Len(Tail(frames)) = Len(frames) - 1
      /\ \A k \in 1..Len(Tail(frames)) : Tail(frames)[k] = frames[k + 1]
  BY <1>1, HeadTailProperties
<1>3. DOMAIN Tail(frames) = 1..Len(Tail(frames))
  BY <1>2, LenProperties
<1>4. CASE i = 1
  BY <1>2, <1>4
<1>5. CASE i # 1
  <2>1. i - 1 \in 1..Len(Tail(frames)) /\ (i - 1) + 1 = i
    BY <1>1, <1>2, <1>5
  <2> QED
    BY <1>2, <1>3, <2>1
<1> QED
  BY <1>4, <1>5

\* Broker and library carry the delivery to the consumer, who keeps it until it
\* has acknowledged it.
LEMMA StepHand ==
  ASSUME QueueInv, InHand, HandedOn, [Q!Next]_qVars
  PROVE  InHand' /\ HandedOn'
<1>0. inbound \in Seq(Q!Frame)
  BY QueueTypes
<1>1. ASSUME NEW c \in Callers, Q!Publish(c) \/ Q!TakeConfirm(c) \/ Q!GiveUp(c)
      PROVE  InHand' /\ HandedOn'
  <2>1. UNCHANGED <<open, unacked, delivered, inbound>>
    BY <1>1 DEF Q!Publish, Q!Send, Q!TakeConfirm, Q!GiveUp
  <2> QED
    BY <1>1, <2>1, CallHandsOn DEF InHand
<1>2. ASSUME NEW m \in Q!Messages, Q!Handle(m) PROVE InHand' /\ HandedOn'
  BY <1>2 DEF Q!Handle, InHand, HandedOn
<1>3. ASSUME NEW m \in Q!Messages, Q!Deliver(m) PROVE InHand' /\ HandedOn'
  <2> DEFINE f == [kind |-> "deliver", message |-> m]
  <2>1. /\ unacked' = m /\ inbound' = Append(inbound, f)
        /\ UNCHANGED <<waiting, answer, forward>>
    BY <1>3 DEF Q!Deliver, Q!Arrives
  <2>2. f \in Q!Frame /\ f.kind = "deliver" /\ f.message = m
    BY DEF Q!Frame
  <2> HIDE DEF f
  <2>3. Len(inbound) + 1 \in DOMAIN inbound' /\ inbound'[Len(inbound) + 1] = f
    BY <1>0, <2>1, <2>2, AppendProperties, LenProperties
  <2> QED
    BY <2>1, <2>2, <2>3 DEF InHand, HandedOn
<1>4. CASE Q!Confirm
  <2> DEFINE f == [kind |-> "confirm", message |-> confirmed + 1]
  <2>1. /\ inbound' = Append(inbound, f) /\ confirmed < published
        /\ UNCHANGED <<open, unacked, delivered, waiting, answer, forward>>
    BY <1>4 DEF Q!Confirm, Q!Arrives
  <2>2. f \in Q!Frame
    BY <2>1, QueueTypes DEF Q!Frame, Q!Messages
  <2> HIDE DEF f
  <2>3. InHand'
    BY <1>0, <2>1, <2>2, FrameStays DEF InHand
  <2> QED
    BY <2>1, <2>3 DEF HandedOn
<1>5. CASE Q!Read
  <2>1. /\ inbound' = Tail(inbound)
        /\ UNCHANGED <<open, unacked, waiting, answer, forward>>
        /\ delivered \subseteq delivered'
        /\ Head(inbound).kind = "deliver" => Head(inbound).message \in delivered'
    BY <1>5 DEF Q!Read
  <2>2. InHand'
    <3> SUFFICES ASSUME open, unacked # 0, unacked \notin delivered'
                 PROVE  \E k \in DOMAIN inbound' : /\ inbound'[k].kind = "deliver"
                                                   /\ inbound'[k].message = unacked
      BY <2>1 DEF InHand
    <3>1. PICK i \in DOMAIN inbound : inbound[i].kind = "deliver" /\ inbound[i].message = unacked
      BY <2>1 DEF InHand
    <3>2. inbound[i] # Head(inbound)
      BY <2>1, <3>1
    <3>3. PICK k \in DOMAIN Tail(inbound) : Tail(inbound)[k] = inbound[i]
      BY <1>0, <3>2, FrameComes
    <3> QED
      BY <2>1, <3>1, <3>3
  <2> QED
    BY <2>1, <2>2 DEF HandedOn
<1>6. CASE Q!Ack \/ Q!Nack
  BY <1>6 DEF Q!Ack, Q!Nack, Q!Acknowledged, InHand, HandedOn
<1>7. CASE Q!Lose
  BY <1>7 DEF Q!Lose, InHand, HandedOn
<1>8. CASE UNCHANGED qVars
  BY <1>8 DEF qVars, InHand, HandedOn
<1> QED
  BY <1>1, <1>2, <1>3, <1>4, <1>5, <1>6, <1>7, <1>8 DEF Q!Next

\* The invariants give the property.
LEMMA QueueInvGives == QueueInv /\ InHand /\ HandedOn => QueueInStep
<1> SUFFICES ASSUME QueueInv, InHand, HandedOn
             PROVE  Q!ConfirmsInStep /\ Q!StuckAfterTwo /\ Q!DeliveryGoesOn
  BY DEF QueueInStep, Q!QueueInStep, QueueInv
<1>1. Q!ConfirmsInStep
  <2> SUFFICES ASSUME NEW c \in Callers, waiting[c] # 0, confirms # <<>>
               PROVE  Head(confirms) = waiting[c] - behind
    BY DEF Q!ConfirmsInStep
  <2>1. waiting[c] = published
    BY DEF QueueInv, Locked
  <2>2. ~Q!Quiet
    BY DEF Q!Quiet
  <2>3. Head(confirms) = Taken + 1 /\ Taken = published - behind - 1
    BY <2>2, TakenIs DEF QueueInv, Counted
  <2> QED BY <2>1, <2>3, QueueTypes
<1>2. Q!StuckAfterTwo
  <2> SUFFICES ASSUME inbound # <<>>, Head(inbound).kind = "confirm", confirms # <<>>, Q!Quiet
               PROVE  behind >= 2
    BY DEF Q!StuckAfterTwo, Q!Stuck
  <2>1. Taken = published - behind /\ Len(confirms) = 1
    BY TakenIs, QueueTypes
  <2>2. /\ open /\ Taken \in Nat /\ Taken + 1 <= confirmed
        /\ Carries(inbound, Taken + 1, confirmed)
    BY <2>1 DEF QueueInv, Counted
  <2>3. Taken + 2 <= confirmed
    BY <2>2, CarriesRest, QueueTypes
  <2> QED BY <2>1, <2>2, <2>3, QueueTypes
<1>3. Q!DeliveryGoesOn
  <2> SUFFICES ASSUME open, Q!Quiet, ~(behind >= 2), unacked # 0
               PROVE  \/ inbound # <<>> /\ ~Q!Stuck
                      \/ unacked \in delivered /\ (forward # 0 => answer[forward] # "none")
    BY QueueTypes DEF Q!DeliveryGoesOn
  <2>1. forward # 0 => answer[forward] # "none"
    BY DEF HandedOn, Q!Quiet
  <2>2. CASE unacked \in delivered
    BY <2>1, <2>2
  <2>3. CASE unacked \notin delivered
    <3>1. inbound # <<>>
      BY <2>3 DEF InHand
    <3>2. ~Q!Stuck
      BY <1>2 DEF Q!StuckAfterTwo
    <3> QED
      BY <3>1, <3>2
  <2> QED
    BY <2>2, <2>3
<1> QED BY <1>1, <1>2, <1>3

\* publish of rabbitmq.go: though a call takes whichever confirmation comes next,
\* the one it takes is that of as many messages ago as calls have given up; a
\* call that reports success has its message, or one of those, on a queue; and
\* the library is stuck with nobody to read a confirmation only after two calls
\* have given up; until then broker, library and consumer never all wait for each
\* other. For any callers and any number of messages.
THEOREM QueueStaysInStep == EndSpec => []QueueInStep
<1>1. EndInit => QueueInv /\ InHand /\ HandedOn
  BY InitQueue DEF EndInit, Q!Init, InHand, HandedOn
<1>2. QueueInv /\ InHand /\ HandedOn /\ [EndNext]_<<part, vars, qVars>>
        => QueueInv' /\ InHand' /\ HandedOn'
  BY StepQueue, StepHand DEF EndNext
<1> QED
  BY <1>1, <1>2, QueueInvGives, PTL DEF EndSpec
===============================================================================
