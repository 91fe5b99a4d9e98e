---------------------------- MODULE JudgePipeline ----------------------------
(****************************************************************************)
(* The online judge's pipeline: the HTTP handler that creates a submission  *)
(* and publishes its id, the RabbitMQ queues (main, retry, dead letters)    *)
(* with their one consumer goroutine, the judge itself (judgeAsync, run by  *)
(* the consumer or by a goroutine of its own), the ticker that requeues     *)
(* stuck rows, MySQL as the rows and row locks those threads share, and the *)
(* Redis copy of a submission's status.                                     *)
(*                                                                          *)
(* Every SQL statement, transaction boundary, Redis command and publish is  *)
(* a step of its own, so the threads interleave between any two of them.    *)
(* Ages ("older than ten minutes") are any delay at all.                    *)
(*                                                                          *)
(* Adverse events -- a failing SQL statement, a publish that is lost or     *)
(* whose confirm is late, a crash, a lost broker connection, an execution   *)
(* longer than ten minutes, a question deleted or restored -- each use one  *)
(* unit of MaxTrouble, the bound on how many of them a behaviour has.       *)
(****************************************************************************)
EXTENDS Integers, FiniteSets

CONSTANTS
  Submits, Questions, Users, UserOf, QuestionOf,  \* as in SubmitLifecycle
  AgentSubmits,  \* the submissions made by the agent's solution task
  Consumer,      \* the consumer goroutine of the judge queue
  None,          \* no message, no lock holder
  MaxRetries,    \* defaultMaxRetries of rabbitmq.go
  MaxCopies,     \* bound: equal messages the main or retry queue tells apart
  MaxTrouble     \* bound: adverse events in a behaviour

Judges == Submits \cup {Consumer}
Message == [submit : Submits, retries : 0..MaxRetries]

ASSUME PipelineAssumption ==
  /\ IsFiniteSet(Submits)
  /\ UserOf \in [Submits -> Users]
  /\ QuestionOf \in [Submits -> Questions]
  /\ AgentSubmits \subseteq Submits
  /\ Consumer \notin Submits
  /\ None \notin Judges \cup Message
  /\ MaxRetries \in Nat
  /\ MaxCopies \in Nat \ {0}
  /\ MaxTrouble \in Nat

VARIABLES
  \* MySQL
  status,      \* question_submit.status ("none": no row yet)
  acceptedNum, \* question.acceptedNum
  deleted,     \* question.isDelete
  lock,        \* holder of the question's row lock (SELECT ... FOR UPDATE)
  \* Redis
  runtime,     \* oj:submit:runtime:<id>
  recorded,    \* submissions whose recordFirstAccepted24h reached Redis
  \* RabbitMQ
  main, retry, \* copies of each message waiting in the two queues
  dlq,         \* submissions with a dead-lettered message
  connected,   \* the process's connection and its consumer are alive
  \* the process
  handler,     \* QuestionSubmitDo (or the agent's call) per submission
  pc, verdict, first,  \* judgeAsync, per goroutine
  delivery,    \* the message the consumer has not acknowledged
  ticker,      \* requeueStuckSubmits is scheduled
  batch,       \* submissions the running tick still has to publish
  \* history and bound
  award,       \* submissions for which finishAcceptedJudgeSubmit said "first"
  reset,       \* submissions a tick ever took back from "running"
  trouble      \* adverse events so far

db     == <<status, acceptedNum, deleted, lock>>
redis  == <<runtime, recorded>>
broker == <<main, retry, dlq, connected>>
judge  == <<pc, verdict, first, delivery>>
tick   == <<ticker, batch>>
hist   == <<award, reset>>
vars == <<db, redis, broker, handler, judge, tick, hist, trouble>>

Promise == INSTANCE SubmitLifecycle

Terminal == Promise!Terminal
Phases ==
  {"idle", "claim", "load", "question", "execute", "finish", "lock", "count",
   "commit", "record", "publish", "done", "failed", "dead", "deadEvent"}

\* The judge has claimed the submission and not yet written its verdict.
Judging == {"load", "question", "execute", "finish", "lock", "count", "commit"}
InTransaction == {"count", "commit"}

TypeOK ==
  /\ status \in [Submits -> Promise!Statuses]
  /\ acceptedNum \in [Questions -> Nat]
  /\ deleted \in [Questions -> BOOLEAN]
  /\ lock \in [Questions -> Judges \cup {None}]
  /\ runtime \in [Submits -> Promise!Statuses]
  /\ recorded \subseteq Submits
  /\ main \in [Message -> Nat]
  /\ retry \in [Message -> Nat]
  /\ dlq \subseteq Submits
  /\ connected \in BOOLEAN
  /\ handler \in [Submits -> {"idle", "checked", "created"}]
  /\ pc \in [Judges -> Phases]
  /\ verdict \in [Judges -> Terminal \cup {"none"}]
  /\ first \in [Judges -> BOOLEAN]
  /\ delivery \in Message \cup {None}
  /\ pc[Consumer] # "idle" => delivery \in Message
  /\ ticker \in BOOLEAN
  /\ batch \subseteq Submits
  /\ award \subseteq Submits
  /\ reset \subseteq Submits
  /\ trouble \in Nat

\* The queue is declared and consumed at start-up, or the broker is out of
\* reach and every submission is judged by a goroutine of its own.
Init ==
  /\ status = [s \in Submits |-> "none"]
  /\ acceptedNum = [q \in Questions |-> 0]
  /\ deleted = [q \in Questions |-> FALSE]
  /\ lock = [q \in Questions |-> None]
  /\ runtime = [s \in Submits |-> "none"]
  /\ recorded = {}
  /\ main = [m \in Message |-> 0]
  /\ retry = [m \in Message |-> 0]
  /\ dlq = {}
  /\ connected \in BOOLEAN
  /\ handler = [s \in Submits |-> "idle"]
  /\ pc = [j \in Judges |-> "idle"]
  /\ verdict = [j \in Judges |-> "none"]
  /\ first = [j \in Judges |-> FALSE]
  /\ delivery = None
  /\ ticker = connected
  /\ batch = {}
  /\ award = {}
  /\ reset = {}
  /\ trouble = 0

----------------------------------------------------------------------------
Trouble == trouble < MaxTrouble /\ trouble' = trouble + 1
NoTrouble == UNCHANGED trouble

Job(j) == IF j = Consumer THEN delivery.submit ELSE j

Fresh(s) == [submit |-> s, retries |-> 0]

Enqueue(queue, m) == [queue EXCEPT ![m] = IF @ < MaxCopies THEN @ + 1 ELSE @]

\* What a publish did (sent) and what it told its caller (ok). The broker may
\* take the message though its confirm is late, and a late confirm may be read
\* by the next publish, which then reports success whatever became of it.
Outcomes == [sent : BOOLEAN, ok : BOOLEAN]

Published(o) ==
  \/ (connected /\ o.sent /\ o.ok /\ NoTrouble)
  \/ (connected /\ ~(o.sent /\ o.ok) /\ Trouble)
  \/ (~connected /\ ~o.sent /\ ~o.ok /\ NoTrouble)

Goto(j, phase) == pc' = [pc EXCEPT ![j] = phase]

\* judgeAsync returns: a goroutine ends, the consumer looks at the error.
Return(j, result) ==
  /\ pc' = [pc EXCEPT ![j] = IF j = Consumer THEN result ELSE "idle"]
  /\ verdict' = [verdict EXCEPT ![j] = "none"]
  /\ first' = [first EXCEPT ![j] = FALSE]

\* SETEX of the runtime status; its error is ignored.
SetRuntime(s, value) == runtime' \in {runtime, [runtime EXCEPT ![s] = value]}

----------------------------------------------------------------------------
(* QuestionSubmitDo, and the agent's submitAgentCodeAndJudge                *)

CheckQuestion(s) ==
  /\ status[s] = "none"
  /\ handler[s] = "idle"
  /\ ~deleted[QuestionOf[s]]
  /\ handler' = [handler EXCEPT ![s] = "checked"]
  /\ UNCHANGED <<db, redis, broker, judge, tick, hist, trouble>>

CreateSubmit(s) ==
  /\ handler[s] = "checked"
  /\ handler' = [handler EXCEPT ![s] = "created"]
  /\ status' = [status EXCEPT ![s] = "pending"]
  /\ UNCHANGED <<acceptedNum, deleted, lock, redis, broker, judge, tick, hist, trouble>>

\* Slip: a publish that reports an error is only logged.
PublishSubmitLogged(s) ==
  /\ handler[s] = "created"
  /\ handler' = [handler EXCEPT ![s] = "idle"]
  /\ \/ /\ s \notin AgentSubmits
        /\ \E o \in Outcomes :
             /\ Published(o)
             /\ main' = IF o.sent THEN Enqueue(main, Fresh(s)) ELSE main
        /\ UNCHANGED pc
     \/ /\ s \in AgentSubmits
        /\ Goto(s, "claim")
        /\ UNCHANGED <<main, trouble>>
  /\ UNCHANGED <<db, redis, retry, dlq, connected, verdict, first, delivery, tick, hist>>

\* The id is published; when that reports an error, and always for the
\* agent's submissions, the submission is judged by a goroutine of its own.
PublishSubmit(s) ==
  /\ handler[s] = "created"
  /\ handler' = [handler EXCEPT ![s] = "idle"]
  /\ \/ /\ s \notin AgentSubmits
        /\ \E o \in Outcomes :
             /\ Published(o)
             /\ main' = IF o.sent THEN Enqueue(main, Fresh(s)) ELSE main
             /\ pc' = IF o.ok THEN pc ELSE [pc EXCEPT ![s] = "claim"]
     \/ /\ s \in AgentSubmits
        /\ Goto(s, "claim")
        /\ UNCHANGED <<main, trouble>>
  /\ UNCHANGED <<db, redis, retry, dlq, connected, verdict, first, delivery, tick, hist>>

----------------------------------------------------------------------------
(* judgeAsync                                                               *)

\* Slip: a row that is already running is judged once more.
ClaimUnfinished(j) ==
  /\ pc[j] = "claim"
  /\ status[Job(j)] \in {"pending", "running"}
  /\ status' = [status EXCEPT ![Job(j)] = "running"]
  /\ Goto(j, "load")
  /\ UNCHANGED <<acceptedNum, deleted, lock, redis, broker, handler, verdict, first, delivery, tick, hist, trouble>>

\* UPDATE ... SET status = running WHERE status = pending.
Claim(j) ==
  /\ pc[j] = "claim"
  /\ \/ /\ status[Job(j)] = "pending"
        /\ status' = [status EXCEPT ![Job(j)] = "running"]
        /\ Goto(j, "load")
        /\ UNCHANGED <<verdict, first, trouble>>
     \/ /\ status[Job(j)] # "pending"
        /\ Return(j, "done")
        /\ UNCHANGED <<status, trouble>>
     \/ /\ Trouble
        /\ Return(j, "failed")
        /\ UNCHANGED status
  /\ UNCHANGED <<acceptedNum, deleted, lock, redis, broker, handler, delivery, tick, hist>>

\* Slip: a row that cannot be read is reported as a system error in Redis only.
LoadSubmitAnnounceError(j) ==
  /\ pc[j] = "load"
  /\ \/ SetRuntime(Job(j), "running") /\ Goto(j, "question") /\ UNCHANGED <<verdict, first, trouble>>
     \/ SetRuntime(Job(j), "systemError") /\ Trouble /\ Return(j, "failed")
  /\ UNCHANGED <<db, recorded, broker, handler, delivery, tick, hist>>

\* The row is read back and "Judging" is announced.
LoadSubmit(j) ==
  /\ pc[j] = "load"
  /\ \/ /\ SetRuntime(Job(j), "running")
        /\ Goto(j, "question")
        /\ UNCHANGED <<verdict, first, trouble>>
     \/ /\ Trouble
        /\ Return(j, "failed")
        /\ UNCHANGED runtime
  /\ UNCHANGED <<db, recorded, broker, handler, delivery, tick, hist>>

\* The question is read; whatever goes wrong is "Question Not Found".
LoadQuestion(j) ==
  /\ pc[j] = "question"
  /\ \/ /\ ~deleted[QuestionOf[Job(j)]]
        /\ Goto(j, "execute")
        /\ UNCHANGED <<verdict, trouble>>
     \/ /\ (deleted[QuestionOf[Job(j)]] /\ NoTrouble) \/ Trouble
        /\ Goto(j, "finish")
        /\ verdict' = [verdict EXCEPT ![j] = "rejected"]
  /\ UNCHANGED <<db, redis, broker, handler, first, delivery, tick, hist>>

\* The sandbox runs the code and the outputs are compared.
Execute(j) ==
  /\ pc[j] = "execute"
  /\ \E v \in Terminal :
       /\ verdict' = [verdict EXCEPT ![j] = v]
       /\ Goto(j, IF v = "accepted" THEN "lock" ELSE "finish")
  /\ UNCHANGED <<db, redis, broker, handler, first, delivery, tick, hist, trouble>>

\* UPDATE ... WHERE status = running; the number of rows is not looked at.
FinishJudgeSubmit(j) ==
  /\ pc[j] = "finish"
  /\ \/ /\ status' = IF status[Job(j)] = "running"
                     THEN [status EXCEPT ![Job(j)] = verdict[j]] ELSE status
        /\ Goto(j, "publish")
        /\ UNCHANGED <<verdict, first, trouble>>
     \/ /\ Trouble
        /\ Return(j, "failed")
        /\ UNCHANGED status
  /\ UNCHANGED <<acceptedNum, deleted, lock, redis, broker, handler, delivery, tick, hist>>

\* Slip: a plain SELECT, without FOR UPDATE.
ReadQuestion(j) ==
  /\ pc[j] = "lock"
  /\ ~deleted[QuestionOf[Job(j)]]
  /\ lock' = [lock EXCEPT ![QuestionOf[Job(j)]] = j]
  /\ Goto(j, "count")
  /\ UNCHANGED <<verdict, first, trouble, status, acceptedNum, deleted, redis, broker, handler, delivery, tick, hist>>

\* finishAcceptedJudgeSubmit, statement by statement. The question's row is
\* locked; a deleted question is an error.
LockQuestion(j) ==
  /\ pc[j] = "lock"
  /\ \/ /\ ~deleted[QuestionOf[Job(j)]]
        /\ lock[QuestionOf[Job(j)]] = None
        /\ lock' = [lock EXCEPT ![QuestionOf[Job(j)]] = j]
        /\ Goto(j, "count")
        /\ UNCHANGED <<verdict, first, trouble>>
     \/ /\ (deleted[QuestionOf[Job(j)]] /\ NoTrouble) \/ Trouble
        /\ Return(j, "failed")
        /\ UNCHANGED lock
  /\ UNCHANGED <<status, acceptedNum, deleted, redis, broker, handler, delivery, tick, hist>>

Rollback(j) ==
  /\ Trouble
  /\ lock' = [lock EXCEPT ![QuestionOf[Job(j)]] = None]
  /\ Return(j, "failed")

\* acceptedBefore == 0
CountAccepted(j) ==
  /\ pc[j] = "count"
  /\ \/ /\ first' = [first EXCEPT ![j] = Promise!NoAcceptedBefore(Job(j))]
        /\ Goto(j, "commit")
        /\ UNCHANGED <<lock, verdict, trouble>>
     \/ Rollback(j)
  /\ UNCHANGED <<status, acceptedNum, deleted, redis, broker, handler, delivery, tick, hist>>

\* Slip: the counter is raised without looking at RowsAffected.
CommitCountAlways(j) ==
  /\ pc[j] = "commit"
  /\ status' = IF status[Job(j)] = "running"
               THEN [status EXCEPT ![Job(j)] = "accepted"] ELSE status
  /\ acceptedNum' = [acceptedNum EXCEPT ![QuestionOf[Job(j)]] = @ + 1]
  /\ award' = IF first[j] THEN award \cup {Job(j)} ELSE award
  /\ lock' = [lock EXCEPT ![QuestionOf[Job(j)]] = None]
  /\ Goto(j, IF first[j] THEN "record" ELSE "publish")
  /\ UNCHANGED <<verdict, first, trouble, deleted, redis, broker, handler, delivery, tick, reset>>

\* The row is updated where it is still running, and if it was, the question's
\* counter with it; both become visible, and the lock free, at the commit.
CommitAccepted(j) ==
  /\ pc[j] = "commit"
  /\ \/ /\ status[Job(j)] = "running"
        /\ status' = [status EXCEPT ![Job(j)] = "accepted"]
        /\ acceptedNum' = [acceptedNum EXCEPT ![QuestionOf[Job(j)]] = @ + 1]
        /\ award' = IF first[j] THEN award \cup {Job(j)} ELSE award
        /\ lock' = [lock EXCEPT ![QuestionOf[Job(j)]] = None]
        /\ Goto(j, IF first[j] THEN "record" ELSE "publish")
        /\ UNCHANGED <<verdict, first, trouble>>
     \/ /\ status[Job(j)] # "running"
        /\ lock' = [lock EXCEPT ![QuestionOf[Job(j)]] = None]
        /\ Goto(j, "publish")
        /\ UNCHANGED <<status, acceptedNum, award, verdict, first, trouble>>
     \/ /\ Rollback(j)
        /\ UNCHANGED <<status, acceptedNum, award>>
  /\ UNCHANGED <<deleted, redis, broker, handler, delivery, tick, reset>>

\* recordFirstAccepted24h; a Redis error is dropped.
RecordFirstAccepted(j) ==
  /\ pc[j] = "record"
  /\ recorded' \in {recorded, recorded \cup {Job(j)}}
  /\ Goto(j, "publish")
  /\ UNCHANGED <<db, runtime, broker, handler, verdict, first, delivery, tick, hist, trouble>>

\* The verdict is announced, whether or not the row took it.
PublishVerdict(j) ==
  /\ pc[j] = "publish"
  /\ SetRuntime(Job(j), verdict[j])
  /\ Return(j, "done")
  /\ UNCHANGED <<db, recorded, broker, handler, delivery, tick, hist, trouble>>

JudgeStep(j) ==
  \/ Claim(j)
  \/ LoadSubmit(j)
  \/ LoadQuestion(j)
  \/ Execute(j)
  \/ FinishJudgeSubmit(j)
  \/ LockQuestion(j)
  \/ CountAccepted(j)
  \/ CommitAccepted(j)
  \/ RecordFirstAccepted(j)
  \/ PublishVerdict(j)

----------------------------------------------------------------------------
(* The consumer goroutine of the judge queue (prefetch 1)                   *)

Deliver(m) ==
  /\ connected
  /\ pc[Consumer] = "idle"
  /\ main[m] > 0
  /\ main' = [main EXCEPT ![m] = @ - 1]
  /\ delivery' = m
  /\ Goto(Consumer, "claim")
  /\ UNCHANGED <<db, redis, retry, dlq, connected, handler, verdict, first, tick, hist, trouble>>

\* Without a connection the acknowledgement goes nowhere: the broker has
\* requeued the message already.
Ack ==
  /\ pc[Consumer] = "done"
  /\ Goto(Consumer, "idle")
  /\ delivery' = None
  /\ UNCHANGED <<db, redis, broker, handler, verdict, first, tick, hist, trouble>>

Exhausted(m) == m.retries >= MaxRetries

\* retryOrDeadLetter; when its publish reports an error the message is nacked
\* back to the main queue.
RetryOrDeadLetter ==
  /\ pc[Consumer] = "failed"
  /\ \E o \in Outcomes :
       /\ Published(o)
       /\ retry' = IF o.sent /\ ~Exhausted(delivery)
                   THEN Enqueue(retry, [delivery EXCEPT !.retries = @ + 1]) ELSE retry
       /\ dlq' = IF o.sent /\ Exhausted(delivery) THEN dlq \cup {delivery.submit} ELSE dlq
       /\ IF o.ok
          THEN /\ Goto(Consumer, IF Exhausted(delivery) THEN "dead" ELSE "done")
               /\ UNCHANGED <<main, delivery>>
          ELSE /\ Goto(Consumer, "idle")
               /\ main' = IF connected THEN Enqueue(main, delivery) ELSE main
               /\ delivery' = None
  /\ UNCHANGED <<db, redis, connected, handler, verdict, first, tick, hist>>

\* Slip: UPDATE without "status IN (pending, running)".
MarkAnyStatus ==
  /\ pc[Consumer] = "dead"
  /\ status' = [status EXCEPT ![delivery.submit] = "systemError"]
  /\ Goto(Consumer, "deadEvent")
  /\ UNCHANGED <<trouble, acceptedNum, deleted, lock, redis, broker, handler, verdict, first, delivery, tick, hist>>

\* onDead: UPDATE ... WHERE status IN (pending, running); errors are dropped.
MarkSubmitSystemError ==
  LET s == delivery.submit IN
  /\ pc[Consumer] = "dead"
  /\ \/ /\ status[s] \in {"pending", "running"}
        /\ status' = [status EXCEPT ![s] = "systemError"]
        /\ Goto(Consumer, "deadEvent")
        /\ NoTrouble
     \/ /\ (status[s] \notin {"pending", "running"} /\ NoTrouble) \/ Trouble
        /\ Goto(Consumer, "done")
        /\ UNCHANGED status
  /\ UNCHANGED <<acceptedNum, deleted, lock, redis, broker, handler, verdict, first, delivery, tick, hist>>

AnnounceSystemError ==
  /\ pc[Consumer] = "deadEvent"
  /\ \/ SetRuntime(delivery.submit, "systemError") /\ NoTrouble
     \/ Trouble /\ UNCHANGED runtime
  /\ Goto(Consumer, "done")
  /\ UNCHANGED <<db, recorded, broker, handler, verdict, first, delivery, tick, hist>>

ConsumerStep == Ack \/ RetryOrDeadLetter \/ MarkSubmitSystemError \/ AnnounceSystemError

\* The retry queue's TTL runs out: the broker routes the message back.
RetryExpire(m) ==
  /\ retry[m] > 0
  /\ retry' = [retry EXCEPT ![m] = @ - 1]
  /\ main' = Enqueue(main, m)
  /\ UNCHANGED <<db, redis, dlq, connected, handler, judge, tick, hist, trouble>>

----------------------------------------------------------------------------
(* requeueStuckSubmits, every 30 seconds                                    *)

Pending == {s \in Submits : status[s] = "pending"}

\* The pending rows old enough are read, then published one by one.
ScanPending(old) ==
  /\ ticker
  /\ batch = {}
  /\ old # {}
  /\ old \subseteq Pending
  /\ batch' = old
  /\ UNCHANGED <<db, redis, broker, handler, judge, ticker, hist, trouble>>

Republish(s) ==
  /\ s \in batch
  /\ batch' = batch \ {s}
  /\ \E o \in Outcomes :
       /\ Published(o)
       /\ main' = IF o.sent THEN Enqueue(main, Fresh(s)) ELSE main
  /\ UNCHANGED <<db, redis, retry, dlq, connected, handler, judge, ticker, hist>>

Abandoned(s) == \A j \in Judges : pc[j] \in Judging => Job(j) # s

\* Slip: the row is published again but left as it is.
ResetRepublishOnly(s) ==
  /\ ticker
  /\ batch = {}
  /\ status[s] = "running"
  /\ (Abandoned(s) /\ NoTrouble) \/ (~Abandoned(s) /\ Trouble)
  /\ batch' = {s}
  /\ reset' = reset \cup {s}
  /\ UNCHANGED <<db, redis, broker, handler, judge, ticker, award>>

\* A row that has been running for ten minutes goes back to pending and is
\* published: its judge is gone, or is that slow.
ResetRunning(s) ==
  /\ ticker
  /\ batch = {}
  /\ status[s] = "running"
  /\ (Abandoned(s) /\ NoTrouble) \/ (~Abandoned(s) /\ Trouble)
  /\ status' = [status EXCEPT ![s] = "pending"]
  /\ batch' = {s}
  /\ reset' = reset \cup {s}
  /\ UNCHANGED <<acceptedNum, deleted, lock, redis, broker, handler, judge, ticker, award>>

----------------------------------------------------------------------------
(* The environment                                                          *)

RuntimeExpire(s) ==
  /\ runtime[s] # "none"
  /\ runtime' = [runtime EXCEPT ![s] = "none"]
  /\ UNCHANGED <<db, recorded, broker, handler, judge, tick, hist, trouble>>

\* QuestionDelete and QuestionRestore wait for the row lock.
SetQuestionDeleted(q) ==
  /\ Trouble
  /\ lock[q] = None
  /\ deleted' = [deleted EXCEPT ![q] = ~@]
  /\ UNCHANGED <<status, acceptedNum, lock, redis, broker, handler, judge, tick, hist>>

\* The unacknowledged message returns to the main queue when the connection
\* that received it is gone.
Requeued == IF connected /\ delivery # None THEN Enqueue(main, delivery) ELSE main

\* Nothing reconnects: the consumer loop ends and every later publish fails.
LoseConnection ==
  /\ connected
  /\ Trouble
  /\ connected' = FALSE
  /\ main' = Requeued
  /\ UNCHANGED <<db, redis, retry, dlq, handler, judge, tick, hist>>

\* The process dies and is started again, with or without its queue.
Crash ==
  /\ Trouble
  /\ connected' \in BOOLEAN
  /\ ticker' = connected'
  /\ main' = Requeued
  /\ lock' = [q \in Questions |-> None]
  /\ handler' = [s \in Submits |-> "idle"]
  /\ pc' = [j \in Judges |-> "idle"]
  /\ verdict' = [j \in Judges |-> "none"]
  /\ first' = [j \in Judges |-> FALSE]
  /\ delivery' = None
  /\ batch' = {}
  /\ UNCHANGED <<status, acceptedNum, deleted, redis, retry, dlq, hist>>

----------------------------------------------------------------------------
Next ==
  \/ \E s \in Submits :
       \/ CheckQuestion(s)
       \/ CreateSubmit(s)
       \/ PublishSubmit(s)
       \/ Republish(s)
       \/ ResetRunning(s)
       \/ RuntimeExpire(s)
  \/ \E j \in Judges : JudgeStep(j)
  \/ \E m \in Message : Deliver(m) \/ RetryExpire(m)
  \/ ConsumerStep
  \/ \E old \in SUBSET Submits : ScanPending(old)
  \/ \E q \in Questions : SetQuestionDeleted(q)
  \/ LoseConnection
  \/ Crash

Spec == Init /\ [][Next]_vars

\* Goroutines run; the broker delivers every waiting message and expires its
\* retries; a tick comes when every pending row is old enough, and one when a
\* running row is. Nothing is assumed of clients or of the environment.
Fairness ==
  /\ \A s \in Submits : /\ WF_vars(PublishSubmit(s))
                        /\ WF_vars(Republish(s))
                        /\ SF_vars(ResetRunning(s))
  /\ \A j \in Judges : WF_vars(JudgeStep(j))
  /\ \A m \in Message : SF_vars(Deliver(m)) /\ WF_vars(RetryExpire(m))
  /\ WF_vars(ConsumerStep)
  /\ SF_vars(ScanPending(Pending))

FairSpec == Spec /\ Fairness

----------------------------------------------------------------------------
(* Properties                                                               *)

\* finishAcceptedJudgeSubmit: question.acceptedNum counts every accepted
\* submission once, though messages are redelivered, rows are requeued while
\* their judge still runs, and judges of one question overlap.
AcceptedNumExact == Promise!AcceptedNumExact

\* finishAcceptedJudgeSubmit: among all the judges that overlap, at most one
\* submission of an author on a question is taken for the first accepted one,
\* one is as soon as any is accepted, and only such a one reaches the ranking.
FirstAcceptedUnique == Promise!FirstAcceptedUnique /\ recorded \subseteq award

\* The claim UPDATE of judgeAsync: two goroutines judge the same submission
\* only after a tick took it back from a judge that was still running.
SingleJudge ==
  \A i, j \in Judges :
    pc[i] \in Judging /\ pc[j] \in Judging /\ Job(i) = Job(j) /\ i # j => Job(i) \in reset

\* publishSubmitRuntimeEvent: a verdict in Redis is the one the row has, unless a
\* tick took the row back, or a dead letter has marked it a system error, from a
\* judge: the judge announces its verdict even when its UPDATE matched no row.
RuntimeVerdictBacked ==
  \A s \in Submits :
    runtime[s] \in Terminal /\ s \notin reset => status[s] \in {runtime[s], "systemError"}

\* What the claim, the row lock and the order of the phases guarantee; with the
\* properties above, an inductive invariant.
VerdictKnown ==
  \A j \in Judges :
    /\ pc[j] = "finish" => verdict[j] \in {"rejected", "systemError"}
    /\ pc[j] \in {"lock", "count", "commit", "record"} => verdict[j] = "accepted"
    /\ pc[j] = "publish" => verdict[j] \in Terminal

TransactionLock ==
  \A j \in Judges : pc[j] \in InTransaction => lock[QuestionOf[Job(j)]] = j

CountFresh ==
  \A j \in Judges : pc[j] = "commit" => (first[j] <=> Promise!NoAcceptedBefore(Job(j)))

RowNew == \A s \in Submits : handler[s] = "checked" => status[s] = "none"

ClaimHeld ==
  \A j \in Judges :
    pc[j] \in Judging /\ Job(j) \notin reset => status[Job(j)] \in {"running", "systemError"}

\* What a judge is about to announce is in the row, or overruled by a dead letter.
AnnouncedFinal ==
  \A j \in Judges :
    /\ pc[j] \in {"record", "publish"} /\ Job(j) \notin reset =>
         status[Job(j)] \in {verdict[j], "systemError"}
    /\ pc[j] = "deadEvent" => status[Job(j)] = "systemError"

RecordAwarded ==
  /\ recorded \subseteq award
  /\ \A j \in Judges : pc[j] = "record" => Job(j) \in award

\* A question's row is locked by a judge in its transaction on it and by nobody
\* else, whichever way the transaction ends: who waits for the row waits for a
\* judge that itself waits for nothing.
LockHeld ==
  \A q \in Questions :
    lock[q] # None => pc[lock[q]] \in InTransaction /\ QuestionOf[Job(lock[q])] = q

\* As long as nothing goes wrong no submission needs the ticker: a pending one is
\* about to be published, waits in the queue, or is about to be claimed, and a
\* running one has its judge.
NotLost ==
  trouble = 0 =>
    \A s \in Submits :
      /\ status[s] = "pending" =>
           \/ handler[s] = "created"
           \/ connected /\ \E m \in Message : m.submit = s /\ main[m] > 0
           \/ \E j \in Judges : pc[j] = "claim" /\ Job(j) = s
      /\ status[s] = "running" => ~Abandoned(s)

\* A submission has a goroutine of its own only after its request created the row
\* and ended: no second one is ever started over it.
OneGoroutine ==
  \A s \in Submits :
    /\ handler[s] = "created" => status[s] # "none"
    /\ status[s] = "none" \/ handler[s] # "idle" => pc[s] = "idle"

\* A question is gone only after somebody deleted it.
QuestionsThere == trouble = 0 => \A q \in Questions : ~deleted[q]

PipelineInv ==
  /\ TypeOK
  /\ VerdictKnown
  /\ TransactionLock
  /\ CountFresh
  /\ RowNew
  /\ ClaimHeld
  /\ AnnouncedFinal
  /\ RecordAwarded
  /\ SingleJudge
  /\ RuntimeVerdictBacked
  /\ LockHeld
  /\ NotLost
  /\ OneGoroutine
  /\ QuestionsThere

\* Once a row has a verdict, no judge, tick or dead letter changes it.
VerdictFinal ==
  [][\A s \in Submits : status[s] \in Terminal => status'[s] = status[s]]_vars

\* The pipeline does only what SubmitLifecycle allows.
ImplementsLifecycle == Promise!Spec

\* A created submission is eventually judged, as long as the process keeps its
\* queue and its ticker (requeueStuckSubmits is the only recovery there is).
EventuallyJudged ==
  \A s \in Submits :
    status[s] \in {"pending", "running"} ~> (status[s] \in Terminal \/ ~connected \/ ~ticker)
=============================================================================
