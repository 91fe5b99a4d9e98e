---------------------------- MODULE SubmitLifecycle ----------------------------
(****************************************************************************)
(* What the judge promises about a submission, whatever threads, messages   *)
(* and crashes carry it out: the statuses a question_submit row may take,   *)
(* the question's acceptedNum, and which submission is the first accepted   *)
(* one of its author on its question (the one the 24h ranking counts).      *)
(*                                                                          *)
(* The detailed module JudgePipeline implements this specification.         *)
(****************************************************************************)
EXTENDS Integers, FiniteSets

CONSTANTS
  Submits,     \* ids of question_submit rows
  Questions,   \* ids of question rows
  Users,       \* ids of authors
  UserOf,      \* question_submit.userId
  QuestionOf   \* question_submit.questionId

ASSUME SubmitsAssumption ==
  /\ IsFiniteSet(Submits)
  /\ UserOf \in [Submits -> Users]
  /\ QuestionOf \in [Submits -> Questions]

VARIABLES
  status,      \* question_submit.status; "none" before the row is created
  acceptedNum, \* question.acceptedNum
  award        \* submissions for which the judge decided "first accepted"

lifecycleVars == <<status, acceptedNum, award>>

Terminal == {"accepted", "rejected", "systemError"}
Statuses == {"none", "pending", "running"} \cup Terminal

\* Submissions of the same author on the same question.
SameTask(s) == {t \in Submits : UserOf[t] = UserOf[s] /\ QuestionOf[t] = QuestionOf[s]}

AcceptedOf(q) == {s \in Submits : QuestionOf[s] = q /\ status[s] = "accepted"}

NoAcceptedBefore(s) == \A t \in SameTask(s) : status[t] # "accepted"

TypeOK ==
  /\ status \in [Submits -> Statuses]
  /\ acceptedNum \in [Questions -> Nat]
  /\ award \subseteq Submits

Init ==
  /\ status = [s \in Submits |-> "none"]
  /\ acceptedNum = [q \in Questions |-> 0]
  /\ award = {}

----------------------------------------------------------------------------
Move(s, from, to) ==
  /\ status[s] \in from
  /\ status' = [status EXCEPT ![s] = to]

\* The row is inserted with status 0.
Create(s) == Move(s, {"none"}, "pending") /\ UNCHANGED <<acceptedNum, award>>

\* A judge takes the submission.
Claim(s) == Move(s, {"pending"}, "running") /\ UNCHANGED <<acceptedNum, award>>

\* The row is handed back after ten minutes without a verdict.
Requeue(s) == Move(s, {"running"}, "pending") /\ UNCHANGED <<acceptedNum, award>>

\* Slip: a row gets a status the clients do not know.
FinishNoVerdict(s) ==
  \E v \in {"rejected", "systemError", "unknown"} :
    Move(s, {"running"}, v) /\ UNCHANGED <<acceptedNum, award>>

\* A verdict other than Accepted.
Finish(s) ==
  \E v \in {"rejected", "systemError"} : 
    Move(s, {"running"}, v) /\ UNCHANGED <<acceptedNum, award>>

\* Slip: a verdict that arrives twice is counted twice.
AcceptAgain(s) ==
  /\ Move(s, {"running", "accepted"}, "accepted")
  /\ acceptedNum' = [acceptedNum EXCEPT ![QuestionOf[s]] = @ + 1]
  /\ award' = IF NoAcceptedBefore(s) THEN award \cup {s} ELSE award

\* Slip: the earlier submissions of the author are not counted.
AcceptFirst(s) ==
  /\ Move(s, {"running"}, "accepted")
  /\ acceptedNum' = [acceptedNum EXCEPT ![QuestionOf[s]] = @ + 1]
  /\ award' = award \cup {s}

\* Accepted: the row, the question's counter and the first-accepted decision
\* change together.
Accept(s) ==
  /\ Move(s, {"running"}, "accepted")
  /\ acceptedNum' = [acceptedNum EXCEPT ![QuestionOf[s]] = @ + 1]
  /\ award' = IF NoAcceptedBefore(s) THEN award \cup {s} ELSE award

\* The message of the submission ran out of retries.
GiveUp(s) ==
  Move(s, {"pending", "running"}, "systemError") /\ UNCHANGED <<acceptedNum, award>>

Next ==
  \E s \in Submits :
    \/ Create(s)
    \/ Claim(s)
    \/ Requeue(s)
    \/ Finish(s)
    \/ Accept(s)
    \/ GiveUp(s)

Spec == Init /\ [][Next]_lifecycleVars

----------------------------------------------------------------------------
\* question.acceptedNum is the number of accepted submissions of the question:
\* a submission judged twice, or reported twice, is counted once.
AcceptedNumExact ==
  \A q \in Questions : acceptedNum[q] = Cardinality(AcceptedOf(q))

\* At most one submission of an author on a question is its first accepted one,
\* and once any is accepted there is one.
FirstAcceptedUnique ==
  /\ \A s \in award : /\ status[s] = "accepted"
                      /\ award \cap SameTask(s) = {s}
  /\ \A s \in Submits : status[s] = "accepted" => award \cap SameTask(s) # {}

\* Types, the exact counter and the one first submission, together inductive.
LifecycleInv == TypeOK /\ AcceptedNumExact /\ FirstAcceptedUnique

\* A verdict is final: no later step of any actor changes it.
VerdictFinal ==
  [][\A s \in Submits : status[s] \in Terminal => status'[s] = status[s]]_lifecycleVars

=============================================================================
