-------------------------- MODULE MCSubmitLifecycle --------------------------
(****************************************************************************)
(* What may become of a submission and of a task of the agent, for TLC.     *)
(* Submissions 1 and 2 are the same author's on the same question, 3 is     *)
(* another author's on that question, 4 is the first author's on another    *)
(* question. In this instance submissions and tasks share no state: part    *)
(* says which of the two a behaviour is about, and the other stands at its  *)
(* start.                                                                   *)
(****************************************************************************)
EXTENDS SubmitLifecycle, TLC

CONSTANTS t1, t2, Tasks, MaxRound, MaxTrouble

ASSUME TasksAssumption == IsFiniteSet(Tasks) /\ MaxRound \in Nat \ {0} /\ MaxTrouble \in Nat

VARIABLES
  part,
  token, question, task, at, round, fits, submits, verdict, server, posts, bound, agents, author, raced, trouble

FourSubmits == 1..4
MixedUsers == [s \in FourSubmits |-> IF s = 3 THEN "bob" ELSE "alice"]
MixedQuestions == [s \in FourSubmits |-> IF s = 4 THEN "q2" ELSE "q1"]

TwoTasks == {t1, t2}

A == INSTANCE AgentTask

aVars == <<token, question, task, at, round, fits, submits, verdict, server, posts, bound, agents,
           author, raced, trouble>>

AllInit ==
  /\ part \in {"submissions", "tasks"}
  /\ Init /\ A!Init
  /\ part # "tasks" => token

AllNext ==
  /\ UNCHANGED part
  /\ \/ part = "submissions" /\ Next /\ UNCHANGED aVars
     \/ part = "tasks" /\ A!Next /\ UNCHANGED lifecycleVars

AllSpec == AllInit /\ [][AllNext]_<<part, lifecycleVars, aVars>>

\* Tasks differ in nothing.
MCSymmetry == Permutations(TwoTasks)

----------------------------------------------------------------------------
(* What the instances promise; their modules say more.                      *)

\* Tasks have their types; an article comes from accepted code, and the status of
\* its task tells the truth.
TaskSafety == A!TypeOK /\ A!TaskSafety

\* Tasks do what TaskLifecycle promises.
ImplementsTask == A!ImplementsTask
==============================================================================
