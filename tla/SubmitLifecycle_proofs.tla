------------------------ MODULE SubmitLifecycle_proofs ------------------------
(****************************************************************************)
(* Proofs about what becomes of a submission, and of a task of the agent.   *)
(*                                                                          *)
(* SubmitLifecycle keeps its promises for any finite set of submissions:    *)
(* the conjunction LifecycleInv of its types and its two properties is      *)
(* inductive as it stands.                                                  *)
(*                                                                          *)
(* The tasks of the agent follow, for any finite set of tasks and any       *)
(* number of rounds and troubles: what TaskSafety says of their articles,   *)
(* rows and account, and that they do what TaskLifecycle promises.          *)
(*                                                                          *)
(* TaskSafety is not inductive. TaskInv says, for each place of a task's    *)
(* goroutine and each step of the blog that serves it, what the rows of its *)
(* submissions, its own row and its article are by then: who is past        *)
(* judging has won its round, the blog works only on such a round, and      *)
(* while nothing has gone wrong the article, the answer and the binding     *)
(* agree. OneAccount counts: every account was made by a task that can make *)
(* no other, and while no two make one at once the first is seen by all who *)
(* look.                                                                    *)
(*                                                                          *)
(* Each action has a lemma: it concerns one task, keeps the invariant for   *)
(* that task, and is a step of the promise or none (Kept). What a step      *)
(* leaves alone stays true (Bystander).                                     *)
(****************************************************************************)
EXTENDS MCSubmitLifecycle, FiniteSetTheorems, TLAPS

----------------------------------------------------------------------------
(* The life cycle of a submission.                                          *)

\* No row exists and nothing is counted at the start.
LEMMA InitIInv == Init => LifecycleInv
<1> SUFFICES ASSUME Init PROVE LifecycleInv
  OBVIOUS
<1>1. TypeOK
  BY DEF Init, TypeOK, Statuses
<1>2. AcceptedNumExact
  <2> SUFFICES ASSUME NEW q \in Questions
               PROVE  acceptedNum[q] = Cardinality(AcceptedOf(q))
    BY DEF AcceptedNumExact
  <2>1. AcceptedOf(q) = {}
    BY DEF Init, AcceptedOf
  <2> QED
    BY <2>1, FS_EmptySet DEF Init
<1>3. FirstAcceptedUnique
  BY DEF Init, FirstAcceptedUnique
<1> QED
  BY <1>1, <1>2, <1>3 DEF LifecycleInv

\* A step that neither makes a row accepted nor takes one from accepted, and
\* leaves the counters alone, keeps every conjunct.
LEMMA OtherVerdictIInv ==
  ASSUME LifecycleInv, NEW s \in Submits, NEW v \in Statuses \ {"accepted"},
         status[s] \in Statuses \ {"accepted"},
         status' = [status EXCEPT ![s] = v],
         UNCHANGED <<acceptedNum, award>>
  PROVE  LifecycleInv'
<1> USE DEF LifecycleInv, TypeOK
<1>1. TypeOK'
  OBVIOUS
<1>2. \A t \in Submits : status'[t] = "accepted" <=> status[t] = "accepted"
  OBVIOUS
<1>3. \A q \in Questions : AcceptedOf(q)' = AcceptedOf(q)
  BY <1>2 DEF AcceptedOf
<1>4. AcceptedNumExact'
  BY <1>3 DEF AcceptedNumExact
<1>5. FirstAcceptedUnique'
  BY <1>2 DEF FirstAcceptedUnique, SameTask
<1> QED
  BY <1>1, <1>4, <1>5

\* Accepting a row moves the set of accepted rows and the counter together, and
\* names it the first one exactly when no other is.
LEMMA AcceptIInv ==
  ASSUME LifecycleInv, NEW s \in Submits, Accept(s)
  PROVE  LifecycleInv'
<1> USE SubmitsAssumption DEF LifecycleInv, TypeOK
<1>a. /\ status[s] = "running"
      /\ status' = [status EXCEPT ![s] = "accepted"]
      /\ acceptedNum' = [acceptedNum EXCEPT ![QuestionOf[s]] = @ + 1]
      /\ award' = IF NoAcceptedBefore(s) THEN award \cup {s} ELSE award
  BY DEF Accept, Move
<1>b. QuestionOf[s] \in Questions
  OBVIOUS
<1>1. TypeOK'
  BY <1>a, <1>b DEF Statuses, Terminal
<1>2. \A t \in Submits : status'[t] = "accepted" <=> status[t] = "accepted" \/ t = s
  BY <1>a
<1>3. AcceptedNumExact'
  <2> SUFFICES ASSUME NEW q \in Questions
               PROVE  acceptedNum'[q] = Cardinality(AcceptedOf(q)')
    BY DEF AcceptedNumExact
  <2>1. IsFiniteSet(AcceptedOf(q))
    BY FS_Subset DEF AcceptedOf
  <2>2. acceptedNum[q] = Cardinality(AcceptedOf(q))
    BY DEF AcceptedNumExact
  <2>3. CASE q = QuestionOf[s]
    <3>1. AcceptedOf(q)' = AcceptedOf(q) \cup {s}
      BY <1>2, <2>3 DEF AcceptedOf
    <3>2. s \notin AcceptedOf(q)
      BY <1>a DEF AcceptedOf
    <3>3. Cardinality(AcceptedOf(q) \cup {s}) = Cardinality(AcceptedOf(q)) + 1
      BY <2>1, <3>2, FS_AddElement
    <3>4. acceptedNum'[q] = acceptedNum[q] + 1
      BY <1>a, <1>b, <2>3
    <3> QED
      BY <2>2, <3>1, <3>3, <3>4
  <2>4. CASE q # QuestionOf[s]
    <3>1. AcceptedOf(q)' = AcceptedOf(q)
      BY <1>2, <2>4 DEF AcceptedOf
    <3> QED
      BY <1>a, <2>2, <2>4, <3>1
  <2> QED
    BY <2>3, <2>4
<1>4. FirstAcceptedUnique'
  <2>1. CASE NoAcceptedBefore(s)
    <3>1. award \cap SameTask(s) = {}
      BY <2>1 DEF FirstAcceptedUnique, NoAcceptedBefore, SameTask
    <3> QED
      BY <1>a, <1>2, <2>1, <3>1 DEF FirstAcceptedUnique, SameTask
  <2>2. CASE ~NoAcceptedBefore(s)
    <3>1. PICK t \in SameTask(s) : status[t] = "accepted"
      BY <2>2 DEF NoAcceptedBefore
    <3>2. SameTask(t) = SameTask(s) /\ t \in Submits
      BY <3>1 DEF SameTask
    <3>3. award \cap SameTask(s) # {}
      BY <3>1, <3>2 DEF FirstAcceptedUnique
    <3> QED
      BY <1>a, <1>2, <2>2, <3>3 DEF FirstAcceptedUnique, SameTask
  <2> QED
    BY <2>1, <2>2
<1> QED
  BY <1>1, <1>3, <1>4

\* The three properties together are inductive.
LEMMA NextIInv == LifecycleInv /\ [Next]_lifecycleVars => LifecycleInv'
<1> SUFFICES ASSUME LifecycleInv, [Next]_lifecycleVars PROVE LifecycleInv'
  OBVIOUS
<1>1. CASE UNCHANGED lifecycleVars
  BY <1>1 DEF LifecycleInv, TypeOK, AcceptedNumExact, AcceptedOf, FirstAcceptedUnique, SameTask, lifecycleVars
<1>2. ASSUME NEW s \in Submits, Accept(s) PROVE LifecycleInv'
  BY <1>2, AcceptIInv
<1>3. ASSUME NEW s \in Submits,
             Create(s) \/ Claim(s) \/ Requeue(s) \/ Finish(s) \/ GiveUp(s)
      PROVE  LifecycleInv'
  <2>1. PICK v \in Statuses \ {"accepted"} : status' = [status EXCEPT ![s] = v]
    BY <1>3 DEF Create, Claim, Requeue, Finish, GiveUp, Move, Statuses, Terminal
  <2>2. status[s] \in Statuses \ {"accepted"} /\ UNCHANGED <<acceptedNum, award>>
    BY <1>3 DEF Create, Claim, Requeue, Finish, GiveUp, Move, Statuses, Terminal
  <2> QED
    BY <2>1, <2>2, OtherVerdictIInv
<1> QED
  BY <1>1, <1>2, <1>3 DEF Next

\* Every reachable state has exact counters and at most one first accepted
\* submission per author and question.
THEOREM LifecycleSafety == Spec => []LifecycleInv
BY InitIInv, NextIInv, PTL DEF Spec

\* No step takes a row out of a final status.
THEOREM LifecycleVerdictFinal == Spec => VerdictFinal
<1>1. LifecycleInv /\ [Next]_lifecycleVars
        => [\A s \in Submits : status[s] \in Terminal => status'[s] = status[s]]_lifecycleVars
  <2> SUFFICES ASSUME LifecycleInv, Next, NEW s \in Submits, status[s] \in Terminal
               PROVE  status'[s] = status[s]
    OBVIOUS
  <2> QED
    BY DEF LifecycleInv, TypeOK, Next, Create, Claim, Requeue, Finish, Accept, GiveUp, Move, Terminal
<1> QED
  BY <1>1, InitIInv, NextIInv, PTL DEF Spec, VerdictFinal

----------------------------------------------------------------------------
(* The invariant of the tasks.                                             *)

\* Places of a task: no account yet, no code accepted yet, after that, the end.
Before  == {"none", "start", "question", "user", "enlist"}
Asking  == {"llm", "submit", "judge", "judging", "read", "record"}
Signing == {"login", "register", "relogin"}
After   == Signing \cup A!Publishing \cup {"bind", "finish"}
AtWork  == (Before \ {"none"}) \cup Asking \cup After \cup {"fail"}

\* Its last round was accepted.
Won(t) == round[t] \in A!Rounds /\ submits[t][round[t]] = "Accepted"

\* Rounds and rows.
Rows(t) ==
  /\ at[t] \in Before => round[t] = 0
  /\ at[t] \in Asking \ {"llm"} => round[t] \in A!Rounds
  /\ \A k \in A!Rounds : k > round[t] => submits[t][k] = "none"
  /\ at[t] = "submit" => submits[t][round[t]] = "none"
  /\ at[t] = "record" /\ verdict[t] => Won(t)
  /\ at[t] \in After => Won(t)

\* The row of the task.
Told(t) ==
  /\ at[t] = "none" => task[t].status = "none"
  /\ at[t] = "start" => task[t].status = "pending"
  /\ at[t] \in AtWork => task[t].status \in {"pending", "running"}
  /\ task[t].status \in {"success", "failed"} => at[t] = "end"
  /\ task[t].status = "success" => posts[t].state = "published"

\* The article, and the blog at work.
Article(t) ==
  /\ posts[t].state # "none" => Won(t) /\ posts[t].round = round[t]
  /\ server[t] # "idle" => Won(t)
  /\ at[t] \in Before \cup Asking \cup Signing \cup {"bind", "finish"} => server[t] = "idle"
  /\ at[t] \in Before \cup Asking \cup Signing => posts[t].state = "none"
  /\ at[t] \in {"bind", "finish"} => posts[t].state = "published"
  /\ server[t] \in {"author", "enlist", "draft"} => posts[t].state = "none"
  /\ server[t] = "publish" => posts[t].state = "draft"
  /\ at[t] \in {"create", "publish"} \cup Signing => ~token
  /\ at[t] = "internal" =>
       /\ token
       /\ server[t] = "idle" => posts[t].state = "none"
       /\ server[t] = "ok" => posts[t].state = "published"
  /\ at[t] = "create" =>
       /\ server[t] \in {"idle", "draft", "ok", "refused"}
       /\ posts[t].state = IF server[t] = "ok" THEN "draft" ELSE "none"
  /\ at[t] = "publish" =>
       /\ server[t] \in {"idle", "publish", "ok", "refused"}
       /\ posts[t].state = IF server[t] = "ok" THEN "published" ELSE "draft"

\* When nothing has gone wrong.
Smoothly(t) ==
  /\ at[t] # "dead"
  /\ at[t] = "end" => task[t].status \in {"success", "failed"}
  /\ at[t] \in Before \cup {"llm", "submit", "judge", "judging"} =>
       \A k \in A!Rounds : submits[t][k] # "Accepted"
  /\ at[t] \in {"read", "record"} =>
       \A k \in A!Rounds : k # round[t] => submits[t][k] # "Accepted"
  /\ at[t] = "record" /\ ~verdict[t] => submits[t][round[t]] # "Accepted"
  /\ at[t] = "relogin" => author
  /\ server[t] = "refused" => at[t] # "publish" /\ posts[t].state = "none" /\ (raced \/ ~fits[t])
  /\ at[t] \in After => task[t].answer = round[t]
  /\ at[t] = "finish" => bound[t] = 1
  /\ task[t].status = "success" => task[t].answer = posts[t].round /\ bound[t] = 1
  /\ at[t] = "fail" \/ task[t].status = "failed" =>
       /\ posts[t].state = "none" /\ server[t] = "idle"
       /\ raced \/ ~fits[t] \/ \A k \in A!Rounds : submits[t][k] # "Accepted"

\* What is true of every task.
TaskInv(t) == Rows(t) /\ Told(t) /\ Article(t) /\ (trouble = 0 => Smoothly(t))

\* Accounts of the agent, by the tasks that may still make one.
OneAccount ==
  /\ agents + Cardinality({t \in Tasks : at[t] \in Before}) <= Cardinality(Tasks)
  /\ ~raced => agents <= 1 /\ (agents > 0 => \A t \in Tasks : at[t] # "enlist")

TasksInv == (\A t \in Tasks : TaskInv(t)) /\ OneAccount

----------------------------------------------------------------------------
(* What a step may change.                                                  *)

\* The state of one task, for the provers.
TaskType(t) ==
  /\ task[t] \in [status : {"none", "pending", "running", "success", "failed"},
                  answer : 0..MaxRound, post : BOOLEAN]
  /\ at[t] \in A!Places /\ round[t] \in 0..MaxRound /\ fits[t] \in BOOLEAN
  /\ submits[t] \in [A!Rounds -> {"none", "Pending", "Running"} \cup A!Verdicts]
  /\ verdict[t] \in BOOLEAN
  /\ server[t] \in {"idle", "author", "enlist", "draft", "publish", "ok", "refused"}
  /\ posts[t] \in [state : {"none", "draft", "published"}, round : 0..MaxRound]
  /\ bound[t] \in 0..1

\* A step of one task, or of the blog for it, changes nothing of the others.
Only(t) ==
  /\ task' = [task EXCEPT ![t] = task'[t]] /\ at' = [at EXCEPT ![t] = at'[t]]
  /\ round' = [round EXCEPT ![t] = round'[t]] /\ fits' = [fits EXCEPT ![t] = fits'[t]]
  /\ submits' = [submits EXCEPT ![t] = submits'[t]]
  /\ verdict' = [verdict EXCEPT ![t] = verdict'[t]]
  /\ server' = [server EXCEPT ![t] = server'[t]] /\ posts' = [posts EXCEPT ![t] = posts'[t]]
  /\ bound' = [bound EXCEPT ![t] = bound'[t]]

\* What all tasks see, and how it changes.
Later ==
  /\ token' = token /\ question' \in {question, FALSE}
  /\ trouble' \in {trouble, trouble + 1} /\ trouble' \in 0..MaxTrouble
  /\ raced' \in {raced, TRUE} /\ author' \in {author, TRUE}

USE DEF Before, Asking, Signing, After, AtWork, A!Publishing, A!Verdicts, A!Places

\* Counters and bounds are numbers.
LEMMA BoundsType ==
  ASSUME A!TypeOK
  PROVE  trouble \in 0..MaxTrouble /\ trouble \in Nat /\ MaxTrouble \in Nat /\ MaxRound \in Nat
BY TasksAssumption DEF A!TypeOK

\* Types, task by task.
LEMMA TaskTyped ==
  ASSUME A!TypeOK, NEW t \in Tasks
  PROVE  TaskType(t)
BY DEF A!TypeOK, TaskType

\* A function that changes at one place only, and within its range.
LEMMA ChangedAtOne ==
  ASSUME NEW S, NEW T, NEW f \in [S -> T], NEW g, NEW x \in S, g = [f EXCEPT ![x] = g[x]], g[x] \in T
  PROVE  g \in [S -> T]
OBVIOUS

\* And back, after a step of one task.
LEMMA OnlyTypes ==
  ASSUME A!TypeOK, NEW t \in Tasks, Only(t), TaskType(t)', Later, agents' \in 0..A!Cardinality(Tasks)
  PROVE  A!TypeOK'
<1>1. {token, question, author, raced}' \subseteq BOOLEAN
  BY DEF A!TypeOK, Later
<1>2. trouble' \in 0..MaxTrouble
  BY DEF Later
<1>3. task' \in [Tasks ->
           [status : {"none", "pending", "running", "success", "failed"}, answer : 0..MaxRound, post : BOOLEAN]]
  <2> DEFINE Values == [status : {"none", "pending", "running", "success", "failed"}, answer : 0..MaxRound, post : BOOLEAN]
  <2>1. task \in [Tasks -> Values]
    BY DEF A!TypeOK
  <2>2. task'[t] \in Values
    BY DEF TaskType
  <2>3. task' = [task EXCEPT ![t] = task'[t]]
    BY DEF Only
  <2> HIDE DEF Values
  <2>4. task' \in [Tasks -> Values]
    BY <2>1, <2>2, <2>3, ChangedAtOne
  <2> QED
    BY <2>4 DEF Values
<1>4. at' \in [Tasks -> A!Places]
  <2> DEFINE Values == A!Places
  <2>1. at \in [Tasks -> Values]
    BY DEF A!TypeOK
  <2>2. at'[t] \in Values
    BY DEF TaskType
  <2>3. at' = [at EXCEPT ![t] = at'[t]]
    BY DEF Only
  <2> HIDE DEF Values
  <2>4. at' \in [Tasks -> Values]
    BY <2>1, <2>2, <2>3, ChangedAtOne
  <2> QED
    BY <2>4 DEF Values
<1>5. round' \in [Tasks -> 0..MaxRound]
  <2> DEFINE Values == 0..MaxRound
  <2>1. round \in [Tasks -> Values]
    BY DEF A!TypeOK
  <2>2. round'[t] \in Values
    BY DEF TaskType
  <2>3. round' = [round EXCEPT ![t] = round'[t]]
    BY DEF Only
  <2> HIDE DEF Values
  <2>4. round' \in [Tasks -> Values]
    BY <2>1, <2>2, <2>3, ChangedAtOne
  <2> QED
    BY <2>4 DEF Values
<1>6. fits' \in [Tasks -> BOOLEAN]
  <2> DEFINE Values == BOOLEAN
  <2>1. fits \in [Tasks -> Values]
    BY DEF A!TypeOK
  <2>2. fits'[t] \in Values
    BY DEF TaskType
  <2>3. fits' = [fits EXCEPT ![t] = fits'[t]]
    BY DEF Only
  <2> HIDE DEF Values
  <2>4. fits' \in [Tasks -> Values]
    BY <2>1, <2>2, <2>3, ChangedAtOne
  <2> QED
    BY <2>4 DEF Values
<1>7. submits' \in [Tasks -> [A!Rounds -> {"none", "Pending", "Running"} \cup A!Verdicts]]
  <2> DEFINE Values == [A!Rounds -> {"none", "Pending", "Running"} \cup A!Verdicts]
  <2>1. submits \in [Tasks -> Values]
    BY DEF A!TypeOK
  <2>2. submits'[t] \in Values
    BY DEF TaskType
  <2>3. submits' = [submits EXCEPT ![t] = submits'[t]]
    BY DEF Only
  <2> HIDE DEF Values
  <2>4. submits' \in [Tasks -> Values]
    BY <2>1, <2>2, <2>3, ChangedAtOne
  <2> QED
    BY <2>4 DEF Values
<1>8. verdict' \in [Tasks -> BOOLEAN]
  <2> DEFINE Values == BOOLEAN
  <2>1. verdict \in [Tasks -> Values]
    BY DEF A!TypeOK
  <2>2. verdict'[t] \in Values
    BY DEF TaskType
  <2>3. verdict' = [verdict EXCEPT ![t] = verdict'[t]]
    BY DEF Only
  <2> HIDE DEF Values
  <2>4. verdict' \in [Tasks -> Values]
    BY <2>1, <2>2, <2>3, ChangedAtOne
  <2> QED
    BY <2>4 DEF Values
<1>9. server' \in [Tasks -> {"idle", "author", "enlist", "draft", "publish", "ok", "refused"}]
  <2> DEFINE Values == {"idle", "author", "enlist", "draft", "publish", "ok", "refused"}
  <2>1. server \in [Tasks -> Values]
    BY DEF A!TypeOK
  <2>2. server'[t] \in Values
    BY DEF TaskType
  <2>3. server' = [server EXCEPT ![t] = server'[t]]
    BY DEF Only
  <2> HIDE DEF Values
  <2>4. server' \in [Tasks -> Values]
    BY <2>1, <2>2, <2>3, ChangedAtOne
  <2> QED
    BY <2>4 DEF Values
<1>10. posts' \in [Tasks -> [state : {"none", "draft", "published"}, round : 0..MaxRound]]
  <2> DEFINE Values == [state : {"none", "draft", "published"}, round : 0..MaxRound]
  <2>1. posts \in [Tasks -> Values]
    BY DEF A!TypeOK
  <2>2. posts'[t] \in Values
    BY DEF TaskType
  <2>3. posts' = [posts EXCEPT ![t] = posts'[t]]
    BY DEF Only
  <2> HIDE DEF Values
  <2>4. posts' \in [Tasks -> Values]
    BY <2>1, <2>2, <2>3, ChangedAtOne
  <2> QED
    BY <2>4 DEF Values
<1>11. bound' \in [Tasks -> 0..1]
  <2> DEFINE Values == 0..1
  <2>1. bound \in [Tasks -> Values]
    BY DEF A!TypeOK
  <2>2. bound'[t] \in Values
    BY DEF TaskType
  <2>3. bound' = [bound EXCEPT ![t] = bound'[t]]
    BY DEF Only
  <2> HIDE DEF Values
  <2>4. bound' \in [Tasks -> Values]
    BY <2>1, <2>2, <2>3, ChangedAtOne
  <2> QED
    BY <2>4 DEF Values
<1> QED
  BY <1>1, <1>2, <1>3, <1>4, <1>5, <1>6, <1>7, <1>8, <1>9, <1>10, <1>11 DEF A!TypeOK

\* What a step does not touch keeps the invariant.
Same(t) ==
  /\ task'[t] = task[t] /\ at'[t] = at[t] /\ round'[t] = round[t] /\ fits'[t] = fits[t]
  /\ submits'[t] = submits[t] /\ server'[t] = server[t] /\ verdict'[t] = verdict[t]
  /\ posts'[t] = posts[t] /\ bound'[t] = bound[t]

\* A task that a step does not touch keeps its invariant.
LEMMA Bystander ==
  ASSUME A!TypeOK, TasksInv, Later, NEW t \in Tasks, Same(t)
  PROVE  TaskInv(t)'
<1>1. TaskInv(t) /\ trouble \in Nat
  BY BoundsType DEF TasksInv
<1>2. trouble' = 0 => trouble = 0
  BY <1>1 DEF Later
<1>3. Rows(t)' /\ Told(t)'
  BY <1>1 DEF TaskInv, Rows, Told, Same, Won, A!Rounds
<1>4. Article(t)'
  BY <1>1 DEF TaskInv, Article, Same, Won, A!Rounds, Later
<1>5. trouble = 0 => Smoothly(t)'
  BY <1>1 DEF TaskInv, Smoothly, Same, A!Rounds, Later
<1> QED
  BY <1>2, <1>3, <1>4, <1>5 DEF TaskInv

\* Such are all tasks but the one whose step it is.
LEMMA OnlyOthers ==
  ASSUME A!TypeOK, TasksInv, NEW t \in Tasks, Only(t), Later, NEW u \in Tasks \ {t}
  PROVE  TaskInv(u)'
<1>1. Same(u)
  BY DEF A!TypeOK, Only, Same
<1> QED
  BY <1>1, Bystander

\* Code of the task was accepted.
Accepted(t) == \E k \in A!Rounds : submits[t][k] = "Accepted"

\* What a step says of a task, as TaskLifecycle sees it.
Fulfils(t) ==
  \/ /\ task'[t].status = task[t].status /\ posts'[t].state = posts[t].state
     /\ Accepted(t)' <=> Accepted(t)
  \/ /\ (Accepted(t)' <=> Accepted(t)) /\ posts'[t].state = posts[t].state
     /\ \/ task[t].status = "none" /\ task'[t].status = "pending"
        \/ task[t].status = "pending" /\ task'[t].status = "running"
        \/ task[t].status \in {"pending", "running"} /\ task'[t].status = "failed"
        \/ /\ task[t].status \in {"pending", "running"} /\ task'[t].status = "success"
           /\ posts[t].state = "published"
  \/ /\ task'[t].status = task[t].status /\ posts'[t].state = posts[t].state
     /\ task[t].status # "none" /\ Accepted(t)'
  \/ /\ task'[t].status = task[t].status /\ (Accepted(t)' <=> Accepted(t))
     /\ \/ Accepted(t) /\ posts[t].state = "none" /\ posts'[t].state = "draft"
        \/ posts[t].state = "draft" /\ posts'[t].state = "published"


\* A step that makes no account of the agent, nor lets a task make a second.
Still(t) ==
  /\ agents' = agents
  /\ at'[t] \in Before => at[t] \in Before
  /\ at'[t] = "enlist" => at[t] = "enlist" \/ agents = 0

\* What a step of the task keeps and does.
Kept(t) == Only(t) /\ Later /\ TaskType(t)' /\ TaskInv(t)' /\ Fulfils(t)

\* What a step says of its task is a step of TaskLifecycle, or none.
LEMMA FulfilledStep ==
  ASSUME A!TypeOK, NEW t \in Tasks, Only(t), Fulfils(t)
  PROVE  A!Promise!Next \/ UNCHANGED A!Promise!vars
<1> DEFINE st == [u \in Tasks |-> task[u].status]
           ac == [u \in Tasks |-> Accepted(u)]
           ar == [u \in Tasks |-> posts[u].state]
<1>1. st' = [st EXCEPT ![t] = task'[t].status]
  BY DEF A!TypeOK, Only
<1>2. ar' = [ar EXCEPT ![t] = posts'[t].state]
  BY DEF A!TypeOK, Only
<1>3. \A u \in Tasks \ {t} : submits'[u] = submits[u]
  BY DEF A!TypeOK, Only
<1>4. \A u \in Tasks \ {t} : Accepted(u)' <=> Accepted(u)
  BY <1>3 DEF Accepted
<1>5. st[t] = task[t].status /\ ac[t] = Accepted(t) /\ ar[t] = posts[t].state
  OBVIOUS
<1>6. CASE /\ task'[t].status = task[t].status /\ (Accepted(t)' <=> Accepted(t))
           /\ posts'[t].state = posts[t].state
  <2>1. st' = st /\ ar' = ar
    BY <1>1, <1>2, <1>6
  <2>2. ac' = ac
    BY <1>4, <1>6 DEF Accepted
  <2> QED
    BY <2>1, <2>2 DEF A!Promise!vars, Accepted
<1>7. CASE /\ (Accepted(t)' <=> Accepted(t)) /\ posts'[t].state = posts[t].state
           /\ \/ task[t].status = "none" /\ task'[t].status = "pending"
              \/ task[t].status = "pending" /\ task'[t].status = "running"
              \/ task[t].status \in {"pending", "running"} /\ task'[t].status = "failed"
              \/ /\ task[t].status \in {"pending", "running"} /\ task'[t].status = "success"
                 /\ posts[t].state = "published"
  <2>1. ar' = ar
    BY <1>2, <1>7
  <2>2. ac' = ac
    BY <1>4, <1>7 DEF Accepted
  <2>3. A!Promise!Ask(t) \/ A!Promise!Run(t) \/ A!Promise!Fail(t) \/ A!Promise!Succeed(t)
    BY <1>1, <1>5, <1>7, <2>1, <2>2 DEF A!Promise!Ask, A!Promise!Run, A!Promise!Fail,
       A!Promise!Succeed,
         A!Promise!Open, Accepted
  <2> QED
    BY <2>3 DEF A!Promise!Next
<1>8. CASE /\ task'[t].status = task[t].status /\ posts'[t].state = posts[t].state
           /\ task[t].status # "none" /\ Accepted(t)'
  <2>1. st' = st /\ ar' = ar
    BY <1>1, <1>2, <1>8
  <2>2. ac' = [ac EXCEPT ![t] = TRUE]
    BY <1>4, <1>8 DEF Accepted
  <2>3. A!Promise!Accept(t)
    BY <1>5, <1>8, <2>1, <2>2 DEF A!Promise!Accept, Accepted
  <2> QED
    BY <2>3 DEF A!Promise!Next
<1>9. CASE /\ task'[t].status = task[t].status /\ (Accepted(t)' <=> Accepted(t))
            /\ \/ Accepted(t) /\ posts[t].state = "none" /\ posts'[t].state = "draft"
               \/ posts[t].state = "draft" /\ posts'[t].state = "published"
  <2>1. st' = st
    BY <1>1, <1>9
  <2>2. ac' = ac
    BY <1>4, <1>9 DEF Accepted
  <2>3. A!Promise!Draft(t) \/ A!Promise!Publish(t)
    BY <1>2, <1>5, <1>9, <2>1, <2>2 DEF A!Promise!Draft, A!Promise!Publish, Accepted
  <2> QED
    BY <2>3 DEF A!Promise!Next
<1> QED
  BY <1>6, <1>7, <1>8, <1>9 DEF Fulfils

----------------------------------------------------------------------------
(* One lemma for each action of one task, of the blog for it, or of its judges. *)

\* A task is asked for.
LEMMA AgentGenerateQuestionSolutionKept ==
  ASSUME A!TypeOK, TasksInv, NEW t \in Tasks, A!AgentGenerateQuestionSolution(t)
  PROVE  Kept(t) /\ Still(t)
<1>1. /\ at[t] = "none" /\ at'[t] = "start" /\ trouble' = trouble
      /\ task'[t] = [task[t] EXCEPT !.status = "pending"]
      /\ token' = token /\ round' = round /\ fits' = fits /\ submits' = submits
      /\ verdict' = verdict /\ server' = server /\ posts' = posts /\ bound' = bound
      /\ author' = author /\ raced' = raced
  BY DEF A!AgentGenerateQuestionSolution, A!Goto, A!Smooth, A!Trouble, A!Outside, A!TypeOK
<1>2. Only(t) /\ Later
  BY BoundsType DEF A!AgentGenerateQuestionSolution, A!Goto, A!Smooth, A!Trouble, A!Outside,
     A!TypeOK, Only, Later
<1>3. TaskInv(t) /\ TaskType(t) /\ trouble \in Nat /\ MaxRound \in Nat
  BY BoundsType, TaskTyped DEF TasksInv
<1>4. TaskType(t)'
  BY <1>1, <1>3 DEF TaskType, A!Rounds
<1>5. Rows(t)'
  BY <1>1, <1>3 DEF TaskInv, TaskType, Rows, Won, A!Rounds
<1>6. Told(t)'
  BY <1>1, <1>3 DEF TaskInv, TaskType, Told, Article
<1>7. Article(t)'
  BY <1>1, <1>3 DEF TaskInv, TaskType, Article, Rows, Won, A!Rounds
<1>8. trouble' = 0 => Smoothly(t)'
  BY <1>1, <1>3 DEF TaskInv, TaskType, Smoothly, Told, Article, Rows, Won, A!Rounds
<1>9. Fulfils(t)
  BY <1>1, <1>3 DEF TaskInv, TaskType, Fulfils, Accepted, Told, Article, Rows, Won, A!Rounds
<1>10. Still(t)
  BY <1>1 DEF A!AgentGenerateQuestionSolution, A!Goto, A!Smooth, A!Trouble, A!Outside, A!TypeOK,
     Still
<1> QED
  BY <1>2, <1>4, <1>5, <1>6, <1>7, <1>8, <1>9, <1>10 DEF TaskInv, Kept

\* It begins, or cannot be read.
LEMMA StartKept ==
  ASSUME A!TypeOK, TasksInv, NEW t \in Tasks, A!Start(t)
  PROVE  Kept(t) /\ Still(t)
<1>1. /\ at[t] = "start"
      /\ \/ at'[t] = "question" /\ trouble' = trouble /\ task'[t] = [task[t] EXCEPT !.status = "running"]
         \/ trouble' = trouble + 1 /\ at'[t] \in {"question", "end"} /\ task' = task
      /\ token' = token /\ round' = round /\ fits' = fits /\ submits' = submits
      /\ verdict' = verdict /\ server' = server /\ posts' = posts /\ bound' = bound
      /\ author' = author /\ raced' = raced
  BY DEF A!Start, A!Goto, A!Smooth, A!Trouble, A!Outside, A!TypeOK, A!Updates
<1>2. Only(t) /\ Later
  BY BoundsType DEF A!Start, A!Goto, A!Smooth, A!Trouble, A!Outside, A!TypeOK, A!Updates, Only,
     Later
<1>3. TaskInv(t) /\ TaskType(t) /\ trouble \in Nat /\ MaxRound \in Nat
  BY BoundsType, TaskTyped DEF TasksInv
<1>4. TaskType(t)'
  BY <1>1, <1>3 DEF TaskType, A!Rounds
<1>5. Rows(t)'
  BY <1>1, <1>3 DEF TaskInv, TaskType, Rows, Won, A!Rounds
<1>6. Told(t)'
  BY <1>1, <1>3 DEF TaskInv, TaskType, Told, Article
<1>7. Article(t)'
  BY <1>1, <1>3 DEF TaskInv, TaskType, Article, Rows, Won, A!Rounds
<1>8. trouble' = 0 => Smoothly(t)'
  BY <1>1, <1>3 DEF TaskInv, TaskType, Smoothly, Told, Article, Rows, Won, A!Rounds
<1>9. Fulfils(t)
  BY <1>1, <1>3 DEF TaskInv, TaskType, Fulfils, Accepted, Told, Article, Rows, Won, A!Rounds
<1>10. Still(t)
  BY <1>1 DEF A!Start, A!Goto, A!Smooth, A!Trouble, A!Outside, A!TypeOK, A!Updates, Still
<1> QED
  BY <1>2, <1>4, <1>5, <1>6, <1>7, <1>8, <1>9, <1>10 DEF TaskInv, Kept

\* The question is there, or is not.
LEMMA LoadQuestionKept ==
  ASSUME A!TypeOK, TasksInv, NEW t \in Tasks, A!LoadQuestion(t)
  PROVE  Kept(t) /\ Still(t)
<1>1. /\ at[t] = "question" /\ at'[t] \in {"user", "fail"}
      /\ (trouble' = trouble \/ trouble' = trouble + 1)
      /\ token' = token /\ task' = task /\ round' = round /\ fits' = fits /\ submits' = submits
      /\ verdict' = verdict /\ server' = server /\ posts' = posts /\ bound' = bound
      /\ author' = author /\ raced' = raced
  BY DEF A!LoadQuestion, A!Goto, A!Smooth, A!Trouble, A!Outside, A!TypeOK
<1>2. Only(t) /\ Later
  BY BoundsType DEF A!LoadQuestion, A!Goto, A!Smooth, A!Trouble, A!Outside, A!TypeOK, Only, Later
<1>3. TaskInv(t) /\ TaskType(t) /\ trouble \in Nat /\ MaxRound \in Nat
  BY BoundsType, TaskTyped DEF TasksInv
<1>4. TaskType(t)'
  BY <1>1, <1>3 DEF TaskType, A!Rounds
<1>5. Rows(t)'
  BY <1>1, <1>3 DEF TaskInv, TaskType, Rows, Won, A!Rounds
<1>6. Told(t)'
  BY <1>1, <1>3 DEF TaskInv, TaskType, Told, Article
<1>7. Article(t)'
  BY <1>1, <1>3 DEF TaskInv, TaskType, Article, Rows, Won, A!Rounds
<1>8. trouble' = 0 => Smoothly(t)'
  BY <1>1, <1>3 DEF TaskInv, TaskType, Smoothly, Told, Article, Rows, Won, A!Rounds
<1>9. Fulfils(t)
  BY <1>1, <1>3 DEF TaskInv, TaskType, Fulfils, Accepted, Told, Article, Rows, Won, A!Rounds
<1>10. Still(t)
  BY <1>1 DEF A!LoadQuestion, A!Goto, A!Smooth, A!Trouble, A!Outside, A!TypeOK, Still
<1> QED
  BY <1>2, <1>4, <1>5, <1>6, <1>7, <1>8, <1>9, <1>10 DEF TaskInv, Kept

\* There is an account, or is none.
LEMMA EnsureOJAgentUserKept ==
  ASSUME A!TypeOK, TasksInv, NEW t \in Tasks, A!EnsureOJAgentUser(t)
  PROVE  Kept(t) /\ Still(t)
<1>1. /\ at[t] = "user" /\ at'[t] \in {"llm", "enlist", "fail"}
      /\ (trouble' = trouble \/ trouble' = trouble + 1)
      /\ token' = token /\ task' = task /\ round' = round /\ fits' = fits /\ submits' = submits
      /\ verdict' = verdict /\ server' = server /\ posts' = posts /\ bound' = bound
      /\ author' = author /\ raced' = raced
  BY DEF A!EnsureOJAgentUser, A!Goto, A!Smooth, A!Trouble, A!Outside, A!TypeOK
<1>2. Only(t) /\ Later
  BY BoundsType DEF A!EnsureOJAgentUser, A!Goto, A!Smooth, A!Trouble, A!Outside, A!TypeOK, Only,
     Later
<1>3. TaskInv(t) /\ TaskType(t) /\ trouble \in Nat /\ MaxRound \in Nat
  BY BoundsType, TaskTyped DEF TasksInv
<1>4. TaskType(t)'
  BY <1>1, <1>3 DEF TaskType, A!Rounds
<1>5. Rows(t)'
  BY <1>1, <1>3 DEF TaskInv, TaskType, Rows, Won, A!Rounds
<1>6. Told(t)'
  BY <1>1, <1>3 DEF TaskInv, TaskType, Told, Article
<1>7. Article(t)'
  BY <1>1, <1>3 DEF TaskInv, TaskType, Article, Rows, Won, A!Rounds
<1>8. trouble' = 0 => Smoothly(t)'
  BY <1>1, <1>3 DEF TaskInv, TaskType, Smoothly, Told, Article, Rows, Won, A!Rounds
<1>9. Fulfils(t)
  BY <1>1, <1>3 DEF TaskInv, TaskType, Fulfils, Accepted, Told, Article, Rows, Won, A!Rounds
<1>10. Still(t)
  BY <1>1 DEF A!EnsureOJAgentUser, A!Goto, A!Smooth, A!Trouble, A!Outside, A!TypeOK, Still
<1> QED
  BY <1>2, <1>4, <1>5, <1>6, <1>7, <1>8, <1>9, <1>10 DEF TaskInv, Kept

\* The account is made, or not.
LEMMA CreateOJAgentUserKept ==
  ASSUME A!TypeOK, TasksInv, NEW t \in Tasks, A!CreateOJAgentUser(t)
  PROVE  Kept(t)
<1>1. /\ at[t] = "enlist" /\ at'[t] \in {"llm", "fail"}
      /\ (trouble' = trouble \/ trouble' = trouble + 1)
      /\ raced => raced'
      /\ token' = token /\ task' = task /\ round' = round /\ fits' = fits /\ submits' = submits
      /\ verdict' = verdict /\ server' = server /\ posts' = posts /\ bound' = bound
      /\ author' = author
  BY DEF A!CreateOJAgentUser, A!Goto, A!Smooth, A!Trouble, A!Outside, A!TypeOK
<1>2. Only(t) /\ Later
  <2>1. Only(t)
    BY DEF A!CreateOJAgentUser, A!Goto, A!TypeOK, Only
  <2>2. raced' = raced \/ raced' = TRUE
    BY DEF A!CreateOJAgentUser, A!TypeOK
  <2>3. /\ token' = token /\ question' \in {question, FALSE} /\ author' \in {author, TRUE}
        /\ trouble' \in {trouble, trouble + 1} /\ trouble' \in 0..MaxTrouble
    BY BoundsType DEF A!CreateOJAgentUser, A!Smooth, A!Trouble
  <2> QED
    BY <2>1, <2>2, <2>3 DEF Later
<1>3. TaskInv(t) /\ TaskType(t) /\ trouble \in Nat /\ MaxRound \in Nat
  BY BoundsType, TaskTyped DEF TasksInv
<1>4. TaskType(t)'
  BY <1>1, <1>3 DEF TaskType, A!Rounds
<1>5. Rows(t)'
  BY <1>1, <1>3 DEF TaskInv, TaskType, Rows, Won, A!Rounds
<1>6. Told(t)'
  BY <1>1, <1>3 DEF TaskInv, TaskType, Told, Article
<1>7. Article(t)'
  BY <1>1, <1>3 DEF TaskInv, TaskType, Article, Rows, Won, A!Rounds
<1>8. trouble' = 0 => Smoothly(t)'
  BY <1>1, <1>3 DEF TaskInv, TaskType, Smoothly, Told, Article, Rows, Won, A!Rounds
<1>9. Fulfils(t)
  BY <1>1, <1>3 DEF TaskInv, TaskType, Fulfils, Accepted, Told, Article, Rows, Won, A!Rounds
<1> QED
  BY <1>2, <1>4, <1>5, <1>6, <1>7, <1>8, <1>9 DEF TaskInv, Kept

\* The model replies, or fails; or there is no further round.
LEMMA CallAgentLLMKept ==
  ASSUME A!TypeOK, TasksInv, NEW t \in Tasks, A!CallAgentLLM(t)
  PROVE  Kept(t) /\ Still(t)
<1>1. /\ at[t] = "llm" /\ trouble' = trouble
      /\ \/ at'[t] = "fail" /\ round' = round /\ fits' = fits
         \/ at'[t] \in {"submit", "llm"} /\ round[t] # MaxRound /\ round'[t] = round[t] + 1
      /\ token' = token /\ task' = task /\ submits' = submits /\ verdict' = verdict
      /\ server' = server /\ posts' = posts /\ bound' = bound /\ author' = author
      /\ raced' = raced
  BY DEF A!CallAgentLLM, A!Goto, A!Smooth, A!Trouble, A!Outside, A!TypeOK, A!ParseAgentReply
<1>2. Only(t) /\ Later
  BY BoundsType DEF A!CallAgentLLM, A!Goto, A!Smooth, A!Trouble, A!Outside, A!TypeOK,
     A!ParseAgentReply, Only, Later
<1>3. TaskInv(t) /\ TaskType(t) /\ trouble \in Nat /\ MaxRound \in Nat
  BY BoundsType, TaskTyped DEF TasksInv
<1>4. TaskType(t)'
  <2>1. round'[t] \in 0..MaxRound
    BY <1>1, <1>3 DEF TaskType
  <2>2. fits'[t] \in BOOLEAN
    BY DEF A!CallAgentLLM, A!Outside, A!Replies, A!ParseAgentReply, A!TypeOK
  <2> QED
    BY <1>1, <1>3, <2>1, <2>2 DEF TaskType, A!Rounds
<1>5. Rows(t)'
  BY <1>1, <1>3 DEF TaskInv, TaskType, Rows, Won, A!Rounds
<1>6. Told(t)'
  BY <1>1, <1>3 DEF TaskInv, TaskType, Told, Article
<1>7. Article(t)'
  BY <1>1, <1>3 DEF TaskInv, TaskType, Article, Rows, Won, A!Rounds
<1>8. trouble' = 0 => Smoothly(t)'
  BY <1>1, <1>3 DEF TaskInv, TaskType, Smoothly, Told, Article, Rows, Won, A!Rounds
<1>9. Fulfils(t)
  BY <1>1, <1>3 DEF TaskInv, TaskType, Fulfils, Accepted, Told, Article, Rows, Won, A!Rounds
<1>10. Still(t)
  BY <1>1 DEF A!CallAgentLLM, A!Goto, A!Smooth, A!Trouble, A!Outside, A!TypeOK,
     A!ParseAgentReply, Still
<1> QED
  BY <1>2, <1>4, <1>5, <1>6, <1>7, <1>8, <1>9, <1>10 DEF TaskInv, Kept

\* The row of the round.
LEMMA SubmitKept ==
  ASSUME A!TypeOK, TasksInv, NEW t \in Tasks, A!Submit(t)
  PROVE  Kept(t) /\ Still(t)
<1>1. /\ at[t] = "submit"
      /\ \/ at'[t] = "judge" /\ trouble' = trouble /\ submits'[t] = [submits[t] EXCEPT ![round[t]] = "Pending"]
         \/ at'[t] = "llm" /\ trouble' = trouble + 1 /\ submits' = submits
      /\ token' = token /\ task' = task /\ round' = round /\ fits' = fits /\ verdict' = verdict
      /\ server' = server /\ posts' = posts /\ bound' = bound /\ author' = author
      /\ raced' = raced
  BY DEF A!Submit, A!Goto, A!Smooth, A!Trouble, A!Outside, A!TypeOK, A!SetRow
<1>2. Only(t) /\ Later
  BY BoundsType DEF A!Submit, A!Goto, A!Smooth, A!Trouble, A!Outside, A!TypeOK, A!SetRow, Only,
     Later
<1>3. TaskInv(t) /\ TaskType(t) /\ trouble \in Nat /\ MaxRound \in Nat
  BY BoundsType, TaskTyped DEF TasksInv
<1>4. TaskType(t)'
  <2>1. submits'[t] \in [A!Rounds -> {"none", "Pending", "Running"} \cup A!Verdicts]
    <3>1. CASE submits' = submits
      BY <1>3, <3>1 DEF TaskType
    <3>2. CASE submits'[t] = [submits[t] EXCEPT ![round[t]] = "Pending"]
      BY <1>3, <3>2 DEF TaskType
    <3> QED
      BY <1>1, <3>1, <3>2
  <2>2. at'[t] \in A!Places
    BY <1>1 DEF A!Places
  <2> QED
    BY <1>1, <1>3, <2>1, <2>2 DEF TaskType
<1>5. Rows(t)'
  BY <1>1, <1>3 DEF TaskInv, TaskType, Rows, Won, A!Rounds
<1>6. Told(t)'
  BY <1>1, <1>3 DEF TaskInv, TaskType, Told, Article
<1>7. Article(t)'
  BY <1>1, <1>3 DEF TaskInv, TaskType, Article, Rows, Won, A!Rounds
<1>8. trouble' = 0 => Smoothly(t)'
  BY <1>1, <1>3 DEF TaskInv, TaskType, Smoothly, Told, Article, Rows, Won, A!Rounds
<1>9. Fulfils(t)
  BY <1>1, <1>3 DEF TaskInv, TaskType, Fulfils, Accepted, Told, Article, Rows, Won, A!Rounds
<1>10. Still(t)
  BY <1>1 DEF A!Submit, A!Goto, A!Smooth, A!Trouble, A!Outside, A!TypeOK, A!SetRow, Still
<1> QED
  BY <1>2, <1>4, <1>5, <1>6, <1>7, <1>8, <1>9, <1>10 DEF TaskInv, Kept

\* Its judge claims it, or finds it claimed.
LEMMA JudgeClaimKept ==
  ASSUME A!TypeOK, TasksInv, NEW t \in Tasks, A!JudgeClaim(t)
  PROVE  Kept(t) /\ Still(t)
<1>1. /\ at[t] = "judge"
      /\ \/ at'[t] = "judging" /\ trouble' = trouble /\ submits[t][round[t]] = "Pending"
            /\ submits'[t] = [submits[t] EXCEPT ![round[t]] = "Running"]
         \/ at'[t] = "read" /\ (trouble' = trouble \/ trouble' = trouble + 1) /\ submits' = submits
      /\ token' = token /\ task' = task /\ round' = round /\ fits' = fits /\ verdict' = verdict
      /\ server' = server /\ posts' = posts /\ bound' = bound /\ author' = author
      /\ raced' = raced
  BY DEF A!JudgeClaim, A!Goto, A!Smooth, A!Trouble, A!Outside, A!TypeOK, A!SetRow, A!Row
<1>2. Only(t) /\ Later
  BY BoundsType DEF A!JudgeClaim, A!Goto, A!Smooth, A!Trouble, A!Outside, A!TypeOK, A!SetRow,
     A!Row, Only, Later
<1>3. TaskInv(t) /\ TaskType(t) /\ trouble \in Nat /\ MaxRound \in Nat
  BY BoundsType, TaskTyped DEF TasksInv
<1>4. TaskType(t)'
  <2>1. submits'[t] \in [A!Rounds -> {"none", "Pending", "Running"} \cup A!Verdicts]
    <3>1. CASE submits' = submits
      BY <1>3, <3>1 DEF TaskType
    <3>2. CASE submits'[t] = [submits[t] EXCEPT ![round[t]] = "Running"]
      BY <1>3, <3>2 DEF TaskType
    <3> QED
      BY <1>1, <3>1, <3>2
  <2>2. at'[t] \in A!Places
    BY <1>1 DEF A!Places
  <2> QED
    BY <1>1, <1>3, <2>1, <2>2 DEF TaskType
<1>5. Rows(t)'
  BY <1>1, <1>3 DEF TaskInv, TaskType, Rows, Won, A!Rounds
<1>6. Told(t)'
  BY <1>1, <1>3 DEF TaskInv, TaskType, Told, Article
<1>7. Article(t)'
  BY <1>1, <1>3 DEF TaskInv, TaskType, Article, Rows, Won, A!Rounds
<1>8. trouble' = 0 => Smoothly(t)'
  BY <1>1, <1>3 DEF TaskInv, TaskType, Smoothly, Told, Article, Rows, Won, A!Rounds
<1>9. Fulfils(t)
  BY <1>1, <1>3 DEF TaskInv, TaskType, Fulfils, Accepted, Told, Article, Rows, Won, A!Rounds
<1>10. Still(t)
  BY <1>1 DEF A!JudgeClaim, A!Goto, A!Smooth, A!Trouble, A!Outside, A!TypeOK, A!SetRow, A!Row,
     Still
<1> QED
  BY <1>2, <1>4, <1>5, <1>6, <1>7, <1>8, <1>9, <1>10 DEF TaskInv, Kept

\* A verdict, or none.
LEMMA JudgeFinishKept ==
  ASSUME A!TypeOK, TasksInv, NEW t \in Tasks, A!JudgeFinish(t)
  PROVE  Kept(t) /\ Still(t)
<1>1. /\ at[t] = "judging" /\ at'[t] = "read"
      /\ \/ trouble' = trouble /\ submits[t][round[t]] = "Running"
            /\ \E s \in A!Verdicts : submits'[t] = [submits[t] EXCEPT ![round[t]] = s]
         \/ (trouble' = trouble \/ trouble' = trouble + 1) /\ submits' = submits
      /\ token' = token /\ task' = task /\ round' = round /\ fits' = fits /\ verdict' = verdict
      /\ server' = server /\ posts' = posts /\ bound' = bound /\ author' = author
      /\ raced' = raced
  BY DEF A!JudgeFinish, A!Goto, A!Smooth, A!Trouble, A!Outside, A!TypeOK, A!SetRow, A!Row,
     A!Finishes
<1>2. Only(t) /\ Later
  BY BoundsType DEF A!JudgeFinish, A!Goto, A!Smooth, A!Trouble, A!Outside, A!TypeOK, A!SetRow,
     A!Row, A!Finishes, Only, Later
<1>3. TaskInv(t) /\ TaskType(t) /\ trouble \in Nat /\ MaxRound \in Nat
  BY BoundsType, TaskTyped DEF TasksInv

<1>6. Told(t)'
  BY <1>1, <1>3 DEF TaskInv, TaskType, Told, Article
<1>7. Article(t)'
  BY <1>1, <1>3 DEF TaskInv, TaskType, Article, Rows, Won, A!Rounds
<1>4. /\ TaskType(t)'
      /\ Rows(t)'
      /\ trouble' = 0 => Smoothly(t)'
  <2>1. CASE submits' = submits
    <3>1. TaskType(t)'
      BY <1>1, <1>3, <2>1 DEF TaskType, A!Rounds
    <3>2. Rows(t)'
      BY <1>1, <1>3, <2>1 DEF TaskInv, TaskType, Rows, Won, A!Rounds
    <3>3. trouble' = 0 => Smoothly(t)'
      BY <1>1, <1>3, <2>1 DEF TaskInv, TaskType, Smoothly, Told, Article, Rows, Won, A!Rounds
    <3> QED
      BY <3>1, <3>2, <3>3
  <2>2. CASE submits' # submits
    <3>1. PICK s \in A!Verdicts : submits'[t] = [submits[t] EXCEPT ![round[t]] = s]
      BY <1>1, <2>2
    <3>2. /\ trouble' = trouble
          /\ \A k \in A!Rounds : submits'[t][k] = IF k = round[t] THEN s ELSE submits[t][k]
      BY <1>1, <1>3, <2>2, <3>1 DEF TaskType
    <3>3. TaskType(t)'
      <4>1. submits'[t] \in [A!Rounds -> {"none", "Pending", "Running"} \cup A!Verdicts]
        BY <1>3, <3>1 DEF TaskType
      <4> QED
        BY <1>1, <1>3, <4>1 DEF TaskType
    <3>4. Rows(t)'
      BY <1>1, <1>3, <3>2 DEF TaskInv, TaskType, Rows, Won, A!Rounds
    <3>5. trouble' = 0 => Smoothly(t)'
      BY <1>1, <1>3, <3>2 DEF TaskInv, TaskType, Smoothly, Told, Article, Rows, Won, A!Rounds
    <3> QED
      BY <3>3, <3>4, <3>5
  <2> QED
    BY <2>1, <2>2
<1>9. Fulfils(t)
  <2>1. task'[t].status = task[t].status /\ posts'[t].state = posts[t].state
    BY <1>1
  <2>2. task[t].status # "none" \/ submits' = submits
    BY <1>1, <1>3 DEF TaskInv, Told, AtWork, Asking
  <2>3. Accepted(t)' \/ (Accepted(t)' <=> Accepted(t))
    <3>1. CASE submits' = submits
      BY <3>1 DEF Accepted
    <3>2. CASE submits' # submits
      <4>1. submits[t][round[t]] = "Running" /\ submits[t] \in [A!Rounds -> {"none", "Pending", "Running"} \cup A!Verdicts]
        BY <1>1, <1>3, <3>2 DEF TaskType
      <4>2. \A k \in A!Rounds : submits[t][k] = "Accepted" => submits'[t][k] = "Accepted"
        BY <1>1, <3>2, <4>1
      <4> QED
        BY <4>2 DEF Accepted
    <3> QED
      BY <3>1, <3>2
  <2>4. submits' = submits => (Accepted(t)' <=> Accepted(t))
    BY DEF Accepted
  <2> QED
    BY <2>1, <2>2, <2>3, <2>4 DEF Fulfils
<1>10. Still(t)
  BY <1>1 DEF A!JudgeFinish, A!Goto, A!Smooth, A!Trouble, A!Outside, A!TypeOK, A!SetRow, A!Row,
     A!Finishes, Still
<1> QED
  BY <1>2, <1>4, <1>6, <1>7, <1>9, <1>10 DEF TaskInv, Kept

\* The task reads it.
LEMMA ReadVerdictKept ==
  ASSUME A!TypeOK, TasksInv, NEW t \in Tasks, A!ReadVerdict(t)
  PROVE  Kept(t) /\ Still(t)
<1>1. /\ at[t] = "read"
      /\ \/ at'[t] = "record" /\ trouble' = trouble /\ (verdict'[t] <=> submits[t][round[t]] = "Accepted")
         \/ at'[t] = "llm" /\ trouble' = trouble + 1 /\ verdict' = verdict
      /\ token' = token /\ task' = task /\ round' = round /\ fits' = fits /\ submits' = submits
      /\ server' = server /\ posts' = posts /\ bound' = bound /\ author' = author
      /\ raced' = raced
  BY DEF A!ReadVerdict, A!Goto, A!Smooth, A!Trouble, A!Outside, A!TypeOK, A!Row, A!IsAccepted
<1>2. Only(t) /\ Later
  BY BoundsType DEF A!ReadVerdict, A!Goto, A!Smooth, A!Trouble, A!Outside, A!TypeOK, A!Row,
     A!IsAccepted, Only, Later
<1>3. TaskInv(t) /\ TaskType(t) /\ trouble \in Nat /\ MaxRound \in Nat
  BY BoundsType, TaskTyped DEF TasksInv
<1>4. TaskType(t)'
  <2>1. verdict'[t] \in BOOLEAN
    BY DEF A!ReadVerdict, A!IsAccepted, A!TypeOK
  <2> QED
    BY <1>1, <1>3, <2>1 DEF TaskType, A!Rounds
<1>5. Rows(t)'
  BY <1>1, <1>3 DEF TaskInv, TaskType, Rows, Won, A!Rounds
<1>6. Told(t)'
  BY <1>1, <1>3 DEF TaskInv, TaskType, Told, Article
<1>7. Article(t)'
  BY <1>1, <1>3 DEF TaskInv, TaskType, Article, Rows, Won, A!Rounds
<1>8. trouble' = 0 => Smoothly(t)'
  BY <1>1, <1>3 DEF TaskInv, TaskType, Smoothly, Told, Article, Rows, Won, A!Rounds
<1>9. Fulfils(t)
  BY <1>1, <1>3 DEF TaskInv, TaskType, Fulfils, Accepted, Told, Article, Rows, Won, A!Rounds
<1>10. Still(t)
  BY <1>1 DEF A!ReadVerdict, A!Goto, A!Smooth, A!Trouble, A!Outside, A!TypeOK, A!Row,
     A!IsAccepted, Still
<1> QED
  BY <1>2, <1>4, <1>5, <1>6, <1>7, <1>8, <1>9, <1>10 DEF TaskInv, Kept

\* The row of the task takes the answer.
LEMMA RecordKept ==
  ASSUME A!TypeOK, TasksInv, NEW t \in Tasks, A!Record(t)
  PROVE  Kept(t) /\ Still(t)
<1>1. /\ at[t] = "record"
      /\ at'[t] = IF ~verdict[t] THEN "llm" ELSE IF token THEN "internal" ELSE "login"
      /\ \/ trouble' = trouble /\ task'[t] = [task[t] EXCEPT !.answer = round[t]]
         \/ trouble' = trouble + 1 /\ task' = task
      /\ token' = token /\ round' = round /\ fits' = fits /\ submits' = submits
      /\ verdict' = verdict /\ server' = server /\ posts' = posts /\ bound' = bound
      /\ author' = author /\ raced' = raced
  BY DEF A!Record, A!Goto, A!Smooth, A!Trouble, A!Outside, A!TypeOK, A!Updates
<1>2. Only(t) /\ Later
  BY BoundsType DEF A!Record, A!Goto, A!Smooth, A!Trouble, A!Outside, A!TypeOK, A!Updates, Only,
     Later
<1>3. TaskInv(t) /\ TaskType(t) /\ trouble \in Nat /\ MaxRound \in Nat
  BY BoundsType, TaskTyped DEF TasksInv
<1>4. TaskType(t)'
  BY <1>1, <1>3 DEF TaskType, A!Rounds
<1>5. Rows(t)'
  BY <1>1, <1>3 DEF TaskInv, TaskType, Rows, Won, A!Rounds
<1>6. Told(t)'
  BY <1>1, <1>3 DEF TaskInv, TaskType, Told, Article
<1>7. Article(t)'
  BY <1>1, <1>3 DEF TaskInv, TaskType, Article, Rows, Won, A!Rounds
<1>8. trouble' = 0 => Smoothly(t)'
  BY <1>1, <1>3 DEF TaskInv, TaskType, Smoothly, Told, Article, Rows, Won, A!Rounds
<1>9. Fulfils(t)
  BY <1>1, <1>3 DEF TaskInv, TaskType, Fulfils, Accepted, Told, Article, Rows, Won, A!Rounds
<1>10. Still(t)
  BY <1>1 DEF A!Record, A!Goto, A!Smooth, A!Trouble, A!Outside, A!TypeOK, A!Updates, Still
<1> QED
  BY <1>2, <1>4, <1>5, <1>6, <1>7, <1>8, <1>9, <1>10 DEF TaskInv, Kept

\* The agent logs in to the blog, or must register.
LEMMA LoginKept ==
  ASSUME A!TypeOK, TasksInv, NEW t \in Tasks, A!Login(t)
  PROVE  Kept(t) /\ Still(t)
<1>1. /\ at[t] = "login" /\ at'[t] \in {"create", "register"}
      /\ (trouble' = trouble \/ trouble' = trouble + 1)
      /\ token' = token /\ task' = task /\ round' = round /\ fits' = fits /\ submits' = submits
      /\ verdict' = verdict /\ server' = server /\ posts' = posts /\ bound' = bound
      /\ author' = author /\ raced' = raced
  BY DEF A!Login, A!Goto, A!Smooth, A!Trouble, A!Outside, A!TypeOK
<1>2. Only(t) /\ Later
  BY BoundsType DEF A!Login, A!Goto, A!Smooth, A!Trouble, A!Outside, A!TypeOK, Only, Later
<1>3. TaskInv(t) /\ TaskType(t) /\ trouble \in Nat /\ MaxRound \in Nat
  BY BoundsType, TaskTyped DEF TasksInv
<1>4. TaskType(t)'
  BY <1>1, <1>3 DEF TaskType, A!Rounds
<1>5. Rows(t)'
  BY <1>1, <1>3 DEF TaskInv, TaskType, Rows, Won, A!Rounds
<1>6. Told(t)'
  BY <1>1, <1>3 DEF TaskInv, TaskType, Told, Article
<1>7. Article(t)'
  BY <1>1, <1>3 DEF TaskInv, TaskType, Article, Rows, Won, A!Rounds
<1>8. trouble' = 0 => Smoothly(t)'
  BY <1>1, <1>3 DEF TaskInv, TaskType, Smoothly, Told, Article, Rows, Won, A!Rounds
<1>9. Fulfils(t)
  BY <1>1, <1>3 DEF TaskInv, TaskType, Fulfils, Accepted, Told, Article, Rows, Won, A!Rounds
<1>10. Still(t)
  BY <1>1 DEF A!Login, A!Goto, A!Smooth, A!Trouble, A!Outside, A!TypeOK, Still
<1> QED
  BY <1>2, <1>4, <1>5, <1>6, <1>7, <1>8, <1>9, <1>10 DEF TaskInv, Kept

\* It registers; the answer is not looked at.
LEMMA RegisterKept ==
  ASSUME A!TypeOK, TasksInv, NEW t \in Tasks, A!Register(t)
  PROVE  Kept(t) /\ Still(t)
<1>1. /\ at[t] = "register" /\ at'[t] = "relogin" /\ (author' = TRUE \/ author' = author)
      /\ \/ trouble' = trouble /\ author' = TRUE
         \/ trouble' = trouble + 1
      /\ token' = token /\ task' = task /\ round' = round /\ fits' = fits /\ submits' = submits
      /\ verdict' = verdict /\ server' = server /\ posts' = posts /\ bound' = bound
      /\ raced' = raced
  BY DEF A!Register, A!Goto, A!Smooth, A!Trouble, A!Outside, A!TypeOK
<1>2. Only(t) /\ Later
  <2>1. Only(t)
    BY DEF A!Register, A!Goto, A!TypeOK, Only
  <2>2. question' = question /\ (A!Smooth \/ A!Trouble)
    BY DEF A!Register
  <2>3. trouble' \in {trouble, trouble + 1} /\ trouble' \in 0..MaxTrouble
    BY <2>2, BoundsType DEF A!Smooth, A!Trouble
  <2> QED
    BY <1>1, <2>1, <2>2, <2>3 DEF Later
<1>3. TaskInv(t) /\ TaskType(t) /\ trouble \in Nat /\ MaxRound \in Nat
  BY BoundsType, TaskTyped DEF TasksInv
<1>4. TaskType(t)'
  BY <1>1, <1>3 DEF TaskType, A!Rounds
<1>5. Rows(t)'
  BY <1>1, <1>3 DEF TaskInv, TaskType, Rows, Won, A!Rounds
<1>6. Told(t)'
  BY <1>1, <1>3 DEF TaskInv, TaskType, Told, Article
<1>7. Article(t)'
  BY <1>1, <1>3 DEF TaskInv, TaskType, Article, Rows, Won, A!Rounds
<1>8. trouble' = 0 => Smoothly(t)'
  BY <1>1, <1>3 DEF TaskInv, TaskType, Smoothly, Told, Article, Rows, Won, A!Rounds
<1>9. Fulfils(t)
  BY <1>1, <1>3 DEF TaskInv, TaskType, Fulfils, Accepted, Told, Article, Rows, Won, A!Rounds
<1>10. Still(t)
  BY <1>1 DEF A!Register, A!Goto, A!Smooth, A!Trouble, A!Outside, A!TypeOK, Still
<1> QED
  BY <1>2, <1>4, <1>5, <1>6, <1>7, <1>8, <1>9, <1>10 DEF TaskInv, Kept

\* And logs in again.
LEMMA ReloginKept ==
  ASSUME A!TypeOK, TasksInv, NEW t \in Tasks, A!Relogin(t)
  PROVE  Kept(t) /\ Still(t)
<1>1. /\ at[t] = "relogin" /\ at'[t] \in {"create", "fail"}
      /\ (trouble' = trouble \/ trouble' = trouble + 1)
      /\ at'[t] = "fail" => ~author \/ trouble' = trouble + 1
      /\ token' = token /\ task' = task /\ round' = round /\ fits' = fits /\ submits' = submits
      /\ verdict' = verdict /\ server' = server /\ posts' = posts /\ bound' = bound
      /\ author' = author /\ raced' = raced
  BY DEF A!Relogin, A!Goto, A!Smooth, A!Trouble, A!Outside, A!TypeOK
<1>2. Only(t) /\ Later
  BY BoundsType DEF A!Relogin, A!Goto, A!Smooth, A!Trouble, A!Outside, A!TypeOK, Only, Later
<1>3. TaskInv(t) /\ TaskType(t) /\ trouble \in Nat /\ MaxRound \in Nat
  BY BoundsType, TaskTyped DEF TasksInv
<1>4. TaskType(t)'
  BY <1>1, <1>3 DEF TaskType, A!Rounds
<1>5. Rows(t)'
  BY <1>1, <1>3 DEF TaskInv, TaskType, Rows, Won, A!Rounds
<1>6. Told(t)'
  BY <1>1, <1>3 DEF TaskInv, TaskType, Told, Article
<1>7. Article(t)'
  BY <1>1, <1>3 DEF TaskInv, TaskType, Article, Rows, Won, A!Rounds
<1>8. trouble' = 0 => Smoothly(t)'
  BY <1>1, <1>3 DEF TaskInv, TaskType, Smoothly, Told, Article, Rows, Won, A!Rounds
<1>9. Fulfils(t)
  BY <1>1, <1>3 DEF TaskInv, TaskType, Fulfils, Accepted, Told, Article, Rows, Won, A!Rounds
<1>10. Still(t)
  BY <1>1 DEF A!Relogin, A!Goto, A!Smooth, A!Trouble, A!Outside, A!TypeOK, Still
<1> QED
  BY <1>2, <1>4, <1>5, <1>6, <1>7, <1>8, <1>9, <1>10 DEF TaskInv, Kept

\* A request is sent to the blog, which may refuse it at once.
LEMMA SendKept ==
  ASSUME A!TypeOK, TasksInv, NEW t \in Tasks, A!Send(t)
  PROVE  Kept(t) /\ Still(t)
<1>1. /\ at[t] \in A!Publishing /\ server[t] = "idle" /\ trouble' = trouble
      /\ server'[t] = IF at[t] = "publish" THEN "publish" ELSE IF ~fits[t] THEN "refused"
                     ELSE IF at[t] = "create" THEN "draft" ELSE "author"
      /\ token' = token /\ task' = task /\ at' = at /\ round' = round /\ fits' = fits
      /\ submits' = submits /\ verdict' = verdict /\ posts' = posts /\ bound' = bound
      /\ author' = author /\ raced' = raced
  BY DEF A!Send, A!Goto, A!Smooth, A!Trouble, A!Outside, A!TypeOK
<1>2. Only(t) /\ Later
  BY BoundsType DEF A!Send, A!Goto, A!Smooth, A!Trouble, A!Outside, A!TypeOK, Only, Later
<1>3. TaskInv(t) /\ TaskType(t) /\ trouble \in Nat /\ MaxRound \in Nat
  BY BoundsType, TaskTyped DEF TasksInv
<1>4. TaskType(t)'
  BY <1>1, <1>3 DEF TaskType, A!Rounds
<1>5. Rows(t)'
  BY <1>1, <1>3 DEF TaskInv, TaskType, Rows, Won, A!Rounds
<1>6. Told(t)'
  BY <1>1, <1>3 DEF TaskInv, TaskType, Told, Article
<1>7. Article(t)'
  BY <1>1, <1>3 DEF TaskInv, TaskType, Article, Rows, Won, A!Rounds
<1>8. trouble' = 0 => Smoothly(t)'
  BY <1>1, <1>3 DEF TaskInv, TaskType, Smoothly, Told, Article, Rows, Won, A!Rounds
<1>9. Fulfils(t)
  BY <1>1, <1>3 DEF TaskInv, TaskType, Fulfils, Accepted, Told, Article, Rows, Won, A!Rounds
<1>10. Still(t)
  BY <1>1 DEF A!Send, A!Goto, A!Smooth, A!Trouble, A!Outside, A!TypeOK, Still
<1> QED
  BY <1>2, <1>4, <1>5, <1>6, <1>7, <1>8, <1>9, <1>10 DEF TaskInv, Kept

\* The answer of the blog.
LEMMA ReceiveKept ==
  ASSUME A!TypeOK, TasksInv, NEW t \in Tasks, A!Receive(t)
  PROVE  Kept(t) /\ Still(t)
<1>1. /\ at[t] \in A!Publishing /\ server[t] \in {"ok", "refused"} /\ server'[t] = "idle"
      /\ trouble' = trouble
      /\ at'[t] = IF server[t] = "refused" THEN "fail" ELSE IF at[t] = "create" THEN "publish" ELSE "bind"
      /\ token' = token /\ task' = task /\ round' = round /\ fits' = fits /\ submits' = submits
      /\ verdict' = verdict /\ posts' = posts /\ bound' = bound /\ author' = author
      /\ raced' = raced
  BY DEF A!Receive, A!Goto, A!Smooth, A!Trouble, A!Outside, A!TypeOK
<1>2. Only(t) /\ Later
  BY BoundsType DEF A!Receive, A!Goto, A!Smooth, A!Trouble, A!Outside, A!TypeOK, Only, Later
<1>3. TaskInv(t) /\ TaskType(t) /\ trouble \in Nat /\ MaxRound \in Nat
  BY BoundsType, TaskTyped DEF TasksInv
<1>4. TaskType(t)'
  BY <1>1, <1>3 DEF TaskType, A!Rounds
<1>5. Rows(t)'
  BY <1>1, <1>3 DEF TaskInv, TaskType, Rows, Won, A!Rounds
<1>6. Told(t)'
  BY <1>1, <1>3 DEF TaskInv, TaskType, Told, Article
<1>7. Article(t)'
  BY <1>1, <1>3 DEF TaskInv, TaskType, Article, Rows, Won, A!Rounds
<1>8. trouble' = 0 => Smoothly(t)'
  BY <1>1, <1>3 DEF TaskInv, TaskType, Smoothly, Told, Article, Rows, Won, A!Rounds
<1>9. Fulfils(t)
  BY <1>1, <1>3 DEF TaskInv, TaskType, Fulfils, Accepted, Told, Article, Rows, Won, A!Rounds
<1>10. Still(t)
  BY <1>1 DEF A!Receive, A!Goto, A!Smooth, A!Trouble, A!Outside, A!TypeOK, Still
<1> QED
  BY <1>2, <1>4, <1>5, <1>6, <1>7, <1>8, <1>9, <1>10 DEF TaskInv, Kept

\* No answer in time.
LEMMA GiveUpKept ==
  ASSUME A!TypeOK, TasksInv, NEW t \in Tasks, A!GiveUp(t)
  PROVE  Kept(t) /\ Still(t)
<1>1. /\ at[t] \in A!Publishing /\ at'[t] = "fail" /\ trouble' = trouble + 1
      /\ token' = token /\ task' = task /\ round' = round /\ fits' = fits /\ submits' = submits
      /\ verdict' = verdict /\ server' = server /\ posts' = posts /\ bound' = bound
      /\ author' = author /\ raced' = raced
  BY DEF A!GiveUp, A!Goto, A!Smooth, A!Trouble, A!Outside, A!TypeOK
<1>2. Only(t) /\ Later
  BY BoundsType DEF A!GiveUp, A!Goto, A!Smooth, A!Trouble, A!Outside, A!TypeOK, Only, Later
<1>3. TaskInv(t) /\ TaskType(t) /\ trouble \in Nat /\ MaxRound \in Nat
  BY BoundsType, TaskTyped DEF TasksInv
<1>4. TaskType(t)'
  BY <1>1, <1>3 DEF TaskType, A!Rounds
<1>5. Rows(t)'
  BY <1>1, <1>3 DEF TaskInv, TaskType, Rows, Won, A!Rounds
<1>6. Told(t)'
  BY <1>1, <1>3 DEF TaskInv, TaskType, Told, Article
<1>7. Article(t)'
  BY <1>1, <1>3 DEF TaskInv, TaskType, Article, Rows, Won, A!Rounds
<1>8. trouble' = 0 => Smoothly(t)'
  BY <1>1, <1>3 DEF TaskInv, TaskType, Smoothly, Told, Article, Rows, Won, A!Rounds
<1>9. Fulfils(t)
  BY <1>1, <1>3 DEF TaskInv, TaskType, Fulfils, Accepted, Told, Article, Rows, Won, A!Rounds
<1>10. Still(t)
  BY <1>1 DEF A!GiveUp, A!Goto, A!Smooth, A!Trouble, A!Outside, A!TypeOK, Still
<1> QED
  BY <1>2, <1>4, <1>5, <1>6, <1>7, <1>8, <1>9, <1>10 DEF TaskInv, Kept

\* The article is bound to the question.
LEMMA BindKept ==
  ASSUME A!TypeOK, TasksInv, NEW t \in Tasks, A!Bind(t)
  PROVE  Kept(t) /\ Still(t)
<1>1. /\ at[t] = "bind" /\ at'[t] = "finish"
      /\ \/ trouble' = trouble /\ bound'[t] = 1
         \/ trouble' = trouble + 1 /\ bound' = bound
      /\ token' = token /\ task' = task /\ round' = round /\ fits' = fits /\ submits' = submits
      /\ verdict' = verdict /\ server' = server /\ posts' = posts /\ author' = author
      /\ raced' = raced
  BY DEF A!Bind, A!Goto, A!Smooth, A!Trouble, A!Outside, A!TypeOK
<1>2. Only(t) /\ Later
  BY BoundsType DEF A!Bind, A!Goto, A!Smooth, A!Trouble, A!Outside, A!TypeOK, Only, Later
<1>3. TaskInv(t) /\ TaskType(t) /\ trouble \in Nat /\ MaxRound \in Nat
  BY BoundsType, TaskTyped DEF TasksInv
<1>4. TaskType(t)'
  BY <1>1, <1>3 DEF TaskType, A!Rounds
<1>5. Rows(t)'
  BY <1>1, <1>3 DEF TaskInv, TaskType, Rows, Won, A!Rounds
<1>6. Told(t)'
  BY <1>1, <1>3 DEF TaskInv, TaskType, Told, Article
<1>7. Article(t)'
  BY <1>1, <1>3 DEF TaskInv, TaskType, Article, Rows, Won, A!Rounds
<1>8. trouble' = 0 => Smoothly(t)'
  BY <1>1, <1>3 DEF TaskInv, TaskType, Smoothly, Told, Article, Rows, Won, A!Rounds
<1>9. Fulfils(t)
  BY <1>1, <1>3 DEF TaskInv, TaskType, Fulfils, Accepted, Told, Article, Rows, Won, A!Rounds
<1>10. Still(t)
  BY <1>1 DEF A!Bind, A!Goto, A!Smooth, A!Trouble, A!Outside, A!TypeOK, Still
<1> QED
  BY <1>2, <1>4, <1>5, <1>6, <1>7, <1>8, <1>9, <1>10 DEF TaskInv, Kept

\* The task ends well.
LEMMA FinishKept ==
  ASSUME A!TypeOK, TasksInv, NEW t \in Tasks, A!Finish(t)
  PROVE  Kept(t) /\ Still(t)
<1>1. /\ at[t] = "finish" /\ at'[t] = "end"
      /\ \/ trouble' = trouble /\ task'[t] = [task[t] EXCEPT !.status = "success", !.post = TRUE]
         \/ trouble' = trouble + 1 /\ task' = task
      /\ token' = token /\ round' = round /\ fits' = fits /\ submits' = submits
      /\ verdict' = verdict /\ server' = server /\ posts' = posts /\ bound' = bound
      /\ author' = author /\ raced' = raced
  BY DEF A!Finish, A!Goto, A!Smooth, A!Trouble, A!Outside, A!TypeOK, A!Updates
<1>2. Only(t) /\ Later
  BY BoundsType DEF A!Finish, A!Goto, A!Smooth, A!Trouble, A!Outside, A!TypeOK, A!Updates, Only,
     Later
<1>3. TaskInv(t) /\ TaskType(t) /\ trouble \in Nat /\ MaxRound \in Nat
  BY BoundsType, TaskTyped DEF TasksInv
<1>4. TaskType(t)'
  BY <1>1, <1>3 DEF TaskType, A!Rounds
<1>5. Rows(t)'
  BY <1>1, <1>3 DEF TaskInv, TaskType, Rows, Won, A!Rounds
<1>6. Told(t)'
  BY <1>1, <1>3 DEF TaskInv, TaskType, Told, Article
<1>7. Article(t)'
  BY <1>1, <1>3 DEF TaskInv, TaskType, Article, Rows, Won, A!Rounds
<1>8. trouble' = 0 => Smoothly(t)'
  <2> SUFFICES ASSUME trouble' = 0
               PROVE  Smoothly(t)'
    OBVIOUS
  <2>1. trouble = 0 /\ task'[t] = [task[t] EXCEPT !.status = "success", !.post = TRUE]
    BY <1>1, <1>3
  <2>2. /\ task'[t].status = "success" /\ task'[t].answer = task[t].answer
        /\ server[t] = "idle" /\ posts[t].round = round[t]
    BY <1>1, <1>3, <2>1 DEF TaskInv, TaskType, Article
  <2>3. Smoothly(t) /\ task[t].answer = round[t] /\ bound[t] = 1
    BY <1>1, <1>3, <2>1 DEF TaskInv, Smoothly, After
  <2> QED
    BY <1>1, <2>2, <2>3 DEF Smoothly
<1>9. Fulfils(t)
  BY <1>1, <1>3 DEF TaskInv, TaskType, Fulfils, Accepted, Told, Article, Rows, Won, A!Rounds
<1>10. Still(t)
  BY <1>1 DEF A!Finish, A!Goto, A!Smooth, A!Trouble, A!Outside, A!TypeOK, A!Updates, Still
<1> QED
  BY <1>2, <1>4, <1>5, <1>6, <1>7, <1>8, <1>9, <1>10 DEF TaskInv, Kept

\* Or fails.
LEMMA FailAgentTaskKept ==
  ASSUME A!TypeOK, TasksInv, NEW t \in Tasks, A!FailAgentTask(t)
  PROVE  Kept(t) /\ Still(t)
<1>1. /\ at[t] = "fail" /\ at'[t] = "end"
      /\ \/ trouble' = trouble /\ task'[t] = [task[t] EXCEPT !.status = "failed"]
         \/ trouble' = trouble + 1 /\ task' = task
      /\ token' = token /\ round' = round /\ fits' = fits /\ submits' = submits
      /\ verdict' = verdict /\ server' = server /\ posts' = posts /\ bound' = bound
      /\ author' = author /\ raced' = raced
  BY DEF A!FailAgentTask, A!Goto, A!Smooth, A!Trouble, A!Outside, A!TypeOK, A!Updates
<1>2. Only(t) /\ Later
  BY BoundsType DEF A!FailAgentTask, A!Goto, A!Smooth, A!Trouble, A!Outside, A!TypeOK,
     A!Updates, Only, Later
<1>3. TaskInv(t) /\ TaskType(t) /\ trouble \in Nat /\ MaxRound \in Nat
  BY BoundsType, TaskTyped DEF TasksInv
<1>4. TaskType(t)'
  BY <1>1, <1>3 DEF TaskType, A!Rounds
<1>5. Rows(t)'
  BY <1>1, <1>3 DEF TaskInv, TaskType, Rows, Won, A!Rounds
<1>6. Told(t)'
  BY <1>1, <1>3 DEF TaskInv, TaskType, Told, Article
<1>7. Article(t)'
  BY <1>1, <1>3 DEF TaskInv, TaskType, Article, Rows, Won, A!Rounds
<1>8. trouble' = 0 => Smoothly(t)'
  BY <1>1, <1>3 DEF TaskInv, TaskType, Smoothly, Told, Article, Rows, Won, A!Rounds
<1>9. Fulfils(t)
  BY <1>1, <1>3 DEF TaskInv, TaskType, Fulfils, Accepted, Told, Article, Rows, Won, A!Rounds
<1>10. Still(t)
  BY <1>1 DEF A!FailAgentTask, A!Goto, A!Smooth, A!Trouble, A!Outside, A!TypeOK, A!Updates, Still
<1> QED
  BY <1>2, <1>4, <1>5, <1>6, <1>7, <1>8, <1>9, <1>10 DEF TaskInv, Kept

\* The blog fails.
LEMMA ServerFailsKept ==
  ASSUME A!TypeOK, TasksInv, NEW t \in Tasks, A!ServerFails(t)
  PROVE  Kept(t) /\ Still(t)
<1>1. /\ server[t] \in {"author", "enlist", "draft", "publish"} /\ server'[t] = "refused"
      /\ trouble' = trouble + 1
      /\ token' = token /\ task' = task /\ at' = at /\ round' = round /\ fits' = fits
      /\ submits' = submits /\ verdict' = verdict /\ posts' = posts /\ bound' = bound
      /\ author' = author /\ raced' = raced
  BY DEF A!ServerFails, A!Goto, A!Smooth, A!Trouble, A!Outside, A!TypeOK, A!Refuse, A!Answer
<1>2. Only(t) /\ Later
  BY BoundsType DEF A!ServerFails, A!Goto, A!Smooth, A!Trouble, A!Outside, A!TypeOK, A!Refuse,
     A!Answer, Only, Later
<1>3. TaskInv(t) /\ TaskType(t) /\ trouble \in Nat /\ MaxRound \in Nat
  BY BoundsType, TaskTyped DEF TasksInv
<1>4. TaskType(t)'
  BY <1>1, <1>3 DEF TaskType, A!Rounds
<1>5. Rows(t)'
  BY <1>1, <1>3 DEF TaskInv, TaskType, Rows, Won, A!Rounds
<1>6. Told(t)'
  BY <1>1, <1>3 DEF TaskInv, TaskType, Told, Article
<1>7. Article(t)'
  BY <1>1, <1>3 DEF TaskInv, TaskType, Article, Rows, Won, A!Rounds
<1>8. trouble' = 0 => Smoothly(t)'
  BY <1>1, <1>3 DEF TaskInv, TaskType, Smoothly, Told, Article, Rows, Won, A!Rounds
<1>9. Fulfils(t)
  BY <1>1, <1>3 DEF TaskInv, TaskType, Fulfils, Accepted, Told, Article, Rows, Won, A!Rounds
<1>10. Still(t)
  BY <1>1 DEF A!ServerFails, A!Goto, A!Smooth, A!Trouble, A!Outside, A!TypeOK, A!Refuse,
     A!Answer, Still
<1> QED
  BY <1>2, <1>4, <1>5, <1>6, <1>7, <1>8, <1>9, <1>10 DEF TaskInv, Kept

\* It looks for the author.
LEMMA FindAuthorKept ==
  ASSUME A!TypeOK, TasksInv, NEW t \in Tasks, A!FindAuthor(t),
         UNCHANGED <<token, question, task, at, round, fits, submits, verdict, bound, agents>>
  PROVE  Kept(t) /\ Still(t)
<1>1. /\ server[t] = "author" /\ server'[t] \in {"draft", "enlist"} /\ trouble' = trouble
      /\ token' = token /\ task' = task /\ at' = at /\ round' = round /\ fits' = fits
      /\ submits' = submits /\ verdict' = verdict /\ posts' = posts /\ bound' = bound
      /\ author' = author /\ raced' = raced
  BY DEF A!FindAuthor, A!Goto, A!Smooth, A!Trouble, A!Outside, A!TypeOK, A!Answer
<1>2. Only(t) /\ Later
  BY BoundsType DEF A!FindAuthor, A!Goto, A!Smooth, A!Trouble, A!Outside, A!TypeOK, A!Answer,
     Only, Later
<1>3. TaskInv(t) /\ TaskType(t) /\ trouble \in Nat /\ MaxRound \in Nat
  BY BoundsType, TaskTyped DEF TasksInv
<1>4. TaskType(t)'
  BY <1>1, <1>3 DEF TaskType, A!Rounds
<1>5. Rows(t)'
  BY <1>1, <1>3 DEF TaskInv, TaskType, Rows, Won, A!Rounds
<1>6. Told(t)'
  BY <1>1, <1>3 DEF TaskInv, TaskType, Told, Article
<1>7. Article(t)'
  BY <1>1, <1>3 DEF TaskInv, TaskType, Article, Rows, Won, A!Rounds
<1>8. trouble' = 0 => Smoothly(t)'
  BY <1>1, <1>3 DEF TaskInv, TaskType, Smoothly, Told, Article, Rows, Won, A!Rounds
<1>9. Fulfils(t)
  BY <1>1, <1>3 DEF TaskInv, TaskType, Fulfils, Accepted, Told, Article, Rows, Won, A!Rounds
<1>10. Still(t)
  BY <1>1 DEF A!FindAuthor, A!Goto, A!Smooth, A!Trouble, A!Outside, A!TypeOK, A!Answer, Still
<1> QED
  BY <1>2, <1>4, <1>5, <1>6, <1>7, <1>8, <1>9, <1>10 DEF TaskInv, Kept

\* It makes the author, unless another request has.
LEMMA CreateAuthorKept ==
  ASSUME A!TypeOK, TasksInv, NEW t \in Tasks, A!CreateAuthor(t),
         UNCHANGED <<token, question, task, at, round, fits, submits, verdict, bound, agents>>
  PROVE  Kept(t) /\ Still(t)
<1>1. /\ server[t] = "enlist" /\ trouble' = trouble
      /\ author' /\ (raced => raced') /\ (author => raced')
      /\ server'[t] = IF author THEN "refused" ELSE "draft"
      /\ token' = token /\ task' = task /\ at' = at /\ round' = round /\ fits' = fits
      /\ submits' = submits /\ verdict' = verdict /\ posts' = posts /\ bound' = bound
  BY DEF A!CreateAuthor, A!Goto, A!Smooth, A!Trouble, A!Outside, A!TypeOK, A!Answer
<1>2. Only(t) /\ Later
  BY BoundsType DEF A!CreateAuthor, A!Goto, A!Smooth, A!Trouble, A!Outside, A!TypeOK, A!Answer,
     Only, Later
<1>3. TaskInv(t) /\ TaskType(t) /\ trouble \in Nat /\ MaxRound \in Nat
  BY BoundsType, TaskTyped DEF TasksInv
<1>4. TaskType(t)'
  BY <1>1, <1>3 DEF TaskType, A!Rounds
<1>5. Rows(t)'
  BY <1>1, <1>3 DEF TaskInv, TaskType, Rows, Won, A!Rounds
<1>6. Told(t)'
  BY <1>1, <1>3 DEF TaskInv, TaskType, Told, Article
<1>7. Article(t)'
  BY <1>1, <1>3 DEF TaskInv, TaskType, Article, Rows, Won, A!Rounds
<1>8. trouble' = 0 => Smoothly(t)'
  BY <1>1, <1>3 DEF TaskInv, TaskType, Smoothly, Told, Article, Rows, Won, A!Rounds
<1>9. Fulfils(t)
  BY <1>1, <1>3 DEF TaskInv, TaskType, Fulfils, Accepted, Told, Article, Rows, Won, A!Rounds
<1>10. Still(t)
  BY <1>1 DEF A!CreateAuthor, A!Goto, A!Smooth, A!Trouble, A!Outside, A!TypeOK, A!Answer, Still
<1> QED
  BY <1>2, <1>4, <1>5, <1>6, <1>7, <1>8, <1>9, <1>10 DEF TaskInv, Kept

\* It drafts the article.
LEMMA CreateDraftKept ==
  ASSUME A!TypeOK, TasksInv, NEW t \in Tasks, A!CreateDraft(t),
         UNCHANGED <<token, question, task, at, round, fits, submits, verdict, bound, agents>>
  PROVE  Kept(t) /\ Still(t)
<1>1. /\ server[t] = "draft" /\ trouble' = trouble
      /\ posts'[t] = [state |-> "draft", round |-> round[t]]
      /\ server'[t] = IF token THEN "publish" ELSE "ok"
      /\ token' = token /\ task' = task /\ at' = at /\ round' = round /\ fits' = fits
      /\ submits' = submits /\ verdict' = verdict /\ bound' = bound /\ author' = author
      /\ raced' = raced
  BY DEF A!CreateDraft, A!Goto, A!Smooth, A!Trouble, A!Outside, A!TypeOK, A!Answer
<1>2. Only(t) /\ Later
  BY BoundsType DEF A!CreateDraft, A!Goto, A!Smooth, A!Trouble, A!Outside, A!TypeOK, A!Answer,
     Only, Later
<1>3. TaskInv(t) /\ TaskType(t) /\ trouble \in Nat /\ MaxRound \in Nat
  BY BoundsType, TaskTyped DEF TasksInv
<1>4. TaskType(t)'
  BY <1>1, <1>3 DEF TaskType, A!Rounds
<1>5. Rows(t)'
  BY <1>1, <1>3 DEF TaskInv, TaskType, Rows, Won, A!Rounds
<1>6. Told(t)'
  BY <1>1, <1>3 DEF TaskInv, TaskType, Told, Article
<1>7. Article(t)'
  BY <1>1, <1>3 DEF TaskInv, TaskType, Article, Rows, Won, A!Rounds
<1>8. trouble' = 0 => Smoothly(t)'
  BY <1>1, <1>3 DEF TaskInv, TaskType, Smoothly, Told, Article, Rows, Won, A!Rounds
<1>9. Fulfils(t)
  BY <1>1, <1>3 DEF TaskInv, TaskType, Fulfils, Accepted, Told, Article, Rows, Won, A!Rounds
<1>10. Still(t)
  BY <1>1 DEF A!CreateDraft, A!Goto, A!Smooth, A!Trouble, A!Outside, A!TypeOK, A!Answer, Still
<1> QED
  BY <1>2, <1>4, <1>5, <1>6, <1>7, <1>8, <1>9, <1>10 DEF TaskInv, Kept

\* And publishes it.
LEMMA PublishDraftKept ==
  ASSUME A!TypeOK, TasksInv, NEW t \in Tasks, A!PublishDraft(t),
         UNCHANGED <<token, question, task, at, round, fits, submits, verdict, bound, agents>>
  PROVE  Kept(t) /\ Still(t)
<1>1. /\ server[t] = "publish" /\ server'[t] = "ok" /\ trouble' = trouble
      /\ posts'[t] = [posts[t] EXCEPT !.state = "published"]
      /\ token' = token /\ task' = task /\ at' = at /\ round' = round /\ fits' = fits
      /\ submits' = submits /\ verdict' = verdict /\ bound' = bound /\ author' = author
      /\ raced' = raced
  BY DEF A!PublishDraft, A!Goto, A!Smooth, A!Trouble, A!Outside, A!TypeOK, A!Answer
<1>2. Only(t) /\ Later
  BY BoundsType DEF A!PublishDraft, A!Goto, A!Smooth, A!Trouble, A!Outside, A!TypeOK, A!Answer,
     Only, Later
<1>3. TaskInv(t) /\ TaskType(t) /\ trouble \in Nat /\ MaxRound \in Nat
  BY BoundsType, TaskTyped DEF TasksInv
<1>4. TaskType(t)'
  BY <1>1, <1>3 DEF TaskType, A!Rounds
<1>5. Rows(t)'
  BY <1>1, <1>3 DEF TaskInv, TaskType, Rows, Won, A!Rounds
<1>6. Told(t)'
  BY <1>1, <1>3 DEF TaskInv, TaskType, Told, Article
<1>7. Article(t)'
  BY <1>1, <1>3 DEF TaskInv, TaskType, Article, Rows, Won, A!Rounds
<1>8. trouble' = 0 => Smoothly(t)'
  BY <1>1, <1>3 DEF TaskInv, TaskType, Smoothly, Told, Article, Rows, Won, A!Rounds
<1>9. Fulfils(t)
  BY <1>1, <1>3 DEF TaskInv, TaskType, Fulfils, Accepted, Told, Article, Rows, Won, A!Rounds
<1>10. Still(t)
  BY <1>1 DEF A!PublishDraft, A!Goto, A!Smooth, A!Trouble, A!Outside, A!TypeOK, A!Answer, Still
<1> QED
  BY <1>2, <1>4, <1>5, <1>6, <1>7, <1>8, <1>9, <1>10 DEF TaskInv, Kept

\* Others judge the row, or take it back.
LEMMA JudgedElsewhereKept ==
  ASSUME A!TypeOK, TasksInv, NEW t \in Tasks, A!JudgedElsewhere(t)
  PROVE  Kept(t) /\ Still(t)
<1>1. /\ at[t] \in {"judge", "judging", "read"} /\ trouble' = trouble + 1
      /\ submits[t][round[t]] \in {"Pending", "Running"}
      /\ \E s \in {"Pending", "Running"} \cup A!Verdicts : submits'[t] = [submits[t] EXCEPT ![round[t]] = s]
      /\ token' = token /\ task' = task /\ at' = at /\ round' = round /\ fits' = fits
      /\ verdict' = verdict /\ server' = server /\ posts' = posts /\ bound' = bound
      /\ author' = author /\ raced' = raced
  <2>1. \E s \in {"Pending", "Running"} \cup A!Verdicts : A!SetRow(t, s)
    <3>1. CASE A!SetRow(t, "Running") \/ A!SetRow(t, "Pending")
      BY <3>1
    <3>2. CASE \E s \in A!Verdicts : A!SetRow(t, s)
      BY <3>2
    <3> QED
      BY <3>1, <3>2 DEF A!JudgedElsewhere, A!Finishes
  <2>2. PICK s \in {"Pending", "Running"} \cup A!Verdicts : A!SetRow(t, s)
    BY <2>1
  <2>3. submits'[t] = [submits[t] EXCEPT ![round[t]] = s]
    BY <2>2 DEF A!SetRow, A!TypeOK
  <2>4. at[t] \in {"judge", "judging", "read"} /\ submits[t][round[t]] \in {"Pending", "Running"}
    BY DEF A!JudgedElsewhere, A!Finishes, A!Row
  <2> QED
    BY <2>2, <2>3, <2>4 DEF A!JudgedElsewhere, A!Trouble, A!Outside
<1>2. Only(t) /\ Later
  BY BoundsType DEF A!JudgedElsewhere, A!Goto, A!Smooth, A!Trouble, A!Outside, A!TypeOK,
     A!SetRow, A!Row, A!Finishes, A!Outside, Only, Later
<1>3. TaskInv(t) /\ TaskType(t) /\ trouble \in Nat /\ MaxRound \in Nat
  BY BoundsType, TaskTyped DEF TasksInv
<1>4. TaskType(t)'
  <2>1. PICK s \in {"Pending", "Running"} \cup A!Verdicts : submits'[t] = [submits[t] EXCEPT ![round[t]] = s]
    BY <1>1
  <2>2. submits'[t] \in [A!Rounds -> {"none", "Pending", "Running"} \cup A!Verdicts]
    BY <1>3, <2>1 DEF TaskType
  <2> QED
    BY <1>1, <1>3, <2>2 DEF TaskType
<1>5. Rows(t)'
  BY <1>1, <1>3 DEF TaskInv, TaskType, Rows, Won, A!Rounds
<1>6. Told(t)'
  BY <1>1, <1>3 DEF TaskInv, TaskType, Told, Article
<1>7. Article(t)'
  BY <1>1, <1>3 DEF TaskInv, TaskType, Article, Rows, Won, A!Rounds
<1>8. trouble' = 0 => Smoothly(t)'
  BY <1>1, <1>3 DEF TaskInv, TaskType, Smoothly, Told, Article, Rows, Won, A!Rounds
<1>9. Fulfils(t)
  BY <1>1, <1>3 DEF TaskInv, TaskType, Fulfils, Accepted, Told, Article, Rows, Won, A!Rounds
<1>10. Still(t)
  BY <1>1 DEF A!JudgedElsewhere, A!Goto, A!Smooth, A!Trouble, A!Outside, A!TypeOK, A!SetRow,
     A!Row, A!Finishes, A!Outside, Still
<1> QED
  BY <1>2, <1>4, <1>5, <1>6, <1>7, <1>8, <1>9, <1>10 DEF TaskInv, Kept

----------------------------------------------------------------------------
(* Accounts of the agent.                                                   *)

\* Counting tasks is counting, in either module.
LEMMA Counting == \A S : A!Cardinality(S) = Cardinality(S)
BY DEF A!Cardinality, Cardinality

\* Tasks that may still make an account, and how many there are.
LEMMA BeforeIsFinite ==
  /\ IsFiniteSet({t \in Tasks : at[t] \in Before})
  /\ Cardinality({t \in Tasks : at[t] \in Before}) \in Nat
  /\ IsFiniteSet({t \in Tasks : at'[t] \in Before})
  /\ Cardinality({t \in Tasks : at'[t] \in Before}) \in Nat
  /\ Cardinality(Tasks) \in Nat
BY TasksAssumption, FS_Subset, FS_CardinalityType

\* A step that makes no account leaves them in order.
LEMMA AccountsStand ==
  ASSUME A!TypeOK, TasksInv, agents' = agents, raced' = raced \/ raced' = TRUE,
         \A u \in Tasks : /\ at'[u] \in Before => at[u] \in Before
                          /\ at'[u] = "enlist" => at[u] = "enlist" \/ agents = 0
  PROVE  OneAccount'
<1> DEFINE B == {t \in Tasks : at[t] \in Before}
           C == {t \in Tasks : at'[t] \in Before}
<1>1. Cardinality(C) <= Cardinality(B)
  <2>1. C \subseteq B
    OBVIOUS
  <2> QED
    BY <2>1, BeforeIsFinite, FS_Subset
<1>2. agents \in Nat /\ Cardinality(B) \in Nat /\ Cardinality(C) \in Nat /\ Cardinality(Tasks) \in Nat
  BY BeforeIsFinite, Counting DEF A!TypeOK
<1>3. agents + Cardinality(B) <= Cardinality(Tasks)
  BY DEF TasksInv, OneAccount
<1>4. agents' + Cardinality(C) <= Cardinality(Tasks)
  <2> HIDE DEF B, C
  <2> QED
    BY <1>1, <1>2, <1>3
<1>5. ~raced' => agents' <= 1 /\ (agents' > 0 => \A t \in Tasks : at'[t] # "enlist")
  <2>1. ~raced' => ~raced
    OBVIOUS
  <2>2. ~raced => agents <= 1 /\ (agents > 0 => \A t \in Tasks : at[t] # "enlist")
    BY DEF TasksInv, OneAccount
  <2> QED
    BY <2>1, <2>2, <1>2
<1> QED
  BY <1>4, <1>5 DEF OneAccount

\* Nor does one that makes the account, unless two make it at once.
LEMMA AccountMade ==
  ASSUME A!TypeOK, TasksInv, NEW t \in Tasks, A!CreateOJAgentUser(t)
  PROVE  OneAccount' /\ agents' \in 0..A!Cardinality(Tasks)
<1> DEFINE B == {u \in Tasks : at[u] \in Before}
           C == {u \in Tasks : at'[u] \in Before}
<1>1. /\ at[t] = "enlist" /\ at'[t] \in {"llm", "fail"} /\ \A u \in Tasks \ {t} : at'[u] = at[u]
      /\ agents' = agents + 1 \/ agents' = agents
  BY DEF A!CreateOJAgentUser, A!Goto, A!TypeOK
<1>2. agents \in Nat /\ Cardinality(B) \in Nat /\ Cardinality(C) \in Nat /\ Cardinality(Tasks) \in Nat
  BY BeforeIsFinite, Counting DEF A!TypeOK
<1>3. agents + Cardinality(B) <= Cardinality(Tasks)
  BY DEF TasksInv, OneAccount
<1>4. Cardinality(C) = Cardinality(B) - 1
  <2>1. C = B \ {t} /\ t \in B
    BY <1>1
  <2> QED
    BY <2>1, BeforeIsFinite, FS_RemoveElement
<1>5. agents' + Cardinality(C) <= Cardinality(Tasks) /\ agents' \in 0..Cardinality(Tasks)
  <2> HIDE DEF B, C
  <2> QED
    BY <1>1, <1>2, <1>3, <1>4
<1>6. ~raced' => ~raced /\ \A u \in Tasks \ {t} : at[u] # "enlist"
  BY DEF A!CreateOJAgentUser
<1>7. ~raced => agents = 0
  BY <1>1, <1>2 DEF TasksInv, OneAccount
<1>8. ~raced' => agents' <= 1 /\ \A u \in Tasks : at'[u] # "enlist"
  BY <1>1, <1>6, <1>7
<1> QED
  BY <1>5, <1>8, Counting DEF OneAccount

----------------------------------------------------------------------------
(* Steps of all tasks.                                                      *)

\* The question is deleted.
LEMMA DeleteQuestionKept ==
  ASSUME A!TypeOK, TasksInv, A!DeleteQuestion
  PROVE  A!TypeOK' /\ TasksInv' /\ UNCHANGED A!Promise!vars
<1>1. /\ Later /\ \A t \in Tasks : Same(t)
      /\ agents' = agents /\ at' = at /\ raced' = raced
  BY BoundsType DEF A!DeleteQuestion, A!Smooth, Later, Same
<1>2. A!TypeOK'
  BY <1>1 DEF A!DeleteQuestion, A!Smooth, A!TypeOK
<1>3. \A t \in Tasks : TaskInv(t)'
  BY <1>1, Bystander
<1>4. OneAccount'
  BY <1>1 DEF TasksInv, OneAccount
<1> QED
  BY <1>2, <1>3, <1>4 DEF TasksInv, A!DeleteQuestion, A!Promise!vars

\* The process ends: no task at work goes on, and no article is lost.
LEMMA CrashKept ==
  ASSUME A!TypeOK, TasksInv, A!Crash
  PROVE  A!TypeOK' /\ TasksInv' /\ UNCHANGED A!Promise!vars
<1>1. /\ trouble' = trouble + 1 /\ trouble' \in 0..MaxTrouble /\ trouble \in Nat
      /\ token' = token /\ task' = task /\ round' = round /\ submits' = submits /\ posts' = posts
      /\ agents' = agents /\ raced' = raced
      /\ \A t \in Tasks : /\ at'[t] = IF at[t] \in {"none", "end"} THEN at[t] ELSE "dead"
                          /\ server'[t] = "idle"
  BY BoundsType DEF A!Crash, A!Trouble
<1>2. A!TypeOK'
  <2>1. /\ at' \in [Tasks -> A!Places]
        /\ server' \in [Tasks -> {"idle", "author", "enlist", "draft", "publish", "ok", "refused"}]
    BY DEF A!Crash, A!TypeOK
  <2> QED
    BY <1>1, <2>1 DEF A!Crash, A!TypeOK
<1>3. ASSUME NEW t \in Tasks
      PROVE  TaskInv(t)'
  <2>1. TaskInv(t) /\ trouble' # 0
    BY <1>1 DEF TasksInv
  <2>2. Rows(t)'
    BY <1>1, <2>1 DEF TaskInv, Rows, Won
  <2>3. Told(t)'
    BY <1>1, <2>1 DEF TaskInv, Told
  <2>4. Article(t)'
    BY <1>1, <2>1 DEF TaskInv, Article, Won
  <2> QED
    BY <2>1, <2>2, <2>3, <2>4 DEF TaskInv
<1>4. OneAccount'
  <2>1. \A u \in Tasks : /\ at'[u] \in Before => at[u] \in Before
                         /\ at'[u] = "enlist" => at[u] = "enlist" \/ agents = 0
    BY <1>1
  <2> QED
    BY <1>1, <2>1, AccountsStand
<1> QED
  BY <1>2, <1>3, <1>4 DEF TasksInv, A!Crash, A!Promise!vars

\* A step of one task keeps what is true of every task, and does what is promised.
LEMMA KeptByOne ==
  ASSUME A!TypeOK, TasksInv, NEW t \in Tasks, Kept(t), OneAccount', agents' \in 0..A!Cardinality(Tasks)
  PROVE  A!TypeOK' /\ TasksInv' /\ (A!Promise!Next \/ UNCHANGED A!Promise!vars)
<1>1. A!TypeOK'
  BY OnlyTypes DEF Kept
<1>2. \A u \in Tasks : TaskInv(u)'
  BY OnlyOthers DEF Kept
<1>3. A!Promise!Next \/ UNCHANGED A!Promise!vars
  BY FulfilledStep DEF Kept
<1> QED
  BY <1>1, <1>2, <1>3 DEF TasksInv

\* Most steps make no account.
LEMMA KeptAlone ==
  ASSUME A!TypeOK, TasksInv, NEW t \in Tasks, Kept(t), Still(t)
  PROVE  A!TypeOK' /\ TasksInv' /\ (A!Promise!Next \/ UNCHANGED A!Promise!vars)
<1>1. \A u \in Tasks : /\ at'[u] \in Before => at[u] \in Before
                       /\ at'[u] = "enlist" => at[u] = "enlist" \/ agents = 0
  <2>1. \A u \in Tasks \ {t} : at'[u] = at[u]
    BY DEF Kept, Only, A!TypeOK
  <2> QED
    BY <2>1 DEF Still
<1>2. OneAccount'
  <2>1. raced' = raced \/ raced' = TRUE
    BY DEF Kept, Later
  <2> QED
    BY <1>1, <2>1, AccountsStand DEF Still
<1>3. agents' \in 0..A!Cardinality(Tasks)
  BY DEF Still, A!TypeOK
<1> QED
  BY <1>2, <1>3, KeptByOne

\* Each step keeps types and invariant, and does what is promised.
LEMMA TasksStep ==
  ASSUME A!TypeOK, TasksInv, A!Next
  PROVE  A!TypeOK' /\ TasksInv' /\ (A!Promise!Next \/ UNCHANGED A!Promise!vars)
<1>1. ASSUME NEW t \in Tasks, A!AgentGenerateQuestionSolution(t) \/ A!GiveUp(t) \/ A!JudgedElsewhere(t)
      PROVE  Kept(t) /\ Still(t)
  BY <1>1, AgentGenerateQuestionSolutionKept, GiveUpKept, JudgedElsewhereKept
<1>2. ASSUME NEW t \in Tasks, A!TaskStep(t), ~A!CreateOJAgentUser(t)
      PROVE  Kept(t) /\ Still(t)
  BY <1>2, StartKept, LoadQuestionKept, EnsureOJAgentUserKept, CallAgentLLMKept, SubmitKept,
     JudgeClaimKept, JudgeFinishKept, ReadVerdictKept, RecordKept, LoginKept, RegisterKept,
     ReloginKept,
     SendKept, ReceiveKept, BindKept, FinishKept, FailAgentTaskKept DEF A!TaskStep
<1>3. ASSUME NEW t \in Tasks, A!ServerStep(t)
      PROVE  Kept(t) /\ Still(t)
  BY <1>3, FindAuthorKept, CreateAuthorKept, CreateDraftKept, PublishDraftKept DEF A!ServerStep
<1>4. ASSUME NEW t \in Tasks, A!ServerFails(t)
      PROVE  Kept(t) /\ Still(t)
  BY <1>4, ServerFailsKept
<1>5. ASSUME NEW t \in Tasks, A!CreateOJAgentUser(t)
      PROVE  A!TypeOK' /\ TasksInv' /\ (A!Promise!Next \/ UNCHANGED A!Promise!vars)
  BY <1>5, CreateOJAgentUserKept, AccountMade, KeptByOne
<1>6. CASE A!DeleteQuestion \/ A!Crash
  BY <1>6, DeleteQuestionKept, CrashKept
<1>7. CASE \E t \in Tasks : \/ A!AgentGenerateQuestionSolution(t) \/ A!TaskStep(t) \/ A!GiveUp(t)
                            \/ A!ServerStep(t) \/ A!ServerFails(t) \/ A!JudgedElsewhere(t)
  BY <1>1, <1>2, <1>3, <1>4, <1>5, <1>7, KeptAlone
<1> QED
  BY <1>6, <1>7 DEF A!Next

\* Tasks begin with nothing.
LEMMA TasksStart ==
  ASSUME A!Init
  PROVE  A!TypeOK /\ TasksInv
<1>1. A!TypeOK
  <2>1. Cardinality(Tasks) \in Nat
    BY TasksAssumption, FS_CardinalityType
  <2>2. agents \in 0..A!Cardinality(Tasks) /\ trouble \in 0..MaxTrouble
    BY <2>1, TasksAssumption, Counting DEF A!Init
  <2>3. {token, question, author, raced} \subseteq BOOLEAN
    BY DEF A!Init
  <2>4. /\ task \in [Tasks -> [status : {"none", "pending", "running", "success", "failed"},
                              answer : 0..MaxRound, post : BOOLEAN]]
        /\ fits \in [Tasks -> BOOLEAN] /\ verdict \in [Tasks -> BOOLEAN]
        /\ at \in [Tasks -> A!Places] /\ round \in [Tasks -> 0..MaxRound]
    BY TasksAssumption DEF A!Init
  <2>5. /\ submits \in [Tasks -> [A!Rounds -> {"none", "Pending", "Running"} \cup A!Verdicts]]
        /\ server \in [Tasks -> {"idle", "author", "enlist", "draft", "publish", "ok", "refused"}]
        /\ posts \in [Tasks -> [state : {"none", "draft", "published"}, round : 0..MaxRound]]
        /\ bound \in [Tasks -> 0..1]
    BY TasksAssumption DEF A!Init
  <2> QED
    BY <2>2, <2>3, <2>4, <2>5 DEF A!TypeOK
<1>2. \A t \in Tasks : TaskInv(t)
  BY DEF A!Init, TaskInv, Rows, Told, Article, Smoothly, Won, A!Rounds
<1>3. OneAccount
  <2>1. {t \in Tasks : at[t] \in Before} = Tasks
    BY DEF A!Init
  <2>2. Cardinality(Tasks) \in Nat
    BY TasksAssumption, FS_CardinalityType
  <2>3. agents = 0 /\ agents + Cardinality(Tasks) <= Cardinality(Tasks)
    BY <2>2 DEF A!Init
  <2>4. agents <= 1 /\ ~(agents > 0)
    BY <2>3
  <2> QED
    BY <2>1, <2>3, <2>4 DEF OneAccount
<1> QED
  BY <1>1, <1>2, <1>3 DEF TasksInv

\* What stands still stays true.
LEMMA TasksIdle ==
  ASSUME A!TypeOK, TasksInv, UNCHANGED aVars
  PROVE  A!TypeOK' /\ TasksInv' /\ UNCHANGED A!Promise!vars
<1>1. UNCHANGED <<token, question, task, at, round, fits, submits, verdict, server, posts, bound, agents,
                  author, raced, trouble>>
  BY DEF aVars
<1>2. A!TypeOK'
  BY <1>1 DEF A!TypeOK
<1>3. ASSUME NEW t \in Tasks PROVE TaskInv(t)'
  <2>1. TaskInv(t)
    BY DEF TasksInv
  <2>2. Rows(t)' /\ Told(t)'
    BY <1>1, <2>1 DEF TaskInv, Rows, Told, Won
  <2>3. Article(t)'
    BY <1>1, <2>1 DEF TaskInv, Article, Won
  <2>4. trouble' = 0 => Smoothly(t)'
    BY <1>1, <2>1 DEF TaskInv, Smoothly, Won
  <2> QED
    BY <2>2, <2>3, <2>4 DEF TaskInv
<1>4. OneAccount'
  BY <1>1 DEF TasksInv, OneAccount
<1> QED
  BY <1>1, <1>2, <1>3, <1>4 DEF TasksInv, A!Promise!vars

\* The invariant is more than enough.
LEMMA TasksInvGives ==
  ASSUME A!TypeOK, TasksInv
  PROVE  TaskSafety
<1>1. \A t \in Tasks : TaskInv(t) /\ TaskType(t) /\ trouble \in Nat
  BY TaskTyped, BoundsType DEF TasksInv
<1>2. A!ArticleWasAccepted
  BY <1>1 DEF TaskInv, Article, Won, A!ArticleWasAccepted
<1>3. A!SuccessIsWhole
  BY <1>1 DEF TaskInv, Told, Smoothly, A!SuccessIsWhole
<1>4. A!FailureLeavesNothing
  BY <1>1 DEF TaskInv, Smoothly, A!FailureLeavesNothing
<1>5. A!AcceptedIsPublished
  BY <1>1 DEF TaskInv, Smoothly, A!AcceptedIsPublished, A!Rounds
<1>6. A!OneAgentAccount
  BY DEF TasksInv, OneAccount, A!OneAgentAccount
<1>7. A!EndIsTold
  BY <1>1 DEF TaskInv, Smoothly, A!EndIsTold
<1> QED
  BY <1>2, <1>3, <1>4, <1>5, <1>6, <1>7 DEF TaskSafety, A!TaskSafety

----------------------------------------------------------------------------
(* The theorems.                                                            *)

\* For any number of tasks, rounds and troubles: tasks are well typed; an article
\* comes from accepted code, a task that ended well has it published, one that failed without trouble
\* left none, and the agent has one account unless two tasks made it at once
\* (generateAgentSolution and what it calls).
THEOREM TasksAreSafe == AllSpec => []TaskSafety
<1>1. AllInit => A!TypeOK /\ TasksInv
  BY TasksStart DEF AllInit
<1>2. A!TypeOK /\ TasksInv /\ [AllNext]_<<part, lifecycleVars, aVars>> => (A!TypeOK /\ TasksInv)'
  BY TasksStep, TasksIdle DEF AllNext
<1>3. A!TypeOK /\ TasksInv => TaskSafety
  BY TasksInvGives
<1> QED
  BY <1>1, <1>2, <1>3, PTL DEF AllSpec

\* Tasks, with their rounds, judges, requests and troubles, do what TaskLifecycle
\* promises an administrator.
THEOREM TasksKeepTheirPromise == AllSpec => ImplementsTask
<1>1. AllInit => A!TypeOK /\ TasksInv /\ A!Promise!Init
  <2>1. A!Init => A!Promise!Init
    BY DEF A!Init, A!Promise!Init
  <2> QED
    BY <2>1, TasksStart DEF AllInit
<1>2. A!TypeOK /\ TasksInv /\ [AllNext]_<<part, lifecycleVars, aVars>>
        => (A!TypeOK /\ TasksInv)' /\ [A!Promise!Next]_A!Promise!vars
  BY TasksStep, TasksIdle DEF AllNext
<1> QED
  BY <1>1, <1>2, PTL DEF AllSpec, ImplementsTask, A!ImplementsTask, A!Promise!Spec
=============================================================================
