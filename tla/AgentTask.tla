------------------------------- MODULE AgentTask -------------------------------
(****************************************************************************)
(* Solutions written by a language model: one goroutine per task asks the   *)
(* model, submits and judges its code, tries again with the verdict, and    *)
(* has the blog publish the article of accepted code. The blog is served by *)
(* the same process over HTTP; with a token one internal request finds or   *)
(* makes the author, drafts and publishes, without one the agent logs in    *)
(* and does so step by step. A request goes on when its client has given up.*)
(*                                                                          *)
(* A row of question_submit may be judged by others too: the ticker queues  *)
(* what is old. That, failing statements, requests given up and crashes use *)
(* MaxTrouble. The model failing, bad code and a deleted question are free. *)
(****************************************************************************)
EXTENDS Naturals, FiniteSets, TLC

CONSTANTS Tasks, MaxRound, MaxTrouble

ASSUME TaskAssumption == IsFiniteSet(Tasks) /\ MaxRound \in Nat \ {0} /\ MaxTrouble \in Nat

VARIABLES
  token,      \* a token for internal requests is configured
  question,   \* the question is there
  task,       \* agent_solution_task: status, answer (the round of its code), post
  at,         \* where the goroutine of a task is
  round,
  fits,       \* title and summary of its last code are short enough for the blog
  submits,    \* question_submit.status by task and round
  verdict,    \* what the goroutine read of it: accepted
  server,     \* what the blog is doing for a task
  posts,      \* the article of a task: its state and the round it came from
  bound,      \* rows of question_solution_post
  agents,     \* users of the judge with the agent's account
  author,     \* the blog knows the agent
  raced,      \* history: two tasks made an account at once
  trouble

vars == <<token, question, task, at, round, fits, submits, verdict, server, posts, bound,
          agents, author, raced, trouble>>

Rounds    == 1..MaxRound
Verdicts  == {"Accepted", "Rejected", "SystemError"}
Publishing == {"internal", "create", "publish"}
Places    == {"none", "start", "question", "user", "enlist", "llm", "submit", "judge", "judging",
              "read", "record", "login", "register", "relogin", "bind", "finish", "fail",
              "end", "dead"} \cup Publishing

TypeOK ==
  /\ {token, question, author, raced} \subseteq BOOLEAN
  /\ task \in [Tasks -> [status : {"none", "pending", "running", "success", "failed"},
                         answer : 0..MaxRound, post : BOOLEAN]]
  /\ at \in [Tasks -> Places]
  /\ round \in [Tasks -> 0..MaxRound]
  /\ fits \in [Tasks -> BOOLEAN]
  /\ submits \in [Tasks -> [Rounds -> {"none", "Pending", "Running"} \cup Verdicts]]
  /\ verdict \in [Tasks -> BOOLEAN]
  /\ server \in [Tasks -> {"idle", "author", "enlist", "draft", "publish", "ok", "refused"}]
  /\ posts \in [Tasks -> [state : {"none", "draft", "published"}, round : 0..MaxRound]]
  /\ bound \in [Tasks -> 0..1]
  /\ agents \in 0..Cardinality(Tasks)
  /\ trouble \in 0..MaxTrouble

Init ==
  /\ token \in BOOLEAN
  /\ question = TRUE
  /\ task = [t \in Tasks |-> [status |-> "none", answer |-> 0, post |-> FALSE]]
  /\ at = [t \in Tasks |-> "none"]
  /\ round = [t \in Tasks |-> 0]
  /\ fits = [t \in Tasks |-> FALSE]
  /\ submits = [t \in Tasks |-> [k \in Rounds |-> "none"]]
  /\ verdict = [t \in Tasks |-> FALSE]
  /\ server = [t \in Tasks |-> "idle"]
  /\ posts = [t \in Tasks |-> [state |-> "none", round |-> 0]]
  /\ bound = [t \in Tasks |-> 0]
  /\ agents = 0
  /\ author = FALSE
  /\ raced = FALSE
  /\ trouble = 0

----------------------------------------------------------------------------
Goto(t, place) == at' = [at EXCEPT ![t] = place]

Trouble == trouble < MaxTrouble /\ trouble' = trouble + 1
Smooth  == UNCHANGED trouble

\* A row takes the goroutine's place in the round.
Row(t) == submits[t][round[t]]
SetRow(t, s) == submits' = [submits EXCEPT ![t][round[t]] = s]

\* The variables a step of the goroutine leaves alone but for its place, its
\* task's row, its round and its submissions.
Outside == UNCHANGED <<token, question, server, posts, bound, agents, author, raced>>

\* Status and results are written without looking at the error.
Updates(t, row) ==
  \/ task' = [task EXCEPT ![t] = row] /\ Smooth
  \/ Trouble /\ UNCHANGED task

----------------------------------------------------------------------------
(* The task's goroutine.                                                    *)

AgentGenerateQuestionSolution(t) ==
  /\ at[t] = "none" /\ question
  /\ task' = [task EXCEPT ![t].status = "pending"]
  /\ Goto(t, "start")
  /\ Outside /\ Smooth /\ UNCHANGED <<round, fits, submits, verdict>>

\* A task that cannot be read stays pending.
Start(t) ==
  /\ at[t] = "start"
  /\ \/ Updates(t, [task[t] EXCEPT !.status = "running"]) /\ Goto(t, "question")
     \/ Trouble /\ Goto(t, "end") /\ UNCHANGED task
  /\ Outside /\ UNCHANGED <<round, fits, submits, verdict>>

\* Slip: without a question there is nothing to do.
ReturnWithoutQuestion(t) ==
  /\ at[t] = "question"
  /\ \/ question /\ Goto(t, "user") /\ Smooth
     \/ ~question /\ Goto(t, "end") /\ Smooth
     \/ Trouble /\ Goto(t, "end")
  /\ Outside /\ UNCHANGED <<task, round, fits, submits, verdict>>

LoadQuestion(t) ==
  /\ at[t] = "question"
  /\ \/ question /\ Goto(t, "user") /\ Smooth
     \/ ~question /\ Goto(t, "fail") /\ Smooth
     \/ Trouble /\ Goto(t, "fail")
  /\ Outside /\ UNCHANGED <<task, round, fits, submits, verdict>>

\* Slip: the account is made whenever a task starts.
EnlistOJAgentUser(t) ==
  /\ at[t] = "user"
  /\ \/ Goto(t, "enlist") /\ Smooth
     \/ Trouble /\ Goto(t, "fail")
  /\ Outside /\ UNCHANGED <<task, round, fits, submits, verdict>>

EnsureOJAgentUser(t) ==
  /\ at[t] = "user"
  /\ \/ Goto(t, IF agents > 0 THEN "llm" ELSE "enlist") /\ Smooth
     \/ Trouble /\ Goto(t, "fail")
  /\ Outside /\ UNCHANGED <<task, round, fits, submits, verdict>>

\* No key keeps a second account of the same name out.
CreateOJAgentUser(t) ==
  /\ at[t] = "enlist"
  /\ \/ agents' = agents + 1 /\ Goto(t, "llm") /\ Smooth
     \/ Trouble /\ Goto(t, "fail") /\ UNCHANGED agents
  /\ raced' = (raced \/ \E u \in Tasks \ {t} : at[u] = "enlist")
  /\ UNCHANGED <<token, question, task, round, fits, submits, verdict, server, posts, bound, author>>

\* The reply as text: an object with or without code and a title short enough,
\* or not an object, with or without a block of Go.
Replies == [object : BOOLEAN, code : BOOLEAN, block : BOOLEAN, fits : BOOLEAN]

ParseAgentReply(text) ==
  [code |-> (text.object /\ text.code) \/ text.block,
   fits |-> text.object => text.fits]

\* Slip: one round too many.
CallOnceMore(t) ==
  /\ at[t] = "llm"
  /\ IF round[t] > MaxRound
     THEN Goto(t, "fail") /\ UNCHANGED <<round, fits>>
     ELSE \/ Goto(t, "fail") /\ UNCHANGED <<round, fits>>
          \/ \E text \in Replies :
               LET parsed == ParseAgentReply(text) IN
               /\ round' = [round EXCEPT ![t] = @ + 1]
               /\ fits' = [fits EXCEPT ![t] = IF parsed.code THEN parsed.fits ELSE @]
               /\ Goto(t, IF parsed.code THEN "submit" ELSE "llm")
  /\ Outside /\ Smooth /\ UNCHANGED <<task, submits, verdict>>

\* The next round, if there is one: the model fails, or replies with or without code.
CallAgentLLM(t) ==
  /\ at[t] = "llm"
  /\ IF round[t] = MaxRound
     THEN Goto(t, "fail") /\ UNCHANGED <<round, fits>>
     ELSE \/ Goto(t, "fail") /\ UNCHANGED <<round, fits>>
          \/ \E text \in Replies :
               LET parsed == ParseAgentReply(text) IN
               /\ round' = [round EXCEPT ![t] = @ + 1]
               /\ fits' = [fits EXCEPT ![t] = IF parsed.code THEN parsed.fits ELSE @]
               /\ Goto(t, IF parsed.code THEN "submit" ELSE "llm")
  /\ Outside /\ Smooth /\ UNCHANGED <<task, submits, verdict>>

Submit(t) ==
  /\ at[t] = "submit"
  /\ \/ SetRow(t, "Pending") /\ Goto(t, "judge") /\ Smooth
     \/ Trouble /\ Goto(t, "llm") /\ UNCHANGED submits
  /\ Outside /\ UNCHANGED <<task, round, fits, verdict>>

\* judgeAsync claims the row, if nobody else has.
JudgeClaim(t) ==
  /\ at[t] = "judge"
  /\ \/ Row(t) = "Pending" /\ SetRow(t, "Running") /\ Goto(t, "judging") /\ Smooth
     \/ Row(t) # "Pending" /\ Goto(t, "read") /\ Smooth /\ UNCHANGED submits
     \/ Trouble /\ Goto(t, "read") /\ UNCHANGED submits
  /\ Outside /\ UNCHANGED <<task, round, fits, verdict>>

\* A verdict needs a running row and, to be accepted, the question. An error of
\* judgeAsync is not looked at.
Finishes(t, s) == Row(t) = "Running" /\ (s = "Accepted" => question) /\ SetRow(t, s)

JudgeFinish(t) ==
  /\ at[t] = "judging" /\ Goto(t, "read")
  /\ \/ Smooth /\ \E s \in Verdicts : Finishes(t, s)
     \/ Smooth /\ (Row(t) # "Running" \/ ~question) /\ UNCHANGED submits
     \/ Trouble /\ UNCHANGED submits
  /\ Outside /\ UNCHANGED <<task, round, fits, verdict>>

\* Slip: a row that is not rejected is taken for accepted.
NotRejected(s) == s # "Rejected"

\* A row without a message is accepted by its status alone.
IsAccepted(s) == s = "Accepted"

ReadVerdict(t) ==
  /\ at[t] = "read"
  /\ \/ verdict' = [verdict EXCEPT ![t] = IsAccepted(Row(t))] /\ Goto(t, "record") /\ Smooth
     \/ Trouble /\ Goto(t, "llm") /\ UNCHANGED verdict
  /\ Outside /\ UNCHANGED <<task, round, fits, submits>>

Record(t) ==
  /\ at[t] = "record"
  /\ Updates(t, [task[t] EXCEPT !.answer = round[t]])
  /\ Goto(t, IF ~verdict[t] THEN "llm" ELSE IF token THEN "internal" ELSE "login")
  /\ Outside /\ UNCHANGED <<round, fits, submits, verdict>>

\* Slip: nobody registers the agent.
LoginOnly(t) ==
  /\ at[t] = "login"
  /\ \/ Goto(t, IF author THEN "create" ELSE "fail") /\ Smooth
     \/ Trouble /\ Goto(t, "fail")
  /\ Outside /\ UNCHANGED <<task, round, fits, submits, verdict>>

\* The login fails while the blog does not know the agent.
Login(t) ==
  /\ at[t] = "login"
  /\ \/ Goto(t, IF author THEN "create" ELSE "register") /\ Smooth
     \/ Trouble /\ Goto(t, "register")
  /\ Outside /\ UNCHANGED <<task, round, fits, submits, verdict>>

\* The answer is not looked at.
Register(t) ==
  /\ at[t] = "register" /\ Goto(t, "relogin")
  /\ \/ author' = TRUE /\ Smooth
     \/ author' \in {author, TRUE} /\ Trouble
  /\ UNCHANGED <<token, question, task, round, fits, submits, verdict, server, posts, bound, agents, raced>>

Relogin(t) ==
  /\ at[t] = "relogin"
  /\ \/ Goto(t, IF author THEN "create" ELSE "fail") /\ Smooth
     \/ Trouble /\ Goto(t, "fail")
  /\ Outside /\ UNCHANGED <<task, round, fits, submits, verdict>>

\* Slip: a draft may have any title.
SendAny(t) ==
  /\ at[t] \in Publishing /\ server[t] = "idle"
  /\ server' = [server EXCEPT ![t] =
       IF at[t] = "create" THEN "draft"
       ELSE IF ~fits[t] THEN "refused"
       ELSE IF at[t] = "publish" THEN "publish" ELSE "author"]
  /\ Smooth
  /\ UNCHANGED <<token, question, task, at, round, fits, submits, verdict, posts, bound, agents, author, raced>>

\* A request for the blog; a title or summary that is too long is refused.
Send(t) ==
  /\ at[t] \in Publishing /\ server[t] = "idle"
  /\ server' = [server EXCEPT ![t] =
       IF at[t] = "publish" THEN "publish"
       ELSE IF ~fits[t] THEN "refused"
       ELSE IF at[t] = "create" THEN "draft" ELSE "author"]
  /\ Smooth
  /\ UNCHANGED <<token, question, task, at, round, fits, submits, verdict, posts, bound, agents, author, raced>>

\* Slip: the draft is taken for the article.
ReceiveDraft(t) ==
  /\ at[t] \in Publishing /\ server[t] \in {"ok", "refused"}
  /\ server' = [server EXCEPT ![t] = "idle"]
  /\ Goto(t, IF server[t] = "refused" THEN "fail" ELSE "bind")
  /\ Smooth
  /\ UNCHANGED <<token, question, task, round, fits, submits, verdict, posts, bound, agents, author, raced>>

Receive(t) ==
  /\ at[t] \in Publishing /\ server[t] \in {"ok", "refused"}
  /\ server' = [server EXCEPT ![t] = "idle"]
  /\ Goto(t, IF server[t] = "refused" THEN "fail" ELSE IF at[t] = "create" THEN "publish" ELSE "bind")
  /\ Smooth
  /\ UNCHANGED <<token, question, task, round, fits, submits, verdict, posts, bound, agents, author, raced>>

\* Thirty seconds have passed, or the connection broke.
GiveUp(t) ==
  /\ at[t] \in Publishing /\ server[t] # "idle"
  /\ Trouble /\ Goto(t, "fail")
  /\ UNCHANGED <<token, question, task, round, fits, submits, verdict, server, posts, bound, agents, author, raced>>

\* A binding that cannot be made is not missed.
Bind(t) ==
  /\ at[t] = "bind" /\ Goto(t, "finish")
  /\ \/ bound' = [bound EXCEPT ![t] = 1] /\ Smooth
     \/ Trouble /\ UNCHANGED bound
  /\ UNCHANGED <<token, question, task, round, fits, submits, verdict, server, posts, agents, author, raced>>

Finish(t) ==
  /\ at[t] = "finish" /\ Goto(t, "end")
  /\ Updates(t, [task[t] EXCEPT !.status = "success", !.post = TRUE])
  /\ Outside /\ UNCHANGED <<round, fits, submits, verdict>>

FailAgentTask(t) ==
  /\ at[t] = "fail" /\ Goto(t, "end")
  /\ Updates(t, [task[t] EXCEPT !.status = "failed"])
  /\ Outside /\ UNCHANGED <<round, fits, submits, verdict>>

TaskStep(t) ==
  \/ Start(t) \/ LoadQuestion(t) \/ EnsureOJAgentUser(t) \/ CreateOJAgentUser(t)
  \/ CallAgentLLM(t) \/ Submit(t) \/ JudgeClaim(t) \/ JudgeFinish(t) \/ ReadVerdict(t)
  \/ Record(t) \/ Login(t) \/ Register(t) \/ Relogin(t) \/ Send(t) \/ Receive(t)
  \/ Bind(t) \/ Finish(t) \/ FailAgentTask(t)

----------------------------------------------------------------------------
(* The blog, at work on a request.                                          *)

Answer(t, s) == server' = [server EXCEPT ![t] = s]

\* Any step of the request may fail.
Refuse(t) ==
  /\ server[t] \in {"author", "enlist", "draft", "publish"}
  /\ Answer(t, "refused") /\ Trouble
  /\ UNCHANGED <<posts, author, raced>>

FindAuthor(t) ==
  /\ server[t] = "author"
  /\ Answer(t, IF author THEN "draft" ELSE "enlist")
  /\ Smooth /\ UNCHANGED <<posts, author, raced>>

\* The name of a user is unique: the second of two requests is refused.
CreateAuthor(t) ==
  /\ server[t] = "enlist"
  /\ Answer(t, IF author THEN "refused" ELSE "draft")
  /\ author' = TRUE
  /\ raced' = (raced \/ author)
  /\ Smooth /\ UNCHANGED posts

\* Without a token, a draft is all that was asked for.
CreateDraft(t) ==
  /\ server[t] = "draft"
  /\ posts' = [posts EXCEPT ![t] = [state |-> "draft", round |-> round[t]]]
  /\ Answer(t, IF token THEN "publish" ELSE "ok")
  /\ Smooth /\ UNCHANGED <<author, raced>>

\* Slip: the answer is sent before the article is published.
PublishLater(t) ==
  /\ server[t] = "publish"
  /\ posts' \in {posts, [posts EXCEPT ![t].state = "published"]}
  /\ Answer(t, "ok")
  /\ Smooth /\ UNCHANGED <<author, raced>>

PublishDraft(t) ==
  /\ server[t] = "publish"
  /\ posts' = [posts EXCEPT ![t].state = "published"]
  /\ Answer(t, "ok")
  /\ Smooth /\ UNCHANGED <<author, raced>>

ServerStep(t) ==
  /\ FindAuthor(t) \/ CreateAuthor(t) \/ CreateDraft(t) \/ PublishDraft(t)
  /\ UNCHANGED <<token, question, task, at, round, fits, submits, verdict, bound, agents>>

ServerFails(t) ==
  /\ Refuse(t)
  /\ UNCHANGED <<token, question, task, at, round, fits, submits, verdict, bound, agents>>

----------------------------------------------------------------------------
(* Others.                                                                  *)

\* The consumer claims or judges the row, or the ticker resets it, while the
\* task has not read it; rows of rounds that are over concern no task.
JudgedElsewhere(t) ==
  /\ at[t] \in {"judge", "judging", "read"} /\ Trouble
  /\ \/ Row(t) = "Pending" /\ SetRow(t, "Running")
     \/ Row(t) = "Running" /\ SetRow(t, "Pending")
     \/ \E s \in Verdicts : Finishes(t, s)
  /\ Outside /\ UNCHANGED <<task, at, round, fits, verdict>>

DeleteQuestion ==
  /\ question /\ question' = FALSE
  /\ Smooth
  /\ UNCHANGED <<token, task, at, round, fits, submits, verdict, server, posts, bound, agents, author, raced>>

\* Nobody looks for the tasks of an earlier process.
Crash ==
  /\ Trouble
  /\ at' = [t \in Tasks |-> IF at[t] \in {"none", "end"} THEN at[t] ELSE "dead"]
  /\ server' = [t \in Tasks |-> "idle"]
  /\ UNCHANGED <<token, question, task, round, fits, submits, verdict, posts, bound, agents, author, raced>>

Next ==
  \/ \E t \in Tasks :
       \/ AgentGenerateQuestionSolution(t) \/ TaskStep(t) \/ GiveUp(t)
       \/ ServerStep(t) \/ ServerFails(t) \/ JudgedElsewhere(t)
  \/ DeleteQuestion \/ Crash

Spec == Init /\ [][Next]_vars

\* Goroutines and handlers that can go on do: every call has a time limit.
FairSpec == Spec /\ \A t \in Tasks : WF_vars(TaskStep(t)) /\ WF_vars(ServerStep(t))

----------------------------------------------------------------------------
\* What is drafted or published for a task is the article of a round whose code
\* was accepted, whoever judged it, and the end of the article says so.
ArticleWasAccepted ==
  \A t \in Tasks : posts[t].state # "none" => submits[t][posts[t].round] = "Accepted"

\* A task that has ended well has its article on the blog; and when nothing went
\* wrong it also has the code of that article, and its binding to the question.
SuccessIsWhole ==
  \A t \in Tasks : task[t].status = "success" =>
    /\ posts[t].state = "published"
    /\ trouble = 0 => task[t].answer = posts[t].round /\ bound[t] = 1

\* When nothing went wrong, a failed task has left nothing on the blog.
FailureLeavesNothing ==
  trouble = 0 => \A t \in Tasks : task[t].status = "failed" => posts[t].state = "none"

\* When nothing went wrong, a task whose code was accepted fails only if its
\* title was too long or another task was making the author at the same time.
AcceptedIsPublished ==
  trouble = 0 /\ ~raced =>
    \A t \in Tasks : (\E k \in Rounds : submits[t][k] = "Accepted") /\ task[t].status = "failed"
                       => ~fits[t]

\* The judge has one account for the agent, unless two tasks made it at once.
OneAgentAccount == ~raced => agents <= 1

\* When nothing went wrong, a goroutine that has ended said so in its task's row,
\* by whichever of its returns it left: nobody else will.
EndIsTold ==
  trouble = 0 => \A t \in Tasks : at[t] \in {"end", "dead"} => task[t].status \in {"success", "failed"}

\* What an article and the end of a task say, all of it.
TaskSafety ==
  /\ ArticleWasAccepted /\ SuccessIsWhole /\ FailureLeavesNothing /\ AcceptedIsPublished
  /\ OneAgentAccount /\ EndIsTold

\* A task that was asked for ends, unless something went wrong.
TaskEnds ==
  \A t \in Tasks : task[t].status = "pending"
                     ~> (task[t].status \in {"success", "failed"} \/ trouble > 0)

\* What is promised, for the status in the row, the verdicts of all rounds and
\* the article.
Promise == INSTANCE TaskLifecycle WITH
  status   <- [t \in Tasks |-> task[t].status],
  accepted <- [t \in Tasks |-> \E k \in Rounds : submits[t][k] = "Accepted"],
  article  <- [t \in Tasks |-> posts[t].state]

ImplementsTask == Promise!Spec
=============================================================================
