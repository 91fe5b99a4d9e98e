----------------------------- MODULE TaskLifecycle -----------------------------
(****************************************************************************)
(* What an administrator who asks for generated solutions may count on,     *)
(* without rounds, judges, requests or accounts: an article is drafted and  *)
(* published for a task only once code of that task has been accepted, and  *)
(* a task that ends well has its article published. A task that failed may  *)
(* have an article (its publisher gave up waiting), and nothing is undone.  *)
(****************************************************************************)
CONSTANT Tasks

VARIABLES
  status,    \* agent_solution_task.status
  accepted,  \* code of the task was accepted
  article    \* the task's article on the blog

vars == <<status, accepted, article>>

Open     == {"pending", "running"}
Ended    == {"success", "failed"}

Init ==
  /\ status = [t \in Tasks |-> "none"]
  /\ accepted = [t \in Tasks |-> FALSE]
  /\ article = [t \in Tasks |-> "none"]

Ask(t) ==
  /\ status[t] = "none" /\ status' = [status EXCEPT ![t] = "pending"]
  /\ UNCHANGED <<accepted, article>>

Run(t) ==
  /\ status[t] = "pending" /\ status' = [status EXCEPT ![t] = "running"]
  /\ UNCHANGED <<accepted, article>>

Accept(t) ==
  /\ status[t] # "none" /\ accepted' = [accepted EXCEPT ![t] = TRUE]
  /\ UNCHANGED <<status, article>>

Draft(t) ==
  /\ accepted[t] /\ article[t] = "none" /\ article' = [article EXCEPT ![t] = "draft"]
  /\ UNCHANGED <<status, accepted>>

Publish(t) ==
  /\ article[t] = "draft" /\ article' = [article EXCEPT ![t] = "published"]
  /\ UNCHANGED <<status, accepted>>

Succeed(t) ==
  /\ status[t] \in Open /\ article[t] = "published"
  /\ status' = [status EXCEPT ![t] = "success"]
  /\ UNCHANGED <<accepted, article>>

Fail(t) ==
  /\ status[t] \in Open /\ status' = [status EXCEPT ![t] = "failed"]
  /\ UNCHANGED <<accepted, article>>

Next == \E t \in Tasks : Ask(t) \/ Run(t) \/ Accept(t) \/ Draft(t) \/ Publish(t) \/ Succeed(t) \/ Fail(t)

Spec == Init /\ [][Next]_vars
=============================================================================
