---------------------------- MODULE SolutionBinding ----------------------------
(****************************************************************************)
(* Articles listed as solutions of one question. No key keeps two rows of   *)
(* one article apart: to bind looks for a row and then inserts one, and to  *)
(* unbind looks at one row's owner and then removes the rows of the article,*)
(* all there are by then.                                                   *)
(****************************************************************************)
EXTENDS Naturals, Sequences, FiniteSets, TLC

CONSTANTS
  Requests, Posts, Users,
  Owner,       \* of the question
  Admin,
  MaxRows      \* bound of the rows inserted

VARIABLES
  question,    \* the question is not deleted
  rows,        \* question_solution_post of the question, by id
  calls,       \* the request that has looked, and may write
  overlapped   \* history: a call has written after rows of its article changed, or
               \* the agent's task an article that somebody had bound

vars == <<question, rows, calls, overlapped>>

Row  == [post : Posts, user : Users, live : BOOLEAN]
Call == [at : {"idle", "insert", "remove"}, user : Users \cup {"nobody"}, post : Posts \cup {"none"}, stale : BOOLEAN]

TypeOK ==
  /\ {question, overlapped} \subseteq BOOLEAN
  /\ rows \in Seq(Row) /\ Len(rows) <= MaxRows
  /\ calls \in [Requests -> Call]

Idle == [at |-> "idle", user |-> "nobody", post |-> "none", stale |-> FALSE]

Init ==
  /\ question = TRUE
  /\ rows = <<>>
  /\ calls = [r \in Requests |-> Idle]
  /\ overlapped = FALSE

Live(p) == {i \in DOMAIN rows : rows[i].live /\ rows[i].post = p}
First(S) == CHOOSE i \in S : \A j \in S : i <= j

Looked(r, at, u, p) ==
  /\ question /\ calls[r].at = "idle"
  /\ calls' = [calls EXCEPT ![r] = [at |-> at, user |-> u, post |-> p, stale |-> FALSE]]
  /\ UNCHANGED <<question, rows, overlapped>>

\* The call has written: others that have looked at its article know too little.
Wrote(r) ==
  /\ overlapped' = (overlapped \/ calls[r].stale)
  /\ calls' = [c \in Requests |->
       IF c = r THEN Idle
       ELSE [calls[c] EXCEPT !.stale = calls[c].at # "idle" /\ (@ \/ calls[c].post = calls[r].post)]]
  /\ UNCHANGED question

\* Slip: only a row of the same user is looked for.
LookForOwn(r, u, p) == {i \in Live(p) : rows[i].user = u} = {} /\ Looked(r, "insert", u, p)

\* An article that is bound already is answered with its row.
LookToBind(r, u, p) == Live(p) = {} /\ Looked(r, "insert", u, p)

\* Slip: the row does not say whose it is.
BindForNobody(r) ==
  /\ calls[r].at = "insert" /\ Len(rows) < MaxRows
  /\ rows' = Append(rows, [post |-> calls[r].post, live |-> TRUE])
  /\ Wrote(r)

Bind(r) ==
  /\ calls[r].at = "insert" /\ Len(rows) < MaxRows
  /\ rows' = Append(rows, [post |-> calls[r].post, user |-> calls[r].user, live |-> TRUE])
  /\ Wrote(r)

\* The agent's task binds the article it has published, and looks for no row.
AgentBind(u, p) ==
  /\ Len(rows) < MaxRows
  /\ rows' = Append(rows, [post |-> p, user |-> u, live |-> TRUE])
  /\ overlapped' = (overlapped \/ Live(p) # {})
  /\ calls' = [c \in Requests |-> [calls[c] EXCEPT !.stale = @ \/ calls[c].post = p]]
  /\ UNCHANGED question

MayUnbind(u, row) == u \in {row.user, Owner, Admin}

\* Slip: everybody may.
LookOnly(r, u, p) == Live(p) # {} /\ Looked(r, "remove", u, p)

LookToUnbind(r, u, p) ==
  /\ Live(p) # {} /\ MayUnbind(u, rows[First(Live(p))])
  /\ Looked(r, "remove", u, p)

Unbind(r) ==
  /\ calls[r].at = "remove"
  /\ rows' = [i \in DOMAIN rows |-> IF i \in Live(calls[r].post) THEN [rows[i] EXCEPT !.live = FALSE]
                                                               ELSE rows[i]]
  /\ Wrote(r)

\* A statement fails, or the process dies.
Fail(r) ==
  /\ calls[r].at # "idle"
  /\ calls' = [calls EXCEPT ![r] = Idle]
  /\ UNCHANGED <<question, rows, overlapped>>

\* The question is deleted or restored; its rows are left alone.
SetQuestion ==
  /\ question' = ~question
  /\ UNCHANGED <<rows, calls, overlapped>>

Next ==
  \/ \E r \in Requests :
       \/ \E u \in Users, p \in Posts : LookToBind(r, u, p) \/ LookToUnbind(r, u, p)
       \/ Bind(r) \/ Unbind(r) \/ Fail(r)
  \/ \E u \in Users, p \in Posts : AgentBind(u, p)
  \/ SetQuestion

Spec == Init /\ [][Next]_vars

\* Unless calls on one article overlapped so, it is listed once.
ListedOnce == ~overlapped => \A p \in Posts : Cardinality(Live(p)) <= 1

\* Unless calls on one article overlapped, a row is only removed by who bound it,
\* the owner of the question or an administrator, though only the first is asked about.
RemovedByRight ==
  [][\A i \in DOMAIN rows :
       rows[i].live /\ ~rows'[i].live /\ ~overlapped' =>
         \E r \in Requests : calls[r].at = "remove" /\ MayUnbind(calls[r].user, rows[i])]_vars
=============================================================================
