------------------------------ MODULE SubmitIntake ------------------------------
(****************************************************************************)
(* How submissions are taken in: the handler reads the author's latest row, *)
(* refuses a second submission inside the window, inserts a row stamped     *)
(* with the clock of the process and counts it on the question. The four    *)
(* are separate statements, in no transaction, and one author's requests    *)
(* run beside each other. The agent's submissions skip the check. What      *)
(* happens to a row afterwards is JudgePipeline's.                          *)
(****************************************************************************)
EXTENDS Integers, Sequences, FiniteSets

CONSTANTS
  Requests,    \* requests to submit, each sent again until it is taken in
  Questions,
  AuthorOf, QuestionOf,
  Agents,      \* the author the agent submits as
  Window,      \* the time a person has to wait (5 seconds)
  MaxTime,     \* bound of the clock
  MaxTrouble   \* bound: failed statements and crashes in a behaviour

Authors == {AuthorOf[r] : r \in Requests}

ASSUME IntakeAssumption ==
  /\ IsFiniteSet(Requests)
  /\ QuestionOf \in [Requests -> Questions]
  /\ Window \in Nat \ {0}
  /\ MaxTime \in Nat /\ MaxTrouble \in Nat

VARIABLES
  now,        \* the clock
  rows,       \* question_submit, by id
  createTime, \* the stamp of each row, taken before it is inserted
  submitNum,  \* of each question
  pc,
  latest,     \* the stamp each handler has read, or NoStamp
  overlapped, \* history: authors who had two requests in progress
  unread,     \* history: authors whose latest row could not be read once
  lost,       \* history: rows of each question that were never counted
  trouble

intake == <<rows, createTime, submitNum>>
vars   == <<now, intake, pc, latest, overlapped, unread, lost, trouble>>

NoStamp == -Window
Time    == 0..MaxTime
Places  == {"idle", "read", "check", "insert", "count", "done"}

RangeOf(s) == {s[i] : i \in DOMAIN s}

TypeOK ==
  /\ now \in Time
  /\ rows \in Seq(Requests)
  /\ \A i, j \in DOMAIN rows : rows[i] = rows[j] => i = j
  /\ createTime \in [Requests -> Time]
  /\ \A r \in Requests : createTime[r] <= now
  /\ submitNum \in [Questions -> Nat]
  /\ pc \in [Requests -> Places]
  /\ latest \in [Requests -> Time \cup {NoStamp}]
  /\ overlapped \subseteq Authors /\ unread \subseteq Authors
  /\ lost \in [Questions -> Nat]
  /\ trouble \in 0..MaxTrouble

Init ==
  /\ now = 0
  /\ rows = << >>
  /\ createTime = [r \in Requests |-> 0]
  /\ submitNum = [q \in Questions |-> 0]
  /\ pc = [r \in Requests |-> "idle"]
  /\ latest = [r \in Requests |-> NoStamp]
  /\ overlapped = {} /\ unread = {}
  /\ lost = [q \in Questions |-> 0]
  /\ trouble = 0

----------------------------------------------------------------------------
Trouble == trouble < MaxTrouble /\ trouble' = trouble + 1

Goto(r, place) == pc' = [pc EXCEPT ![r] = place]

InProgress(u) == {r \in Requests : pc[r] \notin {"idle", "done"} /\ AuthorOf[r] = u}

\* A request that finds its question; any other is refused and changes nothing.
Begin(r) ==
  /\ pc[r] = "idle"
  /\ Goto(r, IF AuthorOf[r] \in Agents THEN "insert" ELSE "read")
  /\ createTime' = IF AuthorOf[r] \in Agents THEN [createTime EXCEPT ![r] = now] ELSE createTime
  /\ overlapped' = IF InProgress(AuthorOf[r]) = {} THEN overlapped
                   ELSE overlapped \cup {AuthorOf[r]}
  /\ UNCHANGED <<now, rows, submitNum, latest, unread, lost, trouble>>

RowsOf(u) == {i \in DOMAIN rows : AuthorOf[rows[i]] = u}

Last(S) == CHOOSE i \in S : \A j \in S : j <= i

\* Slip: the first row by id, not the last.
ReadFirst(r) ==
  /\ pc[r] = "read"
  /\ latest' = [latest EXCEPT ![r] =
       IF RowsOf(AuthorOf[r]) = {} THEN NoStamp
       ELSE createTime[rows[CHOOSE i \in RowsOf(AuthorOf[r]) :
                              \A j \in RowsOf(AuthorOf[r]) : i <= j]]]
  /\ Goto(r, "check")
  /\ UNCHANGED <<now, intake, overlapped, unread, lost, trouble>>

\* A read that fails is taken for an author without rows.
ReadLatest(r) ==
  /\ pc[r] = "read"
  /\ \/ /\ latest' = [latest EXCEPT ![r] =
             IF RowsOf(AuthorOf[r]) = {} THEN NoStamp
             ELSE createTime[rows[Last(RowsOf(AuthorOf[r]))]]]
        /\ UNCHANGED <<unread, trouble>>
     \/ /\ Trouble
        /\ latest' = [latest EXCEPT ![r] = NoStamp]
        /\ unread' = unread \cup {AuthorOf[r]}
  /\ Goto(r, "check")
  /\ UNCHANGED <<now, intake, overlapped, lost>>

\* Too early, and the request is refused.
Check(r) ==
  /\ pc[r] = "check"
  /\ \/ now - latest[r] < Window /\ Goto(r, "idle") /\ UNCHANGED createTime
     \/ /\ now - latest[r] >= Window
        /\ Goto(r, "insert")
        /\ createTime' = [createTime EXCEPT ![r] = now]
  /\ latest' = [latest EXCEPT ![r] = NoStamp]
  /\ UNCHANGED <<now, rows, submitNum, overlapped, unread, lost, trouble>>

\* Slip: an INSERT is tried again when only its answer was lost.
InsertAgain(r) ==
  /\ pc[r] = "insert"
  /\ rows' = Append(rows, r)
  /\ \/ Goto(r, "count") /\ UNCHANGED trouble
     \/ Trouble /\ UNCHANGED pc
  /\ UNCHANGED <<now, createTime, submitNum, latest, overlapped, unread, lost>>

\* A failed INSERT is answered with an error.
Insert(r) ==
  /\ pc[r] = "insert"
  /\ \/ /\ rows' = Append(rows, r)
        /\ Goto(r, "count")
        /\ UNCHANGED <<createTime, trouble>>
     \/ /\ Trouble
        /\ createTime' = [createTime EXCEPT ![r] = 0]
        /\ Goto(r, "idle")
        /\ UNCHANGED rows
  /\ UNCHANGED <<now, submitNum, latest, overlapped, unread, lost>>

\* Slip: the agent's submissions are not counted.
CountPeople(r) ==
  /\ pc[r] = "count"
  /\ submitNum' = IF AuthorOf[r] \in Agents THEN submitNum
                  ELSE [submitNum EXCEPT ![QuestionOf[r]] = @ + 1]
  /\ Goto(r, "done")
  /\ UNCHANGED <<now, rows, createTime, latest, overlapped, unread, lost, trouble>>

\* submitNum + 1 in the database; its error is ignored.
Count(r) ==
  /\ pc[r] = "count"
  /\ \/ /\ submitNum' = [submitNum EXCEPT ![QuestionOf[r]] = @ + 1]
        /\ UNCHANGED <<lost, trouble>>
     \/ /\ Trouble
        /\ lost' = [lost EXCEPT ![QuestionOf[r]] = @ + 1]
        /\ UNCHANGED submitNum
  /\ Goto(r, "done")
  /\ UNCHANGED <<now, rows, createTime, latest, overlapped, unread>>

Uncounted(q) == {r \in Requests : pc[r] = "count" /\ QuestionOf[r] = q}

Crash ==
  /\ Trouble
  /\ pc' = [r \in Requests |-> IF r \in RangeOf(rows) THEN "done" ELSE "idle"]
  /\ createTime' = [r \in Requests |-> IF r \in RangeOf(rows) THEN createTime[r] ELSE 0]
  /\ latest' = [r \in Requests |-> NoStamp]
  /\ lost' = [q \in Questions |-> lost[q] + Cardinality(Uncounted(q))]
  /\ UNCHANGED <<now, rows, submitNum, overlapped, unread>>

Tick ==
  /\ now < MaxTime
  /\ now' = now + 1
  /\ UNCHANGED <<intake, pc, latest, overlapped, unread, lost, trouble>>

Next ==
  \/ \E r \in Requests : Begin(r) \/ ReadLatest(r) \/ Check(r) \/ Insert(r) \/ Count(r)
  \/ Crash
  \/ Tick

Spec == Init /\ [][Next]_vars

----------------------------------------------------------------------------
(* Properties                                                               *)

Apart(u) ==
  \A i, j \in RowsOf(u) : i < j => createTime[rows[j]] - createTime[rows[i]] >= Window

\* The limit holds for a person who waits for each answer before submitting
\* again, as long as the database can be read: crashes and refused inserts do not
\* open it.
SequentialAuthorLimited ==
  \A u \in Authors \ (Agents \cup overlapped \cup unread) : Apart(u)

\* Every row is counted once, is about to be counted, or its count was lost with
\* a statement or the process: no race between requests loses one.
SubmitNumCounted ==
  \A q \in Questions :
    submitNum[q] + lost[q] + Cardinality(Uncounted(q))
      = Cardinality({r \in RangeOf(rows) : QuestionOf[r] = q})

\* question_submit_handler.go:61, "the same user may submit only once in 5
\* seconds".
OncePerWindow == \A u \in Authors \ Agents : Apart(u)
=============================================================================
