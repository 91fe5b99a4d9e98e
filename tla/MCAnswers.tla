------------------------------- MODULE MCAnswers -------------------------------
(****************************************************************************)
(* What is waited for, for TLC: the end of a task of the agent, a verdict   *)
(* from the sandbox, and the verdict on the author's page. In this instance *)
(* they share no state: part says which of them a behaviour is about, and   *)
(* the others stand at their start.                                         *)
(****************************************************************************)
EXTENDS AgentTask

CONSTANTS
  t1, s1, p1, j1, j2,
  Modes, Runs, MaxCases, Limit,                    \* of the sandbox
  Submissions, Pages, Judges, Finals,              \* of events and pages
  Capacity, MaxWire, MaxStreams

VARIABLES
  part,
  mode, cases, program, pc, input, buf, runner, late, reply, info, strouble,
  row, runtime, judging, subs, channel, wire, page, missed, overruled

MCTasks       == {t1}
MCSubmissions == {s1}
MCPages       == {p1}
MCJudges      == {j1, j2}
MCFinals      == {"accepted", "system error"}
MCModes       == {"container", "direct", "local"}

Does == [end |-> "exit", right |-> TRUE, late |-> FALSE, size |-> 1, noise |-> 0, says |-> {}]

\* A right answer; one that is wrong, long, of just the limit, late, noisy; a
\* crash that says a word; no end.
MCRuns == {Does, [Does EXCEPT !.right = FALSE], [Does EXCEPT !.size = 4],
           [Does EXCEPT !.size = 3], [Does EXCEPT !.late = TRUE], [Does EXCEPT !.noise = 1],
           [Does EXCEPT !.end = "crash", !.right = FALSE, !.size = 2, !.says = {"compile"}],
           [Does EXCEPT !.end = "endless"]}

S == INSTANCE Sandbox WITH trouble <- strouble
E == INSTANCE SubmitEvents

ASSUME SandboxAssumption ==
  /\ Modes \subseteq MCModes /\ Modes # {} /\ Runs \subseteq S!Run /\ Runs # {}
  /\ MaxCases \in Nat \ {0} /\ Limit \in Nat

ASSUME EventsAssumption ==
  /\ Submissions # {} /\ {Capacity, MaxWire, MaxStreams} \subseteq Nat
  /\ "system error" \in Finals /\ Finals \cap {"none", "pending", "running", "open"} = {}

sVars == <<mode, cases, program, pc, input, buf, runner, late, reply, info, strouble>>
eVars == <<row, runtime, judging, subs, channel, wire, page, missed, overruled>>
allVars == <<part, vars, sVars, eVars>>

AnswersInit ==
  /\ part \in {"task", "sandbox", "page"}
  /\ Init /\ E!Init
  /\ part # "task" => token
  /\ IF part = "sandbox" THEN S!Init
     ELSE /\ mode = (CHOOSE m \in Modes : TRUE) /\ cases = 0 /\ pc = "asked" /\ input = 1 /\ runner = "none" /\ late = FALSE
          /\ program = [source |-> "fine", compile |-> "ok", runs |-> [k \in 1..MaxCases |-> CHOOSE r \in Runs : TRUE]]
          /\ buf = [len |-> 0, written |-> 0, truncated |-> FALSE]
          /\ reply = S!NoReply /\ info = [message |-> "none", score |-> 0] /\ strouble = FALSE

AnswersNext ==
  /\ UNCHANGED part
  /\ \/ part = "task" /\ Next /\ UNCHANGED <<sVars, eVars>>
     \/ part = "sandbox" /\ S!Next /\ UNCHANGED <<vars, eVars>>
     \/ part = "page" /\ E!Next /\ UNCHANGED <<vars, sVars>>

\* The fairness of the three specifications, each for its own part.
AnswersSpec ==
  /\ AnswersInit /\ [][AnswersNext]_allVars
  /\ \A t \in Tasks :
       /\ WF_allVars(part = "task" /\ TaskStep(t) /\ UNCHANGED <<part, sVars, eVars>>)
       /\ WF_allVars(part = "task" /\ ServerStep(t) /\ UNCHANGED <<part, sVars, eVars>>)
  /\ WF_allVars(part = "sandbox" /\ S!Service /\ UNCHANGED <<part, vars, eVars>>)
  /\ WF_allVars(part = "sandbox" /\ S!Runner /\ UNCHANGED <<part, vars, eVars>>)
  /\ WF_allVars(part = "page" /\ (\E j \in Judges : E!Tell(j)) /\ UNCHANGED <<part, vars, sVars>>)
  /\ \A p \in Pages :
       /\ WF_allVars(part = "page" /\ E!Reader(p) /\ UNCHANGED <<part, vars, sVars>>)
       /\ WF_allVars(part = "page" /\ E!Stream(p) /\ UNCHANGED <<part, vars, sVars>>)

----------------------------------------------------------------------------
(* What the instances promise; their modules say more.                      *)

\* Types of a request of the sandbox, of events, streams and pages; for those of
\* tasks see MCSubmitLifecycle.
TypesOK == S!TypeOK /\ E!TypeOK

\* A verdict, the fault it names and its score are those of the program.
VerdictIsEarned == S!VerdictIsEarned

\* A verdict on a page is the row's, unless the row was taken from a judge, and one
\* that is in the row is on its way to every page that has not missed it.
VerdictIsOnItsWay == E!VerdictIsCommitted /\ E!VerdictOnItsWay

\* Whatever the program does, and whatever fails, there is a verdict, unless a judge
\* without a sandbox runs a program that does not end.
EveryRequestJudged == part = "sandbox" /\ ~S!Hangs ~> pc = "judged"

\* A verdict reaches the page, unless it was missed.
VerdictReachesPage == E!VerdictReachesPage
=============================================================================
