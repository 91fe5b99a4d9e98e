-------------------------------- MODULE Sandbox --------------------------------
(****************************************************************************)
(* Judging one program: the sandbox runs it in a container of its own, or   *)
(* directly; a judge without a sandbox runs it itself. From what comes back *)
(* the judge makes a verdict. Requests share nothing but Docker, so one is  *)
(* enough. A program is what it does when compiled and on each input; the   *)
(* text of a message is the words the judge looks for in it.                *)
(****************************************************************************)
EXTENDS Naturals, FiniteSets, FiniteSetsExt

CONSTANTS
  Modes,       \* \subseteq {"container", "direct", "local"}
  Runs,        \* \subseteq Run: what a program may do on an input
  MaxCases,    \* bound: cases of the question
  Limit        \* maxOutputBytes, SANDBOX_MAX_OUTPUT_BYTES

Words == {"compile", "runtime", "time"}
\* late: takes longer than the question allows; says: words in its output.
Run  == [end : {"exit", "crash", "endless"}, right : BOOLEAN, late : BOOLEAN,
         size : Nat, noise : Nat, says : SUBSET Words]

VARIABLES
  mode, cases, program,
  pc,         \* of the request
  input,      \* the input it, or its container, is at
  buf,        \* limitedBuffer, and how much was written to it
  runner,     \* the container
  late,       \* the longest run took longer than the question allows
  reply,      \* what the judge gets
  info,       \* what it makes of it
  trouble     \* history: a machine failed or was slow

vars == <<mode, cases, program, pc, input, buf, runner, late, reply, info, trouble>>

\* refused: Go, but with a forbidden import, or too large with its inputs; no go:
\* what the parser of the sandbox does not get through, an empty one too.
Sources  == {"fine", "refused", "no go"}
Compiles == {"ok", "error", "endless", "loud"}
Messages == {"Accepted", "Partially Correct", "Wrong Answer", "Compile Error",
             "Runtime Error", "Time Limit Exceeded", "other", "System Error", "none"}

Reply == [kind : {"ok", "told", "error", "none"}, words : SUBSET Words]
NoReply == [kind |-> "none", words |-> {}]

normalizeInputs == IF cases = 0 THEN {1} ELSE 1..cases
Last == Cardinality(normalizeInputs)

TypeOK ==
  /\ Modes \subseteq {"container", "direct", "local"} /\ Runs \subseteq Run
  /\ mode \in Modes /\ cases \in 0..MaxCases /\ trouble \in BOOLEAN /\ late \in BOOLEAN
  /\ program \in [source : Sources, compile : Compiles, runs : [1..MaxCases -> Runs]]
  /\ pc \in {"asked", "prepare", "compile", "running", "answered", "judged"}
  /\ input \in 1..(MaxCases + 1)
  /\ buf.len <= Limit /\ buf.len <= buf.written /\ (~buf.truncated => buf.len = buf.written)
  /\ runner \in {"none", "compile", "run", "exited", "no build", "failed"}
  /\ reply \in Reply
  /\ info \in [message : Messages, score : 0..100]

Init ==
  /\ mode \in Modes /\ cases \in 0..MaxCases
  /\ program \in [source : Sources, compile : Compiles, runs : [1..MaxCases -> Runs]]
  /\ pc = "asked" /\ input = 1 /\ runner = "none" /\ late = FALSE
  /\ buf = [len |-> 0, written |-> 0, truncated |-> FALSE]
  /\ reply = NoReply /\ info = [message |-> "none", score |-> 0] /\ trouble = FALSE

request == <<mode, cases, program>>
Now     == program.runs[input]

Answer(r) == pc' = "answered" /\ reply' = r
Tell(w)   == Answer([kind |-> "told", words |-> w])

\* A judge without a sandbox has errors for what a sandbox tells.
Refuse(w) == IF mode = "local" THEN Answer([kind |-> "error", words |-> {}]) ELSE Tell(w)

----------------------------------------------------------------------------
\* Only a sandbox looks at the source. What its parser says quotes the source, any
\* word of it.
executeCode ==
  /\ pc = "asked"
  /\ \/ mode # "local" /\ program.source = "refused" /\ Tell({})
     \/ mode # "local" /\ program.source = "no go" /\ \E w \in SUBSET Words : Tell(w)
     \/ /\ mode = "local" \/ program.source = "fine"
        /\ pc' = "prepare" /\ UNCHANGED reply
  /\ UNCHANGED <<request, input, buf, runner, late, info, trouble>>

\* The working directory is made and the files are written, which may fail.
\* Locally each run compiles, and the first one finds what does not.
Prepare ==
  /\ pc = "prepare"
  /\ \/ /\ pc' = IF mode = "container" THEN "running" ELSE "compile"
        /\ UNCHANGED <<reply, trouble>>
     \/ Refuse({}) /\ trouble' = TRUE
  /\ UNCHANGED <<request, input, buf, runner, late, info>>

Builds == program.compile = "ok" /\ program.source # "no go"

\* Directly: twelve seconds to compile, six for each input. A machine may be too
\* slow for what is not endless.
CompileDirect ==
  /\ pc = "compile"
  /\ \/ Builds /\ pc' = "running" /\ UNCHANGED <<reply, trouble>>
     \/ ~Builds /\ program.compile # "endless" /\ Refuse({"compile"}) /\ UNCHANGED trouble
     \/ /\ Refuse({"compile", "time"})
        /\ trouble' = (trouble \/ program.compile # "endless")
  /\ UNCHANGED <<request, input, buf, runner, late, info>>

\* Slip: what crosses the limit is kept.
WriteAll(p) ==
  buf' = [len |-> buf.len + p, written |-> buf.written + p, truncated |-> buf.len + p > Limit]

\* limitedBuffer.Write; io.Copy writes nothing that is empty.
Write(p) ==
  LET remain == Limit - buf.len
      long   == p > remain
  IN buf' = [len       |-> IF buf.truncated THEN buf.len ELSE buf.len + (IF long THEN remain ELSE p),
             written   |-> buf.written + p,
             truncated |-> buf.truncated \/ long]

Pending == Now.size + Now.noise - buf.written

\* Both streams of the program are one buffer.
Output ==
  /\ pc = "running" /\ mode # "container" /\ Pending > 0
  /\ \E p \in 1..Pending : Write(p)
  /\ UNCHANGED <<request, pc, input, runner, late, reply, info, trouble>>

TooMuch == mode = "direct" /\ buf.truncated

\* A run has ended; the next one begins, or all is told.
EndOfRun ==
  /\ pc = "running" /\ mode # "container" /\ Pending = 0 /\ Now.end # "endless"
  /\ late' = (late \/ Now.late)
  /\ IF TooMuch THEN Refuse({}) /\ UNCHANGED <<input, buf>>
     ELSE IF Now.end = "crash" THEN Refuse({"runtime", "time"} \cup Now.says) /\ UNCHANGED <<input, buf>>
     ELSE IF input < Last
     THEN /\ input' = input + 1 /\ buf' = [len |-> 0, written |-> 0, truncated |-> FALSE]
          /\ UNCHANGED <<pc, reply>>
     ELSE Answer([kind |-> "ok", words |-> {}]) /\ UNCHANGED <<input, buf>>
  /\ UNCHANGED <<request, runner, info, trouble>>

\* Slip: nobody waits for the container with a clock.
TimeoutOfRun ==
  /\ pc = "running" /\ mode = "direct"
  /\ Refuse({"time"})
  /\ trouble' = (trouble \/ Now.end # "endless")
  /\ UNCHANGED <<request, input, buf, runner, late, info>>

\* What runs is killed: directly the program, for a container the client that waits
\* for it, locally only the go command, whose child keeps the pipe open until
\* it ends by itself.
Timeout ==
  /\ pc = "running"
  /\ mode = "local" => Now.end # "endless"
  /\ Refuse({"time"})
  /\ trouble' = (trouble \/ ~(\/ mode = "direct" /\ Now.end = "endless"
                              \/ runner = "compile" /\ program.compile = "endless"
                              \/ runner = "run" /\ Now.end = "endless"))
  /\ UNCHANGED <<request, input, buf, runner, late, info>>

----------------------------------------------------------------------------
\* The container: its script, which ends at the first command that fails; after
\* the answer, whenever it finds that the working directory has been removed.
StartRunner ==
  /\ pc = "running" /\ mode = "container" /\ runner = "none"
  /\ \/ runner' = "compile" /\ UNCHANGED <<pc, reply, trouble>>
     \/ Tell({"runtime", "time"}) /\ trouble' = TRUE /\ UNCHANGED runner
  /\ UNCHANGED <<request, input, buf, late, info>>

RunnerCompile ==
  /\ runner = "compile" /\ program.compile # "endless"
  /\ \/ runner' = IF program.compile = "ok" THEN "run" ELSE "no build"
     \/ pc # "running" /\ runner' = "failed"
  /\ UNCHANGED <<request, pc, input, buf, late, reply, info, trouble>>

\* Slip: the script goes on after a failing run.
RunnerGoesOn ==
  /\ runner = "run" /\ Now.end # "endless"
  /\ IF input < Last THEN input' = input + 1 /\ UNCHANGED runner
     ELSE runner' = "exited" /\ UNCHANGED input
  /\ UNCHANGED <<request, pc, buf, late, reply, info, trouble>>

RunnerRun ==
  /\ runner = "run" /\ Now.end # "endless"
  /\ \/ (Now.end = "crash" \/ pc # "running") /\ runner' = "failed" /\ UNCHANGED input
     \/ Now.end = "exit" /\ input < Last /\ input' = input + 1 /\ UNCHANGED runner
     \/ Now.end = "exit" /\ input = Last /\ runner' = "exited" /\ UNCHANGED input
  /\ UNCHANGED <<request, pc, buf, late, reply, info, trouble>>

\* Of all outputs.
Total == MapThenSumSet(LAMBDA k : program.runs[k].size, normalizeInputs)

\* The outputs share the limit, and no time is told.
ReadOutputs ==
  /\ pc = "running" /\ runner \in {"exited", "no build", "failed"}
  /\ CASE runner = "no build" -> Tell({"compile"})
       [] runner = "failed"   -> Tell({"runtime", "time"})
       [] runner = "exited"   ->
            IF Total > Limit THEN Tell({}) ELSE Answer([kind |-> "ok", words |-> {}])
  /\ UNCHANGED <<request, input, buf, runner, late, info, trouble>>

----------------------------------------------------------------------------
\* Slip: time is looked for first.
BlameTime(w) ==
  IF "time" \in w THEN "Time Limit Exceeded" ELSE IF "compile" \in w THEN "Compile Error" ELSE "other"

Blame(w) ==
  CASE "compile" \in w -> "Compile Error"
    [] "compile" \notin w /\ "runtime" \in w -> "Runtime Error"
    [] w = {"time"} -> "Time Limit Exceeded"
    [] OTHER -> "other"

\* What was written to standard error is part of a direct run's output.
Passed == {k \in 1..cases : program.runs[k].right /\ (mode = "container" \/ program.runs[k].noise = 0)}

\* Slip: the division is done first.
ShareCut(passed, total) == (passed \div total) * 100

Share(passed, total) == (passed * 100) \div total

Judge ==
  LET passed == Cardinality(Passed) IN
  IF reply.kind = "told" THEN [message |-> Blame(reply.words), score |-> 0]
  ELSE IF late THEN [message |-> "Time Limit Exceeded", score |-> 0]
  ELSE IF passed = cases THEN [message |-> "Accepted", score |-> 100]
  ELSE IF passed > 0 THEN [message |-> "Partially Correct", score |-> Share(passed, cases)]
  ELSE [message |-> "Wrong Answer", score |-> 0]

JudgeReply ==
  /\ pc = "answered" /\ pc' = "judged"
  /\ info' = IF reply.kind = "error" THEN [message |-> "System Error", score |-> 0] ELSE Judge
  /\ UNCHANGED <<request, input, buf, runner, late, reply, trouble>>

\* The sandbox dies, or the connection to it.
LoseSandbox ==
  /\ mode # "local" /\ pc \in {"asked", "prepare", "compile", "running"}
  /\ Answer([kind |-> "error", words |-> {}]) /\ trouble' = TRUE
  /\ UNCHANGED <<request, input, buf, runner, late, info>>

----------------------------------------------------------------------------
Service == executeCode \/ Prepare \/ CompileDirect \/ Output \/ EndOfRun \/ Timeout \/ ReadOutputs \/ JudgeReply
Runner  == StartRunner \/ RunnerCompile \/ RunnerRun

Next == Service \/ Runner \/ LoseSandbox

Spec     == Init /\ [][Next]_vars
\* The timeouts that kill what they wait for are certain, and so is a program that
\* can go on.
FairSpec == Spec /\ WF_vars(Service) /\ WF_vars(Runner)

----------------------------------------------------------------------------
Ended == \A k \in normalizeInputs : program.runs[k].end = "exit"
Within ==
  CASE mode = "container" -> ~(Total > Limit)
    [] mode = "direct"    -> \A k \in normalizeInputs : program.runs[k].size + program.runs[k].noise <= Limit
    [] mode = "local"     -> TRUE

\* What a judge without a sandbox takes and a sandbox does not.
Admitted == mode = "local" \/ program.source # "refused"

\* A program is accepted when it is admitted, compiles and on every input ends by
\* itself, with the right answer and no more output than is allowed (where it is not
\* run in a container, in time and without a word on standard error); with no machine
\* in trouble no other is, and no such program is turned down.
AcceptedIsEarned ==
  pc = "judged" /\ (~trouble \/ info.message = "Accepted") =>
    ((info.message = "Accepted") <=>
       /\ Admitted /\ Builds /\ Ended /\ Within /\ Passed = 1..cases
       /\ mode = "container" \/ \A k \in normalizeInputs : ~program.runs[k].late)

\* In a container, the fault that a verdict names is one the program has, unless
\* a machine was in trouble or the verdict quotes the source.
BlameIsRight ==
  pc = "judged" /\ mode = "container" /\ ~trouble /\ program.source # "no go" =>
    /\ info.message = "Compile Error" => program.compile \in {"error", "loud"}
    /\ info.message = "Runtime Error" => \E k \in normalizeInputs : program.runs[k].end = "crash"
    /\ info.message = "Time Limit Exceeded" =>
         program.compile = "endless" \/ \E k \in normalizeInputs : program.runs[k].end = "endless"
    /\ info.message \in {"Partially Correct", "Wrong Answer"} => Ended

\* A score is full for what is accepted and for nothing else; otherwise it is the
\* share of the cases in whole percents, and not nothing unless there are more than
\* a hundred of them.
ScoreIsShare ==
  /\ (info.score = 100) <=> (info.message = "Accepted")
  /\ info.message = "Partially Correct" =>
       LET passed == Cardinality(Passed)
       IN /\ cases <= 100 => info.score > 0
          /\ info.score * cases <= 100 * passed /\ 100 * passed < (info.score + 1) * cases

\* A verdict, the fault it names and its score are those of the program.
VerdictIsEarned == AcceptedIsEarned /\ BlameIsRight /\ ScoreIsShare

\* A program without an end that no deadline reaches.
Hangs == mode = "local" /\ \E k \in normalizeInputs : program.runs[k].end = "endless"

\* Whatever the program does, and whatever fails, there is a verdict, unless a judge
\* without a sandbox runs a program that does not end.
EveryRequestJudged == ~Hangs ~> pc = "judged"
=============================================================================
