---------------------------- MODULE Answers_proofs ----------------------------
(****************************************************************************)
(* What is proved of the sandbox and of the events. A program is remembered *)
(* by what it has done so far: SandboxInv says, at each place of a request, *)
(* what the service may know of the runs that are over, so that a reply is  *)
(* of the program (ReplyIsEarned) before it is judged; and Buffered, that   *)
(* the buffer of a run tells whether the limit was crossed. EventInv says   *)
(* that whatever is told of a verdict, by a judge, in a channel, on a wire  *)
(* or in a list, is in its row, unless the row was taken from a judge;      *)
(* WayInv, that a verdict is never before the progress it takes the place   *)
(* of, so that the last a page receives is the verdict.                     *)
(****************************************************************************)
EXTENDS MCAnswers, SequenceTheorems, FiniteSetTheorems, TLAPS

----------------------------------------------------------------------------
(* The sandbox.                                                             *)

\* A program that may be accepted, but for the time it takes and its answers.
Sound == S!Admitted /\ S!Builds /\ S!Ended /\ S!Within

\* The buffer of a run holds what was written to it, up to the limit.
Buffered ==
  /\ buf \in [len : Nat, written : Nat, truncated : BOOLEAN]
  /\ buf.len <= Limit /\ buf.len <= buf.written
  /\ buf.truncated <=> buf.written > Limit
  /\ ~buf.truncated => buf.len = buf.written

\* Nothing has run yet.
Fresh == input = 1 /\ runner = "none" /\ ~late /\ buf.written = 0

\* What is known of a program that runs directly or locally: what ran before was
\* of no concern, and is remembered if it was late.
RunsDirectly ==
  /\ S!Admitted /\ S!Builds
  /\ buf.written <= S!Now.size + S!Now.noise
  /\ \A k \in 1..(input - 1) :
       /\ program.runs[k].end = "exit"
       /\ mode = "direct" => program.runs[k].size + program.runs[k].noise <= Limit
  /\ late <=> \E k \in 1..(input - 1) : program.runs[k].late

\* Of one in a container that is waited for.
RunsInContainer ==
  /\ program.source = "fine"
  /\ runner \in {"run", "exited", "failed"} =>
       program.compile = "ok" /\ \A k \in 1..(input - 1) : program.runs[k].end = "exit"
  /\ runner = "exited" => S!Ended
  /\ runner = "failed" => S!Now.end = "crash"
  /\ runner = "no build" => program.compile \in {"error", "loud"}

\* What the judge gets is of the program.
ReplyIsEarned ==
  /\ reply.kind \in {"ok", "told", "error"}
  /\ reply.kind = "ok" => Sound
  /\ reply.kind = "ok" /\ mode # "container" =>
       (late <=> \E k \in S!normalizeInputs : program.runs[k].late)
  /\ reply.kind # "ok" /\ ~strouble => ~Sound
  /\ reply.kind = "told" /\ mode = "container" /\ ~strouble /\ program.source # "no go" =>
       /\ "compile" \in reply.words => program.compile \in {"error", "loud"}
       /\ "runtime" \in reply.words => \E k \in S!normalizeInputs : program.runs[k].end = "crash"
       /\ reply.words = {"time"} =>
            program.compile = "endless" \/ \E k \in S!normalizeInputs : program.runs[k].end = "endless"

\* The request at its place, and what it may know there, without the verdict.
Place ==
  /\ pc # "judged" => info = [message |-> "none", score |-> 0]
  /\ pc \in {"asked", "prepare", "compile"} => Fresh
  /\ pc = "compile" => mode # "container"
  /\ pc \in {"prepare", "compile"} /\ mode # "local" => program.source = "fine"
  /\ mode # "container" => runner = "none"
  /\ mode = "container" => ~late /\ (runner \in {"none", "compile"} => input = 1)
  /\ pc = "running" => IF mode = "container" THEN RunsInContainer ELSE RunsDirectly
  /\ pc = "answered" => ReplyIsEarned

SandboxInv == Buffered /\ input \in 1..S!Last /\ Place /\ S!VerdictIsEarned

\* Inputs are numbered from one, and there is one even without cases.
LEMMA InputsNumbered ==
  ASSUME S!TypeOK
  PROVE  /\ S!Last \in 1..MaxCases /\ S!normalizeInputs = 1..S!Last
         /\ cases \in Nat /\ cases <= S!Last
<1>1. cases \in Nat /\ cases <= MaxCases /\ MaxCases \in Nat /\ MaxCases >= 1
  <2>1. cases \in 0..MaxCases
    BY DEF S!TypeOK
  <2>2. MaxCases \in Nat /\ MaxCases >= 1
    BY SandboxAssumption
  <2> QED
    BY <2>1, <2>2
<1>2. \A n \in Nat : S!Cardinality(1..n) = n
  <2>1. \A n \in Nat : Cardinality(1..n) = n
    BY FS_Interval
  <2> QED
    BY <2>1 DEF S!Cardinality, Cardinality
<1>3. CASE cases = 0
  <2>1. S!normalizeInputs = 1..1
    BY <1>3 DEF S!normalizeInputs
  <2>2. S!Last = 1
    BY <1>2, <2>1 DEF S!Last
  <2> QED
    BY <1>1, <1>3, <2>1, <2>2
<1>4. CASE cases # 0
  <2>1. S!normalizeInputs = 1..cases
    BY <1>4 DEF S!normalizeInputs
  <2>2. S!Last = cases
    BY <1>1, <1>2, <2>1 DEF S!Last
  <2> QED
    BY <1>1, <1>4, <2>1, <2>2
<1> QED
  BY <1>3, <1>4

\* What a request asks for does not change while it is served.
LEMMA RequestStands ==
  ASSUME UNCHANGED S!request
  PROVE  /\ mode' = mode /\ cases' = cases /\ program' = program
         /\ S!normalizeInputs' = S!normalizeInputs /\ S!Last' = S!Last /\ S!Passed' = S!Passed
         /\ (S!Ended' <=> S!Ended) /\ (S!Within' <=> S!Within) /\ (Sound' <=> Sound)
         /\ (S!Admitted' <=> S!Admitted) /\ (S!Builds' <=> S!Builds)
<1>1. mode' = mode /\ cases' = cases /\ program' = program
  BY DEF S!request
<1>2. S!normalizeInputs' = S!normalizeInputs
  BY <1>1 DEF S!normalizeInputs
<1>3. S!Last' = S!Last
  BY <1>2 DEF S!Last
<1>4. S!Passed' = S!Passed
  BY <1>1 DEF S!Passed
<1>5. S!Ended' <=> S!Ended
  BY <1>1, <1>2 DEF S!Ended
<1>6. S!Total' = S!Total
  BY <1>1 DEF S!Total, S!normalizeInputs, S!MapThenSumSet, S!MapThenFoldSet
<1>7. S!Within' <=> S!Within
  BY <1>1, <1>2, <1>6 DEF S!Within
<1>8. (S!Admitted' <=> S!Admitted) /\ (S!Builds' <=> S!Builds)
  BY <1>1 DEF S!Admitted, S!Builds
<1>9. Sound' <=> Sound
  BY <1>5, <1>7, <1>8 DEF Sound
<1> QED
  BY <1>1, <1>2, <1>3, <1>4, <1>5, <1>7, <1>8, <1>9

\* A verdict that is not given yet is earned, and one that is given stays so.
LEMMA NotJudged ==
  ASSUME pc' # "judged", info' = [message |-> "none", score |-> 0]
  PROVE  S!VerdictIsEarned'
BY DEF S!VerdictIsEarned, S!AcceptedIsEarned, S!BlameIsRight, S!ScoreIsShare

LEMMA VerdictStands ==
  ASSUME UNCHANGED <<S!request, pc, info, strouble>>, S!VerdictIsEarned
  PROVE  S!VerdictIsEarned'
<1>1. /\ S!AcceptedIsEarned => S!AcceptedIsEarned'
      /\ S!BlameIsRight => S!BlameIsRight'
      /\ S!ScoreIsShare => S!ScoreIsShare'
  <2>1. S!AcceptedIsEarned => S!AcceptedIsEarned'
    BY RequestStands DEF S!AcceptedIsEarned
  <2>2. S!BlameIsRight => S!BlameIsRight'
    BY RequestStands DEF S!BlameIsRight
  <2>3. S!ScoreIsShare => S!ScoreIsShare'
    <3>1. S!Cardinality(S!Passed)' = S!Cardinality(S!Passed)
      BY RequestStands
    <3> QED
      BY <3>1, RequestStands DEF S!ScoreIsShare
  <2> QED
    BY <2>1, <2>2, <2>3
<1> QED
  BY <1>1 DEF S!VerdictIsEarned

\* The verdict before there is one, and a bound.
LEMMA NoInfo == [message |-> "none", score |-> 0] \in [message : S!Messages, score : 0..100]
BY DEF S!Messages

LEMMA WithinBound == \A m \in Nat : \A l \in 1..m : \A i \in 1..l : i \in 1..(m + 1)
OBVIOUS

\* Types of what a step may change.
LEMMA SandboxTyped ==
  ASSUME S!TypeOK
  PROVE  /\ reply \in S!Reply /\ strouble \in BOOLEAN /\ late \in BOOLEAN
         /\ runner \in {"none", "compile", "run", "exited", "no build", "failed"}
         /\ program.source \in S!Sources /\ program.compile \in S!Compiles
         /\ mode \in {"container", "direct", "local"}
         /\ \A k \in 1..MaxCases : program.runs[k] \in S!Run
<1>1. /\ reply \in S!Reply /\ strouble \in BOOLEAN /\ late \in BOOLEAN
      /\ runner \in {"none", "compile", "run", "exited", "no build", "failed"}
      /\ mode \in Modes /\ Modes \subseteq {"container", "direct", "local"}
  BY DEF S!TypeOK
<1>2. /\ program \in [source : S!Sources, compile : S!Compiles, runs : [1..MaxCases -> Runs]]
      /\ Runs \subseteq S!Run
  BY DEF S!TypeOK
<1> QED
  BY <1>1, <1>2

\* Types, without the request's.
LEMMA TypeStands ==
  ASSUME S!TypeOK, UNCHANGED S!request, Buffered', input' \in 1..S!Last,
         pc' \in {"asked", "prepare", "compile", "running", "answered", "judged"},
         runner' \in {"none", "compile", "run", "exited", "no build", "failed"},
         reply' \in S!Reply, info' \in [message : S!Messages, score : 0..100],
         late' \in BOOLEAN, strouble' \in BOOLEAN
  PROVE  S!TypeOK'
<1>1. input' \in 1..(MaxCases + 1)
  <2>1. S!Last \in 1..MaxCases /\ MaxCases \in Nat
    BY InputsNumbered, SandboxAssumption
  <2> QED
    BY <2>1, WithinBound
<1>2. buf'.len <= Limit /\ buf'.len <= buf'.written /\ (~buf'.truncated => buf'.len = buf'.written)
  BY DEF Buffered
<1> QED
  BY <1>1, <1>2 DEF S!TypeOK, S!request

\* Steps of the service that answer, or go on to the next place.
LEMMA ServiceStands ==
  ASSUME S!TypeOK, SandboxInv, UNCHANGED <<S!request, info>>, Buffered', input' \in 1..S!Last,
         pc # "judged", pc' \in {"asked", "prepare", "compile", "running", "answered"},
         runner' \in {"none", "compile", "run", "exited", "no build", "failed"},
         reply' \in S!Reply, late' \in BOOLEAN, strouble' \in BOOLEAN, Place'
  PROVE  S!TypeOK' /\ SandboxInv'
<1>1. info' = [message |-> "none", score |-> 0] /\ info' \in [message : S!Messages, score : 0..100]
  <2>1. info = [message |-> "none", score |-> 0]
    BY DEF SandboxInv, Place
  <2> QED
    BY <2>1, NoInfo
<1>2. S!TypeOK'
  BY <1>1, TypeStands
<1>3. S!VerdictIsEarned'
  BY <1>1, NotJudged
<1> QED
  BY <1>2, <1>3, RequestStands DEF SandboxInv

\* The service looks at the request.
LEMMA ExecuteCodeKept ==
  ASSUME S!TypeOK, SandboxInv, S!executeCode
  PROVE  S!TypeOK' /\ SandboxInv'
<1>0. {} \subseteq S!Words
  OBVIOUS
<1>1. /\ UNCHANGED S!request /\ UNCHANGED <<info, input, buf, runner, late, strouble>>
      /\ pc = "asked" /\ pc' \in {"prepare", "answered"}
      /\ pc' = "answered" => mode # "local" /\ program.source \in {"refused", "no go"}
      /\ pc' = "answered" => reply' \in S!Reply /\ reply'.kind = "told"
      /\ pc' = "answered" /\ program.source = "refused" => reply'.words = {}
      /\ pc' = "prepare" => reply' = reply /\ (mode # "local" => program.source = "fine")
  <2>1. CASE mode # "local" /\ program.source = "refused" /\ S!Tell({})
    BY <1>0, <2>1 DEF S!executeCode, S!Tell, S!Answer, S!Reply
  <2>2. CASE mode # "local" /\ program.source = "no go" /\ \E w \in SUBSET S!Words : S!Tell(w)
    <3>1. PICK w \in SUBSET S!Words : S!Tell(w)
      BY <2>2
    <3> QED
      BY <2>2, <3>1 DEF S!executeCode, S!Tell, S!Answer, S!Reply
  <2>3. CASE (mode = "local" \/ program.source = "fine") /\ pc' = "prepare" /\ UNCHANGED reply
    BY <2>3 DEF S!executeCode
  <2> QED
    BY <2>1, <2>2, <2>3 DEF S!executeCode
<1>2. reply' \in S!Reply
  <2>1. reply \in S!Reply
    BY SandboxTyped
  <2> QED
    BY <1>1, <2>1
<1>3. Buffered' /\ input' \in 1..S!Last
  BY <1>1 DEF SandboxInv, Buffered
<1>4. Place'
  <2>1. pc' = "answered" => ReplyIsEarned'
    <3> SUFFICES ASSUME pc' = "answered"
                 PROVE  ReplyIsEarned'
      OBVIOUS
    <3>1. mode # "local" /\ program.source \in {"refused", "no go"}
          /\ (program.source = "refused" => reply'.words = {})
      BY <1>1
    <3>2. reply'.kind = "told"
      BY <1>1
    <3>3. ~Sound'
      BY <1>1, <3>1, RequestStands DEF Sound, S!Admitted, S!Builds
    <3>4. program'.source # "no go" => "compile" \notin reply'.words /\ "runtime" \notin reply'.words
                                       /\ reply'.words # {"time"}
      BY <1>1, <3>1, RequestStands
    <3> QED
      BY <3>2, <3>3, <3>4 DEF ReplyIsEarned
  <2>2. Fresh' /\ info' = [message |-> "none", score |-> 0] /\ (mode # "container" => runner' = "none")
        /\ (mode = "container" => ~late' /\ input' = 1)
    BY <1>1 DEF SandboxInv, Place, Fresh
  <2>3. program.source \in S!Sources
    BY SandboxTyped
  <2> QED
    BY <1>1, <2>1, <2>2, <2>3, RequestStands DEF Place, S!Sources
<1> QED
  BY <1>1, <1>2, <1>3, <1>4, SandboxTyped, ServiceStands

\* The working directory is made, or is not.
LEMMA PrepareKept ==
  ASSUME S!TypeOK, SandboxInv, S!Prepare
  PROVE  S!TypeOK' /\ SandboxInv'
<1> USE DEF S!Prepare, S!Refuse, S!Tell, S!Answer
<1>1. /\ UNCHANGED S!request /\ UNCHANGED <<info, input, buf, runner, late>>
      /\ pc = "prepare"
      /\ \/ /\ pc' = (IF mode = "container" THEN "running" ELSE "compile")
            /\ reply' = reply /\ strouble' = strouble
         \/ /\ pc' = "answered" /\ strouble' = TRUE
            /\ reply'.kind = (IF mode = "local" THEN "error" ELSE "told") /\ reply'.words = {}
  OBVIOUS
<1>2. reply' \in S!Reply /\ strouble' \in BOOLEAN
  <2>1. reply \in S!Reply /\ strouble \in BOOLEAN
    BY SandboxTyped
  <2>2. strouble' \in BOOLEAN
    BY <1>1, <2>1
  <2> QED
    BY <2>1, <2>2 DEF S!Reply
<1>3. Buffered' /\ input' \in 1..S!Last
  BY <1>1 DEF SandboxInv, Buffered
<1>4. Place'
  <2>1. pc' = "answered" => ReplyIsEarned'
    BY <1>1, RequestStands DEF ReplyIsEarned
  <2>2. Fresh' /\ info' = [message |-> "none", score |-> 0] /\ runner' = "none"
        /\ (mode # "local" => program.source = "fine")
    BY <1>1 DEF SandboxInv, Place, Fresh
  <2>3. pc' = "running" => mode = "container" /\ RunsInContainer'
    BY <1>1, <2>2, RequestStands DEF RunsInContainer
  <2> QED
    BY <1>1, <2>1, <2>2, <2>3, RequestStands DEF Place, Fresh
<1> QED
  BY <1>1, <1>2, <1>3, <1>4, SandboxTyped, ServiceStands

\* What is said of a program's run at the input it is at.
LEMMA RunKnown ==
  ASSUME S!TypeOK, SandboxInv
  PROVE  /\ S!Now.size \in Nat /\ S!Now.noise \in Nat /\ S!Now.late \in BOOLEAN
         /\ S!Now.end \in {"exit", "crash", "endless"} /\ S!Now.says \subseteq S!Words
         /\ input \in S!normalizeInputs
<1>1. input \in 1..S!Last /\ S!Last \in 1..MaxCases /\ S!normalizeInputs = 1..S!Last
  BY InputsNumbered DEF SandboxInv
<1>2. input \in 1..MaxCases
  BY <1>1, SandboxAssumption
<1>3. S!Now \in S!Run
  BY <1>2, SandboxTyped DEF S!Now
<1> QED
  BY <1>1, <1>3 DEF S!Run

\* A piece that is written is kept up to the limit.
LEMMA WriteArithmetic ==
  \A l, w, p, n, b \in Nat :
    l <= b /\ l <= w /\ p <= n - w =>
      /\ l + p \in Nat /\ w + p \in Nat /\ w + p <= n
      /\ (p > b - l <=> l + p > b)
      /\ (l = w /\ p > b - l => w + p > b)
      /\ (l = w /\ ~(p > b - l) => ~(w + p > b) /\ l + p <= b /\ l + p <= w + p)
      /\ (w > b => w + p > b)
      /\ l <= w + p
      /\ b - l \in Nat /\ l + (b - l) = b /\ (w + p > b => b <= w + p)
OBVIOUS

LEMMA WriteBounded ==
  ASSUME Buffered, S!Now.size \in Nat, S!Now.noise \in Nat, NEW p \in 1..S!Pending, S!Write(p)
  PROVE  Buffered' /\ buf'.written <= S!Now.size + S!Now.noise
<1> DEFINE l == buf.len
           w == buf.written
           n == S!Now.size + S!Now.noise
<1>1. /\ buf \in [len : Nat, written : Nat, truncated : BOOLEAN] /\ Limit \in Nat
  BY SandboxAssumption DEF Buffered
<1>2. /\ l \in Nat /\ w \in Nat /\ l <= Limit /\ l <= w
      /\ (buf.truncated <=> w > Limit) /\ (~buf.truncated => l = w) /\ buf.truncated \in BOOLEAN
  BY <1>1 DEF Buffered
<1>3. n \in Nat /\ p \in Nat /\ p <= n - w
  BY <1>2 DEF S!Pending
<1>4. /\ buf'.len = (IF buf.truncated THEN l ELSE l + (IF p > Limit - l THEN Limit - l ELSE p))
      /\ buf'.written = w + p
      /\ (buf'.truncated <=> (buf.truncated \/ p > Limit - l))
      /\ buf' = [len |-> buf'.len, written |-> buf'.written, truncated |-> buf'.truncated]
      /\ buf'.truncated \in BOOLEAN
  BY <1>2 DEF S!Write
<1> HIDE DEF l, w, n
<1>5. /\ l + p \in Nat /\ w + p \in Nat /\ w + p <= n
      /\ (p > Limit - l <=> l + p > Limit)
      /\ (l = w /\ p > Limit - l => w + p > Limit)
      /\ (l = w /\ ~(p > Limit - l) => ~(w + p > Limit) /\ l + p <= Limit /\ l + p <= w + p)
      /\ (w > Limit => w + p > Limit)
      /\ l <= w + p
      /\ Limit - l \in Nat /\ l + (Limit - l) = Limit /\ (w + p > Limit => Limit <= w + p)
  BY <1>1, <1>2, <1>3, WriteArithmetic
<1>6. buf'.len \in Nat /\ buf'.written \in Nat /\ buf' \in [len : Nat, written : Nat, truncated : BOOLEAN]
  <2>1. buf'.len \in Nat /\ buf'.written \in Nat
    BY <1>1, <1>2, <1>4, <1>5
  <2> QED
    BY <2>1, <1>4
<1>7. buf'.truncated <=> buf'.written > Limit
  BY <1>2, <1>4, <1>5
<1>8. ~buf'.truncated => buf'.len = buf'.written
  BY <1>2, <1>4, <1>5
<1>9. buf'.len <= Limit /\ buf'.len <= buf'.written
  BY <1>1, <1>2, <1>4, <1>5
<1>10. buf'.written <= n
  BY <1>4, <1>5
<1>11. Buffered'
  BY <1>6, <1>7, <1>8, <1>9 DEF Buffered
<1> QED
  BY <1>10, <1>11 DEF n

\* Directly or locally the program is compiled.
LEMMA CompileDirectKept ==
  ASSUME S!TypeOK, SandboxInv, S!CompileDirect
  PROVE  S!TypeOK' /\ SandboxInv'
<1> USE DEF S!CompileDirect, S!Refuse, S!Tell, S!Answer
<1>1. /\ UNCHANGED S!request /\ UNCHANGED <<info, input, buf, runner, late>>
      /\ pc = "compile"
      /\ \/ pc' = "running" /\ reply' = reply /\ S!Builds /\ strouble' = strouble
         \/ /\ pc' = "answered" /\ reply'.kind = (IF mode = "local" THEN "error" ELSE "told")
            /\ reply' \in S!Reply
            /\ \/ strouble' = strouble /\ ~S!Builds
               \/ strouble' = (strouble \/ program.compile # "endless")
  BY DEF S!Reply, S!Words
<1>2. reply' \in S!Reply /\ strouble' \in BOOLEAN
  <2>1. reply \in S!Reply /\ strouble \in BOOLEAN
    BY SandboxTyped
  <2>2. reply' \in S!Reply
    BY <1>1, <2>1
  <2>3. strouble' \in BOOLEAN
    BY <1>1, <2>1
  <2> QED
    BY <2>2, <2>3
<1>3. Buffered' /\ input' \in 1..S!Last
  BY <1>1 DEF SandboxInv, Buffered
<1>4. Place'
  <2>1. mode # "container" /\ Fresh /\ info = [message |-> "none", score |-> 0] /\ runner = "none"
    BY <1>1 DEF SandboxInv, Place
  <2>2. pc' = "answered" => ReplyIsEarned'
    <3> SUFFICES ASSUME pc' = "answered"
                 PROVE  ReplyIsEarned'
      OBVIOUS
    <3>1. ~strouble' => ~S!Builds
      BY <1>1 DEF S!Builds
    <3>2. ~strouble' => ~Sound'
      BY <1>1, <3>1, RequestStands DEF Sound
    <3> QED
      BY <1>1, <2>1, <3>2, RequestStands DEF ReplyIsEarned
  <2>3. pc' = "running" => RunsDirectly'
    <3> SUFFICES ASSUME pc' = "running"
                 PROVE  RunsDirectly'
      OBVIOUS
    <3>1. S!Admitted /\ S!Builds
      <4>1. mode # "local" => program.source = "fine"
        BY <1>1 DEF SandboxInv, Place
      <4> QED
        BY <1>1, <4>1 DEF S!Admitted
    <3>2. S!Now' = S!Now /\ S!Now.size \in Nat /\ S!Now.noise \in Nat
      BY <1>1, RunKnown, RequestStands DEF S!Now
    <3>3. buf'.written <= S!Now'.size + S!Now'.noise
      BY <1>1, <2>1, <3>2 DEF Fresh
    <3>4. input' = 1 /\ ~late'
      BY <1>1, <2>1 DEF Fresh
    <3> QED
      BY <1>1, <3>1, <3>3, <3>4, RequestStands DEF RunsDirectly
  <2> QED
    BY <1>1, <2>1, <2>2, <2>3, RequestStands DEF Place, Fresh
<1> QED
  BY <1>1, <1>2, <1>3, <1>4, SandboxTyped, ServiceStands

\* A piece of output.
LEMMA OutputKept ==
  ASSUME S!TypeOK, SandboxInv, S!Output
  PROVE  S!TypeOK' /\ SandboxInv'
<1> USE DEF S!Output
<1>1. /\ UNCHANGED S!request /\ UNCHANGED <<info, input, pc, runner, late, reply, strouble>>
      /\ pc = "running" /\ mode # "container"
  OBVIOUS
<1>2. PICK p \in 1..S!Pending : S!Write(p)
  OBVIOUS
<1>3. S!Now' = S!Now
  BY <1>1, RequestStands DEF S!Now
<1>4. Buffered /\ buf.written <= S!Now.size + S!Now.noise
  BY <1>1 DEF SandboxInv, Place, RunsDirectly
<1>5. S!Now.size \in Nat /\ S!Now.noise \in Nat
  BY RunKnown
<1>6. Buffered' /\ buf'.written <= S!Now.size + S!Now.noise
  BY <1>2, <1>4, <1>5, WriteBounded
<1>7. Place'
  BY <1>1, <1>3, <1>6, RequestStands DEF SandboxInv, Place, RunsDirectly
<1> QED
  BY <1>1, <1>6, <1>7, SandboxTyped, ServiceStands DEF SandboxInv

\* A run ends.
LEMMA EndOfRunKept ==
  ASSUME S!TypeOK, SandboxInv, S!EndOfRun
  PROVE  S!TypeOK' /\ SandboxInv'
<1> USE DEF S!EndOfRun, S!Refuse, S!Tell, S!Answer
<1>1. /\ UNCHANGED S!request /\ UNCHANGED <<info, runner, strouble>>
      /\ pc = "running" /\ mode # "container" /\ S!Pending = 0 /\ S!Now.end # "endless"
      /\ late' = (late \/ S!Now.late)
  OBVIOUS
<1>2. \/ /\ S!TooMuch \/ S!Now.end = "crash"
         /\ pc' = "answered" /\ input' = input /\ buf' = buf
         /\ reply'.kind = (IF mode = "local" THEN "error" ELSE "told") /\ reply' \in S!Reply
      \/ /\ ~S!TooMuch /\ S!Now.end = "exit" /\ input < S!Last
         /\ pc' = "running" /\ input' = input + 1 /\ reply' = reply
         /\ buf' = [len |-> 0, written |-> 0, truncated |-> FALSE]
      \/ /\ ~S!TooMuch /\ S!Now.end = "exit" /\ ~(input < S!Last)
         /\ pc' = "answered" /\ input' = input /\ buf' = buf
         /\ reply'.kind = "ok" /\ reply' \in S!Reply
  <2>1. S!Now.end \in {"exit", "crash", "endless"} /\ S!Now.says \subseteq S!Words
    BY RunKnown
  <2>2. CASE S!TooMuch
    BY <2>2 DEF S!Reply, S!Words
  <2>3. CASE ~S!TooMuch /\ S!Now.end = "crash"
    BY <2>1, <2>3 DEF S!Reply, S!Words
  <2>4. CASE ~S!TooMuch /\ S!Now.end = "exit" /\ input < S!Last
    BY <2>4
  <2>5. CASE ~S!TooMuch /\ S!Now.end = "exit" /\ ~(input < S!Last)
    BY <2>5 DEF S!Reply, S!Words
  <2> QED
    BY <1>1, <2>1, <2>2, <2>3, <2>4, <2>5
<1>3. RunsDirectly /\ Buffered /\ runner = "none" /\ info = [message |-> "none", score |-> 0]
  BY <1>1 DEF SandboxInv, Place
<1>4. buf.written = S!Now.size + S!Now.noise /\ S!Now.size \in Nat /\ S!Now.noise \in Nat
  <2>1. buf.written \in Nat
    BY <1>3 DEF Buffered
  <2> QED
    BY <1>1, <2>1, RunKnown DEF S!Pending
<1>5. mode = "direct" => (S!TooMuch <=> S!Now.size + S!Now.noise > Limit)
  BY <1>3, <1>4 DEF S!TooMuch, Buffered
<1>6. /\ input \in 1..S!Last /\ S!Last \in Nat /\ S!normalizeInputs = 1..S!Last /\ Limit \in Nat
  BY InputsNumbered, SandboxAssumption DEF SandboxInv
<1>7. late' \in BOOLEAN
  BY <1>1, SandboxTyped, RunKnown
\* What is known of the inputs up to this one.
<1>8. \A k \in 1..input : k \in 1..(input - 1) \/ k = input
  BY <1>6
<1>9. late' <=> \E k \in 1..input : program.runs[k].late
  <2>1. late <=> \E k \in 1..(input - 1) : program.runs[k].late
    BY <1>3 DEF RunsDirectly
  <2>2. input \in 1..input /\ \A k \in 1..(input - 1) : k \in 1..input
    BY <1>6
  <2> QED
    BY <1>1, <1>8, <2>1, <2>2 DEF S!Now
<1>10. ASSUME ~S!TooMuch, S!Now.end = "exit"
       PROVE  \A k \in 1..input : /\ program.runs[k].end = "exit"
                                  /\ mode = "direct" => program.runs[k].size + program.runs[k].noise <= Limit
  <2>1. mode = "direct" => S!Now.size + S!Now.noise <= Limit
    BY <1>4, <1>5, <1>6, <1>10
  <2> QED
    BY <1>3, <1>8, <1>10, <2>1 DEF RunsDirectly, S!Now
<1>11. CASE (S!TooMuch \/ S!Now.end = "crash") /\ pc' = "answered"
            /\ input' = input /\ buf' = buf /\ reply' \in S!Reply
            /\ reply'.kind = (IF mode = "local" THEN "error" ELSE "told")
  <2>1. ~Sound
    <3>1. input \in S!normalizeInputs
      BY RunKnown
    <3>2. S!Now.end = "crash" => ~S!Ended
      BY <3>1 DEF S!Ended, S!Now
    <3>3. S!TooMuch => mode = "direct" /\ S!Now.size + S!Now.noise > Limit
      BY <1>5 DEF S!TooMuch
    <3>4. S!TooMuch => ~S!Within
      <4>1. S!Now.size + S!Now.noise > Limit => ~(S!Now.size + S!Now.noise <= Limit)
        BY <1>4, <1>6
      <4> QED
        BY <3>1, <3>3, <4>1 DEF S!Within, S!Now
    <3> QED
      BY <1>11, <3>2, <3>4 DEF Sound
  <2>2. ReplyIsEarned'
    BY <1>1, <1>11, <2>1, RequestStands DEF ReplyIsEarned
  <2>3. Buffered' /\ Place'
    BY <1>1, <1>3, <1>11, <2>2, RequestStands DEF Place, Buffered
  <2> QED
    BY <1>1, <1>6, <1>7, <1>11, <2>3, SandboxTyped, ServiceStands
<1>12. CASE /\ ~S!TooMuch /\ S!Now.end = "exit" /\ input < S!Last
            /\ pc' = "running" /\ input' = input + 1 /\ reply' = reply
            /\ buf' = [len |-> 0, written |-> 0, truncated |-> FALSE]
  <2>1. input' \in 1..S!Last /\ input' - 1 = input
    BY <1>6, <1>12
  <2>2. Buffered'
    BY <1>6, <1>12 DEF Buffered
  <2>3. RunsDirectly'
    <3>1. input' \in 1..MaxCases
      BY <2>1, InputsNumbered, SandboxAssumption
    <3>2. program.runs[input'].size \in Nat /\ program.runs[input'].noise \in Nat
      BY <3>1, SandboxTyped DEF S!Run
    <3>3. buf'.written <= S!Now'.size + S!Now'.noise
      BY <1>1, <1>12, <3>2, RequestStands DEF S!Now
    <3>4. S!Admitted /\ S!Builds
      BY <1>3 DEF RunsDirectly
    <3> QED
      BY <1>1, <1>9, <1>10, <1>12, <2>1, <3>3, <3>4, RequestStands DEF RunsDirectly
  <2>4. Place'
    BY <1>1, <1>3, <1>12, <2>3, RequestStands DEF Place
  <2> QED
    BY <1>1, <1>7, <1>12, <2>1, <2>2, <2>4, SandboxTyped, ServiceStands
<1>13. CASE /\ ~S!TooMuch /\ S!Now.end = "exit" /\ ~(input < S!Last)
            /\ pc' = "answered" /\ input' = input /\ buf' = buf
            /\ reply'.kind = "ok" /\ reply' \in S!Reply
  <2>1. input = S!Last
    BY <1>6, <1>13
  <2>2. Sound
    <3>1. S!Ended
      BY <1>6, <1>10, <1>13, <2>1 DEF S!Ended
    <3>2. S!Within
      <4>1. mode \in {"direct", "local"}
        BY <1>1, SandboxTyped
      <4> QED
        BY <1>6, <1>10, <1>13, <2>1, <4>1 DEF S!Within
    <3> QED
      BY <1>3, <3>1, <3>2 DEF Sound, RunsDirectly
  <2>3. ReplyIsEarned'
    BY <1>1, <1>6, <1>9, <1>13, <2>1, <2>2, RequestStands DEF ReplyIsEarned
  <2>4. Buffered' /\ Place'
    BY <1>1, <1>3, <1>13, <2>3, RequestStands DEF Place, Buffered
  <2> QED
    BY <1>1, <1>6, <1>7, <1>13, <2>4, SandboxTyped, ServiceStands
<1> QED
  BY <1>2, <1>11, <1>12, <1>13

\* What runs is killed.
LEMMA TimeoutKept ==
  ASSUME S!TypeOK, SandboxInv, S!Timeout
  PROVE  S!TypeOK' /\ SandboxInv'
<1> USE DEF S!Timeout, S!Refuse, S!Tell, S!Answer
<1>1. /\ UNCHANGED S!request /\ UNCHANGED <<info, input, buf, runner, late>>
      /\ pc = "running" /\ pc' = "answered" /\ reply' \in S!Reply
      /\ reply'.kind = (IF mode = "local" THEN "error" ELSE "told")
      /\ mode # "local" => reply'.words = {"time"}
      /\ strouble' = (strouble \/ ~(\/ mode = "direct" /\ S!Now.end = "endless"
                                    \/ runner = "compile" /\ program.compile = "endless"
                                    \/ runner = "run" /\ S!Now.end = "endless"))
  BY DEF S!Reply, S!Words
<1>2. strouble' \in BOOLEAN
  BY <1>1, SandboxTyped
<1>3. /\ info = [message |-> "none", score |-> 0] /\ (mode # "container" => runner = "none")
      /\ mode = "container" => ~late /\ (runner \in {"none", "compile"} => input = 1)
      /\ Buffered /\ input \in 1..S!Last
  BY <1>1 DEF SandboxInv, Place
<1>4. input \in S!normalizeInputs
  BY RunKnown
<1>5. ~strouble' => program.compile = "endless" \/ S!Now.end = "endless"
  BY <1>1
<1>6. S!Now.end = "endless" => ~S!Ended /\ \E k \in S!normalizeInputs : program.runs[k].end = "endless"
  BY <1>4 DEF S!Now, S!Ended
<1>7. ReplyIsEarned'
  BY <1>1, <1>5, <1>6, RequestStands DEF ReplyIsEarned, Sound, S!Builds
<1>8. Buffered' /\ Place'
  BY <1>1, <1>3, <1>7, RequestStands DEF Place, Buffered
<1> QED
  BY <1>1, <1>2, <1>3, <1>8, SandboxTyped, ServiceStands

\* The sandbox is lost.
LEMMA LoseSandboxKept ==
  ASSUME S!TypeOK, SandboxInv, S!LoseSandbox
  PROVE  S!TypeOK' /\ SandboxInv'
<1> USE DEF S!LoseSandbox, S!Answer
<1>1. /\ UNCHANGED S!request /\ UNCHANGED <<info, input, buf, runner, late>>
      /\ pc \in {"asked", "prepare", "compile", "running"} /\ pc' = "answered" /\ reply' \in S!Reply
      /\ reply'.kind = "error" /\ strouble' = TRUE
  BY DEF S!Reply, S!Words
<1>3. /\ info = [message |-> "none", score |-> 0] /\ (mode # "container" => runner = "none")
      /\ mode = "container" => ~late /\ (runner \in {"none", "compile"} => input = 1)
      /\ Buffered /\ input \in 1..S!Last
  BY <1>1 DEF SandboxInv, Place
<1>7. ReplyIsEarned'
  BY <1>1 DEF ReplyIsEarned
<1>8. Buffered' /\ Place'
  BY <1>1, <1>3, <1>7, RequestStands DEF Place, Buffered
<1> QED
  BY <1>1, <1>3, <1>8, SandboxTyped, ServiceStands

\* The container is started, or is not.
LEMMA StartRunnerKept ==
  ASSUME S!TypeOK, SandboxInv, S!StartRunner
  PROVE  S!TypeOK' /\ SandboxInv'
<1> USE DEF S!StartRunner, S!Tell, S!Answer
<1>1. /\ UNCHANGED S!request /\ UNCHANGED <<info, input, buf, late>>
      /\ pc = "running" /\ mode = "container" /\ runner = "none"
      /\ \/ /\ runner' = "compile" /\ pc' = pc /\ reply' = reply /\ strouble' = strouble
         \/ /\ runner' = runner /\ pc' = "answered" /\ reply'.kind = "told" /\ reply' \in S!Reply
            /\ strouble' = TRUE
  BY DEF S!Reply, S!Words
<1>2. strouble' \in BOOLEAN /\ reply' \in S!Reply
  BY <1>1, SandboxTyped
<1>3. /\ info = [message |-> "none", score |-> 0] /\ ~late /\ input = 1
      /\ Buffered /\ input \in 1..S!Last /\ RunsInContainer
  BY <1>1 DEF SandboxInv, Place
<1>4. pc' = "answered" => ReplyIsEarned'
  BY <1>1 DEF ReplyIsEarned
<1>5. pc' = "running" => RunsInContainer'
  BY <1>1, <1>3, RequestStands DEF RunsInContainer
<1>6. Buffered' /\ Place'
  BY <1>1, <1>3, <1>4, <1>5, RequestStands DEF Place, Buffered
<1> QED
  BY <1>1, <1>2, <1>3, <1>6, SandboxTyped, ServiceStands

\* Steps of the container, which goes on whether it is waited for or not.
LEMMA RunnerStands ==
  ASSUME S!TypeOK, SandboxInv, UNCHANGED <<S!request, pc, buf, late, reply, info, strouble>>,
         mode = "container", pc \in {"running", "answered", "judged"},
         input' \in 1..S!Last, runner' \in {"run", "exited", "no build", "failed"},
         pc = "running" => RunsInContainer'
  PROVE  S!TypeOK' /\ SandboxInv'
<1>1. Buffered'
  BY DEF SandboxInv, Buffered
<1>2. S!VerdictIsEarned'
  BY VerdictStands DEF SandboxInv
<1>3. pc = "answered" => ReplyIsEarned'
  BY RequestStands DEF SandboxInv, Place, ReplyIsEarned
<1>4. Place'
  BY <1>3, RequestStands DEF SandboxInv, Place
<1>5. S!TypeOK'
  <2>1. info \in [message : S!Messages, score : 0..100]
    BY DEF S!TypeOK
  <2> QED
    BY <1>1, <2>1, TypeStands, SandboxTyped
<1> QED
  BY <1>1, <1>2, <1>4, <1>5, RequestStands DEF SandboxInv

LEMMA RunnerCompileKept ==
  ASSUME S!TypeOK, SandboxInv, S!RunnerCompile
  PROVE  S!TypeOK' /\ SandboxInv'
<1> USE DEF S!RunnerCompile
<1>1. /\ UNCHANGED <<S!request, pc, buf, late, reply, info, strouble>> /\ input' = input
      /\ runner = "compile" /\ program.compile # "endless"
      /\ \/ runner' = (IF program.compile = "ok" THEN "run" ELSE "no build")
         \/ pc # "running" /\ runner' = "failed"
  OBVIOUS
<1>2. /\ mode = "container" /\ pc \notin {"asked", "prepare", "compile"} /\ input = 1
      /\ (pc = "running" => RunsInContainer) /\ input \in 1..S!Last
  BY <1>1 DEF SandboxInv, Place, Fresh
<1>3. pc \in {"running", "answered", "judged"}
  BY <1>2 DEF S!TypeOK
<1>4. pc = "running" => RunsInContainer'
  <2>1. program.compile \in S!Compiles
    BY SandboxTyped
  <2>2. \A k \in 1..(input - 1) : FALSE
    <3>1. input = 1
      BY <1>2
    <3> QED
      BY ONLY <3>1
  <2> QED
    BY <1>1, <1>2, <2>1, <2>2, RequestStands DEF RunsInContainer, S!Compiles
<1>5. input' \in 1..S!Last
  BY <1>1, <1>2, RequestStands
<1> QED
  BY <1>1, <1>2, <1>3, <1>4, <1>5, RunnerStands

LEMMA RunnerRunKept ==
  ASSUME S!TypeOK, SandboxInv, S!RunnerRun
  PROVE  S!TypeOK' /\ SandboxInv'
<1> USE DEF S!RunnerRun
<1>1. /\ UNCHANGED <<S!request, pc, buf, late, reply, info, strouble>>
      /\ runner = "run"
      /\ \/ (S!Now.end = "crash" \/ pc # "running") /\ runner' = "failed" /\ input' = input
         \/ S!Now.end = "exit" /\ input < S!Last /\ input' = input + 1 /\ runner' = runner
         \/ S!Now.end = "exit" /\ input = S!Last /\ runner' = "exited" /\ input' = input
  OBVIOUS
<1>2. /\ mode = "container" /\ pc \notin {"asked", "prepare", "compile"}
      /\ (pc = "running" => RunsInContainer)
  BY <1>1 DEF SandboxInv, Place, Fresh
<1>3. pc \in {"running", "answered", "judged"}
  BY <1>2 DEF S!TypeOK
<1>4. input \in 1..S!Last /\ S!Last \in Nat /\ S!normalizeInputs = 1..S!Last
  BY InputsNumbered, SandboxAssumption DEF SandboxInv
<1>5. input' \in 1..S!Last
  BY <1>1, <1>4
<1>6. \A k \in 1..input : k \in 1..(input - 1) \/ k = input
  BY <1>4
<1>7. input' = input + 1 => input' - 1 = input
  BY <1>4
<1>8. pc = "running" => RunsInContainer'
  <2> SUFFICES ASSUME pc = "running"
               PROVE  RunsInContainer'
    OBVIOUS
  <2>1. /\ program.source = "fine" /\ program.compile = "ok"
        /\ \A k \in 1..(input - 1) : program.runs[k].end = "exit"
    BY <1>1, <1>2 DEF RunsInContainer
  <2>2. S!Now.end = "exit" => \A k \in 1..input : program.runs[k].end = "exit"
    BY <1>6, <2>1 DEF S!Now
  <2>3. runner' = "exited" => S!Ended
    BY <1>1, <1>4, <2>2 DEF S!Ended
  <2>4. input' = input => S!Now' = S!Now
    BY <1>1, RequestStands DEF S!Now
  <2>5. \A k \in 1..(input' - 1) : program.runs[k].end = "exit"
    BY <1>1, <1>7, <2>1, <2>2
  <2>6. runner' = "failed" => S!Now'.end = "crash"
    BY <1>1, <2>4
  <2> QED
    BY <1>1, <2>1, <2>3, <2>5, <2>6, RequestStands DEF RunsInContainer
<1> QED
  BY <1>1, <1>2, <1>3, <1>5, <1>8, RunnerStands

\* The outputs are read, once the container has stopped.
LEMMA ReadOutputsKept ==
  ASSUME S!TypeOK, SandboxInv, S!ReadOutputs
  PROVE  S!TypeOK' /\ SandboxInv'
<1>1. /\ UNCHANGED S!request /\ UNCHANGED <<info, input, buf, runner, late, strouble>>
      /\ pc = "running" /\ pc' = "answered" /\ runner \in {"exited", "no build", "failed"}
  BY DEF S!ReadOutputs, S!Tell, S!Answer
<1>2. \/ runner = "no build" /\ reply'.kind = "told" /\ reply'.words = {"compile"} /\ reply' \in S!Reply
      \/ runner = "failed" /\ reply'.kind = "told" /\ reply'.words = {"runtime", "time"} /\ reply' \in S!Reply
      \/ runner = "exited" /\ S!Total > Limit /\ reply'.kind = "told" /\ reply'.words = {} /\ reply' \in S!Reply
      \/ runner = "exited" /\ ~(S!Total > Limit) /\ reply'.kind = "ok" /\ reply'.words = {} /\ reply' \in S!Reply
  <2>1. CASE runner = "no build"
    <3>1. reply' = [kind |-> "told", words |-> {"compile"}]
      BY <2>1 DEF S!ReadOutputs, S!Tell, S!Answer
    <3> QED
      BY <2>1, <3>1 DEF S!Reply, S!Words
  <2>2. CASE runner = "failed"
    <3>1. reply' = [kind |-> "told", words |-> {"runtime", "time"}]
      BY <2>2 DEF S!ReadOutputs, S!Tell, S!Answer
    <3> QED
      BY <2>2, <3>1 DEF S!Reply, S!Words
  <2>3. CASE runner = "exited"
    BY <2>3 DEF S!ReadOutputs, S!Tell, S!Answer, S!Reply, S!Words
  <2> QED
    BY <1>1, <2>1, <2>2, <2>3
<1>3. mode = "container" /\ RunsInContainer /\ ~late /\ Buffered /\ input \in 1..S!Last
      /\ info = [message |-> "none", score |-> 0]
  BY <1>1 DEF SandboxInv, Place
<1>4. runner = "no build" => program.compile \in {"error", "loud"}
  BY <1>3 DEF RunsInContainer
<1>5. runner = "failed" => ~S!Ended /\ \E k \in S!normalizeInputs : program.runs[k].end = "crash"
  BY <1>3, RunKnown DEF RunsInContainer, S!Ended, S!Now
<1>6. runner = "exited" => (Sound <=> ~(S!Total > Limit))
  BY <1>3 DEF RunsInContainer, Sound, S!Within, S!Admitted, S!Builds
<1>7. ReplyIsEarned'
  <2>1. runner = "no build" => ~Sound
    BY <1>4 DEF Sound, S!Builds
  <2>2. runner = "failed" => ~Sound
    BY <1>5 DEF Sound
  <2>3. reply'.kind = "ok" => Sound
    BY <1>2, <1>6
  <2>4. reply'.kind # "ok" => ~Sound
    BY <1>2, <1>6, <2>1, <2>2
  <2>5. "compile" \in reply'.words => program.compile \in {"error", "loud"}
    <3>1. reply'.words = {"compile"} \/ reply'.words = {"runtime", "time"} \/ reply'.words = {}
      BY <1>2
    <3>2. reply'.words = {"compile"} => runner = "no build"
      BY <1>2
    <3>3. "compile" \in reply'.words => reply'.words = {"compile"}
      BY <3>1
    <3> QED
      BY <1>4, <3>2, <3>3
  <2>6. "runtime" \in reply'.words => \E k \in S!normalizeInputs : program.runs[k].end = "crash"
    BY <1>2, <1>5
  <2>7. reply'.words # {"time"} /\ reply'.kind \in {"ok", "told"}
    BY <1>2
  <2> QED
    BY <1>1, <1>3, <2>3, <2>4, <2>5, <2>6, <2>7, RequestStands DEF ReplyIsEarned
<1>8. Buffered' /\ Place'
  BY <1>1, <1>3, <1>7, RequestStands DEF Place, Buffered
<1>9. reply' \in S!Reply
  BY <1>2
<1> QED
  BY <1>1, <1>3, <1>8, <1>9, SandboxTyped, ServiceStands

\* A share of the cases in whole percents.
LEMMA ShareArithmetic ==
  \A p, c \in Nat : p > 0 /\ p < c =>
    LET q == (p * 100) \div c
    IN  q \in 0..99 /\ q * c <= 100 * p /\ 100 * p < (q + 1) * c /\ (c <= 100 => q > 0)
OBVIOUS

\* How many cases are passed.
LEMMA PassedCounted ==
  ASSUME S!TypeOK
  PROVE  /\ S!Cardinality(S!Passed) \in Nat /\ S!Cardinality(S!Passed) <= cases /\ cases \in Nat
         /\ S!Cardinality(S!Passed) = cases <=> S!Passed = 1..cases
<1>1. cases \in Nat
  BY InputsNumbered
<1>2. IsFiniteSet(1..cases) /\ Cardinality(1..cases) = cases
  BY <1>1, FS_Interval
<1>3. S!Passed \subseteq 1..cases
  BY DEF S!Passed
<1>4. /\ Cardinality(S!Passed) \in Nat /\ Cardinality(S!Passed) <= cases
      /\ Cardinality(S!Passed) = cases => S!Passed = 1..cases
  BY <1>2, <1>3, FS_Subset, FS_CardinalityType
<1>5. S!Cardinality(S!Passed) = Cardinality(S!Passed)
  BY DEF S!Cardinality, Cardinality
<1> QED
  BY <1>1, <1>2, <1>4, <1>5

LEMMA VerdictFields ==
  ASSUME NEW m, NEW n, NEW i, i = [message |-> m, score |-> n]
  PROVE  i.message = m /\ i.score = n /\ i = [message |-> i.message, score |-> i.score]
OBVIOUS

\* A reply is judged.
LEMMA JudgeReplyKept ==
  ASSUME S!TypeOK, SandboxInv, S!JudgeReply
  PROVE  S!TypeOK' /\ SandboxInv'
<1> DEFINE passed == S!Cardinality(S!Passed)
<1>1. /\ UNCHANGED S!request /\ UNCHANGED <<input, buf, runner, late, reply, strouble>>
      /\ pc = "answered" /\ pc' = "judged"
      /\ info' = IF reply.kind = "error" THEN [message |-> "System Error", score |-> 0] ELSE S!Judge
  BY DEF S!JudgeReply
<1>2. /\ ReplyIsEarned /\ Buffered /\ input \in 1..S!Last /\ (mode # "container" => runner = "none")
      /\ mode = "container" => ~late /\ (runner \in {"none", "compile"} => input = 1)
  BY <1>1 DEF SandboxInv, Place
<1>3. reply.kind \in {"ok", "told", "error"} /\ late \in BOOLEAN
  BY <1>2, SandboxTyped DEF ReplyIsEarned
<1>4. \/ /\ reply.kind = "error" /\ info' = [message |-> "System Error", score |-> 0]
      \/ /\ reply.kind = "told" /\ info' = [message |-> S!Blame(reply.words), score |-> 0]
      \/ /\ reply.kind = "ok" /\ late /\ info' = [message |-> "Time Limit Exceeded", score |-> 0]
      \/ /\ reply.kind = "ok" /\ ~late /\ passed = cases /\ info' = [message |-> "Accepted", score |-> 100]
      \/ /\ reply.kind = "ok" /\ ~late /\ passed # cases /\ passed > 0
         /\ info' = [message |-> "Partially Correct", score |-> (passed * 100) \div cases]
      \/ /\ reply.kind = "ok" /\ ~late /\ passed # cases /\ ~(passed > 0)
         /\ info' = [message |-> "Wrong Answer", score |-> 0]
  <2> DEFINE some == passed > 0
             all  == passed = cases
             percent == S!Share(passed, cases)
  <2>1. S!Judge = IF reply.kind = "told" THEN [message |-> S!Blame(reply.words), score |-> 0]
                  ELSE IF late THEN [message |-> "Time Limit Exceeded", score |-> 0]
                  ELSE IF all THEN [message |-> "Accepted", score |-> 100]
                  ELSE IF some THEN [message |-> "Partially Correct", score |-> percent]
                  ELSE [message |-> "Wrong Answer", score |-> 0]
    BY DEF S!Judge
  <2>2. percent = (passed * 100) \div cases
    BY DEF S!Share
  <2> HIDE DEF some, all, percent, passed
  <2>3. CASE reply.kind = "error"
    BY <1>1, <2>3
  <2>4. CASE reply.kind = "told"
    <3>1. info' = [message |-> S!Blame(reply.words), score |-> 0]
      BY <1>1, <2>1, <2>4
    <3> QED
      BY <2>4, <3>1
  <2>5. CASE reply.kind = "ok"
    <3>1. info' = IF late THEN [message |-> "Time Limit Exceeded", score |-> 0]
                  ELSE IF all THEN [message |-> "Accepted", score |-> 100]
                  ELSE IF some THEN [message |-> "Partially Correct", score |-> percent]
                  ELSE [message |-> "Wrong Answer", score |-> 0]
      BY <1>1, <2>1, <2>5
    <3>2. \/ late /\ info' = [message |-> "Time Limit Exceeded", score |-> 0]
          \/ ~late /\ all /\ info' = [message |-> "Accepted", score |-> 100]
          \/ ~late /\ ~all /\ some /\ info' = [message |-> "Partially Correct", score |-> percent]
          \/ ~late /\ ~all /\ ~some /\ info' = [message |-> "Wrong Answer", score |-> 0]
      BY <3>1
    <3> QED
      BY <2>2, <2>5, <3>2 DEF some, all
  <2> QED
    BY <1>3, <2>3, <2>4, <2>5
<1>5. passed \in Nat /\ passed <= cases /\ cases \in Nat /\ (passed = cases <=> S!Passed = 1..cases)
  BY PassedCounted
<1>6. S!Passed' = S!Passed /\ passed' = passed
  BY <1>1, RequestStands
<1>7. /\ S!Blame(reply.words) \in {"Compile Error", "Runtime Error", "Time Limit Exceeded", "other"}
      /\ S!Blame(reply.words) = "Compile Error" => "compile" \in reply.words
      /\ S!Blame(reply.words) = "Runtime Error" => "runtime" \in reply.words
      /\ S!Blame(reply.words) = "Time Limit Exceeded" => reply.words = {"time"}
  BY DEF S!Blame
<1> HIDE DEF passed
<1>8. passed # cases /\ passed > 0 =>
        /\ (passed * 100) \div cases \in 0..99
        /\ cases <= 100 => (passed * 100) \div cases > 0
        /\ ((passed * 100) \div cases) * cases <= 100 * passed
        /\ 100 * passed < ((passed * 100) \div cases + 1) * cases
  <2>1. passed # cases => passed < cases
    BY <1>5
  <2> QED
    BY <1>5, <2>1, ShareArithmetic
<1> DEFINE m     == info'.message
           n     == info'.score
           share == (passed * 100) \div cases
           some  == passed > 0
           b     == S!Blame(reply.words)
<1>17. /\ \/ reply.kind = "error" /\ m = "System Error" /\ n = 0
          \/ reply.kind = "told" /\ m = b /\ n = 0
          \/ reply.kind = "ok" /\ late /\ m = "Time Limit Exceeded" /\ n = 0
          \/ reply.kind = "ok" /\ ~late /\ passed = cases /\ m = "Accepted" /\ n = 100
          \/ reply.kind = "ok" /\ ~late /\ passed # cases /\ some /\ m = "Partially Correct" /\ n = share
          \/ reply.kind = "ok" /\ ~late /\ passed # cases /\ ~some /\ m = "Wrong Answer" /\ n = 0
       /\ info' = [message |-> m, score |-> n]
  <2> HIDE DEF share, some, b
  <2>1. CASE reply.kind = "error" /\ info' = [message |-> "System Error", score |-> 0]
    BY <2>1, VerdictFields
  <2>2. CASE reply.kind = "told" /\ info' = [message |-> b, score |-> 0]
    BY <2>2, VerdictFields
  <2>3. CASE reply.kind = "ok" /\ late /\ info' = [message |-> "Time Limit Exceeded", score |-> 0]
    BY <2>3, VerdictFields
  <2>4. CASE reply.kind = "ok" /\ ~late /\ passed = cases /\ info' = [message |-> "Accepted", score |-> 100]
    BY <2>4, VerdictFields
  <2>5. CASE /\ reply.kind = "ok" /\ ~late /\ passed # cases /\ some
             /\ info' = [message |-> "Partially Correct", score |-> share]
    BY <2>5, VerdictFields
  <2>6. CASE /\ reply.kind = "ok" /\ ~late /\ passed # cases /\ ~some
             /\ info' = [message |-> "Wrong Answer", score |-> 0]
    BY <2>6, VerdictFields
  <2> QED
    BY <1>4, <2>1, <2>2, <2>3, <2>4, <2>5, <2>6 DEF share, some, b
<1> HIDE DEF m, n, share, some, b
<1>18. /\ b \in {"Compile Error", "Runtime Error", "Time Limit Exceeded", "other"}
       /\ b = "Compile Error" => "compile" \in reply.words
       /\ b = "Runtime Error" => "runtime" \in reply.words
       /\ b = "Time Limit Exceeded" => reply.words = {"time"}
  BY <1>7 DEF b
<1>9. /\ (m = "Accepted") <=> (reply.kind = "ok" /\ ~late /\ passed = cases)
      /\ m = "Compile Error" => reply.kind = "told" /\ "compile" \in reply.words
      /\ m = "Runtime Error" => reply.kind = "told" /\ "runtime" \in reply.words
      /\ m = "Time Limit Exceeded" =>
           (reply.kind = "told" /\ reply.words = {"time"}) \/ (reply.kind = "ok" /\ late)
      /\ m \in {"Partially Correct", "Wrong Answer"} => reply.kind = "ok"
      /\ m \in S!Messages
  <2> DEFINE all == passed = cases
  <2>1. \/ reply.kind = "error" /\ m = "System Error"
        \/ reply.kind = "told" /\ m = b
        \/ reply.kind = "ok" /\ late /\ m = "Time Limit Exceeded"
        \/ reply.kind = "ok" /\ ~late /\ all /\ m = "Accepted"
        \/ reply.kind = "ok" /\ ~late /\ ~all /\ m = "Partially Correct"
        \/ reply.kind = "ok" /\ ~late /\ ~all /\ m = "Wrong Answer"
    BY <1>17
  <2> HIDE DEF all
  <2>2. CASE reply.kind = "error" /\ m = "System Error"
    BY <2>2 DEF S!Messages
  <2>3. CASE reply.kind = "told" /\ m = b
    <3>1. m \in {"Compile Error", "Runtime Error", "Time Limit Exceeded", "other"}
      BY <1>18, <2>3
    <3>2. m \in S!Messages /\ m # "Accepted" /\ m \notin {"Partially Correct", "Wrong Answer"}
      BY <3>1 DEF S!Messages
    <3>3. /\ m = "Compile Error" => "compile" \in reply.words
          /\ m = "Runtime Error" => "runtime" \in reply.words
          /\ m = "Time Limit Exceeded" => reply.words = {"time"}
      BY <1>18, <2>3
    <3>4. reply.kind = "told" /\ reply.kind # "ok"
      BY <2>3
    <3> QED
      BY <3>2, <3>3, <3>4
  <2>4. CASE reply.kind = "ok" /\ late /\ m = "Time Limit Exceeded"
    BY <2>4 DEF S!Messages
  <2>5. CASE reply.kind = "ok" /\ ~late /\ all /\ m = "Accepted"
    BY <2>5 DEF S!Messages, all
  <2>6. CASE reply.kind = "ok" /\ ~late /\ ~all /\ m \in {"Partially Correct", "Wrong Answer"}
    <3>1. /\ m \in S!Messages /\ m # "Accepted" /\ m # "Compile Error" /\ m # "Runtime Error"
          /\ m # "Time Limit Exceeded"
      BY <2>6 DEF S!Messages
    <3> QED
      BY <2>6, <3>1 DEF all
  <2> QED
    BY <2>1, <2>2, <2>3, <2>4, <2>5, <2>6
<1>19. /\ m = "Accepted" => n = 100
       /\ m = "Partially Correct" => passed # cases /\ some /\ n = share
       /\ m # "Accepted" /\ m # "Partially Correct" => n = 0
  BY <1>17, <1>18
<1>10. S!AcceptedIsEarned'
  <2>1. reply.kind = "ok" => Sound
    BY <1>2 DEF ReplyIsEarned
  <2>2. ~strouble => (Sound => reply.kind = "ok")
    BY <1>2 DEF ReplyIsEarned
  <2>3. Sound <=> S!Admitted /\ S!Builds /\ S!Ended /\ S!Within
    BY DEF Sound
  <2>4. reply.kind = "ok" => (~late <=> mode = "container" \/ \A k \in S!normalizeInputs : ~program.runs[k].late)
    BY <1>2 DEF ReplyIsEarned
  <2>5. (m = "Accepted") <=> (reply.kind = "ok" /\ ~late /\ S!Passed = 1..cases)
    BY <1>5, <1>9
  <2> QED
    BY <1>1, <1>6, <2>1, <2>2, <2>3, <2>4, <2>5, RequestStands DEF S!AcceptedIsEarned, m
<1>11. S!BlameIsRight'
  <2>1. reply.kind = "ok" => S!Ended
    BY <1>2 DEF ReplyIsEarned, Sound
  <2>2. mode = "container" => ~late
    BY <1>2
  <2>3. mode = "container" /\ ~strouble /\ program.source # "no go" /\ reply.kind = "told" =>
          /\ "compile" \in reply.words => program.compile \in {"error", "loud"}
          /\ "runtime" \in reply.words => \E k \in S!normalizeInputs : program.runs[k].end = "crash"
          /\ reply.words = {"time"} =>
               program.compile = "endless" \/ \E k \in S!normalizeInputs : program.runs[k].end = "endless"
    BY <1>2 DEF ReplyIsEarned
  <2> QED
    BY <1>1, <1>9, <2>1, <2>2, <2>3, RequestStands DEF S!BlameIsRight, m
<1>12. S!ScoreIsShare' /\ n \in 0..100
  <2>1. m = "Partially Correct" => n \in 0..99
    BY <1>8, <1>19 DEF share, some
  <2>2. m = "Partially Correct" =>
          /\ cases <= 100 => n > 0
          /\ n * cases <= 100 * passed /\ 100 * passed < (n + 1) * cases
    BY <1>8, <1>19 DEF share, some
  <2>3. n \in 0..100 /\ (n = 100 <=> m = "Accepted")
    <3>1. \/ m = "Accepted" /\ n = 100
          \/ m # "Accepted" /\ n \in 0..99
      <4>1. 0 \in 0..99
        OBVIOUS
      <4> QED
        BY <1>19, <2>1, <4>1
    <3>2. n \in 0..99 => n \in 0..100 /\ n # 100
      OBVIOUS
    <3>3. n = 100 => n \in 0..100
      OBVIOUS
    <3> QED
      BY <3>1, <3>2, <3>3
  <2> QED
    BY <1>1, <1>6, <2>2, <2>3, RequestStands DEF S!ScoreIsShare, passed, m, n
<1>13. info' \in [message : S!Messages, score : 0..100]
  BY <1>9, <1>12, <1>17
<1>14. Buffered' /\ input' \in 1..S!Last
  BY <1>1, <1>2 DEF Buffered
<1>15. S!VerdictIsEarned'
  BY <1>10, <1>11, <1>12 DEF S!VerdictIsEarned
<1>16. Place'
  BY <1>1, <1>2, RequestStands DEF Place
<1>21. S!TypeOK'
  BY <1>1, <1>13, <1>14, SandboxTyped, TypeStands
<1> QED
  BY <1>1, <1>14, <1>15, <1>16, <1>21, RequestStands DEF SandboxInv

\* Every step of the sandbox keeps the types and the invariant.
LEMMA SandboxStepKept ==
  ASSUME S!TypeOK, SandboxInv, S!Next
  PROVE  S!TypeOK' /\ SandboxInv'
BY ExecuteCodeKept, PrepareKept, CompileDirectKept, OutputKept, EndOfRunKept, TimeoutKept,
   ReadOutputsKept, JudgeReplyKept, StartRunnerKept, RunnerCompileKept, RunnerRunKept, LoseSandboxKept
DEF S!Next, S!Service, S!Runner

\* A request that nothing has been done for.
RequestStart ==
  /\ mode \in Modes /\ cases \in 0..MaxCases
  /\ program \in [source : S!Sources, compile : S!Compiles, runs : [1..MaxCases -> Runs]]
  /\ pc = "asked" /\ input = 1 /\ runner = "none" /\ late = FALSE
  /\ buf = [len |-> 0, written |-> 0, truncated |-> FALSE]
  /\ reply = S!NoReply /\ info = [message |-> "none", score |-> 0] /\ strouble = FALSE

LEMMA RequestFresh ==
  ASSUME RequestStart
  PROVE  S!TypeOK /\ SandboxInv
<1> USE DEF RequestStart
<1>1. Buffered
  BY SandboxAssumption DEF Buffered
<1>2. S!TypeOK
  <2>1. reply \in S!Reply
    BY DEF S!Reply, S!NoReply
  <2>2. info \in [message : S!Messages, score : 0..100]
    BY NoInfo
  <2>3. input \in 1..(MaxCases + 1) /\ Modes \subseteq {"container", "direct", "local"} /\ Runs \subseteq S!Run
    BY SandboxAssumption DEF MCModes
  <2>4. buf.len <= Limit /\ buf.len <= buf.written /\ (~buf.truncated => buf.len = buf.written)
    BY <1>1 DEF Buffered
  <2> QED
    BY <2>1, <2>2, <2>3, <2>4 DEF S!TypeOK
<1>3. input \in 1..S!Last
  BY <1>2, InputsNumbered, SandboxAssumption
<1>4. Place
  BY DEF Place, Fresh
<1>5. S!VerdictIsEarned
  BY DEF S!VerdictIsEarned, S!AcceptedIsEarned, S!BlameIsRight, S!ScoreIsShare
<1> QED
  BY <1>1, <1>2, <1>3, <1>4, <1>5 DEF SandboxInv

\* Steps that are not the sandbox's.
LEMMA SandboxAlone ==
  ASSUME S!TypeOK, SandboxInv, UNCHANGED sVars
  PROVE  S!TypeOK' /\ SandboxInv'
<1> USE DEF sVars
<1>1. S!TypeOK'
  BY DEF S!TypeOK
<1>2. UNCHANGED S!request /\ UNCHANGED <<pc, input, buf, runner, late, reply, info, strouble>>
  BY DEF S!request
<1>3. S!VerdictIsEarned'
  BY <1>2, VerdictStands DEF SandboxInv
<1>4. Buffered' /\ input' \in 1..S!Last'
  BY <1>2, RequestStands DEF SandboxInv, Buffered
<1>5. S!Now' = S!Now
  BY <1>2, RequestStands DEF S!Now
<1>6. /\ Fresh => Fresh'
      /\ RunsDirectly => RunsDirectly'
      /\ RunsInContainer => RunsInContainer'
      /\ ReplyIsEarned => ReplyIsEarned'
  <2>1. Fresh => Fresh'
    BY <1>2 DEF Fresh
  <2>2. RunsDirectly => RunsDirectly'
    BY <1>2, <1>5, RequestStands DEF RunsDirectly
  <2>3. RunsInContainer => RunsInContainer'
    BY <1>2, <1>5, RequestStands DEF RunsInContainer
  <2>4. ReplyIsEarned => ReplyIsEarned'
    <3> SUFFICES ASSUME ReplyIsEarned
                 PROVE  ReplyIsEarned'
      OBVIOUS
    <3>1. /\ UNCHANGED <<mode, program, reply, late>>
          /\ S!normalizeInputs' = S!normalizeInputs /\ (Sound' <=> Sound)
      BY <1>2, RequestStands
    <3>2. (strouble' <=> strouble) /\ (late' <=> late)
      <4>1. strouble' = strouble /\ late' = late
        BY <1>2
      <4>2. strouble \in BOOLEAN /\ late \in BOOLEAN
        BY SandboxTyped
      <4>3. strouble' \in BOOLEAN /\ late' \in BOOLEAN
        BY <4>1, <4>2
      <4> QED
        BY <4>1, <4>2, <4>3
    <3>3. /\ reply'.kind \in {"ok", "told", "error"}
          /\ reply'.kind = "ok" => Sound'
          /\ reply'.kind = "ok" /\ mode' # "container" =>
               (late' <=> \E k \in S!normalizeInputs' : program'.runs[k].late)
      BY <3>1, <3>2 DEF ReplyIsEarned
    <3>4. reply'.kind # "ok" /\ ~strouble' => ~Sound'
      <4>1. reply.kind # "ok" /\ ~strouble => ~Sound
        BY DEF ReplyIsEarned
      <4> QED
        BY <3>1, <3>2, <4>1
    <3>5. reply'.kind = "told" /\ mode' = "container" /\ ~strouble' /\ program'.source # "no go" =>
            /\ "compile" \in reply'.words => program'.compile \in {"error", "loud"}
            /\ "runtime" \in reply'.words => \E k \in S!normalizeInputs' : program'.runs[k].end = "crash"
            /\ reply'.words = {"time"} =>
                 program'.compile = "endless" \/ \E k \in S!normalizeInputs' : program'.runs[k].end = "endless"
      BY <3>1, <3>2 DEF ReplyIsEarned
    <3> QED
      BY <3>3, <3>4, <3>5 DEF ReplyIsEarned
  <2> QED
    BY <2>1, <2>2, <2>3, <2>4
<1>7. Place'
  BY <1>2, <1>6, RequestStands DEF SandboxInv, Place
<1> QED
  BY <1>1, <1>3, <1>4, <1>7 DEF SandboxInv

----------------------------------------------------------------------------
(* Events and pages.                                                        *)

\* Types of events, where a buffer is a sequence.
Channel  == [buffer : Seq(E!Event), closed : BOOLEAN]
PageType == [stream : 0..MaxStreams, shown : E!List, auto : BOOLEAN,
             load : {"no", "asked", "answered"}, list : E!List, submitted : BOOLEAN,
             me : {"unasked", "asked", "unknown"}]
Judging(to) == [at : E!Places, of : Submissions, tells : E!Told, to : SUBSET to]

\* A judge judges what it told the progress of, and has channels left only while it sends.
Turn(g) == (g.at = "judge" => g.tells = "running") /\ (g.to # {} => g.at = "send")

RowTyped ==
  row \in E!List /\ runtime \in [Submissions -> {"none"} \cup E!Told] /\ overruled \subseteq Submissions
JudgingTyped == judging \in [Judges -> Judging(1..Len(channel))] /\ \A j \in Judges : Turn(judging[j])
\* A channel is closed when it is unsubscribed.
ChannelsTyped ==
  /\ channel \in Seq(Channel) /\ Len(channel) <= MaxStreams /\ subs \subseteq 1..Len(channel)
  /\ \A c \in 1..Len(channel) : Len(channel[c].buffer) <= Capacity /\ (channel[c].closed <=> c \notin subs)
WiresTyped   == wire \in [Pages -> Seq(E!Event \cup {E!Opened})]
\* A page's stream is a channel.
PagesTyped   == page \in [Pages -> PageType] /\ \A p \in Pages : page[p].stream <= Len(channel)
MissedTyped  == missed \in [Pages -> SUBSET Submissions]

\* What an event, a judge or a page tells of verdicts is in the rows r, but for the
\* submissions o that were overruled.
Truthful(e, r, o) == e.status \in Finals => e.submission \in o \/ r[e.submission] = e.status
Knows(g, r, o)    == g.at \in {"tell", "send"} /\ g.tells \in Finals => g.of \in o \/ r[g.of] = g.tells
Honest(g, r, o)   ==
  \A s \in Submissions :
    /\ g.shown[s] \in Finals => s \in o \/ r[s] = g.shown[s]
    /\ g.list[s] \in Finals => s \in o \/ r[s] = g.list[s]

\* A judge that has not decided works on its submission.
Works(g, s) == g.at \in {"tell", "send", "judge"} /\ g.of = s /\ g.tells = "running"

\* It alone has the row, unless the row was taken from it.
WorkersHold ==
  \A s \in Submissions \ overruled, j \in Judges :
    Works(judging[j], s) => row[s] = "running" /\ \A k \in Judges : Works(judging[k], s) => k = j
\* What is told of a verdict, anywhere, is in the row.
RedisKnows   == \A s \in Submissions : runtime[s] \in Finals => s \in overruled \/ row[s] = runtime[s]
JudgesKnow   == \A j \in Judges : Knows(judging[j], row, overruled)
ChannelsTell ==
  \A c \in 1..Len(channel) : \A i \in 1..Len(channel[c].buffer) : Truthful(channel[c].buffer[i], row, overruled)
WiresTell ==
  \A p \in Pages : \A i \in 1..Len(wire[p]) : wire[p][i] = E!Opened \/ Truthful(wire[p][i], row, overruled)
PagesTell    == \A p \in Pages : Honest(page[p], row, overruled)

EventInv ==
  /\ RowTyped /\ JudgingTyped /\ ChannelsTyped /\ WiresTyped /\ PagesTyped /\ MissedTyped
  /\ WorkersHold /\ RedisKnows /\ JudgesKnow /\ ChannelsTell /\ WiresTell /\ PagesTell

LEMMA Bounds == Capacity \in Nat /\ MaxWire \in Nat /\ MaxStreams \in Nat
BY EventsAssumption

\* A buffer holds events.
LEMMA BuffersHold ==
  ASSUME EventInv
  PROVE  /\ Len(channel) \in Nat
         /\ \A c \in 1..Len(channel) :
              /\ channel[c].buffer \in Seq(E!Event) /\ channel[c].closed \in BOOLEAN
              /\ channel[c] = [buffer |-> channel[c].buffer, closed |-> channel[c].closed]
              /\ \A i \in 1..Len(channel[c].buffer) : channel[c].buffer[i] \in E!Event
<1>1. channel \in Seq(Channel)
  BY DEF EventInv, ChannelsTyped
<1>2. Len(channel) \in Nat /\ \A c \in 1..Len(channel) : channel[c] \in Channel
  BY <1>1
<1>3. \A c \in 1..Len(channel) :
        /\ channel[c].buffer \in Seq(E!Event) /\ channel[c].closed \in BOOLEAN
        /\ channel[c] = [buffer |-> channel[c].buffer, closed |-> channel[c].closed]
  BY <1>2 DEF Channel
<1>4. \A b \in Seq(E!Event) : \A i \in 1..Len(b) : b[i] \in E!Event
  OBVIOUS
<1> QED
  BY <1>2, <1>3, <1>4

\* A verdict stays in its row, whatever happens; then what was told stays true.
FinalStays ==
  /\ \A s \in Submissions : row[s] \in Finals => row'[s] = row[s]
  /\ overruled \subseteq overruled'

LEMMA TruthStays ==
  ASSUME FinalStays
  PROVE  /\ \A e \in E!Event : Truthful(e, row, overruled) => Truthful(e, row', overruled')
         /\ \A g : g.of \in Submissions /\ Knows(g, row, overruled) => Knows(g, row', overruled')
         /\ \A g : Honest(g, row, overruled) => Honest(g, row', overruled')
<1>1. \A e \in E!Event : e.submission \in Submissions
  BY DEF E!Event
<1>2. \A e \in E!Event : Truthful(e, row, overruled) => Truthful(e, row', overruled')
  BY <1>1 DEF FinalStays, Truthful
<1>3. \A g : g.of \in Submissions /\ Knows(g, row, overruled) => Knows(g, row', overruled')
  BY DEF FinalStays, Knows
<1>4. \A g : Honest(g, row, overruled) => Honest(g, row', overruled')
  BY DEF FinalStays, Honest
<1> QED
  BY <1>2, <1>3, <1>4

LEMMA RowsStand ==
  ASSUME EventInv, UNCHANGED <<row, runtime, overruled>>
  PROVE  RowTyped' /\ FinalStays /\ RedisKnows'
<1>1. RowTyped'
  BY DEF EventInv, RowTyped, E!List, E!Statuses, E!Told
<1>2. FinalStays
  BY DEF FinalStays
<1>3. RedisKnows'
  BY DEF EventInv, RedisKnows
<1> QED
  BY <1>1, <1>2, <1>3

LEMMA RedisStands ==
  ASSUME EventInv, FinalStays, UNCHANGED runtime
  PROVE  RedisKnows'
BY DEF EventInv, RedisKnows, FinalStays

LEMMA ChannelsStand ==
  ASSUME EventInv, FinalStays, UNCHANGED <<channel, subs>>
  PROVE  ChannelsTyped' /\ ChannelsTell'
<1>1. ChannelsTyped'
  BY DEF EventInv, ChannelsTyped
<1>2. \A c \in 1..Len(channel) : \A i \in 1..Len(channel[c].buffer) : channel[c].buffer[i] \in E!Event
  BY BuffersHold
<1>3. ChannelsTell'
  BY <1>2, TruthStays DEF EventInv, ChannelsTell
<1> QED
  BY <1>1, <1>3

LEMMA WiresStand ==
  ASSUME EventInv, FinalStays, UNCHANGED wire
  PROVE  WiresTyped' /\ WiresTell'
<1>1. WiresTyped'
  BY DEF EventInv, WiresTyped
<1>2. \A p \in Pages : \A i \in 1..Len(wire[p]) : wire[p][i] \in E!Event \/ wire[p][i] = E!Opened
  BY DEF EventInv, WiresTyped
<1>3. E!Opened' = E!Opened
  BY DEF E!Opened
<1>4. WiresTell'
  BY <1>2, <1>3, TruthStays DEF EventInv, WiresTell
<1> QED
  BY <1>1, <1>4

LEMMA PagesStand ==
  ASSUME EventInv, FinalStays, UNCHANGED page, Len(channel) <= Len(channel')
  PROVE  PagesTyped' /\ PagesTell'
<1>1. PagesTyped'
  <2>1. page \in [Pages -> PageType] /\ \A p \in Pages : page[p].stream <= Len(channel)
    BY DEF EventInv, PagesTyped
  <2>2. \A p \in Pages : page[p].stream \in 0..MaxStreams
    BY <2>1 DEF PageType
  <2>3. PageType' = PageType
    BY DEF PageType, E!List, E!Statuses
  <2>4. Len(channel) \in Nat /\ Len(channel') \in Nat
    BY DEF EventInv, ChannelsTyped
  <2> QED
    BY <2>1, <2>2, <2>3, <2>4 DEF PagesTyped
<1>2. PagesTell'
  BY TruthStays DEF EventInv, PagesTell
<1> QED
  BY <1>1, <1>2

LEMMA Unmissed ==
  ASSUME EventInv, UNCHANGED missed
  PROVE  MissedTyped'
BY DEF EventInv, MissedTyped

LEMMA SameLength ==
  ASSUME EventInv, UNCHANGED channel
  PROVE  Len(channel') = Len(channel) /\ Len(channel) <= Len(channel')
BY BuffersHold

\* What is known of a judge.
LEMMA JudgeKnown ==
  ASSUME EventInv, NEW j \in Judges
  PROVE  /\ judging[j] \in Judging(1..Len(channel)) /\ Turn(judging[j]) /\ Knows(judging[j], row, overruled)
         /\ judging[j].at \in E!Places /\ judging[j].of \in Submissions /\ judging[j].tells \in E!Told
         /\ judging[j].to \in SUBSET (1..Len(channel))
         /\ judging[j] = [at |-> judging[j].at, of |-> judging[j].of,
                          tells |-> judging[j].tells, to |-> judging[j].to]
<1>1. judging[j] \in Judging(1..Len(channel)) /\ Turn(judging[j]) /\ Knows(judging[j], row, overruled)
  BY DEF EventInv, JudgingTyped, JudgesKnow
<1> QED
  BY <1>1 DEF Judging

\* A judge of which some is changed.
LEMMA JudgeMoved ==
  ASSUME NEW cs, NEW g \in Judging(cs), NEW a
  PROVE  [g EXCEPT !.at = a] = [at |-> a, of |-> g.of, tells |-> g.tells, to |-> g.to]
BY DEF Judging

LEMMA JudgeRecord ==
  ASSUME NEW cs, NEW g \in Judging(cs), NEW a \in E!Places, NEW to \in SUBSET cs, NEW r,
         r = [g EXCEPT !.at = a, !.to = to]
  PROVE  r = [at |-> a, of |-> g.of, tells |-> g.tells, to |-> to]
<1>1. r \in Judging(cs)
  BY DEF Judging
<1>2. r.at = a /\ r.of = g.of /\ r.tells = g.tells /\ r.to = to
  BY DEF Judging
<1>3. r = [at |-> r.at, of |-> r.of, tells |-> r.tells, to |-> r.to]
  BY <1>1 DEF Judging
<1> QED
  BY <1>2, <1>3

\* Judges before their call and after it.
LEMMA Idle ==
  /\ \A to : E!Call \in Judging(to) /\ E!Done \in Judging(to)
  /\ \A g \in {E!Call, E!Done} :
       /\ Turn(g) /\ g.at \in {"call", "done"} /\ g.to = {} /\ g.tells = "running"
       /\ (\A r, o : Knows(g, r, o)) /\ \A s : ~Works(g, s)
<1> DEFINE s0 == CHOOSE s \in Submissions : TRUE
<1>1. s0 \in Submissions
  BY EventsAssumption
<1>2. E!Call = [at |-> "call", of |-> s0, tells |-> "running", to |-> {}]
  BY DEF E!Call
<1> HIDE DEF s0
<1>3. "call" \in E!Places /\ "done" \in E!Places /\ "running" \in E!Told
  BY DEF E!Places, E!Told
<1>4. E!Done = [at |-> "done", of |-> s0, tells |-> "running", to |-> {}]
  <2>1. E!Call \in Judging({}) /\ {} \in SUBSET {}
    BY <1>1, <1>2, <1>3 DEF Judging
  <2>2. [E!Call EXCEPT !.at = "done"] = [at |-> "done", of |-> E!Call.of, tells |-> E!Call.tells, to |-> E!Call.to]
    BY <2>1, JudgeMoved
  <2> QED
    BY <1>2, <2>2 DEF E!Done
<1>5. \A to : E!Call \in Judging(to) /\ E!Done \in Judging(to)
  BY <1>1, <1>2, <1>3, <1>4 DEF Judging
<1>6. \A g \in {E!Call, E!Done} : g.at \in {"call", "done"} /\ g.to = {} /\ g.tells = "running"
  BY <1>2, <1>4
<1> QED
  BY <1>5, <1>6 DEF Turn, Knows, Works

LEMMA JudgingAre ==
  ASSUME EventInv
  PROVE  judging \in [Judges -> Judging(1..Len(channel))]
BY DEF EventInv, JudgingTyped

\* A judge goes on.
LEMMA JudgesStand ==
  ASSUME EventInv, FinalStays, NEW j \in Judges, NEW r \in Judging(1..Len(channel)), Turn(r),
         Knows(r, row', overruled'), judging' = [judging EXCEPT ![j] = r], Len(channel') = Len(channel)
  PROVE  JudgingTyped' /\ JudgesKnow'
<1>1. /\ judging' \in [Judges -> Judging(1..Len(channel))]
      /\ \A k \in Judges : judging'[k] = IF k = j THEN r ELSE judging[k]
  BY JudgingAre
<1>2. \A k \in Judges : Turn(judging'[k])
  <2>1. \A k \in Judges : k # j => judging'[k] = judging[k] /\ Turn(judging[k])
    BY <1>1, JudgeKnown
  <2> QED
    BY <1>1, <2>1
<1>3. Judging(1..Len(channel))' = Judging(1..Len(channel))
  BY DEF Judging, E!Places, E!Told
<1>4. JudgingTyped'
  BY <1>1, <1>2, <1>3 DEF JudgingTyped
<1>5. \A k \in Judges : Knows(judging'[k], row', overruled')
  <2>1. \A k \in Judges : k # j => judging'[k] = judging[k]
    BY <1>1
  <2>2. \A k \in Judges : Knows(judging[k], row', overruled')
    BY JudgeKnown, TruthStays
  <2> QED
    BY <1>1, <2>1, <2>2
<1>6. JudgesKnow'
  BY <1>5 DEF JudgesKnow
<1> QED
  BY <1>4, <1>6

\* Who works now worked before, on a row that is as it was.
LEMMA WorkersStand ==
  ASSUME EventInv, overruled \subseteq overruled',
         \A s \in Submissions \ overruled', k \in Judges :
           Works(judging'[k], s) => Works(judging[k], s) /\ row'[s] = row[s]
  PROVE  WorkersHold'
<1> SUFFICES ASSUME NEW s \in Submissions \ overruled', NEW j \in Judges, Works(judging'[j], s)
             PROVE  row'[s] = "running" /\ \A k \in Judges : Works(judging'[k], s) => k = j
  BY DEF WorkersHold
<1>1. s \in Submissions \ overruled /\ Works(judging[j], s) /\ row'[s] = row[s]
  OBVIOUS
<1>2. row[s] = "running" /\ \A k \in Judges : Works(judging[k], s) => k = j
  BY <1>1 DEF EventInv, WorkersHold
<1> QED
  BY <1>1, <1>2

LEMMA WorkersWait ==
  ASSUME EventInv, UNCHANGED <<row, overruled, judging>>
  PROVE  WorkersHold'
BY DEF EventInv, WorkersHold

\* One of them goes on.
LEMMA WorkerStands ==
  ASSUME EventInv, UNCHANGED <<row, overruled>>, NEW j \in Judges, NEW r,
         judging' = [judging EXCEPT ![j] = r], \A s : Works(r, s) => Works(judging[j], s)
  PROVE  WorkersHold'
<1>1. \A k \in Judges : judging'[k] = IF k = j THEN r ELSE judging[k]
  BY JudgingAre
<1>2. \A s : \A k \in Judges : Works(judging'[k], s) => Works(judging[k], s)
  BY <1>1
<1> QED
  BY <1>2, WorkersStand

LEMMA JudgesWait ==
  ASSUME EventInv, FinalStays, UNCHANGED judging, Len(channel') \in Nat, Len(channel) <= Len(channel')
  PROVE  JudgingTyped' /\ JudgesKnow'
<1>1. SUBSET (1..Len(channel)) \subseteq SUBSET (1..Len(channel'))
  BY BuffersHold
<1>2. Judging(1..Len(channel)) \subseteq Judging(1..Len(channel'))
  BY <1>1 DEF Judging
<1>3. \A j \in Judges : judging'[j] \in Judging(1..Len(channel')) /\ Turn(judging'[j])
  BY <1>2, JudgeKnown
<1>4. judging' \in [Judges -> Judging(1..Len(channel'))]
  BY <1>3, JudgingAre
<1>5. JudgingTyped'
  BY <1>3, <1>4 DEF JudgingTyped, Judging, E!Places, E!Told
<1>6. JudgesKnow'
  BY JudgeKnown, TruthStays DEF JudgesKnow
<1> QED
  BY <1>5, <1>6

\* A status that is told.
LEMMA AnnounceStands ==
  ASSUME EventInv, FinalStays, NEW j \in Judges, NEW s \in Submissions, NEW t \in E!Told, E!Announce(j, s, t),
         Len(channel') = Len(channel), t \in Finals => s \in overruled' \/ row'[s] = t
  PROVE  /\ JudgingTyped' /\ JudgesKnow'
         /\ judging' = [judging EXCEPT ![j] = [at |-> "tell", of |-> s, tells |-> t, to |-> {}]]
         /\ \A k \in Judges : IF k = j THEN \A x : Works(judging'[j], x) <=> x = s /\ t = "running"
                              ELSE judging'[k] = judging[k]
<1> DEFINE r == [at |-> "tell", of |-> s, tells |-> t, to |-> {}]
<1>1. judging' = [judging EXCEPT ![j] = r]
  BY DEF E!Announce
<1>2. r.at = "tell" /\ r.of = s /\ r.tells = t /\ r.to = {}
  OBVIOUS
<1>3. r \in Judging(1..Len(channel))
  BY DEF Judging, E!Places
<1> HIDE DEF r
<1>4. Turn(r) /\ Knows(r, row', overruled')
  BY <1>2 DEF Turn, Knows
<1>5. JudgingTyped' /\ JudgesKnow'
  BY <1>1, <1>3, <1>4, JudgesStand
<1>6. \A k \in Judges : judging'[k] = IF k = j THEN r ELSE judging[k]
  BY <1>1, JudgingAre
<1>7. \A x : Works(r, x) <=> x = s /\ t = "running"
  BY <1>2 DEF Works
<1> QED
  BY <1>1, <1>5, <1>6, <1>7 DEF r

\* A judge claims a submission.
LEMMA ClaimKept ==
  ASSUME EventInv, NEW j \in Judges, NEW s \in Submissions, E!Claim(j, s)
  PROVE  EventInv'
<1>1. /\ row[s] = "pending" /\ row' = [row EXCEPT ![s] = "running"] /\ E!Announce(j, s, "running")
      /\ UNCHANGED <<runtime, overruled, subs, channel, wire, page, missed>>
  BY DEF E!Claim
<1>2. RowTyped' /\ FinalStays
  <2>1. "pending" \notin Finals /\ "running" \in E!Statuses
    BY EventsAssumption DEF E!Statuses
  <2>2. row \in [Submissions -> E!Statuses] /\ row' \in [Submissions -> E!Statuses]
    BY <1>1, <2>1 DEF EventInv, RowTyped, E!List
  <2>3. RowTyped'
    BY <1>1, <2>2 DEF EventInv, RowTyped, E!List, E!Statuses, E!Told
  <2>4. FinalStays
    BY <1>1, <2>1, <2>2 DEF FinalStays
  <2> QED
    BY <2>3, <2>4
<1>3. "running" \in E!Told /\ "running" \notin Finals /\ row \in [Submissions -> E!Statuses]
  BY EventsAssumption DEF E!Told, EventInv, RowTyped, E!List
<1>4. /\ JudgingTyped' /\ JudgesKnow'
      /\ \A k \in Judges : IF k = j THEN \A x : Works(judging'[j], x) <=> x = s ELSE judging'[k] = judging[k]
  BY <1>1, <1>2, <1>3, AnnounceStands, SameLength
<1>5. WorkersHold'
  <2> SUFFICES ASSUME NEW t \in Submissions \ overruled', NEW i \in Judges, Works(judging'[i], t)
               PROVE  row'[t] = "running" /\ \A k \in Judges : Works(judging'[k], t) => k = i
    BY DEF WorkersHold
  <2>1. t \in Submissions \ overruled
    BY <1>1
  <2>2. CASE t = s
    <3>1. \A k \in Judges : ~Works(judging[k], s)
      BY <1>1, <2>1, <2>2 DEF EventInv, WorkersHold
    <3>2. \A k \in Judges : Works(judging'[k], s) => k = j
      BY <1>4, <3>1
    <3> QED
      BY <1>1, <1>3, <2>2, <3>2
  <2>3. CASE t # s
    <3>1. \A k \in Judges : Works(judging'[k], t) => Works(judging[k], t)
      BY <1>4, <2>3
    <3> QED
      BY <1>1, <1>3, <2>1, <2>3, <3>1 DEF EventInv, WorkersHold
  <2> QED
    BY <2>2, <2>3
<1> QED
  BY <1>1, <1>2, <1>4, <1>5, RedisStands, SameLength, ChannelsStand, WiresStand, PagesStand, Unmissed DEF EventInv

\* And finishes it: if the row is not its own any more, it was taken.
LEMMA FinishKept ==
  ASSUME EventInv, NEW j \in Judges, NEW v \in Finals, E!Finish(j, v)
  PROVE  EventInv'
<1>1. PICK s \in Submissions : s = judging[j].of
  BY JudgeKnown
<1>2. /\ judging[j].at = "judge" /\ E!Announce(j, s, v)
      /\ row' = IF row[s] = "running" THEN [row EXCEPT ![s] = v] ELSE row
      /\ UNCHANGED <<runtime, overruled, subs, channel, wire, page, missed>>
  BY <1>1 DEF E!Finish
<1>3. v \in E!Told /\ v \in E!Statuses /\ v # "running" /\ "running" \notin Finals
  BY EventsAssumption DEF E!Told, E!Statuses
<1>4. RowTyped' /\ FinalStays /\ row \in [Submissions -> E!Statuses]
  <2>1. row \in [Submissions -> E!Statuses] /\ row' \in [Submissions -> E!Statuses]
    BY <1>2, <1>3 DEF EventInv, RowTyped, E!List
  <2>2. RowTyped'
    BY <1>2, <2>1 DEF EventInv, RowTyped, E!List, E!Statuses, E!Told
  <2>3. FinalStays
    BY <1>2, <1>3, <2>1 DEF FinalStays
  <2> QED
    BY <2>1, <2>2, <2>3
<1>5. Works(judging[j], s)
  BY <1>1, <1>2, JudgeKnown DEF Turn, Works
<1>6. s \notin overruled => row[s] = "running" /\ \A k \in Judges : Works(judging[k], s) => k = j
  BY <1>5 DEF EventInv, WorkersHold
<1>7. s \in overruled' \/ row'[s] = v
  BY <1>2, <1>4, <1>6
<1>8. /\ JudgingTyped' /\ JudgesKnow'
      /\ \A k \in Judges : IF k = j THEN \A x : ~Works(judging'[j], x) ELSE judging'[k] = judging[k]
  <2>1. UNCHANGED channel /\ E!Announce(j, s, v) /\ FinalStays
    BY <1>2, <1>4
  <2>2. Len(channel') = Len(channel)
    BY <2>1, SameLength
  <2>3. /\ JudgingTyped' /\ JudgesKnow'
        /\ \A k \in Judges : IF k = j THEN \A x : Works(judging'[j], x) <=> x = s /\ v = "running"
                             ELSE judging'[k] = judging[k]
    BY <1>3, <1>7, <2>1, <2>2, AnnounceStands
  <2> QED
    BY <1>3, <2>3
<1>9. WorkersHold'
  <2>1. ASSUME NEW t \in Submissions \ overruled', NEW k \in Judges, Works(judging'[k], t)
        PROVE  Works(judging[k], t) /\ row'[t] = row[t]
    <3>1. k # j /\ Works(judging[k], t)
      BY <1>8, <2>1
    <3>2. t # s
      BY <1>2, <1>6, <2>1, <3>1
    <3> QED
      BY <1>2, <1>4, <3>1, <3>2
  <2> QED
    BY <1>2, <2>1, WorkersStand
<1> QED
  BY <1>2, <1>4, <1>8, <1>9, RedisStands, SameLength, ChannelsStand, WiresStand, PagesStand, Unmissed DEF EventInv

\* Or fails.
LEMMA FailKept ==
  ASSUME EventInv, NEW j \in Judges, E!Fail(j)
  PROVE  EventInv'
<1>1. /\ judging' = [judging EXCEPT ![j] = E!Done]
      /\ UNCHANGED <<row, runtime, overruled, subs, channel, wire, page, missed>>
  BY DEF E!Fail
<1>2. RowTyped' /\ FinalStays /\ RedisKnows'
  BY <1>1, RowsStand
<1>3. /\ E!Done \in Judging(1..Len(channel)) /\ Turn(E!Done) /\ Knows(E!Done, row', overruled')
      /\ \A s : ~Works(E!Done, s)
  BY Idle
<1>4. JudgingTyped' /\ JudgesKnow'
  BY <1>1, <1>2, <1>3, JudgesStand, SameLength
<1>5. WorkersHold'
  BY <1>1, <1>3, WorkerStands
<1> QED
  BY <1>1, <1>2, <1>4, <1>5, SameLength, ChannelsStand, WiresStand, PagesStand, Unmissed DEF EventInv

\* The row is taken from whoever works on it.
LEMMA TakeStands ==
  ASSUME EventInv, NEW s \in Submissions, NEW v \in E!Statuses, row[s] \notin Finals,
         E!Take(s), row' = [row EXCEPT ![s] = v], UNCHANGED runtime
  PROVE  /\ RowTyped' /\ FinalStays /\ RedisKnows'
         /\ row'[s] = v /\ \A t \in Submissions : t # s => row'[t] = row[t]
         /\ \A t \in Submissions \ overruled', k \in Judges : Works(judging[k], t) => row'[t] = row[t]
<1>1. row \in [Submissions -> E!Statuses] /\ row' \in [Submissions -> E!Statuses] /\ overruled \subseteq Submissions
  BY DEF EventInv, RowTyped, E!List
<1>2. overruled' \in {overruled, overruled \cup {s}}
  BY DEF E!Take
<1>3. RowTyped'
  BY <1>1, <1>2 DEF EventInv, RowTyped, E!List, E!Statuses, E!Told
<1>4. row'[s] = v /\ \A t \in Submissions : t # s => row'[t] = row[t]
  BY <1>1
<1>5. FinalStays
  BY <1>2, <1>4 DEF FinalStays
<1>6. \A k \in Judges : Works(judging[k], s) => s \in overruled'
  BY DEF E!Take, E!Working, Works
<1> QED
  BY <1>3, <1>4, <1>5, <1>6, RedisStands

LEMMA requeueStuckSubmitsKept ==
  ASSUME EventInv, NEW s \in Submissions, E!requeueStuckSubmits(s)
  PROVE  EventInv'
<1>1. /\ row[s] = "running" /\ row' = [row EXCEPT ![s] = "pending"] /\ E!Take(s)
      /\ UNCHANGED <<runtime, judging, subs, channel, wire, page, missed>>
  BY DEF E!requeueStuckSubmits
<1>2. "running" \notin Finals /\ "pending" \in E!Statuses
  BY EventsAssumption DEF E!Statuses
<1>3. /\ RowTyped' /\ FinalStays /\ RedisKnows'
      /\ \A t \in Submissions \ overruled', k \in Judges : Works(judging[k], t) => row'[t] = row[t]
  BY <1>1, <1>2, TakeStands
<1>4. WorkersHold'
  BY <1>1, <1>3, WorkersStand DEF FinalStays
<1>5. JudgingTyped' /\ JudgesKnow'
  BY <1>1, <1>3, JudgesWait, SameLength, BuffersHold
<1> QED
  BY <1>1, <1>3, <1>4, <1>5, SameLength, ChannelsStand, WiresStand, PagesStand, Unmissed DEF EventInv

\* History only grows by submissions.
LEMMA MissTyped ==
  ASSUME EventInv, NEW s \in Submissions, NEW cs
  PROVE  E!Miss(s, cs) \in [Pages -> SUBSET Submissions]
BY DEF EventInv, MissedTyped, E!Miss

LEMMA MarkSubmitSystemErrorKept ==
  ASSUME EventInv, NEW j \in Judges, NEW s \in Submissions, E!MarkSubmitSystemError(j, s)
  PROVE  EventInv'
<1>1. /\ judging[j] = E!Call /\ row[s] \in {"pending", "running"}
      /\ row' = [row EXCEPT ![s] = "system error"] /\ E!Take(s)
      /\ UNCHANGED <<runtime, subs, channel, wire, page>>
      /\ \/ E!Announce(j, s, "system error") /\ missed' = missed
         \/ judging' = [judging EXCEPT ![j] = E!Done] /\ missed' = E!Miss(s, 0..MaxStreams)
  BY DEF E!MarkSubmitSystemError
<1>2. /\ row[s] \notin Finals /\ "system error" \in E!Statuses /\ "system error" \in E!Told
      /\ "system error" # "running"
  BY <1>1, EventsAssumption DEF E!Statuses, E!Told
<1>3. /\ RowTyped' /\ FinalStays /\ RedisKnows' /\ row'[s] = "system error"
      /\ \A t \in Submissions \ overruled', k \in Judges : Works(judging[k], t) => row'[t] = row[t]
  BY <1>1, <1>2, TakeStands
<1>4. /\ JudgingTyped' /\ JudgesKnow'
      /\ \A t : \A k \in Judges : Works(judging'[k], t) => Works(judging[k], t)
  <2>1. CASE E!Announce(j, s, "system error")
    <3>1. /\ JudgingTyped' /\ JudgesKnow'
          /\ \A k \in Judges : IF k = j THEN \A x : ~Works(judging'[j], x) ELSE judging'[k] = judging[k]
      BY <1>1, <1>2, <1>3, <2>1, AnnounceStands, SameLength
    <3> QED
      BY <3>1
  <2>2. CASE judging' = [judging EXCEPT ![j] = E!Done]
    <3>1. /\ E!Done \in Judging(1..Len(channel)) /\ Turn(E!Done) /\ Knows(E!Done, row', overruled')
          /\ \A x : ~Works(E!Done, x)
      BY Idle
    <3>2. JudgingTyped' /\ JudgesKnow'
      BY <1>1, <1>3, <2>2, <3>1, JudgesStand, SameLength
    <3>3. \A k \in Judges : judging'[k] = IF k = j THEN E!Done ELSE judging[k]
      BY <2>2, JudgingAre
    <3> QED
      BY <3>1, <3>2, <3>3
  <2> QED
    BY <1>1, <2>1, <2>2
<1>5. WorkersHold'
  BY <1>3, <1>4, WorkersStand DEF FinalStays
<1>6. MissedTyped'
  BY <1>1, MissTyped DEF EventInv, MissedTyped
<1> QED
  BY <1>1, <1>3, <1>4, <1>5, <1>6, SameLength, ChannelsStand, WiresStand, PagesStand DEF EventInv

\* A judge that sends goes on to judge, or is done, when no channel is left.
LEMMA SendingIs ==
  ASSUME EventInv, NEW j \in Judges, NEW to \in SUBSET (1..Len(channel)), NEW g, g = judging[j], NEW r, r = E!Sending(j, to)
  PROVE  IF to # {} THEN /\ r = [at |-> "send", of |-> g.of, tells |-> g.tells, to |-> to]
                         /\ r.at = "send" /\ r.of = g.of /\ r.tells = g.tells /\ r.to = to
         ELSE IF g.tells = "running" THEN r = [at |-> "judge", of |-> g.of, tells |-> g.tells, to |-> {}]
         ELSE r = E!Done
<1>1. g \in Judging(1..Len(channel)) /\ "send" \in E!Places /\ "judge" \in E!Places /\ {} \in SUBSET (1..Len(channel))
  BY JudgeKnown DEF E!Places
<1>2. CASE to # {}
  <2>1. r = [g EXCEPT !.at = "send", !.to = to]
    BY <1>2 DEF E!Sending
  <2>2. r = [at |-> "send", of |-> g.of, tells |-> g.tells, to |-> to]
    <3>1. r \in Judging(1..Len(channel))
      BY <1>1, <2>1 DEF Judging
    <3>2. r.at = "send" /\ r.of = g.of /\ r.tells = g.tells /\ r.to = to
      BY <1>1, <2>1 DEF Judging
    <3>3. r = [at |-> r.at, of |-> r.of, tells |-> r.tells, to |-> r.to]
      BY <3>1 DEF Judging
    <3> QED
      BY <3>2, <3>3
  <2>3. r.at = "send" /\ r.of = g.of /\ r.tells = g.tells /\ r.to = to
    BY <2>2
  <2> QED
    BY <1>2, <2>2, <2>3
<1>3. CASE to = {} /\ g.tells = "running"
  <2>1. r = [g EXCEPT !.at = "judge", !.to = {}]
    BY <1>3 DEF E!Sending
  <2>2. r = [at |-> "judge", of |-> g.of, tells |-> g.tells, to |-> {}]
    BY <1>1, <2>1, JudgeRecord
  <2> QED
    BY <1>3, <2>2
<1>4. CASE to = {} /\ g.tells # "running"
  BY <1>4 DEF E!Sending
<1> QED
  BY <1>2, <1>3, <1>4

\* A channel that is left is sent to.
LEMMA SendsOn ==
  ASSUME EventInv, NEW j \in Judges, NEW to \in SUBSET (1..Len(channel))
  PROVE  to # {} => /\ E!Sending(j, to).at = "send" /\ E!Sending(j, to).of = judging[j].of
                    /\ E!Sending(j, to).tells = judging[j].tells /\ E!Sending(j, to).to = to
<1> SUFFICES ASSUME to # {}
             PROVE  /\ E!Sending(j, to).at = "send" /\ E!Sending(j, to).of = judging[j].of
                    /\ E!Sending(j, to).tells = judging[j].tells /\ E!Sending(j, to).to = to
  OBVIOUS
<1>1. PICK g : g = judging[j]
  OBVIOUS
<1>2. PICK r : r = E!Sending(j, to)
  OBVIOUS
<1>3. g \in Judging(1..Len(channel)) /\ "send" \in E!Places
  BY <1>1, JudgeKnown DEF E!Places
<1>4. r = [g EXCEPT !.at = "send", !.to = to]
  BY <1>1, <1>2 DEF E!Sending
<1>5. r.at = "send" /\ r.of = g.of /\ r.tells = g.tells /\ r.to = to
  BY <1>3, <1>4 DEF Judging
<1> QED
  BY <1>1, <1>2, <1>5

LEMMA SendingStands ==
  ASSUME EventInv, FinalStays, NEW j \in Judges, NEW to \in SUBSET (1..Len(channel)),
         judging[j].at \in {"tell", "send"}, UNCHANGED <<row, overruled>>,
         judging' = [judging EXCEPT ![j] = E!Sending(j, to)], Len(channel') = Len(channel)
  PROVE  JudgingTyped' /\ JudgesKnow' /\ WorkersHold'
<1>0. PICK g : g = judging[j]
  OBVIOUS
<1>1. PICK r : r = E!Sending(j, to)
  OBVIOUS
<1>2. \/ to # {} /\ r = [at |-> "send", of |-> g.of, tells |-> g.tells, to |-> to]
      \/ g.tells = "running" /\ r = [at |-> "judge", of |-> g.of, tells |-> g.tells, to |-> {}]
      \/ r = E!Done
  BY <1>0, <1>1, SendingIs
<1>3. g.at \in {"tell", "send"} /\ g.of \in Submissions /\ g.tells \in E!Told /\ Knows(g, row, overruled)
  BY <1>0, JudgeKnown
<1>4. "send" \in E!Places /\ "judge" \in E!Places /\ "running" \notin Finals
  BY EventsAssumption DEF E!Places
<1>5. r \in Judging(1..Len(channel)) /\ Turn(r) /\ Knows(r, row', overruled') /\ \A s : Works(r, s) => Works(g, s)
  <2>1. CASE to # {} /\ r = [at |-> "send", of |-> g.of, tells |-> g.tells, to |-> to]
    <3>1. r \in Judging(1..Len(channel))
      BY <1>3, <1>4, <2>1 DEF Judging
    <3>2. r.at = "send" /\ r.of = g.of /\ r.tells = g.tells /\ r.to = to
      BY <2>1
    <3> QED
      BY <1>3, <3>1, <3>2 DEF Turn, Knows, Works
  <2>2. CASE g.tells = "running" /\ r = [at |-> "judge", of |-> g.of, tells |-> g.tells, to |-> {}]
    <3>1. r \in Judging(1..Len(channel))
      BY <1>3, <1>4, <2>2 DEF Judging
    <3>2. r.at = "judge" /\ r.of = g.of /\ r.tells = "running" /\ g.tells = "running" /\ r.to = {}
      BY <2>2
    <3> QED
      BY <1>3, <1>4, <3>1, <3>2 DEF Turn, Knows, Works
  <2>3. CASE r = E!Done
    BY <2>3, Idle
  <2> QED
    BY <1>2, <2>1, <2>2, <2>3
<1>6. judging' = [judging EXCEPT ![j] = r]
  BY <1>1
<1>7. JudgingTyped' /\ JudgesKnow'
  BY <1>5, <1>6, JudgesStand
<1>8. WorkersHold'
  BY <1>0, <1>5, <1>6, WorkerStands
<1> QED
  BY <1>7, <1>8

\* The status is in Redis, and the channels are copied.
LEMMA publishSubmitRuntimeEventKept ==
  ASSUME EventInv, NEW j \in Judges, E!publishSubmitRuntimeEvent(j)
  PROVE  EventInv'
<1>1. /\ judging[j].at = "tell" /\ judging' = [judging EXCEPT ![j] = E!Sending(j, subs)]
      /\ UNCHANGED <<row, overruled, subs, channel, wire, page>>
      /\ runtime' \in {runtime, [runtime EXCEPT ![judging[j].of] = judging[j].tells]}
      /\ missed' \in {missed, E!Miss(judging[j].of, (0..MaxStreams) \ subs)}
  BY DEF E!publishSubmitRuntimeEvent
<1>2. judging[j].of \in Submissions /\ judging[j].tells \in E!Told /\ Knows(judging[j], row, overruled)
  BY JudgeKnown
<1>3. FinalStays
  BY <1>1 DEF FinalStays
<1>4. RowTyped'
  <2>1. runtime \in [Submissions -> {"none"} \cup E!Told]
    BY DEF EventInv, RowTyped
  <2>2. runtime' \in [Submissions -> {"none"} \cup E!Told]
    BY <1>1, <1>2, <2>1
  <2> QED
    BY <1>1, <2>2 DEF EventInv, RowTyped, E!List, E!Statuses, E!Told
<1>5. RedisKnows'
  <2>1. runtime \in [Submissions -> {"none"} \cup E!Told]
    BY DEF EventInv, RowTyped
  <2>2. \A s \in Submissions : runtime[s] \in Finals => s \in overruled \/ row[s] = runtime[s]
    BY DEF EventInv, RedisKnows
  <2>3. \A s \in Submissions : runtime'[s] = runtime[s] \/ (s = judging[j].of /\ runtime'[s] = judging[j].tells)
    BY <1>1, <2>1
  <2>4. judging[j].tells \in Finals => judging[j].of \in overruled \/ row[judging[j].of] = judging[j].tells
    BY <1>1, <1>2 DEF Knows
  <2>5. \A s \in Submissions : runtime'[s] \in Finals => s \in overruled \/ row[s] = runtime'[s]
    BY <2>2, <2>3, <2>4
  <2> QED
    BY <1>1, <2>5 DEF RedisKnows
<1>6. JudgingTyped' /\ JudgesKnow' /\ WorkersHold'
  <2>1. subs \in SUBSET (1..Len(channel))
    BY DEF EventInv, ChannelsTyped
  <2> QED
    BY <1>1, <1>3, <2>1, SendingStands, SameLength
<1>7. MissedTyped'
  BY <1>1, <1>2, MissTyped DEF EventInv, MissedTyped
<1> QED
  BY <1>1, <1>3, <1>4, <1>5, <1>6, <1>7, SameLength, ChannelsStand, WiresStand, PagesStand DEF EventInv

\* What a channel holds changes.
LEMMA BufferChanged ==
  ASSUME EventInv, FinalStays, NEW c \in 1..Len(channel), NEW b \in Seq(E!Event), Len(b) <= Capacity,
         \A i \in 1..Len(b) : Truthful(b[i], row', overruled'), channel' = [channel EXCEPT ![c].buffer = b], subs' = subs
  PROVE  ChannelsTyped' /\ ChannelsTell' /\ Len(channel') = Len(channel)
<1> DEFINE new == [buffer |-> b, closed |-> channel[c].closed]
<1>1. channel \in Seq(Channel) /\ Len(channel) <= MaxStreams /\ subs \subseteq 1..Len(channel)
  BY DEF EventInv, ChannelsTyped
<1>2. channel' = [channel EXCEPT ![c] = new] /\ new \in Channel
  <2>1. channel[c] = [buffer |-> channel[c].buffer, closed |-> channel[c].closed] /\ channel[c].closed \in BOOLEAN
    BY BuffersHold
  <2>2. [channel[c] EXCEPT !.buffer = b] = new
    BY <2>1
  <2>3. new \in Channel
    BY <2>1 DEF Channel
  <2> QED
    BY <2>2, <2>3
<1>3. channel' \in Seq(Channel) /\ Len(channel') = Len(channel)
  BY <1>1, <1>2, ExceptSeq
<1>4. \A k \in 1..Len(channel) : channel'[k] = IF k = c THEN new ELSE channel[k]
  BY <1>1, <1>2, ExceptSeq
<1>5. \A k \in 1..Len(channel) :
        /\ channel'[k].buffer = (IF k = c THEN b ELSE channel[k].buffer)
        /\ channel'[k].closed = channel[k].closed
  BY <1>4
<1>6. \A k \in 1..Len(channel') : Len(channel'[k].buffer) <= Capacity /\ (channel'[k].closed <=> k \notin subs')
  BY <1>3, <1>5 DEF EventInv, ChannelsTyped
<1>7. ChannelsTyped'
  BY <1>1, <1>3, <1>6 DEF ChannelsTyped, Channel
<1>8. \A e \in E!Event : Truthful(e, row, overruled) => Truthful(e, row', overruled')
  BY TruthStays
<1>9. ASSUME NEW k \in 1..Len(channel), NEW i \in 1..Len(channel'[k].buffer)
      PROVE  Truthful(channel'[k].buffer[i], row', overruled')
  <2>1. CASE k = c
    BY <1>5, <1>9, <2>1 DEF Truthful
  <2>2. CASE k # c
    <3>1. channel'[k].buffer = channel[k].buffer /\ i \in 1..Len(channel[k].buffer)
      BY <1>5, <1>9, <2>2
    <3>2. channel[k].buffer[i] \in E!Event /\ Truthful(channel[k].buffer[i], row, overruled)
      BY <3>1, BuffersHold DEF EventInv, ChannelsTell
    <3> QED
      BY <1>8, <3>1, <3>2 DEF Truthful
  <2> QED
    BY <2>1, <2>2
<1>10. ChannelsTell'
  BY <1>3, <1>9 DEF ChannelsTell
<1> QED
  BY <1>3, <1>7, <1>10

\* An event is sent to a channel.
LEMMA SendToKept ==
  ASSUME EventInv, NEW j \in Judges, NEW c, E!SendTo(j, c)
  PROVE  EventInv'
<1> DEFINE e == [submission |-> judging[j].of, status |-> judging[j].tells]
<1>1. /\ UNCHANGED <<row, runtime, overruled, subs, wire, page>>
      /\ c \in judging[j].to /\ judging' = [judging EXCEPT ![j] = E!Sending(j, judging[j].to \ {c})]
      /\ \/ /\ Len(channel[c].buffer) < Capacity /\ missed' = missed
            /\ channel' = [channel EXCEPT ![c].buffer = Append(channel[c].buffer, e)]
         \/ missed' \in {missed, E!Miss(judging[j].of, {c})} /\ channel' = channel
  BY DEF E!SendTo
<1>2. RowTyped' /\ FinalStays /\ RedisKnows'
  BY <1>1, RowsStand
<1>3. c \in 1..Len(channel) /\ judging[j].at = "send" /\ judging[j].to \ {c} \in SUBSET (1..Len(channel))
  BY <1>1, JudgeKnown DEF Turn
<1>4. ChannelsTyped' /\ ChannelsTell' /\ Len(channel') = Len(channel)
  <2>1. CASE channel' = channel
    BY <1>1, <1>2, <2>1, ChannelsStand
  <2>2. CASE /\ Len(channel[c].buffer) < Capacity
             /\ channel' = [channel EXCEPT ![c].buffer = Append(channel[c].buffer, e)]
    <3> DEFINE b == channel[c].buffer
               n == Append(b, e)
    <3>1. e \in E!Event /\ e.submission = judging[j].of /\ e.status = judging[j].tells
      BY JudgeKnown DEF E!Event
    <3>2. b \in Seq(E!Event) /\ Len(b) < Capacity
      BY <1>3, <2>2, BuffersHold
    <3>3. Truthful(e, row', overruled')
      BY <1>1, <1>3, <3>1, JudgeKnown DEF Truthful, Knows
    <3> HIDE DEF b, e
    <3>5. n \in Seq(E!Event) /\ Len(n) = Len(b) + 1 /\ Len(b) \in Nat
          /\ \A i \in 1..Len(n) : IF i = Len(b) + 1 THEN n[i] = e ELSE i \in 1..Len(b) /\ n[i] = b[i]
      BY <3>1, <3>2
    <3>6. \A i \in 1..Len(b) : b[i] \in E!Event /\ Truthful(b[i], row, overruled)
      BY <1>3, BuffersHold DEF EventInv, ChannelsTell, b
    <3>8. ASSUME NEW i \in 1..Len(n)
          PROVE  Truthful(n[i], row', overruled')
      <4>1. CASE n[i] = e
        BY <3>3, <4>1
      <4>2. CASE i \in 1..Len(b) /\ n[i] = b[i]
        BY <1>2, <3>6, <4>2, TruthStays
      <4> QED
        BY <3>5, <4>1, <4>2
    <3>9. Len(n) <= Capacity
      BY <3>2, <3>5, Bounds
    <3>10. channel' = [channel EXCEPT ![c].buffer = n]
      BY <2>2 DEF b
    <3> HIDE DEF n
    <3> QED
      BY <1>1, <1>2, <1>3, <3>5, <3>8, <3>9, <3>10, BufferChanged
  <2> QED
    BY <1>1, <2>1, <2>2
<1>5. JudgingTyped' /\ JudgesKnow' /\ WorkersHold'
  BY <1>1, <1>2, <1>3, <1>4, SendingStands
<1>6. MissedTyped'
  <2>1. judging[j].of \in Submissions
    BY JudgeKnown
  <2>2. missed \in [Pages -> SUBSET Submissions] /\ E!Miss(judging[j].of, {c}) \in [Pages -> SUBSET Submissions]
    BY <2>1, MissTyped DEF EventInv, MissedTyped
  <2> QED
    BY <1>1, <2>2 DEF MissedTyped
<1>7. PagesTyped' /\ PagesTell'
  <2>1. Len(channel) <= Len(channel')
    BY <1>4, BuffersHold
  <2> QED
    BY <1>1, <1>2, <2>1, PagesStand
<1> QED
  BY <1>1, <1>2, <1>4, <1>5, <1>6, <1>7, WiresStand DEF EventInv

\* What is known of a page and its wire.
LEMMA PageKnown ==
  ASSUME EventInv, NEW p \in Pages
  PROVE  /\ page[p] \in PageType /\ page[p].stream \in 0..Len(channel)
         /\ page[p].shown \in E!List /\ page[p].list \in E!List
         /\ page[p].load \in {"no", "asked", "answered"}
         /\ page[p].auto \in BOOLEAN /\ page[p].submitted \in BOOLEAN
         /\ page[p].me \in {"unasked", "asked", "unknown"}
         /\ page[p] = [stream |-> page[p].stream, shown |-> page[p].shown, auto |-> page[p].auto,
                       load |-> page[p].load, list |-> page[p].list, submitted |-> page[p].submitted, me |-> page[p].me]
         /\ wire[p] \in Seq(E!Event \cup {E!Opened})
         /\ \A i \in 1..Len(wire[p]) :
              /\ wire[p][i] \in E!Event \cup {E!Opened}
              /\ wire[p][i] # E!Opened => Truthful(wire[p][i], row, overruled)
<1>1. page[p] \in PageType /\ page[p].stream <= Len(channel) /\ Len(channel) \in Nat
  BY BuffersHold DEF EventInv, PagesTyped
<1>2. /\ page[p].stream \in 0..MaxStreams /\ page[p].shown \in E!List /\ page[p].list \in E!List
      /\ page[p].load \in {"no", "asked", "answered"}
      /\ page[p].auto \in BOOLEAN /\ page[p].submitted \in BOOLEAN
      /\ page[p].me \in {"unasked", "asked", "unknown"}
      /\ page[p] = [stream |-> page[p].stream, shown |-> page[p].shown, auto |-> page[p].auto,
                    load |-> page[p].load, list |-> page[p].list, submitted |-> page[p].submitted, me |-> page[p].me]
  BY <1>1 DEF PageType
<1>3. page[p].stream \in 0..Len(channel)
  BY <1>1, <1>2, Bounds
<1>4. wire[p] \in Seq(E!Event \cup {E!Opened})
  BY DEF EventInv, WiresTyped
<1>5. \A i \in 1..Len(wire[p]) : wire[p][i] \in E!Event \cup {E!Opened}
  BY <1>4
<1>6. \A i \in 1..Len(wire[p]) : wire[p][i] # E!Opened => Truthful(wire[p][i], row, overruled)
  BY DEF EventInv, WiresTell
<1> QED
  BY <1>1, <1>2, <1>3, <1>4, <1>5, <1>6

LEMMA PagesAre ==
  ASSUME EventInv
  PROVE  page \in [Pages -> PageType]
BY DEF EventInv, PagesTyped

LEMMA PageChanged ==
  ASSUME EventInv, FinalStays, NEW p \in Pages,
         page' = [q \in Pages |-> page'[q]], page'[p] \in PageType, \A q \in Pages : q # p => page'[q] = page[q],
         Len(channel') \in Nat, Len(channel) <= Len(channel'), page'[p].stream <= Len(channel'),
         Honest(page'[p], row', overruled')
  PROVE  PagesTyped' /\ PagesTell'
<1>1. page \in [Pages -> PageType] /\ \A q \in Pages : page[q].stream \in 0..Len(channel)
  BY PageKnown DEF EventInv, PagesTyped
<1>2. \A q \in Pages : page'[q] \in PageType
  BY <1>1
<1>3. page' \in [Pages -> PageType]
  BY <1>2
<1>4. \A q \in Pages : page'[q].stream <= Len(channel')
  <2>1. Len(channel) \in Nat
    BY BuffersHold
  <2> QED
    BY <1>1, <2>1
<1>5. PageType' = PageType
  BY DEF PageType, E!List, E!Statuses
<1>6. PagesTyped'
  BY <1>3, <1>4, <1>5 DEF PagesTyped
<1>7. \A q \in Pages : Honest(page'[q], row', overruled')
  <2>1. \A q \in Pages : Honest(page[q], row', overruled')
    BY TruthStays DEF EventInv, PagesTell
  <2> QED
    BY <2>1
<1>8. PagesTell'
  BY <1>7 DEF PagesTell
<1> QED
  BY <1>6, <1>8

LEMMA WireChanged ==
  ASSUME EventInv, FinalStays, NEW p \in Pages, NEW w \in Seq(E!Event \cup {E!Opened}),
         \A i \in 1..Len(w) : w[i] = E!Opened \/ Truthful(w[i], row', overruled'), wire' = [wire EXCEPT ![p] = w]
  PROVE  WiresTyped' /\ WiresTell'
<1>1. wire \in [Pages -> Seq(E!Event \cup {E!Opened})]
  BY DEF EventInv, WiresTyped
<1>2. wire' \in [Pages -> Seq(E!Event \cup {E!Opened})] /\ \A q \in Pages : wire'[q] = IF q = p THEN w ELSE wire[q]
  BY <1>1
<1>3. (E!Event \cup {E!Opened})' = E!Event \cup {E!Opened}
  BY DEF E!Event, E!Opened
<1>4. WiresTyped'
  BY <1>2, <1>3 DEF WiresTyped
<1>5. \A e \in E!Event : Truthful(e, row, overruled) => Truthful(e, row', overruled')
  BY TruthStays
<1>6. ASSUME NEW q \in Pages, NEW i \in 1..Len(wire'[q])
      PROVE  wire'[q][i] = E!Opened \/ Truthful(wire'[q][i], row', overruled')
  <2>1. CASE q = p
    BY <1>2, <1>6, <2>1
  <2>2. CASE q # p
    <3>1. wire'[q] = wire[q] /\ i \in 1..Len(wire[q])
      BY <1>2, <1>6, <2>2
    <3>2. wire[q][i] = E!Opened \/ (wire[q][i] \in E!Event /\ Truthful(wire[q][i], row, overruled))
      BY <3>1, PageKnown
    <3> QED
      BY <1>5, <3>1, <3>2
  <2> QED
    BY <2>1, <2>2
<1>7. E!Opened' = E!Opened
  BY DEF E!Opened
<1>8. WiresTell'
  BY <1>6, <1>7 DEF WiresTell
<1> QED
  BY <1>4, <1>8

LEMMA ChannelRecord ==
  ASSUME NEW r, NEW b, NEW k, r = [buffer |-> b, closed |-> k]
  PROVE  \A x : [r EXCEPT !.closed = x] = [buffer |-> b, closed |-> x]
OBVIOUS

\* A channel is unsubscribed.
LEMMA UnsubscribeKept ==
  ASSUME EventInv, NEW c, E!Unsubscribe(c)
  PROVE  EventInv'
<1>1. /\ UNCHANGED <<row, runtime, overruled, judging, wire, page, missed>>
      /\ c \in subs /\ subs' = subs \ {c} /\ channel' = [channel EXCEPT ![c] = E!Closed]
  BY DEF E!Unsubscribe
<1>2. RowTyped' /\ FinalStays /\ RedisKnows'
  BY <1>1, RowsStand
<1>3. c \in 1..Len(channel) /\ channel \in Seq(Channel) /\ Len(channel) <= MaxStreams /\ subs \subseteq 1..Len(channel)
  BY <1>1 DEF EventInv, ChannelsTyped
<1>4. E!Closed \in Channel /\ E!Closed.buffer = << >> /\ E!Closed.closed = TRUE
  BY DEF E!Closed, Channel
<1>5. channel' \in Seq(Channel) /\ Len(channel') = Len(channel)
      /\ \A k \in 1..Len(channel) : channel'[k] = IF k = c THEN E!Closed ELSE channel[k]
  BY <1>1, <1>3, <1>4, ExceptSeq
<1>6. \A k \in 1..Len(channel) : \/ k = c /\ channel'[k].buffer = << >> /\ channel'[k].closed
                                 \/ k # c /\ channel'[k] = channel[k]
  BY <1>4, <1>5
<1>7. ChannelsTyped'
  <2>1. \A k \in 1..Len(channel) : Len(channel[k].buffer) <= Capacity /\ (channel[k].closed <=> k \notin subs)
    BY DEF EventInv, ChannelsTyped
  <2>2. \A k \in 1..Len(channel') : Len(channel'[k].buffer) <= Capacity
    BY <1>5, <1>6, <2>1, Bounds
  <2>3. \A k \in 1..Len(channel') : channel'[k].closed <=> k \notin subs'
    BY <1>1, <1>5, <1>6, <2>1
  <2> QED
    BY <1>1, <1>3, <1>5, <2>2, <2>3 DEF ChannelsTyped, Channel
<1>8. ChannelsTell'
  <2>1. \A k \in 1..Len(channel) : \A i \in 1..Len(channel[k].buffer) : Truthful(channel[k].buffer[i], row', overruled')
    BY <1>1 DEF EventInv, ChannelsTell
  <2>2. \A k \in 1..Len(channel') : \A i \in 1..Len(channel'[k].buffer) : k # c /\ channel'[k] = channel[k]
    BY <1>5, <1>6
  <2> QED
    BY <1>5, <2>1, <2>2 DEF ChannelsTell
<1>9. Len(channel') \in Nat /\ Len(channel) <= Len(channel')
  BY <1>5, BuffersHold
<1> QED
  BY <1>1, <1>2, <1>7, <1>8, <1>9, JudgesWait, WorkersWait, WiresStand, PagesStand, Unmissed DEF EventInv

\* A page opens a stream.
LEMMA SubscribeKept ==
  ASSUME EventInv, NEW p \in Pages, E!Subscribe(p)
  PROVE  EventInv'
<1> DEFINE new == [buffer |-> << >>, closed |-> FALSE]
           n   == Len(channel) + 1
<1>1. channel \in Seq(Channel) /\ Len(channel) <= MaxStreams /\ subs \subseteq 1..Len(channel)
  BY DEF EventInv, ChannelsTyped
<1>2. new \in Channel
  BY DEF Channel
<1>3. channel' = Append(channel, new) /\ Len(channel) < MaxStreams
  BY DEF E!Subscribe
<1>4. /\ channel' \in Seq(Channel) /\ Len(channel') = n /\ n \in Nat /\ Len(channel) \in Nat
      /\ \A k \in 1..Len(channel) : channel'[k] = channel[k]
      /\ channel'[n] = new
  BY <1>1, <1>2, <1>3
<1>5. /\ UNCHANGED <<row, runtime, overruled, judging, missed>>
      /\ subs' = subs \cup {n} /\ page' = [page EXCEPT ![p].stream = n]
      /\ wire' = [wire EXCEPT ![p] = <<E!Opened>>]
  BY <1>4 DEF E!Subscribe
<1> HIDE DEF new
<1>6. RowTyped' /\ FinalStays /\ RedisKnows'
  BY <1>5, RowsStand
<1>7. new.buffer = << >> /\ new.closed = FALSE
  BY DEF new
<1>8. \A k \in 1..Len(channel') : k \in 1..Len(channel) \/ k = n
  BY <1>4
<1>9. ChannelsTyped'
  <2>1. \A k \in 1..Len(channel) : Len(channel[k].buffer) <= Capacity /\ (channel[k].closed <=> k \notin subs)
    BY DEF EventInv, ChannelsTyped
  <2>2. Len(channel'[n].buffer) <= Capacity
    BY <1>4, <1>7, Bounds
  <2>3. channel'[n].closed <=> n \notin subs'
    BY <1>4, <1>5, <1>7
  <2>4. \A k \in 1..Len(channel) : k # n
    BY <1>4
  <2>5. Len(channel') <= MaxStreams /\ subs' \subseteq 1..Len(channel')
    BY <1>1, <1>3, <1>4, <1>5, Bounds
  <2>6. \A k \in 1..Len(channel') : Len(channel'[k].buffer) <= Capacity
    BY <1>4, <1>8, <2>1, <2>2
  <2>7. \A k \in 1..Len(channel') : channel'[k].closed <=> k \notin subs'
    BY <1>4, <1>5, <1>8, <2>1, <2>3, <2>4
  <2>8. channel' \in Seq(Channel)'
    BY <1>4 DEF Channel
  <2> QED
    BY <2>5, <2>6, <2>7, <2>8 DEF ChannelsTyped
<1>10. ChannelsTell'
  <2>1. \A k \in 1..Len(channel) : \A i \in 1..Len(channel[k].buffer) : Truthful(channel[k].buffer[i], row', overruled')
    BY <1>5 DEF EventInv, ChannelsTell
  <2>2. \A i \in 1..Len(channel'[n].buffer) : FALSE
    BY <1>4, <1>7
  <2> QED
    BY <1>4, <1>8, <2>1, <2>2 DEF ChannelsTell
<1>11. Len(channel') \in Nat /\ Len(channel) <= Len(channel')
  BY <1>4
<1>12. WiresTyped' /\ WiresTell'
  <2> DEFINE w == <<E!Opened>>
  <2>1. w \in Seq(E!Event \cup {E!Opened}) /\ \A i \in 1..Len(w) : w[i] = E!Opened \/ Truthful(w[i], row', overruled')
    OBVIOUS
  <2> HIDE DEF w
  <2>2. wire' = [wire EXCEPT ![p] = w]
    BY <1>5 DEF w
  <2> QED
    BY <1>6, <2>1, <2>2, WireChanged
<1>13. PagesTyped' /\ PagesTell'
  <2>1. /\ page' = [q \in Pages |-> page'[q]] /\ \A q \in Pages : q # p => page'[q] = page[q]
        /\ page'[p].stream = n /\ page'[p].shown = page[p].shown /\ page'[p].list = page[p].list
    BY <1>5, PagesAre DEF PageType
  <2>2. page'[p] \in PageType
    <3>1. n \in 0..MaxStreams
      BY <1>3, <1>4, Bounds
    <3> QED
      BY <1>5, <3>1, PagesAre DEF PageType
  <2>3. Honest(page'[p], row', overruled')
    BY <1>5, <2>1 DEF EventInv, PagesTell, Honest
  <2>4. page'[p].stream <= Len(channel')
    BY <1>4, <2>1
  <2> QED
    BY <1>6, <1>11, <2>1, <2>2, <2>3, <2>4, PageChanged
<1> QED
  BY <1>5, <1>6, <1>9, <1>10, <1>11, <1>12, <1>13, JudgesWait, WorkersWait, Unmissed DEF EventInv

\* A page asks for the list.
LEMMA PollKept ==
  ASSUME EventInv, NEW p \in Pages, E!Poll(p)
  PROVE  EventInv'
<1>1. /\ UNCHANGED <<row, runtime, overruled, judging, subs, channel, wire, missed>>
      /\ page' = [page EXCEPT ![p].load = "asked"]
  BY DEF E!Poll
<1>2. RowTyped' /\ FinalStays /\ RedisKnows'
  BY <1>1, RowsStand
<1>3. /\ page' = [q \in Pages |-> page'[q]] /\ \A q \in Pages : q # p => page'[q] = page[q]
      /\ page'[p].stream = page[p].stream
      /\ page'[p].shown = page[p].shown /\ page'[p].list = page[p].list
  BY <1>1, PagesAre DEF PageType
<1>4. page'[p] \in PageType
  BY <1>1, PagesAre DEF PageType, EventInv, RowTyped
<1>5. Len(channel') \in Nat /\ Len(channel) <= Len(channel') /\ page'[p].stream <= Len(channel')
  <2>1. Len(channel') = Len(channel)
    BY <1>1
  <2>2. page[p].stream \in 0..Len(channel) /\ Len(channel) \in Nat
    BY PageKnown, BuffersHold
  <2> QED
    BY <1>3, <2>1, <2>2
<1>6. Honest(page'[p], row', overruled')
  BY <1>1, <1>3 DEF EventInv, PagesTell, Honest
<1>7. PagesTyped' /\ PagesTell'
  BY <1>2, <1>3, <1>4, <1>5, <1>6, PageChanged
<1> QED
  BY <1>1, <1>2, <1>5, <1>7, JudgesWait, WorkersWait, ChannelsStand, WiresStand, Unmissed DEF EventInv

\* The list is on its way.
LEMMA QuestionSubmitListKept ==
  ASSUME EventInv, NEW p \in Pages, E!QuestionSubmitList(p)
  PROVE  EventInv'
<1>0. PICK list \in E!List : /\ \A s \in Submissions : list[s] \in E!Listed(s)
                             /\ page' = [page EXCEPT ![p].load = "answered", ![p].list = list]
  BY DEF E!QuestionSubmitList
<1>1. /\ UNCHANGED <<row, runtime, overruled, judging, subs, channel, wire, missed>>
      /\ page' = [page EXCEPT ![p].load = "answered", ![p].list = list]
  BY <1>0 DEF E!QuestionSubmitList
<1>2. RowTyped' /\ FinalStays /\ RedisKnows'
  BY <1>1, RowsStand
<1>3. /\ page' = [q \in Pages |-> page'[q]] /\ \A q \in Pages : q # p => page'[q] = page[q]
      /\ page'[p].stream = page[p].stream
      /\ page'[p].shown = page[p].shown /\ page'[p].list = list
  BY <1>1, PagesAre DEF PageType
<1>4. page'[p] \in PageType
  BY <1>1, PagesAre DEF PageType, EventInv, RowTyped
<1>5. Len(channel') \in Nat /\ Len(channel) <= Len(channel') /\ page'[p].stream <= Len(channel')
  <2>1. Len(channel') = Len(channel)
    BY <1>1
  <2>2. page[p].stream \in 0..Len(channel) /\ Len(channel) \in Nat
    BY PageKnown, BuffersHold
  <2> QED
    BY <1>3, <2>1, <2>2
<1>6. Honest(page'[p], row', overruled')
  <2>1. \A s \in Submissions : page[p].shown[s] \in Finals => s \in overruled \/ row[s] = page[p].shown[s]
    BY DEF EventInv, PagesTell, Honest
  <2>2. \A s \in Submissions : list[s] \in Finals => s \in overruled \/ row[s] = list[s]
    BY <1>0 DEF E!Listed, EventInv, RedisKnows
  <2> QED
    BY <1>1, <1>3, <2>1, <2>2 DEF Honest
<1>7. PagesTyped' /\ PagesTell'
  BY <1>2, <1>3, <1>4, <1>5, <1>6, PageChanged
<1> QED
  BY <1>1, <1>2, <1>5, <1>7, JudgesWait, WorkersWait, ChannelsStand, WiresStand, Unmissed DEF EventInv

\* It gets lost.
LEMMA ListLostKept ==
  ASSUME EventInv, NEW p \in Pages, E!ListLost(p)
  PROVE  EventInv'
<1> DEFINE ms == {s \in Submissions : row[s] \in Finals /\ page[p].shown[s] \notin Finals /\ ~E!ToCome(p, s)}
<1>1. /\ UNCHANGED <<row, runtime, overruled, judging, subs, channel, wire>>
      /\ page' = [page EXCEPT ![p].load = "no", ![p].submitted = FALSE,
                               ![p].me = IF page[p].me = "unasked" THEN "unknown" ELSE page[p].me]
      /\ missed' = [missed EXCEPT ![p] = missed[p] \cup ms]
  BY DEF E!ListLost
<1>2. RowTyped' /\ FinalStays /\ RedisKnows'
  BY <1>1, RowsStand
<1>3. /\ page' = [q \in Pages |-> page'[q]] /\ \A q \in Pages : q # p => page'[q] = page[q]
      /\ page'[p].stream = page[p].stream
      /\ page'[p].shown = page[p].shown /\ page'[p].list = page[p].list
  <2> DEFINE r == [page[p] EXCEPT !.load = "no", !.submitted = FALSE,
                                  !.me = IF page[p].me = "unasked" THEN "unknown" ELSE page[p].me]
  <2>1. page[p] \in PageType
    BY PagesAre
  <2>2. r.stream = page[p].stream /\ r.shown = page[p].shown /\ r.list = page[p].list
    BY <2>1 DEF PageType
  <2>3. page' = [page EXCEPT ![p] = r]
    BY <1>1
  <2> HIDE DEF r
  <2>4. /\ page' = [q \in Pages |-> page'[q]] /\ \A q \in Pages : q # p => page'[q] = page[q]
        /\ page'[p] = r
    BY <2>3, PagesAre
  <2> QED
    BY <2>2, <2>4
<1>4. page'[p] \in PageType
  <2>1. (IF page[p].me = "unasked" THEN "unknown" ELSE page[p].me) \in {"unasked", "asked", "unknown"}
    BY PageKnown
  <2> QED
    BY <1>1, <2>1, PagesAre DEF PageType
<1>5. Len(channel') \in Nat /\ Len(channel) <= Len(channel') /\ page'[p].stream <= Len(channel')
  <2>1. Len(channel') = Len(channel)
    BY <1>1
  <2>2. page[p].stream \in 0..Len(channel) /\ Len(channel) \in Nat
    BY PageKnown, BuffersHold
  <2> QED
    BY <1>3, <2>1, <2>2
<1>6. Honest(page'[p], row', overruled')
  BY <1>1, <1>3 DEF EventInv, PagesTell, Honest
<1>7. PagesTyped' /\ PagesTell'
  BY <1>2, <1>3, <1>4, <1>5, <1>6, PageChanged
<1>8. MissedTyped'
  <2>1. ms \subseteq Submissions
    OBVIOUS
  <2> HIDE DEF ms
  <2> QED
    BY <1>1, <2>1 DEF EventInv, MissedTyped
<1> QED
  BY <1>1, <1>2, <1>5, <1>7, <1>8, JudgesWait, WorkersWait, ChannelsStand, WiresStand DEF EventInv

\* A page submits.
LEMMA SubmitKept ==
  ASSUME EventInv, NEW p \in Pages, NEW s \in Submissions, E!Submit(p, s)
  PROVE  EventInv'
<1>1. /\ UNCHANGED <<runtime, overruled, judging, subs, channel, wire, missed>>
      /\ page' = [page EXCEPT ![p].load = "asked", ![p].submitted = TRUE]
      /\ row[s] = "none" /\ row' = [row EXCEPT ![s] = "pending"]
  BY DEF E!Submit
<1>2. RowTyped' /\ FinalStays
  <2>1. "none" \notin Finals /\ "pending" \in E!Statuses
    BY EventsAssumption DEF E!Statuses
  <2>2. row \in [Submissions -> E!Statuses] /\ row' \in [Submissions -> E!Statuses]
    BY <1>1, <2>1 DEF EventInv, RowTyped, E!List
  <2>3. RowTyped'
    BY <1>1, <2>2 DEF EventInv, RowTyped, E!List, E!Statuses, E!Told
  <2>4. FinalStays
    BY <1>1, <2>1, <2>2 DEF FinalStays
  <2> QED
    BY <2>3, <2>4
<1>3. /\ page' = [q \in Pages |-> page'[q]] /\ \A q \in Pages : q # p => page'[q] = page[q]
      /\ page'[p].stream = page[p].stream
      /\ page'[p].shown = page[p].shown /\ page'[p].list = page[p].list
  BY <1>1, PagesAre DEF PageType
<1>4. page'[p] \in PageType
  BY <1>1, PagesAre DEF PageType, EventInv, RowTyped
<1>5. Len(channel') \in Nat /\ Len(channel) <= Len(channel') /\ page'[p].stream <= Len(channel')
  <2>1. Len(channel') = Len(channel)
    BY <1>1
  <2>2. page[p].stream \in 0..Len(channel) /\ Len(channel) \in Nat
    BY PageKnown, BuffersHold
  <2> QED
    BY <1>3, <2>1, <2>2
<1>6. Honest(page'[p], row', overruled')
  BY <1>1, <1>2, <1>3, TruthStays DEF EventInv, PagesTell, Honest
<1>7. PagesTyped' /\ PagesTell'
  BY <1>2, <1>3, <1>4, <1>5, <1>6, PageChanged
<1>8. WorkersHold'
  <2>1. \A t \in Submissions : row'[t] = row[t] \/ t = s
    BY <1>1 DEF EventInv, RowTyped, E!List
  <2>2. \A k \in Judges : Works(judging[k], s) => s \in overruled
    BY <1>1 DEF EventInv, WorkersHold
  <2> QED
    BY <1>1, <2>1, <2>2, WorkersStand
<1> QED
  BY <1>1, <1>2, <1>5, <1>7, <1>8, RedisStands, JudgesWait, ChannelsStand, WiresStand, Unmissed DEF EventInv

\* The list is shown.
LEMMA LoadedKept ==
  ASSUME EventInv, NEW p \in Pages, E!Loaded(p)
  PROVE  EventInv'
<1> DEFINE again == page[p].submitted \/ \E s \in Submissions : page[p].list[s] \in {"pending", "running"}
           m     == IF page[p].me = "unasked" THEN "asked" ELSE page[p].me
<1>1. /\ UNCHANGED <<row, runtime, overruled, judging, subs, channel, wire>>
      /\ page' = [page EXCEPT ![p].load = "no", ![p].shown = page[p].list, ![p].list = E!Nothing,
                               ![p].submitted = FALSE, ![p].me = m, ![p].auto = again]
      /\ missed' = [missed EXCEPT ![p] = missed[p] \cup E!Overtaken(p)]
  BY DEF E!Loaded
<1>2. RowTyped' /\ FinalStays /\ RedisKnows'
  BY <1>1, RowsStand
<1>3. again \in BOOLEAN /\ m \in {"unasked", "asked", "unknown"} /\ E!Nothing \in E!List
  BY PageKnown DEF E!Nothing, E!List, E!Statuses
<1> HIDE DEF again, m
<1>4. /\ page' = [q \in Pages |-> page'[q]] /\ \A q \in Pages : q # p => page'[q] = page[q]
      /\ page'[p].stream = page[p].stream
      /\ page'[p].shown = page[p].list /\ page'[p].list = E!Nothing
  <2> DEFINE r == [page[p] EXCEPT !.load = "no", !.shown = page[p].list, !.list = E!Nothing,
                                  !.submitted = FALSE, !.me = m, !.auto = again]
  <2>1. page[p] \in PageType
    BY PagesAre
  <2>2. r.stream = page[p].stream /\ r.shown = page[p].list /\ r.list = E!Nothing
    BY <2>1 DEF PageType
  <2>3. page' = [page EXCEPT ![p] = r]
    BY <1>1
  <2> HIDE DEF r
  <2>4. /\ page' = [q \in Pages |-> page'[q]] /\ \A q \in Pages : q # p => page'[q] = page[q]
        /\ page'[p] = r
    BY <2>3, PagesAre
  <2> QED
    BY <2>2, <2>4
<1>5. page'[p] \in PageType
  <2> DEFINE r == [page[p] EXCEPT !.load = "no", !.shown = page[p].list, !.list = E!Nothing,
                                  !.submitted = FALSE, !.me = m, !.auto = again]
  <2>1. page[p] \in PageType
    BY PagesAre
  <2>2. r \in PageType
    BY <1>3, <2>1 DEF PageType
  <2>3. page' = [page EXCEPT ![p] = r]
    BY <1>1
  <2> HIDE DEF r
  <2> QED
    BY <2>2, <2>3, PagesAre
<1>6. Len(channel') \in Nat /\ Len(channel) <= Len(channel') /\ page'[p].stream <= Len(channel')
  <2>1. Len(channel') = Len(channel)
    BY <1>1
  <2>2. page[p].stream \in 0..Len(channel) /\ Len(channel) \in Nat
    BY PageKnown, BuffersHold
  <2> QED
    BY <1>4, <2>1, <2>2
<1>7. Honest(page'[p], row', overruled')
  <2>1. \A s \in Submissions : page[p].list[s] \in Finals => s \in overruled \/ row[s] = page[p].list[s]
    BY DEF EventInv, PagesTell, Honest
  <2>2. \A s \in Submissions : E!Nothing[s] \notin Finals
    BY EventsAssumption DEF E!Nothing
  <2>3. /\ page'[p].shown = page[p].list /\ page'[p].list = E!Nothing
        /\ row' = row /\ overruled' = overruled
    BY <1>1, <1>4
  <2> QED
    BY <2>1, <2>2, <2>3 DEF Honest
<1>8. PagesTyped' /\ PagesTell'
  BY <1>2, <1>4, <1>5, <1>6, <1>7, PageChanged
<1>9. MissedTyped'
  <2>1. E!Overtaken(p) \subseteq Submissions
    BY DEF E!Overtaken
  <2> QED
    BY <1>1, <2>1 DEF EventInv, MissedTyped
<1> QED
  BY <1>1, <1>2, <1>6, <1>8, <1>9, JudgesWait, WorkersWait, ChannelsStand, WiresStand DEF EventInv

\* The connection breaks.
LEMMA BreakKept ==
  ASSUME EventInv, NEW p \in Pages, E!Break(p)
  PROVE  EventInv'
<1>1. /\ UNCHANGED <<row, runtime, overruled, judging, subs, channel>>
      /\ page' = [page EXCEPT ![p].stream = 0, ![p].auto = TRUE]
      /\ wire' = [wire EXCEPT ![p] = << >>]
      /\ missed' = [missed EXCEPT ![p] = missed[p] \cup E!Undelivered(p)]
  BY DEF E!Break
<1>2. RowTyped' /\ FinalStays /\ RedisKnows'
  BY <1>1, RowsStand
<1>3. /\ page' = [q \in Pages |-> page'[q]] /\ \A q \in Pages : q # p => page'[q] = page[q]
      /\ page'[p].stream = 0
      /\ page'[p].shown = page[p].shown /\ page'[p].list = page[p].list
  BY <1>1, PagesAre DEF PageType
<1>4. page'[p] \in PageType
  <2>1. 0 \in 0..MaxStreams
    BY Bounds
  <2> QED
    BY <1>1, <2>1, PagesAre DEF PageType
<1>5. Len(channel') \in Nat /\ Len(channel) <= Len(channel') /\ page'[p].stream <= Len(channel')
  <2>1. Len(channel') = Len(channel)
    BY <1>1
  <2>2. Len(channel) \in Nat
    BY BuffersHold
  <2> QED
    BY <1>3, <2>1, <2>2
<1>6. Honest(page'[p], row', overruled')
  BY <1>1, <1>3 DEF EventInv, PagesTell, Honest
<1>7. PagesTyped' /\ PagesTell'
  BY <1>2, <1>3, <1>4, <1>5, <1>6, PageChanged
<1>8. MissedTyped'
  <2>1. E!Undelivered(p) \subseteq Submissions
    BY DEF E!Undelivered
  <2> QED
    BY <1>1, <2>1 DEF EventInv, MissedTyped
<1>9. WiresTyped' /\ WiresTell'
  <2> DEFINE w == << >>
  <2>1. w \in Seq(E!Event \cup {E!Opened}) /\ \A i \in 1..Len(w) : w[i] = E!Opened \/ Truthful(w[i], row', overruled')
    OBVIOUS
  <2> HIDE DEF w
  <2>2. wire' = [wire EXCEPT ![p] = w]
    BY <1>1 DEF w
  <2> QED
    BY <1>2, <2>1, <2>2, WireChanged
<1> QED
  BY <1>1, <1>2, <1>5, <1>7, <1>8, <1>9, JudgesWait, WorkersWait, ChannelsStand DEF EventInv

\* A handler forwards an event.
LEMMA ForwardKept ==
  ASSUME EventInv, NEW p \in Pages, E!Forward(p)
  PROVE  EventInv'
<1> DEFINE c == page[p].stream
           b == channel[c].buffer
           h == Head(b)
           w == Append(wire[p], h)
           d == Tail(b)
<1>1. /\ UNCHANGED <<row, runtime, overruled, judging, subs, page, missed>>
      /\ c # 0 /\ b # << >>
      /\ wire' = [wire EXCEPT ![p] = w]
      /\ channel' = [channel EXCEPT ![c].buffer = d]
  BY DEF E!Forward
<1>2. RowTyped' /\ FinalStays /\ RedisKnows'
  BY <1>1, RowsStand
<1>3. c \in 1..Len(channel)
  <2>1. c \in 0..Len(channel) /\ Len(channel) \in Nat
    BY PageKnown, BuffersHold
  <2> QED
    BY <1>1, <2>1
<1>4. b \in Seq(E!Event) /\ Len(b) <= Capacity
  BY <1>3, BuffersHold DEF EventInv, ChannelsTyped
<1>5. \A i \in 1..Len(b) : b[i] \in E!Event /\ Truthful(b[i], row', overruled')
  <2>1. \A i \in 1..Len(b) : b[i] \in E!Event /\ Truthful(b[i], row, overruled)
    BY <1>3, BuffersHold DEF EventInv, ChannelsTell
  <2>2. row' = row /\ overruled' = overruled
    BY <1>1
  <2> QED
    BY <2>1, <2>2
<1> HIDE DEF b, c
<1>6. /\ h \in E!Event /\ Truthful(h, row', overruled')
      /\ d \in Seq(E!Event) /\ Len(d) <= Len(b) /\ \A i \in 1..Len(d) : Truthful(d[i], row', overruled')
  <2>1. Len(b) \in Nat /\ 1 \in 1..Len(b) /\ h = b[1]
    BY <1>1, <1>4
  <2>2. d \in Seq(E!Event) /\ Len(d) = Len(b) - 1 /\ \A i \in 1..Len(d) : i + 1 \in 1..Len(b) /\ d[i] = b[i + 1]
    BY <1>1, <1>4
  <2> QED
    BY <1>5, <2>1, <2>2
<1>7. w \in Seq(E!Event \cup {E!Opened}) /\ \A i \in 1..Len(w) : w[i] = E!Opened \/ Truthful(w[i], row', overruled')
  <2> HIDE DEF h
  <2>1. wire[p] \in Seq(E!Event \cup {E!Opened}) /\ h \in E!Event \cup {E!Opened}
    BY <1>6, PageKnown
  <2>2. w \in Seq(E!Event \cup {E!Opened}) /\ Len(w) = Len(wire[p]) + 1 /\ Len(wire[p]) \in Nat
        /\ \A i \in 1..Len(w) : IF i = Len(wire[p]) + 1 THEN w[i] = h ELSE i \in 1..Len(wire[p]) /\ w[i] = wire[p][i]
    BY <2>1
  <2>3. \A i \in 1..Len(wire[p]) : wire[p][i] = E!Opened \/ Truthful(wire[p][i], row', overruled')
    BY <1>1 DEF EventInv, WiresTell
  <2> HIDE DEF w
  <2> QED
    BY <1>6, <2>2, <2>3
<1> HIDE DEF d, w, h
<1>8. ChannelsTyped' /\ ChannelsTell' /\ Len(channel') = Len(channel)
  <2>1. channel' = [channel EXCEPT ![c].buffer = d]
    BY <1>1 DEF d, b, c
  <2>2. Len(d) <= Capacity
    BY <1>4, <1>6, Bounds
  <2> QED
    BY <1>1, <1>2, <1>3, <1>6, <2>1, <2>2, BufferChanged
<1>9. WiresTyped' /\ WiresTell'
  BY <1>1, <1>2, <1>7, WireChanged
<1>10. Len(channel') \in Nat /\ Len(channel) <= Len(channel')
  BY <1>8, BuffersHold
<1> QED
  BY <1>1, <1>2, <1>8, <1>9, <1>10, JudgesWait, WorkersWait, PagesStand, Unmissed DEF EventInv

\* A page receives what is first on its wire.
LEMMA ReceiveKept ==
  ASSUME EventInv, NEW p \in Pages, E!Receive(p)
  PROVE  EventInv'
<1> DEFINE e == Head(wire[p])
           w == Tail(wire[p])
<1>1. /\ UNCHANGED <<row, runtime, overruled, judging, subs, channel>>
      /\ wire[p] # << >> /\ wire' = [wire EXCEPT ![p] = w]
      /\ \/ page' = [page EXCEPT ![p].auto = FALSE]
         \/ e # E!Opened /\ page' = [page EXCEPT ![p].auto = FALSE, ![p].shown[e.submission] = e.status]
         \/ page' = [page EXCEPT ![p].auto = FALSE, ![p].load = "asked", ![p].list = E!Nothing]
      /\ missed' = [missed EXCEPT ![p] = missed[p] \cup E!Undone(p, e)]
  BY DEF E!Receive
<1>2. RowTyped' /\ FinalStays /\ RedisKnows'
  BY <1>1, RowsStand
<1>3. /\ e \in E!Event \cup {E!Opened} /\ (e # E!Opened => Truthful(e, row', overruled'))
      /\ w \in Seq(E!Event \cup {E!Opened})
      /\ \A i \in 1..Len(w) : w[i] = E!Opened \/ Truthful(w[i], row', overruled')
  <2> DEFINE v == wire[p]
  <2>1. /\ v \in Seq(E!Event \cup {E!Opened}) /\ v # << >>
        /\ \A i \in 1..Len(v) : v[i] \in E!Event \cup {E!Opened} /\ (v[i] # E!Opened => Truthful(v[i], row, overruled))
    BY <1>1, PageKnown
  <2>2. row' = row /\ overruled' = overruled
    BY <1>1
  <2> HIDE DEF v
  <2>3. Len(v) \in Nat /\ 1 \in 1..Len(v) /\ Head(v) = v[1]
    BY <2>1
  <2>4. /\ Tail(v) \in Seq(E!Event \cup {E!Opened}) /\ Len(Tail(v)) = Len(v) - 1
        /\ \A i \in 1..Len(Tail(v)) : i + 1 \in 1..Len(v) /\ Tail(v)[i] = v[i + 1]
    BY <2>1
  <2>5. \A i \in 1..Len(Tail(v)) : Tail(v)[i] = E!Opened \/ Truthful(Tail(v)[i], row, overruled)
    BY <2>1, <2>4
  <2>6. Head(v) \in E!Event \cup {E!Opened} /\ (Head(v) # E!Opened => Truthful(Head(v), row, overruled))
    BY <2>1, <2>3
  <2> QED
    BY <2>2, <2>4, <2>5, <2>6 DEF v
<1> HIDE DEF e, w
<1>4. WiresTyped' /\ WiresTell'
  BY <1>1, <1>2, <1>3, WireChanged
<1>5. e # E!Opened => /\ e.submission \in Submissions /\ e.status \in E!Statuses
                      /\ e.status \in Finals => e.submission \in overruled' \/ row'[e.submission] = e.status
  <2>1. e # E!Opened => e \in E!Event
    BY <1>3
  <2>2. {"running"} \cup Finals \subseteq E!Statuses
    BY DEF E!Statuses
  <2> QED
    BY <1>3, <2>1, <2>2 DEF E!Event, E!Told, Truthful
<1>6. /\ page' = [q \in Pages |-> page'[q]] /\ \A q \in Pages : q # p => page'[q] = page[q]
      /\ page'[p].stream = page[p].stream /\ page'[p].list \in {page[p].list, E!Nothing}
      /\ \/ page'[p].shown = page[p].shown
         \/ e # E!Opened /\ page'[p].shown = [page[p].shown EXCEPT ![e.submission] = e.status]
  BY <1>1, PagesAre DEF PageType
<1>7. page'[p] \in PageType
  <2>1. CASE page' = [page EXCEPT ![p].auto = FALSE]
    BY <2>1, PagesAre DEF PageType
  <2>2. CASE e # E!Opened /\ page' = [page EXCEPT ![p].auto = FALSE, ![p].shown[e.submission] = e.status]
    <3>1. [page[p].shown EXCEPT ![e.submission] = e.status] \in E!List
      BY <1>5, <2>2, PageKnown DEF E!List
    <3> QED
      BY <2>2, <3>1, PagesAre DEF PageType
  <2>3. CASE page' = [page EXCEPT ![p].auto = FALSE, ![p].load = "asked", ![p].list = E!Nothing]
    <3>1. E!Nothing \in E!List
      BY DEF E!Nothing, E!List, E!Statuses
    <3> QED
      BY <2>3, <3>1, PagesAre DEF PageType
  <2> QED
    BY <1>1, <2>1, <2>2, <2>3
<1>8. Len(channel') \in Nat /\ Len(channel) <= Len(channel') /\ page'[p].stream <= Len(channel')
  <2>1. Len(channel') = Len(channel)
    BY <1>1
  <2>2. page[p].stream \in 0..Len(channel) /\ Len(channel) \in Nat
    BY PageKnown, BuffersHold
  <2> QED
    BY <1>6, <2>1, <2>2
<1>9. Honest(page'[p], row', overruled')
  <2> SUFFICES ASSUME NEW s \in Submissions
               PROVE  /\ page'[p].shown[s] \in Finals => s \in overruled' \/ row'[s] = page'[p].shown[s]
                      /\ page'[p].list[s] \in Finals => s \in overruled' \/ row'[s] = page'[p].list[s]
    BY DEF Honest
  <2>1. /\ page[p].shown[s] \in Finals => s \in overruled' \/ row'[s] = page[p].shown[s]
        /\ page[p].list[s] \in Finals => s \in overruled' \/ row'[s] = page[p].list[s]
    BY <1>1 DEF EventInv, PagesTell, Honest
  <2>2. E!Nothing[s] \notin Finals
    BY EventsAssumption DEF E!Nothing
  <2>3. page'[p].list[s] \in Finals => s \in overruled' \/ row'[s] = page'[p].list[s]
    BY <1>6, <2>1, <2>2
  <2>4. CASE page'[p].shown = page[p].shown
    BY <2>1, <2>3, <2>4
  <2>5. CASE e # E!Opened /\ page'[p].shown = [page[p].shown EXCEPT ![e.submission] = e.status]
    <3>1. page[p].shown \in [Submissions -> E!Statuses]
      BY PageKnown DEF E!List
    <3>2. page'[p].shown[s] = IF s = e.submission THEN e.status ELSE page[p].shown[s]
      BY <2>5, <3>1
    <3> QED
      BY <1>5, <2>1, <2>3, <2>5, <3>2
  <2> QED
    BY <1>6, <2>4, <2>5
<1>10. PagesTyped' /\ PagesTell'
  BY <1>2, <1>6, <1>7, <1>8, <1>9, PageChanged
<1>11. MissedTyped'
  <2>1. E!Undone(p, e) \subseteq Submissions
    BY DEF E!Undone, EventInv, RowTyped
  <2> QED
    BY <1>1, <2>1 DEF EventInv, MissedTyped
<1> QED
  BY <1>1, <1>2, <1>4, <1>8, <1>10, <1>11, JudgesWait, WorkersWait, ChannelsStand DEF EventInv

\* The process ends.
LEMMA PanicKept ==
  ASSUME EventInv, NEW j \in Judges, E!Panic(j)
  PROVE  EventInv'
<1>1. /\ judging' = [k \in Judges |-> IF judging[k] = E!Call THEN E!Call ELSE E!Done]
      /\ UNCHANGED <<row, runtime, overruled>>
      /\ subs' = {} /\ channel' = [c \in DOMAIN channel |-> E!Closed]
      /\ wire' = [p \in Pages |-> << >>]
      /\ page' = [p \in Pages |-> [page[p] EXCEPT !.stream = 0, !.auto = page[p].auto \/ page[p].stream # 0]]
      /\ missed' = [p \in Pages |-> missed[p] \cup {s \in Submissions : row[s] \in Finals}]
  BY DEF E!Panic
<1>2. RowTyped' /\ FinalStays /\ RedisKnows'
  BY <1>1, RowsStand
<1>3. \A k \in Judges : judging'[k] \in {E!Call, E!Done}
  BY <1>1
<1>4. E!Closed \in Channel /\ E!Closed.buffer = << >> /\ E!Closed.closed = TRUE
  BY DEF E!Closed, Channel
<1>5. /\ channel' \in Seq(Channel) /\ Len(channel') = Len(channel) /\ Len(channel) \in Nat
      /\ \A c \in 1..Len(channel) : channel'[c] = E!Closed
  <2>1. channel \in Seq(Channel) /\ Len(channel) \in Nat /\ DOMAIN channel = 1..Len(channel)
    BY DEF EventInv, ChannelsTyped
  <2>2. channel' = [c \in 1..Len(channel) |-> E!Closed]
    BY <1>1, <2>1
  <2>3. channel' \in Seq(Channel) /\ Len(channel') = Len(channel)
    BY <1>4, <2>1, <2>2
  <2> QED
    BY <2>1, <2>2, <2>3
<1>6. JudgingTyped' /\ JudgesKnow' /\ WorkersHold'
  <2>1. judging' = [k \in Judges |-> judging'[k]]
    BY <1>1
  <2>2. \A k \in Judges : judging'[k] \in Judging(1..Len(channel')) /\ Turn(judging'[k]) /\ Knows(judging'[k], row', overruled')
    BY <1>3, Idle
  <2>3. judging' \in [Judges -> Judging(1..Len(channel'))]
    BY <2>1, <2>2
  <2>4. JudgingTyped'
    BY <2>2, <2>3 DEF JudgingTyped, Judging, E!Places, E!Told
  <2>5. JudgesKnow'
    BY <2>2 DEF JudgesKnow
  <2>6. \A k \in Judges, s \in Submissions : ~Works(judging'[k], s)
    BY <1>3, Idle
  <2>7. WorkersHold'
    BY <2>6 DEF WorkersHold
  <2> QED
    BY <2>4, <2>5, <2>7
<1>7. ChannelsTyped' /\ ChannelsTell'
  <2>1. \A c \in 1..Len(channel') : channel'[c].buffer = << >> /\ channel'[c].closed
    BY <1>4, <1>5
  <2>2. \A c \in 1..Len(channel') : Len(channel'[c].buffer) <= Capacity /\ (channel'[c].closed <=> c \notin subs')
    <3>1. \A c \in 1..Len(channel') : Len(channel'[c].buffer) <= Capacity
      BY <2>1, Bounds
    <3>2. \A c \in 1..Len(channel') : channel'[c].closed <=> c \notin subs'
      BY <1>1, <2>1
    <3> QED
      BY <3>1, <3>2
  <2>3. Len(channel') <= MaxStreams
    BY <1>5 DEF EventInv, ChannelsTyped
  <2>4. ChannelsTyped'
    BY <1>1, <1>5, <2>2, <2>3 DEF ChannelsTyped, Channel
  <2>5. \A c \in 1..Len(channel') : \A i \in 1..Len(channel'[c].buffer) : FALSE
    BY <2>1
  <2> QED
    BY <2>4, <2>5 DEF ChannelsTell
<1>8. WiresTyped' /\ WiresTell'
  <2>1. \A p \in Pages : wire'[p] = << >>
    BY <1>1
  <2>2. WiresTyped'
    <3>1. << >> \in Seq(E!Event \cup {E!Opened})'
      OBVIOUS
    <3> QED
      BY <1>1, <3>1 DEF WiresTyped
  <2> QED
    BY <2>1, <2>2 DEF WiresTell
<1>9. \A p \in Pages :
        /\ page'[p] \in PageType /\ page'[p].stream = 0
        /\ page'[p].shown = page[p].shown /\ page'[p].list = page[p].list
  <2> SUFFICES ASSUME NEW p \in Pages
               PROVE  /\ page'[p] \in PageType /\ page'[p].stream = 0
                      /\ page'[p].shown = page[p].shown /\ page'[p].list = page[p].list
    OBVIOUS
  <2> DEFINE more == page[p].auto \/ page[p].stream # 0
  <2>1. page[p] \in PageType /\ more \in BOOLEAN
    BY PageKnown
  <2>2. page'[p] = [page[p] EXCEPT !.stream = 0, !.auto = more]
    BY <1>1
  <2>3. 0 \in 0..MaxStreams
    BY Bounds
  <2> HIDE DEF more
  <2> QED
    BY <2>1, <2>2, <2>3 DEF PageType
<1>10. PagesTyped' /\ PagesTell'
  <2>1. page' = [p \in Pages |-> page'[p]]
    BY <1>1
  <2>2. page' \in [Pages -> PageType]
    BY <1>9, <2>1
  <2>3. \A p \in Pages : page'[p].stream <= Len(channel')
    BY <1>5, <1>9
  <2>4. PageType' = PageType
    BY DEF PageType, E!List, E!Statuses
  <2>5. \A p \in Pages : Honest(page'[p], row', overruled')
    BY <1>1, <1>9 DEF EventInv, PagesTell, Honest
  <2>6. PagesTell'
    BY <2>5 DEF PagesTell
  <2> QED
    BY <2>2, <2>3, <2>4, <2>6 DEF PagesTyped
<1>11. MissedTyped'
  BY <1>1 DEF EventInv, MissedTyped
<1> QED
  BY <1>2, <1>6, <1>7, <1>8, <1>10, <1>11 DEF EventInv

\* Every step of the judges, streams and pages keeps the invariant.
LEMMA EventStepKept ==
  ASSUME EventInv, E!Next
  PROVE  EventInv'
<1>1. ASSUME NEW j \in Judges, E!Tell(j)
      PROVE  EventInv'
  BY <1>1, publishSubmitRuntimeEventKept, PanicKept, SendToKept DEF E!Tell
<1>2. ASSUME NEW p \in Pages, E!Reader(p)
      PROVE  EventInv'
  BY <1>2, QuestionSubmitListKept, LoadedKept, PollKept DEF E!Reader
<1> QED
  BY <1>1, <1>2, ClaimKept, FinishKept, FailKept, requeueStuckSubmitsKept, MarkSubmitSystemErrorKept, SubmitKept,
     SubscribeKept, BreakKept, ForwardKept, ReceiveKept, UnsubscribeKept, ListLostKept DEF E!Next

\* Steps that are not theirs.
LEMMA EventsAlone ==
  ASSUME EventInv, UNCHANGED eVars
  PROVE  EventInv'
<1>1. UNCHANGED <<row, runtime, overruled, judging, subs, channel, wire, page, missed>>
  BY DEF eVars
<1>2. RowTyped' /\ FinalStays /\ RedisKnows'
  BY <1>1, RowsStand
<1>3. Len(channel') \in Nat /\ Len(channel) <= Len(channel')
  BY <1>1, BuffersHold
<1> QED
  BY <1>1, <1>2, <1>3, JudgesWait, WorkersWait, ChannelsStand, WiresStand, PagesStand, Unmissed DEF EventInv

\* At first nothing has been told.
LEMMA EventsFresh ==
  ASSUME E!Init
  PROVE  EventInv
<1> DEFINE first == [stream |-> 0, shown |-> E!Nothing, auto |-> FALSE, load |-> "asked",
                     list |-> E!Nothing, submitted |-> FALSE, me |-> "unasked"]
<1>1. /\ row = E!Nothing /\ runtime = E!Nothing /\ overruled = {} /\ judging = [j \in Judges |-> E!Call]
      /\ subs = {} /\ channel = << >> /\ wire = [p \in Pages |-> << >>]
      /\ page = [p \in Pages |-> first] /\ missed = [p \in Pages |-> {}]
  BY DEF E!Init
<1>2. E!Nothing \in E!List /\ E!Nothing \in [Submissions -> {"none"} \cup E!Told] /\ \A s \in Submissions : E!Nothing[s] \notin Finals
  BY EventsAssumption DEF E!Nothing, E!List, E!Statuses
<1>3. RowTyped /\ RedisKnows
  BY <1>1, <1>2 DEF RowTyped, RedisKnows
<1>4. Len(channel) = 0 /\ \A c \in 1..Len(channel) : FALSE
  BY <1>1
<1>5. JudgingTyped /\ JudgesKnow /\ WorkersHold
  <2>1. \A j \in Judges : judging[j] = E!Call
    BY <1>1
  <2>2. E!Call \in Judging(1..Len(channel)) /\ Turn(E!Call) /\ Knows(E!Call, row, overruled) /\ \A s : ~Works(E!Call, s)
    BY Idle
  <2>3. JudgingTyped
    BY <1>1, <2>1, <2>2 DEF JudgingTyped
  <2> QED
    BY <2>1, <2>2, <2>3 DEF JudgesKnow, WorkersHold
<1>6. ChannelsTyped /\ ChannelsTell
  BY <1>1, <1>4, Bounds DEF ChannelsTyped, ChannelsTell
<1>7. WiresTyped /\ WiresTell
  <2>1. \A p \in Pages : wire[p] = << >>
    BY <1>1
  <2>2. WiresTyped
    BY <1>1 DEF WiresTyped
  <2> QED
    BY <2>1, <2>2 DEF WiresTell
<1>8. PagesTyped /\ PagesTell
  <2>1. 0 \in 0..MaxStreams /\ Len(channel) = 0
    BY <1>4, Bounds
  <2>2. first \in PageType /\ first.stream = 0 /\ first.shown = E!Nothing /\ first.list = E!Nothing
    BY <1>2, <2>1 DEF PageType
  <2> HIDE DEF first
  <2>3. page \in [Pages -> PageType] /\ \A p \in Pages : page[p] = first
    BY <1>1, <2>2
  <2>4. Honest(first, row, overruled)
    BY <1>2, <2>2 DEF Honest
  <2> QED
    BY <2>1, <2>2, <2>3, <2>4 DEF PagesTyped, PagesTell
<1>9. MissedTyped
  BY <1>1 DEF MissedTyped
<1> QED
  BY <1>3, <1>5, <1>6, <1>7, <1>8, <1>9 DEF EventInv

----------------------------------------------------------------------------
(* No verdict gets lost. A verdict that was told is behind the progress it  *)
(* takes the place of, wherever both are, unless its submission was taken   *)
(* from a judge: then the last that a page receives of it is its verdict.   *)

ProgressOf(s) == [submission |-> s, status |-> "running"]

\* The events on wire w and, behind them, in buffer b.
Tells(w, b, s) == (\E i \in 1..Len(w) : E!IsVerdict(w[i], s)) \/ (\E i \in 1..Len(b) : E!IsVerdict(b[i], s))
EndsWell(w, b, s) ==
  /\ \A i \in 1..Len(w) :
       w[i] = ProgressOf(s) => \/ \E j \in 1..Len(w) : i < j /\ E!IsVerdict(w[j], s)
                               \/ \E j \in 1..Len(b) : E!IsVerdict(b[j], s)
  /\ \A i \in 1..Len(b) : b[i] = ProgressOf(s) => \E j \in 1..Len(b) : i < j /\ E!IsVerdict(b[j], s)

\* A judge has yet to tell page p, whose stream is k; p shows a verdict or will have it
\* from a list.
Sends(g, s, k) ==
  /\ g.of = s /\ g.tells \in Finals
  /\ g.at = "tell" \/ (g.at = "send" /\ k # 0 /\ k \in g.to)
StillSends(p, s) == \E j \in Judges : Sends(judging[j], s, page[p].stream)
Shows(p, s) ==
  \/ page[p].shown[s] \in Finals
  \/ page[p].load = "asked"
  \/ page[p].load = "answered" /\ page[p].list[s] \in Finals
OfStream(p) == channel[page[p].stream].buffer

OnItsWay(p, s) ==
  \/ StillSends(p, s)
  \/ page[p].stream = 0 /\ Shows(p, s)
  \/ /\ page[p].stream # 0 /\ (s \in overruled \/ EndsWell(wire[p], OfStream(p), s))
     /\ Shows(p, s) \/ Tells(wire[p], OfStream(p), s)

\* A page's stream is its own, and without one nothing is on its wire.
OwnStreams ==
  /\ \A p \in Pages : page[p].stream = 0 => wire[p] = << >>
  /\ \A p, q \in Pages : page[p].stream # 0 /\ page[p].stream = page[q].stream => p = q
NoneLost == \A p \in Pages, s \in Submissions : row[s] \in Finals /\ s \notin missed[p] => OnItsWay(p, s)

WayInv == OwnStreams /\ NoneLost

\* What is a verdict is no progress.
LEMMA EventKinds ==
  /\ \A e, s : E!IsVerdict(e, s) => e # ProgressOf(s) /\ e # E!Opened /\ e.submission = s /\ e.status \in Finals
  /\ \A e, s : e.submission # s => e # ProgressOf(s) /\ ~E!IsVerdict(e, s)
  /\ \A s : E!Opened # ProgressOf(s) /\ ~E!IsVerdict(E!Opened, s)
  /\ \A e \in E!Event : \A s : e.submission = s => e = ProgressOf(s) \/ E!IsVerdict(e, s)
<1>1. "running" \notin Finals /\ "open" \notin Finals
  BY EventsAssumption
<1>2. \A s : ProgressOf(s).submission = s /\ ProgressOf(s).status = "running"
  BY DEF ProgressOf
<1>3. E!Opened.status = "open"
  BY DEF E!Opened
<1>4. \A e \in E!Event : e.status \in {"running"} \cup Finals /\ e = [submission |-> e.submission, status |-> e.status]
  BY DEF E!Event, E!Told
<1>5. \A e \in E!Event : \A s : e.submission = s => e = ProgressOf(s) \/ E!IsVerdict(e, s)
  BY <1>4 DEF E!IsVerdict, ProgressOf
<1>6. \A s : E!Opened # ProgressOf(s)
  BY <1>2, <1>3
<1>7. \A e, s : E!IsVerdict(e, s) => e.submission = s /\ e.status \in Finals
  BY DEF E!IsVerdict
<1>8. \A e, s : E!IsVerdict(e, s) => e # ProgressOf(s) /\ e # E!Opened
  BY <1>1, <1>2, <1>3, <1>7
<1>9. \A e, s : e.submission # s => e # ProgressOf(s)
  BY <1>2
<1>10. \A e, s : e.submission # s => ~E!IsVerdict(e, s)
  BY <1>7
<1>11. \A s : ~E!IsVerdict(E!Opened, s)
  BY <1>8
<1> QED
  BY <1>5, <1>6, <1>7, <1>8, <1>9, <1>10, <1>11

\* An event is put at the end of a buffer.
LEMMA AppendEndsWell ==
  ASSUME NEW w \in Seq(E!Event \cup {E!Opened}), NEW b \in Seq(E!Event), NEW e \in E!Event, NEW s
  PROVE  /\ E!IsVerdict(e, s) => EndsWell(w, Append(b, e), s) /\ Tells(w, Append(b, e), s)
         /\ e.submission # s /\ EndsWell(w, b, s) => EndsWell(w, Append(b, e), s)
         /\ Tells(w, b, s) => Tells(w, Append(b, e), s)
<1> DEFINE n == Append(b, e)
           k == Len(b) + 1
<1>1. /\ Len(n) = k /\ Len(b) \in Nat /\ Len(w) \in Nat
      /\ \A i \in 1..Len(b) : i \in 1..Len(n) /\ n[i] = b[i] /\ i < k
      /\ k \in 1..Len(n) /\ n[k] = e
      /\ \A i \in 1..Len(n) : i \in 1..Len(b) \/ i = k
  OBVIOUS
<1>2. E!IsVerdict(e, s) => e # ProgressOf(s)
  BY EventKinds
<1>3. e.submission # s => e # ProgressOf(s)
  BY EventKinds
<1> HIDE DEF n, k
<1>4. \A j \in 1..Len(b) : E!IsVerdict(b[j], s) => j \in 1..Len(n) /\ E!IsVerdict(n[j], s)
  BY <1>1
<1>5. Tells(w, b, s) => Tells(w, n, s)
  BY <1>4 DEF Tells
<1>6. ASSUME E!IsVerdict(e, s)
      PROVE  EndsWell(w, n, s) /\ Tells(w, n, s)
  <2>1. E!IsVerdict(n[k], s) /\ k \in 1..Len(n)
    BY <1>1, <1>6
  <2>2. \A i \in 1..Len(n) : n[i] = ProgressOf(s) => i < k
    BY <1>1, <1>2, <1>6
  <2> QED
    BY <2>1, <2>2 DEF EndsWell, Tells
<1>7. ASSUME e.submission # s, EndsWell(w, b, s)
      PROVE  EndsWell(w, n, s)
  <2>1. \A i \in 1..Len(w) :
          w[i] = ProgressOf(s) => \/ \E j \in 1..Len(w) : i < j /\ E!IsVerdict(w[j], s)
                                  \/ \E j \in 1..Len(n) : E!IsVerdict(n[j], s)
    BY <1>4, <1>7 DEF EndsWell
  <2>2. ASSUME NEW i \in 1..Len(n), n[i] = ProgressOf(s)
        PROVE  \E j \in 1..Len(n) : i < j /\ E!IsVerdict(n[j], s)
    <3>1. i \in 1..Len(b) /\ b[i] = ProgressOf(s)
      BY <1>1, <1>3, <1>7, <2>2
    <3>2. PICK j \in 1..Len(b) : i < j /\ E!IsVerdict(b[j], s)
      BY <1>7, <3>1 DEF EndsWell
    <3> QED
      BY <1>4, <3>2
  <2> QED
    BY <2>1, <2>2 DEF EndsWell
<1> QED
  BY <1>5, <1>6, <1>7 DEF n

\* An event goes from the buffer to the wire.
LEMMA ForwardEndsWell ==
  ASSUME NEW w \in Seq(E!Event \cup {E!Opened}), NEW b \in Seq(E!Event), b # << >>, NEW s
  PROVE  /\ EndsWell(w, b, s) => EndsWell(Append(w, Head(b)), Tail(b), s)
         /\ Tells(w, b, s) => Tells(Append(w, Head(b)), Tail(b), s)
<1> DEFINE v == Append(w, Head(b))
           d == Tail(b)
           k == Len(w) + 1
<1>1. Len(b) \in Nat /\ Len(w) \in Nat /\ 1 \in 1..Len(b) /\ Head(b) = b[1] /\ Head(b) \in E!Event \cup {E!Opened}
  OBVIOUS
<1>2. /\ Len(v) = k /\ k \in 1..Len(v) /\ v[k] = b[1]
      /\ \A i \in 1..Len(w) : i \in 1..Len(v) /\ v[i] = w[i] /\ i < k
      /\ \A i \in 1..Len(v) : i \in 1..Len(w) \/ i = k
  BY <1>1
<1>3. /\ \A i \in 1..Len(d) : i + 1 \in 1..Len(b) /\ d[i] = b[i + 1]
      /\ \A i \in 1..Len(b) : i = 1 \/ (i - 1 \in 1..Len(d) /\ d[i - 1] = b[i])
  <2>1. d \in Seq(E!Event) /\ Len(d) = Len(b) - 1 /\ \A i \in 1..Len(d) : d[i] = b[i + 1]
    BY <1>1
  <2> HIDE DEF d
  <2>2. \A i \in 1..Len(b) : i = 1 \/ (i - 1 \in 1..Len(d) /\ (i - 1) + 1 = i)
    BY <1>1, <2>1
  <2>3. \A i \in 1..Len(d) : i + 1 \in 1..Len(b)
    BY <1>1, <2>1
  <2> QED
    BY <2>1, <2>2, <2>3
<1> HIDE DEF v, d, k
<1>4. \A j \in 1..Len(w) : E!IsVerdict(w[j], s) => j \in 1..Len(v) /\ E!IsVerdict(v[j], s)
  BY <1>2
<1>5. (\E j \in 1..Len(b) : E!IsVerdict(b[j], s))
        => E!IsVerdict(v[k], s) \/ \E j \in 1..Len(d) : E!IsVerdict(d[j], s)
  BY <1>2, <1>3
<1>6. Tells(w, b, s) => Tells(v, d, s)
  BY <1>2, <1>4, <1>5 DEF Tells
<1>7. ASSUME EndsWell(w, b, s)
      PROVE  EndsWell(v, d, s)
  <2>1. ASSUME NEW i \in 1..Len(v), v[i] = ProgressOf(s)
        PROVE  \/ \E j \in 1..Len(v) : i < j /\ E!IsVerdict(v[j], s)
               \/ \E j \in 1..Len(d) : E!IsVerdict(d[j], s)
    <3>1. CASE i \in 1..Len(w)
      <4>1. w[i] = ProgressOf(s) /\ i < k
        BY <1>2, <2>1, <3>1
      <4>2. CASE \E j \in 1..Len(w) : i < j /\ E!IsVerdict(w[j], s)
        BY <1>4, <4>2
      <4>3. CASE \E j \in 1..Len(b) : E!IsVerdict(b[j], s)
        BY <1>2, <1>5, <4>1, <4>3
      <4> QED
        BY <1>7, <3>1, <4>1, <4>2, <4>3 DEF EndsWell
    <3>2. CASE i = k
      <4>1. b[1] = ProgressOf(s)
        BY <1>2, <2>1, <3>2
      <4>2. PICK j \in 1..Len(b) : 1 < j /\ E!IsVerdict(b[j], s)
        BY <1>1, <1>7, <4>1 DEF EndsWell
      <4>3. j - 1 \in 1..Len(d) /\ E!IsVerdict(d[j - 1], s)
        BY <1>3, <4>2
      <4> QED
        BY <4>3
    <3> QED
      BY <1>2, <3>1, <3>2
  <2>2. ASSUME NEW i \in 1..Len(d), d[i] = ProgressOf(s)
        PROVE  \E j \in 1..Len(d) : i < j /\ E!IsVerdict(d[j], s)
    <3>1. i + 1 \in 1..Len(b) /\ b[i + 1] = ProgressOf(s)
      BY <1>3, <2>2
    <3>2. PICK j \in 1..Len(b) : i + 1 < j /\ E!IsVerdict(b[j], s)
      BY <1>7, <3>1 DEF EndsWell
    <3>3. j # 1 /\ i < j - 1
      BY <3>2
    <3>4. j - 1 \in 1..Len(d) /\ E!IsVerdict(d[j - 1], s)
      BY <1>3, <3>2, <3>3
    <3> QED
      BY <3>3, <3>4
  <2> QED
    BY <2>1, <2>2 DEF EndsWell
<1> QED
  BY <1>6, <1>7 DEF v, d

\* A page takes an event from its wire: if it was progress, the verdict is behind it.
LEMMA ReceiveEndsWell ==
  ASSUME NEW w \in Seq(E!Event \cup {E!Opened}), w # << >>, NEW b \in Seq(E!Event), NEW s
  PROVE  /\ EndsWell(w, b, s) => EndsWell(Tail(w), b, s)
         /\ EndsWell(w, b, s) /\ Head(w) = ProgressOf(s) => Tells(Tail(w), b, s)
         /\ Tells(w, b, s) => E!IsVerdict(Head(w), s) \/ Tells(Tail(w), b, s)
<1> DEFINE d == Tail(w)
<1>1. Len(w) \in Nat /\ 1 \in 1..Len(w) /\ Head(w) = w[1]
  OBVIOUS
<1>2. /\ \A i \in 1..Len(d) : i + 1 \in 1..Len(w) /\ d[i] = w[i + 1]
      /\ \A i \in 1..Len(w) : i = 1 \/ (i - 1 \in 1..Len(d) /\ d[i - 1] = w[i])
  <2>1. d \in Seq(E!Event \cup {E!Opened}) /\ Len(d) = Len(w) - 1 /\ \A i \in 1..Len(d) : d[i] = w[i + 1]
    BY <1>1
  <2> HIDE DEF d
  <2>2. \A i \in 1..Len(w) : i = 1 \/ (i - 1 \in 1..Len(d) /\ (i - 1) + 1 = i)
    BY <1>1, <2>1
  <2>3. \A i \in 1..Len(d) : i + 1 \in 1..Len(w)
    BY <1>1, <2>1
  <2> QED
    BY <2>1, <2>2, <2>3
<1> HIDE DEF d
<1>3. \A i \in Nat, j \in 1..Len(w) : i + 1 < j /\ E!IsVerdict(w[j], s)
        => i < j - 1 /\ j - 1 \in 1..Len(d) /\ E!IsVerdict(d[j - 1], s)
  <2> SUFFICES ASSUME NEW i \in Nat, NEW j \in 1..Len(w), i + 1 < j, E!IsVerdict(w[j], s)
               PROVE  i < j - 1 /\ j - 1 \in 1..Len(d) /\ E!IsVerdict(d[j - 1], s)
    OBVIOUS
  <2>1. j # 1 /\ i < j - 1
    OBVIOUS
  <2> QED
    BY <1>2, <2>1
<1>4. Tells(w, b, s) => E!IsVerdict(Head(w), s) \/ Tells(d, b, s)
  <2>1. ASSUME NEW j \in 1..Len(w), E!IsVerdict(w[j], s)
        PROVE  E!IsVerdict(Head(w), s) \/ \E i \in 1..Len(d) : E!IsVerdict(d[i], s)
    BY <1>1, <1>2, <2>1
  <2> QED
    BY <2>1 DEF Tells
<1>5. ASSUME EndsWell(w, b, s), Head(w) = ProgressOf(s)
      PROVE  Tells(d, b, s)
  <2>1. \/ \E j \in 1..Len(w) : 1 < j /\ E!IsVerdict(w[j], s)
        \/ \E j \in 1..Len(b) : E!IsVerdict(b[j], s)
    BY <1>1, <1>5 DEF EndsWell
  <2>2. ASSUME NEW j \in 1..Len(w), 1 < j, E!IsVerdict(w[j], s)
        PROVE  \E i \in 1..Len(d) : E!IsVerdict(d[i], s)
    BY <1>2, <2>2
  <2> QED
    BY <2>1, <2>2 DEF Tells
<1>6. ASSUME EndsWell(w, b, s)
      PROVE  EndsWell(d, b, s)
  <2>1. ASSUME NEW i \in 1..Len(d), d[i] = ProgressOf(s)
        PROVE  \/ \E j \in 1..Len(d) : i < j /\ E!IsVerdict(d[j], s)
               \/ \E j \in 1..Len(b) : E!IsVerdict(b[j], s)
    <3>1. i + 1 \in 1..Len(w) /\ w[i + 1] = ProgressOf(s) /\ i \in Nat
      BY <1>2, <2>1
    <3>2. \/ \E j \in 1..Len(w) : i + 1 < j /\ E!IsVerdict(w[j], s)
          \/ \E j \in 1..Len(b) : E!IsVerdict(b[j], s)
      BY <1>6, <3>1 DEF EndsWell
    <3>3. ASSUME NEW j \in 1..Len(w), i + 1 < j, E!IsVerdict(w[j], s)
          PROVE  i < j - 1 /\ j - 1 \in 1..Len(d) /\ E!IsVerdict(d[j - 1], s)
      BY <1>3, <3>1, <3>3
    <3> QED
      BY <3>2, <3>3
  <2> QED
    BY <1>6, <2>1 DEF EndsWell
<1> QED
  BY <1>4, <1>5, <1>6 DEF d

LEMMA StreamKnown ==
  ASSUME EventInv, NEW p \in Pages
  PROVE  page[p].stream # 0 => page[p].stream \in 1..Len(channel)
<1> DEFINE c == page[p].stream
           n == Len(channel)
<1>1. c \in 0..n /\ n \in Nat
  BY PageKnown, BuffersHold
<1> HIDE DEF c, n
<1>2. c # 0 => c \in 1..n
  BY <1>1
<1> QED
  BY <1>2 DEF c, n

\* What is to come is sent by a judge, or told on the stream.
LEMMA ToComeIs ==
  ASSUME EventInv, NEW p \in Pages, NEW s \in Submissions
  PROVE  E!ToCome(p, s) <=> StillSends(p, s) \/ (page[p].stream # 0 /\ Tells(wire[p], OfStream(p), s))
<1>1. E!Announced(s) <=> \E j \in Judges : judging[j].at = "tell" /\ judging[j].of = s /\ judging[j].tells \in Finals
  BY DEF E!Announced
<1>2. page[p].stream # 0 =>
        (s \in E!Undelivered(p) <=>
           \/ Tells(wire[p], OfStream(p), s)
           \/ \E j \in Judges : /\ judging[j].at = "send" /\ judging[j].of = s /\ judging[j].tells \in Finals
                                /\ page[p].stream \in judging[j].to)
  <2> SUFFICES ASSUME page[p].stream # 0
               PROVE  (\E e \in E!Range(wire[p]) \cup E!Range(channel[page[p].stream].buffer) : E!IsVerdict(e, s))
                        <=> Tells(wire[p], OfStream(p), s)
    BY DEF E!Undelivered
  <2>1. DOMAIN wire[p] = 1..Len(wire[p])
    BY PageKnown
  <2>2. DOMAIN OfStream(p) = 1..Len(OfStream(p))
    BY StreamKnown, BuffersHold DEF OfStream
  <2> QED
    BY <2>1, <2>2 DEF Tells, E!Range, OfStream
<1> QED
  BY <1>1, <1>2 DEF E!ToCome, StillSends, Sends

\* What is left alone for a page and a submission.
LEMMA StillOnItsWay ==
  ASSUME NEW p \in Pages, NEW s \in Submissions, OnItsWay(p, s), overruled \subseteq overruled',
         page'[p].stream = page[p].stream, wire'[p] = wire[p],
         page[p].stream # 0 => OfStream(p)' = OfStream(p),
         StillSends(p, s) => StillSends(p, s)', Shows(p, s) => Shows(p, s)'
  PROVE  OnItsWay(p, s)'
<1>1. CASE StillSends(p, s)
  BY <1>1 DEF OnItsWay
<1>2. CASE page[p].stream = 0 /\ Shows(p, s)
  BY <1>2 DEF OnItsWay
<1>3. CASE /\ page[p].stream # 0 /\ (s \in overruled \/ EndsWell(wire[p], OfStream(p), s))
           /\ Shows(p, s) \/ Tells(wire[p], OfStream(p), s)
  <2> DEFINE b == OfStream(p)
             c == OfStream(p)'
  <2>1. b = c /\ wire'[p] = wire[p]
    BY <1>3
  <2>2. (s \in overruled' \/ EndsWell(wire'[p], c, s)) /\ (Shows(p, s)' \/ Tells(wire'[p], c, s))
    BY <1>3, <2>1
  <2>3. (s \in overruled' \/ EndsWell(wire[p], OfStream(p), s)') /\ (Shows(p, s)' \/ Tells(wire[p], OfStream(p), s)')
    BY <2>2 DEF EndsWell, Tells, E!IsVerdict, ProgressOf
  <2>4. page'[p].stream # 0
    BY <1>3
  <2> QED
    BY <2>3, <2>4 DEF OnItsWay
<1> QED
  BY <1>1, <1>2, <1>3 DEF OnItsWay

\* Steps that leave the streams and pages alone.
LEMMA TellsOn ==
  ASSUME WayInv, UNCHANGED <<channel, wire, page>>, overruled \subseteq overruled',
         \A p \in Pages, t \in Submissions : row'[t] \in Finals /\ t \notin missed'[p] =>
           StillSends(p, t)' \/ (row[t] \in Finals /\ t \notin missed[p] /\ ~StillSends(p, t))
  PROVE  NoneLost'
<1> SUFFICES ASSUME NEW p \in Pages, NEW t \in Submissions, row'[t] \in Finals, t \notin missed'[p]
             PROVE  OnItsWay(p, t)'
  BY DEF NoneLost
<1>1. CASE StillSends(p, t)'
  BY <1>1 DEF OnItsWay
<1>2. CASE row[t] \in Finals /\ t \notin missed[p] /\ ~StillSends(p, t)
  <2>1. OnItsWay(p, t)
    BY <1>2 DEF WayInv, NoneLost
  <2>2. (Shows(p, t) => Shows(p, t)') /\ OfStream(p)' = OfStream(p)
    BY DEF Shows, OfStream
  <2> QED
    BY <1>2, <2>1, <2>2, StillOnItsWay
<1> QED
  BY <1>1, <1>2

\* Of the judges only one goes on.
LEMMA OthersSend ==
  ASSUME EventInv, NEW j \in Judges, NEW r, judging' = [judging EXCEPT ![j] = r]
  PROVE  /\ judging'[j] = r /\ \A k \in Judges : k # j => judging'[k] = judging[k]
         /\ \A p \in Pages, t \in Submissions :
              page'[p].stream = page[p].stream /\ StillSends(p, t) =>
                StillSends(p, t)' \/ Sends(judging[j], t, page[p].stream)
         /\ \A p \in Pages, t \in Submissions : Sends(r, t, page'[p].stream) => StillSends(p, t)'
<1>1. judging'[j] = r /\ \A k \in Judges : k # j => judging'[k] = judging[k]
  BY JudgingAre
<1>2. \A p \in Pages, t \in Submissions :
        page'[p].stream = page[p].stream /\ StillSends(p, t) =>
          StillSends(p, t)' \/ Sends(judging[j], t, page[p].stream)
  <2> SUFFICES ASSUME NEW p \in Pages, NEW t \in Submissions, page'[p].stream = page[p].stream, StillSends(p, t)
               PROVE  StillSends(p, t)' \/ Sends(judging[j], t, page[p].stream)
    OBVIOUS
  <2>1. PICK k \in Judges : Sends(judging[k], t, page[p].stream)
    BY DEF StillSends
  <2>2. CASE k = j
    BY <2>1, <2>2
  <2>3. CASE k # j
    <3>1. Sends(judging'[k], t, page'[p].stream)
      BY <1>1, <2>1, <2>3
    <3> QED
      BY <3>1 DEF StillSends
  <2> QED
    BY <2>2, <2>3
<1>3. \A p \in Pages, t \in Submissions : Sends(r, t, page'[p].stream) => StillSends(p, t)'
  BY <1>1 DEF StillSends
<1> QED
  BY <1>1, <1>2, <1>3

\* A judge that had nothing to send.
LEMMA SilentTellsOn ==
  ASSUME EventInv, WayInv, UNCHANGED <<channel, wire, page>>, overruled \subseteq overruled',
         NEW j \in Judges, NEW r, judging' = [judging EXCEPT ![j] = r],
         \A k, t : ~Sends(judging[j], t, k),
         \A p \in Pages, t \in Submissions : row'[t] \in Finals /\ t \notin missed'[p] =>
           Sends(r, t, page[p].stream) \/ (row[t] \in Finals /\ t \notin missed[p])
  PROVE  NoneLost'
<1>1. ASSUME NEW p \in Pages, NEW t \in Submissions, row'[t] \in Finals, t \notin missed'[p]
      PROVE  StillSends(p, t)' \/ (row[t] \in Finals /\ t \notin missed[p] /\ ~StillSends(p, t))
  <2>1. CASE Sends(r, t, page[p].stream)
    BY <2>1, OthersSend
  <2>2. CASE row[t] \in Finals /\ t \notin missed[p]
    BY <2>2, OthersSend
  <2> QED
    BY <1>1, <2>1, <2>2
<1> QED
  BY <1>1, TellsOn

\* What a judge sends that announces.
LEMMA AnnounceSends ==
  ASSUME NEW s, NEW t
  PROVE  \A k : Sends([at |-> "tell", of |-> s, tells |-> t, to |-> {}], s, k) <=> t \in Finals
<1> DEFINE r == [at |-> "tell", of |-> s, tells |-> t, to |-> {}]
<1>1. r.at = "tell" /\ r.of = s /\ r.tells = t
  OBVIOUS
<1> HIDE DEF r
<1>2. \A k : Sends(r, s, k) <=> t \in Finals
  BY <1>1 DEF Sends
<1> QED
  BY <1>2 DEF r

LEMMA IdleSilent ==
  \A g \in {E!Call, E!Done} : \A k, t : ~Sends(g, t, k)
BY Idle DEF Sends

\* Rows of other submissions.
LEMMA RowOf ==
  ASSUME EventInv, NEW s \in Submissions, NEW v, row' = [row EXCEPT ![s] = v]
  PROVE  row'[s] = v /\ \A t \in Submissions : t # s => row'[t] = row[t]
BY DEF EventInv, RowTyped, E!List

LEMMA ClaimTellsOn ==
  ASSUME EventInv, WayInv, NEW j \in Judges, NEW s \in Submissions, E!Claim(j, s)
  PROVE  NoneLost'
<1> DEFINE r == [at |-> "tell", of |-> s, tells |-> "running", to |-> {}]
<1>1. /\ judging[j] = E!Call /\ row' = [row EXCEPT ![s] = "running"] /\ judging' = [judging EXCEPT ![j] = r]
      /\ UNCHANGED <<channel, wire, page, missed, overruled>>
  BY DEF E!Claim, E!Announce
<1> HIDE DEF r
<1>2. row'[s] = "running" /\ \A t \in Submissions : t # s => row'[t] = row[t]
  BY <1>1, RowOf
<1>3. "running" \notin Finals
  BY EventsAssumption
<1>4. \A k, t : ~Sends(judging[j], t, k)
  BY <1>1, IdleSilent
<1> QED
  BY <1>1, <1>2, <1>3, <1>4, SilentTellsOn

LEMMA FinishTellsOn ==
  ASSUME EventInv, WayInv, NEW j \in Judges, NEW v \in Finals, E!Finish(j, v)
  PROVE  NoneLost'
<1>1. PICK s \in Submissions : s = judging[j].of
  BY JudgeKnown
<1> DEFINE r == [at |-> "tell", of |-> s, tells |-> v, to |-> {}]
<1>2. /\ judging[j].at = "judge" /\ row' = (IF row[s] = "running" THEN [row EXCEPT ![s] = v] ELSE row)
      /\ judging' = [judging EXCEPT ![j] = r] /\ UNCHANGED <<channel, wire, page, missed, overruled>>
  BY <1>1 DEF E!Finish, E!Announce
<1>3. \A k : Sends(r, s, k)
  BY AnnounceSends
<1> HIDE DEF r
<1>4. \A t \in Submissions : t # s => row'[t] = row[t]
  BY <1>2, RowOf
<1>5. \A k, t : ~Sends(judging[j], t, k)
  BY <1>2 DEF Sends
<1> QED
  BY <1>2, <1>3, <1>4, <1>5, SilentTellsOn

LEMMA FailTellsOn ==
  ASSUME EventInv, WayInv, NEW j \in Judges, E!Fail(j)
  PROVE  NoneLost'
<1>1. /\ judging[j].tells = "running" /\ judging' = [judging EXCEPT ![j] = E!Done]
      /\ UNCHANGED <<row, channel, wire, page, missed, overruled>>
  BY DEF E!Fail
<1>2. \A k, t : ~Sends(judging[j], t, k)
  BY <1>1, EventsAssumption DEF Sends
<1> QED
  BY <1>1, <1>2, SilentTellsOn

LEMMA requeueStuckSubmitsTellsOn ==
  ASSUME EventInv, WayInv, NEW s \in Submissions, E!requeueStuckSubmits(s)
  PROVE  NoneLost'
<1>1. /\ row' = [row EXCEPT ![s] = "pending"] /\ E!Take(s)
      /\ judging' = judging /\ UNCHANGED <<channel, wire, page, missed>>
  BY DEF E!requeueStuckSubmits
<1>2. row'[s] = "pending" /\ \A t \in Submissions : t # s => row'[t] = row[t]
  BY <1>1, RowOf
<1>3. "pending" \notin Finals
  BY EventsAssumption
<1>4. overruled \subseteq overruled'
  BY <1>1 DEF E!Take
<1>5. \A p \in Pages, t \in Submissions : StillSends(p, t)' <=> StillSends(p, t)
  BY <1>1 DEF StillSends
<1> QED
  BY <1>1, <1>2, <1>3, <1>4, <1>5, TellsOn

LEMMA MarkSubmitSystemErrorTellsOn ==
  ASSUME EventInv, WayInv, NEW j \in Judges, NEW s \in Submissions, E!MarkSubmitSystemError(j, s)
  PROVE  NoneLost'
<1> DEFINE r == [at |-> "tell", of |-> s, tells |-> "system error", to |-> {}]
<1>1. /\ judging[j] = E!Call /\ row' = [row EXCEPT ![s] = "system error"] /\ E!Take(s)
      /\ UNCHANGED <<channel, wire, page>>
      /\ \/ judging' = [judging EXCEPT ![j] = r] /\ missed' = missed
         \/ judging' = [judging EXCEPT ![j] = E!Done] /\ missed' = E!Miss(s, 0..MaxStreams)
  BY DEF E!MarkSubmitSystemError, E!Announce
<1>2. \A t \in Submissions : t # s => row'[t] = row[t]
  BY <1>1, RowOf
<1>3. overruled \subseteq overruled'
  BY <1>1 DEF E!Take
<1>4. \A k, t : ~Sends(judging[j], t, k)
  BY <1>1, IdleSilent
<1>5. CASE judging' = [judging EXCEPT ![j] = r] /\ missed' = missed
  <2>1. \A k : Sends(r, s, k)
    BY EventsAssumption, AnnounceSends
  <2> HIDE DEF r
  <2>2. \A p \in Pages, t \in Submissions : row'[t] \in Finals /\ t \notin missed'[p] =>
          Sends(r, t, page[p].stream) \/ (row[t] \in Finals /\ t \notin missed[p])
    BY <1>2, <1>5, <2>1
  <2>3. judging' = [judging EXCEPT ![j] = r]
    BY <1>5
  <2> QED
    BY <1>1, <1>3, <1>4, <2>2, <2>3, SilentTellsOn
<1>6. CASE judging' = [judging EXCEPT ![j] = E!Done] /\ missed' = E!Miss(s, 0..MaxStreams)
  <2>1. \A p \in Pages : s \in missed'[p] /\ missed[p] \subseteq missed'[p]
    <3>1. \A p \in Pages : page[p].stream \in 0..MaxStreams
      BY PageKnown DEF PageType
    <3> QED
      BY <1>6, <3>1 DEF E!Miss
  <2> QED
    BY <1>1, <1>2, <1>3, <1>4, <1>6, <2>1, SilentTellsOn
<1> QED
  BY <1>1, <1>5, <1>6

\* A page whose stream is not among those a judge sends to misses the verdict.
LEMMA publishSubmitRuntimeEventTellsOn ==
  ASSUME EventInv, WayInv, NEW j \in Judges, E!publishSubmitRuntimeEvent(j)
  PROVE  NoneLost'
<1>1. PICK g : g = judging[j]
  OBVIOUS
<1>2. PICK r : r = E!Sending(j, subs)
  OBVIOUS
<1>3. /\ judging' = [judging EXCEPT ![j] = r] /\ g.at = "tell"
      /\ row' = row /\ UNCHANGED <<overruled, channel, wire, page>>
      /\ missed' = IF g.tells \in Finals THEN E!Miss(g.of, (0..MaxStreams) \ subs) ELSE missed
  BY <1>1, <1>2 DEF E!publishSubmitRuntimeEvent
<1>4. subs \in SUBSET (1..Len(channel)) /\ g.of \in Submissions
  BY <1>1, JudgeKnown DEF EventInv, ChannelsTyped
<1>5. \A p \in Pages : missed[p] \subseteq missed'[p]
  BY <1>3 DEF E!Miss
<1>6. ASSUME NEW p \in Pages, NEW t \in Submissions, row'[t] \in Finals, t \notin missed'[p]
      PROVE  StillSends(p, t)' \/ (row[t] \in Finals /\ t \notin missed[p] /\ ~StillSends(p, t))
  <2>1. CASE ~Sends(g, t, page[p].stream)
    <3>1. StillSends(p, t) => StillSends(p, t)'
      BY <1>1, <1>3, <2>1, OthersSend
    <3> QED
      BY <1>3, <1>5, <1>6, <3>1
  <2>2. CASE Sends(g, t, page[p].stream)
    <3>1. g.of = t /\ g.tells \in Finals
      BY <2>2 DEF Sends
    <3>2. page[p].stream \in 0..MaxStreams
      BY PageKnown DEF PageType
    <3>3. page[p].stream \in subs
      BY <1>3, <1>6, <3>1, <3>2 DEF E!Miss
    <3>4. page[p].stream # 0
      BY <1>4, <3>3
    <3>5. r.at = "send" /\ r.of = t /\ r.tells = g.tells /\ r.to = subs
      <4>1. subs # {}
        BY <3>3
      <4>2. r.at = "send" /\ r.of = g.of /\ r.tells = g.tells /\ r.to = subs
        BY <1>1, <1>2, <1>4, <4>1, SendsOn
      <4> QED
        BY <3>1, <4>2
    <3>6. Sends(r, t, page[p].stream)
      BY <3>1, <3>3, <3>4, <3>5 DEF Sends
    <3> QED
      BY <1>3, <3>6, OthersSend
  <2> QED
    BY <2>1, <2>2
<1> QED
  BY <1>3, <1>6, TellsOn

\* An event is sent: who has room for it has it last, and who has none misses it.
LEMMA SendToTellsOn ==
  ASSUME EventInv, WayInv, NEW j \in Judges, NEW c, E!SendTo(j, c)
  PROVE  NoneLost'
<1>1. PICK g : g = judging[j]
  OBVIOUS
<1>2. PICK r : r = E!Sending(j, g.to \ {c})
  OBVIOUS
<1> DEFINE e == [submission |-> g.of, status |-> g.tells]
<1>3. /\ row' = row /\ wire' = wire /\ page' = page /\ overruled' = overruled
      /\ c \in g.to /\ judging' = [judging EXCEPT ![j] = r]
      /\ \/ missed' = missed /\ channel' = [channel EXCEPT ![c].buffer = Append(channel[c].buffer, e)]
         \/ missed' = (IF g.tells \in Finals THEN E!Miss(g.of, {c}) ELSE missed) /\ channel' = channel
  BY <1>1, <1>2 DEF E!SendTo
<1>4. /\ g.at = "send" /\ g.of \in Submissions /\ g.tells \in E!Told
      /\ c \in 1..Len(channel) /\ g.to \ {c} \in SUBSET (1..Len(channel)) /\ channel \in Seq(Channel)
  BY <1>1, <1>3, JudgeKnown DEF Turn, EventInv, ChannelsTyped
<1>5. e \in E!Event /\ e.submission = g.of /\ e.status = g.tells
  BY <1>4 DEF E!Event
<1>6. g.tells \in Finals => E!IsVerdict(e, g.of)
  BY <1>5 DEF E!IsVerdict
<1>7. g.tells \notin Finals => g.of \in overruled \/ row[g.of] = "running"
  <2>1. g.tells \notin Finals => Works(judging[j], g.of)
    BY <1>1, <1>4 DEF Works, E!Told
  <2> QED
    BY <1>4, <2>1 DEF EventInv, WorkersHold
<1> HIDE DEF e
<1> SUFFICES ASSUME NEW p \in Pages, NEW t \in Submissions, row'[t] \in Finals, t \notin missed'[p]
             PROVE  OnItsWay(p, t)'
  BY DEF NoneLost
<1>8. OnItsWay(p, t) /\ row[t] \in Finals
  BY <1>3 DEF WayInv, NoneLost, E!Miss
<1>9. Shows(p, t) => Shows(p, t)'
  BY <1>3 DEF Shows
<1>10. page[p].stream # c \/ g.of # t \/ g.tells \notin Finals => (StillSends(p, t) => StillSends(p, t)')
  <2> SUFFICES ASSUME page[p].stream # c \/ g.of # t \/ g.tells \notin Finals, StillSends(p, t)
               PROVE  StillSends(p, t)'
    OBVIOUS
  <2>1. StillSends(p, t)' \/ Sends(g, t, page[p].stream)
    BY <1>1, <1>3, OthersSend
  <2>2. CASE Sends(g, t, page[p].stream)
    <3>1. g.of = t /\ g.tells \in Finals /\ page[p].stream # 0 /\ page[p].stream \in g.to \ {c}
      BY <1>4, <2>2 DEF Sends
    <3>2. r.at = "send" /\ r.of = t /\ r.tells = g.tells /\ r.to = g.to \ {c}
      <4>1. g.to \ {c} # {}
        BY <3>1
      <4>2. r.at = "send" /\ r.of = g.of /\ r.tells = g.tells /\ r.to = g.to \ {c}
        BY <1>1, <1>2, <1>4, <4>1, SendsOn
      <4> QED
        BY <3>1, <4>2
    <3>3. Sends(r, t, page'[p].stream)
      BY <1>3, <3>1, <3>2 DEF Sends
    <3> QED
      BY <1>3, <3>3, OthersSend
  <2> QED
    BY <2>1, <2>2
<1>11. CASE page[p].stream # c
  <2>1. page[p].stream # 0 => OfStream(p)' = OfStream(p)
    <3>1. page[p].stream # 0 => page[p].stream \in 1..Len(channel)
      BY StreamKnown
    <3>2. channel' = channel \/ \E x : channel' = [channel EXCEPT ![c] = x]
      BY <1>3
    <3>3. \A k \in 1..Len(channel) : k # c => channel'[k] = channel[k]
      BY <1>4, <3>2, ExceptSeq
    <3> QED
      BY <1>3, <1>11, <3>1, <3>3 DEF OfStream
  <2> QED
    BY <1>3, <1>8, <1>9, <1>10, <1>11, <2>1, StillOnItsWay
<1>12. CASE page[p].stream = c /\ channel' = [channel EXCEPT ![c].buffer = Append(channel[c].buffer, e)]
  <2> DEFINE b == channel[c].buffer
             w == wire[p]
  <2>1. OfStream(p) = b /\ page[p].stream # 0
    BY <1>4, <1>12 DEF OfStream
  <2>2. b \in Seq(E!Event) /\ w \in Seq(E!Event \cup {E!Opened})
    BY <1>4, BuffersHold, PageKnown
  <2>3. channel[c] = [buffer |-> b, closed |-> channel[c].closed]
    BY <1>4, BuffersHold
  <2>4. channel'[c] = [channel[c] EXCEPT !.buffer = Append(b, e)]
    <3> DEFINE new == [channel[c] EXCEPT !.buffer = Append(b, e)]
    <3>1. channel' = [channel EXCEPT ![c] = new]
      BY <1>12
    <3> HIDE DEF new
    <3>2. channel'[c] = new
      BY <1>4, <3>1, ExceptSeq
    <3> QED
      BY <3>2 DEF new
  <2> HIDE DEF b, w
  <2>5. channel'[c].buffer = Append(b, e)
    BY <2>3, <2>4
  <2> DEFINE n == Append(b, e)
  <2>6. OfStream(p)' = n /\ wire'[p] = w /\ page'[p].stream # 0
    BY <1>3, <1>12, <2>1, <2>5 DEF OfStream, w
  <2>7. /\ E!IsVerdict(e, t) => EndsWell(w, n, t) /\ Tells(w, n, t)
        /\ e.submission # t /\ EndsWell(w, b, t) => EndsWell(w, n, t)
        /\ Tells(w, b, t) => Tells(w, n, t)
    BY <1>5, <2>2, AppendEndsWell
  <2> HIDE DEF n
  <2>8. (EndsWell(w, n, t) => EndsWell(wire[p], OfStream(p), t)') /\ (Tells(w, n, t) => Tells(wire[p], OfStream(p), t)')
    BY <2>6 DEF EndsWell, Tells, E!IsVerdict, ProgressOf
  <2>9. CASE E!IsVerdict(e, t)
    BY <2>6, <2>7, <2>8, <2>9 DEF OnItsWay
  <2>10. CASE ~E!IsVerdict(e, t)
    <3>1. g.of # t \/ g.tells \notin Finals
      BY <1>6, <2>10
    <3>2. CASE StillSends(p, t)
      BY <1>10, <3>1, <3>2 DEF OnItsWay
    <3>3. CASE ~StillSends(p, t)
      <4>1. (t \in overruled \/ EndsWell(w, b, t)) /\ (Shows(p, t) \/ Tells(w, b, t))
        BY <1>8, <2>1, <3>3 DEF OnItsWay, w
      <4>2. t \in overruled \/ EndsWell(w, n, t)
        <5>1. CASE g.of = t
          BY <1>7, <1>8, <3>1, <5>1, EventsAssumption
        <5>2. CASE g.of # t
          BY <1>5, <2>7, <4>1, <5>2
        <5> QED
          BY <5>1, <5>2
      <4>3. Shows(p, t)' \/ Tells(wire[p], OfStream(p), t)'
        BY <1>9, <2>7, <2>8, <4>1
      <4> QED
        BY <1>3, <2>6, <2>8, <4>2, <4>3 DEF OnItsWay
    <3> QED
      BY <3>2, <3>3
  <2> QED
    BY <2>9, <2>10
<1>13. CASE page[p].stream = c /\ channel' = channel
            /\ missed' = IF g.tells \in Finals THEN E!Miss(g.of, {c}) ELSE missed
  <2>1. g.of # t \/ g.tells \notin Finals
    BY <1>13 DEF E!Miss
  <2>2. OfStream(p)' = OfStream(p)
    BY <1>3, <1>13 DEF OfStream
  <2> QED
    BY <1>3, <1>8, <1>9, <1>10, <2>1, <2>2, StillOnItsWay
<1> QED
  BY <1>3, <1>11, <1>12, <1>13

\* The process ends: what is final counts as missed.
LEMMA PanicTellsOn ==
  ASSUME EventInv, NEW j \in Judges, E!Panic(j)
  PROVE  NoneLost'
<1>1. row' = row /\ missed' = [p \in Pages |-> missed[p] \cup {s \in Submissions : row[s] \in Finals}]
  BY DEF E!Panic
<1> QED
  BY <1>1 DEF NoneLost

\* Steps of one page.
LEMMA OthersOnTheirWay ==
  ASSUME WayInv, NEW p \in Pages, UNCHANGED <<judging, overruled>>,
         \A t \in Submissions : row'[t] \in Finals => row[t] \in Finals,
         \A q \in Pages : q # p => page'[q] = page[q] /\ wire'[q] = wire[q] /\ missed'[q] = missed[q],
         \A q \in Pages : q # p /\ page[q].stream # 0 => channel'[page[q].stream].buffer = channel[page[q].stream].buffer,
         \A t \in Submissions : row'[t] \in Finals /\ t \notin missed'[p] => OnItsWay(p, t)'
  PROVE  NoneLost'
<1> SUFFICES ASSUME NEW q \in Pages, NEW t \in Submissions, row'[t] \in Finals, t \notin missed'[q]
             PROVE  OnItsWay(q, t)'
  BY DEF NoneLost
<1>1. CASE q = p
  BY <1>1
<1>2. CASE q # p
  <2>1. page'[q] = page[q] /\ wire'[q] = wire[q] /\ OnItsWay(q, t)
    BY <1>2 DEF WayInv, NoneLost
  <2>2. StillSends(q, t) => StillSends(q, t)'
    BY <2>1 DEF StillSends
  <2>3. Shows(q, t) => Shows(q, t)'
    BY <2>1 DEF Shows
  <2>4. page[q].stream # 0 => OfStream(q)' = OfStream(q)
    BY <1>2, <2>1 DEF OfStream
  <2> QED
    BY <2>1, <2>2, <2>3, <2>4, StillOnItsWay
<1> QED
  BY <1>1, <1>2

\* A page asks for the list, or has it on its way.
LEMMA ReaderTellsOn ==
  ASSUME EventInv, WayInv, NEW p \in Pages,
         UNCHANGED <<judging, overruled, channel, wire>>,
         \A t \in Submissions : row'[t] \in Finals => row[t] \in Finals,
         \A q \in Pages : q # p => page'[q] = page[q],
         \A q \in Pages : q # p => missed'[q] = missed[q], missed[p] \subseteq missed'[p],
         page'[p].stream = page[p].stream,
         \A t \in Submissions : row'[t] \in Finals /\ t \notin missed'[p] /\ Shows(p, t) => Shows(p, t)'
  PROVE  NoneLost'
<1>1. ASSUME NEW t \in Submissions, row'[t] \in Finals, t \notin missed'[p]
      PROVE  OnItsWay(p, t)'
  <2>1. OnItsWay(p, t) /\ wire' = wire /\ judging' = judging
    BY <1>1 DEF WayInv, NoneLost
  <2>2. StillSends(p, t) => StillSends(p, t)'
    BY <2>1 DEF StillSends
  <2>3. OfStream(p)' = OfStream(p)
    BY DEF OfStream
  <2> QED
    BY <1>1, <2>1, <2>2, <2>3, StillOnItsWay
<1> QED
  BY <1>1, OthersOnTheirWay

LEMMA PollTellsOn ==
  ASSUME EventInv, WayInv, NEW p \in Pages, E!Poll(p)
  PROVE  NoneLost'
<1>1. /\ UNCHANGED <<row, overruled, judging, channel, wire, missed>> /\ page' = [page EXCEPT ![p].load = "asked"]
  BY DEF E!Poll
<1>2. page'[p].load = "asked" /\ page'[p].stream = page[p].stream /\ \A q \in Pages : q # p => page'[q] = page[q]
  BY <1>1, PagesAre DEF PageType
<1>3. \A t \in Submissions : Shows(p, t)'
  BY <1>2 DEF Shows
<1> QED
  BY <1>1, <1>2, <1>3, ReaderTellsOn

LEMMA QuestionSubmitListTellsOn ==
  ASSUME EventInv, WayInv, NEW p \in Pages, E!QuestionSubmitList(p)
  PROVE  NoneLost'
<1>0. PICK list \in E!List : /\ \A s \in Submissions : list[s] \in E!Listed(s)
                             /\ page' = [page EXCEPT ![p].load = "answered", ![p].list = list]
  BY DEF E!QuestionSubmitList
<1>1. /\ UNCHANGED <<row, overruled, judging, channel, wire, missed>>
      /\ page' = [page EXCEPT ![p].load = "answered", ![p].list = list]
  BY <1>0 DEF E!QuestionSubmitList
<1>2. /\ page'[p].load = "answered" /\ page'[p].list = list /\ page'[p].stream = page[p].stream
      /\ \A q \in Pages : q # p => page'[q] = page[q]
  BY <1>1, PagesAre DEF PageType
<1>3. \A t \in Submissions : row'[t] \in Finals => Shows(p, t)'
  <2>1. \A t \in Submissions : row[t] \in Finals => list[t] = row[t]
    BY <1>0, EventsAssumption DEF E!Listed
  <2> QED
    BY <1>1, <1>2, <2>1 DEF Shows
<1> QED
  BY <1>1, <1>2, <1>3, ReaderTellsOn

\* It gets lost: what the page neither shows nor will be told counts as missed.
LEMMA ListLostTellsOn ==
  ASSUME EventInv, WayInv, NEW p \in Pages, E!ListLost(p)
  PROVE  NoneLost'
<1> DEFINE m  == IF page[p].me = "unasked" THEN "unknown" ELSE page[p].me
           ms == {s \in Submissions : row[s] \in Finals /\ page[p].shown[s] \notin Finals /\ ~E!ToCome(p, s)}
<1>1. /\ row' = row /\ overruled' = overruled /\ judging' = judging /\ channel' = channel /\ wire' = wire
      /\ page' = [page EXCEPT ![p].load = "no", ![p].submitted = FALSE, ![p].me = m]
      /\ missed' = [missed EXCEPT ![p] = missed[p] \cup ms]
  BY DEF E!ListLost
<1> HIDE DEF m
<1>2. /\ page'[p].stream = page[p].stream /\ page'[p].shown = page[p].shown
      /\ \A q \in Pages : q # p => page'[q] = page[q]
  BY <1>1, PagesAre DEF PageType
<1>3. missed'[p] = missed[p] \cup ms /\ \A q \in Pages : q # p => missed'[q] = missed[q]
  BY <1>1 DEF EventInv, MissedTyped
<1>4. ASSUME NEW t \in Submissions, row'[t] \in Finals, t \notin missed'[p]
      PROVE  OnItsWay(p, t)'
  <2>1. OnItsWay(p, t) /\ (page[p].shown[t] \in Finals \/ E!ToCome(p, t))
    BY <1>1, <1>3, <1>4 DEF WayInv, NoneLost
  <2>2. StillSends(p, t) => StillSends(p, t)'
    BY <1>1, <1>2 DEF StillSends
  <2>3. CASE page[p].shown[t] \in Finals
    <3>1. Shows(p, t)'
      BY <1>2, <2>3 DEF Shows
    <3>2. OfStream(p)' = OfStream(p)
      BY <1>1, <1>2 DEF OfStream
    <3> QED
      BY <1>1, <1>2, <2>1, <2>2, <3>1, <3>2, StillOnItsWay
  <2>4. CASE E!ToCome(p, t)
    <3>1. StillSends(p, t) \/ (page[p].stream # 0 /\ Tells(wire[p], OfStream(p), t))
      BY <2>4, ToComeIs
    <3>2. CASE StillSends(p, t)
      BY <2>2, <3>2 DEF OnItsWay
    <3>3. CASE page[p].stream # 0 /\ ~StillSends(p, t) /\ Tells(wire[p], OfStream(p), t)
      <4> DEFINE w == wire[p]
                 b == OfStream(p)
      <4>1. (t \in overruled \/ EndsWell(w, b, t)) /\ Tells(w, b, t)
        BY <2>1, <3>3 DEF OnItsWay
      <4>2. wire'[p] = w /\ OfStream(p)' = b
        BY <1>1, <1>2 DEF OfStream
      <4> HIDE DEF w, b
      <4>3. (t \in overruled \/ EndsWell(wire[p], OfStream(p), t)') /\ Tells(wire[p], OfStream(p), t)'
        BY <4>1, <4>2 DEF EndsWell, Tells, E!IsVerdict, ProgressOf
      <4> QED
        BY <1>1, <1>2, <3>3, <4>3 DEF OnItsWay
    <3> QED
      BY <3>1, <3>2, <3>3
  <2> QED
    BY <2>1, <2>3, <2>4
<1> QED
  BY <1>1, <1>2, <1>3, <1>4, OthersOnTheirWay

LEMMA SubmitTellsOn ==
  ASSUME EventInv, WayInv, NEW p \in Pages, NEW s \in Submissions, E!Submit(p, s)
  PROVE  NoneLost'
<1>1. /\ UNCHANGED <<overruled, judging, channel, wire, missed>> /\ row' = [row EXCEPT ![s] = "pending"]
      /\ page' = [page EXCEPT ![p].load = "asked", ![p].submitted = TRUE]
  BY DEF E!Submit
<1>2. page'[p].load = "asked" /\ page'[p].stream = page[p].stream /\ \A q \in Pages : q # p => page'[q] = page[q]
  BY <1>1, PagesAre DEF PageType
<1>3. \A t \in Submissions : row'[t] \in Finals => row[t] \in Finals
  BY <1>1, RowOf, EventsAssumption
<1>4. \A t \in Submissions : Shows(p, t)'
  BY <1>2 DEF Shows
<1> QED
  BY <1>1, <1>2, <1>3, <1>4, ReaderTellsOn

\* The list is shown: what it lacks and the page had shown counts as missed.
LEMMA LoadedTellsOn ==
  ASSUME EventInv, WayInv, NEW p \in Pages, E!Loaded(p)
  PROVE  NoneLost'
<1> DEFINE again == page[p].submitted \/ \E s \in Submissions : page[p].list[s] \in {"pending", "running"}
           m     == IF page[p].me = "unasked" THEN "asked" ELSE page[p].me
<1>1. /\ UNCHANGED <<row, overruled, judging, channel, wire>> /\ page[p].load = "answered"
      /\ page' = [page EXCEPT ![p].load = "no", ![p].shown = page[p].list, ![p].list = E!Nothing,
                               ![p].submitted = FALSE, ![p].me = m, ![p].auto = again]
      /\ missed' = [missed EXCEPT ![p] = missed[p] \cup E!Overtaken(p)]
  BY DEF E!Loaded
<1> HIDE DEF again, m
<1>2. /\ page'[p].shown = page[p].list /\ page'[p].stream = page[p].stream
      /\ \A q \in Pages : q # p => page'[q] = page[q]
  <2> DEFINE r == [page[p] EXCEPT !.load = "no", !.shown = page[p].list, !.list = E!Nothing,
                                  !.submitted = FALSE, !.me = m, !.auto = again]
  <2>1. r.stream = page[p].stream /\ r.shown = page[p].list
    BY PagesAre DEF PageType
  <2>2. page' = [page EXCEPT ![p] = r]
    BY <1>1
  <2> HIDE DEF r
  <2> QED
    BY <2>1, <2>2, PagesAre
<1>3. missed'[p] = missed[p] \cup E!Overtaken(p) /\ \A q \in Pages : q # p => missed'[q] = missed[q]
  BY <1>1 DEF EventInv, MissedTyped
<1>4. ASSUME NEW t \in Submissions, t \notin missed'[p], Shows(p, t)
      PROVE  Shows(p, t)'
  <2>1. page[p].list[t] \in Finals
    BY <1>1, <1>3, <1>4 DEF Shows, E!Overtaken
  <2> QED
    BY <1>2, <2>1 DEF Shows
<1>5. missed[p] \subseteq missed'[p]
  BY <1>3
<1> QED
  BY <1>1, <1>2, <1>3, <1>4, <1>5, ReaderTellsOn

\* A channel is closed that is no page's.
LEMMA UnsubscribeTellsOn ==
  ASSUME EventInv, WayInv, NEW c, E!Unsubscribe(c)
  PROVE  NoneLost'
<1>1. /\ row' = row /\ overruled' = overruled /\ judging' = judging /\ wire' = wire /\ page' = page /\ missed' = missed
      /\ c \in subs /\ \A p \in Pages : page[p].stream # c
      /\ channel' = [channel EXCEPT ![c] = E!Closed]
  BY DEF E!Unsubscribe
<1>2. c \in 1..Len(channel) /\ channel \in Seq(Channel)
  BY <1>1 DEF EventInv, ChannelsTyped
<1>3. \E x : channel' = [channel EXCEPT ![c] = x]
  BY <1>1
<1>4. \A k \in 1..Len(channel) : k # c => channel'[k] = channel[k]
  BY <1>2, <1>3, ExceptSeq
<1> SUFFICES ASSUME NEW p \in Pages, NEW t \in Submissions, row'[t] \in Finals, t \notin missed'[p]
             PROVE  OnItsWay(p, t)'
  BY DEF NoneLost
<1>5. OnItsWay(p, t)
  BY <1>1 DEF WayInv, NoneLost
<1>6. page[p].stream # 0 => page[p].stream \in 1..Len(channel) /\ page[p].stream # c
  BY <1>1, StreamKnown
<1>7. page[p].stream # 0 => OfStream(p)' = OfStream(p)
  BY <1>1, <1>4, <1>6 DEF OfStream
<1>8. (StillSends(p, t) => StillSends(p, t)') /\ (Shows(p, t) => Shows(p, t)')
  BY <1>1 DEF StillSends, Shows
<1> QED
  BY <1>1, <1>5, <1>7, <1>8, StillOnItsWay

\* A page opens a stream, and nothing has been sent on it.
LEMMA SubscribeTellsOn ==
  ASSUME EventInv, WayInv, NEW p \in Pages, E!Subscribe(p)
  PROVE  NoneLost'
<1> DEFINE new == [buffer |-> << >>, closed |-> FALSE]
           n   == Len(channel) + 1
<1>1. channel \in Seq(Channel) /\ new \in Channel /\ channel' = Append(channel, new)
  BY DEF EventInv, ChannelsTyped, Channel, E!Subscribe
<1>2. /\ Len(channel') = n /\ n \in Nat /\ n # 0 /\ channel'[n] = new
      /\ \A k \in 1..Len(channel) : channel'[k] = channel[k]
  BY <1>1
<1>3. /\ row' = row /\ overruled' = overruled /\ judging' = judging /\ missed' = missed /\ page[p].stream = 0
      /\ page' = [page EXCEPT ![p].stream = n] /\ wire' = [wire EXCEPT ![p] = <<E!Opened>>]
  BY <1>2 DEF E!Subscribe
<1>4. new.buffer = << >>
  OBVIOUS
<1> HIDE DEF new, n
<1>5. /\ page'[p].stream = n /\ page'[p].shown = page[p].shown /\ page'[p].load = page[p].load
      /\ page'[p].list = page[p].list /\ \A q \in Pages : q # p => page'[q] = page[q]
  BY <1>3, PagesAre DEF PageType
<1>6. wire'[p] = <<E!Opened>> /\ \A q \in Pages : q # p => wire'[q] = wire[q]
  BY <1>3 DEF EventInv, WiresTyped
<1>7. \A q \in Pages : page[q].stream # 0 => channel'[page[q].stream] = channel[page[q].stream]
  <2>1. \A q \in Pages : page[q].stream # 0 => page[q].stream \in 1..Len(channel)
    BY StreamKnown
  <2> QED
    BY <1>2, <2>1
<1>8. \A t \in Submissions : EndsWell(wire[p], OfStream(p), t)'
  <2> DEFINE w == <<E!Opened>>
             b == << >>
  <2>1. Len(w) = 1 /\ w[1] = E!Opened /\ Len(b) = 0
    OBVIOUS
  <2>2. \A t : E!Opened # ProgressOf(t)
    BY EventKinds
  <2> HIDE DEF w, b
  <2>3. \A t \in Submissions : EndsWell(w, b, t)
    BY <2>1, <2>2 DEF EndsWell
  <2>4. wire'[p] = w /\ OfStream(p)' = b
    BY <1>2, <1>4, <1>5, <1>6 DEF w, b, OfStream
  <2> QED
    BY <2>3, <2>4 DEF EndsWell, E!IsVerdict, ProgressOf
<1>9. ASSUME NEW t \in Submissions, row'[t] \in Finals, t \notin missed'[p]
      PROVE  OnItsWay(p, t)'
  <2>1. OnItsWay(p, t)
    BY <1>3, <1>9 DEF WayInv, NoneLost
  <2>2. CASE StillSends(p, t)
    <3>1. PICK j \in Judges : Sends(judging[j], t, page[p].stream)
      BY <2>2 DEF StillSends
    <3>2. Sends(judging'[j], t, page'[p].stream)
      BY <1>3, <3>1 DEF Sends
    <3> QED
      BY <3>2 DEF OnItsWay, StillSends
  <2>3. CASE Shows(p, t)
    <3>1. Shows(p, t)'
      BY <1>5, <2>3 DEF Shows
    <3> QED
      BY <1>2, <1>5, <1>8, <3>1 DEF OnItsWay
  <2> QED
    BY <1>3, <2>1, <2>2, <2>3 DEF OnItsWay
<1> QED
  BY <1>3, <1>5, <1>6, <1>7, <1>9, OthersOnTheirWay

\* The connection breaks: what was under way on it counts as missed.
LEMMA BreakTellsOn ==
  ASSUME EventInv, WayInv, NEW p \in Pages, E!Break(p)
  PROVE  NoneLost'
<1>1. /\ row' = row /\ overruled' = overruled /\ judging' = judging /\ channel' = channel /\ page[p].stream # 0
      /\ page' = [page EXCEPT ![p].stream = 0, ![p].auto = TRUE]
      /\ wire' = [wire EXCEPT ![p] = << >>]
      /\ missed' = [missed EXCEPT ![p] = missed[p] \cup E!Undelivered(p)]
  BY DEF E!Break
<1>2. /\ page'[p].stream = 0 /\ page'[p].shown = page[p].shown /\ page'[p].load = page[p].load
      /\ page'[p].list = page[p].list /\ \A q \in Pages : q # p => page'[q] = page[q]
  BY <1>1, PagesAre DEF PageType
<1>3. \A q \in Pages : q # p => wire'[q] = wire[q]
  BY <1>1
<1>4. missed'[p] = missed[p] \cup E!Undelivered(p) /\ \A q \in Pages : q # p => missed'[q] = missed[q]
  BY <1>1 DEF EventInv, MissedTyped
<1>5. ASSUME NEW t \in Submissions, row'[t] \in Finals, t \notin missed'[p]
      PROVE  OnItsWay(p, t)'
  <2>1. OnItsWay(p, t) /\ t \notin E!Undelivered(p)
    BY <1>1, <1>4, <1>5 DEF WayInv, NoneLost
  <2>2. E!ToCome(p, t) => E!Announced(t)
    BY <2>1 DEF E!ToCome
  <2>3. ~Tells(wire[p], OfStream(p), t) \/ E!Announced(t)
    BY <1>1, <2>2, ToComeIs
  <2>4. CASE StillSends(p, t) \/ E!Announced(t)
    <3>1. E!Announced(t)
      BY <2>2, <2>4, ToComeIs
    <3>2. PICK j \in Judges : judging[j].at = "tell" /\ judging[j].of = t /\ judging[j].tells \in Finals
      BY <3>1 DEF E!Announced
    <3>3. Sends(judging'[j], t, page'[p].stream)
      BY <1>1, <3>2 DEF Sends
    <3> QED
      BY <3>3 DEF OnItsWay, StillSends
  <2>5. CASE Shows(p, t)
    <3>1. Shows(p, t)'
      BY <1>2, <2>5 DEF Shows
    <3> QED
      BY <1>2, <3>1 DEF OnItsWay
  <2> QED
    BY <2>1, <2>3, <2>4, <2>5 DEF OnItsWay
<1>6. \A q \in Pages : channel'[page[q].stream].buffer = channel[page[q].stream].buffer
  BY <1>1
<1> QED
  BY <1>1, <1>2, <1>3, <1>4, <1>5, <1>6, OthersOnTheirWay

\* A handler forwards an event of its channel, which is no other page's.
LEMMA ForwardTellsOn ==
  ASSUME EventInv, WayInv, NEW p \in Pages, E!Forward(p)
  PROVE  NoneLost'
<1> DEFINE c == page[p].stream
           b == channel[c].buffer
           w == wire[p]
<1>1. /\ c # 0 /\ b # << >> /\ wire' = [wire EXCEPT ![p] = Append(w, Head(b))]
      /\ channel' = [channel EXCEPT ![c].buffer = Tail(b)]
      /\ row' = row /\ overruled' = overruled /\ judging' = judging /\ page' = page /\ missed' = missed
  BY DEF E!Forward
<1>2. c \in 1..Len(channel) /\ channel \in Seq(Channel)
  BY <1>1, StreamKnown DEF EventInv, ChannelsTyped
<1>3. b \in Seq(E!Event) /\ w \in Seq(E!Event \cup {E!Opened})
      /\ channel[c] = [buffer |-> b, closed |-> channel[c].closed]
  BY <1>2, BuffersHold, PageKnown
<1>4. \A q \in Pages : q # p => wire'[q] = wire[q] /\ wire'[p] = Append(w, Head(b))
  BY <1>1 DEF EventInv, WiresTyped
<1>5. wire'[p] = Append(w, Head(b))
  BY <1>1 DEF EventInv, WiresTyped
<1>6. channel'[c].buffer = Tail(b) /\ \A k \in 1..Len(channel) : k # c => channel'[k] = channel[k]
  <2> DEFINE new == [channel[c] EXCEPT !.buffer = Tail(b)]
  <2>1. channel' = [channel EXCEPT ![c] = new]
    BY <1>1
  <2>2. new.buffer = Tail(b)
    BY <1>3
  <2> HIDE DEF new
  <2> QED
    BY <1>2, <2>1, <2>2, ExceptSeq
<1>7. \A q \in Pages : q # p /\ page[q].stream # 0 =>
        page[q].stream \in 1..Len(channel) /\ page[q].stream # c
  BY <1>1, StreamKnown DEF WayInv, OwnStreams
<1>8. \A q \in Pages : q # p /\ page[q].stream # 0 =>
        channel'[page[q].stream].buffer = channel[page[q].stream].buffer
  BY <1>6, <1>7
<1>9. OfStream(p)' = Tail(b) /\ OfStream(p) = b
  BY <1>1, <1>6 DEF OfStream
<1> HIDE DEF b, w
<1>10. ASSUME NEW t \in Submissions, row'[t] \in Finals, t \notin missed'[p]
       PROVE  OnItsWay(p, t)'
  <2>1. OnItsWay(p, t)
    BY <1>1, <1>10 DEF WayInv, NoneLost
  <2>2. (StillSends(p, t) => StillSends(p, t)') /\ (Shows(p, t) => Shows(p, t)')
    BY <1>1 DEF StillSends, Shows
  <2>3. CASE StillSends(p, t)
    BY <2>2, <2>3 DEF OnItsWay
  <2>4. CASE ~StillSends(p, t)
    <3>1. (t \in overruled \/ EndsWell(w, b, t)) /\ (Shows(p, t) \/ Tells(w, b, t))
      BY <1>1, <1>9, <2>1, <2>4 DEF OnItsWay, w
    <3>2. /\ EndsWell(w, b, t) => EndsWell(Append(w, Head(b)), Tail(b), t)
          /\ Tells(w, b, t) => Tells(Append(w, Head(b)), Tail(b), t)
      BY <1>1, <1>3, ForwardEndsWell
    <3> DEFINE v == Append(w, Head(b))
               d == Tail(b)
    <3>3. wire'[p] = v /\ OfStream(p)' = d
      BY <1>5, <1>9
    <3>4. (t \in overruled \/ EndsWell(v, d, t)) /\ (Shows(p, t) \/ Tells(v, d, t))
      BY <3>1, <3>2
    <3> HIDE DEF v, d
    <3>5. (t \in overruled \/ EndsWell(wire[p], OfStream(p), t)') /\ (Shows(p, t) \/ Tells(wire[p], OfStream(p), t)')
      BY <3>3, <3>4 DEF EndsWell, Tells, E!IsVerdict, ProgressOf
    <3> QED
      BY <1>1, <2>2, <3>5 DEF OnItsWay
  <2> QED
    BY <2>3, <2>4
<1> QED
  BY <1>1, <1>4, <1>8, <1>10, OthersOnTheirWay

\* A page receives an event: the verdict is shown, or asked for with the list; progress
\* that takes a verdict's place has the verdict behind it.
LEMMA ReceiveTellsOn ==
  ASSUME EventInv, WayInv, NEW p \in Pages, E!Receive(p)
  PROVE  NoneLost'
<1> DEFINE e == Head(wire[p])
           w == wire[p]
           b == OfStream(p)
<1>1. /\ row' = row /\ overruled' = overruled /\ judging' = judging /\ channel' = channel
      /\ missed' = [missed EXCEPT ![p] = missed[p] \cup E!Undone(p, e)]
      /\ w # << >> /\ wire' = [wire EXCEPT ![p] = Tail(w)]
  BY DEF E!Receive
<1>2. \/ e = E!Opened /\ page' = [page EXCEPT ![p].auto = FALSE]
      \/ e # E!Opened /\ page' = [page EXCEPT ![p].auto = FALSE, ![p].shown[e.submission] = e.status]
      \/ e # E!Opened /\ page' = [page EXCEPT ![p].auto = FALSE, ![p].load = "asked", ![p].list = E!Nothing]
  BY DEF E!Receive
<1>3. w \in Seq(E!Event \cup {E!Opened}) /\ Head(w) = e /\ page[p].shown \in [Submissions -> E!Statuses]
  BY PageKnown DEF E!List
<1>4. e \in E!Event \cup {E!Opened}
  <2> HIDE DEF w, e
  <2>1. Len(w) \in Nat /\ 1 \in 1..Len(w) /\ Head(w) = w[1]
    BY <1>1, <1>3
  <2> QED
    BY <1>3, <2>1
<1>5. page[p].stream # 0 /\ b \in Seq(E!Event)
  <2>1. page[p].stream # 0
    BY <1>1 DEF WayInv, OwnStreams
  <2> QED
    BY <2>1, StreamKnown, BuffersHold DEF OfStream
<1>0. missed'[p] = missed[p] \cup E!Undone(p, e) /\ \A q \in Pages : q # p => missed'[q] = missed[q]
  BY <1>1 DEF EventInv, MissedTyped
<1>6. wire'[p] = Tail(w) /\ \A q \in Pages : q # p => wire'[q] = wire[q]
  BY <1>1 DEF EventInv, WiresTyped
<1> HIDE DEF e
<1>7. /\ page'[p].stream = page[p].stream /\ \A q \in Pages : q # p => page'[q] = page[q]
      /\ \/ /\ page'[p].shown = page[p].shown /\ page'[p].load = page[p].load /\ page'[p].list = page[p].list
            /\ e = E!Opened
         \/ /\ e # E!Opened /\ page'[p].load = page[p].load /\ page'[p].list = page[p].list
            /\ page'[p].shown = [page[p].shown EXCEPT ![e.submission] = e.status]
         \/ page'[p].load = "asked"
  BY <1>2, PagesAre DEF PageType
<1>8. OfStream(p)' = b
  BY <1>1, <1>7 DEF OfStream
<1> HIDE DEF w, b
<1>9. ASSUME NEW t \in Submissions, row'[t] \in Finals, t \notin missed'[p]
      PROVE  OnItsWay(p, t)'
  <2>1. OnItsWay(p, t)
    BY <1>0, <1>1, <1>9 DEF WayInv, NoneLost
  <2>2. CASE StillSends(p, t)
    <3>1. StillSends(p, t)'
      BY <1>1, <1>7, <2>2 DEF StillSends
    <3> QED
      BY <3>1 DEF OnItsWay
  <2>3. CASE ~StillSends(p, t)
    <3>1. (t \in overruled \/ EndsWell(w, b, t)) /\ (Shows(p, t) \/ Tells(w, b, t))
      BY <1>5, <2>1, <2>3 DEF OnItsWay, w, b
    <3> DEFINE d == Tail(w)
    <3>2. /\ EndsWell(w, b, t) => EndsWell(d, b, t)
          /\ EndsWell(w, b, t) /\ e = ProgressOf(t) => Tells(d, b, t)
          /\ Tells(w, b, t) => E!IsVerdict(e, t) \/ Tells(d, b, t)
      BY <1>1, <1>3, <1>5, ReceiveEndsWell
    <3>3. wire'[p] = d
      BY <1>6
    <3> HIDE DEF d
    <3>4. (t \in overruled \/ EndsWell(wire[p], OfStream(p), t)') /\ (Tells(d, b, t) => Tells(wire[p], OfStream(p), t)')
      BY <1>8, <3>1, <3>2, <3>3 DEF EndsWell, Tells, E!IsVerdict, ProgressOf
    <3>0. /\ page'[p].stream # 0
          /\ t \in overruled' \/ EndsWell(wire[p], OfStream(p), t)'
      BY <1>1, <1>5, <1>7, <3>4
    <3>5. CASE Tells(d, b, t)
      BY <3>0, <3>4, <3>5 DEF OnItsWay
    <3>6. CASE E!IsVerdict(e, t)
      <4>1. e # E!Opened /\ e.submission = t /\ e.status \in Finals
        BY <3>6, EventKinds
      <4>2. page'[p].load = "asked" \/ page'[p].shown[t] \in Finals
        BY <1>3, <1>7, <4>1
      <4>3. Shows(p, t)'
        BY <4>2 DEF Shows
      <4> QED
        BY <3>0, <4>3 DEF OnItsWay
    <3>7. CASE Shows(p, t) /\ e = ProgressOf(t) /\ t \in overruled
      <4>1. e = [submission |-> t, status |-> "running"] /\ e.submission = t /\ e # E!Opened
        BY <3>7, EventKinds DEF ProgressOf
      <4>2. page[p].shown[t] \notin Finals
        BY <1>0, <1>9, <3>7, <4>1 DEF E!Undone
      <4>3. Shows(p, t)'
        BY <1>7, <3>7, <4>1, <4>2 DEF Shows
      <4> QED
        BY <3>0, <4>3 DEF OnItsWay
    <3>8. CASE Shows(p, t) /\ e # ProgressOf(t) /\ ~E!IsVerdict(e, t)
      <4>1. e # E!Opened => e.submission # t
        BY <1>4, <3>8, EventKinds
      <4>2. \/ page'[p].load = "asked"
            \/ /\ page'[p].shown[t] = page[p].shown[t] /\ page'[p].load = page[p].load
               /\ page'[p].list = page[p].list
        BY <1>3, <1>7, <4>1
      <4>3. Shows(p, t)'
        BY <3>8, <4>2 DEF Shows
      <4> QED
        BY <3>0, <4>3 DEF OnItsWay
    <3> QED
      BY <3>1, <3>2, <3>5, <3>6, <3>7, <3>8
  <2> QED
    BY <2>2, <2>3
<1>10. \A q \in Pages : channel'[page[q].stream].buffer = channel[page[q].stream].buffer
  BY <1>1
<1> QED
  BY <1>0, <1>1, <1>6, <1>7, <1>9, <1>10, OthersOnTheirWay

\* A stream that is opened is a new one.
LEMMA StreamsStayOwn ==
  ASSUME EventInv, WayInv, E!Next
  PROVE  OwnStreams'
<1>1. page \in [Pages -> PageType] /\ wire \in [Pages -> Seq(E!Event \cup {E!Opened})]
  BY PagesAre DEF EventInv, WiresTyped
<1>2. /\ \A q \in Pages : page[q].stream = 0 => wire[q] = << >>
      /\ \A q, r \in Pages : page[q].stream # 0 /\ page[q].stream = page[r].stream => q = r
  BY DEF WayInv, OwnStreams
<1>3. ASSUME \A q \in Pages : page'[q].stream = page[q].stream /\ (page[q].stream = 0 => wire'[q] = wire[q])
      PROVE  OwnStreams'
  BY <1>2, <1>3 DEF OwnStreams
<1>4. ASSUME NEW p \in Pages, E!Subscribe(p)
      PROVE  OwnStreams'
  <2> DEFINE new == [buffer |-> << >>, closed |-> FALSE]
             n == Len(channel) + 1
  <2>1. channel \in Seq(Channel) /\ new \in Channel /\ channel' = Append(channel, new)
    BY <1>4 DEF EventInv, ChannelsTyped, Channel, E!Subscribe
  <2>2. Len(channel') = n /\ n # 0
    BY <2>1
  <2>3. page' = [page EXCEPT ![p].stream = n] /\ wire' = [wire EXCEPT ![p] = <<E!Opened>>]
    BY <1>4, <2>2 DEF E!Subscribe
  <2>4. \A q \in Pages : page[q].stream # n
    <3>1. \A q \in Pages : page[q].stream \in 0..Len(channel) /\ Len(channel) \in Nat
      BY PageKnown, BuffersHold
    <3> QED
      BY <3>1
  <2> HIDE DEF new, n
  <2>5. \A q \in Pages : page'[q].stream = IF q = p THEN n ELSE page[q].stream
    BY <1>1, <2>3 DEF PageType
  <2>6. \A q \in Pages : q # p => wire'[q] = wire[q]
    BY <2>3
  <2> QED
    BY <1>2, <2>2, <2>4, <2>5, <2>6 DEF OwnStreams
<1>5. ASSUME NEW p \in Pages, E!Break(p)
      PROVE  OwnStreams'
  <2>1. page' = [page EXCEPT ![p].stream = 0, ![p].auto = TRUE] /\ wire' = [wire EXCEPT ![p] = << >>]
    BY <1>5 DEF E!Break
  <2>2. \A q \in Pages : page'[q].stream = IF q = p THEN 0 ELSE page[q].stream
    BY <1>1, <2>1 DEF PageType
  <2>3. \A q \in Pages : wire'[q] = IF q = p THEN << >> ELSE wire[q]
    BY <1>1, <2>1
  <2> QED
    BY <1>2, <2>2, <2>3 DEF OwnStreams
<1>6. ASSUME NEW j \in Judges, E!Panic(j)
      PROVE  OwnStreams'
  <2>1. /\ wire' = [p \in Pages |-> << >>]
        /\ page' = [p \in Pages |-> [page[p] EXCEPT !.stream = 0, !.auto = page[p].auto \/ page[p].stream # 0]]
    BY <1>6 DEF E!Panic
  <2>2. \A q \in Pages : page'[q].stream = 0 /\ wire'[q] = << >>
    BY <1>1, <2>1 DEF PageType
  <2> QED
    BY <2>2 DEF OwnStreams
<1>7. ASSUME NEW p \in Pages, E!Forward(p) \/ E!Receive(p)
      PROVE  OwnStreams'
  <2>1. page[p].stream # 0 /\ \A q \in Pages : q # p => wire'[q] = wire[q]
    <3>1. CASE E!Forward(p)
      BY <3>1 DEF E!Forward
    <3>2. CASE E!Receive(p)
      <4>1. wire[p] # << >> /\ wire' = [wire EXCEPT ![p] = Tail(wire[p])]
        BY <3>2 DEF E!Receive
      <4> QED
        BY <1>2, <4>1
    <3> QED
      BY <1>7, <3>1, <3>2
  <2>2. CASE E!Forward(p)
    <3>1. page' = page
      BY <2>2 DEF E!Forward
    <3> QED
      BY <1>3, <2>1, <3>1
  <2>3. CASE E!Receive(p)
    <3> DEFINE e == Head(wire[p])
    <3>1. \/ page' = [page EXCEPT ![p].auto = FALSE]
          \/ page' = [page EXCEPT ![p].auto = FALSE, ![p].shown[e.submission] = e.status]
          \/ page' = [page EXCEPT ![p].auto = FALSE, ![p].load = "asked", ![p].list = E!Nothing]
      BY <2>3 DEF E!Receive
    <3> HIDE DEF e
    <3>2. \A q \in Pages : page'[q].stream = page[q].stream
      <4>1. CASE page' = [page EXCEPT ![p].auto = FALSE]
        BY <1>1, <4>1 DEF PageType
      <4>2. CASE page' = [page EXCEPT ![p].auto = FALSE, ![p].shown[e.submission] = e.status]
        BY <1>1, <4>2 DEF PageType
      <4>3. CASE page' = [page EXCEPT ![p].auto = FALSE, ![p].load = "asked", ![p].list = E!Nothing]
        BY <1>1, <4>3 DEF PageType
      <4> QED
        BY <3>1, <4>1, <4>2, <4>3
    <3> QED
      BY <1>3, <2>1, <3>2
  <2> QED
    BY <1>7, <2>2, <2>3
<1>8. ASSUME NEW p \in Pages, E!Reader(p) \/ E!ListLost(p) \/ \E s \in Submissions : E!Submit(p, s)
      PROVE  OwnStreams'
  <2>1. wire' = wire
    BY <1>8 DEF E!Reader, E!QuestionSubmitList, E!Loaded, E!Poll, E!Submit, E!ListLost
  <2>2. page' = [page EXCEPT ![p] = page'[p]] /\ page'[p].stream = page[p].stream
    <3>1. CASE \E s \in Submissions : E!Submit(p, s)
      <4>1. page' = [page EXCEPT ![p].load = "asked", ![p].submitted = TRUE]
        BY <3>1 DEF E!Submit
      <4> QED
        BY <1>1, <4>1 DEF PageType
    <3>2. CASE E!Poll(p)
      BY <1>1, <3>2 DEF E!Poll, PageType
    <3>3. CASE E!QuestionSubmitList(p)
      <4>1. PICK list \in E!List : page' = [page EXCEPT ![p].load = "answered", ![p].list = list]
        BY <3>3 DEF E!QuestionSubmitList
      <4> QED
        BY <1>1, <4>1 DEF PageType
    <3>4. CASE E!Loaded(p)
      <4> DEFINE r == [page[p] EXCEPT
               !.load = "no", !.shown = page[p].list, !.list = E!Nothing, !.submitted = FALSE,
               !.me = IF page[p].me = "unasked" THEN "asked" ELSE page[p].me,
               !.auto = page[p].submitted \/ \E s \in Submissions : page[p].list[s] \in {"pending", "running"}]
      <4>1. page' = [page EXCEPT ![p] = r]
        BY <3>4 DEF E!Loaded
      <4>2. r.stream = page[p].stream
        BY <1>1 DEF PageType
      <4> HIDE DEF r
      <4> QED
        BY <1>1, <4>1, <4>2
    <3>5. CASE E!ListLost(p)
      <4> DEFINE m == IF page[p].me = "unasked" THEN "unknown" ELSE page[p].me
      <4>1. page' = [page EXCEPT ![p].load = "no", ![p].submitted = FALSE, ![p].me = m]
        BY <3>5 DEF E!ListLost
      <4> HIDE DEF m
      <4> QED
        BY <1>1, <4>1 DEF PageType
    <3> QED
      BY <1>8, <3>1, <3>2, <3>3, <3>4, <3>5 DEF E!Reader
  <2>3. \A q \in Pages : page'[q].stream = page[q].stream
    BY <1>1, <2>2
  <2> QED
    BY <1>3, <2>1, <2>3
<1>9. ASSUME UNCHANGED <<page, wire>>
      PROVE  OwnStreams'
  BY <1>3, <1>9
<1>10. ASSUME NEW j \in Judges,
              \/ E!publishSubmitRuntimeEvent(j) \/ E!Fail(j) \/ \E c \in E!Streams : E!SendTo(j, c)
              \/ \E v \in Finals : E!Finish(j, v)
              \/ \E s \in Submissions : E!Claim(j, s) \/ E!MarkSubmitSystemError(j, s)
       PROVE  UNCHANGED <<page, wire>>
  BY <1>10 DEF E!publishSubmitRuntimeEvent, E!Fail, E!SendTo, E!Finish, E!Claim, E!MarkSubmitSystemError
<1>11. ASSUME NEW c, E!Unsubscribe(c)
       PROVE  UNCHANGED <<page, wire>>
  BY <1>11 DEF E!Unsubscribe
<1>12. ASSUME NEW s \in Submissions, E!requeueStuckSubmits(s)
       PROVE  UNCHANGED <<page, wire>>
  BY <1>12 DEF E!requeueStuckSubmits
<1> QED
  BY <1>4, <1>5, <1>6, <1>7, <1>8, <1>9, <1>10, <1>11, <1>12 DEF E!Next, E!Tell

\* No step loses a verdict.
LEMMA WayStepKept ==
  ASSUME EventInv, WayInv, E!Next
  PROVE  WayInv'
<1>1. ASSUME NEW j \in Judges, E!Tell(j)
      PROVE  NoneLost'
  BY <1>1, publishSubmitRuntimeEventTellsOn, SendToTellsOn, PanicTellsOn DEF E!Tell
<1>2. ASSUME NEW p \in Pages, E!Reader(p)
      PROVE  NoneLost'
  BY <1>2, PollTellsOn, QuestionSubmitListTellsOn, LoadedTellsOn DEF E!Reader
<1>3. NoneLost'
  BY <1>1, <1>2, ClaimTellsOn, FinishTellsOn, FailTellsOn, requeueStuckSubmitsTellsOn, MarkSubmitSystemErrorTellsOn,
     SubmitTellsOn, SubscribeTellsOn, BreakTellsOn, ForwardTellsOn, ReceiveTellsOn, UnsubscribeTellsOn,
     ListLostTellsOn DEF E!Next
<1> QED
  BY <1>3, StreamsStayOwn DEF WayInv

\* Nor do steps that are not theirs.
LEMMA WayAlone ==
  ASSUME WayInv, UNCHANGED eVars
  PROVE  WayInv'
<1>1. UNCHANGED <<row, overruled, judging, channel, wire, page, missed>>
  BY DEF eVars
<1>2. OwnStreams'
  BY <1>1 DEF WayInv, OwnStreams
<1>3. \A p \in Pages, t \in Submissions : StillSends(p, t)' <=> StillSends(p, t)
  BY <1>1 DEF StillSends
<1>4. NoneLost'
  BY <1>1, <1>3, TellsOn
<1> QED
  BY <1>2, <1>4 DEF WayInv

LEMMA WayFresh ==
  ASSUME E!Init
  PROVE  WayInv
<1>1. /\ row = E!Nothing /\ wire = [p \in Pages |-> << >>]
      /\ page = [p \in Pages |-> [stream |-> 0, shown |-> E!Nothing, auto |-> FALSE, load |-> "asked",
                                  list |-> E!Nothing, submitted |-> FALSE, me |-> "unasked"]]
  BY DEF E!Init
<1>2. \A s \in Submissions : row[s] \notin Finals
  BY <1>1, EventsAssumption DEF E!Nothing
<1>3. \A p \in Pages : page[p].stream = 0 /\ wire[p] = << >>
  BY <1>1
<1> QED
  BY <1>2, <1>3 DEF WayInv, OwnStreams, NoneLost

\* A verdict that is in its row is in one of those places.
LEMMA WayInvGives ==
  ASSUME EventInv, WayInv
  PROVE  E!VerdictOnItsWay
<1> SUFFICES ASSUME NEW p \in Pages, NEW s \in Submissions, row[s] \in Finals, s \notin missed[p]
             PROVE  Shows(p, s) \/ E!ToCome(p, s)
  BY DEF E!VerdictOnItsWay, Shows
<1>1. OnItsWay(p, s)
  BY DEF WayInv, NoneLost
<1> QED
  BY <1>1, ToComeIs DEF OnItsWay

\* What the instances promise.
LEMMA EventInvGives ==
  ASSUME EventInv
  PROVE  E!TypeOK /\ E!VerdictIsCommitted
<1>1. row \in E!List /\ runtime \in [Submissions -> {"none"} \cup E!Told] /\ overruled \subseteq Submissions
  BY DEF EventInv, RowTyped
<1>2. Len(channel) \in Nat /\ Len(channel) <= MaxStreams /\ subs \subseteq 1..Len(channel) /\ DOMAIN channel = 1..Len(channel)
  BY BuffersHold DEF EventInv, ChannelsTyped
<1>3. judging \in [Judges -> [at : E!Places, of : Submissions, tells : E!Told, to : SUBSET E!Streams]]
  <2>1. SUBSET (1..Len(channel)) \subseteq SUBSET E!Streams
    BY <1>2, Bounds DEF E!Streams
  <2>2. \A j \in Judges : judging[j] \in [at : E!Places, of : Submissions, tells : E!Told, to : SUBSET E!Streams]
    BY <2>1, JudgeKnown DEF Judging
  <2> QED
    BY <2>2, JudgingAre
<1>4. \A c \in DOMAIN channel :
        /\ Len(channel[c].buffer) <= Capacity /\ E!Range(channel[c].buffer) \subseteq E!Event
        /\ channel[c].closed = (c \notin subs)
  <2> SUFFICES ASSUME NEW c \in 1..Len(channel)
               PROVE  /\ Len(channel[c].buffer) <= Capacity /\ E!Range(channel[c].buffer) \subseteq E!Event
                      /\ channel[c].closed = (c \notin subs)
    BY <1>2
  <2>1. Len(channel[c].buffer) <= Capacity /\ (channel[c].closed <=> c \notin subs)
    BY DEF EventInv, ChannelsTyped
  <2>2. /\ channel[c].closed \in BOOLEAN /\ channel[c].buffer \in Seq(E!Event)
        /\ \A i \in 1..Len(channel[c].buffer) : channel[c].buffer[i] \in E!Event
    BY BuffersHold
  <2>3. E!Range(channel[c].buffer) \subseteq E!Event
    <3>1. DOMAIN channel[c].buffer = 1..Len(channel[c].buffer)
      BY <2>2
    <3> QED
      BY <2>2, <3>1 DEF E!Range
  <2>4. channel[c].closed = (c \notin subs)
    BY <2>1, <2>2
  <2> QED
    BY <2>1, <2>3, <2>4
<1>5. \A p \in Pages : E!Range(wire[p]) \subseteq E!Event \cup {E!Opened}
  <2> SUFFICES ASSUME NEW p \in Pages
               PROVE  E!Range(wire[p]) \subseteq E!Event \cup {E!Opened}
    OBVIOUS
  <2>1. /\ wire[p] \in Seq(E!Event \cup {E!Opened})
        /\ \A i \in 1..Len(wire[p]) : wire[p][i] \in E!Event \cup {E!Opened}
    BY PageKnown
  <2>2. DOMAIN wire[p] = 1..Len(wire[p])
    BY <2>1
  <2> QED
    BY <2>1, <2>2 DEF E!Range
<1>6. page \in [Pages -> PageType]
  BY PagesAre
<1>7. missed \in [Pages -> SUBSET Submissions]
  BY DEF EventInv, MissedTyped
<1>8. E!TypeOK
  BY <1>1, <1>2, <1>3, <1>4, <1>5, <1>6, <1>7 DEF E!TypeOK, PageType
<1>9. E!VerdictIsCommitted
  BY DEF EventInv, PagesTell, Honest, E!VerdictIsCommitted
<1> QED
  BY <1>8, <1>9

----------------------------------------------------------------------------
(* Together.                                                                *)

LEMMA AnswersInvKept == AnswersSpec => [](S!TypeOK /\ SandboxInv /\ EventInv /\ WayInv)
<1>1. AnswersInit => S!TypeOK /\ SandboxInv /\ EventInv /\ WayInv
  <2> SUFFICES ASSUME AnswersInit
               PROVE  S!TypeOK /\ SandboxInv /\ EventInv /\ WayInv
    OBVIOUS
  <2>1. EventInv /\ WayInv
    BY EventsFresh, WayFresh DEF AnswersInit
  <2>2. CASE part = "sandbox"
    <3>1. RequestStart
      BY <2>2 DEF AnswersInit, S!Init, RequestStart
    <3> QED
      BY <2>1, <3>1, RequestFresh
  <2>3. CASE part # "sandbox"
    <3> DEFINE r == CHOOSE x \in Runs : TRUE
               m == CHOOSE x \in Modes : TRUE
    <3>1. r \in Runs /\ m \in Modes /\ 0 \in 0..MaxCases
      BY SandboxAssumption
    <3>2. mode = m /\ cases = 0
          /\ program = [source |-> "fine", compile |-> "ok", runs |-> [k \in 1..MaxCases |-> r]]
      BY <2>3 DEF AnswersInit
    <3> HIDE DEF r, m
    <3>3. program \in [source : S!Sources, compile : S!Compiles, runs : [1..MaxCases -> Runs]]
      BY <3>1, <3>2 DEF S!Sources, S!Compiles
    <3>4. RequestStart
      BY <2>3, <3>1, <3>2, <3>3 DEF AnswersInit, RequestStart
    <3> QED
      BY <2>1, <3>4, RequestFresh
  <2> QED
    BY <2>1, <2>2, <2>3
<1>2. S!TypeOK /\ SandboxInv /\ EventInv /\ WayInv /\ [AnswersNext]_allVars
        => (S!TypeOK /\ SandboxInv /\ EventInv /\ WayInv)'
  <2> SUFFICES ASSUME S!TypeOK, SandboxInv, EventInv, WayInv, [AnswersNext]_allVars
               PROVE  S!TypeOK' /\ SandboxInv' /\ EventInv' /\ WayInv'
    OBVIOUS
  <2>1. CASE UNCHANGED <<sVars, eVars>>
    BY <2>1, SandboxAlone, EventsAlone, WayAlone
  <2>2. CASE S!Next /\ UNCHANGED eVars
    BY <2>2, SandboxStepKept, EventsAlone, WayAlone
  <2>3. CASE E!Next /\ UNCHANGED sVars
    BY <2>3, SandboxAlone, EventStepKept, WayStepKept
  <2> QED
    BY <2>1, <2>2, <2>3 DEF AnswersNext, allVars
<1> QED
  BY <1>1, <1>2, PTL DEF AnswersSpec

\* Requests, replies and verdicts, events, streams and pages have their types.
THEOREM AnswersTypes == AnswersSpec => []TypesOK
<1>1. S!TypeOK /\ SandboxInv /\ EventInv => TypesOK
  BY EventInvGives DEF TypesOK
<1> QED
  BY <1>1, AnswersInvKept, PTL

\* A verdict, the fault it names and its score are those of the program, for every
\* program, number of cases and limit.
THEOREM VerdictsAreEarned == AnswersSpec => []VerdictIsEarned
<1>1. S!TypeOK /\ SandboxInv /\ EventInv => VerdictIsEarned
  BY DEF SandboxInv, VerdictIsEarned
<1> QED
  BY <1>1, AnswersInvKept, PTL

\* Every verdict a page shows is the one its row has, unless the row was taken from a
\* judge, and none is lost between the two, but for those that are missed: for any
\* number of submissions, judges, pages and streams and any capacity of the channels.
THEOREM VerdictsGetThrough == AnswersSpec => []VerdictIsOnItsWay
<1>1. S!TypeOK /\ SandboxInv /\ EventInv /\ WayInv => VerdictIsOnItsWay
  BY EventInvGives, WayInvGives DEF VerdictIsOnItsWay
<1> QED
  BY <1>1, AnswersInvKept, PTL
=============================================================================
