--------------------------- MODULE MCJudgedInTheEnd ---------------------------
(****************************************************************************)
(* The pipeline with one submission, and the channel its messages take, for *)
(* TLC. JudgePipeline has of a publish only what may come of it; here part  *)
(* says which of the two a behaviour is about, and the other stands at its  *)
(* start, where none of its fair actions is enabled.                        *)
(****************************************************************************)
EXTENDS MCJudgePipeline

CONSTANTS Callers, MaxPublishes

ASSUME QueueAssumption == MaxPublishes \in Nat

VARIABLES
  part,
  open, waiting, published, fate, answer, confirmed, unacked, delivered, forward, inbound, confirms, behind

Q == INSTANCE JudgeQueue

MCCallers == {Consumer, "ticker"}

qVars == <<open, waiting, published, fate, answer, confirmed, unacked, delivered, forward, inbound,
           confirms, behind>>

EndInit == part \in {"pipeline", "queue"} /\ Init /\ Q!Init

EndNext ==
  /\ UNCHANGED part
  /\ \/ part = "pipeline" /\ Next /\ UNCHANGED qVars
     \/ part = "queue" /\ Q!Next /\ UNCHANGED vars

EndSpec == EndInit /\ [][EndNext]_<<part, vars, qVars>> /\ Fairness /\ WF_qVars(Q!Going)

----------------------------------------------------------------------------
\* A publish that succeeds has put its message, or one that was sent as many
\* messages before as calls have given up, on a queue.
QueueInStep == Q!TypeOK /\ Q!QueueInStep

\* A message that is to be judged reaches the consumer, until two calls gave up.
QueuedIsDelivered == Q!QueuedIsDelivered
=============================================================================
