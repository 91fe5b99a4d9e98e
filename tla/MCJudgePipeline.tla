--------------------------- MODULE MCJudgePipeline ---------------------------
(****************************************************************************)
(* Instances of JudgePipeline for TLC: which author and which question each *)
(* submission has.                                                          *)
(****************************************************************************)
EXTENDS JudgePipeline

OneUser == [s \in Submits |-> CHOOSE u \in Users : TRUE]
OneQuestion == [s \in Submits |-> CHOOSE q \in Questions : TRUE]

NoAgent == {}
=============================================================================
