----------------------------- MODULE MCSubmitIntake -----------------------------
(* Instances of SubmitIntake for TLC.                                       *)
EXTENDS SubmitIntake

\* Three requests of one person and one of the agent, on two questions.
MCRequests == {"a1", "a2", "a3", "agent"}
MCAuthorOf == [r \in MCRequests |-> IF r = "agent" THEN r ELSE "a"]
MCQuestionOf == [r \in MCRequests |-> IF r = "a3" THEN "p" ELSE "q"]
=============================================================================
