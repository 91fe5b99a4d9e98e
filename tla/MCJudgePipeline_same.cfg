\* Two submissions of one author on one question, one of them the agent's.
CONSTANTS
  Submits = {s1, s2}
  Questions = {q1}
  Users = {u1}
  UserOf <- OneUser
  QuestionOf <- OneQuestion
  AgentSubmits = {s1}
  Consumer = Consumer
  None = None
  MaxRetries = 0
  MaxCopies = 1
  MaxTrouble = 1
SPECIFICATION Spec
INVARIANTS AcceptedNumExact FirstAcceptedUnique PipelineInv
CHECK_DEADLOCK FALSE
