\* One submission under every kind of trouble.
CONSTANTS
  Submits = {s1}
  Questions = {q1}
  Users = {u1}
  UserOf <- OneUser
  QuestionOf <- OneQuestion
  AgentSubmits <- NoAgent
  Consumer = Consumer
  None = None
  MaxRetries = 1
  MaxCopies = 2
  MaxTrouble = 4
SPECIFICATION Spec
INVARIANTS SingleJudge RuntimeVerdictBacked
PROPERTIES VerdictFinal ImplementsLifecycle
CHECK_DEADLOCK FALSE
