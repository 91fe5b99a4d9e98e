\* One submission, and three publishes by two callers; threads, broker and client
\* library are fair.
CONSTANTS
  Submits = {s1}
  Questions = {q1}
  Users = {u1}
  UserOf <- OneUser
  QuestionOf <- OneQuestion
  AgentSubmits <- NoAgent
  Consumer = Consumer
  None = None
  MaxRetries = 1
  MaxCopies = 1
  MaxTrouble = 2
  Callers <- MCCallers
  MaxPublishes = 3
SPECIFICATION EndSpec
INVARIANT QueueInStep
PROPERTIES EventuallyJudged QueuedIsDelivered
CHECK_DEADLOCK FALSE
