SPECIFICATION Spec
CONSTANTS
  Requests <- MCRequests
  Questions = {"p", "q"}
  AuthorOf <- MCAuthorOf
  QuestionOf <- MCQuestionOf
  Agents = {"agent"}
  Window = 2
  MaxTime = 4
  MaxTrouble = 1
INVARIANTS TypeOK SequentialAuthorLimited SubmitNumCounted
CHECK_DEADLOCK FALSE
