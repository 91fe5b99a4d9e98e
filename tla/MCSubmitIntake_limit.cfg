SPECIFICATION Spec
CONSTANTS
  Requests <- MCRequests
  Questions = {"p", "q"}
  AuthorOf <- MCAuthorOf
  QuestionOf <- MCQuestionOf
  Agents = {"agent"}
  Window = 2
  MaxTime = 4
  MaxTrouble = 0
INVARIANTS OncePerWindow
CHECK_DEADLOCK FALSE
