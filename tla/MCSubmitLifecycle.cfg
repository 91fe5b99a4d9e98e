\* Four submissions: two that compete to be first, one author apart, one
\* question apart. Two tasks of two rounds.
SPECIFICATION AllSpec
CONSTANTS
  Submits <- FourSubmits
  Questions = {"q1", "q2"}
  Users = {"alice", "bob"}
  UserOf <- MixedUsers
  QuestionOf <- MixedQuestions
  t1 = t1
  t2 = t2
  Tasks <- TwoTasks
  MaxRound = 2
  MaxTrouble = 1
SYMMETRY MCSymmetry
INVARIANTS LifecycleInv TaskSafety
PROPERTIES ImplementsTask
CHECK_DEADLOCK FALSE
