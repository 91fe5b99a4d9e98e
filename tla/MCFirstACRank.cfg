\* Two events of one author and one of another, judges and a reader that
\* overlap in the loop, batches of two.
CONSTANTS
  e1 = e1
  e2 = e2
  e3 = e3
  ann = ann
  bob = bob
  r1 = r1
  Authors <- TwoAuthors
  Events <- ThreeEvents
  AuthorOf <- Authorship
  Readers <- OneReader
  Limit = 2
  MaxTrouble = 2
SYMMETRY SameAuthorSymmetry
SPECIFICATION Spec
INVARIANTS RankInv ExactInSequence
CHECK_DEADLOCK FALSE
