----------------------------- MODULE MCFirstACRank -----------------------------
(****************************************************************************)
(* Instances of FirstACRank for TLC: events e1 and e2 are one author's,     *)
(* e3 another's.                                                            *)
(****************************************************************************)
EXTENDS FirstACRank, TLC

CONSTANTS e1, e2, e3, ann, bob, r1

ThreeEvents == {e1, e2, e3}
TwoAuthors == {ann, bob}
Authorship == [e \in ThreeEvents |-> IF e = e3 THEN bob ELSE ann]
OneReader == {r1}

SameAuthorSymmetry == Permutations({e1, e2})
=============================================================================
