-------------------------------- MODULE MCBlog --------------------------------
(****************************************************************************)
(* The blog for TLC: posts with their search index, engagement, tweets, and *)
(* articles bound to a question. In this instance they share no state: part *)
(* says which of them a behaviour is about, and the others stand at their   *)
(* start.                                                                   *)
(****************************************************************************)
EXTENDS PostSearch

CONSTANTS
  r1, r2, x1, x2, y1, y2, z1, z2, u1, u2,
  People, Articles,
  MaxComments, MaxWrites, MaxTweets, MaxRows

ASSUME BlogAssumption ==
  /\ IsFiniteSet(People)
  /\ MaxComments \in Nat /\ MaxWrites \in Nat /\ MaxTweets \in Nat /\ MaxRows \in Nat

VARIABLES
  part,
  published, marks, comments, notes, engagement, ranking, ecalls, writes, stale, dropped,
  tweets, tindex, tlate, nextId, tcalls,
  question, rows, bcalls, boverlapped

MCRequests == {r1, r2}
MCTitles   == {x1, x2}
MCTags     == {y1, y2}
MCContents == {z1, z2}
MCPeople   == {u1, u2}
MCArticles == {"p", "q"}

E == INSTANCE PostEngagement WITH Users <- People, calls <- ecalls
T == INSTANCE TweetIndex WITH Authors <- People, index <- tindex, late <- tlate, calls <- tcalls
B == INSTANCE SolutionBinding WITH
       Posts <- Articles, Users <- People \cup {"owner", "admin"},
       Owner <- "owner", Admin <- "admin", calls <- bcalls, overlapped <- boverlapped

eVars == <<published, marks, comments, notes, engagement, ranking, ecalls, writes, stale, dropped>>
tVars == <<tweets, tindex, tlate, nextId, tcalls>>
bVars == <<question, rows, bcalls, boverlapped>>

Parts == {"posts", "engagement", "tweets", "bindings"}

BlogInit ==
  /\ part \in Parts
  /\ SearchInit /\ E!Init /\ T!Init /\ B!Init
  /\ part # "posts" => CreateDraft(x1, y1, z1)

BlogNext ==
  /\ UNCHANGED part
  /\ \/ part = "posts" /\ SearchNext /\ UNCHANGED <<eVars, tVars, bVars>>
     \/ part = "engagement" /\ E!Next /\ UNCHANGED <<searchVars, tVars, bVars>>
     \/ part = "tweets" /\ T!Next /\ UNCHANGED <<searchVars, eVars, bVars>>
     \/ part = "bindings" /\ B!Next /\ UNCHANGED <<searchVars, eVars, tVars>>

BlogSpec == BlogInit /\ [][BlogNext]_<<part, searchVars, eVars, tVars, bVars>>

\* Requests differ in nothing, nor do titles, tags, contents, people.
MCSymmetry == UNION {Permutations(S) : S \in {MCRequests, MCTitles, MCPeople}}

----------------------------------------------------------------------------
(* What the instances promise; their modules say more.                      *)

\* Types of posts and their index, of engagement, tweets and bindings.
TypesOK == SearchTypeOK /\ E!TypeOK /\ T!TypeOK /\ B!TypeOK

\* A cache of counts lags behind for no reason but a slow reader or a failure.
CachesKeepUp == E!CachesKeepUp

\* A reply is notified once, to whom it answers.
RepliesNotified == E!RepliesNotified

\* A tweet that was kept is found.
KeptIsFound == T!KeptIsFound

\* An article is listed once, unless calls on it overlapped.
ListedOnce == B!ListedOnce

\* A row is removed by who may remove it, unless calls overlapped.
RemovedByRight == B!RemovedByRight
=============================================================================
