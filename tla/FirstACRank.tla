------------------------------ MODULE FirstACRank ------------------------------
(****************************************************************************)
(* The 24 hour ranking of first accepted submissions: two Redis sorted      *)
(* sets, the score of each author and the events that are to be taken back  *)
(* when they are a day old. There is no job that takes them back: each      *)
(* request for the ranking and each judge that records an event first runs  *)
(* applyExpiredFirstACEvents, a loop of single commands, and any number of  *)
(* those loops overlap.                                                     *)
(*                                                                          *)
(* A score of 0 stands for an author who is not in the ranking. A command   *)
(* whose error the code ignores may fail, and the process may crash, each   *)
(* for one unit of MaxTrouble.                                              *)
(****************************************************************************)
EXTENDS Integers, FiniteSets

CONSTANTS
  Authors,    \* members of oj:rank:first_ac:24h
  Events,     \* first accepted submissions, members of ...:events
  AuthorOf,   \* the author of each
  Readers,    \* requests for the ranking
  Limit,      \* events fetched at a time (200)
  MaxTrouble  \* bound: failed commands and crashes in a behaviour

\* The judge that records event e is called e.
Callers == Events \cup Readers

ASSUME RankAssumption ==
  /\ IsFiniteSet(Events)
  /\ AuthorOf \in [Events -> Authors]
  /\ Events \cap Readers = {}
  /\ Limit \in Nat \ {0}
  /\ MaxTrouble \in Nat

VARIABLES
  rank,      \* score of each author
  live,      \* events in the second set
  due,       \* those of them that are a day old
  pc, todo,  \* each caller: its place, and the fetched events it still has
  current,   \*   ahead, and the one it is taking back
  overlapped,\* history: two callers were ever inside the loop together
  missed,    \* history: decrements that failed, per author
  trouble    \* adverse events so far

redis == <<rank, live, due>>
call  == <<pc, todo, current>>
vars  == <<redis, call, overlapped, missed, trouble>>

EventsOf(u) == {e \in Events : AuthorOf[e] = u}

Places == {"idle", "fetch", "decrement", "remove", "sweep", "record", "done"}
Inside == {"decrement", "remove", "sweep"}

TypeOK ==
  /\ rank \in [Authors -> Int]
  /\ live \subseteq Events
  /\ due \subseteq live
  /\ pc \in [Callers -> Places]
  /\ todo \in [Callers -> SUBSET Events]
  /\ \A c \in Callers : pc[c] = "decrement" => todo[c] # {}
  /\ current \in [Callers -> SUBSET Events]
  /\ \A c \in Callers : pc[c] = "remove" <=> current[c] # {}
  /\ overlapped \in BOOLEAN
  /\ missed \in [Authors -> Nat]
  /\ trouble \in Nat

Init ==
  /\ rank = [u \in Authors |-> 0]
  /\ live = {}
  /\ due = {}
  /\ pc = [c \in Callers |-> "idle"]
  /\ todo = [c \in Callers |-> {}]
  /\ current = [c \in Callers |-> {}]
  /\ overlapped = FALSE
  /\ missed = [u \in Authors |-> 0]
  /\ trouble = 0

----------------------------------------------------------------------------
Trouble == trouble < MaxTrouble /\ trouble' = trouble + 1

Goto(c, place) == pc' = [pc EXCEPT ![c] = place]

\* A judge records its event once; rankings are asked for again and again.
Finished(c) == IF c \in Events THEN "done" ELSE "idle"

Call(c) ==
  /\ pc[c] = "idle"
  /\ Goto(c, "fetch")
  /\ UNCHANGED <<redis, todo, current, overlapped, missed, trouble>>

\* ZRANGEBYSCORE events -inf now LIMIT 0 200. With nothing due the caller goes
\* on to its own business; on an error it gives that up.
Fetch(c) ==
  /\ pc[c] = "fetch"
  /\ \/ /\ due = {}
        /\ Goto(c, IF c \in Events THEN "record" ELSE "idle")
        /\ UNCHANGED <<todo, overlapped, trouble>>
     \/ /\ due # {}
        /\ \E batch \in SUBSET due :
             /\ Cardinality(batch) = Limit \/ (batch = due /\ Cardinality(due) < Limit)
             /\ todo' = [todo EXCEPT ![c] = batch]
        /\ Goto(c, "decrement")
        /\ overlapped' = (overlapped \/ \E d \in Callers : pc[d] \in Inside)
        /\ UNCHANGED trouble
     \/ /\ Trouble
        /\ Goto(c, Finished(c))
        /\ UNCHANGED <<todo, overlapped>>
  /\ UNCHANGED <<redis, current, missed>>

\* ZINCRBY rank -1 author.
Decrement(c) ==
  /\ pc[c] = "decrement"
  /\ \E e \in todo[c] :
       /\ current' = [current EXCEPT ![c] = {e}]
       /\ todo' = [todo EXCEPT ![c] = @ \ {e}]
       /\ \/ /\ rank' = [rank EXCEPT ![AuthorOf[e]] = @ - 1]
             /\ UNCHANGED <<missed, trouble>>
          \/ /\ Trouble
             /\ missed' = [missed EXCEPT ![AuthorOf[e]] = @ + 1]
             /\ UNCHANGED rank
  /\ Goto(c, "remove")
  /\ UNCHANGED <<live, due, overlapped>>

\* Slip: the loop does not notice the end of the batch.
RemoveOn(c) ==
  /\ pc[c] = "remove"
  /\ live' = live \ current[c]
  /\ due' = due \ current[c]
  /\ current' = [current EXCEPT ![c] = {}]
  /\ Goto(c, "decrement")
  /\ UNCHANGED <<rank, todo, overlapped, missed, trouble>>

\* ZREM events member.
Remove(c) ==
  /\ pc[c] = "remove"
  /\ \/ /\ live' = live \ current[c]
        /\ due' = due \ current[c]
        /\ UNCHANGED trouble
     \/ /\ Trouble
        /\ UNCHANGED <<live, due>>
  /\ current' = [current EXCEPT ![c] = {}]
  /\ Goto(c, IF todo[c] = {} THEN "sweep" ELSE "decrement")
  /\ UNCHANGED <<rank, todo, overlapped, missed>>

\* Slip: authors with one point left are swept too.
SweepOnes(c) ==
  /\ pc[c] = "sweep"
  /\ rank' = [u \in Authors |-> IF rank[u] <= 1 THEN 0 ELSE rank[u]]
  /\ Goto(c, "fetch")
  /\ UNCHANGED <<live, due, todo, current, overlapped, missed, trouble>>

\* ZREMRANGEBYSCORE rank -inf 0, then round the loop again.
Sweep(c) ==
  /\ pc[c] = "sweep"
  /\ \/ /\ rank' = [u \in Authors |-> IF rank[u] < 0 THEN 0 ELSE rank[u]]
        /\ UNCHANGED trouble
     \/ /\ Trouble
        /\ UNCHANGED rank
  /\ Goto(c, "fetch")
  /\ UNCHANGED <<live, due, todo, current, overlapped, missed>>

\* Slip: the point is given, the event not noted.
RecordPointOnly(e) ==
  /\ pc[e] = "record"
  /\ rank' = [rank EXCEPT ![AuthorOf[e]] = @ + 1]
  /\ Goto(e, "done")
  /\ UNCHANGED <<live, due, todo, current, overlapped, missed, trouble>>

\* MULTI: ZINCRBY and ZADD take effect together or not at all.
Record(e) ==
  /\ pc[e] = "record"
  /\ \/ /\ rank' = [rank EXCEPT ![AuthorOf[e]] = @ + 1]
        /\ live' = live \cup {e}
        /\ UNCHANGED trouble
     \/ /\ Trouble
        /\ UNCHANGED <<rank, live>>
  /\ Goto(e, "done")
  /\ UNCHANGED <<due, todo, current, overlapped, missed>>

----------------------------------------------------------------------------
(* Time and crashes                                                         *)

DayPasses(e) ==
  /\ e \in live \ due
  /\ due' = due \cup {e}
  /\ UNCHANGED <<rank, live, call, overlapped, missed, trouble>>

\* Both keys expire an hour after the youngest event is due; no call takes that
\* long.
KeysExpire ==
  /\ live = due
  /\ \A c \in Callers : pc[c] \notin Inside
  /\ rank' = [u \in Authors |-> 0]
  /\ live' = {}
  /\ due' = {}
  /\ UNCHANGED <<call, overlapped, missed, trouble>>

Crash ==
  /\ Trouble
  /\ pc' = [c \in Callers |-> IF pc[c] = "idle" THEN "idle" ELSE Finished(c)]
  /\ todo' = [c \in Callers |-> {}]
  /\ current' = [c \in Callers |-> {}]
  /\ UNCHANGED <<redis, overlapped, missed>>

----------------------------------------------------------------------------
Next ==
  \/ \E c \in Callers : Call(c) \/ Fetch(c) \/ Decrement(c) \/ Remove(c) \/ Sweep(c)
  \/ \E e \in Events : Record(e) \/ DayPasses(e)
  \/ KeysExpire
  \/ Crash

Spec == Init /\ [][Next]_vars

----------------------------------------------------------------------------
(* Properties                                                               *)

\* Events whose point has been taken back while they are still in the set.
TakenBack == UNION {current[c] : c \in Callers}
Counted(u) == (live \cap EventsOf(u)) \ TakenBack

\* However the loops of applyExpiredFirstACEvents overlap, and wherever one of
\* them stops, no author has more points than events of the last day (but for
\* the decrements Redis refused): an event taken back twice only costs points.
NeverOverstated == \A u \in Authors : rank[u] <= Cardinality(Counted(u)) + missed[u]

\* The event of a judge that has not recorded it is nowhere in Redis.
Unrecorded ==
  \A e \in Events :
    pc[e] # "done" => /\ e \notin live
                      /\ \A c \in Callers : e \notin todo[c] /\ e \notin current[c]

\* The inductive invariant that NeverOverstated rests on.
RankInv == TypeOK /\ Unrecorded /\ NeverOverstated

\* As long as no two loops overlapped and nothing failed, the ranking is exact
\* between any two commands.
ExactInSequence ==
  ~overlapped /\ trouble = 0 => \A u \in Authors : rank[u] = Cardinality(Counted(u))
=============================================================================
