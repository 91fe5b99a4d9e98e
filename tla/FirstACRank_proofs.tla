-------------------------- MODULE FirstACRank_proofs --------------------------
(****************************************************************************)
(* Proof that the ranking never gives an author more points than the author *)
(* has events, for any number of judges, requests and batches. The argument *)
(* counts the events nobody is taking back: a decrement takes one of them   *)
(* away from the count before it leaves the set.                            *)
(****************************************************************************)
EXTENDS FirstACRank, FiniteSetTheorems, TLAPS

\* The counted events of an author are finitely many.
LEMMA CountedFinite ==
  ASSUME NEW u \in Authors
  PROVE  /\ IsFiniteSet(Counted(u))
         /\ Cardinality(Counted(u)) \in Nat
<1>1. IsFiniteSet(Counted(u))
  BY RankAssumption, FS_Subset DEF Counted, EventsOf
<1> QED
  BY <1>1, FS_CardinalityType

\* Fewer points and no fewer counted events keep the bound.
LEMMA BoundKept ==
  ASSUME TypeOK, NeverOverstated, TypeOK',
         \A u \in Authors : rank'[u] <= rank[u],
         \A u \in Authors : Counted(u) \subseteq Counted(u)',
         UNCHANGED missed
  PROVE  NeverOverstated'
<1> SUFFICES ASSUME NEW u \in Authors
             PROVE  rank'[u] <= Cardinality(Counted(u)') + missed'[u]
  BY DEF NeverOverstated
<1>1. IsFiniteSet(Counted(u)')
  BY RankAssumption, FS_Subset DEF Counted, EventsOf
<1>2. /\ Cardinality(Counted(u)') \in Nat
      /\ Cardinality(Counted(u)) \in Nat
      /\ Cardinality(Counted(u)) <= Cardinality(Counted(u)')
  BY <1>1, FS_CardinalityType, FS_Subset, CountedFinite
<1>3. rank[u] <= Cardinality(Counted(u)) + missed[u]
  BY DEF NeverOverstated
<1> QED
  BY <1>2, <1>3 DEF TypeOK

\* The ranking starts empty.
LEMMA InitRankInv == Init => RankInv
<1> SUFFICES ASSUME Init PROVE RankInv
  OBVIOUS
<1>1. TypeOK
  <2>1. /\ rank \in [Authors -> Int]
        /\ missed \in [Authors -> Nat]
        /\ trouble \in Nat
    BY DEF Init
  <2>2. /\ pc \in [Callers -> Places]
        /\ \A c \in Callers : pc[c] = "idle"
    BY DEF Init, Places
  <2>3. /\ todo \in [Callers -> SUBSET Events]
        /\ current \in [Callers -> SUBSET Events]
        /\ \A c \in Callers : current[c] = {}
    BY DEF Init
  <2>4. \A c \in Callers : /\ pc[c] = "decrement" => todo[c] # {}
                           /\ pc[c] = "remove" <=> current[c] # {}
    BY <2>2, <2>3
  <2>5. live \subseteq Events /\ due \subseteq live /\ overlapped \in BOOLEAN
    BY DEF Init
  <2> QED
    BY <2>1, <2>2, <2>3, <2>4, <2>5 DEF TypeOK
<1>2. Unrecorded
  BY DEF Init, Unrecorded
<1>3. NeverOverstated
  BY CountedFinite DEF Init, NeverOverstated
<1> QED
  BY <1>1, <1>2, <1>3 DEF RankInv

\* Every step keeps the types.
LEMMA NextTypeOK ==
  ASSUME RankInv, Next
  PROVE  TypeOK'
<1> USE RankAssumption DEF RankInv, TypeOK, Trouble, Goto, Finished, Places, redis, call
<1>1. ASSUME NEW c \in Callers, Call(c) PROVE TypeOK'
  BY <1>1 DEF Call
<1>2. ASSUME NEW c \in Callers, Fetch(c) PROVE TypeOK'
  <2>1. CASE due = {} \/ (due # {} /\ pc' = [pc EXCEPT ![c] = Finished(c)])
    BY <1>2, <2>1 DEF Fetch
  <2>2. CASE due # {} /\ pc' # [pc EXCEPT ![c] = Finished(c)]
    <3>1. PICK batch \in SUBSET due :
            /\ Cardinality(batch) = Limit \/ (batch = due /\ Cardinality(due) < Limit)
            /\ todo' = [todo EXCEPT ![c] = batch]
      BY <1>2, <2>2 DEF Fetch
    <3>2. batch # {}
      BY <2>2, <3>1, FS_EmptySet
    <3> QED
      BY <1>2, <2>2, <3>1, <3>2 DEF Fetch
  <2>3. CASE trouble' # trouble
    BY <1>2, <2>3 DEF Fetch
  <2> QED
    BY <1>2, <2>1, <2>2, <2>3 DEF Fetch
<1>3. ASSUME NEW c \in Callers, Decrement(c) PROVE TypeOK'
  BY <1>3 DEF Decrement
<1>4. ASSUME NEW c \in Callers, Remove(c) PROVE TypeOK'
  BY <1>4 DEF Remove
<1>5. ASSUME NEW c \in Callers, Sweep(c) PROVE TypeOK'
  BY <1>5 DEF Sweep
<1>6. ASSUME NEW e \in Events, Record(e) PROVE TypeOK'
  BY <1>6 DEF Record, Callers
<1>7. ASSUME NEW e \in Events, DayPasses(e) PROVE TypeOK'
  BY <1>7 DEF DayPasses
<1>8. CASE KeysExpire
  BY <1>8 DEF KeysExpire
<1>9. CASE Crash
  BY <1>9 DEF Crash
<1> QED
  BY <1>1, <1>2, <1>3, <1>4, <1>5, <1>6, <1>7, <1>8, <1>9 DEF Next

\* No step but its judge's puts an event into Redis, and callers fetch only what
\* is there.
LEMMA NextUnrecorded ==
  ASSUME RankInv, Next
  PROVE  Unrecorded'
<1> USE DEF RankInv, TypeOK, Unrecorded, Trouble, Goto, Finished, redis, call, Callers
<1>1. ASSUME NEW c \in Callers,
             Call(c) \/ Fetch(c) \/ Decrement(c) \/ Remove(c) \/ Sweep(c)
      PROVE  Unrecorded'
  <2>1. CASE Call(c)
    BY <1>1, <2>1 DEF Call
  <2>2. CASE Fetch(c)
    BY <1>1, <2>2 DEF Fetch
  <2>3. CASE Decrement(c)
    BY <1>1, <2>3 DEF Decrement
  <2>4. CASE Remove(c)
    BY <1>1, <2>4 DEF Remove
  <2>5. CASE Sweep(c)
    BY <1>1, <2>5 DEF Sweep
  <2> QED
    BY <1>1, <2>1, <2>2, <2>3, <2>4, <2>5
<1>2. ASSUME NEW e \in Events, Record(e) PROVE Unrecorded'
  BY <1>2 DEF Record
<1>3. ASSUME NEW e \in Events, DayPasses(e) PROVE Unrecorded'
  BY <1>3 DEF DayPasses
<1>4. CASE KeysExpire
  BY <1>4 DEF KeysExpire
<1>5. CASE Crash
  BY <1>5 DEF Crash
<1> QED
  BY <1>1, <1>2, <1>3, <1>4, <1>5 DEF Next

\* A decrement costs a point, or is missed, and takes at most the event it is
\* for out of the count.
LEMMA DecrementBound ==
  ASSUME RankInv, TypeOK', NEW c \in Callers, Decrement(c)
  PROVE  NeverOverstated'
<1> USE RankAssumption DEF RankInv
<1>1. PICK e \in todo[c] :
        /\ current' = [current EXCEPT ![c] = {e}]
        /\ \/ rank' = [rank EXCEPT ![AuthorOf[e]] = @ - 1] /\ UNCHANGED missed
           \/ missed' = [missed EXCEPT ![AuthorOf[e]] = @ + 1] /\ UNCHANGED rank
  BY DEF Decrement
<1>2. e \in Events /\ AuthorOf[e] \in Authors /\ live' = live /\ current[c] = {}
  BY <1>1 DEF TypeOK, Decrement
<1>3. TakenBack' = TakenBack \cup {e}
  BY <1>1, <1>2 DEF TakenBack, TypeOK
<1> SUFFICES ASSUME NEW u \in Authors
             PROVE  rank'[u] <= Cardinality(Counted(u)') + missed'[u]
  BY DEF NeverOverstated
<1>4. /\ rank[u] <= Cardinality(Counted(u)) + missed[u]
      /\ IsFiniteSet(Counted(u)) /\ Cardinality(Counted(u)) \in Nat
      /\ rank[u] \in Int /\ missed[u] \in Nat
  BY CountedFinite DEF NeverOverstated, TypeOK
<1>5. CASE u = AuthorOf[e]
  <2>1. Counted(u)' = Counted(u) \ {e}
    BY <1>2, <1>3 DEF Counted, EventsOf
  <2>2. /\ Cardinality(Counted(u) \ {e}) \in Nat
        /\ Cardinality(Counted(u)) <= Cardinality(Counted(u) \ {e}) + 1
    <3>1. CASE e \in Counted(u)
      <4>1. Cardinality(Counted(u) \ {e}) = Cardinality(Counted(u)) - 1
        BY <1>4, <3>1, FS_RemoveElement
      <4>2. IsFiniteSet(Counted(u) \ {e})
        BY <1>4, FS_RemoveElement
      <4>3. Cardinality(Counted(u) \ {e}) \in Nat
        BY <4>2, FS_CardinalityType
      <4> QED
        BY <1>4, <4>1, <4>3
    <3>2. CASE e \notin Counted(u)
      <4>1. Counted(u) \ {e} = Counted(u)
        BY <3>2
      <4>2. Cardinality(Counted(u) \ {e}) = Cardinality(Counted(u))
        BY <4>1
      <4> HIDE DEF Counted
      <4> QED
        BY <1>4, <4>2
    <3> QED
      BY <3>1, <3>2
  <2>3. rank'[u] - missed'[u] = rank[u] - missed[u] - 1
    BY <1>1, <1>2, <1>4, <1>5 DEF TypeOK
  <2>4. rank'[u] \in Int /\ missed'[u] \in Nat
    BY DEF TypeOK
  <2> QED
    BY <1>4, <2>1, <2>2, <2>3, <2>4
<1>6. CASE u # AuthorOf[e]
  <2>1. Counted(u)' = Counted(u)
    BY <1>2, <1>3, <1>6 DEF Counted, EventsOf
  <2>2. rank'[u] = rank[u] /\ missed'[u] = missed[u]
    BY <1>1, <1>2, <1>6 DEF TypeOK
  <2> QED
    BY <1>4, <2>1, <2>2
<1> QED
  BY <1>5, <1>6

\* A recorded event brings its author one point and one counted event.
LEMMA RecordBound ==
  ASSUME RankInv, TypeOK', NEW e \in Events, Record(e)
  PROVE  NeverOverstated'
<1> USE RankAssumption DEF RankInv
<1>1. CASE UNCHANGED <<rank, live>>
  <2>1. \A u \in Authors : Counted(u)' = Counted(u)
    BY <1>1 DEF Record, Counted, TakenBack, EventsOf
  <2> QED
    BY <1>1, <2>1 DEF Record, NeverOverstated
<1>2. CASE rank' = [rank EXCEPT ![AuthorOf[e]] = @ + 1] /\ live' = live \cup {e}
  <2>1. e \notin live /\ e \notin TakenBack /\ TakenBack' = TakenBack /\ missed' = missed
    BY DEF Record, Unrecorded, TakenBack
  <2> SUFFICES ASSUME NEW u \in Authors
               PROVE  rank'[u] <= Cardinality(Counted(u)') + missed'[u]
    BY DEF NeverOverstated
  <2>2. /\ rank[u] <= Cardinality(Counted(u)) + missed[u]
        /\ IsFiniteSet(Counted(u)) /\ Cardinality(Counted(u)) \in Nat
        /\ rank[u] \in Int /\ missed[u] \in Nat
    BY CountedFinite DEF NeverOverstated, TypeOK
  <2>3. CASE u = AuthorOf[e]
    <3>1. Counted(u)' = Counted(u) \cup {e} /\ e \notin Counted(u)
      BY <1>2, <2>1, <2>3 DEF Counted, EventsOf
    <3>2. Cardinality(Counted(u) \cup {e}) = Cardinality(Counted(u)) + 1
      BY <2>2, <3>1, FS_AddElement
    <3>3. rank'[u] = rank[u] + 1
      BY <1>2, <2>3 DEF TypeOK
    <3> QED
      BY <2>1, <2>2, <3>1, <3>2, <3>3
  <2>4. CASE u # AuthorOf[e]
    <3>1. Counted(u)' = Counted(u)
      BY <1>2, <2>1, <2>4 DEF Counted, EventsOf
    <3>2. rank'[u] = rank[u]
      BY <1>2, <2>4 DEF TypeOK
    <3> QED
      BY <2>1, <2>2, <3>1, <3>2
  <2> QED
    BY <2>3, <2>4
<1> QED
  BY <1>1, <1>2 DEF Record

\* No step breaks the bound.
LEMMA NextNeverOverstated ==
  ASSUME RankInv, TypeOK', Next
  PROVE  NeverOverstated'
<1> USE DEF RankInv
<1>1. ASSUME NEW c \in Callers, Call(c) \/ Fetch(c)
      PROVE  NeverOverstated'
  <2>1. UNCHANGED <<rank, live, current, missed>>
    BY <1>1 DEF Call, Fetch, redis
  <2> QED
    BY <2>1, BoundKept DEF Counted, TakenBack, TypeOK
<1>2. ASSUME NEW c \in Callers, Decrement(c) PROVE NeverOverstated'
  BY <1>2, DecrementBound
<1>3. ASSUME NEW c \in Callers, Remove(c) PROVE NeverOverstated'
  <2>1. \A u \in Authors : Counted(u) \subseteq Counted(u)'
    BY <1>3 DEF Remove, Counted, TakenBack, EventsOf, TypeOK
  <2>2. UNCHANGED <<rank, missed>>
    BY <1>3 DEF Remove
  <2> QED
    BY <2>1, <2>2, BoundKept DEF TypeOK
<1>4. ASSUME NEW c \in Callers, Sweep(c) PROVE NeverOverstated'
  <2>1. UNCHANGED <<live, current, missed>>
    BY <1>4 DEF Sweep
  <2>2. \A u \in Authors : Counted(u)' = Counted(u)
    BY <2>1 DEF Counted, TakenBack
  <2> SUFFICES ASSUME NEW u \in Authors
               PROVE  rank'[u] <= Cardinality(Counted(u)') + missed'[u]
    BY DEF NeverOverstated
  <2>3. rank'[u] = rank[u] \/ rank'[u] = 0
    BY <1>4 DEF Sweep, TypeOK
  <2>4. /\ rank[u] <= Cardinality(Counted(u)) + missed[u]
        /\ Cardinality(Counted(u)) \in Nat /\ missed[u] \in Nat
    BY CountedFinite DEF NeverOverstated, TypeOK
  <2> QED
    BY <2>1, <2>2, <2>3, <2>4
<1>5. ASSUME NEW e \in Events, Record(e) PROVE NeverOverstated'
  BY <1>5, RecordBound
<1>6. ASSUME NEW e \in Events, DayPasses(e) PROVE NeverOverstated'
  BY <1>6, BoundKept DEF DayPasses, Counted, TakenBack, call, TypeOK
<1>7. CASE KeysExpire
  <2> SUFFICES ASSUME NEW u \in Authors
               PROVE  rank'[u] <= Cardinality(Counted(u)') + missed'[u]
    BY DEF NeverOverstated
  <2>1. Counted(u)' = {}
    BY <1>7 DEF KeysExpire, Counted
  <2>2. rank'[u] = 0 /\ missed'[u] \in Nat
    BY <1>7 DEF KeysExpire, TypeOK
  <2> QED
    BY <2>1, <2>2, FS_EmptySet
<1>8. CASE Crash
  <2>1. \A u \in Authors : Counted(u) \subseteq Counted(u)'
    BY <1>8 DEF Crash, redis, Counted, TakenBack, TypeOK
  <2>2. UNCHANGED <<rank, missed>>
    BY <1>8 DEF Crash, redis
  <2> QED
    BY <2>1, <2>2, BoundKept DEF TypeOK
<1> QED
  BY <1>1, <1>2, <1>3, <1>4, <1>5, <1>6, <1>7, <1>8 DEF Next

\* The three together are inductive.
LEMMA NextRankInv == RankInv /\ [Next]_vars => RankInv'
<1> SUFFICES ASSUME RankInv, [Next]_vars PROVE RankInv'
  OBVIOUS
<1>1. CASE Next
  BY <1>1, NextTypeOK, NextUnrecorded, NextNeverOverstated DEF RankInv
<1>2. CASE UNCHANGED vars
  BY <1>2 DEF vars, redis, call, RankInv, TypeOK, Unrecorded, NeverOverstated, Counted,
     TakenBack
<1> QED
  BY <1>1, <1>2

\* In every reachable state an author has at most as many points as events of
\* the last day, plus the decrements Redis refused.
THEOREM RankNeverOverstated == Spec => []NeverOverstated
<1>1. RankInv => NeverOverstated
  BY DEF RankInv
<1> QED
  BY <1>1, InitRankInv, NextRankInv, PTL DEF Spec

\* The whole inductive invariant in every behaviour: no author is overstated, an
\* event its judge has not recorded is in no Redis key and in no call, every
\* value is well typed.
THEOREM RankInvariant == Spec => []RankInv
BY InitRankInv, NextRankInv, PTL DEF Spec

----------------------------------------------------------------------------
(* One loop after the other, and no failure                                 *)

\* Nothing failed and no two loops overlapped.
Calm == ~overlapped /\ trouble = 0

\* Then one caller at most is inside the loop, the events it has ahead and the
\* one it is taking back are due, and outside the loop nobody has any.
Alone ==
  Calm =>
    /\ \A c, d \in Callers : pc[c] \in Inside /\ pc[d] \in Inside => c = d
    /\ \A c \in Callers : /\ todo[c] \cup current[c] \subseteq due
                          /\ todo[c] \cap current[c] = {}
                          /\ pc[c] \notin {"decrement", "remove"} => todo[c] = {}

\* The inductive invariant that ExactInSequence rests on.
SequenceInv == RankInv /\ Alone /\ ExactInSequence

\* What failed and what overlapped is remembered.
LEMMA CalmBefore ==
  ASSUME TypeOK, Next, Calm'
  PROVE  Calm /\ trouble' = trouble
<1> USE DEF TypeOK, Calm, Trouble
<1>1. trouble \in Nat /\ trouble' = 0
  OBVIOUS
<1>2. trouble' = trouble \/ trouble' = trouble + 1
  BY DEF Next, Call, Fetch, Decrement, Remove, Sweep, Record, DayPasses, KeysExpire, Crash
<1>3. overlapped => overlapped'
  BY DEF Next, Call, Fetch, Decrement, Remove, Sweep, Record, DayPasses, KeysExpire, Crash
<1> QED
  BY <1>1, <1>2, <1>3

\* Whoever enters the loop finds nobody there.
LEMMA NextAlone ==
  ASSUME SequenceInv, Next
  PROVE  Alone'
<1> SUFFICES ASSUME Calm'
             PROVE  /\ \A c, d \in Callers : pc'[c] \in Inside /\ pc'[d] \in Inside => c = d
                    /\ \A c \in Callers :
                         /\ todo'[c] \cup current'[c] \subseteq due'
                         /\ todo'[c] \cap current'[c] = {}
                         /\ pc'[c] \notin {"decrement", "remove"} => todo'[c] = {}
  BY DEF Alone
<1>a. Calm /\ trouble' = trouble /\ trouble \in Nat /\ trouble' # trouble + 1
  BY CalmBefore DEF SequenceInv, RankInv, TypeOK
<1>b. /\ \A c, d \in Callers : pc[c] \in Inside /\ pc[d] \in Inside => c = d
      /\ \A c \in Callers : /\ todo[c] \cup current[c] \subseteq due
                            /\ todo[c] \cap current[c] = {}
                            /\ pc[c] \notin {"decrement", "remove"} => todo[c] = {}
                            /\ pc[c] = "remove" <=> current[c] # {}
  BY <1>a DEF SequenceInv, Alone, RankInv, TypeOK
<1>c. /\ pc \in [Callers -> Places] /\ todo \in [Callers -> SUBSET Events]
      /\ current \in [Callers -> SUBSET Events]
  BY DEF SequenceInv, RankInv, TypeOK
<1> USE DEF Goto, Finished, Inside, Trouble, redis, call
<1>1. ASSUME NEW c \in Callers, Call(c)
      PROVE  /\ pc' = [pc EXCEPT ![c] = "fetch"] /\ pc[c] = "idle"
             /\ UNCHANGED <<due, todo, current>>
  BY <1>1 DEF Call
<1>2. ASSUME NEW c \in Callers, Fetch(c)
      PROVE  /\ pc[c] = "fetch" /\ UNCHANGED <<due, current>>
             /\ \/ /\ pc' = [pc EXCEPT ![c] = IF c \in Events THEN "record" ELSE "idle"]
                   /\ todo' = todo
                \/ /\ \E batch \in SUBSET due : todo' = [todo EXCEPT ![c] = batch]
                   /\ pc' = [pc EXCEPT ![c] = "decrement"]
                   /\ \A d \in Callers : pc[d] \notin Inside
  BY <1>a, <1>2 DEF Fetch, Calm
<1>3. ASSUME NEW c \in Callers, Decrement(c)
      PROVE  /\ pc[c] = "decrement" /\ due' = due /\ pc' = [pc EXCEPT ![c] = "remove"]
             /\ \E e \in todo[c] : /\ current' = [current EXCEPT ![c] = {e}]
                                   /\ todo' = [todo EXCEPT ![c] = @ \ {e}]
  BY <1>3 DEF Decrement
<1>4. ASSUME NEW c \in Callers, Remove(c)
      PROVE  /\ pc[c] = "remove" /\ due' = due \ current[c] /\ todo' = todo
             /\ current' = [current EXCEPT ![c] = {}]
             /\ pc' = [pc EXCEPT ![c] = IF todo[c] = {} THEN "sweep" ELSE "decrement"]
  BY <1>a, <1>4 DEF Remove
<1>5. ASSUME NEW c \in Callers, Sweep(c)
      PROVE  /\ pc[c] = "sweep" /\ pc' = [pc EXCEPT ![c] = "fetch"]
             /\ UNCHANGED <<due, todo, current>>
  BY <1>5 DEF Sweep
<1>6. ASSUME NEW e \in Events, Record(e)
      PROVE  /\ pc[e] = "record" /\ pc' = [pc EXCEPT ![e] = "done"]
             /\ UNCHANGED <<due, todo, current>>
  BY <1>6 DEF Record
<1>7. ASSUME NEW e \in Events, DayPasses(e)
      PROVE  due \subseteq due' /\ UNCHANGED <<pc, todo, current>>
  BY <1>7 DEF DayPasses
<1>8. CASE KeysExpire
  BY <1>b, <1>8 DEF KeysExpire
<1>9. ~Crash
  BY <1>a DEF Crash
<1>10. CASE \E c \in Callers : Call(c) \/ Sweep(c)
  BY <1>1, <1>5, <1>b, <1>c, <1>10
<1>11. CASE \E c \in Callers : Fetch(c)
  BY <1>2, <1>b, <1>c, <1>11
<1>12. CASE \E c \in Callers : Decrement(c)
  BY <1>3, <1>b, <1>c, <1>12
<1>13. CASE \E c \in Callers : Remove(c)
  BY <1>4, <1>b, <1>c, <1>13
<1>14. CASE \E e \in Events : Record(e) \/ DayPasses(e)
  BY <1>6, <1>7, <1>b, <1>c, <1>14 DEF Callers
<1> QED
  BY <1>8, <1>9, <1>10, <1>11, <1>12, <1>13, <1>14 DEF Next

\* Counted events and points stay as they are.
LEMMA ExactKept ==
  ASSUME ExactInSequence, Calm, rank' = rank, \A u \in Authors : Counted(u)' = Counted(u)
  PROVE  ExactInSequence'
BY DEF ExactInSequence, Calm

\* The event a decrement is for was counted, and is not any more.
LEMMA DecrementExact ==
  ASSUME SequenceInv, Calm, NEW c \in Callers, Decrement(c), trouble' = trouble
  PROVE  ExactInSequence'
<1> USE RankAssumption
<1>1. TypeOK /\ Alone /\ ExactInSequence /\ trouble \in Nat
  BY DEF SequenceInv, RankInv, TypeOK
<1>2. PICK e \in todo[c] :
        /\ current' = [current EXCEPT ![c] = {e}]
        /\ rank' = [rank EXCEPT ![AuthorOf[e]] = @ - 1]
  <2>1. ~Trouble
    BY <1>1 DEF Trouble
  <2> QED
    BY <2>1 DEF Decrement
<1>3. e \in live /\ e \in Events /\ live' = live /\ AuthorOf[e] \in Authors
  BY <1>1 DEF Alone, TypeOK, Decrement
<1>4. current[c] = {} /\ \A d \in Callers : current[d] = {}
  BY <1>1 DEF Alone, TypeOK, Decrement, Inside
<1>5. TakenBack = {} /\ TakenBack' = {e}
  BY <1>1, <1>2, <1>4 DEF TakenBack, TypeOK
<1> SUFFICES ASSUME NEW u \in Authors PROVE rank'[u] = Cardinality(Counted(u)')
  BY DEF ExactInSequence
<1>6. /\ rank[u] = Cardinality(Counted(u))
      /\ IsFiniteSet(Counted(u)) /\ Cardinality(Counted(u)) \in Nat
  BY <1>1, CountedFinite DEF ExactInSequence, Calm
<1>7. CASE u = AuthorOf[e]
  <2>1. Counted(u)' = Counted(u) \ {e} /\ e \in Counted(u)
    BY <1>3, <1>5, <1>7 DEF Counted, EventsOf
  <2>2. Cardinality(Counted(u) \ {e}) = Cardinality(Counted(u)) - 1
    BY <1>6, <2>1, FS_RemoveElement
  <2>3. rank'[u] = rank[u] - 1
    BY <1>1, <1>2, <1>7 DEF TypeOK
  <2> QED
    BY <1>6, <2>1, <2>2, <2>3
<1>8. CASE u # AuthorOf[e]
  <2>1. Counted(u)' = Counted(u)
    BY <1>3, <1>5, <1>8 DEF Counted, EventsOf
  <2>2. rank'[u] = rank[u]
    BY <1>1, <1>2, <1>8 DEF TypeOK
  <2> QED
    BY <1>6, <2>1, <2>2
<1> QED
  BY <1>7, <1>8

\* A recorded event is counted and brings a point.
LEMMA RecordExact ==
  ASSUME SequenceInv, Calm, NEW e \in Events, Record(e), trouble' = trouble
  PROVE  ExactInSequence'
<1> USE RankAssumption
<1>1. TypeOK /\ Unrecorded /\ ExactInSequence /\ trouble \in Nat
  BY DEF SequenceInv, RankInv, TypeOK
<1>2. rank' = [rank EXCEPT ![AuthorOf[e]] = @ + 1] /\ live' = live \cup {e} /\ current' = current
  BY <1>1 DEF Record, Trouble
<1>3. e \notin live /\ e \notin TakenBack /\ TakenBack' = TakenBack
  BY <1>1, <1>2 DEF Record, Unrecorded, TakenBack
<1> SUFFICES ASSUME NEW u \in Authors PROVE rank'[u] = Cardinality(Counted(u)')
  BY DEF ExactInSequence
<1>4. /\ rank[u] = Cardinality(Counted(u))
      /\ IsFiniteSet(Counted(u)) /\ Cardinality(Counted(u)) \in Nat
  BY <1>1, CountedFinite DEF ExactInSequence, Calm
<1>5. CASE u = AuthorOf[e]
  <2>1. Counted(u)' = Counted(u) \cup {e} /\ e \notin Counted(u)
    BY <1>2, <1>3, <1>5 DEF Counted, EventsOf
  <2>2. Cardinality(Counted(u) \cup {e}) = Cardinality(Counted(u)) + 1
    BY <1>4, <2>1, FS_AddElement
  <2>3. rank'[u] = rank[u] + 1
    BY <1>1, <1>2, <1>5 DEF TypeOK
  <2> QED
    BY <1>4, <2>1, <2>2, <2>3
<1>6. CASE u # AuthorOf[e]
  <2>1. Counted(u)' = Counted(u)
    BY <1>2, <1>3, <1>6 DEF Counted, EventsOf
  <2>2. rank'[u] = rank[u]
    BY <1>1, <1>2, <1>6 DEF TypeOK
  <2> QED
    BY <1>4, <2>1, <2>2
<1> QED
  BY <1>5, <1>6

\* No step makes the ranking wrong.
LEMMA NextExact ==
  ASSUME SequenceInv, Next
  PROVE  ExactInSequence'
<1>1. CASE ~Calm'
  BY <1>1 DEF ExactInSequence, Calm
<1>2. CASE Calm'
  <2>1. Calm /\ trouble' = trouble /\ trouble \in Nat
    BY <1>2, CalmBefore DEF SequenceInv, RankInv, TypeOK
  <2>2. TypeOK /\ Alone /\ ExactInSequence
    BY DEF SequenceInv, RankInv
  <2>3. ASSUME NEW c \in Callers, Call(c) \/ Fetch(c) PROVE ExactInSequence'
    <3>1. UNCHANGED <<rank, live, current>>
      BY <2>3 DEF Call, Fetch, redis
    <3> QED
      BY <2>1, <2>2, <3>1, ExactKept DEF Counted, TakenBack
  <2>4. ASSUME NEW c \in Callers, Remove(c) PROVE ExactInSequence'
    <3>1. live' = live \ current[c] /\ current' = [current EXCEPT ![c] = {}] /\ rank' = rank
      BY <2>1, <2>4 DEF Remove, Trouble
    <3>2. TakenBack = current[c] /\ TakenBack' = {}
      BY <2>1, <2>2, <2>4, <3>1 DEF Remove, Alone, TypeOK, TakenBack, Inside
    <3>3. \A u \in Authors : Counted(u)' = Counted(u)
      BY <3>1, <3>2 DEF Counted
    <3> QED
      BY <2>1, <2>2, <3>1, <3>3, ExactKept
  <2>5. ASSUME NEW c \in Callers, Sweep(c) PROVE ExactInSequence'
    <3>1. \A u \in Authors : Counted(u)' = Counted(u)
      BY <2>5 DEF Sweep, Counted, TakenBack
    <3>2. ASSUME NEW u \in Authors PROVE rank'[u] = Cardinality(Counted(u))
      <4>1. rank[u] = Cardinality(Counted(u)) /\ Cardinality(Counted(u)) \in Nat
        BY <2>1, <2>2, CountedFinite DEF ExactInSequence, Calm
      <4>2. rank[u] \in Nat /\ ~(rank[u] < 0)
        BY <4>1
      <4>3. rank'[u] = rank[u]
        BY <2>1, <2>5, <4>2 DEF Sweep
      <4> QED
        BY <4>1, <4>3
    <3> QED
      BY <3>1, <3>2 DEF ExactInSequence
  <2>6. CASE KeysExpire
    BY <2>6, FS_EmptySet DEF KeysExpire, ExactInSequence, Counted
  <2>7. ASSUME NEW e \in Events, DayPasses(e) PROVE ExactInSequence'
    BY <2>1, <2>2, <2>7, ExactKept DEF DayPasses, call, Counted, TakenBack
  <2>8. ~Crash
    BY <2>1 DEF Crash, Trouble
  <2> QED
    BY <2>1, <2>3, <2>4, <2>5, <2>6, <2>7, <2>8, DecrementExact, RecordExact DEF Next
<1> QED
  BY <1>1, <1>2

\* Judges and requests that take turns, with every command answered, keep the
\* ranking exact between any two commands: each author has a point for each
\* event of the last day, but for the one that is being taken back.
THEOREM RankExactInSequence == Spec => []ExactInSequence
<1>1. Init => SequenceInv
  <2> SUFFICES ASSUME Init PROVE SequenceInv
    OBVIOUS
  <2>1. Alone
    BY DEF Init, Alone, Inside
  <2>2. \A u \in Authors : Counted(u) = {} /\ rank[u] = 0
    BY DEF Init, Counted
  <2>3. ExactInSequence
    BY <2>2, FS_EmptySet DEF ExactInSequence
  <2> QED
    BY <2>1, <2>3, InitRankInv DEF SequenceInv
<1>2. SequenceInv /\ [Next]_vars => SequenceInv'
  <2> SUFFICES ASSUME SequenceInv, [Next]_vars PROVE SequenceInv'
    OBVIOUS
  <2>1. CASE Next
    BY <2>1, NextRankInv, NextAlone, NextExact DEF SequenceInv
  <2>2. CASE UNCHANGED vars
    <3>1. RankInv'
      BY <2>2, NextRankInv DEF SequenceInv
    <3>2. Alone' /\ ExactInSequence'
      BY <2>2 DEF vars, redis, call, SequenceInv, Alone, Calm, ExactInSequence, Counted, TakenBack
    <3> QED
      BY <3>1, <3>2 DEF SequenceInv
  <2> QED
    BY <2>1, <2>2
<1>3. SequenceInv => ExactInSequence
  BY DEF SequenceInv
<1> QED
  BY <1>1, <1>2, <1>3, PTL DEF Spec
=============================================================================
