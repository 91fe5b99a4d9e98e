-------------------------- MODULE SubmitIntake_proofs --------------------------
(****************************************************************************)
(* Proofs about taking submissions in, for every set of requests, authors   *)
(* and questions and any window: a submission is counted once or its count  *)
(* is known to be lost, and an author who waits for each answer is kept to  *)
(* one submission in a window. Two facts relate the handlers to the table:  *)
(* a row exists exactly once its handler has passed the INSERT, and what    *)
(* the one request of such an author has read still describes the author's  *)
(* rows when it inserts.                                                    *)
(****************************************************************************)
EXTENDS SubmitIntake, FiniteSetTheorems, SequenceTheorems, WellFoundedInduction, TLAPS

\* A row is there from its INSERT on, whatever happens to the handler.
Taken == \A r \in Requests : r \in RangeOf(rows) <=> pc[r] \in {"count", "done"}

\* The author's one request at work: what it has read bounds the stamps of all
\* the author's rows, and the stamp it inserts comes a window after them.
InTurn(u) ==
  \A r \in InProgress(u) :
    /\ \A s \in InProgress(u) : s = r
    /\ pc[r] = "check" => \A i \in RowsOf(u) : createTime[rows[i]] <= latest[r]
    /\ pc[r] = "insert" => \A i \in RowsOf(u) : createTime[r] - createTime[rows[i]] >= Window

\* People who wait for the answer to one submission before they send the next,
\* and whose latest row was read each time.
Sequential == Authors \ (Agents \cup overlapped \cup unread)

\* The inductive invariant.
IntakeInv ==
  /\ TypeOK
  /\ Taken
  /\ SubmitNumCounted
  /\ \A u \in Sequential : Apart(u) /\ InTurn(u)

----------------------------------------------------------------------------
(* Sequences of rows, and the counts of a finite set                        *)

\* A set of positions that is not empty has a last one.
LEMMA LastIsLast ==
  ASSUME NEW n \in Nat, NEW S \in SUBSET (1..n), S # {}
  PROVE  Last(S) \in S /\ \A j \in S : j <= Last(S)
<1> DEFINE T == {n - i : i \in S}
<1>1. T \subseteq Nat /\ T # {}
  <2>1. \A i \in S : n - i \in Nat
    OBVIOUS
  <2> QED BY <2>1
<1>2. PICK m \in T : \A k \in T : <<k, m>> \notin OpToRel(<, Nat)
  <2> HIDE DEF T
  <2> QED BY <1>1, WFMin, NatLessThanWellFounded
<1>3. \A k \in T : ~ (k < m)
  BY <1>1, <1>2 DEF OpToRel
<1>4. PICK i \in S : m = n - i
  BY <1>2
<1>5. \A j \in S : j <= i
  BY <1>3, <1>4
<1> QED BY <1>5 DEF Last

\* The rows after one more is appended.
LEMMA RowsAppended ==
  ASSUME rows \in Seq(Requests), NEW r \in Requests, rows' = Append(rows, r)
  PROVE  /\ rows' \in Seq(Requests)
         /\ DOMAIN rows = 1..Len(rows) /\ Len(rows) \in Nat
         /\ DOMAIN rows' = 1..(Len(rows) + 1)
         /\ rows'[Len(rows) + 1] = r
         /\ \A i \in DOMAIN rows : rows'[i] = rows[i]
         /\ RangeOf(rows') = RangeOf(rows) \cup {r}
<1>1. /\ rows' \in Seq(Requests) /\ Len(rows') = Len(rows) + 1
      /\ \A i \in 1..Len(rows) : rows'[i] = rows[i]
      /\ rows'[Len(rows) + 1] = r
  BY AppendProperties
<1>2. DOMAIN rows = 1..Len(rows) /\ Len(rows) \in Nat /\ DOMAIN rows' = 1..(Len(rows) + 1)
  BY <1>1, LenProperties
<1>3. RangeOf(rows') \subseteq RangeOf(rows) \cup {r}
  BY <1>1, <1>2 DEF RangeOf
<1>4. RangeOf(rows) \cup {r} \subseteq RangeOf(rows')
  BY <1>1, <1>2 DEF RangeOf
<1> QED BY <1>1, <1>2, <1>3, <1>4

\* The rows of a question and those not yet counted are finitely many.
LEMMA CountsAreNumbers ==
  ASSUME TypeOK, NEW q \in Questions
  PROVE  /\ IsFiniteSet(Uncounted(q)) /\ Cardinality(Uncounted(q)) \in Nat
         /\ IsFiniteSet({r \in RangeOf(rows) : QuestionOf[r] = q})
         /\ Cardinality({r \in RangeOf(rows) : QuestionOf[r] = q}) \in Nat
<1>1. Uncounted(q) \in SUBSET Requests
  BY DEF Uncounted
<1>2. {r \in RangeOf(rows) : QuestionOf[r] = q} \in SUBSET Requests
  BY LenProperties DEF TypeOK, RangeOf
<1> QED BY <1>1, <1>2, IntakeAssumption, FS_Subset, FS_CardinalityType

\* A step that moves no request into or out of "count" and writes neither a row
\* nor a counter keeps the account.
LEMMA AccountUntouched ==
  ASSUME SubmitNumCounted, UNCHANGED <<rows, submitNum, lost>>,
         \A r \in Requests : pc'[r] = "count" <=> pc[r] = "count"
  PROVE  SubmitNumCounted'
<1>1. \A q \in Questions : Uncounted(q)' = Uncounted(q)
  BY DEF Uncounted
<1> QED BY <1>1 DEF SubmitNumCounted, RangeOf

\* A step that leaves u's requests, the rows and their stamps alone keeps what is
\* said of u.
LEMMA OthersTurn ==
  ASSUME IntakeInv, NEW u \in Sequential, UNCHANGED rows,
         \A i \in DOMAIN rows : createTime'[rows[i]] = createTime[rows[i]],
         \A s \in Requests : AuthorOf[s] = u =>
           /\ createTime'[s] = createTime[s] /\ latest'[s] = latest[s]
           /\ pc'[s] = pc[s]
  PROVE  Apart(u)' /\ InTurn(u)'
<1>1. RowsOf(u)' = RowsOf(u) /\ InProgress(u)' = InProgress(u)
  BY DEF RowsOf, InProgress
<1>2. \A i \in RowsOf(u) : i \in DOMAIN rows
  BY DEF RowsOf
<1>3. \A s \in InProgress(u) : s \in Requests /\ AuthorOf[s] = u
  BY DEF InProgress
<1> QED BY <1>1, <1>2, <1>3 DEF IntakeInv, Apart, InTurn

\* A row's stamp is not the stamp of a request that has yet to insert.
LEMMA RowsAreTaken ==
  ASSUME TypeOK, Taken, NEW i \in DOMAIN rows
  PROVE  rows[i] \in Requests /\ pc[rows[i]] \in {"count", "done"}
BY LenProperties DEF TypeOK, Taken, RangeOf

----------------------------------------------------------------------------
(* One lemma per action                                                     *)

\* A request arrives: the first of its author, or its author now overlaps.
LEMMA BeginKeeps ==
  ASSUME IntakeInv, NEW r \in Requests, Begin(r)
  PROVE  IntakeInv'
<1>1. TypeOK'
  <2>1. pc' \in [Requests -> Places]
    BY DEF IntakeInv, TypeOK, Begin, Goto, Places
  <2>2. createTime' \in [Requests -> Time] /\ \A q \in Requests : createTime'[q] <= now
    BY DEF IntakeInv, TypeOK, Begin, Time
  <2>3. overlapped' \subseteq Authors
    BY DEF IntakeInv, TypeOK, Begin, Authors
  <2> QED BY <2>1, <2>2, <2>3 DEF IntakeInv, TypeOK, Begin
<1>2. Taken'
  BY DEF IntakeInv, Taken, TypeOK, Begin, Goto
<1>3. SubmitNumCounted'
  BY AccountUntouched DEF IntakeInv, TypeOK, Begin, Goto
<1>4. ASSUME NEW u \in Sequential' PROVE Apart(u)' /\ InTurn(u)'
  <2>1. u \in Sequential
    BY <1>4 DEF Sequential, Begin
  <2>2. \A i \in DOMAIN rows : createTime'[rows[i]] = createTime[rows[i]]
    BY RowsAreTaken DEF IntakeInv, TypeOK, Begin
  <2>3. CASE AuthorOf[r] # u
    BY <2>1, <2>2, <2>3, OthersTurn DEF IntakeInv, TypeOK, Begin, Goto
  <2>4. CASE AuthorOf[r] = u
    <3>1. InProgress(u) = {} /\ u \notin Agents
      BY <1>4, <2>4 DEF Sequential, Begin
    <3>2. InProgress(u)' \subseteq {r} /\ pc'[r] = "read" /\ createTime' = createTime
      BY <2>4, <3>1 DEF IntakeInv, TypeOK, InProgress, Begin, Goto
    <3>3. rows' = rows
      BY DEF Begin
    <3> QED BY <2>1, <3>2, <3>3 DEF IntakeInv, Apart, InTurn, RowsOf
  <2> QED BY <2>3, <2>4
<1> QED BY <1>1, <1>2, <1>3, <1>4 DEF IntakeInv

\* The latest row of the author is read, whose stamp bounds those of all the
\* others.
LEMMA ReadLatestKeeps ==
  ASSUME IntakeInv, NEW r \in Requests, ReadLatest(r)
  PROVE  IntakeInv'
<1>1. TypeOK'
  <2>1. pc' \in [Requests -> Places]
    BY DEF IntakeInv, TypeOK, ReadLatest, Goto, Places
  <2>2. latest' \in [Requests -> Time \cup {NoStamp}]
    <3>1. ASSUME RowsOf(AuthorOf[r]) # {}
          PROVE  createTime[rows[Last(RowsOf(AuthorOf[r]))]] \in Time
      <4>1. DOMAIN rows = 1..Len(rows) /\ Len(rows) \in Nat
        BY LenProperties DEF IntakeInv, TypeOK
      <4>2. Last(RowsOf(AuthorOf[r])) \in DOMAIN rows
        BY <3>1, <4>1, LastIsLast DEF RowsOf
      <4> QED BY <4>2, RowsAreTaken DEF IntakeInv, TypeOK
    <3> QED BY <3>1 DEF IntakeInv, TypeOK, ReadLatest
  <2>3. unread' \subseteq Authors
    BY DEF IntakeInv, TypeOK, ReadLatest, Authors
  <2>4. trouble' \in 0..MaxTrouble
    BY IntakeAssumption DEF IntakeInv, TypeOK, ReadLatest, Trouble
  <2> QED BY <2>1, <2>2, <2>3, <2>4 DEF IntakeInv, TypeOK, ReadLatest, intake
<1>2. Taken'
  BY DEF IntakeInv, Taken, TypeOK, ReadLatest, Goto, intake
<1>3. SubmitNumCounted'
  BY AccountUntouched DEF IntakeInv, TypeOK, ReadLatest, Goto, intake
<1>4. ASSUME NEW u \in Sequential' PROVE Apart(u)' /\ InTurn(u)'
  <2>1. u \in Sequential
    BY <1>4 DEF Sequential, ReadLatest
  <2>2. rows' = rows /\ createTime' = createTime
    BY DEF ReadLatest, intake
  <2>3. CASE AuthorOf[r] # u
    BY <2>1, <2>2, <2>3, OthersTurn DEF IntakeInv, TypeOK, ReadLatest, Goto
  <2>4. CASE AuthorOf[r] = u
    <3>1. \A i \in RowsOf(u) : createTime[rows[i]] <= latest'[r]
      <4>1. latest'[r] = IF RowsOf(u) = {} THEN NoStamp ELSE createTime[rows[Last(RowsOf(u))]]
        BY <1>4, <2>4 DEF IntakeInv, TypeOK, Sequential, Authors, ReadLatest
      <4>2. DOMAIN rows = 1..Len(rows) /\ Len(rows) \in Nat
        BY LenProperties DEF IntakeInv, TypeOK
      <4>3. RowsOf(u) # {} => Last(RowsOf(u)) \in RowsOf(u)
                              /\ \A i \in RowsOf(u) : i <= Last(RowsOf(u))
        BY <4>2, LastIsLast DEF RowsOf
      <4>4. \A i \in RowsOf(u) : i \in Nat /\ createTime[rows[i]] \in Nat
        BY <4>2, RowsAreTaken DEF IntakeInv, TypeOK, RowsOf, Time
      <4>5. Apart(u)
        BY <2>1 DEF IntakeInv
      <4> QED BY <4>1, <4>3, <4>4, <4>5, IntakeAssumption DEF Apart
    <3>2. InProgress(u)' = InProgress(u) /\ r \in InProgress(u) /\ pc'[r] = "check"
      BY <2>4 DEF IntakeInv, TypeOK, InProgress, ReadLatest, Goto
    <3> QED BY <2>1, <2>2, <3>1, <3>2 DEF IntakeInv, Apart, InTurn, RowsOf
  <2> QED BY <2>3, <2>4
<1> QED BY <1>1, <1>2, <1>3, <1>4 DEF IntakeInv

\* The window is checked, and the row gets its stamp.
LEMMA CheckKeeps ==
  ASSUME IntakeInv, NEW r \in Requests, Check(r)
  PROVE  IntakeInv'
<1>1. TypeOK'
  <2>1. pc' \in [Requests -> Places]
    BY DEF IntakeInv, TypeOK, Check, Goto, Places
  <2>2. createTime' \in [Requests -> Time]
    BY DEF IntakeInv, TypeOK, Check
  <2>3. \A q \in Requests : createTime'[q] <= now
    <3>1. now \in Nat
      BY IntakeAssumption DEF IntakeInv, TypeOK, Time
    <3>2. \A q \in Requests : createTime'[q] \in {createTime[q], now}
      BY DEF IntakeInv, TypeOK, Check
    <3>3. now <= now /\ \A q \in Requests : createTime[q] <= now
      BY <3>1 DEF IntakeInv, TypeOK
    <3> QED BY <3>2, <3>3
  <2>4. latest' \in [Requests -> Time \cup {NoStamp}]
    BY DEF IntakeInv, TypeOK, Check
  <2> QED BY <2>1, <2>2, <2>3, <2>4 DEF IntakeInv, TypeOK, Check
<1>2. Taken'
  BY DEF IntakeInv, Taken, TypeOK, Check, Goto
<1>3. SubmitNumCounted'
  BY AccountUntouched DEF IntakeInv, TypeOK, Check, Goto
<1>4. ASSUME NEW u \in Sequential' PROVE Apart(u)' /\ InTurn(u)'
  <2>1. u \in Sequential
    BY <1>4 DEF Sequential, Check
  <2>2. \A i \in DOMAIN rows : createTime'[rows[i]] = createTime[rows[i]]
    BY RowsAreTaken DEF IntakeInv, TypeOK, Check
  <2>3. CASE AuthorOf[r] # u
    BY <2>1, <2>2, <2>3, OthersTurn DEF IntakeInv, TypeOK, Check, Goto
  <2>4. CASE AuthorOf[r] = u
    <3>1. r \in InProgress(u) /\ InProgress(u)' \subseteq InProgress(u)
      BY <2>4 DEF IntakeInv, TypeOK, InProgress, Check, Goto
    <3>2. RowsOf(u)' = RowsOf(u) /\ \A i \in RowsOf(u) : i \in DOMAIN rows /\ rows'[i] = rows[i]
      BY DEF RowsOf, Check
    <3>3. pc'[r] = "insert" => \A i \in RowsOf(u) : createTime'[r] - createTime[rows[i]] >= Window
      <4>1. \A i \in RowsOf(u) : createTime[rows[i]] <= latest[r]
        BY <2>1, <3>1 DEF IntakeInv, InTurn, Check
      <4>2. pc'[r] = "insert" => now - latest[r] >= Window /\ createTime'[r] = now
        BY DEF IntakeInv, TypeOK, Check, Goto
      <4>3. \A i \in RowsOf(u) : createTime[rows[i]] \in Int
        BY RowsAreTaken DEF IntakeInv, TypeOK, RowsOf, Time
      <4>4. now \in Int /\ latest[r] \in Int /\ Window \in Int
        BY IntakeAssumption DEF IntakeInv, TypeOK, Time, NoStamp
      <4> QED BY <4>1, <4>2, <4>3, <4>4
    <3>4. pc'[r] # "check"
      BY DEF IntakeInv, TypeOK, Check, Goto
    <3>5. \A s \in InProgress(u) : s = r
      BY <2>1, <3>1 DEF IntakeInv, InTurn
    <3>6. Apart(u)'
      BY <2>1, <2>2, <3>2 DEF IntakeInv, Apart
    <3> QED BY <2>2, <3>1, <3>2, <3>3, <3>4, <3>5, <3>6 DEF InTurn
  <2> QED BY <2>3, <2>4
<1> QED BY <1>1, <1>2, <1>3, <1>4 DEF IntakeInv

\* The row is inserted: one more row, not yet counted, a window after the
\* others.
LEMMA InsertKeeps ==
  ASSUME IntakeInv, NEW r \in Requests, Insert(r)
  PROVE  IntakeInv'
<1> USE DEF IntakeInv
<1>1. CASE rows' = Append(rows, r) /\ Goto(r, "count") /\ UNCHANGED <<createTime, trouble>>
  <2> DEFINE n == Len(rows) + 1
  <2>1. /\ rows' \in Seq(Requests)
        /\ DOMAIN rows = 1..Len(rows) /\ Len(rows) \in Nat /\ DOMAIN rows' = 1..n
        /\ rows'[n] = r /\ \A i \in DOMAIN rows : rows'[i] = rows[i]
        /\ RangeOf(rows') = RangeOf(rows) \cup {r}
    BY <1>1, RowsAppended DEF TypeOK
  <2>2. r \notin RangeOf(rows) /\ \A i \in DOMAIN rows : rows[i] # r
    BY DEF Insert, Taken, RangeOf
  <2>3. pc' = [pc EXCEPT ![r] = "count"] /\ pc[r] = "insert"
    BY <1>1 DEF Goto, Insert
  <2>4. TypeOK'
    <3>1. \A i, j \in DOMAIN rows' : rows'[i] = rows'[j] => i = j
      BY <2>1, <2>2 DEF TypeOK
    <3>2. pc' \in [Requests -> Places]
      BY <2>3 DEF TypeOK, Places
    <3> QED BY <1>1, <2>1, <3>1, <3>2 DEF TypeOK, Insert
  <2>5. Taken'
    BY <2>1, <2>3 DEF Taken, TypeOK
  <2>6. SubmitNumCounted'
    <3> SUFFICES ASSUME NEW q \in Questions
                 PROVE  submitNum[q] + lost[q] + Cardinality(Uncounted(q)')
                          = Cardinality({s \in RangeOf(rows') : QuestionOf[s] = q})
      BY DEF SubmitNumCounted, Insert, RangeOf
    <3> DEFINE C == Uncounted(q)
               R == {s \in RangeOf(rows) : QuestionOf[s] = q}
    <3>1. IsFiniteSet(C) /\ Cardinality(C) \in Nat /\ IsFiniteSet(R) /\ Cardinality(R) \in Nat
      BY CountsAreNumbers
    <3>2. submitNum[q] + lost[q] + Cardinality(C) = Cardinality(R)
      BY DEF SubmitNumCounted
    <3>3. submitNum[q] \in Nat /\ lost[q] \in Nat
      BY DEF TypeOK
    <3>4. CASE QuestionOf[r] = q
      <4>1. Uncounted(q)' = C \cup {r} /\ r \notin C
        BY <2>3, <3>4 DEF Uncounted, TypeOK
      <4>2. {s \in RangeOf(rows') : QuestionOf[s] = q} = R \cup {r} /\ r \notin R
        BY <2>1, <2>2, <3>4
      <4> HIDE DEF C, R
      <4>3. Cardinality(C \cup {r}) = Cardinality(C) + 1 /\ Cardinality(R \cup {r}) = Cardinality(R) + 1
        BY <3>1, <4>1, <4>2, FS_AddElement
      <4>4. Cardinality(Uncounted(q)') = Cardinality(C) + 1
        BY <4>1, <4>3
      <4>5. Cardinality({s \in RangeOf(rows') : QuestionOf[s] = q}) = Cardinality(R) + 1
        BY <4>2, <4>3
      <4> QED BY <3>1, <3>2, <3>3, <4>4, <4>5
    <3>5. CASE QuestionOf[r] # q
      <4>1. Uncounted(q)' = C
        BY <2>3, <3>5 DEF Uncounted, TypeOK
      <4>2. {s \in RangeOf(rows') : QuestionOf[s] = q} = R
        BY <2>1, <3>5
      <4> QED BY <3>2, <4>1, <4>2
    <3> QED BY <3>4, <3>5
  <2>7. ASSUME NEW u \in Sequential' PROVE Apart(u)' /\ InTurn(u)'
    <3>1. u \in Sequential /\ createTime' = createTime /\ latest' = latest
      BY <1>1, <2>7 DEF Sequential, Insert
    <3>2. CASE AuthorOf[r] # u
      <4>1. RowsOf(u)' = RowsOf(u) /\ \A i \in RowsOf(u) : i \in DOMAIN rows
        BY <2>1, <3>2 DEF RowsOf
      <4>2. InProgress(u)' = InProgress(u) /\ \A s \in InProgress(u) : pc'[s] = pc[s]
        BY <2>3, <3>2 DEF InProgress, TypeOK
      <4> QED BY <2>1, <3>1, <4>1, <4>2 DEF Apart, InTurn
    <3>3. CASE AuthorOf[r] = u
      <4>1. RowsOf(u)' = RowsOf(u) \cup {n}
        BY <2>1, <3>3 DEF RowsOf
      <4>2. r \in InProgress(u)
        BY <2>3, <3>3 DEF InProgress
      <4>3. \A i \in RowsOf(u) : createTime[r] - createTime[rows[i]] >= Window
        BY <2>3, <3>1, <4>2 DEF InTurn
      <4>4. \A s \in InProgress(u)' : pc'[s] = "count"
        BY <2>3, <3>1, <3>3, <4>2 DEF InTurn, InProgress, TypeOK
      <4>5. \A s, t \in InProgress(u)' : s = t
        BY <2>3, <3>1, <3>3, <4>2 DEF InTurn, InProgress, TypeOK
      <4>6. \A i \in RowsOf(u) : i \in DOMAIN rows /\ i < n
        BY <2>1 DEF RowsOf
      <4>7. \A i, j \in RowsOf(u)' : i < j =>
              createTime[rows'[j]] - createTime[rows'[i]] >= Window
        <5> SUFFICES ASSUME NEW i \in RowsOf(u)', NEW j \in RowsOf(u)', i < j
                     PROVE  createTime[rows'[j]] - createTime[rows'[i]] >= Window
          OBVIOUS
        <5>1. i \in RowsOf(u)
          BY <2>1, <4>1, <4>6 DEF RowsOf
        <5>2. CASE j = n
          BY <2>1, <4>3, <4>6, <5>1, <5>2
        <5>3. CASE j # n
          BY <2>1, <3>1, <4>1, <4>6, <5>1, <5>3 DEF Apart
        <5> QED BY <5>2, <5>3
      <4> QED BY <3>1, <4>4, <4>5, <4>7 DEF Apart, InTurn
    <3> QED BY <3>2, <3>3
  <2> QED BY <2>4, <2>5, <2>6, <2>7
<1>2. CASE Trouble /\ createTime' = [createTime EXCEPT ![r] = 0] /\ Goto(r, "idle") /\ UNCHANGED rows
  <2>1. TypeOK'
    <3>1. pc' \in [Requests -> Places]
      BY <1>2 DEF TypeOK, Goto, Places
    <3>2. createTime' \in [Requests -> Time] /\ \A q \in Requests : createTime'[q] <= now
      BY <1>2, IntakeAssumption DEF TypeOK, Time
    <3>3. trouble' \in 0..MaxTrouble
      BY <1>2, IntakeAssumption DEF TypeOK, Trouble
    <3> QED BY <1>2, <3>1, <3>2, <3>3 DEF TypeOK, Insert
  <2>2. Taken'
    BY <1>2 DEF Taken, TypeOK, Insert, Goto
  <2>3. SubmitNumCounted'
    BY <1>2, AccountUntouched DEF TypeOK, Insert, Goto
  <2>4. ASSUME NEW u \in Sequential' PROVE Apart(u)' /\ InTurn(u)'
    <3>1. u \in Sequential
      BY <2>4 DEF Sequential, Insert
    <3>2. \A i \in DOMAIN rows : createTime'[rows[i]] = createTime[rows[i]]
      BY <1>2, RowsAreTaken DEF TypeOK, Insert
    <3>3. CASE AuthorOf[r] # u
      BY <1>2, <3>1, <3>2, <3>3, OthersTurn DEF TypeOK, Insert, Goto
    <3>4. CASE AuthorOf[r] = u
      <4>1. r \in InProgress(u) /\ InProgress(u)' = InProgress(u) \ {r}
        BY <1>2, <3>4 DEF TypeOK, InProgress, Insert, Goto
      <4>2. InProgress(u)' = {}
        BY <3>1, <4>1 DEF InTurn
      <4> QED BY <1>2, <3>1, <3>2, <4>2 DEF Apart, InTurn, RowsOf
    <3> QED BY <3>3, <3>4
  <2> QED BY <2>1, <2>2, <2>3, <2>4
<1> QED BY <1>1, <1>2 DEF Insert

\* submitNum is raised, or the statement fails and the row stays uncounted.
LEMMA CountKeeps ==
  ASSUME IntakeInv, NEW r \in Requests, Count(r)
  PROVE  IntakeInv'
<1> USE DEF IntakeInv
<1>1. pc[r] = "count" /\ pc' = [pc EXCEPT ![r] = "done"] /\ UNCHANGED <<rows, createTime, latest>>
  BY DEF Count, Goto
<1>2. /\ QuestionOf[r] \in Questions
      /\ \/ /\ submitNum' = [submitNum EXCEPT ![QuestionOf[r]] = submitNum[QuestionOf[r]] + 1]
            /\ lost' = lost
         \/ /\ lost' = [lost EXCEPT ![QuestionOf[r]] = lost[QuestionOf[r]] + 1]
            /\ submitNum' = submitNum
  BY IntakeAssumption DEF Count
<1>3. TypeOK'
  <2>1. pc' \in [Requests -> Places]
    BY <1>1 DEF TypeOK, Places
  <2>2. submitNum' \in [Questions -> Nat] /\ lost' \in [Questions -> Nat]
    <3>1. submitNum[QuestionOf[r]] + 1 \in Nat /\ lost[QuestionOf[r]] + 1 \in Nat
      BY <1>2 DEF TypeOK
    <3> QED BY <1>2, <3>1 DEF TypeOK
  <2>3. trouble' \in 0..MaxTrouble
    BY IntakeAssumption DEF TypeOK, Count, Trouble
  <2> QED BY <1>1, <2>1, <2>2, <2>3 DEF TypeOK, Count
<1>4. Taken'
  BY <1>1 DEF Taken, TypeOK
<1>5. SubmitNumCounted'
  <2> SUFFICES ASSUME NEW q \in Questions
               PROVE  submitNum'[q] + lost'[q] + Cardinality(Uncounted(q)')
                        = Cardinality({s \in RangeOf(rows) : QuestionOf[s] = q})
    BY <1>1 DEF SubmitNumCounted, RangeOf
  <2> DEFINE C == Uncounted(q)
             R == {s \in RangeOf(rows) : QuestionOf[s] = q}
  <2>1. IsFiniteSet(C) /\ Cardinality(C) \in Nat /\ Cardinality(R) \in Nat
    BY CountsAreNumbers
  <2>2. submitNum[q] + lost[q] + Cardinality(C) = Cardinality(R)
    BY DEF SubmitNumCounted
  <2>3. submitNum[q] \in Nat /\ lost[q] \in Nat
    BY DEF TypeOK
  <2>4. CASE QuestionOf[r] = q
    <3>1. Uncounted(q)' = C \ {r} /\ r \in C
      BY <1>1, <2>4 DEF Uncounted, TypeOK
    <3>2. submitNum'[q] + lost'[q] = submitNum[q] + lost[q] + 1
      BY <1>2, <2>3, <2>4 DEF TypeOK
    <3>3. submitNum'[q] \in Nat /\ lost'[q] \in Nat
      BY <1>3 DEF TypeOK
    <3> HIDE DEF C, R
    <3>4. Cardinality(C \ {r}) = Cardinality(C) - 1
      BY <2>1, <3>1, FS_RemoveElement
    <3>5. submitNum'[q] + lost'[q] + Cardinality(Uncounted(q)') = Cardinality(R)
      BY <2>1, <2>2, <2>3, <3>1, <3>2, <3>3, <3>4
    <3> QED BY <3>5 DEF R
  <2>5. CASE QuestionOf[r] # q
    <3>1. Uncounted(q)' = C
      BY <1>1, <2>5 DEF Uncounted, TypeOK
    <3>2. submitNum'[q] = submitNum[q] /\ lost'[q] = lost[q]
      BY <1>2, <2>5 DEF TypeOK
    <3> QED BY <2>2, <3>1, <3>2
  <2> QED BY <2>4, <2>5
<1>6. ASSUME NEW u \in Sequential' PROVE Apart(u)' /\ InTurn(u)'
  <2>1. u \in Sequential
    BY <1>6 DEF Sequential, Count
  <2>2. CASE AuthorOf[r] # u
    BY <1>1, <2>1, <2>2, OthersTurn DEF TypeOK
  <2>3. CASE AuthorOf[r] = u
    <3>1. r \in InProgress(u) /\ InProgress(u)' = InProgress(u) \ {r}
      BY <1>1, <2>3 DEF TypeOK, InProgress
    <3>2. InProgress(u)' = {}
      BY <2>1, <3>1 DEF InTurn
    <3> QED BY <1>1, <2>1, <3>2 DEF Apart, InTurn, RowsOf
  <2> QED BY <2>2, <2>3
<1> QED BY <1>3, <1>4, <1>5, <1>6

\* The process dies; what its handlers had inserted stays uncounted.
LEMMA CrashKeeps ==
  ASSUME IntakeInv, Crash
  PROVE  IntakeInv'
<1> USE DEF IntakeInv
<1>1. /\ rows' = rows /\ submitNum' = submitNum /\ now' = now
      /\ \A r \in Requests : pc'[r] = IF r \in RangeOf(rows) THEN "done" ELSE "idle"
      /\ \A r \in RangeOf(rows) \cap Requests : createTime'[r] = createTime[r]
  BY DEF Crash
<1>2. TypeOK'
  <2>1. pc' \in [Requests -> Places] /\ latest' \in [Requests -> Time \cup {NoStamp}]
    BY DEF TypeOK, Crash, Places
  <2>2. createTime' \in [Requests -> Time] /\ \A q \in Requests : createTime'[q] <= now
    BY IntakeAssumption DEF TypeOK, Crash, Time
  <2>3. lost' \in [Questions -> Nat]
    <3>1. \A q \in Questions : Cardinality(Uncounted(q)) \in Nat
      BY CountsAreNumbers
    <3>2. \A q \in Questions : lost[q] + Cardinality(Uncounted(q)) \in Nat
      BY <3>1 DEF TypeOK
    <3> QED BY <3>2 DEF Crash
  <2>4. trouble' \in 0..MaxTrouble
    BY IntakeAssumption DEF TypeOK, Crash, Trouble
  <2> QED BY <1>1, <2>1, <2>2, <2>3, <2>4 DEF TypeOK, Crash
<1>3. Taken'
  BY <1>1 DEF Taken, RangeOf
<1>4. SubmitNumCounted'
  <2> SUFFICES ASSUME NEW q \in Questions
               PROVE  submitNum[q] + lost'[q] + Cardinality(Uncounted(q)')
                        = Cardinality({s \in RangeOf(rows) : QuestionOf[s] = q})
    BY <1>1 DEF SubmitNumCounted, RangeOf
  <2>1. Uncounted(q)' = {}
    BY <1>1 DEF Uncounted
  <2>2. Cardinality(Uncounted(q)') = 0
    BY <2>1, FS_EmptySet
  <2>3. lost'[q] = lost[q] + Cardinality(Uncounted(q))
    BY DEF Crash
  <2>4. submitNum[q] \in Nat /\ lost[q] \in Nat /\ Cardinality(Uncounted(q)) \in Nat
    BY CountsAreNumbers DEF TypeOK
  <2>5. submitNum[q] + lost[q] + Cardinality(Uncounted(q))
          = Cardinality({s \in RangeOf(rows) : QuestionOf[s] = q})
    BY DEF SubmitNumCounted
  <2> QED BY <2>2, <2>3, <2>4, <2>5
<1>5. ASSUME NEW u \in Sequential' PROVE Apart(u)' /\ InTurn(u)'
  <2>1. u \in Sequential
    BY <1>5 DEF Sequential, Crash
  <2>2. InProgress(u)' = {}
    BY <1>1 DEF InProgress
  <2>3. \A i \in DOMAIN rows : createTime'[rows[i]] = createTime[rows[i]]
    BY <1>1, RowsAreTaken DEF RangeOf
  <2> QED BY <1>1, <2>1, <2>2, <2>3 DEF Apart, InTurn, RowsOf
<1> QED BY <1>2, <1>3, <1>4, <1>5

\* Time passes.
LEMMA TickKeeps ==
  ASSUME IntakeInv, Tick
  PROVE  IntakeInv'
<1> USE DEF IntakeInv
<1>1. TypeOK'
  BY IntakeAssumption DEF TypeOK, Tick, intake, Time
<1>2. Taken' /\ SubmitNumCounted'
  BY DEF Taken, SubmitNumCounted, Uncounted, RangeOf, Tick, intake
<1>3. ASSUME NEW u \in Sequential' PROVE Apart(u)' /\ InTurn(u)'
  BY <1>3 DEF Sequential, Apart, InTurn, InProgress, RowsOf, Tick, intake
<1> QED BY <1>1, <1>2, <1>3

\* No request, no row.
LEMMA InitIntakeInv == Init => IntakeInv
<1> SUFFICES ASSUME Init PROVE IntakeInv
  OBVIOUS
<1>1. DOMAIN rows = {} /\ rows \in Seq(Requests)
  BY DEF Init
<1>2. TypeOK
  BY <1>1, IntakeAssumption DEF Init, TypeOK, Time, Places
<1>3. Taken
  BY <1>1 DEF Init, Taken, RangeOf
<1>4. SubmitNumCounted
  <2>1. \A q \in Questions : Uncounted(q) = {} /\ {s \in RangeOf(rows) : QuestionOf[s] = q} = {}
    BY <1>1 DEF Init, Uncounted, RangeOf
  <2> QED BY <2>1, FS_EmptySet DEF Init, SubmitNumCounted
<1>5. \A u \in Sequential : Apart(u) /\ InTurn(u)
  BY <1>1 DEF Init, Apart, InTurn, InProgress, RowsOf
<1> QED BY <1>2, <1>3, <1>4, <1>5 DEF IntakeInv

\* Every step keeps the invariant.
LEMMA NextIntakeInv == IntakeInv /\ [Next]_vars => IntakeInv'
<1> SUFFICES ASSUME IntakeInv, [Next]_vars PROVE IntakeInv'
  OBVIOUS
<1>1. ASSUME NEW r \in Requests, Begin(r) \/ ReadLatest(r) \/ Check(r) \/ Insert(r) \/ Count(r)
      PROVE  IntakeInv'
  BY <1>1, BeginKeeps, ReadLatestKeeps, CheckKeeps, InsertKeeps, CountKeeps
<1>2. CASE Crash
  BY <1>2, CrashKeeps
<1>3. CASE Tick
  BY <1>3, TickKeeps
<1>4. CASE UNCHANGED vars
  <2>1. TypeOK'
    BY <1>4 DEF IntakeInv, TypeOK, vars, intake
  <2>2. Taken' /\ SubmitNumCounted'
    BY <1>4 DEF IntakeInv, Taken, SubmitNumCounted, Uncounted, RangeOf, vars, intake
  <2>3. \A u \in Sequential' : Apart(u)' /\ InTurn(u)'
    BY <1>4 DEF IntakeInv, Sequential, Apart, InTurn, InProgress, RowsOf, vars, intake
  <2> QED BY <2>1, <2>2, <2>3 DEF IntakeInv
<1> QED BY <1>1, <1>2, <1>3, <1>4 DEF Next

----------------------------------------------------------------------------
(* Theorems                                                                 *)

\* The inductive invariant holds of every reachable state.
THEOREM IntakeInvariant == Spec => []IntakeInv
BY InitIntakeInv, NextIntakeInv, PTL DEF Spec

\* Every variable keeps its type: one row for a request at most, and no stamp ahead
\* of the clock.
THEOREM IntakeTypes == Spec => []TypeOK
<1>1. IntakeInv => TypeOK
  BY DEF IntakeInv
<1> QED BY <1>1, IntakeInvariant, PTL

\* question_submit_handler.go, QuestionSubmitDo: a person who waits for each answer
\* never has two rows inside the window, whatever fails or crashes in between, as
\* long as the read of the latest row succeeds.
THEOREM SequentialAuthorsLimited == Spec => []SequentialAuthorLimited
<1>1. IntakeInv => SequentialAuthorLimited
  BY DEF IntakeInv, SequentialAuthorLimited, Sequential
<1> QED BY <1>1, IntakeInvariant, PTL

\* However handlers overlap, fail and crash, submitNum misses a row only where a
\* handler is still to count it or its statement or its process failed.
THEOREM EveryRowAccounted == Spec => []SubmitNumCounted
<1>1. IntakeInv => SubmitNumCounted
  BY DEF IntakeInv
<1> QED BY <1>1, IntakeInvariant, PTL
================================================================================
