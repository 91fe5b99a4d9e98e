------------------------------ MODULE TweetIndex ------------------------------
(****************************************************************************)
(* Tweets are only found through Elasticsearch. Create therefore indexes a  *)
(* tweet inside the transaction that inserts it: a tweet that cannot be     *)
(* indexed is not kept. What Elasticsearch has got is not taken back.       *)
(****************************************************************************)
EXTENDS Naturals, FiniteSets

CONSTANTS
  Requests, Authors,
  MaxTweets       \* bound

VARIABLES
  tweets,   \* rows of tweets that are committed
  index,    \* documents of the index, by their id
  late,     \* documents whose call was given up and that may still be indexed
  nextId,   \* AUTO_INCREMENT; a transaction that is rolled back has used its id
  calls

vars == <<tweets, index, late, nextId, calls>>

Ids  == 1..MaxTweets
Idle == [at |-> "idle", id |-> 0, by |-> "nobody"]

TypeOK ==
  /\ tweets \subseteq [id : Ids, by : Authors] /\ index \subseteq Ids /\ late \subseteq Ids
  /\ nextId \in 1..MaxTweets + 1
  /\ calls \in [Requests -> [at : {"idle", "inserted", "indexed"}, id : 0..MaxTweets,
                             by : Authors \cup {"nobody"}]]

Init ==
  /\ tweets = {} /\ index = {} /\ late = {} /\ nextId = 1
  /\ calls = [r \in Requests |-> Idle]

At(r, a) == calls[r].at = a
Done(r)  == calls' = [calls EXCEPT ![r] = Idle]

\* The transaction begins and inserts the row.
Create(r, a) ==
  /\ At(r, "idle") /\ nextId \in Ids
  /\ nextId' = nextId + 1
  /\ calls' = [calls EXCEPT ![r] = [at |-> "inserted", id |-> nextId, by |-> a]]
  /\ UNCHANGED <<tweets, index, late>>

\* Slip: the document is that of the author.
IndexAuthor(r) ==
  /\ At(r, "inserted")
  /\ index' = index \cup {calls[r].by}
  /\ calls' = [calls EXCEPT ![r].at = "indexed"]
  /\ UNCHANGED <<tweets, late, nextId>>

Index(r) ==
  /\ At(r, "inserted")
  /\ index' = index \cup {calls[r].id}
  /\ calls' = [calls EXCEPT ![r].at = "indexed"]
  /\ UNCHANGED <<tweets, late, nextId>>

\* Slip: an error of the index is ignored.
IndexErrorIgnored(r) ==
  /\ At(r, "inserted")
  /\ calls' = [calls EXCEPT ![r].at = "indexed"]
  /\ \/ UNCHANGED <<index, late>>
     \/ late' = late \cup {calls[r].id} /\ UNCHANGED index
  /\ UNCHANGED <<tweets, nextId>>

\* The index refuses, or does not answer within three seconds: rolled back.
IndexError(r) ==
  /\ At(r, "inserted") /\ Done(r)
  /\ \/ UNCHANGED <<index, late>>
     \/ late' = late \cup {calls[r].id} /\ UNCHANGED index
  /\ UNCHANGED <<tweets, nextId>>

\* Elasticsearch gets to what it was asked for after all.
Land(id) ==
  /\ index' = index \cup {id} /\ late' = late \ {id}
  /\ UNCHANGED <<tweets, nextId, calls>>

Commit(r) ==
  /\ At(r, "indexed") /\ Done(r)
  /\ tweets' = tweets \cup {[id |-> calls[r].id, by |-> calls[r].by]}
  /\ UNCHANGED <<index, late, nextId>>

\* The commit or the insert fails, or the process dies: MySQL rolls back.
RollBack(r) ==
  /\ ~At(r, "idle") /\ Done(r)
  /\ UNCHANGED <<tweets, index, late, nextId>>

Next ==
  \/ \E r \in Requests :
       \/ \E a \in Authors : Create(r, a)
       \/ Index(r) \/ IndexError(r) \/ Commit(r) \/ RollBack(r)
  \/ \E id \in late : Land(id)

Spec == Init /\ [][Next]_vars

----------------------------------------------------------------------------
\* Every tweet that was kept can be found, whatever fails: nothing indexes one
\* again later, not even the synchronisation at startup.
KeptIsFound == \A t \in tweets : t.id \in index
=============================================================================
