---------------------------- MODULE PostEngagement ----------------------------
(****************************************************************************)
(* Likes, favorites and comments of one post, the two caches in Redis over  *)
(* them and the notification of a reply. Every call reads, writes and then  *)
(* deletes the caches in steps of their own; a reader fills a cache with    *)
(* what it read some steps ago. A comment deletes no cache.                 *)
(****************************************************************************)
EXTENDS Naturals, Sequences, FiniteSets

CONSTANTS
  Users, Requests,
  MaxComments,     \* bounds
  MaxWrites

VARIABLES
  published,  \* the post
  marks,      \* rows of post_likes and post_favorites
  comments,   \* rows of comments: who wrote them, in reply to which (0: none)
  notes,      \* rows of notifications
  engagement, \* eng:post:<id>, what an anonymous reader is told
  ranking,    \* rank:posts:*: whether the post is in it
  calls,      \* a request on its way
  writes,     \* bound: writes so far
  stale,      \* history: caches that a slow reader filled or Redis kept
  dropped     \* history: comments whose notification failed

vars == <<published, marks, comments, notes, engagement, ranking, calls, writes, stale, dropped>>

Kinds   == {"like", "favorite"}
None    == [like |-> 0, favorite |-> 0, comment |-> 0, known |-> FALSE]
Numbers == [like : 0..Cardinality(Users), favorite : 0..Cardinality(Users),
            comment : 0..MaxComments, known : BOOLEAN]
Idle    == [at |-> "idle", user |-> "nobody", kind |-> "like",
            had |-> FALSE, parent |-> 0, read |-> None, listed |-> FALSE]

TypeOK ==
  /\ published \in BOOLEAN /\ marks \subseteq Users \X Kinds
  /\ comments \in Seq([by : Users, parent : 0..MaxComments]) /\ Len(comments) <= MaxComments
  /\ notes \subseteq [to : Users, comment : 1..MaxComments, isRead : BOOLEAN]
  /\ engagement \in Numbers /\ ranking \in {"none", "with", "without"}
  /\ calls \in [Requests ->
       [at : {"idle", "toggle", "forget", "forget rank", "like", "favorite", "comment", "keep",
              "keep rank", "create", "notify"},
        user : Users \cup {"nobody"}, kind : Kinds, had : BOOLEAN, parent : 0..MaxComments, read : Numbers, listed : BOOLEAN]]
  /\ writes \in 0..MaxWrites
  /\ stale \subseteq {"engagement", "ranking"} /\ dropped \subseteq 1..MaxComments

Init ==
  /\ published = TRUE /\ marks = {} /\ comments = <<>> /\ notes = {}
  /\ engagement = None /\ ranking = "none"
  /\ calls = [r \in Requests |-> Idle] /\ writes = 0
  /\ stale = {} /\ dropped = {}

rows   == <<published, marks, comments, notes>>
caches == <<engagement, ranking, stale>>

Count(k) == IF k = "comment" THEN Len(comments) ELSE Cardinality({u \in Users : <<u, k>> \in marks})
Counted  == [like |-> Count("like"), favorite |-> Count("favorite"), comment |-> Count("comment"), known |-> TRUE]

At(r, a)  == calls[r].at = a
To(r, a)  == calls' = [calls EXCEPT ![r] = [Idle EXCEPT !.at = a]]
Done(r)   == calls' = [calls EXCEPT ![r] = Idle]
Start(r, c) == At(r, "idle") /\ calls' = [calls EXCEPT ![r] = c]
OneMore   == writes < MaxWrites /\ writes' = writes + 1

----------------------------------------------------------------------------
\* ToggleLike and ToggleFavorite: is there a row?
Toggle(r, u, k) ==
  /\ published
  /\ Start(r, [Idle EXCEPT !.at = "toggle", !.user = u, !.kind = k, !.had = <<u, k>> \in marks])
  /\ UNCHANGED <<rows, caches, writes, dropped>>

\* Slip: a mark that is taken back leaves the caches alone.
FlipQuiet(r) ==
  LET mark == <<calls[r].user, calls[r].kind>> IN
  /\ At(r, "toggle") /\ OneMore
  /\ IF calls[r].had THEN marks' = marks \ {mark} /\ Done(r)
     ELSE IF mark \notin marks THEN marks' = marks \cup {mark} /\ To(r, "forget")
     ELSE UNCHANGED marks /\ Done(r)
  /\ UNCHANGED <<published, comments, notes, caches, dropped>>

\* It is deleted, or created if the unique key lets it.
Flip(r) ==
  LET mark == <<calls[r].user, calls[r].kind>> IN
  /\ At(r, "toggle") /\ OneMore
  /\ IF calls[r].had THEN marks' = marks \ {mark} /\ To(r, "forget")
     ELSE IF mark \notin marks THEN marks' = marks \cup {mark} /\ To(r, "forget")
     ELSE UNCHANGED marks /\ Done(r)
  /\ UNCHANGED <<published, comments, notes, caches, dropped>>

\* Publishing, unpublishing and deleting the post.
SetStatus(r, p) ==
  /\ p # published /\ OneMore
  /\ published' = p
  /\ At(r, "idle") /\ To(r, "forget")
  /\ UNCHANGED <<marks, comments, notes, caches, dropped>>

\* invalidatePostCaches; what Redis answers is not looked at.
ForgetEngagement(r) ==
  /\ At(r, "forget") /\ To(r, "forget rank")
  /\ \/ engagement' = None /\ stale' = stale \ {"engagement"}
     \/ stale' = stale \cup {"engagement"} /\ UNCHANGED engagement
  /\ UNCHANGED <<rows, ranking, writes, dropped>>

ForgetRanking(r) ==
  /\ At(r, "forget rank") /\ Done(r)
  /\ \/ ranking' = "none" /\ stale' = stale \ {"ranking"}
     \/ stale' = stale \cup {"ranking"} /\ UNCHANGED ranking
  /\ UNCHANGED <<rows, engagement, writes, dropped>>

----------------------------------------------------------------------------
\* GetEngagement for somebody who is not signed in: the cache, or three counts,
\* one after the other, which are then kept.
View(r) ==
  /\ published /\ ~engagement.known
  /\ Start(r, [Idle EXCEPT !.at = "like"])
  /\ UNCHANGED <<rows, caches, writes, dropped>>

CountNext(r) ==
  /\ calls[r].at \in {"like", "favorite", "comment"}
  /\ calls' = [calls EXCEPT
       ![r].read[calls[r].at] = Count(calls[r].at),
       ![r].at = [like |-> "favorite", favorite |-> "comment", comment |-> "keep"][calls[r].at]]
  /\ UNCHANGED <<rows, caches, writes, dropped>>

SetEngagementCache(r) ==
  /\ At(r, "keep") /\ Done(r)
  /\ engagement' = [calls[r].read EXCEPT !.known = TRUE]
  /\ stale' = IF \E k \in Kinds : engagement'[k] # Count(k) THEN stale \cup {"engagement"}
              ELSE stale \ {"engagement"}
  /\ UNCHANGED <<rows, ranking, writes, dropped>>

\* ListRankingByPeriod.
ListRanking(r) ==
  /\ ranking = "none"
  /\ Start(r, [Idle EXCEPT !.at = "keep rank", !.listed = published])
  /\ UNCHANGED <<rows, caches, writes, dropped>>

SetRankingCache(r) ==
  /\ At(r, "keep rank") /\ Done(r)
  /\ ranking' = IF calls[r].listed THEN "with" ELSE "without"
  /\ stale' = IF calls[r].listed = published THEN stale \ {"ranking"} ELSE stale \cup {"ranking"}
  /\ UNCHANGED <<rows, engagement, writes, dropped>>

Expire ==
  /\ \/ engagement.known /\ engagement' = None /\ stale' = stale \ {"engagement"} /\ UNCHANGED ranking
     \/ ranking # "none" /\ ranking' = "none" /\ stale' = stale \ {"ranking"} /\ UNCHANGED engagement
  /\ UNCHANGED <<rows, calls, writes, dropped>>

----------------------------------------------------------------------------
\* CommentService.Create: the post and the parent are looked at, the row is made,
\* the parent's author is told.
Comment(r, u, parent) ==
  /\ published
  /\ Start(r, [Idle EXCEPT !.at = "create", !.user = u, !.parent = parent])
  /\ UNCHANGED <<rows, caches, writes, dropped>>

CreateComment(r) ==
  /\ At(r, "create") /\ Len(comments) < MaxComments
  /\ comments' = Append(comments, [by |-> calls[r].user, parent |-> calls[r].parent])
  /\ IF calls[r].parent # 0 /\ comments[calls[r].parent].by # calls[r].user
     THEN calls' = [calls EXCEPT ![r] = [Idle EXCEPT !.at = "notify", !.read.comment = Len(comments')]]
     ELSE Done(r)
  /\ UNCHANGED <<published, marks, notes, caches, writes, dropped>>

\* Slip: whoever commented is told.
NotifyAuthor(r) ==
  LET c == calls[r].read.comment IN
  /\ At(r, "notify") /\ Done(r)
  /\ notes' = notes \cup {[to |-> comments[c].by, comment |-> c, isRead |-> FALSE]}
  /\ UNCHANGED <<published, marks, comments, caches, writes, dropped>>

\* Slip: the id the next comment will get.
NotifyNext(r) ==
  LET c == calls[r].read.comment + 1 IN
  /\ At(r, "notify") /\ Done(r)
  /\ notes' = notes \cup {[to |-> comments[comments[c - 1].parent].by, comment |-> c, isRead |-> FALSE]}
  /\ UNCHANGED <<published, marks, comments, caches, writes, dropped>>

\* The notification of a reply; its error is ignored.
Notify(r) ==
  LET c == calls[r].read.comment IN
  /\ At(r, "notify") /\ Done(r)
  /\ \/ notes' = notes \cup {[to |-> comments[comments[c].parent].by, comment |-> c, isRead |-> FALSE]} /\ UNCHANGED dropped
     \/ dropped' = dropped \cup {c} /\ UNCHANGED notes
  /\ UNCHANGED <<published, marks, comments, caches, writes>>

MarkRead(n) ==
  /\ ~n.isRead
  /\ notes' = (notes \ {n}) \cup {[n EXCEPT !.isRead = TRUE]}
  /\ UNCHANGED <<published, marks, comments, caches, calls, writes, dropped>>

\* A statement fails, or the process dies: the rest is not done.
Fail(r) ==
  /\ ~At(r, "idle") /\ Done(r)
  /\ stale' = stale \cup (IF At(r, "forget") THEN {"engagement", "ranking"}
                          ELSE IF At(r, "forget rank") THEN {"ranking"} ELSE {})
  /\ dropped' = IF At(r, "notify") THEN dropped \cup {calls[r].read.comment} ELSE dropped
  /\ UNCHANGED <<rows, engagement, ranking, writes>>

Next ==
  \/ \E r \in Requests :
       \/ \E u \in Users : (\E k \in Kinds : Toggle(r, u, k)) \/ \E p \in 0..Len(comments) : Comment(r, u, p)
       \/ \E p \in BOOLEAN : SetStatus(r, p)
       \/ Flip(r) \/ ForgetEngagement(r) \/ ForgetRanking(r)
       \/ View(r) \/ CountNext(r) \/ SetEngagementCache(r) \/ ListRanking(r) \/ SetRankingCache(r)
       \/ CreateComment(r) \/ Notify(r) \/ Fail(r)
  \/ \E n \in notes : MarkRead(n)
  \/ Expire

Spec == Init /\ [][Next]_vars

----------------------------------------------------------------------------
Forgetting(c) == \E r \in Requests : calls[r].at \in (IF c = "engagement" THEN {"forget"} ELSE {"forget", "forget rank"})

\* What is kept of likes, favorites and the ranking is what the rows say, unless a
\* reader kept what it had read before a write, the caches were not deleted after
\* it, or they are about to be: no cache lags behind for any other reason.
CachesKeepUp ==
  /\ engagement.known /\ "engagement" \notin stale /\ ~Forgetting("engagement") =>
       \A k \in Kinds : engagement[k] = Count(k)
  /\ ranking = "with" /\ "ranking" \notin stale /\ ~Forgetting("ranking") => published

\* Of every reply to somebody else that somebody has one notification, read or not,
\* unless it failed or is on its way; and there are no others.
RepliesNotified ==
  /\ \A c \in DOMAIN comments :
       LET p == comments[c].parent
           told == {n \in notes : n.comment = c}
       IN IF p = 0 \/ comments[IF p = 0 THEN c ELSE p].by = comments[c].by THEN told = {}
          ELSE IF c \in dropped \/ \E r \in Requests : At(r, "notify") /\ calls[r].read.comment = c
          THEN told = {}
          ELSE Cardinality(told) = 1 /\ \A n \in told : n.to = comments[p].by
  /\ \A n \in notes : n.comment \in DOMAIN comments
=============================================================================
