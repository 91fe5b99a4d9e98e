------------------------------ MODULE Blog_proofs ------------------------------
(****************************************************************************)
(* Proofs about the blog, for any finite set of people, any number of       *)
(* overlapping requests, any titles, tags, contents and articles and any    *)
(* bounds.                                                                  *)
(*                                                                          *)
(* Posts, their versions and their search index come first. PostWhole is    *)
(* not inductive: it survives the last step of a call because of what the   *)
(* call read in its first step, and PostInv says what that is - a call over *)
(* which no other has written still knows the rows it read. By the same     *)
(* knowledge its transaction is one change of Publication. What a search    *)
(* finds follows from PostInv and from which of the committed calls has yet *)
(* to tell the index.                                                       *)
(*                                                                          *)
(* The parts beside the posts follow: tweets and their index, the articles  *)
(* bound to a question, and the likes, comments, caches and notifications   *)
(* of a post. Each has an inductive invariant of its own. What is promised  *)
(* is not inductive in any of them: a row is right because of what a call   *)
(* has looked at before it writes, so the invariants say what a call that   *)
(* is under way may rely on.                                                *)
(****************************************************************************)
EXTENDS MCBlog, FiniteSetTheorems, SequenceTheorems, WellFoundedInduction, TLAPS

----------------------------------------------------------------------------
(* The inductive invariant of posts                                         *)

\* The operations that write the row of the post.
Writers == {"save", "publish", "unpublish", "meta", "hide"}

\* What a call is about to write is a row of its type, and of the post one that
\* is published exactly when it names a version.
CallWhole(c) ==
  c.at \in {"open", "committed"} =>
    /\ c.op # "none"
    /\ c.op \in Writers =>
         /\ c.post \in Post
         /\ c.post.status = "published" <=> c.post.published > 0
    /\ c.op \in {"copy", "save"} => c.row \in Version
    /\ c.op = "copy" => c.version \in Numbers
    /\ c.op = "publish" => c.post.status = "published"
    /\ c.op = "unpublish" => c.post.status = "draft"
    /\ c.op = "hide" => c.post.status = "hidden"

\* So does every call.
CallsWhole == \A r \in Requests : CallWhole(calls[r])

\* Title and tags of two rows are the same.
SameMeta(p, q) == p.title = q.title /\ p.tags = q.tags
\* Status and published version of two rows of the post are the same.
SameState(p, q) == p.status = q.status /\ p.published = q.published

\* The contents that the rows of versions hold.
Held(vs) == {vs[v].content : v \in DOMAIN vs}

\* What a call read is still so: the part of it its writes rely on.
Knows(c) ==
  /\ c.op = "copy" =>
       /\ SameMeta(c.row, post) /\ c.row.status = "draft"
       /\ c.row.content \in Held(versions)
  /\ c.op = "save" =>
       /\ c.version \in DOMAIN versions
       /\ c.editing <=> post.published = c.version
       /\ c.row.status = IF c.editing THEN "published" ELSE "draft"
       /\ c.post.published = post.published
       /\ ~c.meta => SameMeta(c.post, post)
       /\ c.post.tags = versions[c.version].tags
       /\ c.editing => c.post.content = c.row.content /\ c.post.status = "published"
       /\ ~c.editing => c.post.content = post.content /\ c.post.status = post.status
  /\ c.op = "delete_draft" =>
       /\ c.version # post.published
       /\ \E v \in DOMAIN versions : v # c.version
  /\ c.op = "publish" =>
       /\ c.version \in DOMAIN versions /\ c.post.published = c.version
       /\ SameMeta(c.post, versions[c.version])
       /\ c.post.content = versions[c.version].content
  /\ c.op \in {"unpublish", "hide"} => SameMeta(c.post, post) /\ c.post.content = post.content
  /\ c.op = "unpublish" => post.status = "published"
  /\ c.op = "meta" => SameState(c.post, post) /\ c.post.content = post.content

\* An open call over which no other has written knows the rows.
Fresh == \A r \in Requests : calls[r].at = "open" /\ ~calls[r].stale => Knows(calls[r])

\* The inductive invariant of posts and versions.
PostInv == TypeOK /\ PostWhole /\ CallsWhole /\ Fresh

\* What a call knows of the rows it knows of the same rows.
LEMMA KnowsTheSame ==
  ASSUME UNCHANGED <<post, versions>>
  PROVE  \A r \in Requests : Knows(calls[r])' <=> Knows(calls'[r])
BY DEF Knows, SameMeta, Held

----------------------------------------------------------------------------
(* The first step of each operation                                         *)

\* A set of version numbers that is not empty has a greatest one.
LEMMA LatestIsLatest ==
  ASSUME TypeOK, DOMAIN versions # {}
  PROVE  Latest(versions) \in DOMAIN versions
<1> DEFINE Below == {MaxVersion - v : v \in DOMAIN versions}
<1>1. Below \subseteq Nat /\ Below # {}
  <2>1. \A v \in DOMAIN versions : MaxVersion - v \in Nat
    BY PostAssumption DEF TypeOK, Numbers
  <2> QED BY <2>1
<1>2. PICK m \in Below : \A k \in Below : <<k, m>> \notin OpToRel(<, Nat)
  <2> HIDE DEF Below
  <2> QED BY <1>1, WFMin, NatLessThanWellFounded
<1>3. \A k \in Below : ~ (k < m)
  BY <1>1, <1>2 DEF OpToRel
<1>4. PICK v \in DOMAIN versions : m = MaxVersion - v
  BY <1>2
<1>5. \A w \in DOMAIN versions : w <= v
  BY <1>3, <1>4, PostAssumption DEF TypeOK, Numbers
<1> QED BY <1>5 DEF Latest

(* A call begun *)
\* The first step of a call writes no row: what it will write has to be of its
\* type, and known.
LEMMA BeginKeeps ==
  ASSUME PostInv, NEW r \in Requests, NEW c, Begin(r, c),
         c \in Call, CallWhole(c), c.at = "open" => Knows(c)
  PROVE  PostInv'
<1>1. UNCHANGED <<post, versions, overlapped>> /\ calls' = [calls EXCEPT ![r] = c]
  BY DEF Begin
<1>2. TypeOK'
  <2>1. calls' \in [Requests -> Call]
    BY <1>1 DEF PostInv, TypeOK
  <2>2. begun' \in 0..MaxCalls
    BY PostAssumption DEF PostInv, TypeOK, Begin
  <2> QED BY <1>1, <2>1, <2>2 DEF PostInv, TypeOK
<1>3. PostWhole'
  BY <1>1 DEF PostInv, PostWhole, PublishedNamesVersion, PublicationWhole, MetaShared, VersionLeft
<1>4. CallsWhole'
  BY <1>1 DEF PostInv, CallsWhole, TypeOK, CallWhole
<1>5. Fresh'
  <2>1. \A q \in Requests : calls'[q] = IF q = r THEN c ELSE calls[q]
    BY <1>1 DEF PostInv, TypeOK
  <2> QED
    BY <1>1, <2>1, KnowsTheSame DEF PostInv, Fresh
<1> QED BY <1>2, <1>3, <1>4, <1>5 DEF PostInv

\* The older routes pick a version.
LEMMA PickKeeps ==
  ASSUME PostInv, NEW r \in Requests, PickToSave(r) \/ PickToPublish(r)
  PROVE  PostInv'
<1>1. PICK op \in {"save", "publish"}, v \in DOMAIN versions \cup {post.published} :
        calls' = [calls EXCEPT ![r] = [Idle EXCEPT !.at = "picked", !.op = op, !.version = v]]
  BY LatestIsLatest DEF PostInv, PickToSave, PickToPublish
<1> DEFINE c == [Idle EXCEPT !.at = "picked", !.op = op, !.version = v]
<1>2. UNCHANGED <<post, versions, begun, overlapped>>
  BY DEF PickToSave, PickToPublish
<1>3. c \in Call /\ c.at = "picked"
  <2>1. v \in 0..MaxVersion
    BY PostAssumption DEF PostInv, TypeOK, Numbers, Post
  <2> QED BY <2>1 DEF Call, Idle
<1> HIDE DEF c
<1>4. TypeOK' /\ CallsWhole' /\ Fresh'
  <2>1. TypeOK'
    BY <1>1, <1>2, <1>3 DEF PostInv, TypeOK, c
  <2>2. CallsWhole'
    BY <1>1, <1>2, <1>3 DEF PostInv, TypeOK, CallsWhole, CallWhole, c
  <2>3. Fresh'
    <3>1. \A q \in Requests : calls'[q] = IF q = r THEN c ELSE calls[q]
      BY <1>1 DEF PostInv, TypeOK, c
    <3> QED
      BY <1>2, <1>3, <3>1, KnowsTheSame DEF PostInv, Fresh
  <2> QED BY <2>1, <2>2, <2>3
<1>5. PostWhole'
  BY <1>2 DEF PostInv, PostWhole, PublishedNamesVersion, PublicationWhole, MetaShared, VersionLeft
<1> QED BY <1>4, <1>5 DEF PostInv

\* A copy of a version as a new draft.
LEMMA CopyKeeps ==
  ASSUME PostInv, NEW r \in Requests, CreateDraftCopy(r)
  PROVE  PostInv'
<1>1. PICK source \in DOMAIN versions :
        Begin(r, [Open("copy") EXCEPT !.version = Latest(versions) + 1,
                     !.row = Blank(post.title, post.tags, versions[source].content)])
  BY DEF CreateDraftCopy
<1> DEFINE c == [Open("copy") EXCEPT !.version = Latest(versions) + 1,
                     !.row = Blank(post.title, post.tags, versions[source].content)]
<1>2. Latest(versions) + 1 \in Numbers
  BY LatestIsLatest, PostAssumption DEF PostInv, TypeOK, Numbers, CreateDraftCopy
<1>3. Blank(post.title, post.tags, versions[source].content) \in Version
  BY DEF PostInv, TypeOK, Blank, Version, Post, Statuses
<1>4. c \in Call
  <2>1. Latest(versions) + 1 \in 0..MaxVersion
    BY <1>2, PostAssumption DEF Numbers
  <2> QED BY <1>3, <2>1 DEF Call, Open, Idle
<1>5. CallWhole(c) /\ Knows(c)
  <2>1. versions[source].content \in Held(versions)
    BY DEF Held
  <2> QED BY <1>2, <1>3, <2>1 DEF CallWhole, Knows, SameMeta, Open, Idle, Writers, Blank
<1> HIDE DEF c
<1> QED BY <1>1, <1>4, <1>5, BeginKeeps DEF c

\* A save of a version, the published one or a draft.
LEMMA SaveKeeps ==
  ASSUME PostInv, NEW r \in Requests, SaveDraftByVersion(r)
  PROVE  PostInv'
<1>1. PICK q \in SaveParams :
        LET v == q.version
            t == q.title
            editing == post.published = v
            meta    == post.title # t \/ post.tags # versions[v].tags
            synced  == IF meta THEN [post EXCEPT !.title = t, !.tags = versions[v].tags] ELSE post
        IN /\ Versioned(r, "save", v) /\ v \in DOMAIN versions
           /\ Begin(r, [Open("save") EXCEPT
                !.version = v, !.meta = meta, !.editing = editing,
                !.row = [Blank(t, versions[v].tags, q.content) EXCEPT
                           !.status = IF editing THEN "published" ELSE "draft"],
                !.post = IF editing THEN [synced EXCEPT !.content = q.content, !.status = "published"]
                         ELSE synced])
  BY DEF SaveDraftByVersion
<1> DEFINE v == q.version
           editing == post.published = v
           meta    == post.title # q.title \/ post.tags # versions[v].tags
           synced  == IF meta THEN [post EXCEPT !.title = q.title, !.tags = versions[v].tags] ELSE post
           row == [Blank(q.title, versions[v].tags, q.content) EXCEPT
                           !.status = IF editing THEN "published" ELSE "draft"]
           p == IF editing THEN [synced EXCEPT !.content = q.content, !.status = "published"]
                ELSE synced
           c == [Open("save") EXCEPT !.version = v, !.meta = meta, !.editing = editing,
                                     !.row = row, !.post = p]
<1>2. v \in DOMAIN versions /\ Begin(r, c)
  BY <1>1
<1>3. /\ v \in Numbers /\ versions[v] \in Version /\ post \in Post
      /\ q.title \in Titles /\ q.content \in Contents
  BY <1>2 DEF PostInv, TypeOK, SaveParams
<1>4. row \in Version /\ row.content = q.content /\ row.status = IF editing THEN "published" ELSE "draft"
  BY <1>3 DEF Version, Blank, Statuses
<1>5. synced \in Post /\ SameState(synced, post) /\ synced.content = post.content
      /\ (~meta => synced = post) /\ synced.tags = versions[v].tags
  BY <1>3 DEF Post, Version, SameState
<1>6. /\ p \in Post /\ p.published = post.published
      /\ ~meta => SameMeta(p, post)
      /\ p.tags = versions[v].tags
      /\ editing => p.content = row.content /\ p.status = "published"
      /\ ~editing => p.content = post.content /\ p.status = post.status
  BY <1>3, <1>4, <1>5 DEF Post, SameMeta, SameState, Statuses
<1>7. p.status = "published" <=> p.published > 0
  BY <1>3, <1>6, PostAssumption DEF PostInv, PostWhole, PublishedNamesVersion, Numbers
<1>8. /\ c.at = "open" /\ c.op = "save" /\ c.version = v /\ c.row = row /\ c.post = p
      /\ c.meta = meta /\ c.editing = editing
  BY DEF Open, Idle
<1>9. c \in Call
  <2> HIDE DEF row, p, v, meta, editing
  <2>1. v \in 0..MaxVersion /\ meta \in BOOLEAN /\ editing \in BOOLEAN
    BY <1>3, PostAssumption DEF Numbers, meta, editing
  <2> QED BY <2>1, <1>4, <1>6 DEF Call, Open, Idle
<1> HIDE DEF c, row, p, synced
<1>10. CallWhole(c)
  BY <1>4, <1>6, <1>7, <1>8 DEF CallWhole, Writers
<1>11. Knows(c)
  BY <1>2, <1>4, <1>6, <1>8 DEF Knows
<1> QED BY <1>2, <1>9, <1>10, <1>11, BeginKeeps

\* A version is left beside the one deleted.
LEMMA DeleteDraftKeeps ==
  ASSUME PostInv, NEW r \in Requests, DeleteDraft(r)
  PROVE  PostInv'
<1>1. PICK v \in (DeleteParams \cap DOMAIN versions) \ {post.published} :
        Begin(r, [Open("delete_draft") EXCEPT !.version = v])
  BY DEF DeleteDraft
<1> DEFINE c == [Open("delete_draft") EXCEPT !.version = v]
<1>2. c \in Call
  <2>1. v \in 0..MaxVersion
    BY PostAssumption DEF DeleteParams, Numbers
  <2> QED BY <2>1 DEF Call, Open, Idle
<1>3. c.op = "delete_draft" /\ c.version = v
  BY DEF Open, Idle
<1>4. \E w \in DOMAIN versions : w # v
  <2>1. Cardinality({v}) = 1
    BY FS_Singleton
  <2>2. Cardinality(DOMAIN versions) > 1
    BY DEF DeleteDraft
  <2>3. DOMAIN versions # {v}
    BY <2>1, <2>2
  <2> QED BY <1>1, <2>3
<1> HIDE DEF c
<1>5. CallWhole(c) /\ Knows(c)
  BY <1>1, <1>3, <1>4 DEF CallWhole, Knows, Writers
<1> QED BY <1>1, <1>2, <1>5, BeginKeeps DEF c

\* The row of the post is that of the version it publishes.
LEMMA PublishKeeps ==
  ASSUME PostInv, NEW r \in Requests, PublishDraft(r)
  PROVE  PostInv'
<1>1. PICK v \in PublishParams :
        /\ v \in DOMAIN versions
        /\ Begin(r, [Open("publish") EXCEPT
             !.version = v,
             !.post = [title |-> versions[v].title, tags |-> versions[v].tags,
                       content |-> versions[v].content,
                       status |-> "published", published |-> v]])
  BY DEF PublishDraft
<1> DEFINE p == [title |-> versions[v].title, tags |-> versions[v].tags,
                 content |-> versions[v].content, status |-> "published", published |-> v]
           c == [Open("publish") EXCEPT !.version = v, !.post = p]
<1>2. v \in 0..MaxVersion /\ v > 0
  BY PostAssumption DEF PublishParams, Numbers
<1>3. p \in Post
  BY <1>1, <1>2 DEF PostInv, TypeOK, Version, Post, Statuses
<1>4. c \in Call
  <2> HIDE DEF p
  <2> QED BY <1>2, <1>3 DEF Call, Open, Idle
<1>5. c.at = "open" /\ c.op = "publish" /\ c.version = v /\ c.post = p
  BY DEF Open, Idle
<1>6. Begin(r, c)
  BY <1>1
<1> HIDE DEF c
<1>7. CallWhole(c) /\ Knows(c)
  BY <1>1, <1>2, <1>3, <1>5 DEF CallWhole, Knows, Writers, SameMeta
<1> QED BY <1>4, <1>6, <1>7, BeginKeeps

\* A post taken back names no version.
LEMMA UnpublishKeeps ==
  ASSUME PostInv, NEW r \in Requests, Unpublish(r)
  PROVE  PostInv'
<1> DEFINE p == [post EXCEPT !.status = "draft", !.published = 0]
           c == [Open("unpublish") EXCEPT !.version = post.published, !.post = p]
<1>1. /\ p \in Post /\ SameMeta(p, post) /\ p.content = post.content
      /\ p.status = "draft" /\ p.published = 0
  <2>1. 0 \in 0..MaxVersion
    BY PostAssumption
  <2>2. post \in Post
    BY DEF PostInv, TypeOK
  <2> QED BY <2>1, <2>2 DEF Post, Statuses, SameMeta
<1>2. c \in Call
  <2>1. post.published \in 0..MaxVersion
    BY DEF PostInv, TypeOK, Post
  <2> HIDE DEF p
  <2> QED BY <1>1, <2>1 DEF Call, Open, Idle
<1>3. c.op = "unpublish" /\ c.post = p
  BY DEF Open, Idle
<1>4. Begin(r, c)
  BY DEF Unpublish
<1> HIDE DEF c, p
<1>5. CallWhole(c) /\ Knows(c)
  BY <1>1, <1>3 DEF CallWhole, Knows, Writers, Unpublish
<1> QED BY <1>2, <1>4, <1>5, BeginKeeps

\* A hidden post names no version.
LEMMA DeletePostKeeps ==
  ASSUME PostInv, NEW r \in Requests, DeletePost(r)
  PROVE  PostInv'
<1> DEFINE p == [post EXCEPT !.status = "hidden", !.published = 0]
           c == [Open("hide") EXCEPT !.post = p]
<1>1. /\ p \in Post /\ SameMeta(p, post) /\ p.content = post.content
      /\ p.status = "hidden" /\ p.published = 0
  <2>1. 0 \in 0..MaxVersion
    BY PostAssumption
  <2>2. post \in Post
    BY DEF PostInv, TypeOK
  <2> QED BY <2>1, <2>2 DEF Post, Statuses, SameMeta
<1>2. c \in Call
  <2>1. 0 \in 0..MaxVersion
    BY PostAssumption
  <2> HIDE DEF p
  <2> QED BY <1>1, <2>1 DEF Call, Open, Idle
<1>3. c.op = "hide" /\ c.post = p
  BY DEF Open, Idle
<1>4. Begin(r, c)
  BY DEF DeletePost
<1> HIDE DEF c, p
<1>5. CallWhole(c) /\ Knows(c)
  BY <1>1, <1>3 DEF CallWhole, Knows, Writers
<1> QED BY <1>2, <1>4, <1>5, BeginKeeps

\* A change of title or tags keeps status and content.
LEMMA UpdateMetaKeeps ==
  ASSUME PostInv, NEW r \in Requests, UpdateMeta(r)
  PROVE  PostInv'
<1>1. PICK q \in MetaParams :
        IF <<q.title, q.tags>> = <<post.title, post.tags>>
        THEN Begin(r, [Open("meta") EXCEPT !.at = "committed", !.post = post])
        ELSE Begin(r, [Open("meta") EXCEPT !.post = [post EXCEPT !.title = q.title, !.tags = q.tags]])
  BY DEF UpdateMeta
<1>2. PICK place \in {"open", "committed"},
           p \in {post, [post EXCEPT !.title = q.title, !.tags = q.tags]} :
        Begin(r, [Open("meta") EXCEPT !.at = place, !.post = p])
  BY <1>1 DEF Open, Idle
<1> DEFINE c == [Open("meta") EXCEPT !.at = place, !.post = p]
<1>3. p \in Post /\ SameState(p, post) /\ p.content = post.content
  BY DEF PostInv, TypeOK, Post, SameState, MetaParams
<1>4. c \in Call
  <2>1. 0 \in 0..MaxVersion
    BY PostAssumption
  <2> QED BY <1>3, <2>1 DEF Call, Open, Idle
<1>5. c.op = "meta" /\ c.post = p
  BY DEF Open, Idle
<1> HIDE DEF c
<1>6. p.status = "published" <=> p.published > 0
  BY <1>3 DEF PostInv, PostWhole, PublishedNamesVersion, SameState
<1>7. CallWhole(c) /\ Knows(c)
  BY <1>3, <1>5, <1>6 DEF CallWhole, Knows, Writers
<1> QED BY <1>2, <1>4, <1>7, BeginKeeps DEF c

----------------------------------------------------------------------------
(* The last step: what each operation writes                                *)

\* The types of the rows.
Rows(p, vs) ==
  p \in Post /\ DOMAIN vs \subseteq Numbers /\ vs \in [DOMAIN vs -> Version]

\* The post is published exactly when it names a version.
Names(p) == p.status = "published" <=> p.published > 0

\* PostWhole of any rows, with the marks of the versions row by row.
Whole(p, vs) ==
  /\ p.published > 0 =>
       /\ p.published \in DOMAIN vs /\ p.content = vs[p.published].content
       /\ \A v \in DOMAIN vs : vs[v].status = "published" <=> v = p.published
  /\ \A v \in DOMAIN vs : SameMeta(vs[v], p)
  /\ DOMAIN vs # {}

\* Versions vs hold the contents they held before.
SameContents(vs) ==
  DOMAIN vs = DOMAIN versions /\ \A v \in DOMAIN vs : vs[v].content = versions[v].content

\* What a copy writes.
LEMMA CopyWhole ==
  ASSUME TypeOK, Names(post), NEW c \in Call, CallWhole(c), c.at = "open", c.op = "copy",
         c.version \notin DOMAIN versions,
         NEW p, p = CopyWrites(db, c).post, NEW vs, vs = CopyWrites(db, c).versions
  PROVE  /\ Rows(p, vs) /\ Names(p)
         /\ Whole(post, versions) /\ Knows(c) => Whole(p, vs)
         /\ p = post /\ Held(vs) = Held(versions) \cup {c.row.content}
<1>1. c.row \in Version /\ c.version \in Numbers
  BY DEF CallWhole
<1>2. /\ p = post
      /\ vs = [w \in DOMAIN versions \cup {c.version} |->
                 IF w = c.version THEN c.row ELSE versions[w]]
  BY DEF CopyWrites, CreateVersion, db
<1>3. Rows(p, vs)
  BY <1>1, <1>2 DEF TypeOK, Rows
<1>4. Whole(post, versions) /\ Knows(c) => Whole(p, vs)
  BY <1>2 DEF Whole, Knows, SameMeta
<1>5. Held(vs) = Held(versions) \cup {c.row.content}
  <2>1. /\ DOMAIN vs = DOMAIN versions \cup {c.version} /\ vs[c.version] = c.row
        /\ \A v \in DOMAIN versions : vs[v] = versions[v]
    BY <1>2
  <2> QED BY <2>1 DEF Held
<1> QED BY <1>2, <1>3, <1>4, <1>5

\* A row with some columns changed.
LEMMA ChangedRow ==
  ASSUME NEW row \in Version, NEW fields,
         fields.status \in Statuses,
         "content" \in DOMAIN fields => fields.content \in Contents
  PROVE  /\ Changed(row, fields) \in Version
         /\ SameMeta(Changed(row, fields), row)
         /\ Changed(row, fields).status = fields.status
         /\ Changed(row, fields).content = IF "content" \in DOMAIN fields THEN fields.content ELSE row.content
BY DEF Changed, Version, SameMeta

\* What a save writes: title and tags everywhere, the version, and the post when
\* the version is the published one.
LEMMA SaveWhole ==
  ASSUME TypeOK, Names(post), NEW c \in Call, CallWhole(c), c.at = "open", c.op = "save",
         NEW p, p = SaveWrites(db, c).post, NEW vs, vs = SaveWrites(db, c).versions
  PROVE  /\ Rows(p, vs) /\ Names(p)
         /\ Whole(post, versions) /\ Knows(c) => Whole(p, vs)
         /\ p = (IF c.editing \/ c.meta THEN c.post ELSE post)
         /\ DOMAIN vs = DOMAIN versions
         /\ \A v \in DOMAIN vs :
              vs[v].content = IF v = c.version THEN c.row.content ELSE versions[v].content
<1> DEFINE fields == [content |-> c.row.content, status |-> c.row.status]
           synced == IF c.meta
                     THEN [v \in DOMAIN versions |->
                             [versions[v] EXCEPT !.title = c.post.title, !.tags = c.post.tags]]
                     ELSE versions
<1>1. c.row \in Version /\ c.post \in Post /\ Names(c.post)
  BY DEF CallWhole, Writers, Names
<1>2. c.meta \in BOOLEAN /\ c.editing \in BOOLEAN
  BY DEF Call
<1>3. p = IF c.editing \/ c.meta THEN c.post ELSE post
  BY <1>2 DEF SaveWrites, UpdateAllVersionMeta, UpdateDraftByVersion, Update, db
<1>4. /\ DOMAIN vs = DOMAIN versions
      /\ vs = [w \in DOMAIN versions |->
                 IF w = c.version THEN Changed(synced[w], fields) ELSE synced[w]]
  BY <1>2 DEF SaveWrites, UpdateAllVersionMeta, UpdateDraftByVersion, Update, db
<1>5. \A w \in DOMAIN versions :
        /\ synced[w] \in Version
        /\ synced[w].status = versions[w].status /\ synced[w].content = versions[w].content
        /\ c.meta => SameMeta(synced[w], c.post)
        /\ ~c.meta => SameMeta(synced[w], versions[w])
  BY <1>1, <1>2 DEF TypeOK, Version, Post, SameMeta
<1>6. /\ fields.status = c.row.status /\ fields.content = c.row.content
      /\ "content" \in DOMAIN fields
      /\ fields.status \in Statuses /\ fields.content \in Contents
  BY <1>1 DEF Version
<1>7. DOMAIN synced = DOMAIN versions
  OBVIOUS
<1> HIDE DEF synced, fields
<1>8. \A w \in DOMAIN versions :
        /\ vs[w] \in Version /\ SameMeta(vs[w], synced[w])
        /\ w = c.version => vs[w].status = c.row.status /\ vs[w].content = c.row.content
        /\ w # c.version => vs[w] = synced[w]
  <2> SUFFICES ASSUME NEW w \in DOMAIN versions
               PROVE  /\ vs[w] \in Version /\ SameMeta(vs[w], synced[w])
                      /\ w = c.version => vs[w].status = c.row.status /\ vs[w].content = c.row.content
                      /\ w # c.version => vs[w] = synced[w]
    OBVIOUS
  <2>1. CASE w = c.version
    BY <1>4, <1>5, <1>6, <2>1, ChangedRow
  <2>2. CASE w # c.version
    BY <1>4, <1>5, <2>2 DEF SameMeta
  <2> QED BY <2>1, <2>2
<1>9. Rows(p, vs) /\ Names(p)
  <2>1. vs \in [DOMAIN vs -> Version]
    BY <1>4, <1>8
  <2> QED BY <1>1, <1>3, <1>4, <2>1 DEF TypeOK, Rows
<1>10. ASSUME Whole(post, versions), Knows(c) PROVE Whole(p, vs)
  <2>1. /\ c.version \in DOMAIN versions /\ (c.editing <=> post.published = c.version)
        /\ c.row.status = IF c.editing THEN "published" ELSE "draft"
        /\ c.post.published = post.published
        /\ ~c.meta => SameMeta(c.post, post)
        /\ c.editing => c.post.content = c.row.content /\ c.post.status = "published"
        /\ ~c.editing => c.post.content = post.content /\ c.post.status = post.status
    BY <1>10 DEF Knows
  <2>2. p.published = post.published /\ SameMeta(p, c.post)
    BY <1>3, <2>1 DEF SameMeta
  <2>3. \A w \in DOMAIN vs : SameMeta(vs[w], p)
    BY <1>2, <1>4, <1>5, <1>8, <1>10, <2>1, <2>2 DEF Whole, SameMeta
  <2>4. ASSUME p.published > 0
        PROVE  /\ p.published \in DOMAIN vs /\ p.content = vs[p.published].content
               /\ \A v \in DOMAIN vs : vs[v].status = "published" <=> v = p.published
    <3>1. post.published \in DOMAIN versions
      BY <1>10, <2>2, <2>4 DEF Whole
    <3>2. CASE c.editing
      BY <1>3, <1>4, <1>5, <1>8, <1>10, <2>1, <2>2, <2>4, <3>1, <3>2 DEF Whole
    <3>3. CASE ~c.editing
      BY <1>3, <1>4, <1>5, <1>8, <1>10, <2>1, <2>2, <2>4, <3>1, <3>3 DEF Whole
    <3> QED BY <3>2, <3>3
  <2> QED BY <1>4, <1>10, <2>3, <2>4 DEF Whole
<1>11. \A v \in DOMAIN vs :
         vs[v].content = IF v = c.version THEN c.row.content ELSE versions[v].content
  BY <1>4, <1>5, <1>8
<1> QED BY <1>3, <1>4, <1>9, <1>10, <1>11

\* What the deletion of a draft writes.
LEMMA DeleteWhole ==
  ASSUME TypeOK, Names(post), NEW c \in Call, CallWhole(c), c.at = "open", c.op = "delete_draft",
         NEW p, p = DeleteVersion(db, c.version).post,
         NEW vs, vs = DeleteVersion(db, c.version).versions
  PROVE  /\ Rows(p, vs) /\ Names(p)
         /\ Whole(post, versions) /\ Knows(c) => Whole(p, vs)
         /\ p = post /\ vs = [w \in DOMAIN versions \ {c.version} |-> versions[w]]
<1>1. p = post /\ vs = [w \in DOMAIN versions \ {c.version} |-> versions[w]]
  BY DEF DeleteVersion, Restrict, db
<1>2. Rows(p, vs)
  BY <1>1 DEF TypeOK, Rows
<1>3. Whole(post, versions) /\ Knows(c) => Whole(p, vs)
  BY <1>1 DEF Whole, Knows, SameMeta
<1> QED BY <1>1, <1>2, <1>3

\* What publishing writes: no version is marked but the one published.
LEMMA PublishWhole ==
  ASSUME TypeOK, Names(post), NEW c \in Call, CallWhole(c), c.at = "open", c.op = "publish",
         NEW p, p = PublishWrites(db, c).post, NEW vs, vs = PublishWrites(db, c).versions
  PROVE  /\ Rows(p, vs) /\ Names(p)
         /\ Whole(post, versions) /\ Knows(c) => Whole(p, vs)
         /\ p = c.post /\ SameContents(vs)
<1> DEFINE fields == [status |-> "published"]
           drafts == [v \in DOMAIN versions |-> [versions[v] EXCEPT !.status = "draft"]]
<1>1. c.post \in Post /\ Names(c.post)
  BY DEF CallWhole, Writers, Names
<1>2. p = c.post
  BY DEF PublishWrites, Update, UpdateDraftByVersion, SetAllDraftStatus, db
<1>3. /\ DOMAIN vs = DOMAIN versions
      /\ vs = [w \in DOMAIN versions |->
                 IF w = c.version THEN Changed(drafts[w], fields) ELSE drafts[w]]
  BY DEF PublishWrites, Update, UpdateDraftByVersion, SetAllDraftStatus, db
<1>4. \A w \in DOMAIN versions :
        /\ drafts[w] \in Version /\ drafts[w].status = "draft"
        /\ drafts[w].content = versions[w].content /\ SameMeta(drafts[w], versions[w])
  BY DEF TypeOK, Version, Statuses, SameMeta
<1>5. fields.status = "published" /\ "content" \notin DOMAIN fields /\ fields.status \in Statuses
  BY DEF Statuses
<1> HIDE DEF drafts, fields
<1>6. \A w \in DOMAIN versions :
        /\ vs[w] \in Version /\ SameMeta(vs[w], versions[w])
        /\ vs[w].content = versions[w].content
        /\ vs[w].status = IF w = c.version THEN "published" ELSE "draft"
  <2> SUFFICES ASSUME NEW w \in DOMAIN versions
               PROVE  /\ vs[w] \in Version /\ SameMeta(vs[w], versions[w])
                      /\ vs[w].content = versions[w].content
                      /\ vs[w].status = IF w = c.version THEN "published" ELSE "draft"
    OBVIOUS
  <2>1. CASE w = c.version
    <3>1. vs[w] = Changed(drafts[w], fields)
      BY <1>3, <2>1
    <3> QED BY <1>4, <1>5, <2>1, <3>1, ChangedRow DEF SameMeta
  <2>2. CASE w # c.version
    BY <1>3, <1>4, <2>2
  <2> QED BY <2>1, <2>2
<1>7. Rows(p, vs)
  <2>1. vs \in [DOMAIN vs -> Version]
    BY <1>3, <1>6
  <2> QED BY <1>1, <1>2, <1>3, <2>1 DEF TypeOK, Rows
<1>8. ASSUME Whole(post, versions), Knows(c) PROVE Whole(p, vs)
  <2>1. /\ c.version \in DOMAIN versions /\ p.published = c.version
        /\ SameMeta(p, versions[c.version]) /\ p.content = versions[c.version].content
    BY <1>2, <1>8 DEF Knows
  <2>2. \A w \in DOMAIN vs : SameMeta(vs[w], p)
    BY <1>3, <1>6, <1>8, <2>1 DEF Whole, SameMeta
  <2> QED BY <1>3, <1>6, <1>8, <2>1, <2>2 DEF Whole
<1>9. SameContents(vs)
  BY <1>3, <1>6 DEF SameContents
<1> QED BY <1>1, <1>2, <1>7, <1>8, <1>9

\* What taking a post back writes.
LEMMA UnpublishWhole ==
  ASSUME TypeOK, Names(post), NEW c \in Call, CallWhole(c), c.at = "open", c.op = "unpublish",
         NEW p, p = UnpublishWrites(db, c).post, NEW vs, vs = UnpublishWrites(db, c).versions
  PROVE  /\ Rows(p, vs) /\ Names(p)
         /\ Whole(post, versions) /\ Knows(c) => Whole(p, vs)
         /\ p = c.post /\ SameContents(vs)
<1> DEFINE fields == [status |-> "draft"]
<1>1. c.post \in Post /\ Names(c.post) /\ ~(c.post.published > 0)
  BY DEF CallWhole, Writers, Names
<1>2. p = c.post
  BY DEF UnpublishWrites, Update, UpdateDraftByVersion, db
<1>3. /\ DOMAIN vs = DOMAIN versions
      /\ vs = [w \in DOMAIN versions |->
                 IF w = c.version THEN Changed(versions[w], fields) ELSE versions[w]]
  BY DEF UnpublishWrites, Update, UpdateDraftByVersion, db
<1>4. fields.status \in Statuses /\ "content" \notin DOMAIN fields
  BY DEF Statuses
<1> HIDE DEF fields
<1>5. \A w \in DOMAIN versions :
        /\ vs[w] \in Version /\ SameMeta(vs[w], versions[w])
        /\ vs[w].content = versions[w].content
  <2> SUFFICES ASSUME NEW w \in DOMAIN versions
               PROVE  /\ vs[w] \in Version /\ SameMeta(vs[w], versions[w])
                      /\ vs[w].content = versions[w].content
    OBVIOUS
  <2>1. versions[w] \in Version
    BY DEF TypeOK
  <2>2. CASE w = c.version
    <3>1. vs[w] = Changed(versions[w], fields)
      BY <1>3, <2>2
    <3> QED BY <1>4, <2>1, <3>1, ChangedRow
  <2>3. CASE w # c.version
    BY <1>3, <2>1, <2>3 DEF SameMeta
  <2> QED BY <2>2, <2>3
<1>6. Rows(p, vs)
  <2>1. vs \in [DOMAIN vs -> Version]
    BY <1>3, <1>5
  <2> QED BY <1>1, <1>2, <1>3, <2>1 DEF TypeOK, Rows
<1>7. Whole(post, versions) /\ Knows(c) => Whole(p, vs)
  BY <1>1, <1>2, <1>3, <1>5 DEF Whole, Knows, SameMeta
<1>8. SameContents(vs)
  BY <1>3, <1>5 DEF SameContents
<1> QED BY <1>1, <1>2, <1>6, <1>7, <1>8

\* What a change of title or tags writes.
LEMMA MetaWhole ==
  ASSUME TypeOK, Names(post), NEW c \in Call, CallWhole(c), c.at = "open", c.op = "meta",
         NEW p, p = MetaWrites(db, c).post, NEW vs, vs = MetaWrites(db, c).versions
  PROVE  /\ Rows(p, vs) /\ Names(p)
         /\ Whole(post, versions) /\ Knows(c) => Whole(p, vs)
         /\ p = c.post /\ SameContents(vs)
<1>1. c.post \in Post /\ Names(c.post)
  BY DEF CallWhole, Writers, Names
<1>2. /\ p = c.post
      /\ DOMAIN vs = DOMAIN versions
      /\ vs = [v \in DOMAIN versions |->
                 [versions[v] EXCEPT !.title = c.post.title, !.tags = c.post.tags]]
  BY DEF MetaWrites, UpdateAllVersionMeta, Update, db
<1>3. \A w \in DOMAIN versions :
        /\ vs[w] \in Version /\ SameMeta(vs[w], p)
        /\ vs[w].content = versions[w].content /\ vs[w].status = versions[w].status
  <2> SUFFICES ASSUME NEW w \in DOMAIN versions
               PROVE  /\ vs[w] \in Version /\ SameMeta(vs[w], p)
                      /\ vs[w].content = versions[w].content
                      /\ vs[w].status = versions[w].status
    OBVIOUS
  <2>1. vs[w] = [versions[w] EXCEPT !.title = c.post.title, !.tags = c.post.tags]
    BY <1>2
  <2>2. versions[w] \in Version /\ c.post.title \in Titles /\ c.post.tags \in Tags
    BY <1>1 DEF TypeOK, Post
  <2> QED BY <1>2, <2>1, <2>2 DEF Version, SameMeta
<1>4. Rows(p, vs)
  <2>1. vs \in [DOMAIN vs -> Version]
    BY <1>2, <1>3
  <2> QED BY <1>1, <1>2, <2>1 DEF TypeOK, Rows
<1>5. ASSUME Whole(post, versions), Knows(c) PROVE Whole(p, vs)
  <2>1. p.published = post.published /\ p.content = post.content
    BY <1>2, <1>5 DEF Knows, SameState
  <2>2. DOMAIN vs = DOMAIN versions
    BY <1>2
  <2>3. p.published > 0 =>
          /\ p.published \in DOMAIN vs /\ p.content = vs[p.published].content
          /\ \A v \in DOMAIN vs : vs[v].status = "published" <=> v = p.published
    BY <1>3, <1>5, <2>1, <2>2 DEF Whole
  <2>4. (\A v \in DOMAIN vs : SameMeta(vs[v], p)) /\ DOMAIN vs # {}
    BY <1>3, <1>5, <2>2 DEF Whole
  <2> QED BY <2>3, <2>4 DEF Whole
<1>6. SameContents(vs)
  BY <1>2, <1>3 DEF SameContents
<1> QED BY <1>1, <1>2, <1>4, <1>5, <1>6

\* What hiding a post writes.
LEMMA HideWhole ==
  ASSUME TypeOK, Names(post), NEW c \in Call, CallWhole(c), c.at = "open", c.op = "hide",
         NEW p, p = Update(db, c.post).post, NEW vs, vs = Update(db, c.post).versions
  PROVE  /\ Rows(p, vs) /\ Names(p)
         /\ Whole(post, versions) /\ Knows(c) => Whole(p, vs)
         /\ p = c.post /\ vs = versions
<1>1. c.post \in Post /\ Names(c.post) /\ ~(c.post.published > 0)
  BY DEF CallWhole, Writers, Names
<1>2. p = c.post /\ vs = versions
  BY DEF Update, db
<1>3. Rows(p, vs)
  BY <1>1, <1>2 DEF TypeOK, Rows
<1>4. Whole(post, versions) /\ Knows(c) => Whole(p, vs)
  BY <1>1, <1>2 DEF Whole, Knows, SameMeta
<1> QED BY <1>1, <1>2, <1>3, <1>4

\* Whole as PostVersions says it.
LEMMA WholeRows ==
  ASSUME NEW p, NEW vs
  PROVE  Whole(p, vs) <=>
           /\ p.published > 0 =>
                /\ {v \in DOMAIN vs : vs[v].status = "published"} = {p.published}
                /\ p.content = vs[p.published].content
           /\ \A v \in DOMAIN vs : <<vs[v].title, vs[v].tags>> = <<p.title, p.tags>>
           /\ DOMAIN vs # {}
<1>1. {v \in DOMAIN vs : vs[v].status = "published"} = {p.published}
      <=> /\ p.published \in DOMAIN vs
          /\ \A v \in DOMAIN vs : vs[v].status = "published" <=> v = p.published
  OBVIOUS
<1> QED BY <1>1 DEF Whole, SameMeta

\* PostWhole is Whole of the rows as they are.
LEMMA PostWholeIsWhole ==
  PostWhole <=> Names(post) /\ (~overlapped => Whole(post, versions))
BY WholeRows DEF PostWhole, PublishedNamesVersion, PublicationWhole, MetaShared, VersionLeft, Names

\* The last step of a call: its statements at once, after which no open call
\* knows the rows any more.
LEMMA CommitKeeps ==
  ASSUME PostInv, NEW r \in Requests, Commit(r)
  PROVE  PostInv'
<1> DEFINE c == calls[r]
           p == Written(db, c).post
           vs == Written(db, c).versions
<1>1. /\ c \in Call /\ CallWhole(c) /\ c.at = "open" /\ TypeOK /\ Names(post)
      /\ c.op = "copy" => c.version \notin DOMAIN versions
      /\ post' = p /\ versions' = vs /\ begun' = begun
      /\ overlapped' = (overlapped \/ c.stale)
      /\ calls' = [q \in Requests |-> IF q = r THEN [c EXCEPT !.at = "committed"]
                                      ELSE [calls[q] EXCEPT !.stale = calls[q].at = "open"]]
  BY PostWholeIsWhole DEF PostInv, TypeOK, CallsWhole, Commit
<1>2. overlapped \in BOOLEAN /\ c.stale \in BOOLEAN
  BY <1>1 DEF TypeOK, Call
<1>3. ~overlapped' => Whole(post, versions) /\ Knows(c)
  BY <1>1, <1>2, PostWholeIsWhole DEF PostInv, Fresh
<1>4. c.op # "none"
  BY <1>1 DEF CallWhole
<1> HIDE DEF c
<1>5. /\ Rows(p, vs) /\ Names(p)
      /\ Whole(post, versions) /\ Knows(c) => Whole(p, vs)
  <2>1. CASE c.op = "copy"
    BY <1>1, <2>1, CopyWhole DEF Written
  <2>2. CASE c.op = "save"
    BY <1>1, <2>2, SaveWhole DEF Written
  <2>3. CASE c.op = "delete_draft"
    BY <1>1, <2>3, DeleteWhole DEF Written
  <2>4. CASE c.op = "publish"
    BY <1>1, <2>4, PublishWhole DEF Written
  <2>5. CASE c.op = "unpublish"
    BY <1>1, <2>5, UnpublishWhole DEF Written
  <2>6. CASE c.op = "meta"
    BY <1>1, <2>6, MetaWhole DEF Written
  <2>7. CASE c.op = "hide"
    BY <1>1, <2>7, HideWhole DEF Written
  <2>8. c.op \in {"none", "copy", "save", "delete_draft", "publish", "unpublish", "meta", "hide"}
    BY <1>1 DEF Call
  <2> HIDE DEF p, vs
  <2> QED BY <1>4, <2>1, <2>2, <2>3, <2>4, <2>5, <2>6, <2>7, <2>8
<1> HIDE DEF p, vs
<1>6. \A q \in Requests :
        /\ calls'[q] \in Call
        /\ CallWhole(calls'[q])
        /\ ~(calls'[q].at = "open" /\ ~calls'[q].stale)
  <2> SUFFICES ASSUME NEW q \in Requests
               PROVE  /\ calls'[q] \in Call
                      /\ CallWhole(calls'[q])
                      /\ ~(calls'[q].at = "open" /\ ~calls'[q].stale)
    OBVIOUS
  <2>1. calls[q] \in Call /\ CallWhole(calls[q])
    BY DEF PostInv, TypeOK, CallsWhole
  <2>2. CASE q = r
    <3>1. calls'[q] = [c EXCEPT !.at = "committed"]
      BY <1>1, <2>2
    <3> QED BY <1>1, <3>1 DEF Call, CallWhole
  <2>3. CASE q # r
    <3>1. calls'[q] = [calls[q] EXCEPT !.stale = calls[q].at = "open"]
      BY <1>1, <2>3
    <3> QED BY <2>1, <3>1 DEF Call, CallWhole
  <2> QED BY <2>2, <2>3
<1>7. TypeOK'
  <2>1. calls' \in [Requests -> Call]
    BY <1>1, <1>6
  <2>2. overlapped' \in BOOLEAN /\ begun' \in 0..MaxCalls
    BY <1>1, <1>2 DEF TypeOK
  <2> QED BY <1>1, <1>5, <2>1, <2>2 DEF TypeOK, Rows
<1>8. PostWhole'
  <2>1. Names(post') /\ (~overlapped' => Whole(post', versions'))
    BY <1>1, <1>3, <1>5
  <2> QED
    BY <2>1, WholeRows
    DEF PostWhole, PublishedNamesVersion, PublicationWhole, MetaShared, VersionLeft, Names
<1>9. CallsWhole' /\ Fresh'
  BY <1>6 DEF CallsWhole, Fresh
<1> QED BY <1>7, <1>8, <1>9 DEF PostInv

\* Calls end, by themselves or with the process.
LEMMA EndKeeps ==
  ASSUME PostInv, UNCHANGED <<post, versions, begun, overlapped>>,
         \A q \in Requests : calls'[q] \in {calls[q], Idle},
         DOMAIN calls' = Requests, calls' = [q \in Requests |-> calls'[q]]
  PROVE  PostInv'
<1>1. Idle \in Call /\ Idle.at = "idle"
  <2>1. 0 \in 0..MaxVersion
    BY PostAssumption
  <2> QED BY <2>1 DEF Call, Idle
<1>2. calls' \in [Requests -> Call]
  BY <1>1 DEF PostInv, TypeOK
<1>3. TypeOK'
  BY <1>2 DEF PostInv, TypeOK
<1>4. PostWhole'
  BY DEF PostInv, PostWhole, PublishedNamesVersion, PublicationWhole, MetaShared, VersionLeft
<1>5. CallsWhole'
  BY <1>1 DEF PostInv, CallsWhole, CallWhole
<1>6. Fresh'
  BY <1>1, KnowsTheSame DEF PostInv, Fresh
<1> QED BY <1>3, <1>4, <1>5, <1>6 DEF PostInv

\* A post just created is whole.
LEMMA InitPostInv == Init => PostInv
<1> SUFFICES ASSUME Init PROVE PostInv
  OBVIOUS
<1>1. PICK t \in Titles, g \in Tags, c \in Contents : CreateDraft(t, g, c)
  BY DEF Init
<1>2. /\ post = [title |-> t, tags |-> g, content |-> c, status |-> "draft", published |-> 0]
      /\ versions = [v \in {1} |-> Blank(t, g, c)]
      /\ 0 \in 0..MaxVersion /\ 1 \in Numbers /\ 0 \in 0..MaxCalls
  BY <1>1, PostAssumption DEF CreateDraft, Numbers
<1>3. post \in Post /\ Blank(t, g, c) \in Version
  BY <1>2 DEF Post, Version, Statuses, Blank
<1>4. Idle \in Call /\ Idle.at = "idle"
  BY <1>2 DEF Call, Idle
<1>5. calls = [r \in Requests |-> Idle] /\ begun = 0 /\ overlapped = FALSE
  BY DEF Init
<1>6. TypeOK
  BY <1>2, <1>3, <1>4, <1>5 DEF TypeOK
<1>7. PostWhole
  BY <1>2 DEF PostWhole, PublishedNamesVersion, PublicationWhole, MetaShared, VersionLeft, Blank
<1>8. CallsWhole /\ Fresh
  BY <1>4, <1>5 DEF CallsWhole, CallWhole, Fresh
<1> QED BY <1>6, <1>7, <1>8 DEF PostInv

\* Every step keeps the invariant.
LEMMA StepPostInv == PostInv /\ [Next]_vars => PostInv'
<1> SUFFICES ASSUME PostInv, [Next]_vars PROVE PostInv'
  OBVIOUS
<1>1. ASSUME NEW r \in Requests, Operation(r) PROVE PostInv'
  BY <1>1, PickKeeps, CopyKeeps, SaveKeeps, DeleteDraftKeeps, PublishKeeps, UnpublishKeeps,
     UpdateMetaKeeps, DeletePostKeeps
  DEF Operation
<1>2. ASSUME NEW r \in Requests, Commit(r) PROVE PostInv'
  BY <1>2, CommitKeeps
<1>3. ASSUME NEW r \in Requests, End(r) PROVE PostInv'
  BY <1>3, EndKeeps DEF End, PostInv, TypeOK
<1>4. CASE Crash
  BY <1>4, EndKeeps DEF Crash
<1>5. CASE UNCHANGED vars
  BY <1>5, EndKeeps DEF vars, PostInv, TypeOK
<1> QED BY <1>1, <1>2, <1>3, <1>4, <1>5 DEF Next

----------------------------------------------------------------------------
(* Theorems about posts                                                     *)

\* post_publish_service.go, post_draft_service.go, post_meta_service.go: however
\* calls overlap, a post is published exactly when it names a version; and
\* unless one has written over rows that changed since it read them, it shows
\* its published version, the only one marked so, and title and tags are the
\* same everywhere.
THEOREM PostsAreWhole == Spec => []PostWhole
<1>1. PostInv => PostWhole
  BY DEF PostInv
<1> QED BY <1>1, InitPostInv, StepPostInv, PTL DEF Spec

\* Only the last step of a call writes the post.
LEMMA StepPublishes ==
  PostInv /\ [Next]_vars =>
    [post.status # "published" /\ post'.status = "published" =>
       \E r \in Requests : /\ calls[r].at = "open" /\ calls'[r].at = "committed"
                           /\ calls[r].op = "publish" \/ calls[r].stale]_vars
<1> SUFFICES ASSUME PostInv, Next, post.status # "published", post'.status = "published"
             PROVE  \E r \in Requests : /\ calls[r].at = "open" /\ calls'[r].at = "committed"
                                        /\ calls[r].op = "publish" \/ calls[r].stale
  OBVIOUS
<1>1. post' # post
  OBVIOUS
<1>2. PICK r \in Requests : Commit(r)
  <2>1. ASSUME NEW r \in Requests, Operation(r) PROVE post' = post
    BY <2>1 DEF Operation, PickToSave, PickToPublish, CreateDraftCopy, SaveDraftByVersion, DeleteDraft,
                PublishDraft, Unpublish, UpdateMeta, DeletePost, Begin
  <2> QED BY <1>1, <2>1 DEF Next, End, Crash
<1> DEFINE c == calls[r]
<1>3. /\ c \in Call /\ CallWhole(c) /\ c.at = "open" /\ post' = Written(db, c).post
      /\ calls' = [q \in Requests |-> IF q = r THEN [c EXCEPT !.at = "committed"]
                                      ELSE [calls[q] EXCEPT !.stale = calls[q].at = "open"]]
      /\ ~c.stale => Knows(c)
  BY <1>2 DEF PostInv, TypeOK, CallsWhole, Fresh, Commit
<1>4. calls'[r].at = "committed"
  <2>1. calls'[r] = [c EXCEPT !.at = "committed"]
    BY <1>3
  <2> QED BY <1>3, <2>1 DEF Call
<1> HIDE DEF c
<1>5. ASSUME ~c.stale, c.op # "publish" PROVE FALSE
  <2>1. Knows(c) /\ CallWhole(c)
    BY <1>3, <1>5
  <2>2. CASE c.op = "copy"
    BY <1>1, <1>3, <2>2 DEF Written, CopyWrites, CreateVersion, db
  <2>3. CASE c.op = "save"
    <3>1. Written(db, c).post \in {post, c.post}
      BY <2>3 DEF Written, SaveWrites, UpdateAllVersionMeta, UpdateDraftByVersion, Update, db
    <3>2. c.post.status = "published" <=> c.post.published > 0
      BY <1>3, <2>1, <2>3 DEF CallWhole, Writers
    <3>3. c.post.published = post.published
      BY <2>1, <2>3 DEF Knows
    <3> QED BY <1>3, <3>1, <3>2, <3>3 DEF PostInv, PostWhole, PublishedNamesVersion
  <2>4. CASE c.op = "delete_draft"
    BY <1>1, <1>3, <2>4 DEF Written, DeleteVersion, db
  <2>5. CASE c.op = "unpublish"
    BY <1>3, <2>1, <2>5 DEF Written, UnpublishWrites, UpdateDraftByVersion, Update, db, CallWhole
  <2>6. CASE c.op = "meta"
    BY <1>3, <2>1, <2>6 DEF Written, MetaWrites, UpdateAllVersionMeta, Update, db, Knows, SameState
  <2>7. CASE c.op = "hide"
    BY <1>3, <2>1, <2>7 DEF Written, Update, db, CallWhole
  <2>8. c.op \in {"none", "copy", "save", "delete_draft", "publish", "unpublish", "meta", "hide"}
    BY <1>3 DEF Call
  <2>9. c.op # "none"
    BY <1>3 DEF CallWhole
  <2> QED BY <1>5, <2>2, <2>3, <2>4, <2>5, <2>6, <2>7, <2>8, <2>9
<1> QED BY <1>3, <1>4, <1>5 DEF c

\* A post comes to be published by PublishDraft, or by the save of a call that
\* read it published before it was taken back.
THEOREM PublishedOnlyByPublishing == Spec => PublishedByPublishing
<1> QED BY InitPostInv, StepPostInv, StepPublishes, PTL DEF Spec, PublishedByPublishing

----------------------------------------------------------------------------
(* Posts implement what Publication promises                                *)

\* What is published is held by a version.
LEMMA PublishedIsHeld ==
  ASSUME NEW p, NEW vs, Whole(p, vs), Names(p), p.status = "published"
  PROVE  p.content \in Held(vs)
BY DEF Whole, Names, Held

\* A copy holds nothing new.
LEMMA CopyIsCopy ==
  ASSUME TypeOK, Names(post), NEW c \in Call, CallWhole(c), Knows(c), c.at = "open",
         c.op = "copy", c.version \notin DOMAIN versions,
         post' = CopyWrites(db, c).post, versions' = CopyWrites(db, c).versions
  PROVE  Promise!Copy
<1> DEFINE p == CopyWrites(db, c).post
           vs == CopyWrites(db, c).versions
<1>1. p = post /\ Held(vs) = Held(versions) \cup {c.row.content}
  BY CopyWhole
<1>2. c.row.content \in Held(versions)
  BY DEF Knows
<1> HIDE DEF p, vs
<1>3. post' = post /\ Held(versions)' = Held(versions)
  <2>1. post' = p /\ Held(versions)' = Held(vs)
    BY DEF p, vs, Held
  <2> QED BY <1>1, <1>2, <2>1
<1> QED BY <1>3 DEF Promise!Copy, Held

\* One content of the versions is replaced.
LEMMA HeldReplaced ==
  ASSUME NEW vs, NEW v \in DOMAIN versions, NEW k, DOMAIN vs = DOMAIN versions,
         \A w \in DOMAIN vs : vs[w].content = IF w = v THEN k ELSE versions[w].content
  PROVE  \E old \in Held(versions) :
           Held(vs) \in {Held(versions) \cup {k}, (Held(versions) \ {old}) \cup {k}}
<1> DEFINE old == versions[v].content
<1>1. old \in Held(versions)
  BY DEF Held
<1>2. k \in Held(vs) /\ \A w \in DOMAIN versions : w # v => versions[w].content \in Held(vs)
  BY DEF Held
<1>3. Held(vs) \subseteq Held(versions) \cup {k}
  BY DEF Held
<1>4. Held(versions) \ {old} \subseteq Held(vs)
  BY <1>2 DEF Held
<1> HIDE DEF old
<1>5. CASE old \in Held(vs)
  <2>1. Held(vs) = Held(versions) \cup {k}
    BY <1>2, <1>3, <1>4, <1>5
  <2> QED BY <1>1, <2>1
<1>6. CASE old \notin Held(vs)
  <2>1. Held(vs) = (Held(versions) \ {old}) \cup {k}
    BY <1>2, <1>3, <1>4, <1>6
  <2> QED BY <1>1, <2>1
<1> QED BY <1>5, <1>6

\* A save replaces a content, and the readers' when it is of what they see.
LEMMA SaveIsSave ==
  ASSUME TypeOK, Names(post), ~overlapped => Whole(post, versions),
         NEW c \in Call, CallWhole(c), Knows(c), c.at = "open", c.op = "save",
         post' = SaveWrites(db, c).post, versions' = SaveWrites(db, c).versions
  PROVE  Promise!Save
<1> DEFINE p == SaveWrites(db, c).post
           vs == SaveWrites(db, c).versions
<1>1. /\ Rows(p, vs) /\ Names(p)
      /\ ~overlapped => Whole(p, vs)
      /\ p = (IF c.editing \/ c.meta THEN c.post ELSE post)
      /\ DOMAIN vs = DOMAIN versions
      /\ \A v \in DOMAIN vs :
           vs[v].content = IF v = c.version THEN c.row.content ELSE versions[v].content
  BY SaveWhole
<1>2. post' = p /\ versions' = vs
  OBVIOUS
<1> HIDE DEF p, vs
<1>3. /\ c.version \in DOMAIN versions /\ (c.editing <=> post.published = c.version)
      /\ c.post.published = post.published
      /\ c.post.tags = versions[c.version].tags
      /\ c.editing => c.post.content = c.row.content /\ c.post.status = "published"
      /\ ~c.editing => c.post.content = post.content /\ c.post.status = post.status
  BY DEF Knows
<1>4. p.title \in Titles /\ c.row.content \in Contents
  <2>1. p \in Post /\ c.row \in Version
    BY <1>1 DEF Rows, CallWhole
  <2> QED BY <2>1 DEF Post, Version
<1>5. overlapped \/ p.tags = post.tags
  <2>1. CASE p = post
    BY <2>1
  <2>2. CASE p = c.post /\ ~overlapped
    BY <1>3, <2>2 DEF Whole, SameMeta
  <2> QED BY <1>1, <2>1, <2>2
<1>6. p.status = post.status
  <2>1. CASE c.editing
    <3>1. post.published > 0
      BY <1>3, <2>1, PostAssumption DEF TypeOK, Numbers
    <3> QED BY <1>1, <1>3, <2>1, <3>1 DEF Names
  <2>2. CASE ~c.editing
    BY <1>1, <1>3, <2>2
  <2> QED BY <2>1, <2>2
<1>7. p.content = post.content \/ (post.status = "published" /\ p.content = c.row.content)
  <2>1. CASE c.editing
    BY <1>1, <1>3, <1>6, <2>1
  <2>2. CASE ~c.editing
    BY <1>1, <1>3, <2>2
  <2> QED BY <2>1, <2>2
<1>8. \E old \in Held(versions) :
        Held(vs) \in {Held(versions) \cup {c.row.content},
                      (Held(versions) \ {old}) \cup {c.row.content}}
  <2>1. /\ DOMAIN vs = DOMAIN versions /\ c.version \in DOMAIN versions
        /\ \A v \in DOMAIN vs :
             vs[v].content = IF v = c.version THEN c.row.content ELSE versions[v].content
    BY <1>1, <1>3
  <2> QED BY ONLY <2>1, HeldReplaced
<1>9. ~overlapped /\ post.status = "published" => p.content \in Held(vs)
  <2> SUFFICES ASSUME ~overlapped, post.status = "published" PROVE p.content \in Held(vs)
    OBVIOUS
  <2>1. Whole(p, vs) /\ Names(p) /\ p.status = "published"
    BY <1>1, <1>6
  <2> QED BY <2>1, PublishedIsHeld
<1>10. Held(versions)' = Held(vs)
  BY <1>2 DEF Held
<1>11. Promise!Kept
  BY <1>2, <1>9, <1>10 DEF Promise!Kept, Held
<1>12. \E k \in Contents :
         /\ post'.content = post.content \/ (post.status = "published" /\ post'.content = k)
         /\ \E old \in Held(versions) :
              Held(versions)' \in {Held(versions) \cup {k}, (Held(versions) \ {old}) \cup {k}}
  BY <1>2, <1>4, <1>7, <1>8, <1>10
<1> QED BY <1>2, <1>4, <1>5, <1>6, <1>11, <1>12 DEF Promise!Save, Held

\* The deletion of a draft takes at most its content, and never what is published.
LEMMA DeleteIsDiscard ==
  ASSUME TypeOK, Names(post), ~overlapped => Whole(post, versions),
         NEW c \in Call, CallWhole(c), Knows(c), c.at = "open", c.op = "delete_draft",
         post' = DeleteVersion(db, c.version).post,
         versions' = DeleteVersion(db, c.version).versions
  PROVE  Promise!Discard
<1> DEFINE p == DeleteVersion(db, c.version).post
           vs == DeleteVersion(db, c.version).versions
<1>1. /\ Names(p)
      /\ ~overlapped => Whole(p, vs)
      /\ p = post /\ vs = [w \in DOMAIN versions \ {c.version} |-> versions[w]]
  BY DeleteWhole
<1>2. post' = p /\ versions' = vs
  OBVIOUS
<1> HIDE DEF p, vs
<1>3. PICK v \in DOMAIN versions : v # c.version
  BY DEF Knows
<1>4. Held(vs) # {} /\ Held(vs) \subseteq Held(versions)
  BY <1>1, <1>3 DEF Held
<1>5. \A w \in DOMAIN versions : w # c.version => versions[w].content \in Held(vs)
  BY <1>1 DEF Held
<1>6. \E old \in Held(versions) : Held(vs) \in {Held(versions), Held(versions) \ {old}}
  <2>1. CASE Held(vs) = Held(versions)
    BY <1>4, <2>1
  <2>2. CASE Held(vs) # Held(versions)
    <3>1. PICK old \in Held(versions) : old \notin Held(vs)
      BY <1>4, <2>2
    <3>2. c.version \in DOMAIN versions /\ old = versions[c.version].content
      BY <1>5, <3>1 DEF Held
    <3>3. Held(versions) \ {old} \subseteq Held(vs)
      BY <1>5, <3>2 DEF Held
    <3>4. Held(vs) = Held(versions) \ {old}
      BY <1>4, <3>1, <3>3
    <3> QED BY <3>1, <3>4
  <2> QED BY <2>1, <2>2
<1>7. ~overlapped /\ post.status = "published" => p.content \in Held(vs)
  BY <1>1, PublishedIsHeld
<1>8. Held(versions)' = Held(vs)
  BY <1>2 DEF Held
<1>9. Promise!Kept
  BY <1>2, <1>7, <1>8 DEF Promise!Kept, Held
<1>10. \E old \in Held(versions) : Held(versions)' \in {Held(versions), Held(versions) \ {old}}
  BY <1>6, <1>8
<1>11. Held(versions)' # {} /\ post' = post
  BY <1>1, <1>2, <1>4, <1>8
<1> QED BY <1>9, <1>10, <1>11 DEF Promise!Discard, Held

\* The other operations write the row of the post and no content.
LEMMA WriteIsChange ==
  ASSUME TypeOK, Names(post), ~overlapped => Whole(post, versions),
         NEW c \in Call, CallWhole(c), Knows(c), c.at = "open",
         c.op \in {"publish", "unpublish", "meta", "hide"},
         post' = c.post, Held(versions)' = Held(versions)
  PROVE  Promise!Publish \/ Promise!Unpublish \/ Promise!Retitle \/ Promise!Hide
<1>1. c.post \in Post
  BY DEF CallWhole, Writers
<1>2. CASE c.op = "publish"
  <2>1. c.post.status = "published"
    BY <1>2 DEF CallWhole
  <2>2. /\ c.version \in DOMAIN versions /\ SameMeta(c.post, versions[c.version])
        /\ c.post.content = versions[c.version].content
    BY <1>2 DEF Knows
  <2>3. c.post.content \in Held(versions)
    BY <2>2 DEF Held
  <2>4. overlapped \/ (c.post.title = post.title /\ c.post.tags = post.tags)
    BY <2>2 DEF Whole, SameMeta
  <2> QED BY <2>1, <2>3, <2>4 DEF Promise!Publish, Held
<1>3. CASE c.op = "unpublish"
  BY <1>3 DEF Promise!Unpublish, Held, Knows, SameMeta, CallWhole
<1>4. CASE c.op = "meta"
  BY <1>1, <1>4 DEF Promise!Retitle, Held, Knows, SameState, Post
<1>5. CASE c.op = "hide"
  BY <1>5 DEF Promise!Hide, Held, Knows, SameMeta, CallWhole
<1> QED BY <1>2, <1>3, <1>4, <1>5

\* Versions that hold the same contents.
LEMMA HeldTheSame ==
  ASSUME NEW vs, SameContents(vs) PROVE Held(vs) = Held(versions)
BY DEF SameContents, Held

\* The transaction of a call that knows the rows is one change.
LEMMA FreshIsChange ==
  ASSUME PostInv, NEW r \in Requests, Commit(r), ~calls[r].stale
  PROVE  Promise!Change
<1> DEFINE c == calls[r]
           p == Written(db, c).post
           vs == Written(db, c).versions
<1>1. /\ c \in Call /\ CallWhole(c) /\ c.at = "open" /\ TypeOK /\ Names(post)
      /\ c.op = "copy" => c.version \notin DOMAIN versions
      /\ post' = p /\ versions' = vs
      /\ overlapped' = (overlapped \/ c.stale)
  BY PostWholeIsWhole DEF PostInv, TypeOK, CallsWhole, Commit
<1>2. overlapped' = overlapped
  BY <1>1 DEF TypeOK
<1>3. Knows(c) /\ (~overlapped => Whole(post, versions))
  BY <1>1, PostWholeIsWhole DEF PostInv, Fresh
<1>4. c.op # "none"
  BY <1>1 DEF CallWhole
<1> HIDE DEF c
<1>5. \/ Promise!Publish \/ Promise!Save \/ Promise!Copy \/ Promise!Discard
      \/ Promise!Retitle \/ Promise!Unpublish \/ Promise!Hide
  <2>1. CASE c.op = "copy"
    BY <1>1, <1>3, <2>1, CopyIsCopy DEF Written
  <2>2. CASE c.op = "save"
    BY <1>1, <1>3, <2>2, SaveIsSave DEF Written
  <2>3. CASE c.op = "delete_draft"
    BY <1>1, <1>3, <2>3, DeleteIsDiscard DEF Written
  <2>4. CASE c.op \in {"publish", "unpublish", "meta", "hide"}
    <3>1. p = c.post /\ Held(vs) = Held(versions)
      <4>1. CASE c.op = "publish"
        BY <1>1, <4>1, PublishWhole, HeldTheSame DEF Written
      <4>2. CASE c.op = "unpublish"
        BY <1>1, <4>2, UnpublishWhole, HeldTheSame DEF Written
      <4>3. CASE c.op = "meta"
        BY <1>1, <4>3, MetaWhole, HeldTheSame DEF Written
      <4>4. CASE c.op = "hide"
        BY <1>1, <4>4, HideWhole DEF Written
      <4> QED BY <2>4, <4>1, <4>2, <4>3, <4>4
    <3> HIDE DEF p, vs
    <3>2. post' = c.post /\ Held(versions)' = Held(versions)
      BY <1>1, <3>1 DEF Held
    <3> QED BY <1>1, <1>3, <2>4, <3>2, WriteIsChange
  <2>8. c.op \in {"none", "copy", "save", "delete_draft", "publish", "unpublish", "meta", "hide"}
    BY <1>1 DEF Call
  <2> HIDE DEF p, vs
  <2> QED BY <1>4, <2>1, <2>2, <2>3, <2>4, <2>8
<1> QED BY <1>2, <1>5 DEF Promise!Change

\* The first step of a call leaves the rows and the calls that have committed alone,
\* and is not behind what it has read; a change of nothing counts as committed at once.
LEMMA OperationSays ==
  ASSUME PostInv, NEW r \in Requests, Operation(r)
  PROVE  /\ UNCHANGED <<post, versions, overlapped>>
         /\ calls[r].at # "committed" /\ ~calls'[r].stale
         /\ \A q \in Requests \ {r} : calls'[q] = calls[q]
         /\ calls'[r].at = "committed" => calls'[r].op = "meta" /\ calls'[r].post = post
<1> USE DEF PostInv, TypeOK, Begin, Free, Versioned, Open, Idle
<1>1. CASE PickToSave(r)
  BY <1>1 DEF PickToSave
<1>2. CASE PickToPublish(r)
  BY <1>2 DEF PickToPublish
<1>3. CASE CreateDraftCopy(r)
  BY <1>3 DEF CreateDraftCopy
<1>4. CASE SaveDraftByVersion(r)
  BY <1>4 DEF SaveDraftByVersion
<1>5. CASE DeleteDraft(r)
  BY <1>5 DEF DeleteDraft
<1>6. CASE PublishDraft(r)
  BY <1>6 DEF PublishDraft
<1>7. CASE Unpublish(r)
  BY <1>7 DEF Unpublish
<1>8. CASE UpdateMeta(r)
  BY <1>8 DEF UpdateMeta
<1>9. CASE DeletePost(r)
  BY <1>9 DEF DeletePost
<1> QED BY <1>1, <1>2, <1>3, <1>4, <1>5, <1>6, <1>7, <1>8, <1>9 DEF Operation

\* A step that writes nothing changes nothing, but that a late change may be given up.
LEMMA ReadsAreStutters ==
  ASSUME UNCHANGED <<post, versions, overlapped>>,
         \A q \in Requests : calls'[q] = calls[q] \/ ~calls'[q].stale
  PROVE  Promise!Forget \/ UNCHANGED Promise!vars
<1> DEFINE Late(cs) == \E q \in Requests : cs[q].at = "open" /\ cs[q].stale
<1>1. Late(calls') => Late(calls)
  OBVIOUS
<1>2. CASE Late(calls') /\ Late(calls)
  BY <1>2 DEF Promise!vars
<1>3. CASE ~Late(calls')
  BY <1>3 DEF Promise!Forget
<1> QED BY <1>1, <1>2, <1>3

\* The transaction of a call over which another has written.
LEMMA StaleIsClash ==
  ASSUME PostInv, NEW r \in Requests, Commit(r), calls[r].stale
  PROVE  Promise!Clash
<1>1. TypeOK'
  BY CommitKeeps DEF PostInv
<1>2. calls[r].at = "open" /\ overlapped' = TRUE
  BY DEF Commit
<1>3. post' \in Post /\ Held(versions)' \subseteq Contents
  BY <1>1 DEF TypeOK, Held, Version
<1> QED BY <1>2, <1>3 DEF Promise!Clash, Post, Statuses, Held

LEMMA StepPromise == PostInv /\ [Next]_vars => [Promise!Next]_(Promise!vars)
<1> SUFFICES ASSUME PostInv, [Next]_vars PROVE [Promise!Next]_(Promise!vars)
  OBVIOUS
<1>1. ASSUME NEW r \in Requests, Operation(r) PROVE [Promise!Next]_(Promise!vars)
  BY <1>1, OperationSays, ReadsAreStutters DEF Promise!Next
<1>2. ASSUME NEW r \in Requests, Commit(r) PROVE [Promise!Next]_(Promise!vars)
  BY <1>2, FreshIsChange, StaleIsClash DEF Promise!Next
<1>3. ASSUME NEW r \in Requests, End(r) PROVE [Promise!Next]_(Promise!vars)
  <2>1. \A q \in Requests : calls'[q] = calls[q] \/ ~calls'[q].stale
    BY <1>3 DEF End, PostInv, TypeOK, Idle
  <2> QED BY <1>3, <2>1, ReadsAreStutters DEF Promise!Next, End
<1>4. CASE Crash
  <2>1. \A q \in Requests : ~calls'[q].stale
    BY <1>4 DEF Crash, Idle
  <2> QED BY <1>4, <2>1, ReadsAreStutters DEF Promise!Next, Crash
<1>5. CASE UNCHANGED vars
  BY <1>5, ReadsAreStutters DEF Promise!Next, vars
<1> QED BY <1>1, <1>2, <1>3, <1>4, <1>5 DEF Next

LEMMA InitPromise == Init => Promise!Init
<1> SUFFICES ASSUME Init PROVE Promise!Init
  OBVIOUS
<1>1. PICK t \in Titles, g \in Tags, c \in Contents : CreateDraft(t, g, c)
  BY DEF Init
<1>2. /\ post = [title |-> t, tags |-> g, content |-> c, status |-> "draft", published |-> 0]
      /\ versions = [v \in {1} |-> Blank(t, g, c)]
  BY <1>1 DEF CreateDraft
<1>3. Held(versions) = {c}
  BY <1>2 DEF Held, Blank
<1>4. \A r \in Requests : ~calls[r].stale
  BY DEF Init, Idle
<1> QED BY <1>2, <1>3, <1>4 DEF Init, Promise!Init, Held

\* post_draft_service.go, post_publish_service.go, post_meta_service.go,
\* post_delete_service.go: every transaction on a post is one change of what author
\* and readers know of it, made at once by a call that has seen it as it is, or a
\* change by a call that has not; and no other publishes it.
THEOREM PostsAreOnePublication == Spec => PublishedInOrder
<1> QED
  BY InitPostInv, StepPostInv, StepPromise, InitPromise, PublishedOnlyByPublishing, PTL
  DEF Spec, Promise!Spec, PublishedInOrder

----------------------------------------------------------------------------
(* The search index                                                         *)

\* The index adds no step to the posts: telling it ends a call.
LEMMA SearchStepIsStep == [SearchNext]_searchVars => [Next]_vars
<1> SUFFICES ASSUME SearchNext PROVE [Next]_vars
  BY DEF searchVars
<1>1. ASSUME NEW r \in Requests,
             Operation(r) \/ CommitPost(r) \/ IndexPost(r) \/ DeletePostFromIndex(r) \/ Answer(r)
      PROVE  Next
  BY <1>1 DEF Next, CommitPost, IndexPost, DeletePostFromIndex, Answer
<1>2. ASSUME NEW doc, Land(doc) PROVE UNCHANGED vars
  BY <1>2 DEF Land
<1>3. CASE Restart
  BY <1>3 DEF Restart, Next
<1> QED BY <1>1, <1>2, <1>3 DEF SearchNext

\* Posts with their index implement posts without one.
THEOREM SearchedPostsArePosts == SearchSpec => Spec
<1>1. SearchInit => Init
  BY DEF SearchInit
<1> QED BY <1>1, SearchStepIsStep, PTL DEF SearchSpec, Spec

\* A call that has committed and will tell the index.
Telling(c) ==
  /\ c.at = "committed"
  /\ c.op \in Removed \/ (c.op \in Indexed /\ c.post.status = "published")

\* The index is right.
Shown ==
  /\ Found <=> post.status = "published"
  /\ Found /\ ~retitled => index = Doc(post)

\* What a call will tell the index is the post as it is, unless another has
\* committed in between.
TellsThePost ==
  ~crossed => \A r \in Requests :
                Committed(r) /\ calls[r].op \in Indexed \cup Removed => calls[r].post = post

\* Nothing arrives late that was not given up.
LateByTrouble == trouble = 0 => late = {}

\* The index is right, or it will be told.
ShownUnlessTold ==
  ~overlapped /\ ~crossed /\ trouble = 0 => (\E r \in Requests : Telling(calls[r])) \/ Shown

\* The types of the histories.
Flags == trouble \in Nat /\ crossed \in BOOLEAN /\ retitled \in BOOLEAN

\* The inductive invariant of posts with their index.
SearchInv == PostInv /\ Flags /\ LateByTrouble /\ TellsThePost /\ ShownUnlessTold

\* The last step of a call writes the row it will tell the index, or neither
\* status nor title, but for a save that changes the title.
LEMMA CommitSays ==
  ASSUME PostInv, NEW r \in Requests, Commit(r)
  PROVE  /\ calls[r].at = "open" /\ calls'[r].at = "committed"
         /\ calls'[r].op = calls[r].op /\ calls'[r].post = calls[r].post
         /\ \A q \in Requests \ {r} : calls'[q].at = calls[q].at
         /\ overlapped \in BOOLEAN /\ overlapped => overlapped'
         /\ calls[r].op \in Indexed \cup Removed => post' = calls[r].post
         /\ ~overlapped' /\ calls[r].op \notin {"publish"} \cup Removed =>
              /\ post'.status = post.status
              /\ calls[r].op \in Indexed \/ (calls[r].op = "save" /\ calls[r].meta) \/ Doc(post') = Doc(post)
<1> DEFINE c == calls[r]
<1>1. /\ c \in Call /\ CallWhole(c) /\ c.at = "open" /\ post' = Written(db, c).post
      /\ calls' = [q \in Requests |-> IF q = r THEN [c EXCEPT !.at = "committed"]
                                      ELSE [calls[q] EXCEPT !.stale = calls[q].at = "open"]]
      /\ ~c.stale => Knows(c)
      /\ overlapped' = (overlapped \/ c.stale) /\ overlapped \in BOOLEAN
  BY DEF PostInv, TypeOK, CallsWhole, Fresh, Commit
<1>2. calls'[r].at = "committed" /\ calls'[r].op = c.op /\ calls'[r].post = c.post
  <2>1. calls'[r] = [c EXCEPT !.at = "committed"]
    BY <1>1
  <2> QED BY <1>1, <2>1 DEF Call
<1>3. ASSUME NEW q \in Requests \ {r} PROVE calls'[q].at = calls[q].at
  <2>1. calls'[q] = [calls[q] EXCEPT !.stale = calls[q].at = "open"] /\ calls[q] \in Call
    BY <1>1 DEF PostInv, TypeOK
  <2> QED BY <2>1 DEF Call
<1> HIDE DEF c
<1>4. ASSUME c.op \in Indexed \cup Removed PROVE post' = c.post
  <2>1. CASE c.op = "publish"
    BY <1>1, <2>1 DEF Written, PublishWrites, UpdateDraftByVersion, SetAllDraftStatus, Update, db
  <2>2. CASE c.op = "unpublish"
    BY <1>1, <2>2 DEF Written, UnpublishWrites, UpdateDraftByVersion, Update, db
  <2>3. CASE c.op = "meta"
    BY <1>1, <2>3 DEF Written, MetaWrites, UpdateAllVersionMeta, Update, db
  <2>4. CASE c.op = "hide"
    BY <1>1, <2>4 DEF Written, Update, db
  <2> QED BY <1>4, <2>1, <2>2, <2>3, <2>4 DEF Indexed, Removed
<1>5. ASSUME ~overlapped', c.op \notin {"publish"} \cup Removed
      PROVE  /\ post'.status = post.status
             /\ c.op \in Indexed \/ (c.op = "save" /\ c.meta) \/ Doc(post') = Doc(post)
  <2>1. Knows(c)
    BY <1>1, <1>5 DEF Call
  <2>2. CASE c.op = "copy"
    BY <1>1, <2>2 DEF Written, CopyWrites, CreateVersion, db
  <2>3. CASE c.op = "save"
    <3>1. c.meta \in BOOLEAN /\ c.editing \in BOOLEAN
      BY <1>1 DEF Call
    <3>2. post' = IF c.editing \/ c.meta THEN c.post ELSE post
      BY <1>1, <2>3, <3>1 DEF Written, SaveWrites, UpdateAllVersionMeta, UpdateDraftByVersion, Update, db
    <3>3. /\ c.post.status = "published" <=> c.post.published > 0
          /\ post.status = "published" <=> post.published > 0
      BY <1>1, <2>3 DEF CallWhole, Writers, PostInv, PostWhole, PublishedNamesVersion
    <3>4. c.post.status = post.status
      BY <2>1, <2>3, <3>1, <3>3 DEF Knows
    <3>5. ~c.meta => Doc(c.post) = Doc(post)
      BY <2>1, <2>3 DEF Knows, SameMeta, Doc
    <3> QED BY <2>3, <3>1, <3>2, <3>4, <3>5
  <2>4. CASE c.op = "delete_draft"
    BY <1>1, <2>4 DEF Written, DeleteVersion, db
  <2>5. CASE c.op = "meta"
    BY <1>4, <2>1, <2>5 DEF Knows, SameState, Indexed
  <2>6. c.op \in {"none", "copy", "save", "delete_draft", "publish", "unpublish", "meta", "hide"}
    BY <1>1 DEF Call
  <2>7. c.op # "none"
    BY <1>1 DEF CallWhole
  <2> QED BY <1>5, <2>2, <2>3, <2>4, <2>5, <2>6, <2>7 DEF Removed
<1> QED BY <1>1, <1>2, <1>3, <1>4, <1>5 DEF c

\* The first step of a call.
LEMMA OperationSearch ==
  ASSUME SearchInv, NEW r \in Requests, Operation(r), UNCHANGED search
  PROVE  TellsThePost' /\ ShownUnlessTold'
<1>1. PostInv
  BY DEF SearchInv
<1>2. /\ post' = post /\ overlapped' = overlapped /\ calls[r].at # "committed"
      /\ \A q \in Requests \ {r} : calls'[q] = calls[q]
      /\ calls'[r].at = "committed" => calls'[r].op = "meta" /\ calls'[r].post = post
  BY <1>1, OperationSays
<1>3. UNCHANGED <<index, crossed, retitled, trouble>>
  BY DEF search
<1>4. TellsThePost'
  BY <1>2, <1>3 DEF SearchInv, TellsThePost, Committed
<1>5. ShownUnlessTold'
  BY <1>2, <1>3 DEF SearchInv, ShownUnlessTold, Telling, Shown, Found
<1> QED BY <1>4, <1>5

\* The last step of a call: the index waits for it, or was right and stays so.
LEMMA CommitSearch ==
  ASSUME SearchInv, NEW r \in Requests, CommitPost(r)
  PROVE  TellsThePost' /\ ShownUnlessTold'
<1> DEFINE c == calls[r]
<1>1. PostInv /\ Flags /\ Commit(r)
  BY DEF SearchInv, CommitPost
<1>2. /\ c.at = "open" /\ calls'[r].at = "committed"
      /\ calls'[r].op = c.op /\ calls'[r].post = c.post
      /\ \A q \in Requests \ {r} : calls'[q].at = calls[q].at
      /\ overlapped \in BOOLEAN /\ overlapped => overlapped'
      /\ c.op \in Indexed \cup Removed => post' = c.post
      /\ ~overlapped' /\ c.op \notin {"publish"} \cup Removed =>
           /\ post'.status = post.status
           /\ c.op \in Indexed \/ (c.op = "save" /\ c.meta) \/ Doc(post') = Doc(post)
  BY <1>1, CommitSays
<1>3. /\ crossed' = (crossed \/ \E q \in Requests : Committed(q))
      /\ retitled' = (retitled \/ (c.op = "save" /\ c.meta))
      /\ UNCHANGED <<index, late, trouble>>
  BY DEF CommitPost
<1>4. c.op = "publish" => c.post.status = "published"
  BY <1>1, <1>2 DEF PostInv, CallsWhole, CallWhole
<1> HIDE DEF c
<1>5. ~crossed' => \A q \in Requests : calls'[q].at = "committed" => q = r
  BY <1>2, <1>3 DEF Committed
<1>6. TellsThePost'
  BY <1>2, <1>5 DEF TellsThePost, Committed
<1>7. ASSUME ~overlapped', ~crossed', trouble' = 0, ~Telling(calls'[r])
      PROVE  Shown'
  <2>1. ~\E q \in Requests : Telling(calls[q])
    BY <1>3, <1>7 DEF Committed, Telling
  <2>2. Shown
    BY <1>1, <1>2, <1>3, <1>7, <2>1 DEF SearchInv, ShownUnlessTold
  <2>3. c.op \notin {"publish"} \cup Removed
    BY <1>2, <1>4, <1>7 DEF Telling, Indexed
  <2>4. post'.status = post.status
    BY <1>2, <1>7, <2>3
  <2>5. Found' /\ ~retitled' => index' = Doc(post')
    <3>1. CASE c.op \in Indexed
      BY <1>2, <1>3, <1>7, <2>2, <2>4, <3>1 DEF Telling, Shown, Found
    <3>2. CASE c.op \notin Indexed
      BY <1>1, <1>2, <1>3, <1>7, <2>2, <2>3, <3>2 DEF Shown, Found, Flags
    <3> QED BY <3>1, <3>2
  <2> QED BY <1>3, <2>2, <2>4, <2>5 DEF Shown, Found
<1>8. ShownUnlessTold'
  BY <1>7 DEF ShownUnlessTold
<1> QED BY <1>6, <1>8

\* The end of a call.
LEMMA EndSearch ==
  ASSUME SearchInv, NEW r \in Requests, End(r)
  PROVE  /\ UNCHANGED <<post, overlapped>>
         /\ \A q \in Requests \ {r} : calls'[q] = calls[q]
         /\ calls'[r].at = "idle"
BY DEF SearchInv, PostInv, TypeOK, End, Idle

\* The index is told of a published post.
LEMMA IndexSearch ==
  ASSUME SearchInv, NEW r \in Requests, IndexPost(r)
  PROVE  TellsThePost' /\ ShownUnlessTold'
<1>1. /\ UNCHANGED <<post, overlapped, crossed>>
      /\ \A q \in Requests \ {r} : calls'[q] = calls[q]
      /\ calls'[r].at = "idle"
  BY EndSearch DEF IndexPost
<1>2. TellsThePost'
  BY <1>1 DEF SearchInv, TellsThePost, Committed
<1>3. ASSUME ~overlapped', ~crossed', trouble' = 0 PROVE Shown'
  <2>1. index' = Doc(calls[r].post)
    BY <1>3 DEF IndexPost, Index, Put, Trouble, SearchInv, Flags
  <2>2. calls[r].post = post /\ post.status = "published"
    BY <1>1, <1>3 DEF IndexPost, SearchInv, TellsThePost
  <2>3. Doc(post) # NoDoc
    <3>1. post.title \in Titles
      BY DEF SearchInv, PostInv, TypeOK, Post
    <3> QED BY <3>1, SearchAssumption DEF Doc, NoDoc
  <2> QED BY <1>1, <2>1, <2>2, <2>3 DEF Shown, Found
<1> QED BY <1>2, <1>3 DEF ShownUnlessTold

\* The index is told that a post is gone.
LEMMA DeleteSearch ==
  ASSUME SearchInv, NEW r \in Requests, DeletePostFromIndex(r)
  PROVE  TellsThePost' /\ ShownUnlessTold'
<1>1. /\ UNCHANGED <<post, overlapped, crossed>>
      /\ \A q \in Requests \ {r} : calls'[q] = calls[q]
      /\ calls'[r].at = "idle"
  BY EndSearch DEF DeletePostFromIndex
<1>2. TellsThePost'
  BY <1>1 DEF SearchInv, TellsThePost, Committed
<1>3. ASSUME ~overlapped', ~crossed', trouble' = 0 PROVE Shown'
  <2>1. index' = NoDoc
    BY <1>3 DEF DeletePostFromIndex, Delete, Put, Trouble, SearchInv, Flags
  <2>2. calls[r].post = post /\ Committed(r) /\ calls[r].op \in Removed
    BY <1>1, <1>3 DEF DeletePostFromIndex, SearchInv, TellsThePost
  <2>3. post.status # "published"
    BY <2>2 DEF SearchInv, PostInv, CallsWhole, CallWhole, Committed, Removed
  <2> QED BY <1>1, <2>1, <2>3 DEF Shown, Found
<1> QED BY <1>2, <1>3 DEF ShownUnlessTold

\* A call ends that has nothing to tell.
LEMMA AnswerSearch ==
  ASSUME SearchInv, NEW r \in Requests, Answer(r)
  PROVE  TellsThePost' /\ ShownUnlessTold'
<1>1. /\ UNCHANGED <<post, overlapped, index, crossed, retitled, trouble>>
      /\ \A q \in Requests \ {r} : calls'[q] = calls[q]
      /\ calls'[r].at = "idle"
  BY EndSearch DEF Answer, search
<1>2. ~Telling(calls[r])
  BY DEF Answer, Telling, Committed
<1>3. TellsThePost'
  BY <1>1 DEF SearchInv, TellsThePost, Committed
<1>4. ShownUnlessTold'
  BY <1>1, <1>2 DEF SearchInv, ShownUnlessTold, Telling, Shown, Found
<1> QED BY <1>3, <1>4

\* What is late was given up, in any step.
LEMMA LateKeeps ==
  ASSUME SearchInv, SearchNext
  PROVE  Flags' /\ LateByTrouble'
<1> USE DEF SearchInv, Flags, LateByTrouble
<1>1. ASSUME NEW doc, Put(doc), crossed' \in BOOLEAN, retitled' \in BOOLEAN
      PROVE  Flags' /\ LateByTrouble'
  BY <1>1 DEF Put, Trouble
<1>2. ASSUME NEW r \in Requests, IndexPost(r) \/ DeletePostFromIndex(r)
      PROVE  Flags' /\ LateByTrouble'
  BY <1>1, <1>2 DEF IndexPost, DeletePostFromIndex, Index, Delete
<1>3. ASSUME NEW r \in Requests, (Operation(r) /\ UNCHANGED search) \/ Answer(r)
      PROVE  Flags' /\ LateByTrouble'
  BY <1>3 DEF Answer, search
<1>4. ASSUME NEW r \in Requests, CommitPost(r)
      PROVE  Flags' /\ LateByTrouble'
  <2>1. calls[r] \in Call
    BY DEF PostInv, TypeOK
  <2>2. calls[r].meta \in BOOLEAN
    BY <2>1 DEF Call
  <2> QED BY <1>4, <2>2 DEF CommitPost
<1>5. ASSUME NEW doc \in late, Land(doc) PROVE Flags' /\ LateByTrouble'
  BY <1>5 DEF Land
<1>6. CASE Restart
  BY <1>6 DEF Restart, Trouble
<1> QED BY <1>2, <1>3, <1>4, <1>5, <1>6 DEF SearchNext

\* Every step keeps the invariant.
LEMMA StepSearchInv == SearchInv /\ [SearchNext]_searchVars => SearchInv'
<1> SUFFICES ASSUME SearchInv, [SearchNext]_searchVars PROVE SearchInv'
  OBVIOUS
<1>1. PostInv'
  BY SearchStepIsStep, StepPostInv DEF SearchInv
<1>2. CASE SearchNext
  <2>1. TellsThePost' /\ ShownUnlessTold'
    <3>1. ASSUME NEW doc \in late, Land(doc) PROVE TellsThePost' /\ ShownUnlessTold'
      BY <3>1 DEF Land, SearchInv, LateByTrouble, TellsThePost, ShownUnlessTold, Committed, vars
    <3>2. CASE Restart
      <4>1. trouble' # 0
        BY <3>2 DEF Restart, Trouble, SearchInv, Flags
      <4>2. \A q \in Requests : calls'[q].at = "idle"
        BY <3>2 DEF Restart, Crash, Idle
      <4> QED BY <4>1, <4>2 DEF TellsThePost, ShownUnlessTold, Committed
    <3> QED BY <1>2, <3>1, <3>2, OperationSearch, CommitSearch, IndexSearch, DeleteSearch, AnswerSearch
        DEF SearchNext
  <2> QED BY <1>1, <1>2, <2>1, LateKeeps DEF SearchInv
<1>3. CASE UNCHANGED searchVars
  BY <1>1, <1>3 DEF searchVars, vars, search, SearchInv, Flags, LateByTrouble, TellsThePost,
                    ShownUnlessTold, Shown, Found, Committed
<1> QED BY <1>2, <1>3

\* A draft just created is not found.
LEMMA InitSearchInv == SearchInit => SearchInv
<1> SUFFICES ASSUME SearchInit PROVE SearchInv
  OBVIOUS
<1>1. PostInv
  BY InitPostInv DEF SearchInit
<1>2. post.status = "draft" /\ \A r \in Requests : calls[r].at = "idle"
  BY DEF SearchInit, Init, CreateDraft, Idle
<1> QED BY <1>1, <1>2 DEF SearchInit, SearchInv, Flags, LateByTrouble, TellsThePost, ShownUnlessTold,
                          Shown, Found, Committed

----------------------------------------------------------------------------
(* Theorems about the index                                                 *)

\* post_index_service.go: as long as nothing fails and no call commits before an
\* earlier one has told the index, a post is found exactly while it is
\* published, under its title and tags but for a save that has changed them.
THEOREM SearchShowsThePosts == SearchSpec => []SearchRight
<1>1. SearchInv => SearchRight
  BY DEF SearchInv, SearchRight, SearchFollowsPost, SearchShowsPost, Calm, Committed, Telling,
         ShownUnlessTold, Shown
<1> QED BY <1>1, InitSearchInv, StepSearchInv, PTL DEF SearchSpec

\* So the rows of a post that is searched for are whole as well.
THEOREM SearchedPostsAreWhole == SearchSpec => []PostWhole
<1> QED BY SearchedPostsArePosts, PostsAreWhole, PTL

----------------------------------------------------------------------------
(* What calls of each part may rely on                                      *)

\* What a call is about has a number and an author; what it has indexed is
\* found.
TweetsAsked ==
  \A r \in Requests :
    /\ tcalls[r].at # "idle" => tcalls[r].id \in T!Ids /\ tcalls[r].by \in People
    /\ tcalls[r].at = "indexed" => tcalls[r].id \in tindex

\* The inductive invariant of tweets.
TweetInv == T!TypeOK /\ TweetsAsked /\ T!KeptIsFound

\* Who may call on the bindings.
Binders == People \cup {"owner", "admin"}

\* A call under way is by somebody and about an article.
BindingAsked ==
  \A r \in Requests : bcalls[r].at # "idle" => bcalls[r].user \in Binders /\ bcalls[r].post \in Articles

\* Unless calls overlapped, two live rows are not of one article.
LiveOnce ==
  ~boverlapped =>
    \A i, j \in DOMAIN rows : rows[i].live /\ rows[j].live /\ rows[i].post = rows[j].post => i = j

\* Who looked and found no row may rely on it until it is told that the rows
\* changed.
StillUnbound ==
  ~boverlapped =>
    \A r \in Requests : bcalls[r].at = "insert" /\ ~bcalls[r].stale =>
      \A i \in DOMAIN rows : rows[i].live => rows[i].post # bcalls[r].post

\* Who looked and may unbind the row it saw may unbind all there are.
StillAllowed ==
  ~boverlapped =>
    \A r \in Requests : bcalls[r].at = "remove" /\ ~bcalls[r].stale =>
      \A i \in DOMAIN rows :
        rows[i].live /\ rows[i].post = bcalls[r].post => B!MayUnbind(bcalls[r].user, rows[i])

\* The inductive invariant of bindings.
BindingInv == B!TypeOK /\ BindingAsked /\ LiveOnce /\ StillUnbound /\ StillAllowed

\* The calls of TypeOK, under a name.
ECall ==
  [at : {"idle", "toggle", "forget", "forget rank", "like", "favorite", "comment", "keep",
         "keep rank", "create", "notify"},
   user : People \cup {"nobody"}, kind : E!Kinds, had : BOOLEAN, parent : 0..MaxComments,
   read : E!Numbers, listed : BOOLEAN]

\* Answers come after what they answer; what was told or failed to be is of
\* comments there are.
Numbered ==
  /\ \A c \in DOMAIN comments : comments[c].parent \in 0..(c - 1)
  /\ \A n \in notes : n.comment \in DOMAIN comments
  /\ dropped \subseteq DOMAIN comments

\* Comment c answers somebody else.
Answers(cs, c) == cs[c].parent # 0 /\ cs[cs[c].parent].by # cs[c].by

\* Call r is about to tell of comment c.
Notifying(ec, r, c) == ec[r].at = "notify" /\ ec[r].read.comment = c

\* What a call is about to write, and whom it will tell, is there.
CommentsAsked ==
  \A r \in Requests :
    /\ ecalls[r].at \in {"toggle", "create"} => ecalls[r].user \in People
    /\ ecalls[r].at = "create" => ecalls[r].parent \in 0..Len(comments)
    /\ ecalls[r].at = "notify" => /\ ecalls[r].read.comment \in DOMAIN comments \ dropped
                                  /\ Answers(comments, ecalls[r].read.comment)

\* No two calls tell of one comment.
OneNotifier ==
  \A r, q \in Requests, c \in DOMAIN comments : Notifying(ecalls, r, c) /\ Notifying(ecalls, q, c) => r = q

\* A comment has the one notification it should, or none: RepliesNotified
\* without a cardinality.
Told ==
  \A c \in DOMAIN comments :
    IF ~Answers(comments, c) \/ c \in dropped \/ \E r \in Requests : Notifying(ecalls, r, c)
    THEN \A n \in notes : n.comment # c
    ELSE \E n \in notes : /\ n.comment = c /\ n.to = comments[comments[c].parent].by
                          /\ \A m \in notes : m.comment = c => m = n

\* The inductive invariant of engagement.
EngagementInv ==
  E!TypeOK /\ E!CachesKeepUp /\ Numbered /\ CommentsAsked /\ OneNotifier /\ Told

----------------------------------------------------------------------------
(* Tweets                                                                   *)

\* There is no tweet at first.
LEMMA InitTweets == T!Init => TweetInv
BY BlogAssumption DEF T!Init, T!Idle, T!Ids, T!TypeOK, T!KeptIsFound, TweetsAsked, TweetInv

\* A call goes on, and what is found stays found.
LEMMA TweetsKept ==
  ASSUME TweetInv, NEW r \in Requests, NEW c,
         tcalls' = [tcalls EXCEPT ![r] = c],
         c \in [at : {"idle", "inserted", "indexed"}, id : 0..MaxTweets, by : People \cup {"nobody"}],
         c.at # "idle" => c.id \in T!Ids /\ c.by \in People,
         c.at = "indexed" => c.id \in tindex',
         tindex \subseteq tindex', tindex' \subseteq T!Ids, tlate' \subseteq T!Ids,
         nextId' \in 1..MaxTweets + 1,
         \A t \in tweets' : t \in tweets \/ (t \in [id : T!Ids, by : People] /\ t.id \in tindex)
  PROVE  TweetInv'
<1>1. T!TypeOK'
  <2>1. tweets' \subseteq [id : T!Ids, by : People]
    BY DEF TweetInv, T!TypeOK
  <2>2. tcalls' \in [Requests -> [at : {"idle", "inserted", "indexed"}, id : 0..MaxTweets,
                                  by : People \cup {"nobody"}]]
    BY DEF TweetInv, T!TypeOK
  <2> QED BY <2>1, <2>2 DEF T!TypeOK, T!Ids
<1>2. TweetsAsked'
  BY DEF TweetInv, TweetsAsked, T!TypeOK, T!Ids
<1>3. T!KeptIsFound'
  BY DEF TweetInv, T!KeptIsFound
<1> QED BY <1>1, <1>2, <1>3 DEF TweetInv

\* Every step keeps the invariant: what was indexed is deleted from the index
\* only with its row.
LEMMA StepTweets == TweetInv /\ [T!Next]_tVars => TweetInv'
<1> SUFFICES ASSUME TweetInv, [T!Next]_tVars PROVE TweetInv'
  OBVIOUS
<1>1. /\ tindex \subseteq T!Ids /\ tlate \subseteq T!Ids /\ nextId \in 1..MaxTweets + 1
      /\ \A r \in Requests :
           tcalls[r] \in [at : {"idle", "inserted", "indexed"}, id : 0..MaxTweets,
                          by : People \cup {"nobody"}]
  BY DEF TweetInv, T!TypeOK
<1>2. T!Idle \in [at : {"idle", "inserted", "indexed"}, id : 0..MaxTweets, by : People \cup {"nobody"}]
      /\ T!Idle.at = "idle"
  BY BlogAssumption DEF T!Idle
<1>3. ASSUME NEW r \in Requests, NEW a \in People, T!Create(r, a) PROVE TweetInv'
  <2> DEFINE c == [at |-> "inserted", id |-> nextId, by |-> a]
  <2>1. nextId \in T!Ids /\ nextId' = nextId + 1 /\ tcalls' = [tcalls EXCEPT ![r] = c]
        /\ UNCHANGED <<tweets, tindex, tlate>>
    BY <1>3 DEF T!Create
  <2>2. nextId' \in 1..MaxTweets + 1 /\ nextId \in 0..MaxTweets
    BY <2>1, BlogAssumption DEF T!Ids
  <2>3. c \in [at : {"idle", "inserted", "indexed"}, id : 0..MaxTweets, by : People \cup {"nobody"}]
        /\ c.at = "inserted" /\ c.id = nextId /\ c.by = a
    BY <2>2
  <2> HIDE DEF c
  <2> QED BY <1>1, <2>1, <2>2, <2>3, TweetsKept
<1>4. ASSUME NEW r \in Requests, T!Index(r) PROVE TweetInv'
  <2> DEFINE c == [tcalls[r] EXCEPT !.at = "indexed"]
  <2>1. /\ tcalls[r].at = "inserted" /\ tindex' = tindex \cup {tcalls[r].id}
        /\ tcalls' = [tcalls EXCEPT ![r] = c]
        /\ UNCHANGED <<tweets, tlate, nextId>>
    BY <1>4 DEF T!Index, T!At
  <2>2. c \in [at : {"idle", "inserted", "indexed"}, id : 0..MaxTweets, by : People \cup {"nobody"}]
        /\ c.at = "indexed" /\ c.id = tcalls[r].id /\ c.by = tcalls[r].by
    BY <1>1
  <2>3. tcalls[r].id \in T!Ids /\ tcalls[r].by \in People
    BY <2>1 DEF TweetInv, TweetsAsked
  <2> HIDE DEF c
  <2> QED BY <1>1, <2>1, <2>2, <2>3, TweetsKept
<1>5. ASSUME NEW r \in Requests, T!IndexError(r) PROVE TweetInv'
  <2>1. /\ tcalls[r].at = "inserted" /\ tcalls' = [tcalls EXCEPT ![r] = T!Idle]
        /\ tlate' \in {tlate, tlate \cup {tcalls[r].id}}
        /\ UNCHANGED <<tweets, tindex, nextId>>
    BY <1>5 DEF T!IndexError, T!At, T!Done
  <2>2. tcalls[r].id \in T!Ids
    BY <2>1 DEF TweetInv, TweetsAsked
  <2>3. tlate' \subseteq T!Ids
    BY <1>1, <2>1, <2>2
  <2> QED BY <1>1, <1>2, <2>1, <2>3, TweetsKept
<1>6. ASSUME NEW r \in Requests, T!Commit(r) PROVE TweetInv'
  <2>1. /\ tcalls[r].at = "indexed" /\ tcalls' = [tcalls EXCEPT ![r] = T!Idle]
        /\ tweets' = tweets \cup {[id |-> tcalls[r].id, by |-> tcalls[r].by]}
        /\ UNCHANGED <<tindex, tlate, nextId>>
    BY <1>6 DEF T!Commit, T!At, T!Done
  <2>2. tcalls[r].id \in T!Ids /\ tcalls[r].by \in People /\ tcalls[r].id \in tindex
    BY <2>1 DEF TweetInv, TweetsAsked
  <2>3. \A t \in tweets' : t \in tweets \/ (t \in [id : T!Ids, by : People] /\ t.id \in tindex)
    BY <2>1, <2>2
  <2> QED BY <1>1, <1>2, <2>1, <2>3, TweetsKept
<1>7. ASSUME NEW r \in Requests, T!RollBack(r) PROVE TweetInv'
  <2>1. tcalls' = [tcalls EXCEPT ![r] = T!Idle] /\ UNCHANGED <<tweets, tindex, tlate, nextId>>
    BY <1>7 DEF T!RollBack, T!Done
  <2> QED BY <1>1, <1>2, <2>1, TweetsKept
<1>8. ASSUME NEW id \in tlate, T!Land(id) PROVE TweetInv'
  BY <1>1, <1>8 DEF T!Land, TweetInv, T!TypeOK, TweetsAsked, T!KeptIsFound
<1>9. CASE UNCHANGED tVars
  BY <1>9 DEF tVars, TweetInv, T!TypeOK, TweetsAsked, T!KeptIsFound
<1> QED BY <1>3, <1>4, <1>5, <1>6, <1>7, <1>8, <1>9 DEF T!Next

----------------------------------------------------------------------------
(* Bindings                                                                 *)

\* No article is bound at first.
LEMMA InitBindings == B!Init => BindingInv
<1> SUFFICES ASSUME B!Init PROVE BindingInv
  OBVIOUS
<1>1. rows = <<>> /\ Len(rows) = 0 /\ rows \in Seq(B!Row)
  BY DEF B!Init
<1>2. DOMAIN rows = {}
  BY <1>1
<1>3. B!TypeOK
  <2>1. {question, boverlapped} \subseteq BOOLEAN
    BY DEF B!Init
  <2>2. B!Idle \in B!Call
    BY DEF B!Idle, B!Call
  <2>3. bcalls \in [Requests -> B!Call]
    BY <2>2 DEF B!Init
  <2> QED BY <1>1, <2>1, <2>3, BlogAssumption DEF B!TypeOK
<1> QED BY <1>2, <1>3
        DEF B!Init, B!Idle, BindingInv, BindingAsked, LiveOnce, StillUnbound, StillAllowed

\* What TypeOK says of one row and of one call.
LEMMA BindingTypes ==
  ASSUME BindingInv
  PROVE  /\ DOMAIN rows = 1..Len(rows) /\ Len(rows) \in Nat
         /\ \A i \in DOMAIN rows : rows[i] \in B!Row
         /\ \A r \in Requests : bcalls[r] \in B!Call
         /\ boverlapped \in BOOLEAN /\ question \in BOOLEAN
BY LenProperties, ElementOfSeq DEF BindingInv, B!TypeOK

\* A row is added behind the others, which stay.
LEMMA RowAdded ==
  ASSUME BindingInv, Len(rows) < MaxRows, NEW row \in B!Row, rows' = Append(rows, row)
  PROVE  /\ rows' \in Seq(B!Row) /\ Len(rows') <= MaxRows
         /\ DOMAIN rows' = DOMAIN rows \cup {Len(rows) + 1} /\ Len(rows) + 1 \notin DOMAIN rows
         /\ rows'[Len(rows) + 1] = row
         /\ \A i \in DOMAIN rows : rows'[i] = rows[i]
<1>1. rows \in Seq(B!Row) /\ DOMAIN rows = 1..Len(rows) /\ Len(rows) \in Nat
  BY BindingTypes DEF BindingInv, B!TypeOK
<1>2. /\ rows' \in Seq(B!Row) /\ Len(rows') = Len(rows) + 1
      /\ \A i \in 1..Len(rows) : rows'[i] = rows[i]
      /\ rows'[Len(rows) + 1] = row
  BY <1>1, AppendProperties
<1>3. DOMAIN rows' = 1..(Len(rows) + 1)
  BY <1>2, LenProperties
<1> QED BY <1>1, <1>2, <1>3, BlogAssumption

\* The first step of a call: what it saw is so.
LEMMA LookKeeps ==
  ASSUME BindingInv, NEW r \in Requests, NEW u \in Binders, NEW p \in Articles,
         B!LookToBind(r, u, p) \/ B!LookToUnbind(r, u, p)
  PROVE  BindingInv'
<1>1. PICK at \in {"insert", "remove"} : B!Looked(r, at, u, p)
  BY DEF B!LookToBind, B!LookToUnbind
<1> DEFINE c == [at |-> at, user |-> u, post |-> p, stale |-> FALSE]
<1>2. bcalls' = [bcalls EXCEPT ![r] = c] /\ UNCHANGED <<question, rows, boverlapped>>
  BY <1>1 DEF B!Looked
<1>3. c \in B!Call /\ c.at = at /\ c.user = u /\ c.post = p /\ c.stale = FALSE
  BY DEF B!Call, Binders
<1> HIDE DEF c
<1>4. B!TypeOK'
  BY <1>2, <1>3 DEF BindingInv, B!TypeOK
<1>5. \A q \in Requests : bcalls'[q] = IF q = r THEN c ELSE bcalls[q]
  BY <1>2 DEF BindingInv, B!TypeOK
<1>6. BindingAsked'
  BY <1>3, <1>5 DEF BindingInv, BindingAsked
<1>7. LiveOnce'
  BY <1>2 DEF BindingInv, LiveOnce
<1>8. at = "insert" => \A i \in DOMAIN rows : rows[i].live => rows[i].post # p
  <2>1. CASE B!LookToBind(r, u, p)
    BY <2>1 DEF B!LookToBind, B!Live
  <2>2. CASE B!LookToUnbind(r, u, p)
    <3>1. c = [at |-> "remove", user |-> u, post |-> p, stale |-> FALSE]
      BY <1>2, <2>2 DEF B!LookToUnbind, B!Looked, BindingInv, B!TypeOK
    <3> QED BY <1>3, <3>1
  <2> QED BY <2>1, <2>2
<1>9. StillUnbound'
  BY <1>2, <1>3, <1>5, <1>8 DEF BindingInv, StillUnbound
<1>10. at = "remove" /\ ~boverlapped =>
         \A i \in DOMAIN rows : rows[i].live /\ rows[i].post = p => B!MayUnbind(u, rows[i])
  <2>1. CASE B!LookToBind(r, u, p)
    BY <2>1 DEF B!LookToBind, B!Live
  <2>2. CASE B!LookToUnbind(r, u, p)
    <3> SUFFICES ASSUME ~boverlapped, NEW i \in DOMAIN rows, rows[i].live, rows[i].post = p
                 PROVE  B!MayUnbind(u, rows[i])
      OBVIOUS
    <3>1. B!Live(p) = {i}
      BY DEF B!Live, BindingInv, LiveOnce
    <3>2. i <= i
      BY BindingTypes
    <3>3. B!First({i}) = i
      BY <3>2 DEF B!First
    <3> QED BY <2>2, <3>1, <3>3 DEF B!LookToUnbind
  <2> QED BY <2>1, <2>2
<1>11. StillAllowed'
  BY <1>2, <1>3, <1>5, <1>10 DEF BindingInv, StillAllowed, B!MayUnbind
<1> QED BY <1>4, <1>6, <1>7, <1>9, <1>11 DEF BindingInv

\* A write makes the calls stale that looked at its article.
LEMMA WroteSays ==
  ASSUME BindingInv, NEW r \in Requests, B!Wrote(r)
  PROVE  /\ bcalls' \in [Requests -> B!Call]
         /\ bcalls'[r].at = "idle"
         /\ boverlapped' = (boverlapped \/ bcalls[r].stale) /\ question' = question
         /\ \A q \in Requests \ {r} :
              /\ bcalls'[q].at = bcalls[q].at /\ bcalls'[q].user = bcalls[q].user
              /\ bcalls'[q].post = bcalls[q].post
              /\ bcalls[q].at # "idle" /\ ~bcalls'[q].stale =>
                   ~bcalls[q].stale /\ bcalls[q].post # bcalls[r].post
<1>1. B!Idle \in B!Call /\ B!Idle.at = "idle"
  BY DEF B!Idle, B!Call
<1>2. \A q \in Requests : bcalls[q] \in B!Call
  BY BindingTypes
<1>3. bcalls'[r] = B!Idle
  BY DEF B!Wrote
<1>4. \A q \in Requests \ {r} :
        bcalls'[q] = [bcalls[q] EXCEPT !.stale = bcalls[q].at # "idle"
                                         /\ (bcalls[q].stale \/ bcalls[q].post = bcalls[r].post)]
  <2>1. \A q \in Requests \ {r} :
        bcalls'[q] = [bcalls[q] EXCEPT !.stale = bcalls[q].at # "idle"
                                         /\ (@ \/ bcalls[q].post = bcalls[r].post)]
    BY DEF B!Wrote
  <2> QED BY <2>1, <1>2 DEF B!Call
<1>5. ASSUME NEW q \in Requests \ {r} PROVE bcalls'[q] \in B!Call
  <2> DEFINE b == bcalls[q].at # "idle" /\ (bcalls[q].stale \/ bcalls[q].post = bcalls[r].post)
  <2>1. b \in BOOLEAN
    OBVIOUS
  <2>2. bcalls'[q] = [bcalls[q] EXCEPT !.stale = b]
    BY <1>4
  <2> HIDE DEF b
  <2> QED BY <1>2, <2>1, <2>2 DEF B!Call
<1>6. bcalls' \in [Requests -> B!Call]
  <2>1. bcalls' = [q \in Requests |-> bcalls'[q]]
    BY DEF B!Wrote
  <2> QED BY <1>1, <1>3, <1>5, <2>1
<1>7. \A q \in Requests \ {r} :
         /\ bcalls'[q].at = bcalls[q].at /\ bcalls'[q].user = bcalls[q].user
         /\ bcalls'[q].post = bcalls[q].post
         /\ bcalls[q].at # "idle" /\ ~bcalls'[q].stale =>
              ~bcalls[q].stale /\ bcalls[q].post # bcalls[r].post
  <2> SUFFICES ASSUME NEW q \in Requests \ {r}
               PROVE  /\ bcalls'[q].at = bcalls[q].at /\ bcalls'[q].user = bcalls[q].user
                      /\ bcalls'[q].post = bcalls[q].post
                      /\ bcalls[q].at # "idle" /\ ~bcalls'[q].stale =>
                           ~bcalls[q].stale /\ bcalls[q].post # bcalls[r].post
    OBVIOUS
  <2> DEFINE b == bcalls[q].at # "idle" /\ (bcalls[q].stale \/ bcalls[q].post = bcalls[r].post)
  <2>1. bcalls'[q] = [bcalls[q] EXCEPT !.stale = b]
    BY <1>4
  <2>2. ~b /\ bcalls[q].at # "idle" => ~bcalls[q].stale /\ bcalls[q].post # bcalls[r].post
    OBVIOUS
  <2> HIDE DEF b
  <2>3. /\ bcalls'[q].at = bcalls[q].at /\ bcalls'[q].user = bcalls[q].user
        /\ bcalls'[q].post = bcalls[q].post /\ bcalls'[q].stale = b
    BY <1>2, <2>1 DEF B!Call
  <2> QED BY <2>2, <2>3
<1> QED BY <1>1, <1>3, <1>6, <1>7 DEF B!Wrote

\* A row is inserted.
LEMMA BindKeeps ==
  ASSUME BindingInv, NEW r \in Requests, B!Bind(r)
  PROVE  BindingInv'
<1> DEFINE row == [post |-> bcalls[r].post, user |-> bcalls[r].user, live |-> TRUE]
           new == Len(rows) + 1
<1>1. /\ bcalls[r].at = "insert" /\ Len(rows) < MaxRows /\ rows' = Append(rows, row) /\ B!Wrote(r)
  BY DEF B!Bind
<1>2. row \in B!Row /\ row.post = bcalls[r].post /\ row.live
  BY <1>1 DEF BindingInv, BindingAsked, B!Row, Binders
<1> HIDE DEF row
<1>3. /\ rows' \in Seq(B!Row) /\ Len(rows') <= MaxRows
      /\ DOMAIN rows' = DOMAIN rows \cup {new} /\ new \notin DOMAIN rows
      /\ rows'[new] = row
      /\ \A i \in DOMAIN rows : rows'[i] = rows[i]
  BY <1>1, <1>2, RowAdded
<1> HIDE DEF new
<1>4. /\ bcalls' \in [Requests -> B!Call] /\ bcalls'[r].at = "idle"
      /\ boverlapped' = (boverlapped \/ bcalls[r].stale) /\ question' = question
      /\ \A q \in Requests \ {r} :
           /\ bcalls'[q].at = bcalls[q].at /\ bcalls'[q].user = bcalls[q].user
           /\ bcalls'[q].post = bcalls[q].post
           /\ bcalls[q].at # "idle" /\ ~bcalls'[q].stale =>
                ~bcalls[q].stale /\ bcalls[q].post # bcalls[r].post
  BY <1>1, WroteSays
<1>5. boverlapped \in BOOLEAN /\ question \in BOOLEAN /\ bcalls[r].stale \in BOOLEAN
  BY BindingTypes DEF B!Call
<1>6. B!TypeOK'
  BY <1>3, <1>4, <1>5 DEF B!TypeOK
<1>7. BindingAsked'
  BY <1>4 DEF BindingInv, BindingAsked
<1>8. ~boverlapped' => \A i \in DOMAIN rows : rows[i].live => rows[i].post # bcalls[r].post
  BY <1>1, <1>4, <1>5 DEF BindingInv, StillUnbound
<1>9. LiveOnce'
  BY <1>2, <1>3, <1>4, <1>5, <1>8 DEF BindingInv, LiveOnce
<1>10. StillUnbound'
  BY <1>2, <1>3, <1>4, <1>5 DEF BindingInv, StillUnbound
<1>11. StillAllowed'
  BY <1>2, <1>3, <1>4, <1>5 DEF BindingInv, StillAllowed, B!MayUnbind
<1> QED BY <1>6, <1>7, <1>9, <1>10, <1>11 DEF BindingInv

\* The agent inserts a row without having looked.
LEMMA AgentBindKeeps ==
  ASSUME BindingInv, NEW u \in Binders, NEW p \in Articles, B!AgentBind(u, p)
  PROVE  BindingInv'
<1> DEFINE row == [post |-> p, user |-> u, live |-> TRUE]
           new == Len(rows) + 1
<1>1. /\ Len(rows) < MaxRows /\ rows' = Append(rows, row) /\ question' = question
      /\ boverlapped' = (boverlapped \/ B!Live(p) # {})
      /\ bcalls' = [c \in Requests |-> [bcalls[c] EXCEPT !.stale = @ \/ bcalls[c].post = p]]
  BY DEF B!AgentBind
<1>2. row \in B!Row /\ row.post = p /\ row.live
  BY DEF B!Row, Binders
<1> HIDE DEF row
<1>3. /\ rows' \in Seq(B!Row) /\ Len(rows') <= MaxRows
      /\ DOMAIN rows' = DOMAIN rows \cup {new} /\ new \notin DOMAIN rows
      /\ rows'[new] = row
      /\ \A i \in DOMAIN rows : rows'[i] = rows[i]
  BY <1>1, <1>2, RowAdded
<1> HIDE DEF new
<1>4. \A q \in Requests : bcalls[q] \in B!Call
  BY BindingTypes
<1>5. \A q \in Requests :
        /\ bcalls'[q] \in B!Call
        /\ bcalls'[q].at = bcalls[q].at /\ bcalls'[q].user = bcalls[q].user
        /\ bcalls'[q].post = bcalls[q].post
        /\ ~bcalls'[q].stale => ~bcalls[q].stale /\ bcalls[q].post # p
  BY <1>1, <1>4 DEF B!Call
<1>6. boverlapped \in BOOLEAN /\ question \in BOOLEAN
  BY BindingTypes
<1>7. B!TypeOK'
  <2>1. bcalls' \in [Requests -> B!Call]
    BY <1>1, <1>5
  <2> QED BY <1>1, <1>3, <1>6, <2>1 DEF B!TypeOK
<1>8. BindingAsked'
  BY <1>5 DEF BindingInv, BindingAsked
<1>9. LiveOnce'
  <2>1. ~boverlapped' => \A i \in DOMAIN rows : rows[i].live => rows[i].post # p
    BY <1>1, <1>6 DEF B!Live
  <2> QED BY <1>1, <1>2, <1>3, <1>6, <2>1 DEF BindingInv, LiveOnce
<1>10. StillUnbound'
  BY <1>1, <1>2, <1>3, <1>5, <1>6 DEF BindingInv, StillUnbound
<1>11. StillAllowed'
  BY <1>1, <1>2, <1>3, <1>5, <1>6 DEF BindingInv, StillAllowed, B!MayUnbind
<1> QED BY <1>7, <1>8, <1>9, <1>10, <1>11 DEF BindingInv

\* The rows of one article are removed, no others.
LEMMA UnbindSays ==
  ASSUME BindingInv, NEW r \in Requests, B!Unbind(r)
  PROVE  /\ DOMAIN rows' = DOMAIN rows /\ rows' \in Seq(B!Row) /\ Len(rows') = Len(rows)
         /\ \A i \in DOMAIN rows :
              /\ rows'[i].post = rows[i].post /\ rows'[i].user = rows[i].user
              /\ rows'[i].live => rows[i].live
              /\ rows[i].live /\ ~rows'[i].live => rows[i].post = bcalls[r].post
<1>1. rows' = [i \in DOMAIN rows |-> IF i \in B!Live(bcalls[r].post)
                                    THEN [rows[i] EXCEPT !.live = FALSE] ELSE rows[i]]
  BY DEF B!Unbind
<1>2. DOMAIN rows = 1..Len(rows) /\ Len(rows) \in Nat /\ \A i \in DOMAIN rows : rows[i] \in B!Row
  BY BindingTypes
<1>3. \A i \in DOMAIN rows :
         /\ rows'[i] \in B!Row
         /\ rows'[i].post = rows[i].post /\ rows'[i].user = rows[i].user
         /\ rows'[i].live => rows[i].live
         /\ rows[i].live /\ ~rows'[i].live => rows[i].post = bcalls[r].post
  BY <1>1, <1>2 DEF B!Row, B!Live
<1>4. rows' \in [1..Len(rows) -> B!Row]
  BY <1>1, <1>2, <1>3
<1>5. rows' \in Seq(B!Row) /\ Len(rows') = Len(rows)
  BY <1>2, <1>4, SeqDef, LenProperties
<1> QED BY <1>1, <1>3, <1>5

\* Rows are removed.
LEMMA UnbindKeeps ==
  ASSUME BindingInv, NEW r \in Requests, B!Unbind(r)
  PROVE  BindingInv'
<1>1. /\ DOMAIN rows' = DOMAIN rows /\ rows' \in Seq(B!Row) /\ Len(rows') = Len(rows)
      /\ \A i \in DOMAIN rows :
              /\ rows'[i].post = rows[i].post /\ rows'[i].user = rows[i].user
              /\ rows'[i].live => rows[i].live
  BY UnbindSays
<1>2. /\ bcalls' \in [Requests -> B!Call] /\ bcalls'[r].at = "idle"
      /\ boverlapped' = (boverlapped \/ bcalls[r].stale) /\ question' = question
      /\ \A q \in Requests \ {r} :
           /\ bcalls'[q].at = bcalls[q].at /\ bcalls'[q].user = bcalls[q].user
           /\ bcalls'[q].post = bcalls[q].post
           /\ bcalls[q].at # "idle" /\ ~bcalls'[q].stale => ~bcalls[q].stale
  BY WroteSays DEF B!Unbind
<1>3. boverlapped \in BOOLEAN /\ question \in BOOLEAN /\ bcalls[r].stale \in BOOLEAN
  BY BindingTypes DEF B!Call
<1>4. B!TypeOK'
  BY <1>1, <1>2, <1>3 DEF BindingInv, B!TypeOK
<1>5. BindingAsked'
  BY <1>2 DEF BindingInv, BindingAsked
<1>6. LiveOnce'
  BY <1>1, <1>2, <1>3 DEF BindingInv, LiveOnce
<1>7. StillUnbound'
  BY <1>1, <1>2, <1>3 DEF BindingInv, StillUnbound
<1>8. StillAllowed'
  BY <1>1, <1>2, <1>3 DEF BindingInv, StillAllowed, B!MayUnbind
<1> QED BY <1>4, <1>5, <1>6, <1>7, <1>8 DEF BindingInv

\* Every step keeps the invariant.
LEMMA StepBindings == BindingInv /\ [B!Next]_bVars => BindingInv'
<1> SUFFICES ASSUME BindingInv, [B!Next]_bVars PROVE BindingInv'
  OBVIOUS
<1>1. ASSUME NEW r \in Requests, B!Fail(r) PROVE BindingInv'
  <2>1. B!Idle \in B!Call /\ B!Idle.at = "idle"
    BY DEF B!Idle, B!Call
  <2>2. bcalls' = [bcalls EXCEPT ![r] = B!Idle] /\ UNCHANGED <<question, rows, boverlapped>>
    BY <1>1 DEF B!Fail
  <2> QED BY <2>1, <2>2 DEF BindingInv, B!TypeOK, BindingAsked, LiveOnce, StillUnbound, StillAllowed,
                            B!MayUnbind
<1>2. CASE B!SetQuestion
  <2>1. question' \in BOOLEAN /\ UNCHANGED <<rows, bcalls, boverlapped>>
    BY <1>2 DEF B!SetQuestion, BindingInv, B!TypeOK
  <2> QED BY <2>1 DEF BindingInv, B!TypeOK, BindingAsked, LiveOnce, StillUnbound, StillAllowed,
                      B!MayUnbind
<1>3. CASE UNCHANGED bVars
  BY <1>3 DEF bVars, BindingInv, B!TypeOK, BindingAsked, LiveOnce, StillUnbound, StillAllowed,
              B!MayUnbind
<1> QED BY <1>1, <1>2, <1>3, LookKeeps, BindKeeps, AgentBindKeeps, UnbindKeeps DEF B!Next, Binders

----------------------------------------------------------------------------
(* Engagement: types and counts                                             *)

\* The instances count as this module does.
LEMMA CardinalityOfInstance ==
  /\ \A S : E!Cardinality(S) = Cardinality(S)
  /\ \A S : B!Cardinality(S) = Cardinality(S)
BY DEF E!Cardinality, B!Cardinality, Cardinality

\* No more people have marked a post than there are.
LEMMA CountsInRange ==
  ASSUME NEW S \in SUBSET (People \X E!Kinds), NEW k
  PROVE  /\ Cardinality({u \in People : <<u, k>> \in S}) \in 0..Cardinality(People)
         /\ Cardinality(People) \in Nat
<1> DEFINE M == {u \in People : <<u, k>> \in S}
<1>1. M \in SUBSET People /\ IsFiniteSet(People)
  BY BlogAssumption
<1> HIDE DEF M
<1>2. IsFiniteSet(M) /\ Cardinality(M) <= Cardinality(People)
  BY <1>1, FS_Subset
<1>3. Cardinality(M) \in Nat /\ Cardinality(People) \in Nat
  BY <1>1, <1>2, FS_CardinalityType
<1> QED BY <1>2, <1>3 DEF M

\* What TypeOK says of one comment and of the counts.
LEMMA EngagementTypes ==
  ASSUME EngagementInv
  PROVE  /\ DOMAIN comments = 1..Len(comments) /\ Len(comments) \in 0..MaxComments
         /\ comments \in Seq([by : People, parent : 0..MaxComments])
         /\ \A c \in DOMAIN comments : comments[c] \in [by : People, parent : 0..MaxComments]
         /\ \A k \in {"like", "favorite"} : E!Count(k) \in 0..Cardinality(People)
         /\ E!Count("comment") \in 0..MaxComments
         /\ E!None \in E!Numbers
<1>1. E!TypeOK
  BY DEF EngagementInv
<1>2. Len(comments) \in 0..MaxComments
  <2>1. comments \in Seq([by : People, parent : 0..MaxComments]) /\ Len(comments) <= MaxComments
    BY <1>1 DEF E!TypeOK
  <2>2. Len(comments) \in Nat
    BY <2>1, LenProperties
  <2> QED BY <2>1, <2>2, BlogAssumption
<1>3. \A k \in {"like", "favorite"} : E!Count(k) \in 0..Cardinality(People)
  <2>1. marks \in SUBSET (People \X E!Kinds)
    BY <1>1 DEF E!TypeOK
  <2>2. \A k \in {"like", "favorite"} : Cardinality({u \in People : <<u, k>> \in marks}) \in 0..Cardinality(People)
    BY <2>1, CountsInRange
  <2> QED BY <2>2, CardinalityOfInstance DEF E!Count
<1>4. E!None \in E!Numbers
  <2>1. Cardinality(People) \in Nat
    BY FS_CardinalityType, BlogAssumption
  <2>2. 0 \in 0..Cardinality(People) /\ 0 \in 0..MaxComments
    BY <2>1, BlogAssumption
  <2> QED BY <2>2, CardinalityOfInstance DEF E!None, E!Numbers
<1>5. /\ DOMAIN comments = 1..Len(comments)
      /\ comments \in Seq([by : People, parent : 0..MaxComments])
      /\ \A c \in DOMAIN comments : comments[c] \in [by : People, parent : 0..MaxComments]
  <2>1. comments \in Seq([by : People, parent : 0..MaxComments])
    BY <1>1 DEF E!TypeOK
  <2> DEFINE Comment == [by : People, parent : 0..MaxComments]
  <2> HIDE DEF Comment
  <2>2. comments \in Seq(Comment)
    BY <2>1 DEF Comment
  <2>3. DOMAIN comments = 1..Len(comments)
    BY <2>2, LenProperties
  <2>4. \A c \in 1..Len(comments) : comments[c] \in Comment
    BY <2>2, ElementOfSeq
  <2> QED BY <2>1, <2>3, <2>4 DEF Comment
<1> QED BY <1>2, <1>3, <1>4, <1>5 DEF E!Count

\* There is no comment, no cache and no call at first.
LEMMA InitEngagement == E!Init => EngagementInv
<1> SUFFICES ASSUME E!Init PROVE EngagementInv
  OBVIOUS
<1>1. comments = <<>> /\ comments \in Seq([by : People, parent : 0..MaxComments]) /\ Len(comments) = 0
      /\ DOMAIN comments = {}
  BY DEF E!Init
<1>2. E!None \in E!Numbers /\ ~E!None.known
  <2>1. Cardinality(People) \in Nat
    BY FS_CardinalityType, BlogAssumption
  <2>2. 0 \in 0..Cardinality(People) /\ 0 \in 0..MaxComments
    BY <2>1, BlogAssumption
  <2> QED BY <2>2, CardinalityOfInstance DEF E!None, E!Numbers
<1>3. E!Idle \in ECall /\ E!Idle.at = "idle"
  BY <1>2, BlogAssumption DEF E!Idle, ECall, E!Kinds
<1>4. ecalls = [r \in Requests |-> E!Idle] /\ ecalls \in [Requests -> ECall]
  BY <1>3 DEF E!Init
<1>5. E!TypeOK
  <2>1. 0 <= MaxComments /\ 0 \in 0..MaxWrites
    BY BlogAssumption
  <2> QED BY <1>1, <1>2, <1>4, <2>1 DEF E!Init, E!TypeOK, ECall
<1>6. E!CachesKeepUp
  BY <1>2 DEF E!Init, E!CachesKeepUp
<1>7. Numbered /\ CommentsAsked /\ OneNotifier /\ Told
  BY <1>1, <1>3, <1>4 DEF E!Init, Numbered, CommentsAsked, OneNotifier, Told
<1> QED BY <1>5, <1>6, <1>7 DEF EngagementInv

----------------------------------------------------------------------------
(* Engagement: the caches                                                   *)

\* What the caches are about, but for the calls.
CacheVars == <<published, marks, engagement, ranking, stale>>

\* The call is about to delete a cache.
Caches(c) == c.at \in {"forget", "forget rank"}

\* What TypeOK says of one variable.
LEMMA CallTypes ==
  ASSUME EngagementInv
  PROVE  /\ \A r \in Requests : ecalls[r] \in ECall
         /\ ecalls \in [Requests -> ECall]
         /\ published \in BOOLEAN /\ marks \subseteq People \X E!Kinds
         /\ engagement \in E!Numbers /\ ranking \in {"none", "with", "without"}
         /\ writes \in 0..MaxWrites /\ stale \subseteq {"engagement", "ranking"}
         /\ dropped \subseteq 1..MaxComments
         /\ E!Idle \in ECall /\ E!Idle.at = "idle"
<1>1. E!Idle \in ECall /\ E!Idle.at = "idle"
  <2>1. E!None \in E!Numbers /\ 0 \in 0..MaxComments
    BY EngagementTypes, BlogAssumption
  <2> QED BY <2>1 DEF E!Idle, ECall, E!Kinds
<1> QED BY <1>1 DEF EngagementInv, E!TypeOK, ECall

\* A step that is not about the caches leaves them as right as they were.
LEMMA CachesQuiet ==
  ASSUME EngagementInv, NEW r \in Requests, NEW c,
         ecalls' = [ecalls EXCEPT ![r] = c], UNCHANGED CacheVars, ~Caches(ecalls[r])
  PROVE  E!CachesKeepUp'
<1>1. ecalls \in [Requests -> ECall]
  BY CallTypes
<1>2. \A k \in E!Kinds : E!Count(k)' = E!Count(k)
  BY DEF E!Kinds, E!Count, CacheVars
<1>3. ASSUME NEW x \in {"engagement", "ranking"}, E!Forgetting(x) PROVE E!Forgetting(x)'
  BY <1>1, <1>3 DEF E!Forgetting, Caches
<1> QED BY <1>2, <1>3 DEF EngagementInv, E!CachesKeepUp, CacheVars

\* While a call is about to delete both caches nothing is asked of them.
LEMMA CachesForgotten ==
  ASSUME EngagementInv, NEW r \in Requests, NEW c,
         ecalls' = [ecalls EXCEPT ![r] = c], c.at = "forget"
  PROVE  E!CachesKeepUp'
<1>1. ecalls'[r].at = "forget"
  BY CallTypes
<1>2. E!Forgetting("engagement")'
  BY <1>1 DEF E!Forgetting
<1>3. E!Forgetting("ranking")'
  <2>1. \E q \in Requests : ecalls'[q].at \in {"forget", "forget rank"}
    BY <1>1
  <2>2. "ranking" # "engagement"
    OBVIOUS
  <2> QED BY <2>1, <2>2 DEF E!Forgetting
<1> QED BY <1>2, <1>3 DEF E!CachesKeepUp

\* A step that leaves comments and notifications alone has to keep only types
\* and caches.
LEMMA CallKeeps ==
  ASSUME EngagementInv, NEW r \in Requests, NEW c \in ECall,
         ecalls' = [ecalls EXCEPT ![r] = c],
         UNCHANGED <<comments, notes, dropped>>,
         ecalls[r].at # "notify", c.at # "notify",
         c.at \in {"toggle", "create"} => c.user \in People,
         c.at = "create" => c.parent \in 0..Len(comments),
         published' \in BOOLEAN, marks' \subseteq People \X E!Kinds,
         engagement' \in E!Numbers, ranking' \in {"none", "with", "without"},
         writes' \in 0..MaxWrites, stale' \subseteq {"engagement", "ranking"},
         E!CachesKeepUp'
  PROVE  EngagementInv'
<1>1. ecalls' \in [Requests -> ECall]
  BY CallTypes
<1>2. E!TypeOK'
  BY <1>1 DEF EngagementInv, E!TypeOK, ECall
<1>3. \A q \in Requests : ecalls'[q] = IF q = r THEN c ELSE ecalls[q]
  BY CallTypes
<1>4. Numbered' /\ CommentsAsked'
  <2>1. Numbered'
    BY DEF EngagementInv, Numbered
  <2>2. \A q \in Requests : ecalls'[q] # c => ecalls'[q] = ecalls[q]
    BY <1>3
  <2>3. \A q \in Requests : ecalls'[q].at = "notify" =>
          /\ ecalls'[q].read.comment \in DOMAIN comments \ dropped
          /\ Answers(comments, ecalls'[q].read.comment)
    BY <2>2 DEF EngagementInv, CommentsAsked
  <2>4. \A q \in Requests :
          /\ ecalls'[q].at \in {"toggle", "create"} => ecalls'[q].user \in People
          /\ ecalls'[q].at = "create" => ecalls'[q].parent \in 0..Len(comments)
    BY <2>2 DEF EngagementInv, CommentsAsked
  <2>5. CommentsAsked'
    BY <2>3, <2>4 DEF CommentsAsked, Answers
  <2> QED BY <2>1, <2>5
<1>5. \A q \in Requests, x \in DOMAIN comments : Notifying(ecalls', q, x) <=> Notifying(ecalls, q, x)
  BY <1>3 DEF Notifying
<1>6. OneNotifier'
  BY <1>5 DEF EngagementInv, OneNotifier
<1>7. Told'
  <2> SUFFICES ASSUME NEW i \in DOMAIN comments
               PROVE  IF ~Answers(comments, i) \/ i \in dropped \/ \E q \in Requests : Notifying(ecalls', q, i)
                      THEN \A n \in notes : n.comment # i
                      ELSE \E n \in notes : /\ n.comment = i
                                             /\ n.to = comments[comments[i].parent].by
                                             /\ \A m \in notes : m.comment = i => m = n
    BY DEF Told
  <2>1. (\E q \in Requests : Notifying(ecalls', q, i)) <=> \E q \in Requests : Notifying(ecalls, q, i)
    BY <1>5
  <2>2. IF ~Answers(comments, i) \/ i \in dropped \/ \E q \in Requests : Notifying(ecalls, q, i)
        THEN \A n \in notes : n.comment # i
        ELSE \E n \in notes : /\ n.comment = i
                               /\ n.to = comments[comments[i].parent].by
                               /\ \A m \in notes : m.comment = i => m = n
    BY DEF EngagementInv, Told
  <2> QED BY <2>1, <2>2
<1> QED BY <1>2, <1>4, <1>6, <1>7 DEF EngagementInv

\* The row of a like is looked for.
LEMMA ToggleKeeps ==
  ASSUME EngagementInv, NEW r \in Requests, NEW u \in People, NEW k \in E!Kinds, E!Toggle(r, u, k)
  PROVE  EngagementInv'
<1> DEFINE c == [E!Idle EXCEPT !.at = "toggle", !.user = u, !.kind = k, !.had = <<u, k>> \in marks]
<1>1. /\ ecalls[r].at = "idle" /\ ecalls' = [ecalls EXCEPT ![r] = c]
      /\ UNCHANGED <<published, marks, comments, notes, engagement, ranking, stale, writes, dropped>>
  BY DEF E!Toggle, E!Start, E!At, E!rows, E!caches
<1>2. c \in ECall /\ c.at = "toggle" /\ c.user = u
  <2> DEFINE had == <<u, k>> \in marks
  <2>1. had \in BOOLEAN
    OBVIOUS
  <2>2. c = [E!Idle EXCEPT !.at = "toggle", !.user = u, !.kind = k, !.had = had]
    OBVIOUS
  <2> HIDE DEF had, c
  <2> QED BY <2>1, <2>2, CallTypes DEF ECall
<1> HIDE DEF c
<1>3. E!CachesKeepUp'
  BY <1>1, CachesQuiet DEF CacheVars, Caches
<1> QED BY <1>1, <1>2, <1>3, CallKeeps, CallTypes

\* It is inserted or deleted.
LEMMA FlipKeeps ==
  ASSUME EngagementInv, NEW r \in Requests, E!Flip(r)
  PROVE  EngagementInv'
<1> DEFINE mark == <<ecalls[r].user, ecalls[r].kind>>
           c == [E!Idle EXCEPT !.at = "forget"]
<1>1. /\ ecalls[r].at = "toggle" /\ writes < MaxWrites /\ writes' = writes + 1
      /\ UNCHANGED <<published, comments, notes, engagement, ranking, stale, dropped>>
      /\ \/ marks' \in {marks \ {mark}, marks \cup {mark}} /\ ecalls' = [ecalls EXCEPT ![r] = c]
         \/ marks' = marks /\ ecalls' = [ecalls EXCEPT ![r] = E!Idle]
  BY DEF E!Flip, E!At, E!OneMore, E!To, E!Done, E!caches
<1>2. c \in ECall /\ c.at = "forget"
  BY CallTypes DEF ECall
<1> HIDE DEF c
<1>3. mark \in People \X E!Kinds
  BY <1>1, CallTypes DEF EngagementInv, CommentsAsked, ECall
<1> HIDE DEF mark
<1>4. writes' \in 0..MaxWrites /\ marks' \subseteq People \X E!Kinds
  <2>1. writes' \in 0..MaxWrites
    BY <1>1, CallTypes, BlogAssumption
  <2>2. marks' \subseteq People \X E!Kinds
    BY <1>1, <1>3, CallTypes
  <2> QED BY <2>1, <2>2
<1>5. CASE ecalls' = [ecalls EXCEPT ![r] = c]
  <2>1. E!CachesKeepUp'
    BY <1>2, <1>5, CachesForgotten
  <2> QED BY <1>1, <1>2, <1>4, <1>5, <2>1, CallKeeps, CallTypes
<1>6. CASE marks' = marks /\ ecalls' = [ecalls EXCEPT ![r] = E!Idle]
  <2>1. E!CachesKeepUp'
    BY <1>1, <1>6, CachesQuiet DEF CacheVars, Caches
  <2> QED BY <1>1, <1>4, <1>6, <2>1, CallKeeps, CallTypes
<1> QED BY <1>1, <1>5, <1>6

\* The post is published or taken back.
LEMMA SetStatusKeepsCaches ==
  ASSUME EngagementInv, NEW r \in Requests, NEW p \in BOOLEAN, E!SetStatus(r, p)
  PROVE  EngagementInv'
<1> DEFINE c == [E!Idle EXCEPT !.at = "forget"]
<1>1. /\ ecalls[r].at = "idle" /\ ecalls' = [ecalls EXCEPT ![r] = c]
      /\ writes < MaxWrites /\ writes' = writes + 1 /\ published' = p
      /\ UNCHANGED <<marks, comments, notes, engagement, ranking, stale, dropped>>
  BY DEF E!SetStatus, E!At, E!OneMore, E!To, E!caches
<1>2. c \in ECall /\ c.at = "forget"
  BY CallTypes DEF ECall
<1> HIDE DEF c
<1>3. writes' \in 0..MaxWrites
  BY <1>1, CallTypes, BlogAssumption
<1>4. E!CachesKeepUp'
  BY <1>1, <1>2, CachesForgotten
<1> QED BY <1>1, <1>2, <1>3, <1>4, CallKeeps, CallTypes

\* The cache of counts is deleted, or not.
LEMMA ForgetEngagementKeeps ==
  ASSUME EngagementInv, NEW r \in Requests, E!ForgetEngagement(r)
  PROVE  EngagementInv'
<1> DEFINE c == [E!Idle EXCEPT !.at = "forget rank"]
<1>1. /\ ecalls[r].at = "forget" /\ ecalls' = [ecalls EXCEPT ![r] = c]
      /\ \/ engagement' = E!None /\ stale' = stale \ {"engagement"}
         \/ stale' = stale \cup {"engagement"} /\ engagement' = engagement
      /\ UNCHANGED <<published, marks, comments, notes, ranking, writes, dropped>>
  BY DEF E!ForgetEngagement, E!At, E!To, E!rows
<1>2. c \in ECall /\ c.at = "forget rank"
  BY CallTypes DEF ECall
<1> HIDE DEF c
<1>3. engagement' \in E!Numbers /\ stale' \subseteq {"engagement", "ranking"}
  BY <1>1, EngagementTypes, CallTypes
<1>4. E!CachesKeepUp'
  <2>1. ~engagement'.known \/ "engagement" \in stale'
    BY <1>1 DEF E!None
  <2>2. E!Forgetting("ranking")'
    <3>1. ecalls'[r].at = "forget rank"
      BY <1>1, <1>2, CallTypes
    <3> QED BY <3>1 DEF E!Forgetting
  <2> QED BY <2>1, <2>2 DEF E!CachesKeepUp
<1> QED BY <1>1, <1>2, <1>3, <1>4, CallKeeps, CallTypes

\* The ranking is deleted, or not.
LEMMA ForgetRankingKeeps ==
  ASSUME EngagementInv, NEW r \in Requests, E!ForgetRanking(r)
  PROVE  EngagementInv'
<1>1. /\ ecalls[r].at = "forget rank" /\ ecalls' = [ecalls EXCEPT ![r] = E!Idle]
      /\ \/ ranking' = "none" /\ stale' = stale \ {"ranking"}
         \/ stale' = stale \cup {"ranking"} /\ ranking' = ranking
      /\ UNCHANGED <<published, marks, comments, notes, engagement, writes, dropped>>
  BY DEF E!ForgetRanking, E!At, E!Done, E!rows
<1>2. ranking' \in {"none", "with", "without"} /\ stale' \subseteq {"engagement", "ranking"}
  BY <1>1, CallTypes
<1>3. E!CachesKeepUp'
  <2>1. ranking' = "none" \/ "ranking" \in stale'
    BY <1>1
  <2>2. "engagement" \notin stale' => "engagement" \notin stale
    BY <1>1
  <2>3. E!Forgetting("engagement") => E!Forgetting("engagement")'
    BY <1>1, CallTypes DEF E!Forgetting
  <2>4. \A k \in E!Kinds : E!Count(k)' = E!Count(k)
    BY <1>1 DEF E!Kinds, E!Count
  <2> QED BY <1>1, <2>1, <2>2, <2>3, <2>4 DEF EngagementInv, E!CachesKeepUp
<1> QED BY <1>1, <1>2, <1>3, CallKeeps, CallTypes

\* A reader finds no cache and begins to count.
LEMMA ReaderKeeps ==
  ASSUME EngagementInv, NEW r \in Requests, E!View(r) \/ E!ListRanking(r)
  PROVE  EngagementInv'
<1>1. /\ ecalls[r].at = "idle"
      /\ UNCHANGED <<published, marks, comments, notes, engagement, ranking, stale, writes, dropped>>
  BY DEF E!View, E!ListRanking, E!Start, E!At, E!rows, E!caches
<1>2. ASSUME NEW c \in ECall, c.at \in {"like", "keep rank"}, ecalls' = [ecalls EXCEPT ![r] = c]
      PROVE  EngagementInv'
  <2>1. E!CachesKeepUp'
    BY <1>1, <1>2, CachesQuiet DEF CacheVars, Caches
  <2> QED BY <1>1, <1>2, <2>1, CallKeeps, CallTypes
<1>3. CASE E!View(r)
  <2> DEFINE c == [E!Idle EXCEPT !.at = "like"]
  <2>1. ecalls' = [ecalls EXCEPT ![r] = c]
    BY <1>3 DEF E!View, E!Start
  <2>2. c \in ECall /\ c.at = "like"
    BY CallTypes DEF ECall
  <2> HIDE DEF c
  <2> QED BY <1>2, <2>1, <2>2
<1>4. CASE E!ListRanking(r)
  <2> DEFINE c == [E!Idle EXCEPT !.at = "keep rank", !.listed = published]
  <2>1. ecalls' = [ecalls EXCEPT ![r] = c]
    BY <1>4 DEF E!ListRanking, E!Start
  <2>2. c \in ECall /\ c.at = "keep rank"
    BY CallTypes DEF ECall
  <2> HIDE DEF c
  <2> QED BY <1>2, <2>1, <2>2
<1> QED BY <1>3, <1>4

\* It counts the next kind.
LEMMA CountNextKeeps ==
  ASSUME EngagementInv, NEW r \in Requests, E!CountNext(r)
  PROVE  EngagementInv'
<1> DEFINE at == ecalls[r].at
           next == [like |-> "favorite", favorite |-> "comment", comment |-> "keep"][at]
           read == [ecalls[r].read EXCEPT ![at] = E!Count(at)]
           c == [ecalls[r] EXCEPT !.read = read, !.at = next]
<1>1. /\ at \in {"like", "favorite", "comment"} /\ ecalls' = [ecalls EXCEPT ![r] = c]
      /\ UNCHANGED <<published, marks, comments, notes, engagement, ranking, stale, writes, dropped>>
  BY CallTypes DEF E!CountNext, E!rows, E!caches, ECall
<1>2. next \in {"favorite", "comment", "keep"}
  BY <1>1
<1>3. read \in E!Numbers
  <2>1. ecalls[r].read \in E!Numbers
    BY CallTypes DEF ECall
  <2>2. CASE at = "like"
    BY <2>1, <2>2, EngagementTypes, CardinalityOfInstance DEF E!Numbers
  <2>3. CASE at = "favorite"
    BY <2>1, <2>3, EngagementTypes, CardinalityOfInstance DEF E!Numbers
  <2>4. CASE at = "comment"
    BY <2>1, <2>4, EngagementTypes, CardinalityOfInstance DEF E!Numbers
  <2> QED BY <1>1, <2>2, <2>3, <2>4
<1> HIDE DEF next, read
<1>4. c \in ECall /\ c.at = next
  BY <1>2, <1>3, CallTypes DEF ECall
<1> HIDE DEF c
<1>5. E!CachesKeepUp'
  BY <1>1, CachesQuiet DEF CacheVars, Caches
<1> QED BY <1>1, <1>2, <1>4, <1>5, CallKeeps, CallTypes

\* It keeps what it counted; it lags behind only if it is marked stale.
LEMMA SetEngagementCacheKeeps ==
  ASSUME EngagementInv, NEW r \in Requests, E!SetEngagementCache(r)
  PROVE  EngagementInv'
<1>1. /\ ecalls[r].at = "keep" /\ ecalls' = [ecalls EXCEPT ![r] = E!Idle]
      /\ engagement' = [ecalls[r].read EXCEPT !.known = TRUE]
      /\ stale' = IF \E k \in E!Kinds : engagement'[k] # E!Count(k) THEN stale \cup {"engagement"}
                  ELSE stale \ {"engagement"}
      /\ UNCHANGED <<published, marks, comments, notes, ranking, writes, dropped>>
  BY DEF E!SetEngagementCache, E!At, E!Done, E!rows
<1>2. engagement' \in E!Numbers
  <2>1. ecalls[r].read \in E!Numbers
    BY CallTypes DEF ECall
  <2> QED BY <1>1, <2>1 DEF E!Numbers
<1>3. stale' \subseteq {"engagement", "ranking"}
  BY <1>1, CallTypes
<1>4. E!CachesKeepUp'
  <2>1. "engagement" \notin stale' => \A k \in E!Kinds : engagement'[k] = E!Count(k)
    BY <1>1
  <2>2. \A k \in E!Kinds : E!Count(k)' = E!Count(k)
    BY <1>1 DEF E!Kinds, E!Count
  <2>3. "ranking" \notin stale' => "ranking" \notin stale
    BY <1>1
  <2>4. E!Forgetting("ranking") => E!Forgetting("ranking")'
    BY <1>1, CallTypes DEF E!Forgetting
  <2> QED BY <1>1, <2>1, <2>2, <2>3, <2>4 DEF EngagementInv, E!CachesKeepUp
<1> QED BY <1>1, <1>2, <1>3, <1>4, CallKeeps, CallTypes

\* It keeps the ranking it listed.
LEMMA SetRankingCacheKeeps ==
  ASSUME EngagementInv, NEW r \in Requests, E!SetRankingCache(r)
  PROVE  EngagementInv'
<1>1. /\ ecalls[r].at = "keep rank" /\ ecalls' = [ecalls EXCEPT ![r] = E!Idle]
      /\ ranking' = IF ecalls[r].listed THEN "with" ELSE "without"
      /\ stale' = IF ecalls[r].listed = published THEN stale \ {"ranking"} ELSE stale \cup {"ranking"}
      /\ UNCHANGED <<published, marks, comments, notes, engagement, writes, dropped>>
  BY DEF E!SetRankingCache, E!At, E!Done, E!rows
<1>2. ranking' \in {"none", "with", "without"} /\ stale' \subseteq {"engagement", "ranking"}
  BY <1>1, CallTypes
<1>3. E!CachesKeepUp'
  <2>1. ranking' = "with" /\ "ranking" \notin stale' => published
    BY <1>1, CallTypes
  <2>2. "engagement" \notin stale' => "engagement" \notin stale
    BY <1>1
  <2>3. E!Forgetting("engagement") => E!Forgetting("engagement")'
    BY <1>1, CallTypes DEF E!Forgetting
  <2>4. \A k \in E!Kinds : E!Count(k)' = E!Count(k)
    BY <1>1 DEF E!Kinds, E!Count
  <2> QED BY <1>1, <2>1, <2>2, <2>3, <2>4 DEF EngagementInv, E!CachesKeepUp
<1> QED BY <1>1, <1>2, <1>3, CallKeeps, CallTypes

\* A cache expires.
LEMMA ExpireKeeps ==
  ASSUME EngagementInv, E!Expire
  PROVE  EngagementInv'
<1>1. /\ \/ engagement' = E!None /\ stale' = stale \ {"engagement"} /\ ranking' = ranking
         \/ ranking' = "none" /\ stale' = stale \ {"ranking"} /\ engagement' = engagement
      /\ UNCHANGED <<published, marks, comments, notes, ecalls, writes, dropped>>
  BY DEF E!Expire, E!rows
<1>2. engagement' \in E!Numbers /\ ranking' \in {"none", "with", "without"}
      /\ stale' \subseteq {"engagement", "ranking"}
  BY <1>1, CallTypes, EngagementTypes
<1>3. E!TypeOK'
  BY <1>1, <1>2 DEF EngagementInv, E!TypeOK
<1>4. \A k \in E!Kinds : E!Count(k)' = E!Count(k)
  BY <1>1 DEF E!Kinds, E!Count
<1>5. E!Forgetting("engagement")' = E!Forgetting("engagement")
      /\ E!Forgetting("ranking")' = E!Forgetting("ranking")
  BY <1>1 DEF E!Forgetting
<1>6. E!CachesKeepUp'
  <2>1. CASE engagement' = E!None /\ stale' = stale \ {"engagement"} /\ ranking' = ranking
    BY <1>1, <1>5, <2>1 DEF EngagementInv, E!CachesKeepUp, E!None
  <2>2. CASE ranking' = "none" /\ stale' = stale \ {"ranking"} /\ engagement' = engagement
    BY <1>1, <1>4, <1>5, <2>2 DEF EngagementInv, E!CachesKeepUp
  <2> QED BY <1>1, <2>1, <2>2
<1>7. Numbered' /\ CommentsAsked' /\ OneNotifier' /\ Told'
  <2>1. Numbered'
    BY <1>1 DEF EngagementInv, Numbered
  <2>2. CommentsAsked'
    BY <1>1 DEF EngagementInv, CommentsAsked
  <2>3. OneNotifier'
    BY <1>1 DEF EngagementInv, OneNotifier
  <2>4. Told'
    BY <1>1 DEF EngagementInv, Told
  <2> QED BY <2>1, <2>2, <2>3, <2>4
<1> QED BY <1>3, <1>6, <1>7 DEF EngagementInv

----------------------------------------------------------------------------
(* Engagement: comments and notifications                                   *)

\* The post and the comment to answer are looked at.
LEMMA CommentKeeps ==
  ASSUME EngagementInv, NEW r \in Requests, NEW u \in People, NEW p \in 0..Len(comments),
         E!Comment(r, u, p)
  PROVE  EngagementInv'
<1> DEFINE c == [E!Idle EXCEPT !.at = "create", !.user = u, !.parent = p]
<1>1. /\ ecalls[r].at = "idle" /\ ecalls' = [ecalls EXCEPT ![r] = c]
      /\ UNCHANGED <<published, marks, comments, notes, engagement, ranking, stale, writes, dropped>>
  BY DEF E!Comment, E!Start, E!At, E!rows, E!caches
<1>2. p \in 0..MaxComments
  BY EngagementTypes, BlogAssumption
<1>3. c \in ECall /\ c.at = "create" /\ c.user = u /\ c.parent = p
  BY <1>2, CallTypes DEF ECall
<1> HIDE DEF c
<1>4. E!CachesKeepUp'
  BY <1>1, CachesQuiet DEF CacheVars, Caches
<1> QED BY <1>1, <1>3, <1>4, CallKeeps, CallTypes

\* The comment is made: a number nobody has told of.
LEMMA CreateCommentKeeps ==
  ASSUME EngagementInv, NEW r \in Requests, E!CreateComment(r)
  PROVE  EngagementInv'
<1> DEFINE row == [by |-> ecalls[r].user, parent |-> ecalls[r].parent]
           x == Len(comments) + 1
           c == [E!Idle EXCEPT !.at = "notify", !.read.comment = x]
           told == row.parent # 0 /\ comments[row.parent].by # row.by
<1>1. /\ ecalls[r].at = "create" /\ Len(comments) < MaxComments
      /\ comments' = Append(comments, row)
      /\ UNCHANGED <<published, marks, notes, engagement, ranking, stale, writes, dropped>>
  BY DEF E!CreateComment, E!At, E!caches
<1>2. /\ row.by \in People /\ row.parent \in 0..Len(comments)
      /\ row \in [by : People, parent : 0..MaxComments]
  BY <1>1, CallTypes DEF EngagementInv, CommentsAsked, ECall
<1>3. /\ comments \in Seq([by : People, parent : 0..MaxComments])
      /\ DOMAIN comments = 1..Len(comments) /\ Len(comments) \in 0..MaxComments
  BY EngagementTypes
<1>4. ecalls' = [ecalls EXCEPT ![r] = IF told THEN c ELSE E!Idle]
  <2>1. Len(comments') = x
    BY <1>1, <1>2, <1>3, AppendProperties
  <2>2. CASE told
    <3>1. ecalls' = [ecalls EXCEPT ![r] = [E!Idle EXCEPT !.at = "notify", !.read.comment = Len(comments')]]
      BY <2>2 DEF E!CreateComment
    <3> QED BY <2>1, <2>2, <3>1
  <2>3. CASE ~told
    BY <2>3 DEF E!CreateComment, E!Done
  <2> QED BY <2>2, <2>3
<1> HIDE DEF row
<1>5. /\ comments' \in Seq([by : People, parent : 0..MaxComments])
      /\ Len(comments') = x
      /\ \A i \in 1..Len(comments) : comments'[i] = comments[i]
      /\ comments'[x] = row
  BY <1>1, <1>2, <1>3, AppendProperties
<1>6. /\ Len(comments') <= MaxComments /\ x \in 0..MaxComments
      /\ DOMAIN comments' = DOMAIN comments \cup {x} /\ x \notin DOMAIN comments
  <2>1. DOMAIN comments' = 1..x
    BY <1>5, LenProperties
  <2> QED BY <1>1, <1>3, <1>5, <2>1, BlogAssumption
<1>7. c \in ECall /\ c.at = "notify" /\ c.read.comment = x
  <2>1. E!Idle.read = E!None
    BY DEF E!Idle
  <2>2. [E!None EXCEPT !.comment = x] \in E!Numbers /\ [E!None EXCEPT !.comment = x].comment = x
    BY <1>6, EngagementTypes DEF E!Numbers
  <2>3. c = [E!Idle EXCEPT !.at = "notify", !.read = [E!None EXCEPT !.comment = x]]
    BY <2>1, CallTypes DEF ECall
  <2> HIDE DEF c
  <2> QED BY <2>2, <2>3, CallTypes DEF ECall
<1> HIDE DEF c
<1>8. \A q \in Requests : ecalls'[q] = IF q = r THEN (IF told THEN c ELSE E!Idle) ELSE ecalls[q]
  BY <1>4, CallTypes
<1> HIDE DEF told
<1>9. E!TypeOK'
  <2>1. ecalls' \in [Requests -> ECall]
    BY <1>4, <1>7, CallTypes
  <2> QED BY <1>1, <1>5, <1>6, <2>1 DEF EngagementInv, E!TypeOK, ECall
<1>10. E!CachesKeepUp'
  BY <1>1, <1>4, CachesQuiet DEF CacheVars, Caches
<1>11. \A i \in DOMAIN comments : comments[i].parent \in 0..(i - 1)
  BY DEF EngagementInv, Numbered
<1>12. Numbered'
  <2>1. row.parent \in 0..(x - 1)
    BY <1>2, <1>3
  <2> QED BY <1>1, <1>3, <1>5, <1>6, <1>11, <2>1 DEF EngagementInv, Numbered
<1>13. \A i \in DOMAIN comments : Answers(comments', i) <=> Answers(comments, i)
  <2> SUFFICES ASSUME NEW i \in DOMAIN comments PROVE Answers(comments', i) <=> Answers(comments, i)
    OBVIOUS
  <2>1. comments'[i] = comments[i]
    BY <1>3, <1>5
  <2>2. CASE comments[i].parent = 0
    BY <2>1, <2>2 DEF Answers
  <2>3. CASE comments[i].parent # 0
    <3>1. comments[i].parent \in 1..Len(comments)
      BY <1>3, <1>11, <2>3
    <3> QED BY <1>5, <2>1, <2>3, <3>1 DEF Answers
  <2> QED BY <2>2, <2>3
<1>14. Answers(comments', x) <=> told
  <2>1. CASE row.parent = 0
    BY <1>5, <2>1 DEF Answers, told, row
  <2>2. CASE row.parent # 0
    <3>1. row.parent \in 1..Len(comments)
      BY <1>2, <1>3, <2>2
    <3> QED BY <1>5, <2>2, <3>1 DEF Answers, told
  <2> QED BY <2>1, <2>2
<1>15. x \notin dropped /\ \A n \in notes : n.comment # x
  BY <1>6 DEF EngagementInv, Numbered
<1>16. CommentsAsked'
  <2> SUFFICES ASSUME NEW q \in Requests
               PROVE  /\ ecalls'[q].at \in {"toggle", "create"} => ecalls'[q].user \in People
                      /\ ecalls'[q].at = "create" => ecalls'[q].parent \in 0..Len(comments')
                      /\ ecalls'[q].at = "notify" =>
                           /\ ecalls'[q].read.comment \in DOMAIN comments' \ dropped'
                           /\ Answers(comments', ecalls'[q].read.comment)
    BY DEF CommentsAsked
  <2>1. CASE q = r
    BY <1>1, <1>6, <1>7, <1>8, <1>14, <1>15, <2>1, CallTypes
  <2>2. CASE q # r
    <3>1. ecalls'[q] = ecalls[q]
      BY <1>8, <2>2
    <3>2. /\ ecalls[q].at \in {"toggle", "create"} => ecalls[q].user \in People
          /\ ecalls[q].at = "create" => ecalls[q].parent \in 0..Len(comments)
          /\ ecalls[q].at = "notify" => /\ ecalls[q].read.comment \in DOMAIN comments \ dropped
                                        /\ Answers(comments, ecalls[q].read.comment)
      BY DEF EngagementInv, CommentsAsked
    <3>3. ecalls[q].at = "create" => ecalls[q].parent \in 0..Len(comments')
      BY <1>3, <1>5, <3>2
    <3> QED BY <1>1, <1>6, <1>13, <3>1, <3>2, <3>3
  <2> QED BY <2>1, <2>2
<1>17. /\ \A q \in Requests, i \in DOMAIN comments : Notifying(ecalls', q, i) <=> Notifying(ecalls, q, i)
       /\ \A q \in Requests : Notifying(ecalls', q, x) <=> q = r /\ told
  <2>1. \A q \in Requests : ~Notifying(ecalls, q, x)
    BY <1>6 DEF EngagementInv, CommentsAsked, Notifying
  <2> QED BY <1>1, <1>6, <1>7, <1>8, <2>1, CallTypes DEF Notifying
<1>18. OneNotifier'
  BY <1>6, <1>17 DEF EngagementInv, OneNotifier
<1>19. Told'
  <2> SUFFICES ASSUME NEW i \in DOMAIN comments'
               PROVE  IF ~Answers(comments', i) \/ i \in dropped' \/ \E q \in Requests : Notifying(ecalls', q, i)
                      THEN \A n \in notes' : n.comment # i
                      ELSE \E n \in notes' : /\ n.comment = i
                                             /\ n.to = comments'[comments'[i].parent].by
                                             /\ \A m \in notes' : m.comment = i => m = n
    BY DEF Told
  <2>1. CASE i = x
    BY <1>1, <1>14, <1>15, <1>17, <2>1
  <2>2. CASE i \in DOMAIN comments
    <3>1. IF ~Answers(comments, i) \/ i \in dropped \/ \E q \in Requests : Notifying(ecalls, q, i)
          THEN \A n \in notes : n.comment # i
          ELSE \E n \in notes : /\ n.comment = i /\ n.to = comments[comments[i].parent].by
                                /\ \A m \in notes : m.comment = i => m = n
      BY <2>2 DEF EngagementInv, Told
    <3>2. Answers(comments, i) => comments'[comments'[i].parent] = comments[comments[i].parent]
      <4> SUFFICES ASSUME Answers(comments, i)
                   PROVE  comments'[comments'[i].parent] = comments[comments[i].parent]
        OBVIOUS
      <4>1. comments'[i] = comments[i]
        BY <1>3, <1>5, <2>2
      <4>2. comments[i].parent \in 1..Len(comments)
        BY <1>3, <1>11, <2>2 DEF Answers
      <4> QED BY <1>5, <4>1, <4>2
    <3> QED BY <1>1, <1>13, <1>17, <2>2, <3>1, <3>2
  <2> QED BY <1>6, <2>1, <2>2
<1> QED BY <1>9, <1>10, <1>12, <1>16, <1>18, <1>19 DEF EngagementInv

\* The comment answered is there and has an author.
LEMMA AnsweredBefore ==
  ASSUME EngagementInv, NEW c \in DOMAIN comments, Answers(comments, c)
  PROVE  comments[c].parent \in DOMAIN comments /\ comments[comments[c].parent].by \in People
<1>1. DOMAIN comments = 1..Len(comments) /\ Len(comments) \in Nat
  BY EngagementTypes, BlogAssumption
<1>2. comments[c].parent \in 1..Len(comments)
  BY <1>1 DEF EngagementInv, Numbered, Answers
<1> QED BY <1>1, <1>2, EngagementTypes

\* The one call that tells of the comment does, or fails.
LEMMA NotifyKeeps ==
  ASSUME EngagementInv, NEW r \in Requests, E!Notify(r)
  PROVE  EngagementInv'
<1> DEFINE c == ecalls[r].read.comment
           n == [to |-> comments[comments[c].parent].by, comment |-> c, isRead |-> FALSE]
<1>1. /\ ecalls[r].at = "notify" /\ ecalls' = [ecalls EXCEPT ![r] = E!Idle]
      /\ \/ notes' = notes \cup {n} /\ dropped' = dropped
         \/ dropped' = dropped \cup {c} /\ notes' = notes
      /\ UNCHANGED <<published, marks, comments, engagement, ranking, stale, writes>>
  BY DEF E!Notify, E!At, E!Done, E!caches
<1>2. c \in DOMAIN comments \ dropped /\ Answers(comments, c) /\ Notifying(ecalls, r, c)
  BY <1>1 DEF EngagementInv, CommentsAsked, Notifying
<1>3. \A m \in notes : m.comment # c
  BY <1>2 DEF EngagementInv, Told
<1>4. c \in 1..MaxComments
  BY <1>2, EngagementTypes, BlogAssumption
<1>5. n \in [to : People, comment : 1..MaxComments, isRead : BOOLEAN]
      /\ n.comment = c /\ n.to = comments[comments[c].parent].by
  BY <1>2, <1>4, AnsweredBefore
<1>6. \A q \in Requests : ecalls'[q] = IF q = r THEN E!Idle ELSE ecalls[q]
  BY <1>1, CallTypes
<1>7. \A q \in Requests \ {r} : ~Notifying(ecalls, q, c)
  BY <1>2 DEF EngagementInv, OneNotifier
<1> HIDE DEF c, n
<1>8. E!TypeOK'
  <2>1. notes' \subseteq [to : People, comment : 1..MaxComments, isRead : BOOLEAN]
    BY <1>1, <1>5 DEF EngagementInv, E!TypeOK
  <2>2. dropped' \subseteq 1..MaxComments
    BY <1>1, <1>4 DEF EngagementInv, E!TypeOK
  <2>3. ecalls' \in [Requests -> ECall]
    BY <1>1, CallTypes
  <2> QED BY <1>1, <2>1, <2>2, <2>3 DEF EngagementInv, E!TypeOK, ECall
<1>9. E!CachesKeepUp'
  BY <1>1, CachesQuiet DEF CacheVars, Caches
<1>10. Numbered'
  BY <1>1, <1>2, <1>5 DEF EngagementInv, Numbered
<1>11. CommentsAsked'
  BY <1>1, <1>2, <1>6, <1>7, CallTypes DEF EngagementInv, CommentsAsked, Answers, Notifying
<1>12. \A q \in Requests, i \in DOMAIN comments : Notifying(ecalls', q, i) <=> Notifying(ecalls, q, i) /\ i # c
  BY <1>2, <1>6, <1>7, CallTypes DEF Notifying, c
<1>13. OneNotifier'
  BY <1>1, <1>12 DEF EngagementInv, OneNotifier
<1>14. Told'
  <2> SUFFICES ASSUME NEW i \in DOMAIN comments
               PROVE  IF ~Answers(comments, i) \/ i \in dropped' \/ \E q \in Requests : Notifying(ecalls', q, i)
                      THEN \A m \in notes' : m.comment # i
                      ELSE \E m \in notes' : /\ m.comment = i
                                             /\ m.to = comments[comments[i].parent].by
                                             /\ \A k \in notes' : k.comment = i => k = m
    BY <1>1 DEF Told
  <2>1. CASE i = c
    BY <1>1, <1>2, <1>3, <1>5, <1>12, <2>1
  <2>2. CASE i # c
    <3>1. (\E q \in Requests : Notifying(ecalls', q, i)) <=> \E q \in Requests : Notifying(ecalls, q, i)
      BY <1>12, <2>2
    <3>2. IF ~Answers(comments, i) \/ i \in dropped \/ \E q \in Requests : Notifying(ecalls, q, i)
          THEN \A m \in notes : m.comment # i
          ELSE \E m \in notes : /\ m.comment = i
                                 /\ m.to = comments[comments[i].parent].by
                                 /\ \A k \in notes : k.comment = i => k = m
      BY DEF EngagementInv, Told
    <3>3. /\ i \in dropped' <=> i \in dropped
          /\ \A m : m.comment = i => (m \in notes' <=> m \in notes)
      BY <1>1, <1>5, <2>2
    <3> QED BY <3>1, <3>2, <3>3
  <2> QED BY <2>1, <2>2
<1> QED BY <1>8, <1>9, <1>10, <1>11, <1>13, <1>14 DEF EngagementInv

\* A notification is read.
LEMMA MarkReadKeeps ==
  ASSUME EngagementInv, NEW n \in notes, E!MarkRead(n)
  PROVE  EngagementInv'
<1> DEFINE read == [n EXCEPT !.isRead = TRUE]
<1>1. /\ notes' = (notes \ {n}) \cup {read}
      /\ UNCHANGED <<published, marks, comments, engagement, ranking, stale, ecalls, writes, dropped>>
  BY DEF E!MarkRead, E!caches
<1>2. n \in [to : People, comment : 1..MaxComments, isRead : BOOLEAN]
  BY DEF EngagementInv, E!TypeOK
<1>3. read \in [to : People, comment : 1..MaxComments, isRead : BOOLEAN]
      /\ read.comment = n.comment /\ read.to = n.to
  BY <1>2
<1> HIDE DEF read
<1>4. E!TypeOK'
  BY <1>1, <1>3 DEF EngagementInv, E!TypeOK
<1>5. E!CachesKeepUp'
  BY <1>1 DEF EngagementInv, E!CachesKeepUp, E!Forgetting, E!Count, E!Kinds
<1>6. Numbered' /\ CommentsAsked' /\ OneNotifier'
  BY <1>1, <1>3 DEF EngagementInv, Numbered, CommentsAsked, OneNotifier, Answers, Notifying
<1>7. Told'
  <2> SUFFICES ASSUME NEW i \in DOMAIN comments
               PROVE  IF ~Answers(comments, i) \/ i \in dropped \/ \E q \in Requests : Notifying(ecalls, q, i)
                      THEN \A m \in notes' : m.comment # i
                      ELSE \E m \in notes' : /\ m.comment = i
                                             /\ m.to = comments[comments[i].parent].by
                                             /\ \A k \in notes' : k.comment = i => k = m
    BY <1>1 DEF Told, Answers, Notifying
  <2>1. IF ~Answers(comments, i) \/ i \in dropped \/ \E q \in Requests : Notifying(ecalls, q, i)
        THEN \A m \in notes : m.comment # i
        ELSE \E m \in notes : /\ m.comment = i
                               /\ m.to = comments[comments[i].parent].by
                               /\ \A k \in notes : k.comment = i => k = m
    BY DEF EngagementInv, Told
  <2> QED BY <1>1, <1>3, <2>1
<1> QED BY <1>4, <1>5, <1>6, <1>7 DEF EngagementInv

\* A call ends early: the caches it did not delete are stale, and nobody is
\* told.
LEMMA FailKeeps ==
  ASSUME EngagementInv, NEW r \in Requests, E!Fail(r)
  PROVE  EngagementInv'
<1>1. /\ ecalls[r].at # "idle" /\ ecalls' = [ecalls EXCEPT ![r] = E!Idle]
      /\ stale' = stale \cup (IF ecalls[r].at = "forget" THEN {"engagement", "ranking"}
                              ELSE IF ecalls[r].at = "forget rank" THEN {"ranking"} ELSE {})
      /\ dropped' = IF ecalls[r].at = "notify" THEN dropped \cup {ecalls[r].read.comment} ELSE dropped
      /\ UNCHANGED <<published, marks, comments, notes, engagement, ranking, writes>>
  BY DEF E!Fail, E!At, E!Done, E!rows
<1>2. stale' \subseteq {"engagement", "ranking"}
  BY <1>1, CallTypes
<1>3. E!CachesKeepUp'
  <2>1. \A k \in E!Kinds : E!Count(k)' = E!Count(k)
    BY <1>1 DEF E!Kinds, E!Count
  <2>2. "engagement" \notin stale' /\ E!Forgetting("engagement") => E!Forgetting("engagement")'
    BY <1>1, CallTypes DEF E!Forgetting
  <2>3. "ranking" \notin stale' /\ E!Forgetting("ranking") => E!Forgetting("ranking")'
    BY <1>1, CallTypes DEF E!Forgetting
  <2>4. stale \subseteq stale'
    BY <1>1
  <2> QED BY <1>1, <2>1, <2>2, <2>3, <2>4 DEF EngagementInv, E!CachesKeepUp
<1>4. CASE ecalls[r].at # "notify"
  BY <1>1, <1>2, <1>3, <1>4, CallKeeps, CallTypes
<1>5. CASE ecalls[r].at = "notify"
  <2>1. stale' = stale /\ UNCHANGED CacheVars
    BY <1>1, <1>5 DEF CacheVars
  <2>2. E!Notify(r)
    BY <1>1, <1>5, <2>1 DEF E!Notify, E!At, E!Done, E!caches
  <2> QED BY <2>2, NotifyKeeps
<1> QED BY <1>4, <1>5

\* Every step keeps the invariant.
LEMMA StepEngagement == EngagementInv /\ [E!Next]_eVars => EngagementInv'
<1> SUFFICES ASSUME EngagementInv, [E!Next]_eVars PROVE EngagementInv'
  OBVIOUS
<1>1. CASE UNCHANGED eVars
  <2>1. E!TypeOK' /\ E!CachesKeepUp'
    <3>1. /\ UNCHANGED <<published, marks, comments, notes, engagement, ranking>>
          /\ UNCHANGED <<ecalls, writes, stale, dropped>>
      BY <1>1 DEF eVars
    <3>2. E!TypeOK /\ E!CachesKeepUp
      BY DEF EngagementInv
    <3>3. E!TypeOK'
      BY <3>1, <3>2 DEF E!TypeOK
    <3>4. (\A k \in E!Kinds : E!Count(k)' = E!Count(k)) /\ (\A k : E!Forgetting(k)' = E!Forgetting(k))
      BY <3>1 DEF E!Count, E!Forgetting
    <3>5. E!CachesKeepUp'
      BY <3>1, <3>2, <3>4 DEF E!CachesKeepUp
    <3> QED BY <3>3, <3>5
  <2>2. Numbered' /\ CommentsAsked'
    BY <1>1 DEF eVars, EngagementInv, Numbered, CommentsAsked
  <2>3. OneNotifier' /\ Told'
    BY <1>1 DEF eVars, EngagementInv, OneNotifier, Told
  <2> QED BY <2>1, <2>2, <2>3 DEF EngagementInv
<1> QED BY <1>1, ToggleKeeps, CommentKeeps, SetStatusKeepsCaches, FlipKeeps, ForgetEngagementKeeps,
           ForgetRankingKeeps, ReaderKeeps, CountNextKeeps, SetEngagementCacheKeeps,
           SetRankingCacheKeeps, CreateCommentKeeps, NotifyKeeps, FailKeeps, MarkReadKeeps, ExpireKeeps
    DEF E!Next

----------------------------------------------------------------------------
(* The blog                                                                 *)

\* The index has documents of posts and nothing else.
LEMMA SearchTypesKept == SearchInv /\ SearchTypeOK /\ [SearchNext]_searchVars => SearchTypeOK'
<1> SUFFICES ASSUME SearchInv, SearchTypeOK, [SearchNext]_searchVars PROVE SearchTypeOK'
  OBVIOUS
<1>1. trouble \in 0..MaxTrouble /\ MaxTrouble \in Nat
  BY SearchAssumption DEF SearchTypeOK
<1>2. ASSUME Trouble PROVE trouble' \in 0..MaxTrouble
  BY <1>1, <1>2 DEF Trouble
<1>3. TypeOK'
  BY SearchStepIsStep, StepPostInv DEF SearchInv, PostInv
<1>4. ASSUME NEW doc \in Docs \cup {NoDoc}, Put(doc)
      PROVE  index' \in Docs \cup {NoDoc} /\ late' \subseteq Docs \cup {NoDoc} /\ trouble' \in 0..MaxTrouble
  <2>1. trouble' \in 0..MaxTrouble
    BY <1>1, <1>2, <1>4 DEF Put
  <2> QED BY <1>4, <2>1 DEF Put, SearchTypeOK
<1>5. ASSUME NEW p \in Post PROVE Doc(p) \in Docs
  BY DEF Doc, Docs, Post
<1>6. CASE SearchNext
  <2>1. ASSUME NEW r \in Requests, Operation(r), UNCHANGED search PROVE SearchTypeOK'
    BY <1>3, <2>1 DEF search, SearchTypeOK
  <2>2. ASSUME NEW r \in Requests, CommitPost(r) PROVE SearchTypeOK'
    BY <1>3, <2>2 DEF CommitPost, SearchTypeOK
  <2>3. ASSUME NEW r \in Requests, IndexPost(r) PROVE SearchTypeOK'
    <3>1. calls[r].post \in Post
      <4>1. calls[r].post \in Post \cup {NoPost}
        BY DEF SearchTypeOK, TypeOK, Call
      <4>2. calls[r].post.status = "published"
        BY <2>3 DEF IndexPost
      <4>3. NoPost.status = "draft"
        BY DEF NoPost
      <4> QED BY <4>1, <4>2, <4>3
    <3> QED BY <1>3, <1>4, <1>5, <2>3, <3>1 DEF IndexPost, Index, SearchTypeOK
  <2>4. ASSUME NEW r \in Requests, DeletePostFromIndex(r) PROVE SearchTypeOK'
    BY <1>3, <1>4, <2>4 DEF DeletePostFromIndex, Delete, SearchTypeOK
  <2>5. ASSUME NEW r \in Requests, Answer(r) PROVE SearchTypeOK'
    BY <1>3, <2>5 DEF Answer, search, SearchTypeOK
  <2>6. ASSUME NEW doc \in late, Land(doc) PROVE SearchTypeOK'
    BY <1>3, <2>6 DEF Land, SearchTypeOK
  <2>7. CASE Restart
    <3>1. index' \in Docs \cup {NoDoc}
      BY <1>5, <2>7 DEF Restart, SearchTypeOK, TypeOK
    <3>2. trouble' \in 0..MaxTrouble
      BY <1>2, <2>7 DEF Restart
    <3> QED BY <1>3, <2>7, <3>1, <3>2 DEF Restart, SearchTypeOK
  <2> QED BY <1>6, <2>1, <2>2, <2>3, <2>4, <2>5, <2>6, <2>7 DEF SearchNext
<1>7. CASE UNCHANGED searchVars
  BY <1>3, <1>7 DEF searchVars, search, SearchTypeOK
<1> QED BY <1>6, <1>7

\* The inductive invariant of the blog.
BlogInv == SearchInv /\ SearchTypeOK /\ TweetInv /\ BindingInv /\ EngagementInv

\* All of its variables.
blogVars == <<part, searchVars, eVars, tVars, bVars>>

\* It holds at first.
LEMMA InitBlog == BlogInit => BlogInv
<1> SUFFICES ASSUME BlogInit PROVE BlogInv
  OBVIOUS
<1>1. SearchInv
  BY InitSearchInv DEF BlogInit
<1>2. SearchTypeOK
  <2>1. 0 \in 0..MaxTrouble
    <3>1. MaxTrouble \in Nat
      BY SearchAssumption
    <3> QED BY <3>1
  <2>2. index = NoDoc /\ late = {} /\ crossed = FALSE /\ retitled = FALSE /\ trouble = 0
    BY DEF BlogInit, SearchInit
  <2>3. TypeOK
    BY <1>1 DEF SearchInv, PostInv
  <2> QED BY <2>1, <2>2, <2>3 DEF SearchTypeOK
<1>3. TweetInv /\ BindingInv /\ EngagementInv
  BY InitTweets, InitBindings, InitEngagement DEF BlogInit
<1> QED BY <1>1, <1>2, <1>3 DEF BlogInv

\* A step of the blog is a step of each part or leaves it alone.
LEMMA EachPartSteps ==
  [BlogNext]_blogVars =>
    /\ [SearchNext]_searchVars
    /\ [E!Next]_eVars
    /\ [T!Next]_tVars
    /\ [B!Next]_bVars
BY DEF BlogNext, blogVars

\* Every step keeps it.
LEMMA StepBlog == BlogInv /\ [BlogNext]_blogVars => BlogInv'
BY EachPartSteps, StepSearchInv, SearchTypesKept, StepTweets, StepBindings, StepEngagement DEF BlogInv

\* The invariants of all parts hold in every state.
THEOREM BlogInvariant == BlogSpec => []BlogInv
<1> QED BY InitBlog, StepBlog, PTL DEF BlogSpec, blogVars

\* Posts and index, engagement, tweets and bindings are well typed.
THEOREM BlogTypes == BlogSpec => []TypesOK
<1>1. BlogInv => TypesOK
  BY DEF BlogInv, TweetInv, BindingInv, EngagementInv, TypesOK
<1> QED BY <1>1, BlogInvariant, PTL

\* tweet_service.go indexes before it commits: a tweet that is kept is found,
\* whatever fails.
THEOREM KeptTweetsAreFound == BlogSpec => []KeptIsFound
<1>1. BlogInv => KeptIsFound
  BY DEF BlogInv, TweetInv, KeptIsFound
<1> QED BY <1>1, BlogInvariant, PTL

\* post_engagement_service.go: a cache differs from the rows only when a slow
\* reader filled it, Redis refused to delete it, or somebody is about to delete
\* it.
THEOREM CachesFollowRows == BlogSpec => []CachesKeepUp
<1>1. BlogInv => CachesKeepUp
  BY DEF BlogInv, EngagementInv, CachesKeepUp
<1> QED BY <1>1, BlogInvariant, PTL

\* One notification is one by its cardinality.
LEMMA ToldIsNotified == EngagementInv => E!RepliesNotified
<1> SUFFICES ASSUME EngagementInv PROVE E!RepliesNotified
  OBVIOUS
<1>1. \A n \in notes : n.comment \in DOMAIN comments
  BY DEF EngagementInv, Numbered
<1>2. ASSUME NEW c \in DOMAIN comments
      PROVE  LET p == comments[c].parent
                 told == {n \in notes : n.comment = c}
             IN IF p = 0 \/ comments[IF p = 0 THEN c ELSE p].by = comments[c].by THEN told = {}
                ELSE IF c \in dropped \/ \E r \in Requests : E!At(r, "notify") /\ ecalls[r].read.comment = c
                THEN told = {}
                ELSE E!Cardinality(told) = 1 /\ \A n \in told : n.to = comments[p].by
  <2> DEFINE p == comments[c].parent
             told == {n \in notes : n.comment = c}
             busy == c \in dropped \/ \E r \in Requests : Notifying(ecalls, r, c)
  <2>1. busy <=> c \in dropped \/ \E r \in Requests : E!At(r, "notify") /\ ecalls[r].read.comment = c
    BY DEF Notifying, E!At
  <2>2. Answers(comments, c) <=> ~(p = 0 \/ comments[IF p = 0 THEN c ELSE p].by = comments[c].by)
    BY DEF Answers
  <2>3. IF ~Answers(comments, c) \/ busy
        THEN \A n \in notes : n.comment # c
        ELSE \E n \in notes : /\ n.comment = c /\ n.to = comments[p].by
                              /\ \A m \in notes : m.comment = c => m = n
    BY DEF EngagementInv, Told
  <2>4. CASE ~Answers(comments, c) \/ busy
    <3>1. told = {}
      BY <2>3, <2>4
    <3> HIDE DEF busy, told
    <3> QED BY <2>1, <2>2, <2>4, <3>1 DEF told
  <2>5. CASE Answers(comments, c) /\ ~busy
    <3>1. PICK n \in notes : /\ n.comment = c /\ n.to = comments[p].by
                             /\ \A m \in notes : m.comment = c => m = n
      BY <2>3, <2>5
    <3>2. told = {n}
      BY <3>1
    <3>3. E!Cardinality(told) = 1
      BY <3>2, FS_Singleton, CardinalityOfInstance
    <3>4. \A m \in told : m.to = comments[p].by
      BY <3>1, <3>2
    <3> HIDE DEF busy
    <3> QED BY <2>1, <2>2, <2>5, <3>3, <3>4
  <2> QED BY <2>4, <2>5
<1> QED BY <1>1, <1>2 DEF E!RepliesNotified

\* comment_service.go: a reply to somebody else has one notification, to whom it
\* answers, unless it failed or is on its way; there are no others.
THEOREM RepliesAreNotified == BlogSpec => []RepliesNotified
<1>1. BlogInv => RepliesNotified
  BY ToldIsNotified DEF BlogInv, RepliesNotified
<1> QED BY <1>1, BlogInvariant, PTL

\* One row is one by its cardinality.
LEMMA LiveOnceIsListedOnce == BindingInv => B!ListedOnce
<1> SUFFICES ASSUME BindingInv, ~boverlapped, NEW p \in Articles
             PROVE  B!Cardinality(B!Live(p)) <= 1
  BY DEF B!ListedOnce
<1>1. \A i, j \in B!Live(p) : i = j
  BY DEF B!Live, BindingInv, LiveOnce
<1>2. B!Live(p) = {} \/ \E i : B!Live(p) = {i}
  BY <1>1
<1>3. Cardinality(B!Live(p)) \in {0, 1}
  BY <1>2, FS_Singleton, FS_EmptySet
<1>4. Cardinality(B!Live(p)) <= 1
  BY <1>3
<1> QED BY <1>4, CardinalityOfInstance

\* question_solution_handler.go: unless calls on one article overlapped, it is
\* listed once.
THEOREM ArticlesAreListedOnce == BlogSpec => []ListedOnce
<1>1. BlogInv => ListedOnce
  BY LiveOnceIsListedOnce DEF BlogInv, ListedOnce
<1> QED BY <1>1, BlogInvariant, PTL

\* Rows are removed by Unbind alone, whose call may rely on what it saw.
LEMMA StepRemoves ==
  BindingInv /\ [B!Next]_bVars =>
    [\A i \in DOMAIN rows :
       rows[i].live /\ ~rows'[i].live /\ ~boverlapped' =>
         \E r \in Requests : bcalls[r].at = "remove" /\ B!MayUnbind(bcalls[r].user, rows[i])]_bVars
<1> SUFFICES ASSUME BindingInv, B!Next,
                    NEW i \in DOMAIN rows, rows[i].live, ~rows'[i].live, ~boverlapped'
             PROVE  \E r \in Requests : bcalls[r].at = "remove" /\ B!MayUnbind(bcalls[r].user, rows[i])
  OBVIOUS
<1>1. ASSUME NEW row, Len(rows) < MaxRows, rows' = Append(rows, row) PROVE FALSE
  <2>1. rows'[i] = rows[i]
    BY <1>1, BindingTypes, AppendProperties DEF BindingInv, B!TypeOK
  <2> QED BY <2>1
<1>2. ASSUME rows' = rows PROVE FALSE
  BY <1>2
<1>3. ASSUME NEW r \in Requests, B!Unbind(r)
      PROVE  bcalls[r].at = "remove" /\ B!MayUnbind(bcalls[r].user, rows[i])
  <2>1. rows[i].post = bcalls[r].post /\ bcalls[r].at = "remove"
    BY <1>3 DEF B!Unbind, B!Live
  <2>2. ~boverlapped /\ ~bcalls[r].stale
    BY <1>3, WroteSays, BindingTypes DEF B!Unbind
  <2> QED BY <2>1, <2>2 DEF BindingInv, StillAllowed
<1> QED BY <1>1, <1>2, <1>3 DEF B!Next, B!LookToBind, B!LookToUnbind, B!Looked, B!Bind, B!AgentBind,
                                B!Fail, B!SetQuestion

\* Unless calls overlapped, a row is removed by who bound it, the owner of the
\* question or an administrator, although only the first row is asked about.
THEOREM RemovedByTheRight == BlogSpec => RemovedByRight
<1>1. BlogInv /\ [BlogNext]_blogVars =>
        [\A i \in DOMAIN rows :
           rows[i].live /\ ~rows'[i].live /\ ~boverlapped' =>
             \E r \in Requests : bcalls[r].at = "remove" /\ B!MayUnbind(bcalls[r].user, rows[i])]_bVars
  BY EachPartSteps, StepRemoves DEF BlogInv
<1> QED BY <1>1, BlogInvariant, PTL DEF BlogSpec, blogVars, RemovedByRight, B!RemovedByRight, bVars, B!vars

\* Every behaviour of the blog is one of each part by itself, so that what is
\* proved of posts and of their index holds of the blog.
THEOREM PartsBehave == BlogSpec => SearchSpec /\ E!Spec /\ T!Spec /\ B!Spec
<1>1. BlogInit => SearchInit /\ E!Init /\ T!Init /\ B!Init
  BY DEF BlogInit
<1>2. [BlogNext]_blogVars =>
        [SearchNext]_searchVars /\ [E!Next]_(E!vars) /\ [T!Next]_(T!vars) /\ [B!Next]_(B!vars)
  BY EachPartSteps DEF eVars, E!vars, tVars, T!vars, bVars, B!vars
<1> QED BY <1>1, <1>2, PTL DEF BlogSpec, blogVars, SearchSpec, E!Spec, T!Spec, B!Spec
================================================================================
