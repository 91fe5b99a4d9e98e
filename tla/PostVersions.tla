------------------------------ MODULE PostVersions ------------------------------
(****************************************************************************)
(* One post and its versions, from its first draft on. Every operation is a *)
(* transaction that reads the post and its versions without a lock, at one  *)
(* snapshot, and then writes: the whole row of the post as it was read, and *)
(* statements on the rows of the versions as they are. The locks of what it *)
(* wrote are held to its end, so the writes of two transactions never mix:  *)
(* a call reads in its first step and writes, all at once, in its last.     *)
(* Calls of other authors find no post. Title stands for title and summary. *)
(****************************************************************************)
EXTENDS Naturals, FiniteSets, Functions, TLC

CONSTANTS
  Requests,    \* requests being served beside each other
  Titles, Tags, Contents,
  MaxVersion,  \* bound of the version numbers
  MaxCalls     \* bound of the operations begun

ASSUME PostAssumption ==
  /\ IsFiniteSet(Requests)
  /\ MaxVersion \in Nat \ {0} /\ MaxCalls \in Nat

VARIABLES
  post,
  versions,    \* version rows by number
  calls,       \* what each request is about to write
  begun,
  overlapped   \* history: a call has written over rows that changed since it read them

db   == [post |-> post, versions |-> versions]
vars == <<post, versions, calls, begun, overlapped>>

Numbers  == 1..MaxVersion
Statuses == {"draft", "published"}
Post     == [title : Titles, tags : Tags, content : Contents,
             status : Statuses \cup {"hidden"}, published : 0..MaxVersion]
Version  == [title : Titles, tags : Tags, content : Contents, status : Statuses]

\* What a call has not read.
NoVersion == [title |-> "", tags |-> "", content |-> "", status |-> "draft"]
NoPost    == [title |-> "", tags |-> "", content |-> "", status |-> "draft", published |-> 0]

\* A call: what it writes of the post, of one version, and to what else.
Call == [at : {"idle", "picked", "open", "committed"},
         op : {"none", "copy", "save", "delete_draft", "publish", "unpublish", "meta", "hide"},
         post : Post \cup {NoPost}, version : 0..MaxVersion, row : Version \cup {NoVersion},
         meta : BOOLEAN, editing : BOOLEAN, stale : BOOLEAN]

TypeOK ==
  /\ post \in Post
  /\ DOMAIN versions \subseteq Numbers /\ versions \in [DOMAIN versions -> Version]
  /\ calls \in [Requests -> Call]
  /\ begun \in 0..MaxCalls
  /\ overlapped \in BOOLEAN

Blank(t, g, c) == [title |-> t, tags |-> g, content |-> c, status |-> "draft"]

Idle == [at |-> "idle", op |-> "none", post |-> NoPost, version |-> 0, row |-> NoVersion,
         meta |-> FALSE, editing |-> FALSE, stale |-> FALSE]

\* CreateDraft has made the post and its first version, in one transaction.
CreateDraft(t, g, c) ==
  /\ post = [title |-> t, tags |-> g, content |-> c, status |-> "draft", published |-> 0]
  /\ versions = [v \in {1} |-> Blank(t, g, c)]

Init ==
  /\ \E t \in Titles, g \in Tags, c \in Contents : CreateDraft(t, g, c)
  /\ calls = [r \in Requests |-> Idle]
  /\ begun = 0
  /\ overlapped = FALSE

----------------------------------------------------------------------------
(* The repository: one operator per statement on the database d.            *)

Latest(vs) == CHOOSE v \in DOMAIN vs : \A w \in DOMAIN vs : w <= v

Update(d, p) == [d EXCEPT !.post = p]

CreateVersion(d, v, row) ==
  [d EXCEPT !.versions = [w \in DOMAIN d.versions \cup {v} |->
                            IF w = v THEN row ELSE d.versions[w]]]

DeleteVersion(d, v) == [d EXCEPT !.versions = Restrict(@, DOMAIN @ \ {v})]

SetAllDraftStatus(d) ==
  [d EXCEPT !.versions = [v \in DOMAIN d.versions |-> [d.versions[v] EXCEPT !.status = "draft"]]]

\* The row with the columns named: a status, and maybe a body.
Changed(row, fields) ==
  [row EXCEPT !.status = fields.status,
              !.content = IF "content" \in DOMAIN fields THEN fields.content ELSE @]

\* Slip: a row without the number is made.
UpsertDraftByVersion(d, v, fields) ==
  CreateVersion(d, v, IF v \in DOMAIN d.versions THEN Changed(d.versions[v], fields)
                      ELSE Changed(NoVersion, fields))

\* No row has the number, no row is updated.
UpdateDraftByVersion(d, v, fields) ==
  [d EXCEPT !.versions = [w \in DOMAIN d.versions |->
                            IF w = v THEN Changed(d.versions[w], fields) ELSE d.versions[w]]]

UpdateAllVersionMeta(d, t, g) ==
  [d EXCEPT !.versions = [v \in DOMAIN d.versions |->
                            [d.versions[v] EXCEPT !.title = t, !.tags = g]]]

----------------------------------------------------------------------------
(* The first step of each operation: what it reads, and what it will write. *)

Open(op) == [Idle EXCEPT !.at = "open", !.op = op]

Begin(r, call) ==
  /\ begun < MaxCalls /\ begun' = begun + 1
  /\ calls' = [calls EXCEPT ![r] = call]
  /\ UNCHANGED <<post, versions, overlapped>>

Free(r) == calls[r].at = "idle"

\* What the handlers let through: a version is a positive number, a new title
\* is not empty, and a copy without a readable body is one without a source.
SaveParams    == [version : Numbers, title : Titles, content : Contents]
MetaParams    == [title : Titles, tags : Tags]
CopyParams    == 0..MaxVersion
PublishParams == Numbers
DeleteParams  == Numbers

\* The older routes are served once they have picked the version themselves.
Versioned(r, op, v) ==
  \/ Free(r)
  \/ calls[r].at = "picked" /\ calls[r].op = op /\ calls[r].version = v

\* The older routes pick the version in a read of its own: the published one
\* (to be saved) or the latest one.
PickToSave(r) ==
  /\ Free(r) /\ begun < MaxCalls /\ DOMAIN versions # {}
  /\ calls' = [calls EXCEPT ![r] = [Idle EXCEPT !.at = "picked", !.op = "save",
       !.version = IF post.published > 0 THEN post.published ELSE Latest(versions)]]
  /\ UNCHANGED <<post, versions, begun, overlapped>>

PickToPublish(r) ==
  /\ Free(r) /\ begun < MaxCalls /\ DOMAIN versions # {}
  /\ calls' = [calls EXCEPT ![r] = [Idle EXCEPT !.at = "picked", !.op = "publish",
                                                 !.version = Latest(versions)]]
  /\ UNCHANGED <<post, versions, begun, overlapped>>

\* from = 0 is a request without a source: the published or the latest version.
CreateDraftCopy(r) ==
  /\ Free(r) /\ DOMAIN versions # {} /\ Latest(versions) < MaxVersion
  /\ \E from \in CopyParams :
       LET source == IF from > 0 THEN from
                     ELSE IF post.published > 0 THEN post.published ELSE Latest(versions)
       IN /\ source \in DOMAIN versions
          /\ Begin(r, [Open("copy") EXCEPT
                   !.version = Latest(versions) + 1,
                   !.row = Blank(post.title, post.tags, versions[source].content)])

\* Slip: a save of any version leaves the post published.
SaveAsPublished(r) ==
  \E q \in SaveParams :
    LET v == q.version
        t == q.title
        editing == post.published = v
        meta    == post.title # t \/ post.tags # versions[v].tags
        synced  == IF meta THEN [post EXCEPT !.title = t, !.tags = versions[v].tags] ELSE post
    IN /\ Versioned(r, "save", v) /\ v \in DOMAIN versions
       /\ Begin(r, [Open("save") EXCEPT
                !.version = v, !.meta = meta, !.editing = editing,
                !.row = [Blank(t, versions[v].tags, q.content) EXCEPT
                           !.status = IF editing THEN "published" ELSE "draft"],
                !.post = [synced EXCEPT !.content = IF editing THEN q.content ELSE @,
                                        !.status = "published"]])

\* The title goes to the post and to all its versions, with the tags of the saved
\* version; a save that changes nothing (but for its note) may write nothing.
SaveDraftByVersion(r) ==
  \E q \in SaveParams :
    LET v == q.version
        t == q.title
        editing == post.published = v
        meta    == post.title # t \/ post.tags # versions[v].tags
        synced  == IF meta THEN [post EXCEPT !.title = t, !.tags = versions[v].tags] ELSE post
    IN /\ Versioned(r, "save", v) /\ v \in DOMAIN versions
       /\ Begin(r, [Open("save") EXCEPT
                !.version = v, !.meta = meta, !.editing = editing,
                !.row = [Blank(t, versions[v].tags, q.content) EXCEPT
                           !.status = IF editing THEN "published" ELSE "draft"],
                !.post = IF editing THEN [synced EXCEPT !.content = q.content, !.status = "published"]
                         ELSE synced])

\* Slip: the last version is not kept.
DeleteAnyDraft(r) ==
  /\ Free(r)
  /\ \E v \in (DeleteParams \cap DOMAIN versions) \ {post.published} :
       Begin(r, [Open("delete_draft") EXCEPT !.version = v])

DeleteDraft(r) ==
  /\ Free(r)
  /\ Cardinality(DOMAIN versions) > 1
  /\ \E v \in (DeleteParams \cap DOMAIN versions) \ {post.published} :
       Begin(r, [Open("delete_draft") EXCEPT !.version = v])

PublishDraft(r) ==
  \E v \in PublishParams :
    /\ Versioned(r, "publish", v) /\ v \in DOMAIN versions
    /\ Begin(r, [Open("publish") EXCEPT
             !.version = v,
             !.post = [title |-> versions[v].title, tags |-> versions[v].tags,
                       content |-> versions[v].content,
                       status |-> "published", published |-> v]])

\* A post that is not published is refused.
Unpublish(r) ==
  /\ Free(r) /\ post.published > 0 /\ post.status = "published"
  /\ Begin(r, [Open("unpublish") EXCEPT
           !.version = post.published,
           !.post = [post EXCEPT !.status = "draft", !.published = 0]])

\* What the post already has is not written, but the call succeeds.
UpdateMeta(r) ==
  /\ Free(r)
  /\ \E q \in MetaParams :
       IF <<q.title, q.tags>> = <<post.title, post.tags>>
       THEN Begin(r, [Open("meta") EXCEPT !.at = "committed", !.post = post])
       ELSE Begin(r, [Open("meta") EXCEPT !.post = [post EXCEPT !.title = q.title, !.tags = q.tags]])

\* Slip: a hidden post keeps its published version.
HideOnly(r) ==
  /\ Free(r)
  /\ Begin(r, [Open("hide") EXCEPT !.post = [post EXCEPT !.status = "hidden"]])

\* By the author or by a manager; the rows of the versions are left as they are.
DeletePost(r) ==
  /\ Free(r)
  /\ Begin(r, [Open("hide") EXCEPT !.post = [post EXCEPT !.status = "hidden", !.published = 0]])

----------------------------------------------------------------------------
(* The last step: the statements of each operation, in their order.         *)

CopyWrites(d, c) == CreateVersion(d, c.version, c.row)

SaveWrites(d, c) ==
  LET synced == IF c.meta
                THEN UpdateAllVersionMeta(Update(d, c.post), c.post.title, c.post.tags) ELSE d
      saved  == UpdateDraftByVersion(synced, c.version,
                  [content |-> c.row.content, status |-> c.row.status])
  IN IF c.editing THEN Update(saved, c.post) ELSE saved

\* Slip: the version published before keeps its mark.
PublishWritesOne(d, c) ==
  Update(UpdateDraftByVersion(d, c.version, [status |-> "published"]), c.post)

PublishWrites(d, c) ==
  Update(UpdateDraftByVersion(SetAllDraftStatus(d), c.version, [status |-> "published"]), c.post)

UnpublishWrites(d, c) ==
  Update(UpdateDraftByVersion(d, c.version, [status |-> "draft"]), c.post)

\* Slip: the versions keep the old title.
MetaWritesPost(d, c) == Update(d, c.post)

MetaWrites(d, c) == UpdateAllVersionMeta(Update(d, c.post), c.post.title, c.post.tags)

Written(d, c) ==
  CASE c.op = "copy"         -> CopyWrites(d, c)
    [] c.op = "save"         -> SaveWrites(d, c)
    [] c.op = "delete_draft" -> DeleteVersion(d, c.version)
    [] c.op = "publish"      -> PublishWrites(d, c)
    [] c.op = "unpublish"    -> UnpublishWrites(d, c)
    [] c.op = "meta"         -> MetaWrites(d, c)
    [] c.op = "hide"         -> Update(d, c.post)

\* A second row of one number is refused by the unique key.
Commit(r) ==
  LET c == calls[r] IN
  /\ c.at = "open"
  /\ c.op = "copy" => c.version \notin DOMAIN versions
  /\ post' = Written(db, c).post
  /\ versions' = Written(db, c).versions
  /\ overlapped' = (overlapped \/ c.stale)
  /\ calls' = [q \in Requests |->
                 IF q = r THEN [c EXCEPT !.at = "committed"]
                 ELSE [calls[q] EXCEPT !.stale = calls[q].at = "open"]]
  /\ UNCHANGED begun

\* The call ends: answered, or rolled back (a failed statement, a deadlock), or
\* the version it picked is gone.
End(r) ==
  /\ ~Free(r)
  /\ calls' = [calls EXCEPT ![r] = Idle]
  /\ UNCHANGED <<post, versions, begun, overlapped>>

\* The process dies; what it had not committed is rolled back.
Crash ==
  /\ calls' = [r \in Requests |-> Idle]
  /\ UNCHANGED <<post, versions, begun, overlapped>>

Operation(r) ==
  \/ PickToSave(r) \/ PickToPublish(r) \/ CreateDraftCopy(r) \/ SaveDraftByVersion(r)
  \/ DeleteDraft(r) \/ PublishDraft(r) \/ Unpublish(r) \/ UpdateMeta(r) \/ DeletePost(r)

Next == (\E r \in Requests : Operation(r) \/ Commit(r) \/ End(r)) \/ Crash

Spec == Init /\ [][Next]_vars

----------------------------------------------------------------------------
\* However calls overlap, a post is published exactly when it names a published
\* version: the two are written in one row, and every writer writes both.
PublishedNamesVersion == post.status = "published" <=> post.published > 0

\* Unless a call has written over what it had not read: what a published post
\* shows is its published version, the only one marked so.
PublicationWhole ==
  ~overlapped /\ post.published > 0 =>
    /\ {v \in DOMAIN versions : versions[v].status = "published"} = {post.published}
    /\ post.content = versions[post.published].content

\* Unless calls have overlapped so, title, summary and tags are those of the post
\* in every version, however many there are.
MetaShared ==
  ~overlapped => \A v \in DOMAIN versions :
                   <<versions[v].title, versions[v].tags>> = <<post.title, post.tags>>

\* Unless calls have overlapped so, a version is left.
VersionLeft == ~overlapped => DOMAIN versions # {}

\* What the rows of a post are worth, all of it.
PostWhole == PublishedNamesVersion /\ PublicationWhole /\ MetaShared /\ VersionLeft

\* A post comes to be published by publishing it, or by the save of a call that
\* read it published before it was taken back.
PublishedByPublishing ==
  [][post.status # "published" /\ post'.status = "published" =>
       \E r \in Requests : /\ calls[r].at = "open" /\ calls'[r].at = "committed"
                           /\ calls[r].op = "publish" \/ calls[r].stale]_vars

\* What author and readers may count on, for the row of the post, what the rows of
\* its versions hold, and the calls that read before another one wrote.
Promise == INSTANCE Publication WITH
  status <- post.status, title <- post.title, tags <- post.tags, content <- post.content,
  drafts <- {versions[v].content : v \in DOMAIN versions},
  late <- (\E r \in Requests : calls[r].at = "open" /\ calls[r].stale),
  clashed <- overlapped

\* Each transaction is one change of the post, made at once by who has seen it as it
\* is, or one that has not; and it is published by nobody else.
PublishedInOrder == Promise!Spec /\ PublishedByPublishing
=============================================================================
