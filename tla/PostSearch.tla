------------------------------- MODULE PostSearch -------------------------------
(****************************************************************************)
(* The search index beside the posts: PostVersions with the step each call  *)
(* takes after its transaction, when it tells Elasticsearch, in a call of   *)
(* its own whose failure nobody looks at, and with the synchronisation at   *)
(* startup. Readers are shown what the index has, not what the posts are.   *)
(****************************************************************************)
EXTENDS PostVersions

CONSTANT MaxTrouble   \* bound: failed or late calls of Elasticsearch, crashes

\* A post has a title (the handlers require one), which no document lacks.
ASSUME SearchAssumption == "" \notin Titles /\ MaxTrouble \in Nat

VARIABLES
  index,     \* the document of the post, or NoDoc
  late,      \* what an index call leaves behind that was given up after 3 seconds
  crossed,   \* history: a call has committed before an earlier one was indexed
  retitled,  \* history: a save has changed the title of a published post since
  trouble

search    == <<index, late, crossed, retitled, trouble>>
searchVars == <<vars, search>>

NoDoc == [title |-> "", tags |-> ""]

\* Slip: the whole row goes into the index.
DocOfRow(p) == p

Doc(p) == [title |-> p.title, tags |-> p.tags]

Docs == [title : Titles, tags : Tags]

SearchTypeOK ==
  /\ TypeOK
  /\ index \in Docs \cup {NoDoc} /\ late \subseteq Docs \cup {NoDoc}
  /\ crossed \in BOOLEAN /\ retitled \in BOOLEAN
  /\ trouble \in 0..MaxTrouble

SearchInit ==
  /\ Init
  /\ index = NoDoc /\ late = {}
  /\ crossed = FALSE /\ retitled = FALSE
  /\ trouble = 0

----------------------------------------------------------------------------
Trouble == trouble < MaxTrouble /\ trouble' = trouble + 1

\* One call of Elasticsearch: done, failed, or given up and perhaps done later.
Put(doc) ==
  \/ index' = doc /\ UNCHANGED <<late, trouble>>
  \/ Trouble /\ UNCHANGED <<index, late>>
  \/ Trouble /\ late' = late \cup {doc} /\ UNCHANGED index

Index(doc) == Put(doc)

\* A document that is not there is deleted as well.
Delete == Put(NoDoc)

Committed(r) == calls[r].at = "committed"

Indexed == {"publish", "meta"}
Removed == {"unpublish", "hide"}

CommitPost(r) ==
  /\ Commit(r)
  /\ crossed' = (crossed \/ \E q \in Requests : Committed(q))
  /\ retitled' = (retitled \/ (calls[r].op = "save" /\ calls[r].meta))
  /\ UNCHANGED <<index, late, trouble>>

\* Slip: what is indexed is a draft too.
IndexAny(r) ==
  /\ Committed(r) /\ calls[r].op \in Indexed
  /\ Index(Doc(calls[r].post))
  /\ End(r)
  /\ retitled' = FALSE
  /\ UNCHANGED crossed

\* Slip: a new title waits for the next publishing.
IndexPublish(r) ==
  /\ Committed(r) /\ calls[r].op \in Indexed /\ calls[r].post.status = "published"
  /\ IF calls[r].op = "publish" THEN Index(Doc(calls[r].post))
     ELSE UNCHANGED <<index, late, trouble>>
  /\ End(r)
  /\ retitled' = FALSE
  /\ UNCHANGED crossed

\* After publishing, or a change of title or tags of what the call read as published.
IndexPost(r) ==
  /\ Committed(r) /\ calls[r].op \in Indexed /\ calls[r].post.status = "published"
  /\ Index(Doc(calls[r].post))
  /\ End(r)
  /\ retitled' = FALSE
  /\ UNCHANGED crossed

DeletePostFromIndex(r) ==
  /\ Committed(r) /\ calls[r].op \in Removed
  /\ Delete
  /\ End(r)
  /\ UNCHANGED <<crossed, retitled>>

\* Every other call says nothing to the index: a save of the published version too.
Answer(r) ==
  /\ Committed(r) => /\ calls[r].op \notin Removed
                     /\ calls[r].op \notin Indexed \/ calls[r].post.status # "published"
  /\ End(r)
  /\ UNCHANGED search

Land(doc) ==
  /\ index' = doc /\ late' = late \ {doc}
  /\ UNCHANGED <<vars, crossed, retitled, trouble>>

\* The process dies, whatever its calls were doing. Before it serves again it puts
\* the published posts into the index; what should not be there stays.
Restart ==
  /\ Trouble
  /\ Crash
  /\ index' \in IF post.status = "published" THEN {index, Doc(post)} ELSE {index}
  /\ UNCHANGED <<late, crossed, retitled>>

SearchNext ==
  \/ \E r \in Requests :
       \/ Operation(r) /\ UNCHANGED search
       \/ CommitPost(r) \/ IndexPost(r) \/ DeletePostFromIndex(r) \/ Answer(r)
  \/ \E doc \in late : Land(doc)
  \/ Restart

SearchSpec == SearchInit /\ [][SearchNext]_searchVars

----------------------------------------------------------------------------
\* What a search finds is taken from the index; no post is looked at.
Found == index # NoDoc

Calm == ~overlapped /\ ~crossed /\ trouble = 0 /\ \A r \in Requests : ~Committed(r)

\* As long as calls do not commit before an earlier one is indexed and nothing
\* fails, a post is found exactly while it is published, between its calls.
SearchFollowsPost == Calm => (Found <=> post.status = "published")

\* And it is found under its title and tags, but for a save that has changed them.
SearchShowsPost == Calm /\ Found /\ ~retitled => index = Doc(post)

\* What a search is worth: the right posts, shown as they are.
SearchRight == SearchFollowsPost /\ SearchShowsPost
=============================================================================
