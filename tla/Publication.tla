------------------------------ MODULE Publication ------------------------------
(****************************************************************************)
(* What author and readers of a post may count on, without versions, their  *)
(* numbers, transactions or requests: readers see what the author published *)
(* until the author saves it anew, drafts never show by themselves, and     *)
(* nothing but publishing puts a draft before the readers. A change is as   *)
(* if made at once, unless it was begun before another one was made (late): *)
(* that one may undo what it did not see.                                   *)
(****************************************************************************)
CONSTANTS Titles, Tags, Contents

VARIABLES
  status, title, tags, content,  \* the post, as its readers see it
  drafts,                        \* the contents of its versions
  late,                          \* a change is under way that has not seen the last one
  clashed                        \* such a change was made

vars == <<status, title, tags, content, drafts, late, clashed>>

Init ==
  /\ status = "draft" /\ title \in Titles /\ tags \in Tags /\ content \in Contents
  /\ drafts = {content}
  /\ late = FALSE /\ clashed = FALSE

\* Unless changes have clashed, what readers see is kept.
Kept == ~clashed /\ status = "published" => content' \in drafts'

\* One draft is published, under the title and tags the post has.
Publish ==
  /\ status' = "published" /\ content' \in drafts
  /\ (clashed \/ UNCHANGED <<title, tags>>)
  /\ UNCHANGED drafts

\* A draft, or what is published, is replaced; the title is that of the whole post.
Save ==
  /\ title' \in Titles /\ (clashed \/ UNCHANGED tags)
  /\ \E c \in Contents :
       /\ content' = content \/ (status = "published" /\ content' = c)
       /\ \E old \in drafts : drafts' \in {drafts \cup {c}, (drafts \ {old}) \cup {c}}
  /\ Kept
  /\ UNCHANGED status

\* A copy adds nothing that was not there.
Copy == UNCHANGED <<status, title, tags, content, drafts>>

Discard ==
  /\ \E old \in drafts : drafts' \in {drafts, drafts \ {old}}
  /\ drafts' # {} /\ Kept
  /\ UNCHANGED <<status, title, tags, content>>

Retitle ==
  /\ title' \in Titles /\ tags' \in Tags
  /\ UNCHANGED <<status, content, drafts>>

Unpublish == status = "published" /\ status' = "draft" /\ UNCHANGED <<title, tags, content, drafts>>

Hide == status' = "hidden" /\ UNCHANGED <<title, tags, content, drafts>>

\* A change that has seen the post as it is.
Change ==
  /\ Copy \/ Publish \/ Unpublish \/ Hide \/ Retitle \/ Save \/ Discard
  /\ late' \in BOOLEAN /\ UNCHANGED clashed

\* A change that has not.
Clash ==
  /\ late /\ late' \in BOOLEAN /\ clashed' = TRUE
  /\ status' \in {"draft", "published", "hidden"}
  /\ title' \in Titles /\ tags' \in Tags /\ content' \in Contents /\ drafts' \subseteq Contents

\* What was late is given up.
Forget == late' = FALSE /\ UNCHANGED <<status, title, tags, content, drafts, clashed>>

Next == Change \/ Clash \/ Forget

Spec == Init /\ [][Next]_vars
=============================================================================
