------------------------------ MODULE Comments ------------------------------
(***************************************************************************)
(* Comments and replies (comment_evaluator, delete_comment_evaluator and   *)
(* comment_options_evaluator of libraries/chain/xgt_evaluator.cpp).        *)
(*                                                                         *)
(* A comment is named by its author and permlink; the author is a function *)
(* of the name here.  A reply refers to its parent by name and to the root *)
(* of its thread by object id.  A full node (not IS_LOW_MEM) is modelled.  *)
(***************************************************************************)
EXTENDS Ledger

CONSTANTS Posts,         \* names of comments
          Author,        \* the author of each
          MaxDepth,      \* XGT_MAX_COMMENT_DEPTH
          RootInterval, ReplyInterval, EditInterval

ASSUME CommentAssumption ==
  /\ IsFiniteSet(Posts) /\ Author \in [Posts -> Names] /\ None \notin Posts
  /\ MaxDepth \in Nat /\ RootInterval \in Nat /\ ReplyInterval \in Nat /\ EditInterval \in Nat

VARIABLES comment,  \* the comment_objects by name
          next_id,  \* the next object id of their index
          posted    \* last_root_post, last_post and last_post_edit of each wallet

comment_vars == <<comment, next_id, posted>>

\* What comment_evaluator and the readers of a thread reach from c through the parents' names:
\* the smallest set that has c and the parents of what it has.
Ancestors(c) ==
  {x \in Posts : \A s \in SUBSET Posts :
     c \in s /\ (\A y \in s \cap DOMAIN comment : comment[y].parent \in s \cup {None}) => x \in s}

NewComment(parent) ==
  [id |-> next_id, parent |-> parent, children |-> 0, allow_votes |-> TRUE,
   root_comment |-> IF parent = None THEN next_id ELSE comment[parent].root_comment,
   depth |-> IF parent = None THEN 0 ELSE comment[parent].depth + 1]

\* All ancestors count a new reply.
Counted(parent) ==
  [x \in DOMAIN comment |->
     IF parent # None /\ x \in Ancestors(parent) THEN [comment[x] EXCEPT !.children = @ + 1] ELSE comment[x]]

\* comment_evaluator, for a new comment
comment_create(c, parent) ==
  /\ Operation("comments", Author[c])
  /\ Author[c] \in wallets
  /\ c \notin DOMAIN comment
  /\ parent # None => /\ parent \in DOMAIN comment
                      /\ comment[parent].depth < MaxDepth
                      /\ \E x \in DOMAIN comment : comment[x].id = comment[parent].root_comment
                      /\ Ancestors(parent) \subseteq DOMAIN comment
  /\ LET last == posted[Author[c]]
     IN  /\ IF parent = None THEN head_block_time - last.root > RootInterval
            ELSE head_block_time - last.post >= ReplyInterval
         /\ posted' = [posted EXCEPT ![Author[c]] =
                         [root |-> IF parent = None THEN head_block_time ELSE last.root,
                          post |-> head_block_time, edit |-> head_block_time]]
  /\ comment' = Created(Counted(parent), c, NewComment(parent))
  /\ next_id' = next_id + 1
  /\ UNCHANGED ledger_vars

\* comment_evaluator, for one that exists: neither parent nor permlink may change.
comment_edit(c) ==
  /\ Operation("comments", Author[c])
  /\ c \in DOMAIN comment
  /\ comment[c].parent # None => comment[c].parent \in DOMAIN comment
  /\ head_block_time - posted[Author[c]].edit >= EditInterval
  /\ posted' = [posted EXCEPT ![Author[c]].edit = head_block_time]
  /\ UNCHANGED <<comment, next_id>> /\ UNCHANGED ledger_vars

\* The counts after a deletion: the parent's alone goes down.
Uncounted(c) ==
  [x \in DOMAIN comment \ {c} |->
     IF x = comment[c].parent THEN [comment[x] EXCEPT !.children = @ - 1] ELSE comment[x]]

\* Seeded fault: a comment with replies may be deleted.
delete_comment_unchecked(c) ==
  /\ Operation("comments", Author[c])
  /\ c \in DOMAIN comment
  /\ comment' = Uncounted(c)
  /\ UNCHANGED <<next_id, posted>> /\ UNCHANGED ledger_vars

delete_comment(c) ==
  /\ Operation("comments", Author[c])
  /\ c \in DOMAIN comment
  /\ comment[c].children = 0
  /\ comment[c].parent # None => comment[c].parent \in DOMAIN comment
  /\ comment' = Uncounted(c)
  /\ UNCHANGED <<next_id, posted>> /\ UNCHANGED ledger_vars

comment_options(c, allow_votes) ==
  /\ Operation("comments", Author[c])
  /\ c \in DOMAIN comment
  /\ allow_votes => comment[c].allow_votes
  /\ comment' = [comment EXCEPT ![c].allow_votes = allow_votes]
  /\ UNCHANGED <<next_id, posted>> /\ UNCHANGED ledger_vars

\* At genesis nobody has posted for a long time.
CommentInit ==
  /\ comment = <<>>
  /\ next_id = 0
  /\ posted = [w \in Names |-> LET long == -(RootInterval + ReplyInterval + EditInterval + 1)
                               IN  [root |-> long, post |-> long, edit |-> long]]

CommentNext ==
  /\ Within("comments")
  /\ \E c \in Posts :
       \/ \E parent \in Posts \cup {None} : comment_create(c, parent)
       \/ comment_edit(c)
       \/ delete_comment(c)
       \/ \E allow \in BOOLEAN : comment_options(c, allow)

-----------------------------------------------------------------------------
(* Properties *)

\* A thread stays whole: whatever is posted, deleted and posted again under the same name, the
\* parents of every reply are there up to its root, at the depths recorded, and the root is the
\* object that the reply refers to.
ThreadsWhole ==
  \A c \in DOMAIN comment :
    /\ Ancestors(c) \subseteq DOMAIN comment
    /\ comment[c].parent # None => comment[c].depth = comment[comment[c].parent].depth + 1
    /\ \E r \in Ancestors(c) : comment[r].parent = None /\ comment[r].id = comment[c].root_comment

\* The count of children, "used to track the total number of children, grandchildren, etc..."
\* (comment_object.hpp:47), never misses one; deletions make it too large.
ChildrenCounted ==
  \A c \in DOMAIN comment :
    comment[c].children >= Cardinality({x \in DOMAIN comment \ {c} : c \in Ancestors(x)})

\* Both: a reply is always reached from its root and counted there, which is what keeps
\* delete_comment from taking a comment with replies.
ThreadsSound == ThreadsWhole /\ ChildrenCounted
=============================================================================
