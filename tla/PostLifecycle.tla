----------------------------- MODULE PostLifecycle -----------------------------
(***************************************************************************)
(* Posts and comments from their creation to their removal, over the       *)
(* medias of MediaUpload.  PostServices.create reads the medias it was     *)
(* given, and in one callback of openTransaction creates the incident, on  *)
(* a connection of its own, and inserts the post and its medias, on the    *)
(* transaction's; the event post.created follows the commit.  Deletion of  *)
(* posts and comments only stamps deletedAt.                               *)
(*                                                                         *)
(* A request that creates a post or a comment is named by what it creates. *)
(* A profile belongs to one user, so an author is named by the user.       *)
(***************************************************************************)
EXTENDS MediaUpload, Sequences, FiniteSetsExt

CONSTANTS
    Posts, Comments,
    Users, Admins,
    NoComment

ASSUME PeopleAssumption == Admins \subseteq Users
ASSUME CommentsAssumption == NoComment \notin Comments

\* An image has a variant of one of the names getVariant looks for.
ASSUME NamesAssumption == Variants \intersect {"lg", "md", "sm", "base"} # {}

VARIABLES
    post,       \* rows of posts and post_medias: status, type, author, deleted, medias, cover
    incidents,  \* posts whose request has created an incident
    creating,   \* per post, the request that creates it
    announced,  \* posts whose post.created was published
    deleting,   \* <<user, post>> of deletions that passed their checks
    comment,    \* rows of post_comments: state, post, parent
    commenting, \* per comment, the request that adds or edits it
    removing    \* comments whose removal found them

postVars == <<post, incidents, creating, announced, deleting>>
commentVars == <<comment, commenting, removing>>
vars == <<mediaVars, postVars, commentVars>>

Nobody == "nobody"
\* PostTypeEnum, which requests are validated against.  The column of the table
\* knows INCIDENT only: rows of the other type are more than the database takes.
PostTypes == {"INCIDENT", "RAW"}
NoPost == [status |-> "none", type |-> "none", author |-> Nobody, deleted |-> FALSE,
           medias |-> {}, cover |-> {}]
NoRequest == [step |-> "none", type |-> "none", author |-> Nobody, medias |-> {}, cover |-> {}]

\* buildBasePostSelectQuery: every read of a post asks for deleted_at IS NULL.
Visible(p) == post[p].status # "none" /\ ~post[p].deleted

\* listMediasByPostUuid: medias without sources are passed over.
ListedMedias(p) == {m \in post[p].medias : HasSources(m)}

-----------------------------------------------------------------------------
(***************************************************************************)
(* Creation.                                                               *)
(***************************************************************************)

\* findManyByIds: whoever owns them, whatever their status.
FoundMedias(asked) == {m \in asked : media[m].status # "none"}

\* validateMedias: ids without a row are left out.
ValidMedias(asked) == IF asked = {} THEN {} ELSE FoundMedias(asked)

\* Mutant of Usable: a media that is still being uploaded is accepted.
UsableAny(m) == TRUE

\* PostMedia.FromMedia throws without sources.
Usable(m) == HasSources(m)

\* PostFactory.createPost and getCoverImage: the sources of an image.
CoverOf(medias) ==
    IF \E m \in medias : media[m].type = "IMAGE"
    THEN media[CHOOSE m \in medias : media[m].type = "IMAGE"].sources ELSE {}

\* MediaSource.getVariant: the nearest larger one, then the nearest smaller, then base.
Preference(desired) ==
    CASE desired = "lg" -> <<"lg", "md", "sm", "base">>
      [] desired = "md" -> <<"md", "lg", "sm", "base">>

GetVariant(sources, desired) ==
    LET found == {i \in 1 .. 4 : Preference(desired)[i] \in sources}
    IN  IF found = {} THEN "none" ELSE Preference(desired)[Min(found)]

Creatable(medias) == \A m \in medias : Usable(m)

StartCreate(p, type, author, asked) ==
    /\ creating[p].step = "none"
    /\ creating' = [creating EXCEPT ![p] =
          [step |-> IF ~Creatable(ValidMedias(asked)) THEN "failed"
                    ELSE IF type = "INCIDENT" THEN "incident" ELSE "insert",
           type |-> type, author |-> author, medias |-> ValidMedias(asked),
           cover |-> CoverOf(ValidMedias(asked))]]
    /\ UNCHANGED <<mediaVars, post, incidents, announced, deleting, commentVars>>

\* PrismaIncidentsRepository.add, on a connection of its own: committed at once.
AddedIncident(p) == incidents \union {p}

\* IncidentsService.create
CreateIncident(p) ==
    /\ creating[p].step = "incident"
    /\ incidents' = AddedIncident(p)
    /\ creating' = [creating EXCEPT ![p].step = "insert"]
    /\ UNCHANGED <<mediaVars, post, announced, deleting, commentVars>>

\* Only the post of an incident is set to PUBLISHED.
StatusOf(type) == IF type = "INCIDENT" THEN "PUBLISHED" ELSE "PUBLISHING"

\* toSqlInsert: what is stored of the post; its incident_id is not.
RowOf(r, medias) ==
    [status |-> StatusOf(r.type), type |-> r.type, author |-> r.author, deleted |-> FALSE,
     medias |-> medias, cover |-> r.cover]

\* Mutant of InsertPost: the post is inserted outside the transaction.
InsertPostAtOnce(p) ==
    /\ creating[p].step = "insert"
    /\ post' = [post EXCEPT ![p] = RowOf(creating[p], {})]
    /\ creating' = [creating EXCEPT ![p].step = "medias"]
    /\ UNCHANGED <<mediaVars, incidents, announced, deleting, commentVars>>

\* postRepository.add with the transaction's client: nobody sees the row yet.
InsertPost(p) ==
    /\ creating[p].step = "insert"
    /\ creating' = [creating EXCEPT ![p].step = "medias"]
    /\ UNCHANGED <<mediaVars, post, incidents, announced, deleting, commentVars>>

\* postMediasRepository.bulkAdd, in the transaction.
InsertMedias(p) ==
    /\ creating[p].step = "medias"
    /\ creating' = [creating EXCEPT ![p].step = "commit"]
    /\ UNCHANGED <<mediaVars, post, incidents, announced, deleting, commentVars>>

CommitPost(p) ==
    /\ creating[p].step = "commit"
    /\ post' = [post EXCEPT ![p] = RowOf(creating[p], creating[p].medias)]
    /\ creating' = [creating EXCEPT ![p].step = "publish"]
    /\ UNCHANGED <<mediaVars, incidents, announced, deleting, commentVars>>

\* PostEvent("post.created"); the publisher does not wait and cannot fail.
AnnouncePost(p) ==
    /\ creating[p].step = "publish"
    /\ announced' = announced \union {p}
    /\ creating' = [creating EXCEPT ![p].step = "created"]
    /\ UNCHANGED <<mediaVars, post, incidents, deleting, commentVars>>

\* A query fails or the transaction runs out of time: it is rolled back.
CreateFails(p) ==
    /\ creating[p].step \in {"incident", "insert", "medias", "commit"}
    /\ creating' = [creating EXCEPT ![p].step = "failed"]
    /\ UNCHANGED <<mediaVars, post, incidents, announced, deleting, commentVars>>

-----------------------------------------------------------------------------
(***************************************************************************)
(* Deletion of a post.                                                     *)
(***************************************************************************)

\* isAdmin is a method, and the controller does not call it: the value of
\* user.isAdmin is a function, which is true of every user.
IsAdmin(u) == TRUE

\* "You are not allowed to delete this post"
MayDelete(u, p) == post[p].author = u \/ IsAdmin(u)

CheckDelete(u, p) ==
    /\ Visible(p)
    /\ MayDelete(u, p)
    /\ deleting' = deleting \union {<<u, p>>}
    /\ UNCHANGED <<mediaVars, post, incidents, creating, announced, commentVars>>

DeletePost(u, p) ==
    /\ <<u, p>> \in deleting
    /\ post' = [post EXCEPT ![p].deleted = TRUE]
    /\ deleting' = deleting \ {<<u, p>>}
    /\ UNCHANGED <<mediaVars, incidents, creating, announced, commentVars>>

-----------------------------------------------------------------------------
(***************************************************************************)
(* Comments.  An edit or a removal reads the comment, checks its author    *)
(* (or, a removal, an administrator), and then writes.                     *)
(***************************************************************************)
NoEntry == [state |-> "none", post |-> "none", parent |-> NoComment]

Live(c) == comment[c].state = "live"

\* PostCommentRepository.findById asks for deletedAt: null.
Findable(c) == Live(c)

\* addComment found the post; the parent named by the client is not looked at.
StartComment(c, p, parent) ==
    /\ commenting[c] = "none" /\ comment[c].state = "none"
    /\ Visible(p)
    /\ parent # NoComment => comment[parent].state # "none"
    /\ comment' = [comment EXCEPT ![c].post = p, ![c].parent = parent]
    /\ commenting' = [commenting EXCEPT ![c] = "add"]
    /\ UNCHANGED <<mediaVars, postVars, removing>>

AddComment(c) ==
    /\ commenting[c] = "add"
    /\ comment' = [comment EXCEPT ![c].state = "live"]
    /\ commenting' = [commenting EXCEPT ![c] = "none"]
    /\ UNCHANGED <<mediaVars, postVars, removing>>

\* updateComment up to its write.
StartEdit(c) ==
    /\ commenting[c] = "none" /\ Findable(c)
    /\ commenting' = [commenting EXCEPT ![c] = "edit"]
    /\ UNCHANGED <<mediaVars, postVars, comment, removing>>

\* Mutant of EditComment: the row is written back as it was read.
EditCommentRow(c) ==
    /\ commenting[c] = "edit"
    /\ comment' = [comment EXCEPT ![c].state = "live"]
    /\ commenting' = [commenting EXCEPT ![c] = "none"]
    /\ UNCHANGED <<mediaVars, postVars, removing>>

\* toPrismaUpdate names the content only.
EditComment(c) ==
    /\ commenting[c] = "edit"
    /\ commenting' = [commenting EXCEPT ![c] = "none"]
    /\ UNCHANGED <<mediaVars, postVars, comment, removing>>

StartRemove(c) ==
    /\ c \notin removing /\ Findable(c)
    /\ removing' = removing \union {c}
    /\ UNCHANGED <<mediaVars, postVars, comment, commenting>>

\* Replies go with it, replies to them do not.
RemoveComment(c) ==
    /\ c \in removing
    /\ comment' = [d \in Comments |->
                      IF (d = c \/ comment[d].parent = c) /\ comment[d].state # "none"
                      THEN [comment[d] EXCEPT !.state = "removed"] ELSE comment[d]]
    /\ removing' = removing \ {c}
    /\ UNCHANGED <<mediaVars, postVars, commenting>>

\* Mutant of Counted: every live comment.
CountedLive(p) == {c \in Comments : Live(c) /\ comment[c].post = p}

\* refreshPostCommentsCount: a reply counts while its parent is live.
Counted(p) ==
    {c \in Comments :
        /\ Live(c) /\ comment[c].post = p
        /\ comment[c].parent = NoComment \/ Live(comment[c].parent)}

\* listAllByPostId
ListedUnder(p, parent) ==
    {c \in Comments : Live(c) /\ comment[c].post = p /\ comment[c].parent = parent}

\* What a reader finds who lists a post's comments and opens each for replies.
Found(p) ==
    LET top == ListedUnder(p, NoComment)
    IN  top \union UNION {ListedUnder(p, c) : c \in top}

-----------------------------------------------------------------------------
LifecycleInit ==
    /\ post = [p \in Posts |-> NoPost]
    /\ incidents = {}
    /\ creating = [p \in Posts |-> NoRequest]
    /\ announced = {}
    /\ deleting = {}
    /\ comment = [c \in Comments |-> NoEntry]
    /\ commenting = [c \in Comments |-> "none"]
    /\ removing = {}

Init == MediaInit /\ LifecycleInit

PostStep(p) ==
    \/ \E type \in PostTypes, author \in Users, asked \in SUBSET Medias :
          StartCreate(p, type, author, asked)
    \/ CreateIncident(p) \/ InsertPost(p) \/ InsertMedias(p) \/ CommitPost(p)
    \/ AnnouncePost(p) \/ CreateFails(p)
    \/ \E u \in Users : CheckDelete(u, p) \/ DeletePost(u, p)

CommentStep(c) ==
    \/ \E p \in Posts, parent \in Comments \union {NoComment} : StartComment(c, p, parent)
    \/ AddComment(c) \/ StartEdit(c) \/ EditComment(c)
    \/ StartRemove(c) \/ RemoveComment(c)

\* The process dies: transactions that are open are rolled back.
Crash ==
    /\ UploadsCrash
    /\ creating' = [p \in Posts |->
                      IF creating[p].step \in {"none", "created", "failed"} THEN creating[p]
                      ELSE [creating[p] EXCEPT !.step = "lost"]]
    /\ deleting' = {}
    /\ commenting' = [c \in Comments |-> "none"]
    /\ removing' = {}
    /\ UNCHANGED <<post, incidents, announced, comment>>

Next ==
    \/ \E m \in Medias : MediaStep(m) /\ UNCHANGED <<postVars, commentVars>>
    \/ \E p \in Posts : PostStep(p)
    \/ \E c \in Comments : CommentStep(c)
    \/ Crash

Spec == Init /\ [][Next]_vars

-----------------------------------------------------------------------------
TypeOK ==
    /\ MediaTypeOK
    /\ post \in [Posts -> [status : {"none", "PUBLISHED", "PUBLISHING"},
                           type : PostTypes \union {"none"}, author : Users \union {Nobody},
                           deleted : BOOLEAN, medias : SUBSET Medias, cover : SUBSET Aliases]]
    /\ incidents \subseteq Posts /\ announced \subseteq Posts
    /\ deleting \subseteq Users \X Posts
    /\ creating \in [Posts -> [step : {"none", "incident", "insert", "medias", "commit", "publish",
                                       "created", "failed", "lost"},
                               type : PostTypes \union {"none"},
                               author : Users \union {Nobody},
                               medias : SUBSET Medias, cover : SUBSET Aliases]]
    /\ comment \in [Comments -> [state : {"none", "live", "removed"},
                                 post : Posts \union {"none"},
                                 parent : Comments \union {NoComment}]]
    /\ commenting \in [Comments -> {"none", "add", "edit"}]
    /\ removing \subseteq Comments

(***************************************************************************)
(* Every media of a post is listed with it and is complete in the store,   *)
(* and so are the cover and the thumbnail of a post with an image,         *)
(* although create() looks neither at a media's status nor at its owner    *)
(* and may run while the upload does: sources are what createPost insists  *)
(* on, and a row has them only when it is ACTIVE.                          *)
(***************************************************************************)
AttachedMediaIsServable ==
    \A p \in Posts :
        /\ ListedMedias(p) = post[p].medias
        /\ \A m \in post[p].medias : \A k \in KeysOf(media[m].type) : blob[m][k] = "whole"
        /\ \A m \in post[p].medias : media[m].type = "IMAGE" =>
              \A desired \in {"lg", "md"} : GetVariant(post[p].cover, desired) \in KeysOf("IMAGE")

(***************************************************************************)
(* The answer to a creation is true: "created" means that the post is in   *)
(* the table, whole, with its incident and the medias that were found and  *)
(* announced; "failed" means that it is not there at all.  A crash leaves  *)
(* no answer, and either all of the post or nothing.                       *)
(***************************************************************************)
CreationIsAtomic ==
    \A p \in Posts :
        /\ creating[p].step = "created" => p \in announced
        /\ p \in announced => post[p].status # "none"
        /\ creating[p].step = "failed" => post[p].status = "none"
        /\ post[p].status # "none" =>
              /\ post[p].medias = creating[p].medias
              /\ post[p].type = "INCIDENT" => p \in incidents

(***************************************************************************)
(* Of threads in which each reply answers a comment of its own post that   *)
(* is no reply, the count that is stored with the post counts exactly what *)
(* a reader finds, also when a reply arrives after the removal of the      *)
(* comment it answers and is therefore missed by the removal.  Nothing in  *)
(* the code keeps threads in that form.                                    *)
(***************************************************************************)
Threaded ==
    \A c \in Comments : comment[c].parent # NoComment =>
        LET parent == comment[comment[c].parent]
        IN  parent.parent = NoComment /\ parent.post = comment[c].post

CountMatchesListing == Threaded => \A p \in Posts : Counted(p) = Found(p)

(***************************************************************************)
(* A removed comment stays removed, also when an edit that read it before  *)
(* the removal writes after it, and so does a deleted post.                *)
(***************************************************************************)
RemovedForGood ==
    [][/\ \A c \in Comments : comment[c].state = "removed" => comment'[c].state = "removed"
       /\ \A p \in Posts : post[p].deleted => post'[p].deleted]_vars

(***************************************************************************)
(* "You are not allowed to delete this post": a deletion passes its checks *)
(* only when the user wrote the post or is an administrator.               *)
(***************************************************************************)
OnlyAllowedDeletions ==
    \A pair \in deleting : post[pair[2]].author = pair[1] \/ pair[1] \in Admins
=============================================================================
