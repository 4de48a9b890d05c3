------------------------- MODULE PostLifecycle_proof -------------------------
(***************************************************************************)
(* Proofs about MediaUpload and PostLifecycle, for every set of medias,    *)
(* variants, posts, comments and users.                                    *)
(***************************************************************************)
EXTENDS PostLifecycle, TLAPS

(***************************************************************************)
(* The inductive invariant of an upload: what its request holds in memory  *)
(* is stored whole; while no write has failed, what it holds and what is   *)
(* left are together what the type promises; and a row has sources only    *)
(* when its request is done.                                               *)
(***************************************************************************)
Rows == [status : {"none", "UPLOADING", "ACTIVE"}, type : MediaTypes \union {"none"},
         sources : SUBSET Aliases]
States == [step : {"none", "process", "store", "update", "done", "failed"},
           left : SUBSET Aliases, held : SUBSET Aliases]

UploadInv(m) ==
    /\ \A k \in upload[m].held : blob[m][k] = "whole"
    /\ upload[m].step = "none" => media[m] = NoMedia /\ upload[m] = NoUpload
    /\ upload[m].step # "none" => media[m].type \in MediaTypes /\ media[m].status # "none"
    /\ upload[m].step = "process" =>
          upload[m].left = KeysOf(media[m].type) /\ upload[m].held = {}
    /\ upload[m].step = "store" =>
          upload[m].left \union upload[m].held = KeysOf(media[m].type)
    /\ upload[m].step = "update" => upload[m].held = KeysOf(media[m].type)
    /\ media[m].status = "ACTIVE" =>
          /\ upload[m].step = "done"
          /\ media[m].sources = KeysOf(media[m].type)
          /\ \A k \in media[m].sources : blob[m][k] = "whole"
    /\ media[m].status # "ACTIVE" => media[m].sources = {}

MediaInv == MediaTypeOK /\ \A m \in Medias : UploadInv(m)

LEMMA KeysAreAliases ==
    ASSUME NEW type \in MediaTypes
    PROVE  KeysOf(type) \subseteq Aliases /\ KeysOf(type) # {}
BY VariantsAssumption DEF KeysOf, GenericKeys, Aliases

LEMMA MediaInitInv == MediaInit => MediaInv
BY DEF MediaInit, MediaInv, MediaTypeOK, UploadInv, NoMedia, NoUpload

(***************************************************************************)
(* A step of one upload leaves the rows, blobs and requests of the others. *)
(***************************************************************************)
Alone(m) ==
    \A n \in Medias \ {m} :
        media'[n] = media[n] /\ blob'[n] = blob[n] /\ upload'[n] = upload[n]

LEMMA StepOfUpload ==
    ASSUME MediaInv, NEW m \in Medias, MediaTypeOK', Alone(m), UploadInv(m)' PROVE MediaInv'
<1>1. ASSUME NEW n \in Medias \ {m} PROVE UploadInv(n)'
  BY DEF MediaInv, Alone, UploadInv
<1> QED BY <1>1 DEF MediaInv

LEMMA StepStart ==
    ASSUME MediaInv, NEW m \in Medias, NEW type \in MediaTypes, StartUpload(m, type)
    PROVE  MediaInv'
<1>1. /\ media' = [media EXCEPT ![m] = Created(type)] /\ blob' = blob
      /\ upload' = [upload EXCEPT ![m] = [step |-> IF type = "IMAGE" THEN "process" ELSE "store",
                                          left |-> KeysOf(type), held |-> {}]]
  BY DEF StartUpload, Added
<1>2. KeysOf(type) \subseteq Aliases
  BY KeysAreAliases
<1>3. MediaTypeOK'
  BY <1>1, <1>2 DEF MediaInv, MediaTypeOK, Created
<1>4. Alone(m)
  BY <1>1 DEF Alone, MediaInv, MediaTypeOK
<1>5. media'[m] = Created(type) /\ upload'[m].left = KeysOf(type) /\ upload'[m].held = {}
      /\ upload'[m].step \in {"process", "store"}
  BY <1>1 DEF MediaInv, MediaTypeOK
<1>6. UploadInv(m)'
  BY <1>5 DEF UploadInv, Created
<1> QED BY <1>3, <1>4, <1>6, StepOfUpload

LEMMA StepProcess ==
    ASSUME MediaInv, NEW m \in Medias, ProcessImage(m) PROVE MediaInv'
<1>1. MediaTypeOK' /\ Alone(m)
  BY DEF ProcessImage, MediaInv, MediaTypeOK, Alone
<1>2. UploadInv(m)'
  BY DEF ProcessImage, MediaInv, MediaTypeOK, UploadInv
<1> QED BY <1>1, <1>2, StepOfUpload

LEMMA StepBegin ==
    ASSUME MediaInv, NEW m \in Medias, NEW k \in Aliases, BeginBlob(m, k) PROVE MediaInv'
<1>1. MediaTypeOK' /\ Alone(m)
  BY DEF BeginBlob, MediaInv, MediaTypeOK, Alone
<1>2. /\ \A j \in Aliases : blob[m][j] = "whole" => blob'[m][j] = "whole"
      /\ media' = media /\ upload' = upload
  BY DEF BeginBlob, MediaInv, MediaTypeOK
<1>3. UploadInv(m) /\ upload[m].held \subseteq Aliases /\ media[m].sources \subseteq Aliases
  BY DEF MediaInv, MediaTypeOK
<1>4. UploadInv(m)'
  BY <1>2, <1>3 DEF UploadInv
<1> QED BY <1>1, <1>4, StepOfUpload

(***************************************************************************)
(* The last write that succeeds completes what the request holds; after a  *)
(* failure a write may still succeed, but the row is never updated.        *)
(***************************************************************************)
LEMMA StepStored ==
    ASSUME MediaInv, NEW m \in Medias, NEW k \in Aliases, BlobStored(m, k) PROVE MediaInv'
<1> DEFINE s == [step |-> IF upload[m].step = "store" /\ upload[m].left = {k}
                          THEN "update" ELSE upload[m].step,
                 left |-> upload[m].left \ {k}, held |-> upload[m].held \union {k}]
<1>1. /\ upload[m] \in States /\ media[m] \in Rows /\ UploadInv(m)
      /\ upload[m].step \in {"store", "failed"} /\ k \in upload[m].left
  BY DEF MediaInv, MediaTypeOK, States, Rows, BlobStored, Writing
<1>2. /\ media' = media
      /\ blob' = [blob EXCEPT ![m][k] = "whole"]
      /\ upload' = [upload EXCEPT ![m] = s]
  BY DEF BlobStored, Settled
<1>3. s \in States
  BY <1>1 DEF States
<1>4. MediaTypeOK'
  BY <1>2, <1>3 DEF MediaInv, MediaTypeOK, States
<1>5. Alone(m)
  BY <1>2 DEF Alone, MediaInv, MediaTypeOK
<1>6. upload'[m] = s /\ blob'[m][k] = "whole"
      /\ \A j \in Aliases \ {k} : blob'[m][j] = blob[m][j]
  BY <1>2 DEF MediaInv, MediaTypeOK
<1>7. s.held \subseteq Aliases /\ \A j \in s.held : blob'[m][j] = "whole"
  BY <1>1, <1>6 DEF States, UploadInv
<1>8. /\ s.step \in {"store", "update"} => s.left \union s.held = KeysOf(media[m].type)
      /\ s.step = "update" => s.left = {}
      /\ s.step \in {"store", "update", "failed"}
  BY <1>1 DEF UploadInv
<1>9. media[m].status # "ACTIVE" /\ media[m].sources = {}
  BY <1>1 DEF UploadInv
<1>10. UploadInv(m)'
  BY <1>1, <1>2, <1>6, <1>7, <1>8, <1>9 DEF UploadInv
<1> QED BY <1>4, <1>5, <1>10, StepOfUpload

LEMMA StepBlobFails ==
    ASSUME MediaInv, NEW m \in Medias, NEW k \in Aliases, BlobFails(m, k) PROVE MediaInv'
<1> DEFINE s == [step |-> "failed", left |-> upload[m].left \ {k}, held |-> upload[m].held]
<1>1. /\ upload[m] \in States /\ media[m] \in Rows /\ UploadInv(m)
      /\ upload[m].step \in {"store", "failed"}
  BY DEF MediaInv, MediaTypeOK, States, Rows, BlobFails, Writing
<1>2. PICK b \in {blob[m][k], "whole"} : blob' = [blob EXCEPT ![m][k] = b]
  BY DEF BlobFails
<1>3. /\ upload' = [upload EXCEPT ![m].step = "failed", ![m].left = @ \ {k}]
      /\ media' = media
  BY DEF BlobFails
<1>4. upload'[m] = s /\ s \in States
  BY <1>1, <1>3 DEF MediaInv, MediaTypeOK, States
<1>5. upload' = [upload EXCEPT ![m] = s]
  BY <1>3, <1>4 DEF MediaInv, MediaTypeOK
<1>6. MediaTypeOK'
  BY <1>2, <1>3, <1>4, <1>5 DEF MediaInv, MediaTypeOK, States
<1>7. Alone(m)
  BY <1>2, <1>3 DEF Alone, MediaInv, MediaTypeOK
<1>8. \A j \in Aliases : blob[m][j] = "whole" => blob'[m][j] = "whole"
  BY <1>2 DEF MediaInv, MediaTypeOK
<1>9. media[m].status # "ACTIVE" /\ media[m].sources = {}
  BY <1>1 DEF UploadInv
<1>10. media[m].type \in MediaTypes /\ media[m].status # "none"
  BY <1>1 DEF UploadInv
<1>11. upload'[m].step = "failed" /\ upload'[m].held = upload[m].held
  BY <1>4
<1>12. \A j \in upload[m].held : blob'[m][j] = "whole"
  BY <1>1, <1>8 DEF UploadInv, States
<1>13. UploadInv(m)'
  BY <1>3, <1>9, <1>10, <1>11, <1>12 DEF UploadInv
<1> QED BY <1>6, <1>7, <1>13, StepOfUpload

LEMMA StepActivate ==
    ASSUME MediaInv, NEW m \in Medias, Activate(m) PROVE MediaInv'
<1>1. /\ upload[m] \in States /\ media[m] \in Rows /\ UploadInv(m) /\ upload[m].step = "update"
  BY DEF MediaInv, MediaTypeOK, States, Rows, Activate
<1>2. upload[m].held = KeysOf(media[m].type) /\ upload[m].held # {} /\ upload[m].held \subseteq Aliases
  BY <1>1, KeysAreAliases DEF UploadInv
<1> DEFINE row == [status |-> "ACTIVE", type |-> media[m].type, sources |-> upload[m].held]
<1>3. /\ media' = [media EXCEPT ![m] =
          IF [media[m] EXCEPT !.status = "ACTIVE", !.sources = upload[m].held].sources = {}
          THEN [[media[m] EXCEPT !.status = "ACTIVE", !.sources = upload[m].held]
                   EXCEPT !.sources = media[m].sources]
          ELSE [media[m] EXCEPT !.status = "ACTIVE", !.sources = upload[m].held]]
      /\ blob' = blob
      /\ upload' = [upload EXCEPT ![m].step = "done"]
  BY DEF Activate, Updated
<1>4. /\ media' = [media EXCEPT ![m] = row] /\ blob' = blob
      /\ upload' = [upload EXCEPT ![m].step = "done"]
  <2>1. media'[m] = row
    BY <1>1, <1>2, <1>3 DEF MediaInv, MediaTypeOK, Rows
  <2>2. media' = [media EXCEPT ![m] = media'[m]]
    BY <1>3 DEF MediaInv, MediaTypeOK
  <2> QED BY <1>3, <2>1, <2>2
<1>5. MediaTypeOK' /\ Alone(m)
  BY <1>1, <1>2, <1>4, ZenonT(60) DEF MediaInv, MediaTypeOK, Alone, Rows
<1>6. /\ media'[m] = row /\ upload'[m].step = "done" /\ upload'[m].held = upload[m].held
  BY <1>1, <1>4 DEF MediaInv, MediaTypeOK, States
<1>7. UploadInv(m)'
  BY <1>1, <1>2, <1>4, <1>6 DEF UploadInv
<1> QED BY <1>5, <1>7, StepOfUpload

LEMMA StepUploadFails ==
    ASSUME MediaInv, NEW m \in Medias, UploadFails(m) PROVE MediaInv'
<1>1. MediaTypeOK' /\ Alone(m)
  BY ZenonT(60) DEF UploadFails, MediaInv, MediaTypeOK, Alone
<1>2. UploadInv(m)'
  BY DEF UploadFails, MediaInv, MediaTypeOK, UploadInv
<1> QED BY <1>1, <1>2, StepOfUpload

LEMMA StepUploadsCrash ==
    ASSUME MediaInv, UploadsCrash PROVE MediaInv'
<1>1. MediaTypeOK'
  BY ZenonT(60) DEF UploadsCrash, MediaInv, MediaTypeOK
<1>2. ASSUME NEW m \in Medias PROVE UploadInv(m)'
  <2>1. /\ media' = media /\ blob' = blob
        /\ upload'[m] = upload[m] \/ upload'[m] = [upload[m] EXCEPT !.step = "failed", !.left = {}]
        /\ upload[m].step \in {"none", "done"} => upload'[m] = upload[m]
    BY DEF UploadsCrash
  <2>2. UploadInv(m) /\ upload[m] \in States
    BY DEF MediaInv, MediaTypeOK, States
  <2>3. CASE upload'[m] = upload[m]
    BY <2>1, <2>2, <2>3 DEF UploadInv
  <2>4. CASE upload'[m] # upload[m]
    <3>1. upload'[m].step = "failed" /\ upload'[m].held = upload[m].held
          /\ upload[m].step \notin {"none", "done"}
      BY <2>1, <2>2, <2>4 DEF States
    <3> QED BY <2>1, <2>2, <3>1 DEF UploadInv
  <2> QED BY <2>3, <2>4
<1> QED BY <1>1, <1>2 DEF MediaInv

(***************************************************************************)
(* The inductive invariant of the uploads holds in every reachable state.  *)
(***************************************************************************)
THEOREM UploadsInductive == MediaSpec => []MediaInv
<1>1. ASSUME MediaInv, [MediaNext]_mediaVars PROVE MediaInv'
  <2>1. CASE UNCHANGED mediaVars
    BY <1>1, <2>1 DEF mediaVars, MediaInv, MediaTypeOK, UploadInv
  <2>2. CASE MediaNext
    BY <1>1, <2>2, StepStart, StepProcess, StepBegin, StepStored, StepBlobFails, StepActivate,
       StepUploadFails, StepUploadsCrash DEF MediaNext, MediaStep
  <2> QED BY <1>1, <2>1, <2>2
<1> QED BY <1>1, MediaInitInv, PTL DEF MediaSpec

(***************************************************************************)
(* A media is ACTIVE only with every variant its type promises, each whole *)
(* in the store, whatever writes fail and whenever the process dies.       *)
(***************************************************************************)
THEOREM ActiveMediaIsServed == MediaSpec => []ActiveIsServable
<1>1. MediaInv => ActiveIsServable
  BY DEF MediaInv, MediaTypeOK, UploadInv, ActiveIsServable, Served, Stream, Metadata
<1> QED BY <1>1, UploadsInductive, PTL

-----------------------------------------------------------------------------
(***************************************************************************)
(* Posts and comments over the uploads: every step of PostLifecycle is a   *)
(* step of MediaUpload or leaves its variables alone.                      *)
(***************************************************************************)
THEOREM LifecycleImplementsUploads == Spec => MediaSpec
<1>1. Init => MediaInit
  BY DEF Init
<1>2. [Next]_vars => [MediaNext]_mediaVars
  BY DEF Next, vars, MediaNext, mediaVars, Crash, PostStep, StartCreate, CreateIncident,
     InsertPost, InsertMedias, CommitPost, AnnouncePost, CreateFails, CheckDelete, DeletePost,
     CommentStep, StartComment, AddComment, StartEdit, EditComment, StartRemove, RemoveComment
<1> QED BY <1>1, <1>2, PTL DEF Spec, MediaSpec

(***************************************************************************)
(* A media that is ACTIVE never changes again.                             *)
(***************************************************************************)
LEMMA ActiveStays ==
    ASSUME MediaInv, [MediaNext]_mediaVars, NEW m \in Medias, media[m].status = "ACTIVE"
    PROVE  media'[m] = media[m]
<1>1. upload[m].step = "done" /\ media \in [Medias -> Rows]
  BY DEF MediaInv, UploadInv, MediaTypeOK, Rows
<1>2. ASSUME NEW n \in Medias, MediaStep(n) PROVE media'[m] = media[m]
  BY <1>1, <1>2 DEF MediaStep, StartUpload, Added, ProcessImage, BeginBlob, BlobStored, BlobFails,
     Activate, Updated, UploadFails
<1> QED BY <1>2 DEF MediaNext, UploadsCrash, mediaVars

-----------------------------------------------------------------------------
(***************************************************************************)
(* The inductive invariant of posts and comments.  A post is there exactly *)
(* when its request has committed, and is what the request holds; a        *)
(* request that was not refused holds medias that are ACTIVE; a comment    *)
(* that is being added is in no table yet.                                 *)
(***************************************************************************)
PostRows == [status : {"none", "PUBLISHED", "PUBLISHING"},
             type : PostTypes \union {"none"}, author : Users \union {Nobody},
             deleted : BOOLEAN, medias : SUBSET Medias, cover : SUBSET Aliases]
Requests == [step : {"none", "incident", "insert", "medias", "commit", "publish",
                     "created", "failed", "lost"},
             type : PostTypes \union {"none"}, author : Users \union {Nobody},
             medias : SUBSET Medias, cover : SUBSET Aliases]
Entries == [state : {"none", "live", "removed"}, post : Posts \union {"none"},
            parent : Comments \union {NoComment}]

TablesOK ==
    /\ post \in [Posts -> PostRows] /\ creating \in [Posts -> Requests]
    /\ incidents \subseteq Posts /\ announced \subseteq Posts
    /\ deleting \subseteq Users \X Posts
    /\ comment \in [Comments -> Entries] /\ commenting \in [Comments -> {"none", "add", "edit"}]
    /\ removing \subseteq Comments

Underway == {"insert", "medias", "commit", "publish", "created"}

CreationInv(p) ==
    /\ creating[p].step = "created" => p \in announced
    /\ p \in announced => post[p].status # "none"
    /\ creating[p].step = "publish" => post[p].status # "none"
    /\ post[p].status = "none" => post[p].medias = {} /\ ~post[p].deleted
    /\ post[p].status # "none" =>
          /\ creating[p].step \in {"publish", "created", "lost"}
          /\ post[p].medias = creating[p].medias
          /\ post[p].cover = creating[p].cover
          /\ post[p].type = creating[p].type
    /\ creating[p].type = "INCIDENT" /\ creating[p].step \in Underway => p \in incidents
    /\ post[p].type = "INCIDENT" => p \in incidents

AttachedInv(p) ==
    creating[p].step \notin {"none", "failed"} =>
        /\ \A m \in creating[p].medias : media[m].status = "ACTIVE"
        /\ (\E m \in creating[p].medias : media[m].type = "IMAGE") =>
              creating[p].cover = Variants

DeletingInv == \A pair \in deleting : post[pair[2]].status # "none"
CommentInv(c) == commenting[c] = "add" => comment[c].state = "none"

LifeInv ==
    /\ TablesOK
    /\ \A p \in Posts : CreationInv(p) /\ AttachedInv(p)
    /\ DeletingInv
    /\ \A c \in Comments : CommentInv(c)

LEMMA LifeInit == Init => LifeInv
BY DEF Init, LifecycleInit, LifeInv, TablesOK, CreationInv, AttachedInv, DeletingInv, CommentInv,
   NoPost, NoRequest, NoEntry, PostRows, Requests, Entries, Nobody, PostTypes, Underway

(***************************************************************************)
(* Steps of the uploads, and of comments, leave the posts alone.           *)
(***************************************************************************)
LEMMA AttachedKept ==
    ASSUME MediaInv, TablesOK, [MediaNext]_mediaVars, NEW p \in Posts, AttachedInv(p),
           creating'[p] = creating[p]
    PROVE  AttachedInv(p)'
<1>1. creating[p].medias \subseteq Medias
  BY DEF TablesOK, Requests
<1>2. creating[p].step \notin {"none", "failed"} =>
         \A m \in creating[p].medias : media'[m] = media[m]
  BY <1>1, ActiveStays DEF AttachedInv
<1> QED BY <1>2 DEF AttachedInv

LEMMA MediaKeepsLife ==
    ASSUME MediaInv, LifeInv, [MediaNext]_mediaVars, UNCHANGED <<postVars, commentVars>>
    PROVE  LifeInv'
<1>1. /\ post' = post /\ incidents' = incidents /\ creating' = creating /\ announced' = announced
      /\ deleting' = deleting /\ comment' = comment /\ commenting' = commenting
      /\ removing' = removing
  BY DEF postVars, commentVars
<1>2. \A p \in Posts : AttachedInv(p)'
  BY <1>1, AttachedKept DEF LifeInv
<1>3. \A p \in Posts : CreationInv(p)'
  BY <1>1 DEF LifeInv, CreationInv
<1> QED BY <1>1, <1>2, <1>3 DEF LifeInv, TablesOK, DeletingInv, CommentInv

LEMMA CommentsKeepLife ==
    ASSUME MediaInv, LifeInv, NEW c \in Comments, CommentStep(c)
    PROVE  LifeInv'
<1>1. /\ media' = media /\ post' = post /\ incidents' = incidents /\ creating' = creating
      /\ announced' = announced /\ deleting' = deleting
  BY DEF CommentStep, StartComment, AddComment, StartEdit, EditComment, StartRemove,
     RemoveComment, mediaVars, postVars
<1>2. /\ \A p \in Posts : CreationInv(p)' /\ AttachedInv(p)'
      /\ DeletingInv'
  BY <1>1 DEF LifeInv, CreationInv, AttachedInv, DeletingInv
<1>3. /\ comment' \in [Comments -> Entries] /\ removing' \subseteq Comments
      /\ commenting' \in [Comments -> {"none", "add", "edit"}]
      /\ \A d \in Comments : CommentInv(d)'
  <2>1. CASE \E p \in Posts, parent \in Comments \union {NoComment} : StartComment(c, p, parent)
    <3>1. PICK p \in Posts, parent \in Comments \union {NoComment} : StartComment(c, p, parent)
      BY <2>1
    <3>2. /\ comment' = [comment EXCEPT ![c].post = p, ![c].parent = parent]
          /\ commenting' = [commenting EXCEPT ![c] = "add"] /\ removing' = removing
          /\ comment[c].state = "none"
      BY <3>1 DEF StartComment
    <3>3. comment'[c] = [state |-> "none", post |-> p, parent |-> parent]
      BY <3>2 DEF LifeInv, TablesOK, Entries
    <3>4. comment' = [comment EXCEPT ![c] = comment'[c]]
      BY <3>2 DEF LifeInv, TablesOK
    <3>5. comment' \in [Comments -> Entries]
      BY <3>3, <3>4 DEF LifeInv, TablesOK, Entries
    <3> QED BY <3>2, <3>3, <3>4, <3>5 DEF LifeInv, TablesOK, CommentInv
  <2>2. CASE AddComment(c)
    BY <2>2 DEF AddComment, LifeInv, TablesOK, CommentInv, Entries
  <2>3. CASE StartEdit(c)
    BY <2>3 DEF StartEdit, LifeInv, TablesOK, CommentInv, Entries, Findable, Live
  <2>4. CASE EditComment(c)
    BY <2>4 DEF EditComment, LifeInv, TablesOK, CommentInv, Entries
  <2>5. CASE StartRemove(c)
    BY <2>5 DEF StartRemove, LifeInv, TablesOK, CommentInv, Entries
  <2>6. CASE RemoveComment(c)
    BY <2>6 DEF RemoveComment, LifeInv, TablesOK, CommentInv, Entries
  <2> QED BY <2>1, <2>2, <2>3, <2>4, <2>5, <2>6 DEF CommentStep
<1> QED BY <1>1, <1>2, <1>3 DEF LifeInv, TablesOK

(***************************************************************************)
(* What a request holds once it has found its medias: sources that a row   *)
(* has are those of its type, and so is the cover of an image.             *)
(***************************************************************************)
LEMMA UsableIsActive ==
    ASSUME MediaInv, NEW m \in Medias, Usable(m)
    PROVE  media[m].status = "ACTIVE" /\ media[m].sources = KeysOf(media[m].type)
BY DEF MediaInv, UploadInv, Usable, HasSources

LEMMA CoverIsImage ==
    ASSUME MediaInv, NEW medias \in SUBSET Medias, Creatable(medias)
    PROVE  /\ CoverOf(medias) \subseteq Aliases
           /\ (\E m \in medias : media[m].type = "IMAGE") => CoverOf(medias) = Variants
<1>1. CASE \E m \in medias : media[m].type = "IMAGE"
  <2> DEFINE image == CHOOSE m \in medias : media[m].type = "IMAGE"
  <2>1. image \in medias /\ media[image].type = "IMAGE"
    BY <1>1
  <2>2. media[image].sources = KeysOf("IMAGE")
    BY <2>1, UsableIsActive DEF Creatable
  <2> QED BY <1>1, <2>2 DEF CoverOf, KeysOf, Aliases
<1>2. CASE ~ \E m \in medias : media[m].type = "IMAGE"
  BY <1>2 DEF CoverOf
<1> QED BY <1>1, <1>2

(***************************************************************************)
(* A step of one post's creation: the others' rows and requests stay.      *)
(***************************************************************************)
LEMMA StepOfPost ==
    ASSUME LifeInv, NEW p \in Posts, TablesOK',
           UNCHANGED <<mediaVars, deleting, commentVars>>,
           \A q \in Posts \ {p} :
               /\ post'[q] = post[q] /\ creating'[q] = creating[q]
               /\ q \in incidents' <=> q \in incidents
               /\ q \in announced' <=> q \in announced,
           post[p].status # "none" => post'[p].status # "none",
           CreationInv(p)', AttachedInv(p)'
    PROVE  LifeInv'
<1>1. media' = media /\ deleting' = deleting /\ comment' = comment /\ commenting' = commenting
  BY DEF mediaVars, commentVars
<1>2. ASSUME NEW q \in Posts \ {p} PROVE CreationInv(q)' /\ AttachedInv(q)'
  BY <1>1 DEF LifeInv, CreationInv, AttachedInv
<1>3. DeletingInv'
  <2>1. ASSUME NEW pair \in deleting PROVE post'[pair[2]].status # "none"
    BY DEF LifeInv, DeletingInv, TablesOK
  <2> QED BY <1>1, <2>1 DEF DeletingInv
<1>4. \A c \in Comments : CommentInv(c)'
  BY <1>1 DEF LifeInv, CommentInv
<1> QED BY <1>2, <1>3, <1>4 DEF LifeInv

LEMMA StepStartCreate ==
    ASSUME MediaInv, LifeInv, NEW p \in Posts, NEW type \in PostTypes, NEW author \in Users,
           NEW asked \in SUBSET Medias, StartCreate(p, type, author, asked)
    PROVE  LifeInv'
<1> DEFINE found == ValidMedias(asked)
           r == [step |-> IF ~Creatable(found) THEN "failed"
                          ELSE IF type = "INCIDENT" THEN "incident" ELSE "insert",
                 type |-> type, author |-> author, medias |-> found, cover |-> CoverOf(found)]
<1>1. found \in SUBSET Medias
  BY DEF ValidMedias, FoundMedias
<1> HIDE DEF found
<1>2. /\ creating[p].step = "none" /\ post' = post /\ incidents' = incidents
      /\ announced' = announced /\ deleting' = deleting
      /\ UNCHANGED <<mediaVars, commentVars>>
      /\ creating' = [creating EXCEPT ![p] = r]
  BY DEF StartCreate, found
<1>3. r \in Requests
  <2>1. CoverOf(found) \in SUBSET Aliases
    <3>1. CASE \E m \in found : media[m].type = "IMAGE"
      BY <1>1, <3>1 DEF CoverOf, MediaInv, MediaTypeOK
    <3>2. CASE ~ \E m \in found : media[m].type = "IMAGE"
      BY <3>2 DEF CoverOf
    <3> QED BY <3>1, <3>2
  <2> QED BY <1>1, <2>1 DEF Requests
<1>4. TablesOK'
  BY <1>2, <1>3 DEF LifeInv, TablesOK, commentVars
<1>5. creating'[p] = r /\ \A q \in Posts \ {p} : creating'[q] = creating[q]
  BY <1>2 DEF LifeInv, TablesOK
<1>6. post[p].status = "none" /\ p \notin announced
  BY <1>2 DEF LifeInv, CreationInv
<1>7. CreationInv(p)'
  <2>1. r.type = "INCIDENT" => r.step \notin Underway
    BY DEF Underway
  <2>2. /\ post[p].medias = {} /\ ~post[p].deleted
        /\ post[p].type = "INCIDENT" => p \in incidents
    BY <1>6 DEF LifeInv, CreationInv
  <2>3. r.step \notin {"created", "publish"}
    OBVIOUS
  <2> QED BY <1>2, <1>5, <1>6, <2>1, <2>2, <2>3 DEF CreationInv
<1>8. AttachedInv(p)'
  <2>1. media' = media
    BY <1>2 DEF mediaVars
  <2>2. CASE Creatable(found)
    <3>1. \A m \in found : media[m].status = "ACTIVE"
      BY <1>1, <2>2, UsableIsActive DEF Creatable
    <3>2. (\E m \in found : media[m].type = "IMAGE") => CoverOf(found) = Variants
      BY <1>1, <2>2, CoverIsImage
    <3> QED BY <1>5, <2>1, <3>1, <3>2 DEF AttachedInv
  <2>3. CASE ~Creatable(found)
    BY <1>5, <2>3 DEF AttachedInv
  <2> QED BY <2>2, <2>3
<1> QED BY <1>2, <1>4, <1>5, <1>6, <1>7, <1>8, StepOfPost

(***************************************************************************)
(* The later steps of a creation keep what the request holds, and change   *)
(* its step, the table of incidents, the post, or what was announced.      *)
(***************************************************************************)
LEMMA StepOfCreation ==
    ASSUME LifeInv, NEW p \in Posts, NEW step \in {"insert", "medias", "commit", "publish",
                                                   "created", "failed"},
           creating' = [creating EXCEPT ![p].step = step],
           creating[p].step \notin {"none", "failed"},
           post' \in [Posts -> PostRows], \A q \in Posts \ {p} : post'[q] = post[q],
           post[p].status # "none" => post'[p].status # "none",
           incidents' \in {incidents, incidents \union {p}},
           announced' \in {announced, announced \union {p}},
           UNCHANGED <<mediaVars, deleting, commentVars>>,
           CreationInv(p)'
    PROVE  LifeInv'
<1>1. /\ creating' \in [Posts -> Requests] /\ creating'[p].step = step
      /\ creating'[p].medias = creating[p].medias /\ creating'[p].cover = creating[p].cover
      /\ \A q \in Posts \ {p} : creating'[q] = creating[q]
  BY SMTT(30) DEF LifeInv, TablesOK, Requests
<1>2. TablesOK'
  BY <1>1 DEF LifeInv, TablesOK, commentVars
<1>3. AttachedInv(p)'
  BY <1>1 DEF LifeInv, AttachedInv, mediaVars
<1> QED BY <1>1, <1>2, <1>3, StepOfPost

LEMMA CreationKeepsLife ==
    ASSUME LifeInv, NEW p \in Posts,
           CreateIncident(p) \/ InsertPost(p) \/ InsertMedias(p) \/ CommitPost(p)
           \/ AnnouncePost(p) \/ CreateFails(p)
    PROVE  LifeInv'
<1>0. post \in [Posts -> PostRows] /\ creating \in [Posts -> Requests] /\ CreationInv(p)
  BY DEF LifeInv, TablesOK
<1>1. CASE CreateIncident(p)
  <2>1. /\ creating' = [creating EXCEPT ![p].step = "insert"] /\ creating[p].step = "incident"
        /\ incidents' = incidents \union {p} /\ post' = post /\ announced' = announced
        /\ UNCHANGED <<mediaVars, deleting, commentVars>>
    BY <1>1 DEF CreateIncident, AddedIncident
  <2>2. /\ creating'[p].step = "insert" /\ creating'[p].type = creating[p].type
        /\ creating'[p].medias = creating[p].medias /\ creating'[p].cover = creating[p].cover
    BY <1>0, <2>1 DEF Requests
  <2>3. CreationInv(p)'
    BY <1>0, <2>1, <2>2 DEF CreationInv, Underway
  <2> QED BY <1>0, <2>1, <2>3, StepOfCreation
<1>2. CASE InsertPost(p)
  <2>1. /\ creating' = [creating EXCEPT ![p].step = "medias"] /\ creating[p].step = "insert"
        /\ incidents' = incidents /\ post' = post /\ announced' = announced
        /\ UNCHANGED <<mediaVars, deleting, commentVars>>
    BY <1>2 DEF InsertPost
  <2>2. /\ creating'[p].step = "medias" /\ creating'[p].type = creating[p].type
        /\ creating'[p].medias = creating[p].medias /\ creating'[p].cover = creating[p].cover
    BY <1>0, <2>1 DEF Requests
  <2>3. CreationInv(p)'
    BY <1>0, <2>1, <2>2 DEF CreationInv, Underway
  <2> QED BY <1>0, <2>1, <2>3, StepOfCreation
<1>3. CASE InsertMedias(p)
  <2>1. /\ creating' = [creating EXCEPT ![p].step = "commit"] /\ creating[p].step = "medias"
        /\ incidents' = incidents /\ post' = post /\ announced' = announced
        /\ UNCHANGED <<mediaVars, deleting, commentVars>>
    BY <1>3 DEF InsertMedias
  <2>2. /\ creating'[p].step = "commit" /\ creating'[p].type = creating[p].type
        /\ creating'[p].medias = creating[p].medias /\ creating'[p].cover = creating[p].cover
    BY <1>0, <2>1 DEF Requests
  <2>3. CreationInv(p)'
    BY <1>0, <2>1, <2>2 DEF CreationInv, Underway
  <2> QED BY <1>0, <2>1, <2>3, StepOfCreation
<1>4. CASE CommitPost(p)
  <2> DEFINE row == RowOf(creating[p], creating[p].medias)
  <2>1. /\ creating' = [creating EXCEPT ![p].step = "publish"] /\ creating[p].step = "commit"
        /\ post' = [post EXCEPT ![p] = row]
        /\ incidents' = incidents /\ announced' = announced
        /\ UNCHANGED <<mediaVars, deleting, commentVars>>
    BY <1>4 DEF CommitPost
  <2>2. row \in PostRows
    BY <1>0 DEF RowOf, StatusOf, PostRows, Requests
  <2>3. /\ row.status # "none" /\ row.medias = creating[p].medias
        /\ row.cover = creating[p].cover /\ row.type = creating[p].type
    BY DEF RowOf, StatusOf
  <2> HIDE DEF row
  <2>4. post' \in [Posts -> PostRows] /\ post'[p] = row
        /\ \A q \in Posts \ {p} : post'[q] = post[q]
    BY <1>0, <2>1, <2>2
  <2>5. /\ creating'[p].step = "publish" /\ creating'[p].type = creating[p].type
        /\ creating'[p].medias = creating[p].medias /\ creating'[p].cover = creating[p].cover
    BY <1>0, <2>1 DEF Requests
  <2>6. CreationInv(p)'
    BY <1>0, <2>1, <2>3, <2>4, <2>5 DEF CreationInv, Underway
  <2> QED BY <2>1, <2>3, <2>4, <2>6, StepOfCreation
<1>5. CASE AnnouncePost(p)
  <2>1. /\ creating' = [creating EXCEPT ![p].step = "created"] /\ creating[p].step = "publish"
        /\ incidents' = incidents /\ post' = post /\ announced' = announced \union {p}
        /\ UNCHANGED <<mediaVars, deleting, commentVars>>
    BY <1>5 DEF AnnouncePost
  <2>2. /\ creating'[p].step = "created" /\ creating'[p].type = creating[p].type
        /\ creating'[p].medias = creating[p].medias /\ creating'[p].cover = creating[p].cover
    BY <1>0, <2>1 DEF Requests
  <2>3. CreationInv(p)'
    BY <1>0, <2>1, <2>2 DEF CreationInv, Underway
  <2> QED BY <1>0, <2>1, <2>3, StepOfCreation
<1>6. CASE CreateFails(p)
  <2>1. /\ creating' = [creating EXCEPT ![p].step = "failed"] /\ creating[p].step \in {"incident", "insert", "medias", "commit"}
        /\ incidents' = incidents /\ post' = post /\ announced' = announced
        /\ UNCHANGED <<mediaVars, deleting, commentVars>>
    BY <1>6 DEF CreateFails
  <2>2. /\ creating'[p].step = "failed" /\ creating'[p].type = creating[p].type
        /\ creating'[p].medias = creating[p].medias /\ creating'[p].cover = creating[p].cover
    BY <1>0, <2>1 DEF Requests
  <2>3. CreationInv(p)'
    BY <1>0, <2>1, <2>2 DEF CreationInv, Underway
  <2> QED BY <1>0, <2>1, <2>3, StepOfCreation
<1> QED BY <1>1, <1>2, <1>3, <1>4, <1>5, <1>6

LEMMA DeletionKeepsLife ==
    ASSUME LifeInv, NEW p \in Posts, NEW u \in Users, CheckDelete(u, p) \/ DeletePost(u, p)
    PROVE  LifeInv'
<1>1. /\ media' = media /\ comment' = comment /\ commenting' = commenting /\ removing' = removing
      /\ incidents' = incidents /\ creating' = creating /\ announced' = announced
  BY DEF CheckDelete, DeletePost, mediaVars, commentVars
<1>2. CASE CheckDelete(u, p)
  BY <1>1, <1>2
  DEF CheckDelete, Visible, LifeInv, TablesOK, CreationInv, AttachedInv, DeletingInv, CommentInv
<1>3. CASE DeletePost(u, p)
  <2>1. /\ <<u, p>> \in deleting /\ post' = [post EXCEPT ![p].deleted = TRUE]
        /\ deleting' \subseteq deleting
    BY <1>3 DEF DeletePost
  <2>2. post[p].status # "none"
    BY <2>1 DEF LifeInv, DeletingInv
  <2>3. post' \in [Posts -> PostRows]
    <3>1. post[p] \in PostRows /\ post \in [Posts -> PostRows]
      BY DEF LifeInv, TablesOK
    <3>2. post'[p] = [status |-> post[p].status, type |-> post[p].type,
                      author |-> post[p].author, deleted |-> TRUE,
                      medias |-> post[p].medias, cover |-> post[p].cover]
      BY <2>1, <3>1 DEF PostRows
    <3>3. post'[p] \in PostRows
      BY <3>1, <3>2 DEF PostRows
    <3> QED BY <2>1, <3>1, <3>3
  <2>4. \A q \in Posts :
           /\ post'[q].status = post[q].status /\ post'[q].medias = post[q].medias
           /\ post'[q].cover = post[q].cover /\ post'[q].type = post[q].type
           /\ q # p => post'[q].deleted = post[q].deleted
    BY <2>1, ZenonT(60) DEF LifeInv, TablesOK, PostRows
  <2>5. \A q \in Posts : CreationInv(q)' /\ AttachedInv(q)'
    BY <1>1, <2>2, <2>4 DEF LifeInv, CreationInv, AttachedInv
  <2>6. DeletingInv'
    BY <2>1, <2>4 DEF LifeInv, TablesOK, DeletingInv
  <2> QED BY <1>1, <2>1, <2>3, <2>5, <2>6 DEF LifeInv, TablesOK, CommentInv
<1> QED BY <1>2, <1>3

(***************************************************************************)
(* A crash loses the requests, and with them no row.                       *)
(***************************************************************************)
LEMMA CrashKeepsLife ==
    ASSUME MediaInv, LifeInv, Crash PROVE LifeInv'
<1>1. /\ post' = post /\ incidents' = incidents /\ announced' = announced /\ comment' = comment
      /\ deleting' = {} /\ removing' = {} /\ commenting' = [c \in Comments |-> "none"]
      /\ media' = media
  BY DEF Crash, UploadsCrash
<1>2. ASSUME NEW p \in Posts
      PROVE  /\ creating'[p] \in Requests
             /\ creating'[p].medias = creating[p].medias /\ creating'[p].cover = creating[p].cover
             /\ creating'[p].type = creating[p].type
             /\ creating'[p].step = IF creating[p].step \in {"none", "created", "failed"}
                                    THEN creating[p].step ELSE "lost"
  BY DEF Crash, LifeInv, TablesOK, Requests
<1>3. creating' \in [Posts -> Requests]
  <2>1. creating' = [p \in Posts |-> creating'[p]]
    BY DEF Crash
  <2> QED BY <1>2, <2>1
<1>4. \A p \in Posts : CreationInv(p)' /\ AttachedInv(p)'
  BY <1>1, <1>2 DEF LifeInv, CreationInv, AttachedInv, Underway
<1> QED BY <1>1, <1>3, <1>4 DEF LifeInv, TablesOK, DeletingInv, CommentInv

LEMMA LifeStep ==
    ASSUME MediaInv, LifeInv, [Next]_vars PROVE LifeInv'
<1>1. [Next]_vars => [MediaNext]_mediaVars
  BY DEF Next, vars, MediaNext, mediaVars, Crash, PostStep, StartCreate, CreateIncident,
     InsertPost, InsertMedias, CommitPost, AnnouncePost, CreateFails, CheckDelete, DeletePost,
     CommentStep, StartComment, AddComment, StartEdit, EditComment, StartRemove, RemoveComment
<1>2. CASE UNCHANGED vars
  BY <1>1, <1>2, MediaKeepsLife DEF vars
<1>3. CASE Next
  BY <1>1, <1>3, MediaKeepsLife, CommentsKeepLife, StepStartCreate, CreationKeepsLife,
     DeletionKeepsLife, CrashKeepsLife DEF Next, PostStep
<1> QED BY <1>2, <1>3

(***************************************************************************)
(* The invariants of uploads and of posts and comments hold together.      *)
(***************************************************************************)
THEOREM LifecycleInductive == Spec => [](MediaInv /\ LifeInv)
<1>1. Spec => []MediaInv
  BY LifecycleImplementsUploads, UploadsInductive, PTL
<1> QED BY <1>1, LifeInit, LifeStep, PTL DEF Spec

(***************************************************************************)
(* The tables and the requests have their types.                           *)
(***************************************************************************)
THEOREM LifecycleTypes == Spec => []TypeOK
<1>1. MediaInv /\ LifeInv => TypeOK
  BY DEF MediaInv, LifeInv, TablesOK, TypeOK, PostRows, Requests, Entries
<1> QED BY <1>1, LifecycleInductive, PTL

(***************************************************************************)
(* The answer to a creation is true, and a crash leaves all of a post or   *)
(* nothing of it.                                                          *)
(***************************************************************************)
THEOREM PostsAreWhole == Spec => []CreationIsAtomic
<1>1. LifeInv => CreationIsAtomic
  BY DEF LifeInv, CreationInv, CreationIsAtomic
<1> QED BY <1>1, LifecycleInductive, PTL

(***************************************************************************)
(* An edit that read a comment before its removal does not bring it back,  *)
(* and nothing brings back a deleted post.                                 *)
(***************************************************************************)
THEOREM RemovalsLast == Spec => RemovedForGood
<1>1. ASSUME LifeInv, [Next]_vars
      PROVE  [/\ \A c \in Comments : comment[c].state = "removed" => comment'[c].state = "removed"
              /\ \A p \in Posts : post[p].deleted => post'[p].deleted]_vars
  <2>1. ASSUME NEW d \in Comments, CommentStep(d), NEW c \in Comments,
               comment[c].state = "removed"
        PROVE  comment'[c].state = "removed"
    <3>0. comment \in [Comments -> Entries] /\ CommentInv(d)
      BY <1>1 DEF LifeInv, TablesOK
    <3>1. CASE \E p \in Posts, parent \in Comments \union {NoComment} : StartComment(d, p, parent)
      BY <2>1, <3>0, <3>1 DEF StartComment, Entries
    <3>2. CASE AddComment(d)
      BY <2>1, <3>0, <3>2 DEF AddComment, CommentInv
    <3>3. CASE StartEdit(d) \/ EditComment(d) \/ StartRemove(d)
      BY <2>1, <3>3 DEF StartEdit, EditComment, StartRemove
    <3>4. CASE RemoveComment(d)
      BY <2>1, <3>0, <3>4 DEF RemoveComment, Entries
    <3> QED BY <2>1, <3>1, <3>2, <3>3, <3>4 DEF CommentStep
  <2>2. ASSUME NEW q \in Posts, PostStep(q), NEW p \in Posts, post[p].deleted
        PROVE  post'[p].deleted
    <3>1. post[p].status # "none" /\ creating[p].step # "commit"
      BY <2>2, <1>1 DEF LifeInv, CreationInv
    <3>2. CASE CommitPost(q)
      BY <1>1, <2>2, <3>1, <3>2 DEF CommitPost, LifeInv, TablesOK
    <3>3. CASE \E u \in Users : DeletePost(u, q)
      BY <1>1, <2>2, <3>3 DEF DeletePost, LifeInv, TablesOK, PostRows
    <3>4. CASE ~CommitPost(q) /\ ~ \E u \in Users : DeletePost(u, q)
      BY <2>2, <3>4 DEF PostStep, StartCreate, CreateIncident, InsertPost, InsertMedias,
         AnnouncePost, CreateFails, CheckDelete
    <3> QED BY <3>2, <3>3, <3>4
  <2>3. ASSUME NEW q \in Posts, PostStep(q) PROVE comment' = comment
    BY <2>3 DEF PostStep, StartCreate, CreateIncident, InsertPost, InsertMedias, CommitPost,
       AnnouncePost, CreateFails, CheckDelete, DeletePost, commentVars
  <2>4. ASSUME NEW d \in Comments, CommentStep(d) PROVE post' = post
    BY <2>4 DEF CommentStep, StartComment, AddComment, StartEdit, EditComment, StartRemove,
       RemoveComment, postVars
  <2> QED BY <1>1, <2>1, <2>2, <2>3, <2>4 DEF Next, Crash, vars, postVars, commentVars
<1> QED BY <1>1, LifecycleInductive, PTL DEF Spec, RemovedForGood

(***************************************************************************)
(* getVariant finds a variant of every complete image.                     *)
(***************************************************************************)
LEMMA VariantIsFound ==
    ASSUME NEW desired \in {"lg", "md"} PROVE GetVariant(Variants, desired) \in Variants
<1> DEFINE found == {i \in 1 .. 4 : Preference(desired)[i] \in Variants}
<1>1. /\ Preference(desired)[1] \in {"lg", "md"} /\ Preference(desired)[2] \in {"lg", "md"}
      /\ Preference(desired)[1] # Preference(desired)[2]
      /\ Preference(desired)[3] = "sm" /\ Preference(desired)[4] = "base"
  BY DEF Preference
<1>2. found # {}
  <2>1. \E i \in 1 .. 4 : Preference(desired)[i] \in Variants
    BY <1>1, NamesAssumption
  <2> QED BY <2>1
<1>3. Min(found) \in found
  <2>1. \E x \in found : \A y \in found : x <= y
    <3>1. CASE 1 \in found
      BY <3>1
    <3>2. CASE 1 \notin found /\ 2 \in found
      BY <3>2
    <3>3. CASE 1 \notin found /\ 2 \notin found /\ 3 \in found
      BY <3>3
    <3>4. CASE 1 \notin found /\ 2 \notin found /\ 3 \notin found
      BY <1>2, <3>4
    <3> QED BY <3>1, <3>2, <3>3, <3>4
  <2> HIDE DEF found
  <2> QED BY <2>1 DEF Min
<1> QED BY <1>2, <1>3 DEF GetVariant

(***************************************************************************)
(* Whatever was still being uploaded when a post was created, its medias   *)
(* are complete, and its cover and thumbnail exist.                        *)
(***************************************************************************)
THEOREM AttachedIsComplete == Spec => []AttachedMediaIsServable
<1>1. ASSUME MediaInv, LifeInv PROVE AttachedMediaIsServable
  <2>1. ASSUME NEW p \in Posts, NEW m \in post[p].medias
        PROVE  /\ m \in Medias /\ media[m].status = "ACTIVE"
               /\ media[m].type = "IMAGE" => post[p].cover = Variants
    BY <1>1, <2>1 DEF LifeInv, TablesOK, PostRows, CreationInv, AttachedInv
  <2>2. ASSUME NEW p \in Posts, NEW m \in post[p].medias
        PROVE  /\ HasSources(m)
               /\ \A k \in KeysOf(media[m].type) : blob[m][k] = "whole"
    <3>1. UploadInv(m) /\ media[m].status = "ACTIVE" /\ media[m].type \in MediaTypes
      BY <1>1, <2>1 DEF MediaInv, UploadInv
    <3> QED BY <3>1, KeysAreAliases DEF UploadInv, HasSources
  <2>3. \A p \in Posts : ListedMedias(p) = post[p].medias
    BY <2>2 DEF ListedMedias
  <2> QED BY <2>1, <2>2, <2>3, VariantIsFound DEF AttachedMediaIsServable, KeysOf
<1> QED BY <1>1, LifecycleInductive, PTL

(***************************************************************************)
(* The two queries agree on threads of one level: the count that is stored *)
(* with a post is of the comments that its reader finds.                   *)
(***************************************************************************)
THEOREM CountAgreesWithListing == Spec => []CountMatchesListing
<1>1. ASSUME TablesOK PROVE CountMatchesListing
  <2>1. ASSUME Threaded, NEW p \in Posts, NEW c \in Comments
        PROVE  c \in Counted(p) <=> c \in Found(p)
    <3>1. CASE comment[c].parent = NoComment
      BY <2>1, <3>1, CommentsAssumption DEF Counted, Found, ListedUnder
    <3>2. CASE comment[c].parent # NoComment
      <4> DEFINE parent == comment[c].parent
      <4>1. /\ parent \in Comments
            /\ comment[parent].parent = NoComment /\ comment[parent].post = comment[c].post
        BY <1>1, <2>1, <3>2 DEF TablesOK, Entries, Threaded
      <4>2. c \in Found(p) <=> Live(c) /\ comment[c].post = p /\ parent \in ListedUnder(p, NoComment)
        BY <3>2, <4>1 DEF Found, ListedUnder
      <4>3. c \in Counted(p) <=> Live(c) /\ comment[c].post = p /\ Live(parent)
        BY <3>2, <4>1 DEF Counted
      <4> QED BY <4>1, <4>2, <4>3 DEF ListedUnder
    <3> QED BY <3>1, <3>2
  <2>2. \A p \in Posts : Counted(p) \subseteq Comments /\ Found(p) \subseteq Comments
    BY DEF Counted, Found, ListedUnder
  <2> QED BY <2>1, <2>2 DEF CountMatchesListing
<1>2. LifeInv => TablesOK
  BY DEF LifeInv
<1> QED BY <1>1, <1>2, LifecycleInductive, PTL

=============================================================================
