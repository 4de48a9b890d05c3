------------------------------ MODULE MediaUpload ------------------------------
(***************************************************************************)
(* Uploading a media.  MediaService.uploadMedia adds a row (UPLOADING),    *)
(* transforms an image into its variants, stores the variants' blobs       *)
(* concurrently, and at the end updates the row (ACTIVE) with the sources. *)
(* Rows are in the database, blobs in S3 or, elsewhere, in local files; no *)
(* transaction spans the two.  Each request has a media, and file names,   *)
(* of its own, so a request is named by its media.                         *)
(***************************************************************************)
EXTENDS FiniteSets

CONSTANTS
    Medias,
    Variants    \* aliases of the transformation of images

ASSUME VariantsAssumption == IsFiniteSet(Variants) /\ Variants # {}

VARIABLES
    media,      \* rows of medias: status, type, sources (the aliases they name)
    blob,       \* [Medias -> [aliases -> absent, partial or whole]]
    upload      \* per media, its request: step, blobs left, sources in memory

mediaVars == <<media, blob, upload>>

MediaTypes == {"IMAGE", "AUDIO", "VIDEO"}
Aliases == Variants \union {"base"}

\* uploadGenericBuffer stores one blob.
GenericKeys == {"base"}

\* Mutant of KeysOf: a key that fromJSON does not know.
KeysOfOriginal(type) == IF type = "IMAGE" THEN Variants ELSE {"original"}

\* resolveImageTransformConfig: every configuration has the same aliases.
KeysOf(type) == IF type = "IMAGE" THEN Variants ELSE GenericKeys

NoMedia == [status |-> "none", type |-> "none", sources |-> {}]
NoUpload == [step |-> "none", left |-> {}, held |-> {}]

\* Media.sources of a row read back: fromJSON gives null for an empty object.
HasSources(m) == media[m].sources # {}

\* The stores answer for what is there, whole or not.
Stream(m, k) == blob[m][k] # "absent"
Metadata(m, k) == blob[m][k] # "absent"

\* AssetsController.getOne
Served(m, k) == Stream(m, k) /\ Metadata(m, k)

\* Media.Create and startUpload.
Created(type) == [status |-> "UPLOADING", type |-> type, sources |-> {}]

\* mediaRepository.add and update: the whole row, but sources only if there are any.
Added(m, row) == [media EXCEPT ![m] = row]
Updated(m, row) ==
    [media EXCEPT ![m] = IF row.sources = {} THEN [row EXCEPT !.sources = media[m].sources]
                         ELSE row]

-----------------------------------------------------------------------------
\* MediaController.handleUpload, and uploadMedia up to the row.
StartUpload(m, type) ==
    /\ upload[m].step = "none"
    /\ media' = Added(m, Created(type))
    /\ upload' = [upload EXCEPT ![m] =
                    [step |-> IF type = "IMAGE" THEN "process" ELSE "store",
                     left |-> KeysOf(type), held |-> {}]]
    /\ UNCHANGED blob

\* imageProcessor.process: all the variants, before the first is stored.
ProcessImage(m) ==
    /\ upload[m].step = "process"
    /\ upload' = [upload EXCEPT ![m].step = "store"]
    /\ UNCHANGED <<media, blob>>

\* The writes of a request whose Promise.all has been called.
Writing(m, k) == upload[m].step \in {"store", "failed"} /\ k \in upload[m].left

\* blobRepository.add begins: a local file is there before it is complete.
BeginBlob(m, k) ==
    /\ Writing(m, k)
    /\ blob[m][k] = "absent"
    /\ blob' = [blob EXCEPT ![m][k] = "partial"]
    /\ UNCHANGED <<media, upload>>

\* Mutant of Settled: Promise.race, the first variant stored is enough.
SettledFirst(u, k) ==
    [step |-> IF u.step = "store" THEN "update" ELSE u.step,
     left |-> u.left \ {k}, held |-> u.held \union {k}]

\* The request after alias k was stored: Promise.all waits for the last one.
Settled(u, k) ==
    [step |-> IF u.step = "store" /\ u.left = {k} THEN "update" ELSE u.step,
     left |-> u.left \ {k}, held |-> u.held \union {k}]

BlobStored(m, k) ==
    /\ Writing(m, k)
    /\ blob[m][k] = "partial"
    /\ blob' = [blob EXCEPT ![m][k] = "whole"]
    /\ upload' = [upload EXCEPT ![m] = Settled(upload[m], k)]
    /\ UNCHANGED media

\* The write fails, or its result is no valid variant.  Promise.all rejects at
\* once and with it the request; the other writes go on.
BlobFails(m, k) ==
    /\ Writing(m, k)
    /\ \E b \in {blob[m][k], "whole"} : blob' = [blob EXCEPT ![m][k] = b]
    /\ upload' = [upload EXCEPT ![m].step = "failed", ![m].left = @ \ {k}]
    /\ UNCHANGED media

\* setSources, setStatus(ACTIVE) and mediaRepository.update.
Activate(m) ==
    /\ upload[m].step = "update"
    /\ media' = Updated(m, [media[m] EXCEPT !.status = "ACTIVE", !.sources = upload[m].held])
    /\ upload' = [upload EXCEPT ![m].step = "done"]
    /\ UNCHANGED blob

\* The image cannot be processed, or the update of the row fails: the row stays.
UploadFails(m) ==
    /\ upload[m].step \in {"process", "update"}
    /\ upload' = [upload EXCEPT ![m].step = "failed", ![m].left = {}]
    /\ UNCHANGED <<media, blob>>

\* The process dies with its requests and their writes.
UploadsCrash ==
    /\ upload' = [m \in Medias |->
                    IF upload[m].step \in {"none", "done"} THEN upload[m]
                    ELSE [upload[m] EXCEPT !.step = "failed", !.left = {}]]
    /\ UNCHANGED <<media, blob>>

-----------------------------------------------------------------------------
MediaInit ==
    /\ media = [m \in Medias |-> NoMedia]
    /\ blob = [m \in Medias |-> [k \in Aliases |-> "absent"]]
    /\ upload = [m \in Medias |-> NoUpload]

MediaStep(m) ==
    \/ \E type \in MediaTypes : StartUpload(m, type)
    \/ ProcessImage(m) \/ Activate(m) \/ UploadFails(m)
    \/ \E k \in Aliases : BeginBlob(m, k) \/ BlobStored(m, k) \/ BlobFails(m, k)

MediaNext == (\E m \in Medias : MediaStep(m)) \/ UploadsCrash

MediaSpec == MediaInit /\ [][MediaNext]_mediaVars

-----------------------------------------------------------------------------
MediaTypeOK ==
    /\ media \in [Medias -> [status : {"none", "UPLOADING", "ACTIVE"},
                             type : MediaTypes \union {"none"},
                             sources : SUBSET Aliases]]
    /\ blob \in [Medias -> [Aliases -> {"absent", "partial", "whole"}]]
    /\ upload \in [Medias -> [step : {"none", "process", "store", "update", "done", "failed"},
                              left : SUBSET Aliases, held : SUBSET Aliases]]

(***************************************************************************)
(* A row is ACTIVE only with every variant its type promises, and no       *)
(* source names a blob that is missing or partly written, whatever fails,  *)
(* in whatever order the variants are stored, and while the writes of a    *)
(* failed request go on.                                                   *)
(***************************************************************************)
ActiveIsServable ==
    \A m \in Medias :
        /\ media[m].status = "ACTIVE" => media[m].sources = KeysOf(media[m].type)
        /\ \A k \in media[m].sources : Served(m, k) /\ blob[m][k] = "whole"
=============================================================================
