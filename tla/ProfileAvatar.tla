----------------------------- MODULE ProfileAvatar -----------------------------
(***************************************************************************)
(* The avatar of one profile (PATCH social/profile/me/avatar).  The guard  *)
(* reads the profile, the service looks for the media and the repository   *)
(* writes two columns: the sources, which the profile is shown with, and   *)
(* an URL, which posts, votes and comments are shown with.  A media has    *)
(* sources once its upload is complete (see MediaUpload); nothing keeps a  *)
(* client from asking for it before.                                       *)
(***************************************************************************)
CONSTANTS
    AvatarMedias,
    AvatarRequests,
    NoAvatar        \* no media asked for, no sources, no URL

VARIABLES
    ready,          \* [AvatarMedias -> sources of the media's row, NoAvatar before]
    avatar,         \* the two columns of the profile: url, sources
    change,         \* per request: step, asked, held in memory, read, found, met another
    lastChange      \* history: the request that was answered last

avatarVars == <<ready, avatar, change, lastChange>>

-----------------------------------------------------------------------------
\* An image has every size, other files have the one blob.
AvatarKeys == {{"sm", "md", "lg", "base"}, {"base"}}

\* new UserAvatar(sources): the small variant, or what getVariant falls back to.
AvatarUrl(s) ==
    IF s = NoAvatar THEN NoAvatar
    ELSE [media |-> s.media, key |-> IF "sm" \in s.keys THEN "sm" ELSE "base"]

\* toPrismaAvatarUpdateInput: without an avatar the sources are undefined, and stay.
AvatarColumns(held) ==
    [url |-> AvatarUrl(held), sources |-> IF held = NoAvatar THEN avatar.sources ELSE held]

\* Mutant of AvatarHeld: `if (media)`.
AvatarHeldAny(r) == ready[change[r].asked]

\* `if (media?.sources)`: the avatar of a media that is not ready is not set.
AvatarHeld(r) == IF ready[change[r].asked] = NoAvatar THEN change[r].held ELSE ready[change[r].asked]

-----------------------------------------------------------------------------
UploadCompletes(m) ==
    /\ ready[m] = NoAvatar
    /\ \E keys \in AvatarKeys : ready' = [ready EXCEPT ![m] = [media |-> m, keys |-> keys]]
    /\ UNCHANGED <<avatar, change, lastChange>>

\* SocialProfileGuard, the controller, and updateAvatar up to its first await.
ReadProfile(r, asked) ==
    /\ change[r].step = "none"
    /\ LET others == {q \in AvatarRequests : change[q].step \in {"find", "write"}}
       IN  change' = [q \in AvatarRequests |->
              IF q = r THEN [step |-> IF asked = NoAvatar THEN "write" ELSE "find",
                             asked |-> asked,
                             held |-> IF asked = NoAvatar THEN NoAvatar ELSE avatar.sources,
                             read |-> avatar.sources, found |-> FALSE, met |-> others # {}]
              ELSE IF q \in others THEN [change[q] EXCEPT !.met = TRUE] ELSE change[q]]
    /\ UNCHANGED <<ready, avatar, lastChange>>

\* mediaService.findOneById
FindMedia(r) ==
    /\ change[r].step = "find"
    /\ change' = [change EXCEPT ![r].step = "write", ![r].held = AvatarHeld(r),
                                ![r].found = ready[change[r].asked] # NoAvatar]
    /\ UNCHANGED <<ready, avatar, lastChange>>

WriteAvatar(r) ==
    /\ change[r].step = "write"
    /\ avatar' = AvatarColumns(change[r].held)
    /\ change' = [change EXCEPT ![r].step = "done"]
    /\ lastChange' = {r}
    /\ UNCHANGED ready

\* A query fails or the process dies.
ChangeFails(r) ==
    /\ change[r].step \in {"find", "write"}
    /\ change' = [change EXCEPT ![r].step = "failed"]
    /\ UNCHANGED <<ready, avatar, lastChange>>

AvatarInit ==
    /\ ready = [m \in AvatarMedias |-> NoAvatar]
    /\ avatar = [url |-> NoAvatar, sources |-> NoAvatar]
    /\ change = [r \in AvatarRequests |->
                    [step |-> "none", asked |-> NoAvatar, held |-> NoAvatar, read |-> NoAvatar,
                     found |-> FALSE, met |-> FALSE]]
    /\ lastChange = {}

AvatarNext ==
    \/ \E m \in AvatarMedias : UploadCompletes(m)
    \/ \E r \in AvatarRequests :
          \/ \E asked \in AvatarMedias \union {NoAvatar} : ReadProfile(r, asked)
          \/ FindMedia(r) \/ WriteAvatar(r) \/ ChangeFails(r)

AvatarSpec == AvatarInit /\ [][AvatarNext]_avatarVars

-----------------------------------------------------------------------------
AvatarSources == [media : AvatarMedias, keys : AvatarKeys] \union {NoAvatar}

AvatarTypeOK ==
    /\ ready \in [AvatarMedias -> AvatarSources]
    /\ avatar \in [url : [media : AvatarMedias, key : {"sm", "base"}] \union {NoAvatar},
                   sources : AvatarSources]
    /\ change \in [AvatarRequests -> [step : {"none", "find", "write", "done", "failed"},
                                      asked : AvatarMedias \union {NoAvatar},
                                      held : AvatarSources, read : AvatarSources,
                                      found : BOOLEAN, met : BOOLEAN]]
    /\ lastChange \in SUBSET AvatarRequests

(***************************************************************************)
(* The change answered last, when it met no other, is what is shown: posts *)
(* and profile have the media asked for; after a removal posts have no     *)
(* avatar; and a change to a media that is not ready leaves the avatar of  *)
(* the profile, and shows posts that one (even if it had been removed).    *)
(* Of two that overlap, one may write what it read before the other.       *)
(***************************************************************************)
AvatarOfLastChange ==
    \A r \in lastChange :
        LET c == change[r]
            kept == IF c.found THEN ready[c.asked] ELSE c.read
        IN  \/ c.met
            \/ c.asked = NoAvatar /\ avatar.url = NoAvatar
            \/ /\ c.asked # NoAvatar
               /\ avatar.sources = kept /\ avatar.url = AvatarUrl(kept)

(***************************************************************************)
(* However changes overlap, posts show the avatar that the profile shows,  *)
(* or none; never the one of another change.                               *)
(***************************************************************************)
PostsShowNoOtherAvatar == avatar.url # NoAvatar => avatar.url = AvatarUrl(avatar.sources)

(***************************************************************************)
(* Profile and posts show one avatar, that of the last change where no     *)
(* other overlapped it.                                                    *)
(***************************************************************************)
ShownAvatars == AvatarOfLastChange /\ PostsShowNoOtherAvatar
=============================================================================
