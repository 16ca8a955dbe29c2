---------------------------- MODULE PlayerProfile ----------------------------
(***************************************************************************)
(* The profile of a player and its pictures.  The row is changed in        *)
(* transactions that lock the account first, so they are serial; a picture *)
(* is not: its file is written, the row is made to name it, and only then  *)
(* the file of the previous picture goes.  Requests overlap, the process   *)
(* may die between two of these steps, unlinking may fail, and a commit    *)
(* may be applied although its answer is an error.                         *)
(***************************************************************************)
EXTENDS Naturals, Sequences, FiniteSets

CONSTANTS
    Players,      \* player accounts
    Kinds,        \* avatar and banner
    Files,        \* names of files; every upload draws a fresh one
    Requests,     \* uploads and removals that can be in flight at a time
    CustomSlugs,  \* slugs a player may choose
    Reserved,     \* slugs of the catalog nobody may choose
    Images,       \* the files that are sent, see Accepted
    External,     \* a picture URL that is not one of our uploads
    MaxFaults,    \* bound on the files that faults touch
    NoFile,       \* a NULL picture, no file
    Unchanged     \* a field the patch does not have

ASSUME SlugsAssumption == CustomSlugs \cap Reserved = {} /\ Unchanged \notin CustomSlugs \cup Reserved
ASSUME FilesAssumption == {External, NoFile} \cap Files = {} /\ External # NoFile /\ NoFile \notin Images
ASSUME FaultsAssumption == MaxFaults \in Nat

VARIABLES
    active,       \* accounts whose status is active
    profile,      \* player_profiles, NoProfile when the account has no row
    disk,         \* the upload directory: the image each file holds
    request,      \* uploads and removals in flight
    used,         \* names of files drawn so far
    left,         \* files a fault left behind (history)
    lost          \* files whose row was committed with an error for an answer (history)

vars == <<active, profile, disk, request, used, left, lost>>

-----------------------------------------------------------------------------
TechnicalSlug(p) == <<"player", p>>

TechnicalSlugs == {TechnicalSlug(p) : p \in Players}

Slugs == CustomSlugs \cup Reserved \cup TechnicalSlugs

ASSUME NoSlugAssumption == NoFile \notin Slugs \cup Players \cup Kinds

NoProfile == [slug |-> NoFile, public |-> FALSE, media |-> [k \in Kinds |-> NoFile]]

(* buildInitialPlayerProfileValues; the account id makes the slug unique. *)
InitialProfile(p) == [NoProfile EXCEPT !.slug = TechnicalSlug(p)]

Profiles == [slug : Slugs \cup {NoFile}, public : BOOLEAN, media : [Kinds -> Files \cup {External, NoFile}]]

Idle == [phase |-> "IDLE", player |-> NoFile, kind |-> NoFile, file |-> NoFile]

TypeOK ==
    /\ active  \subseteq Players
    /\ profile \in [Players -> Profiles]
    /\ disk    \in [Files -> Images \cup {NoFile}]
    /\ request \in [Requests -> [phase : {"IDLE", "SAVED", "CLEANING"}, player : Players \cup {NoFile},
                                 kind : Kinds \cup {NoFile}, file : Files \cup {NoFile}]]
    /\ used \subseteq Files /\ left \subseteq Files /\ lost \subseteq Files

(* Accounts from before there were profiles have none; profiles from before *)
(* there were uploads may show a picture of somebody else's host.           *)
Inherited(p) ==
    {NoProfile} \cup {[InitialProfile(p) EXCEPT !.media = [k \in Kinds |-> url]] : url \in {NoFile, External}}

Init ==
    /\ active  = Players
    /\ profile \in [Players -> UNION {Inherited(p) : p \in Players}]
    /\ \A p \in Players : profile[p] \in Inherited(p)
    /\ request = [r \in Requests |-> Idle]
    /\ disk    = [f \in Files |-> NoFile]
    /\ used = {} /\ left = {} /\ lost = {}

Account(p) == p \in active

HasProfile(p) == profile[p] # NoProfile

(* Every transaction of the repository begins so: a row if there was none.  *)
(* Its slug must be nobody else's, or the statement fails.                  *)
WithProfile(p) == IF HasProfile(p) THEN profile[p] ELSE InitialProfile(p)

SlugFree(p, slug) == \A other \in Players \ {p} : profile[other].slug # slug

-----------------------------------------------------------------------------
(* setAccountStatus of the back office. *)
SetStatus(p) ==
    /\ active' = IF p \in active THEN active \ {p} ELSE active \cup {p}
    /\ UNCHANGED <<profile, disk, request, used, left, lost>>

EnsureProfileForAccount(p) ==
    /\ Account(p)
    /\ ~HasProfile(p)
    /\ SlugFree(p, TechnicalSlug(p))
    /\ profile' = [profile EXCEPT ![p] = InitialProfile(p)]

(* GET /player/profile/me *)
GetMe(p) ==
    /\ EnsureProfileForAccount(p)
    /\ UNCHANGED <<active, disk, request, used, left, lost>>

(* Mutant: the patterns of technical slugs may be chosen. *)
ValidSlugOrTechnical(slug) == slug \notin Reserved

(* What a player may ask for. *)
ValidSlug(slug) == slug \notin Reserved \cup TechnicalSlugs

(* Mutant: the check is made only when the patch has a slug. *)
PublishableIfAsked(row, slug, public) == slug # Unchanged => slug \notin TechnicalSlugs

Patched(row, slug, public) ==
    [row EXCEPT !.slug   = IF slug = Unchanged THEN @ ELSE slug,
                !.public = IF public = Unchanged THEN @ ELSE public = "public"]

(* A profile is public under a slug of the player's own choice only. *)
Publishable(row, slug, public) ==
    LET new == Patched(row, slug, public) IN new.public => new.slug \notin TechnicalSlugs

(* validatePlayerProfilePatch, which also checks the texts. *)
ValidPatch(slug) == slug # Unchanged => ValidSlug(slug)

(* A refusal or a slug that is taken rolls back, and the row that was just   *)
(* inserted with it.                                                         *)
UpdateProfileForAccount(p, slug, public) ==
    /\ Account(p)
    /\ ~HasProfile(p) => SlugFree(p, TechnicalSlug(p))
    /\ Publishable(WithProfile(p), slug, public)
    /\ slug # Unchanged => SlugFree(p, slug)
    /\ profile' = [profile EXCEPT ![p] = Patched(WithProfile(p), slug, public)]

(* PATCH /player/profile/me *)
UpdateMe(p, slug, public) ==
    /\ ValidPatch(slug)
    /\ UpdateProfileForAccount(p, slug, public)
    /\ UNCHANGED <<active, disk, request, used, left, lost>>

-----------------------------------------------------------------------------
(* isAnimatedPng: the walk over the chunks ends at IEND, and an acTL on the  *)
(* way is an animation.                                                      *)
AnimatedPng(chunks) ==
    \E i \in DOMAIN chunks : chunks[i] = "acTL" /\ \A j \in 1 .. i - 1 : chunks[j] # "IEND"

(* isAnimatedWebp: ANIM, or VP8X with its animation bit. *)
AnimatedWebp(chunks) == \E i \in DOMAIN chunks : chunks[i] \in {"ANIM", "VP8X animated"}

Animated(image) ==
    \/ image.format = "png"  /\ AnimatedPng(image.chunks)
    \/ image.format = "webp" /\ AnimatedWebp(image.chunks)

AllowedMimes == {"jpeg", "png", "webp"}

(* detectAllowedImageMimeFromBuffer: what the first bytes say. *)
DetectedMime(image) == IF image.format \in AllowedMimes THEN image.format ELSE NoFile

(* uploadMedia: no larger than the limit, of an allowed type, the same by    *)
(* its header and by its first bytes, and a still image.                     *)
Accepted(image) ==
    /\ ~image.tooLarge
    /\ image.declared \in AllowedMimes
    /\ DetectedMime(image) = image.declared
    /\ ~Animated(image)

(* createPlayerProfileMediaFilename: never the same twice. *)
FreshName(f) == f \notin used

SaveFile(f, image) ==
    /\ used' = used \cup {f}
    /\ disk' = [disk EXCEPT ![f] = image]

(* POST /player/profile/me/<kind>. *)
Upload(r, p, k, f, image) ==
    /\ request[r] = Idle
    /\ Accepted(image)
    /\ FreshName(f)
    /\ SaveFile(f, image)
    /\ request' = [request EXCEPT ![r] = [phase |-> "SAVED", player |-> p, kind |-> k, file |-> f]]
    /\ UNCHANGED <<active, profile, left, lost>>

(* The row shows the URL, whatever it showed before. *)
UpdateMediaForAccount(p, k, url) ==
    /\ Account(p)
    /\ ~HasProfile(p) => SlugFree(p, TechnicalSlug(p))
    /\ profile' = [profile EXCEPT ![p] = [WithProfile(p) EXCEPT !.media[k] = url]]

(* resolveManagedPlayerProfileMediaFilePath: only names of our own uploads. *)
ManagedFile(url) == IF url \in Files THEN url ELSE NoFile

(* removeManagedMediaUrl, or nothing to remove. *)
Cleaning(f) ==
    IF f = NoFile THEN Idle ELSE [Idle EXCEPT !.phase = "CLEANING", !.file = f]

(* Mutant: the file goes that the request saved. *)
RecordUploadCleaningNew(r) ==
    LET op == request[r] IN
    /\ op.phase = "SAVED"
    /\ UpdateMediaForAccount(op.player, op.kind, op.file)
    /\ request' = [request EXCEPT ![r] = Cleaning(op.file)]
    /\ UNCHANGED <<active, disk, used, left, lost>>

(* Mutant: the previous file stays. *)
RecordUploadKeepingOld(r) ==
    LET op == request[r] IN
    /\ op.phase = "SAVED"
    /\ UpdateMediaForAccount(op.player, op.kind, op.file)
    /\ request' = [request EXCEPT ![r] = Idle]
    /\ UNCHANGED <<active, disk, used, left, lost>>

(* The row names the new file; the one it named before is to go. *)
RecordUpload(r) ==
    LET op == request[r] IN
    /\ op.phase = "SAVED"
    /\ UpdateMediaForAccount(op.player, op.kind, op.file)
    /\ request' = [request EXCEPT ![r] = Cleaning(ManagedFile(profile[op.player].media[op.kind]))]
    /\ UNCHANGED <<active, disk, used, left, lost>>

(* The account is disabled, or the transaction failed: the new file goes. *)
RefuseUpload(r) ==
    /\ request[r].phase = "SAVED"
    /\ request' = [request EXCEPT ![r] = Cleaning(request[r].file)]
    /\ UNCHANGED <<active, profile, disk, used, left, lost>>

RemoveMedia(r, p, k) ==
    /\ UpdateMediaForAccount(p, k, NoFile)
    /\ request' = [request EXCEPT ![r] = Cleaning(ManagedFile(profile[p].media[k]))]

(* DELETE /player/profile/me/<kind> *)
Remove(r, p, k) ==
    /\ request[r] = Idle
    /\ RemoveMedia(r, p, k)
    /\ UNCHANGED <<active, disk, used, left, lost>>

(* removeFile, for whichever file the request is to get rid of. *)
CleanUp(r) ==
    /\ request[r].phase = "CLEANING"
    /\ disk'    = [disk EXCEPT ![request[r].file] = NoFile]
    /\ request' = [request EXCEPT ![r] = Idle]
    /\ UNCHANGED <<active, profile, used, left, lost>>

-----------------------------------------------------------------------------
CanFault == Cardinality(left \cup lost) < MaxFaults

(* The process dies, with every request in it; or unlink fails, which        *)
(* removeFile ignores; or writeFile fails after it created the file.         *)
GiveUp(r) ==
    /\ CanFault
    /\ request[r] # Idle
    /\ left'    = left \cup {request[r].file}
    /\ request' = [request EXCEPT ![r] = Idle]
    /\ UNCHANGED <<active, profile, disk, used, lost>>

Crash ==
    /\ CanFault
    /\ left' = left \cup {request[r].file : r \in {q \in Requests : request[q] # Idle}}
    /\ request' = [r \in Requests |-> Idle]
    /\ UNCHANGED <<active, profile, disk, used, lost>>

(* The commit of an upload is applied and reported as an error: the handler  *)
(* removes the file it saved, and leaves the previous one.                   *)
LoseUploadCommit(r) ==
    LET op == request[r] IN
    /\ CanFault
    /\ op.phase = "SAVED"
    /\ UpdateMediaForAccount(op.player, op.kind, op.file)
    /\ request' = [request EXCEPT ![r] = Cleaning(op.file)]
    /\ left'    = left \cup ({ManagedFile(profile[op.player].media[op.kind])} \ {NoFile})
    /\ lost'    = lost \cup {op.file}
    /\ UNCHANGED <<active, disk, used>>

LoseRemovalCommit(p, k) ==
    /\ CanFault
    /\ UpdateMediaForAccount(p, k, NoFile)
    /\ left' = left \cup ({ManagedFile(profile[p].media[k])} \ {NoFile})
    /\ UNCHANGED <<active, disk, request, used, lost>>

Next ==
    \/ \E p \in Players :
          \/ SetStatus(p)
          \/ GetMe(p)
          \/ \E slug \in Slugs \cup {Unchanged}, public \in {"private", "public", Unchanged} :
                UpdateMe(p, slug, public)
          \/ \E k \in Kinds : LoseRemovalCommit(p, k)
    \/ \E r \in Requests :
          \/ \E p \in Players, k \in Kinds : 
              \/ Remove(r, p, k)
              \/ \E f \in Files, image \in Images : Upload(r, p, k, f, image)
          \/ RecordUpload(r)
          \/ RefuseUpload(r)
          \/ CleanUp(r)
          \/ GiveUp(r)
          \/ LoseUploadCommit(r)
    \/ Crash

Spec == Init /\ [][Next]_vars

-----------------------------------------------------------------------------
Shown == {profile[p].media[k] : p \in Players, k \in Kinds} \cap Files

(* A profile shows a picture that is there: however uploads and removals     *)
(* overlap, and wherever the process dies, the file a row names exists and   *)
(* holds a still image of the type its name says.  The one exception is a    *)
(* commit that was reported as an error: the handler takes the file back     *)
(* that the row now names.                                                   *)
ShownPicturesServe ==
    \A f \in Shown \ lost : disk[f] # NoFile /\ Accepted(disk[f])

(* Nothing is left over in the upload directory but by a fault: a file that  *)
(* no profile shows is in the hands of a request that will remove it.        *)
LeftoversExplained ==
    \A f \in Files : disk[f] # NoFile =>
        f \in Shown \cup left \/ \E r \in Requests : request[r].file = f

(* findPublicProfileBySlug *)
FindPublicProfile(slug) == {p \in Players : profile[p].public /\ profile[p].slug = slug}

(* PlayerPublicProfileService: what the public page of a slug shows; it has  *)
(* its own copy of the rules for slugs.                                      *)
PublicPage(slug) ==
    IF slug \in Reserved \cup TechnicalSlugs THEN {} ELSE FindPublicProfile(slug)

(* getPublicProfileSlugsBySteamIds: the slug that stands next to a player's  *)
(* Steam name in match rooms.                                                *)
LinkedSlug(p) == IF profile[p].public THEN profile[p].slug ELSE NoFile

(* A slug that is shown for a player leads to his public page and to nobody  *)
(* else's, whichever way slug and visibility were changed.                   *)
PublicPageFound == \A p \in Players : LinkedSlug(p) # NoFile => PublicPage(LinkedSlug(p)) = {p}

(* A player without a profile gets one at the first visit: nobody can have   *)
(* taken the slug that his account id makes.                                 *)
FirstVisitSucceeds == \A p \in Players : ~HasProfile(p) => SlugFree(p, TechnicalSlug(p))

=============================================================================
