------------------------ MODULE PlayerProfile_proofs ------------------------
(***************************************************************************)
(* Theorems about PlayerProfile, for any players, files, images, slugs,    *)
(* requests and number of faults.                                          *)
(***************************************************************************)
EXTENDS PlayerProfile, TLAPS

-----------------------------------------------------------------------------
(* A request that saved a file knows whose picture it is, and one that is to *)
(* remove a file knows which.                                                *)
Busy ==
    \A r \in Requests :
        /\ request[r].phase = "SAVED" => request[r].player \in Players /\ request[r].kind \in Kinds
        /\ request[r].phase # "IDLE" => request[r].file \in Files
        /\ request[r].phase = "IDLE" => request[r] = Idle

TypeInv == TypeOK /\ Busy

LEMMA RowsTyped ==
    /\ NoProfile \in Profiles
    /\ \A p \in Players : InitialProfile(p) \in Profiles
<1>1. \A p \in Players : TechnicalSlug(p) \in Slugs
    BY DEF Slugs, TechnicalSlugs
<1>2. QED
    BY <1>1 DEF NoProfile, InitialProfile, Profiles

LEMMA WithProfileTyped ==
    ASSUME TypeInv, NEW p \in Players
    PROVE  WithProfile(p) \in Profiles
BY RowsTyped DEF TypeInv, TypeOK, WithProfile

(* The three ways a row changes. *)
LEMMA EnsureEffect ==
    ASSUME TypeInv, NEW p \in Players, EnsureProfileForAccount(p)
    PROVE  /\ profile' \in [Players -> Profiles]
           /\ profile' = [profile EXCEPT ![p] = InitialProfile(p)]
BY RowsTyped DEF TypeInv, TypeOK, EnsureProfileForAccount

LEMMA UpdateEffect ==
    ASSUME TypeInv, NEW p \in Players, NEW slug \in Slugs \cup {Unchanged},
           NEW public \in {"private", "public", Unchanged}, UpdateProfileForAccount(p, slug, public)
    PROVE  /\ profile' \in [Players -> Profiles]
           /\ profile' = [profile EXCEPT ![p] = Patched(WithProfile(p), slug, public)]
           /\ profile'[p].media = WithProfile(p).media
           /\ profile'[p].slug = IF slug = Unchanged THEN WithProfile(p).slug ELSE slug
<1>1. WithProfile(p) \in Profiles
    BY WithProfileTyped
<1>2. /\ Patched(WithProfile(p), slug, public) \in Profiles
      /\ Patched(WithProfile(p), slug, public).media = WithProfile(p).media
      /\ Patched(WithProfile(p), slug, public).slug = IF slug = Unchanged THEN WithProfile(p).slug ELSE slug
    BY <1>1 DEF Patched, Profiles
<1>3. QED
    BY <1>2 DEF UpdateProfileForAccount, TypeInv, TypeOK

LEMMA MediaEffect ==
    ASSUME TypeInv, NEW p \in Players, NEW k \in Kinds, NEW url \in Files \cup {NoFile},
           UpdateMediaForAccount(p, k, url)
    PROVE  /\ profile' \in [Players -> Profiles]
           /\ \A q \in Players : q # p => profile'[q] = profile[q]
           /\ profile'[p].slug = WithProfile(p).slug
           /\ profile'[p].public = WithProfile(p).public
           /\ profile'[p].media = [WithProfile(p).media EXCEPT ![k] = url]
<1>1. WithProfile(p) \in Profiles
    BY WithProfileTyped
<1> DEFINE row == [WithProfile(p) EXCEPT !.media = [WithProfile(p).media EXCEPT ![k] = url]]
<1>2. /\ row \in Profiles
      /\ row.slug = WithProfile(p).slug /\ row.public = WithProfile(p).public
      /\ row.media = [WithProfile(p).media EXCEPT ![k] = url]
    BY <1>1 DEF Profiles
<1>3. profile' = [profile EXCEPT ![p] = row]
    BY DEF UpdateMediaForAccount
<1> HIDE DEF row
<1>4. QED
    BY <1>2, <1>3 DEF TypeInv, TypeOK

LEMMA InitTyped == Init => TypeInv
<1> SUFFICES ASSUME Init PROVE TypeInv
    OBVIOUS
<1>1. ASSUME NEW p \in Players PROVE Inherited(p) \subseteq Profiles
    BY RowsTyped DEF Inherited, Profiles
<1>2. \A p \in Players : profile[p] \in Profiles
    BY <1>1 DEF Init
<1>3. profile = [p \in Players |-> profile[p]]
    BY DEF Init
<1>4. profile \in [Players -> Profiles]
    BY <1>2, <1>3
<1>5. QED
    BY <1>4 DEF Init, TypeInv, TypeOK, Busy, Idle

(* What a request becomes, and that the others stay as they are. *)
RequestRows == [phase : {"IDLE", "SAVED", "CLEANING"}, player : Players \cup {NoFile},
                kind : Kinds \cup {NoFile}, file : Files \cup {NoFile}]

LEMMA CleaningTyped ==
    ASSUME NEW f \in Files \cup {NoFile}
    PROVE  /\ Cleaning(f) \in RequestRows
           /\ Cleaning(f).file = f
           /\ Cleaning(f).phase = IF f = NoFile THEN "IDLE" ELSE "CLEANING"
           /\ f = NoFile => Cleaning(f) = Idle
BY DEF Cleaning, Idle, RequestRows

LEMMA BusyStep ==
    ASSUME TypeInv, NEW r \in Requests, NEW f \in Files \cup {NoFile},
           request' = [request EXCEPT ![r] = Cleaning(f)]
    PROVE  request' \in [Requests -> RequestRows] /\ Busy'
<1>1. request \in [Requests -> RequestRows] /\ Busy
    BY DEF TypeInv, TypeOK, RequestRows
<1>2. /\ Cleaning(f) \in RequestRows /\ Cleaning(f).file = f
      /\ Cleaning(f).phase = IF f = NoFile THEN "IDLE" ELSE "CLEANING"
      /\ f = NoFile => Cleaning(f) = Idle
    BY CleaningTyped
<1>3. QED
    BY <1>1, <1>2, FilesAssumption DEF Busy

LEMMA IdleIsCleaned == Idle = Cleaning(NoFile)
BY DEF Cleaning

LEMMA ManagedTyped == \A url : ManagedFile(url) \in Files \cup {NoFile}
BY DEF ManagedFile

LEMMA TypeStep == TypeInv /\ [Next]_vars => TypeInv'
<1> SUFFICES ASSUME TypeInv, [Next]_vars PROVE TypeInv'
    OBVIOUS
<1>0. /\ active \subseteq Players /\ profile \in [Players -> Profiles]
      /\ disk \in [Files -> Images \cup {NoFile}] /\ request \in [Requests -> RequestRows]
      /\ used \subseteq Files /\ left \subseteq Files /\ lost \subseteq Files
      /\ Busy
    BY DEF TypeInv, TypeOK, RequestRows
<1> DEFINE Typed == /\ active' \subseteq Players /\ profile' \in [Players -> Profiles]
                    /\ disk' \in [Files -> Images \cup {NoFile}] /\ request' \in [Requests -> RequestRows]
                    /\ used' \subseteq Files /\ left' \subseteq Files /\ lost' \subseteq Files
                    /\ Busy'
<1> SUFFICES Typed
    BY DEF TypeInv, TypeOK, RequestRows
<1>1. CASE UNCHANGED vars
    BY <1>0, <1>1 DEF vars, Busy
<1>2. ASSUME NEW p \in Players, SetStatus(p) PROVE Typed
    BY <1>0, <1>2 DEF SetStatus, Busy
<1>3. ASSUME NEW p \in Players, GetMe(p) PROVE Typed
    <2>1. profile' \in [Players -> Profiles]
        BY <1>3, EnsureEffect DEF GetMe
    <2>2. QED
        BY <1>0, <1>3, <2>1 DEF GetMe, Busy
<1>4. ASSUME NEW p \in Players, NEW slug \in Slugs \cup {Unchanged},
             NEW public \in {"private", "public", Unchanged}, UpdateMe(p, slug, public)
      PROVE  Typed
    <2>1. profile' \in [Players -> Profiles]
        BY <1>4, UpdateEffect DEF UpdateMe
    <2>2. QED
        BY <1>0, <1>4, <2>1 DEF UpdateMe, Busy
<1>5. ASSUME NEW p \in Players, NEW k \in Kinds, LoseRemovalCommit(p, k) PROVE Typed
    <2>1. profile' \in [Players -> Profiles]
        BY <1>5, MediaEffect DEF LoseRemovalCommit
    <2>2. left' \subseteq Files
        BY <1>0, <1>5, ManagedTyped DEF LoseRemovalCommit
    <2>3. QED
        BY <1>0, <1>5, <2>1, <2>2 DEF LoseRemovalCommit, Busy
<1>6. ASSUME NEW r \in Requests, NEW p \in Players, NEW k \in Kinds, Remove(r, p, k) PROVE Typed
    <2>1. profile' \in [Players -> Profiles]
        BY <1>6, MediaEffect DEF Remove, RemoveMedia
    <2>2. request' \in [Requests -> RequestRows] /\ Busy'
        BY <1>6, BusyStep, ManagedTyped DEF Remove, RemoveMedia
    <2>3. QED
        BY <1>0, <1>6, <2>1, <2>2 DEF Remove
<1>7. ASSUME NEW r \in Requests, NEW p \in Players, NEW k \in Kinds, NEW f \in Files, NEW image \in Images,
             Upload(r, p, k, f, image)
      PROVE  Typed
    <2> DEFINE row == [phase |-> "SAVED", player |-> p, kind |-> k, file |-> f]
    <2>1. row \in RequestRows /\ request' = [request EXCEPT ![r] = row]
        BY <1>7 DEF Upload, RequestRows
    <2>2. request' \in [Requests -> RequestRows] /\ Busy'
        BY <1>0, <2>1 DEF Busy
    <2>3. QED
        BY <1>0, <1>7, <2>2 DEF Upload, SaveFile
<1>8. ASSUME NEW r \in Requests, RecordUpload(r) PROVE Typed
    <2>1. request[r].player \in Players /\ request[r].kind \in Kinds /\ request[r].file \in Files
        BY <1>0, <1>8 DEF RecordUpload, Busy
    <2>2. profile' \in [Players -> Profiles]
        BY <1>8, <2>1, MediaEffect DEF RecordUpload
    <2>3. request' \in [Requests -> RequestRows] /\ Busy'
        BY <1>8, BusyStep, ManagedTyped DEF RecordUpload
    <2>4. QED
        BY <1>0, <1>8, <2>2, <2>3 DEF RecordUpload
<1>9. ASSUME NEW r \in Requests, RefuseUpload(r) PROVE Typed
    <2>1. request[r].file \in Files
        BY <1>0, <1>9 DEF RefuseUpload, Busy
    <2>2. request' \in [Requests -> RequestRows] /\ Busy'
        BY <1>9, <2>1, BusyStep DEF RefuseUpload
    <2>3. QED
        BY <1>0, <1>9, <2>2 DEF RefuseUpload
<1>10. ASSUME NEW r \in Requests, CleanUp(r) PROVE Typed
    <2>1. request' \in [Requests -> RequestRows] /\ Busy'
        BY <1>10, BusyStep, IdleIsCleaned DEF CleanUp
    <2>2. QED
        BY <1>0, <1>10, <2>1 DEF CleanUp
<1>11. ASSUME NEW r \in Requests, GiveUp(r) PROVE Typed
    <2>1. request' \in [Requests -> RequestRows] /\ Busy'
        BY <1>11, BusyStep, IdleIsCleaned DEF GiveUp
    <2>2. request[r].file \in Files
        BY <1>0, <1>11 DEF GiveUp, Busy
    <2>3. QED
        BY <1>0, <1>11, <2>1, <2>2 DEF GiveUp
<1>12. ASSUME NEW r \in Requests, LoseUploadCommit(r) PROVE Typed
    <2>1. request[r].player \in Players /\ request[r].kind \in Kinds /\ request[r].file \in Files
        BY <1>0, <1>12 DEF LoseUploadCommit, Busy
    <2>2. profile' \in [Players -> Profiles]
        BY <1>12, <2>1, MediaEffect DEF LoseUploadCommit
    <2>3. request' \in [Requests -> RequestRows] /\ Busy'
        BY <1>12, <2>1, BusyStep DEF LoseUploadCommit
    <2>4. left' \subseteq Files /\ lost' \subseteq Files
        BY <1>0, <1>12, <2>1, ManagedTyped DEF LoseUploadCommit
    <2>5. QED
        BY <1>0, <1>12, <2>2, <2>3, <2>4 DEF LoseUploadCommit
<1>13. CASE Crash
    <2>1. request' = [r \in Requests |-> Idle] /\ Idle \in RequestRows /\ Idle.phase = "IDLE"
        BY <1>13 DEF Crash, Idle, RequestRows
    <2>2. request' \in [Requests -> RequestRows] /\ Busy'
        BY <2>1 DEF Busy
    <2>3. left' \subseteq Files
        BY <1>0, <1>13 DEF Crash, Busy, RequestRows
    <2>4. QED
        BY <1>0, <1>13, <2>2, <2>3 DEF Crash
<1>14. QED
    BY <1>1, <1>2, <1>3, <1>4, <1>5, <1>6, <1>7, <1>8, <1>9, <1>10, <1>11, <1>12, <1>13 DEF Next

(* Every reachable state is well typed. *)
THEOREM TypeCorrect == Spec => []TypeOK
<1>1. TypeInv => TypeOK
    BY DEF TypeInv
<1>2. QED
    BY InitTyped, TypeStep, <1>1, PTL DEF Spec

-----------------------------------------------------------------------------
(* Slugs: an account's row has none, the one its id makes, or a chosen one,  *)
(* which is neither reserved nor technical; only chosen slugs are public,    *)
(* and no two rows have the same one.                                        *)
Chosen == Slugs \ (Reserved \cup TechnicalSlugs)

Slugged ==
    /\ \A p \in Players :
          /\ profile[p].slug \in Chosen \cup {TechnicalSlug(p), NoFile}
          /\ profile[p].slug = NoFile => profile[p] = NoProfile
          /\ profile[p].public => profile[p].slug \in Chosen
    /\ \A p, q \in Players : p # q /\ profile[p].slug = profile[q].slug => profile[p].slug = NoFile

LEMMA TechnicalUnique ==
    /\ \A p, q \in Players : TechnicalSlug(p) = TechnicalSlug(q) => p = q
    /\ \A p \in Players : TechnicalSlug(p) \notin Chosen /\ TechnicalSlug(p) # NoFile
BY NoSlugAssumption DEF TechnicalSlug, TechnicalSlugs, Chosen, Slugs

LEMMA InitialRow ==
    ASSUME NEW p
    PROVE  /\ InitialProfile(p).slug = TechnicalSlug(p)
           /\ InitialProfile(p).public = FALSE
           /\ NoProfile.slug = NoFile /\ NoProfile.public = FALSE
           /\ \A k \in Kinds : InitialProfile(p).media[k] = NoFile /\ NoProfile.media[k] = NoFile
BY DEF InitialProfile, NoProfile

LEMMA InitSlugged == Init => Slugged
<1> SUFFICES ASSUME Init PROVE Slugged
    OBVIOUS
<1>1. ASSUME NEW p \in Players
      PROVE  /\ profile[p] = NoProfile \/ profile[p].slug = TechnicalSlug(p)
             /\ ~profile[p].public
    <2> DEFINE row(url) == [InitialProfile(p) EXCEPT !.media = [k \in Kinds |-> url]]
    <2>1. profile[p] \in {NoProfile} \cup {row(url) : url \in {NoFile, External}}
        BY DEF Init, Inherited
    <2>2. \A url : row(url).slug = TechnicalSlug(p) /\ ~row(url).public
        BY DEF InitialProfile, NoProfile
    <2>3. ~NoProfile.public
        BY DEF NoProfile
    <2> HIDE DEF row
    <2>4. QED
        BY <2>1, <2>2, <2>3
<1>2. NoProfile.slug = NoFile
    BY DEF NoProfile
<1>3. \A p \in Players :
          /\ profile[p].slug \in {TechnicalSlug(p), NoFile}
          /\ profile[p].slug = NoFile => profile[p] = NoProfile
    BY <1>1, <1>2, TechnicalUnique
<1>4. \A p, q \in Players : p # q /\ profile[p].slug = profile[q].slug => profile[p].slug = NoFile
    BY <1>3, TechnicalUnique
<1>5. QED
    BY <1>1, <1>3, <1>4 DEF Slugged

(* One row may change: to a slug of its own that nobody else has.            *)
LEMMA OneRow ==
    ASSUME TypeInv, Slugged, NEW p \in Players,
           \A q \in Players : q # p => profile'[q] = profile[q],
           profile'[p].slug \in Chosen \cup {TechnicalSlug(p)},
           profile'[p].public => profile'[p].slug \in Chosen,
           SlugFree(p, profile'[p].slug)
    PROVE  Slugged'
<1>1. profile'[p].slug # NoFile
    BY TechnicalUnique, NoSlugAssumption DEF Chosen
<1>2. \A q \in Players : q # p => profile'[q].slug # profile'[p].slug
    BY DEF SlugFree
<1>3. QED
    BY <1>1, <1>2 DEF Slugged

(* Nobody has the slug a row already has, nor, when it is new, the one of    *)
(* its account id.                                                           *)
LEMMA OwnSlug ==
    ASSUME TypeInv, Slugged, NEW p \in Players
    PROVE  /\ WithProfile(p).slug \in Chosen \cup {TechnicalSlug(p)}
           /\ WithProfile(p).public => WithProfile(p).slug \in Chosen
           /\ SlugFree(p, WithProfile(p).slug)
<1>1. CASE HasProfile(p)
    BY <1>1 DEF HasProfile, WithProfile, Slugged, SlugFree
<1>2. CASE ~HasProfile(p)
    <2>1. WithProfile(p).slug = TechnicalSlug(p) /\ WithProfile(p).public = FALSE
        BY <1>2, InitialRow DEF WithProfile
    <2>2. SlugFree(p, TechnicalSlug(p))
        BY TechnicalUnique DEF SlugFree, Slugged
    <2>3. QED
        BY <2>1, <2>2
<1>3. QED
    BY <1>1, <1>2

LEMMA MediaKeepsSlugs ==
    ASSUME TypeInv, Slugged, NEW p \in Players, NEW k \in Kinds, NEW url \in Files \cup {NoFile},
           UpdateMediaForAccount(p, k, url)
    PROVE  Slugged'
BY MediaEffect, OwnSlug, OneRow

LEMMA SluggedStep == TypeInv /\ Slugged /\ [Next]_vars => Slugged'
<1> SUFFICES ASSUME TypeInv, Slugged, [Next]_vars PROVE Slugged'
    OBVIOUS
<1>1. CASE UNCHANGED profile
    BY <1>1 DEF Slugged
<1>2. ASSUME NEW p \in Players, GetMe(p) PROVE Slugged'
    <2>1. profile' = [profile EXCEPT ![p] = InitialProfile(p)]
        BY <1>2, EnsureEffect DEF GetMe
    <2>2. SlugFree(p, TechnicalSlug(p))
        BY <1>2 DEF GetMe, EnsureProfileForAccount
    <2>3. QED
        BY <2>1, <2>2, InitialRow, OneRow DEF TypeInv, TypeOK
<1>3. ASSUME NEW p \in Players, NEW slug \in Slugs \cup {Unchanged},
             NEW public \in {"private", "public", Unchanged}, UpdateMe(p, slug, public)
      PROVE  Slugged'
    <2>1. /\ UpdateProfileForAccount(p, slug, public) /\ ValidPatch(slug)
          /\ Publishable(WithProfile(p), slug, public)
          /\ slug # Unchanged => SlugFree(p, slug)
        BY <1>3 DEF UpdateMe, UpdateProfileForAccount
    <2>2. /\ profile' = [profile EXCEPT ![p] = Patched(WithProfile(p), slug, public)]
          /\ profile'[p].slug = IF slug = Unchanged THEN WithProfile(p).slug ELSE slug
        BY <2>1, UpdateEffect
    <2>3. slug # Unchanged => slug \in Chosen
        BY <2>1 DEF ValidPatch, ValidSlug, Chosen
    <2>4. profile'[p].slug \in Chosen \cup {TechnicalSlug(p)} /\ SlugFree(p, profile'[p].slug)
        BY <2>1, <2>2, <2>3, OwnSlug
    <2>5. profile'[p] = Patched(WithProfile(p), slug, public)
        BY <2>2 DEF TypeInv, TypeOK
    <2>6. profile'[p].public => profile'[p].slug \notin TechnicalSlugs
        BY <2>1, <2>5 DEF Publishable
    <2>7. TechnicalSlug(p) \in TechnicalSlugs
        BY DEF TechnicalSlugs
    <2>8. QED
        BY <2>2, <2>4, <2>6, <2>7, OneRow DEF TypeInv, TypeOK
<1>4. ASSUME NEW p \in Players, NEW k \in Kinds, LoseRemovalCommit(p, k) PROVE Slugged'
    BY <1>4, MediaKeepsSlugs DEF LoseRemovalCommit
<1>5. ASSUME NEW r \in Requests, NEW p \in Players, NEW k \in Kinds, Remove(r, p, k) PROVE Slugged'
    BY <1>5, MediaKeepsSlugs DEF Remove, RemoveMedia
<1>6. ASSUME NEW r \in Requests, RecordUpload(r) \/ LoseUploadCommit(r) PROVE Slugged'
    <2>1. /\ request[r].player \in Players /\ request[r].kind \in Kinds /\ request[r].file \in Files
          /\ UpdateMediaForAccount(request[r].player, request[r].kind, request[r].file)
        BY <1>6 DEF RecordUpload, LoseUploadCommit, TypeInv, Busy
    <2>2. QED
        BY <2>1, MediaKeepsSlugs
<1>7. QED
    <2>1. CASE UNCHANGED vars
        BY <2>1, <1>1 DEF vars
    <2>2. ASSUME NEW p \in Players, SetStatus(p) PROVE Slugged'
        BY <2>2, <1>1 DEF SetStatus
    <2>3. ASSUME NEW r \in Requests, NEW p \in Players, NEW k \in Kinds, NEW f \in Files,
                 NEW image \in Images, Upload(r, p, k, f, image)
          PROVE  Slugged'
        BY <2>3, <1>1 DEF Upload
    <2>4. ASSUME NEW r \in Requests, RefuseUpload(r) \/ CleanUp(r) \/ GiveUp(r) PROVE Slugged'
        BY <2>4, <1>1 DEF RefuseUpload, CleanUp, GiveUp
    <2>5. CASE Crash
        BY <2>5, <1>1 DEF Crash
    <2>6. QED
        BY <2>1, <2>2, <2>3, <2>4, <2>5, <1>2, <1>3, <1>4, <1>5, <1>6 DEF Next

(* The first visit of a player always makes a profile: nobody can have taken *)
(* the slug of the account id.                                               *)
THEOREM FirstVisit == Spec => []FirstVisitSucceeds
<1>1. Slugged => FirstVisitSucceeds
    BY TechnicalUnique DEF Slugged, FirstVisitSucceeds, SlugFree
<1>2. QED
    BY InitTyped, TypeStep, InitSlugged, SluggedStep, <1>1, PTL DEF Spec

(* A slug shown for a player leads to the player's public page and to nobody *)
(* else's.                                                                   *)
THEOREM PageFound == Spec => []PublicPageFound
<1>1. Slugged => PublicPageFound
    <2> SUFFICES ASSUME Slugged, NEW p \in Players, LinkedSlug(p) # NoFile
                 PROVE  PublicPage(LinkedSlug(p)) = {p}
        BY DEF PublicPageFound
    <2>1. profile[p].public /\ LinkedSlug(p) = profile[p].slug /\ profile[p].slug \in Chosen
        BY DEF LinkedSlug, Slugged
    <2>2. FindPublicProfile(profile[p].slug) = {p}
        BY <2>1, NoSlugAssumption DEF FindPublicProfile, Slugged, Chosen
    <2>3. QED
        BY <2>1, <2>2 DEF PublicPage, Chosen
<1>2. QED
    BY InitTyped, TypeStep, InitSlugged, SluggedStep, <1>1, PTL DEF Spec

-----------------------------------------------------------------------------
(* Pictures.  A name of a file was drawn before it is used anywhere, a file  *)
(* is one picture of one profile; a file that is waiting for its row is in   *)
(* the hands of one request only and in no row; a file that is being removed *)
(* is shown by nobody, unless its commit was reported as an error.           *)
Shows(p, k) == profile[p].media[k]

Drawn ==
    /\ Shown \cup lost \subseteq used
    /\ \A r \in Requests : request[r].phase # "IDLE" => request[r].file \in used

OnePicture ==
    \A p, q \in Players, k, j \in Kinds :
        Shows(p, k) \in Files /\ Shows(p, k) = Shows(q, j) => p = q /\ k = j

SavedIsNew ==
    \A r \in Requests : request[r].phase = "SAVED" =>
        /\ disk[request[r].file] # NoFile /\ Accepted(disk[request[r].file])
        /\ request[r].file \notin Shown \cup lost
        /\ \A q \in Requests \ {r} : request[q].phase # "IDLE" => request[q].file # request[r].file

CleanedIsOld ==
    \A r \in Requests : request[r].phase = "CLEANING" => request[r].file \notin Shown \ lost

Pictures ==
    /\ Drawn /\ OnePicture /\ SavedIsNew /\ CleanedIsOld
    /\ ShownPicturesServe /\ LeftoversExplained

LEMMA ShownMeaning ==
    \A f : f \in Shown <=> f \in Files /\ \E p \in Players, k \in Kinds : Shows(p, k) = f
BY DEF Shown, Shows

LEMMA InitPictures == Init => Pictures
<1> SUFFICES ASSUME Init PROVE Pictures
    OBVIOUS
<1>1. ASSUME NEW p \in Players, NEW k \in Kinds PROVE Shows(p, k) \notin Files
    <2> DEFINE row(url) == [InitialProfile(p) EXCEPT !.media = [j \in Kinds |-> url]]
    <2>1. profile[p] \in {NoProfile} \cup {row(url) : url \in {NoFile, External}}
        BY DEF Init, Inherited
    <2>2. \A url : row(url).media[k] = url
        BY DEF InitialProfile, NoProfile
    <2>3. NoProfile.media[k] = NoFile
        BY DEF NoProfile
    <2> HIDE DEF row
    <2>4. QED
        BY <2>1, <2>2, <2>3, FilesAssumption DEF Shows
<1>2. Shown = {}
    BY <1>1, ShownMeaning
<1>3. /\ used = {} /\ lost = {} /\ \A f \in Files : disk[f] = NoFile
      /\ \A r \in Requests : request[r].phase = "IDLE"
    BY DEF Init, Idle
<1>4. QED
    BY <1>1, <1>2, <1>3 DEF Pictures, Drawn, OnePicture, SavedIsNew, CleanedIsOld,
       ShownPicturesServe, LeftoversExplained

(* A new picture in a row, or none, leaves the other pictures alone.         *)
LEMMA MediaShows ==
    ASSUME TypeInv, NEW p \in Players, NEW k \in Kinds, NEW url \in Files \cup {NoFile},
           UpdateMediaForAccount(p, k, url)
    PROVE  \A q \in Players, j \in Kinds :
              Shows(q, j)' = IF q = p /\ j = k THEN url ELSE Shows(q, j)
<1>1. /\ \A q \in Players : q # p => profile'[q] = profile[q]
      /\ profile'[p].media = [WithProfile(p).media EXCEPT ![k] = url]
    BY MediaEffect
<1>2. WithProfile(p).media \in [Kinds -> Files \cup {External, NoFile}]
    BY WithProfileTyped DEF Profiles
<1>3. \A j \in Kinds : WithProfile(p).media[j] = Shows(p, j)
    BY InitialRow DEF WithProfile, HasProfile, Shows
<1>4. QED
    BY <1>1, <1>2, <1>3 DEF Shows

(* What a profile shows is not touched by its other columns.                 *)
LEMMA TextsShow ==
    ASSUME TypeInv, NEW p \in Players,
           \/ GetMe(p)
           \/ \E slug \in Slugs \cup {Unchanged}, public \in {"private", "public", Unchanged} :
                 UpdateMe(p, slug, public)
    PROVE  \A q \in Players, j \in Kinds : Shows(q, j)' = Shows(q, j)
<1>1. \A j \in Kinds : WithProfile(p).media[j] = Shows(p, j)
    BY InitialRow DEF WithProfile, HasProfile, Shows
<1>2. CASE GetMe(p)
    <2>1. profile' = [profile EXCEPT ![p] = WithProfile(p)]
        BY <1>2, EnsureEffect DEF GetMe, EnsureProfileForAccount, WithProfile
    <2>2. QED
        BY <2>1, <1>1 DEF Shows, TypeInv, TypeOK
<1>3. ASSUME NEW slug \in Slugs \cup {Unchanged}, NEW public \in {"private", "public", Unchanged},
             UpdateMe(p, slug, public)
      PROVE  \A q \in Players, j \in Kinds : Shows(q, j)' = Shows(q, j)
    <2>1. profile'[p].media = WithProfile(p).media /\ \A q \in Players : q # p => profile'[q] = profile[q]
        BY <1>3, UpdateEffect DEF UpdateMe, TypeInv, TypeOK
    <2>2. QED
        BY <2>1, <1>1 DEF Shows
<1>4. QED
    BY <1>2, <1>3

(* Nothing that Pictures looks at changes. *)
LEMMA SamePictures ==
    ASSUME Pictures, UNCHANGED <<disk, request, used, left, lost>>,
           \A q \in Players, j \in Kinds : Shows(q, j)' = Shows(q, j)
    PROVE  Pictures'
<1>1. Shown' = Shown
    BY DEF Shown, Shows
<1>2. QED
    BY <1>1 DEF Pictures, Drawn, OnePicture, SavedIsNew, CleanedIsOld, ShownPicturesServe, LeftoversExplained

LEMMA UploadStep ==
    ASSUME TypeInv, Pictures, NEW r \in Requests, NEW p \in Players, NEW k \in Kinds, NEW f \in Files,
           NEW image \in Images, Upload(r, p, k, f, image)
    PROVE  Pictures'
<1> USE DEF TypeInv, TypeOK
<1>1. /\ f \notin used /\ used' = used \cup {f} /\ image # NoFile /\ Accepted(image)
      /\ disk'[f] = image /\ \A x \in Files : x # f => disk'[x] = disk[x]
      /\ request[r].phase = "IDLE" /\ request'[r].phase = "SAVED" /\ request'[r].file = f
      /\ \A q \in Requests : q # r => request'[q] = request[q]
      /\ UNCHANGED <<profile, left, lost>>
    BY FilesAssumption DEF Upload, FreshName, SaveFile, Idle
<1>2. Shown' = Shown /\ OnePicture'
    BY <1>1 DEF Shown, Pictures, OnePicture, Shows
<1>3. Drawn'
    BY <1>1, <1>2 DEF Pictures, Drawn
<1>4. SavedIsNew'
    <2>1. f \notin Shown \cup lost /\ \A q \in Requests : request[q].phase # "IDLE" => request[q].file # f
        BY <1>1 DEF Pictures, Drawn
    <2>2. QED
        BY <1>1, <1>2, <2>1 DEF Pictures, SavedIsNew, Busy
<1>5. CleanedIsOld'
    BY <1>1, <1>2 DEF Pictures, CleanedIsOld
<1>6. ShownPicturesServe'
    BY <1>1, <1>2 DEF Pictures, ShownPicturesServe, Drawn, Shown
<1>7. LeftoversExplained'
    <2>1. request[r].file \notin Files
        BY <1>1, FilesAssumption DEF Busy, Idle
    <2>2. QED
        BY <1>1, <1>2, <2>1 DEF Pictures, LeftoversExplained
<1>8. QED
    BY <1>2, <1>3, <1>4, <1>5, <1>6, <1>7 DEF Pictures

(* A request gives up a file, or is done with it: the row is not involved.   *)
LEMMA LetGoStep ==
    ASSUME TypeInv, Pictures, NEW r \in Requests, RefuseUpload(r) \/ CleanUp(r) \/ GiveUp(r)
    PROVE  Pictures'
<1> USE DEF TypeInv, TypeOK
<1>1. CASE RefuseUpload(r)
    <2>1. /\ request[r].phase = "SAVED" /\ request[r].file \in Files
          /\ request'[r].phase = "CLEANING" /\ request'[r].file = request[r].file
          /\ \A q \in Requests : q # r => request'[q] = request[q]
          /\ UNCHANGED <<profile, disk, used, left, lost>>
        BY <1>1, CleaningTyped, FilesAssumption DEF RefuseUpload, Busy
    <2>2. Shown' = Shown /\ OnePicture'
        BY <2>1 DEF Shown, Pictures, OnePicture, Shows
    <2>3. SavedIsNew' /\ CleanedIsOld'
        <3>1. CleanedIsOld'
            BY <2>1, <2>2 DEF Pictures, SavedIsNew, CleanedIsOld
        <3>2. \A q \in Requests : request'[q].phase = "SAVED" => q # r /\ request'[q] = request[q]
            BY <2>1
        <3>3. \A q \in Requests : request'[q].phase # "IDLE" =>
                  request[q].phase # "IDLE" /\ request'[q].file = request[q].file
            BY <2>1
        <3>4. SavedIsNew'
            BY <2>1, <2>2, <3>2, <3>3 DEF Pictures, SavedIsNew
        <3>5. QED
            BY <3>1, <3>4
    <2>4. Drawn' /\ ShownPicturesServe' /\ LeftoversExplained'
        BY <2>1, <2>2 DEF Pictures, Drawn, ShownPicturesServe, LeftoversExplained
    <2>5. QED
        BY <2>2, <2>3, <2>4 DEF Pictures
<1>2. CASE CleanUp(r)
    <2>1. /\ request[r].phase = "CLEANING" /\ request[r].file \in Files
          /\ request'[r].phase = "IDLE"
          /\ \A q \in Requests : q # r => request'[q] = request[q]
          /\ disk'[request[r].file] = NoFile
          /\ \A x \in Files : x # request[r].file => disk'[x] = disk[x]
          /\ UNCHANGED <<profile, used, left, lost>>
        BY <1>2 DEF CleanUp, Busy, Idle
    <2>2. Shown' = Shown /\ OnePicture'
        BY <2>1 DEF Shown, Pictures, OnePicture, Shows
    <2>3. SavedIsNew' /\ CleanedIsOld'
        BY <2>1, <2>2 DEF Pictures, SavedIsNew, CleanedIsOld, Busy
    <2>4. Drawn'
        BY <2>1, <2>2 DEF Pictures, Drawn
    <2>5. ShownPicturesServe'
        BY <2>1, <2>2 DEF Pictures, ShownPicturesServe, CleanedIsOld, Shown
    <2>6. LeftoversExplained'
        BY <2>1, <2>2 DEF Pictures, LeftoversExplained
    <2>7. QED
        BY <2>2, <2>3, <2>4, <2>5, <2>6 DEF Pictures
<1>3. CASE GiveUp(r)
    <2>1. /\ request'[r].phase = "IDLE" /\ request'[r].file = NoFile
          /\ \A q \in Requests : q # r => request'[q] = request[q]
          /\ left' = left \cup {request[r].file}
          /\ UNCHANGED <<profile, disk, used, lost>>
        BY <1>3 DEF GiveUp, Idle
    <2>2. Shown' = Shown /\ OnePicture'
        BY <2>1 DEF Shown, Pictures, OnePicture, Shows
    <2>3. SavedIsNew' /\ CleanedIsOld'
        BY <2>1, <2>2 DEF Pictures, SavedIsNew, CleanedIsOld
    <2>4. Drawn' /\ ShownPicturesServe'
        BY <2>1, <2>2 DEF Pictures, Drawn, ShownPicturesServe
    <2>5. LeftoversExplained'
        BY <2>1, <2>2 DEF Pictures, LeftoversExplained
    <2>6. QED
        BY <2>2, <2>3, <2>4, <2>5 DEF Pictures
<1>4. QED
    BY <1>1, <1>2, <1>3

LEMMA CrashStep ==
    ASSUME TypeInv, Pictures, Crash
    PROVE  Pictures'
<1>1. /\ \A r \in Requests : request'[r].phase = "IDLE"
      /\ \A r \in Requests : request[r] # Idle => request[r].file \in left'
      /\ left \subseteq left'
      /\ UNCHANGED <<profile, disk, used, lost>>
    BY DEF Crash, Idle
<1>2. Shown' = Shown /\ OnePicture'
    BY <1>1 DEF Shown, Pictures, OnePicture, Shows
<1>3. Drawn' /\ ShownPicturesServe' /\ SavedIsNew' /\ CleanedIsOld'
    BY <1>1, <1>2 DEF Pictures, Drawn, ShownPicturesServe, SavedIsNew, CleanedIsOld
<1>4. LeftoversExplained'
    BY <1>1, <1>2, FilesAssumption DEF Pictures, LeftoversExplained, Idle
<1>5. QED
    BY <1>2, <1>3, <1>4 DEF Pictures

(* The new picture is shown and the previous one no longer is.               *)
LEMMA PictureReplaced ==
    ASSUME TypeInv, Pictures, NEW p \in Players, NEW k \in Kinds, NEW url \in Files \cup {NoFile},
           url \notin Shown, UpdateMediaForAccount(p, k, url)
    PROVE  /\ Shown' = (Shown \ {Shows(p, k)}) \cup ({url} \cap Files)
           /\ OnePicture'
<1>1. \A q \in Players, j \in Kinds :
          Shows(q, j)' = IF q = p /\ j = k THEN url ELSE Shows(q, j)
    BY MediaShows
<1>2. OnePicture
    BY DEF Pictures
<1>3. Shown' \subseteq (Shown \ {Shows(p, k)}) \cup ({url} \cap Files)
    <2> SUFFICES ASSUME NEW f \in Shown' PROVE f \in (Shown \ {Shows(p, k)}) \cup ({url} \cap Files)
        OBVIOUS
    <2>1. f \in Files /\ \E q \in Players, j \in Kinds : Shows(q, j)' = f
        BY DEF Shown, Shows
    <2>2. PICK q \in Players, j \in Kinds : Shows(q, j)' = f
        BY <2>1
    <2>3. CASE q = p /\ j = k
        BY <1>1, <2>1, <2>2, <2>3
    <2>4. CASE ~(q = p /\ j = k)
        <3>1. Shows(q, j) = f
            BY <1>1, <2>2, <2>4
        <3>2. f # Shows(p, k)
            BY <1>2, <2>1, <2>4, <3>1 DEF OnePicture
        <3>3. QED
            BY <2>1, <3>1, <3>2, ShownMeaning
    <2>5. QED
        BY <2>3, <2>4
<1>4. (Shown \ {Shows(p, k)}) \cup ({url} \cap Files) \subseteq Shown'
    <2>1. ASSUME NEW f \in Shown, f # Shows(p, k) PROVE f \in Shown'
        <3>1. f \in Files
            BY ShownMeaning
        <3>2. PICK q \in Players, j \in Kinds : Shows(q, j) = f
            BY ShownMeaning
        <3>3. Shows(q, j)' = f
            BY <1>1, <2>1, <3>2
        <3>4. QED
            BY <3>1, <3>3 DEF Shown, Shows
    <2>2. ASSUME url \in Files PROVE url \in Shown'
        <3>1. Shows(p, k)' = url
            BY <1>1
        <3>2. QED
            BY <2>2, <3>1 DEF Shown, Shows
    <2>3. QED
        BY <2>1, <2>2
<1>5. OnePicture'
    <2> SUFFICES ASSUME NEW q \in Players, NEW o \in Players, NEW j \in Kinds, NEW i \in Kinds,
                        Shows(q, j)' \in Files, Shows(q, j)' = Shows(o, i)'
                 PROVE  q = o /\ j = i
        BY DEF OnePicture
    <2>1. \A x \in Players, y \in Kinds : Shows(x, y) \in Files => Shows(x, y) # url
        BY ShownMeaning
    <2>2. CASE q = p /\ j = k
        BY <1>1, <2>1, <2>2
    <2>3. CASE o = p /\ i = k
        BY <1>1, <2>1, <2>3
    <2>4. CASE ~(q = p /\ j = k) /\ ~(o = p /\ i = k)
        BY <1>1, <1>2, <2>4 DEF OnePicture
    <2>5. QED
        BY <2>2, <2>3, <2>4
<1>6. QED
    BY <1>3, <1>4, <1>5

LEMMA PreviousFile ==
    ASSUME NEW p \in Players, NEW k \in Kinds
    PROVE  /\ ManagedFile(profile[p].media[k]) # NoFile =>
                 ManagedFile(profile[p].media[k]) = Shows(p, k) /\ Shows(p, k) \in Shown
           /\ Shows(p, k) \in Files => ManagedFile(profile[p].media[k]) = Shows(p, k)
BY ShownMeaning DEF ManagedFile, Shows

LEMMA RecordStep ==
    ASSUME TypeInv, Pictures, NEW r \in Requests, RecordUpload(r)
    PROVE  Pictures'
<1> DEFINE f == request[r].file
           p == request[r].player
           k == request[r].kind
           old == ManagedFile(profile[p].media[k])
<1>1. f \in Files /\ p \in Players /\ k \in Kinds /\ request[r].phase = "SAVED"
    BY DEF RecordUpload, TypeInv, Busy
<1>2. /\ f \notin Shown \cup lost /\ f \in used /\ disk[f] # NoFile /\ Accepted(disk[f])
      /\ \A q \in Requests \ {r} : request[q].phase # "IDLE" => request[q].file # f
    BY <1>1 DEF Pictures, SavedIsNew, Drawn
<1>3. Shown' = (Shown \ {Shows(p, k)}) \cup {f} /\ OnePicture'
    BY <1>1, <1>2, PictureReplaced DEF RecordUpload
<1>4. /\ request'[r] = Cleaning(old)
      /\ \A q \in Requests : q # r => request'[q] = request[q]
      /\ UNCHANGED <<disk, used, left, lost>>
    BY DEF RecordUpload, TypeInv, TypeOK
<1>5. /\ request'[r].phase \in {"IDLE", "CLEANING"}
      /\ request'[r].phase = "CLEANING" =>
            request'[r].file = old /\ old \in Shown /\ old = Shows(p, k) /\ old # f
      /\ Shows(p, k) \in Files => request'[r].file = Shows(p, k)
    BY <1>1, <1>2, <1>4, PreviousFile, ManagedTyped, CleaningTyped, FilesAssumption
<1> HIDE DEF f, p, k, old
<1>6. Drawn'
    BY <1>2, <1>3, <1>4, <1>5 DEF Pictures, Drawn
<1>7. SavedIsNew'
    BY <1>2, <1>3, <1>4, <1>5 DEF Pictures, SavedIsNew
<1>8. CleanedIsOld'
    BY <1>2, <1>3, <1>4, <1>5 DEF Pictures, CleanedIsOld
<1>9. ShownPicturesServe'
    BY <1>2, <1>3, <1>4 DEF Pictures, ShownPicturesServe
<1>10. LeftoversExplained'
    BY <1>1, <1>3, <1>4, <1>5 DEF Pictures, LeftoversExplained, f
<1>11. QED
    BY <1>3, <1>6, <1>7, <1>8, <1>9, <1>10 DEF Pictures

LEMMA LoseUploadStep ==
    ASSUME TypeInv, Pictures, NEW r \in Requests, LoseUploadCommit(r)
    PROVE  Pictures'
<1> DEFINE f == request[r].file
           p == request[r].player
           k == request[r].kind
           old == ManagedFile(profile[p].media[k])
<1>1. f \in Files /\ p \in Players /\ k \in Kinds /\ request[r].phase = "SAVED"
    BY DEF LoseUploadCommit, TypeInv, Busy
<1>2. /\ f \notin Shown \cup lost /\ f \in used
      /\ \A q \in Requests \ {r} : request[q].phase # "IDLE" => request[q].file # f
    BY <1>1 DEF Pictures, SavedIsNew, Drawn
<1>3. Shown' = (Shown \ {Shows(p, k)}) \cup {f} /\ OnePicture'
    BY <1>1, <1>2, PictureReplaced DEF LoseUploadCommit
<1>4. /\ request'[r] = Cleaning(f)
      /\ \A q \in Requests : q # r => request'[q] = request[q]
      /\ left' = left \cup ({old} \ {NoFile}) /\ lost' = lost \cup {f}
      /\ UNCHANGED <<disk, used>>
    BY DEF LoseUploadCommit, TypeInv, TypeOK
<1>5. /\ request'[r].phase = "CLEANING" /\ request'[r].file = f
      /\ Shows(p, k) \in Files => Shows(p, k) \in left'
    BY <1>1, <1>4, PreviousFile, CleaningTyped, FilesAssumption
<1> HIDE DEF f, p, k, old
<1>6. Drawn'
    BY <1>2, <1>3, <1>4, <1>5 DEF Pictures, Drawn
<1>7. SavedIsNew'
    BY <1>2, <1>3, <1>4, <1>5 DEF Pictures, SavedIsNew
<1>8. CleanedIsOld'
    BY <1>2, <1>3, <1>4, <1>5 DEF Pictures, CleanedIsOld
<1>9. ShownPicturesServe'
    BY <1>2, <1>3, <1>4 DEF Pictures, ShownPicturesServe
<1>10. LeftoversExplained'
    BY <1>1, <1>3, <1>4, <1>5 DEF Pictures, LeftoversExplained, f
<1>11. QED
    BY <1>3, <1>6, <1>7, <1>8, <1>9, <1>10 DEF Pictures

(* A removal, with its answer or without. *)
LEMMA RemovalStep ==
    ASSUME TypeInv, Pictures, NEW p \in Players, NEW k \in Kinds,
           LoseRemovalCommit(p, k) \/ \E r \in Requests : Remove(r, p, k)
    PROVE  Pictures'
<1> DEFINE old == ManagedFile(profile[p].media[k])
<1>1. NoFile \notin Shown /\ {NoFile} \cap Files = {}
    BY FilesAssumption, ShownMeaning
<1>2. Shown' = Shown \ {Shows(p, k)} /\ OnePicture'
    BY <1>1, PictureReplaced DEF LoseRemovalCommit, Remove, RemoveMedia
<1>3. ShownPicturesServe' /\ (\A f : f \in Shown' => f \in Shown /\ f # Shows(p, k))
    BY <1>2 DEF Pictures, ShownPicturesServe, LoseRemovalCommit, Remove
<1>4. CASE LoseRemovalCommit(p, k)
    <2>1. /\ left' = left \cup ({old} \ {NoFile}) /\ UNCHANGED <<disk, request, used, lost>>
          /\ Shows(p, k) \in Files => Shows(p, k) \in left'
        BY <1>4, PreviousFile, FilesAssumption DEF LoseRemovalCommit
    <2> HIDE DEF old
    <2>2. Drawn' /\ SavedIsNew' /\ CleanedIsOld'
        BY <1>3, <2>1 DEF Pictures, Drawn, SavedIsNew, CleanedIsOld
    <2>3. LeftoversExplained'
        BY <1>2, <2>1 DEF Pictures, LeftoversExplained
    <2>4. QED
        BY <1>2, <1>3, <2>2, <2>3 DEF Pictures
<1>5. ASSUME NEW r \in Requests, Remove(r, p, k) PROVE Pictures'
    <2>1. /\ request[r] = Idle /\ request'[r] = Cleaning(old)
          /\ \A q \in Requests : q # r => request'[q] = request[q]
          /\ UNCHANGED <<disk, used, left, lost>>
        BY <1>5 DEF Remove, RemoveMedia, TypeInv, TypeOK
    <2>2. /\ request'[r].phase \in {"IDLE", "CLEANING"}
          /\ request'[r].phase = "CLEANING" =>
                request'[r].file = old /\ old \in Shown /\ old = Shows(p, k)
          /\ Shows(p, k) \in Files => request'[r].file = Shows(p, k)
        BY <2>1, PreviousFile, ManagedTyped, CleaningTyped, FilesAssumption
    <2>3. request[r].file \notin Files
        BY <2>1, FilesAssumption DEF Idle
    <2> HIDE DEF old
    <2>4. Drawn'
        BY <1>3, <2>1, <2>2 DEF Pictures, Drawn
    <2>5. SavedIsNew'
        <3>1. \A q \in Requests : request'[q].phase = "SAVED" => q # r /\ request'[q] = request[q]
            BY <2>1, <2>2
        <3>2. \A q \in Requests : request[q].phase = "SAVED" => request[q].file # Shows(p, k) \/ Shows(p, k) \notin Shown
            BY DEF Pictures, SavedIsNew
        <3>3. QED
            BY <1>3, <2>1, <2>2, <3>1, <3>2 DEF Pictures, SavedIsNew
    <2>6. CleanedIsOld'
        BY <1>3, <2>1, <2>2 DEF Pictures, CleanedIsOld
    <2>7. LeftoversExplained'
        BY <1>2, <2>1, <2>2, <2>3 DEF Pictures, LeftoversExplained
    <2>8. QED
        BY <1>2, <1>3, <2>4, <2>5, <2>6, <2>7 DEF Pictures
<1>6. QED
    BY <1>4, <1>5

LEMMA PicturesStep == TypeInv /\ Pictures /\ [Next]_vars => Pictures'
<1> SUFFICES ASSUME TypeInv, Pictures, [Next]_vars PROVE Pictures'
    OBVIOUS
<1>1. CASE UNCHANGED vars
    BY <1>1, SamePictures DEF vars, Shows
<1>2. ASSUME NEW p \in Players, SetStatus(p) PROVE Pictures'
    BY <1>2, SamePictures DEF SetStatus, Shows
<1>3. ASSUME NEW p \in Players, GetMe(p) PROVE Pictures'
    BY <1>3, TextsShow, SamePictures DEF GetMe
<1>4. ASSUME NEW p \in Players, NEW slug \in Slugs \cup {Unchanged},
             NEW public \in {"private", "public", Unchanged}, UpdateMe(p, slug, public)
      PROVE  Pictures'
    <2>1. \A q \in Players, j \in Kinds : Shows(q, j)' = Shows(q, j)
        BY <1>4, TextsShow
    <2>2. QED
        BY <1>4, <2>1, SamePictures DEF UpdateMe
<1>5. QED
    BY <1>1, <1>2, <1>3, <1>4, UploadStep, LetGoStep, CrashStep, RecordStep, LoseUploadStep, RemovalStep
    DEF Next

(* Whatever overlaps and wherever the process dies, a row names a file that  *)
(* is there and holds an accepted image, unless the commit was reported as   *)
(* an error.                                                                 *)
THEOREM PicturesServe == Spec => []ShownPicturesServe
<1>1. Pictures => ShownPicturesServe
    BY DEF Pictures
<1>2. QED
    BY InitTyped, TypeStep, InitPictures, PicturesStep, <1>1, PTL DEF Spec

(* A file that no row names is about to be removed, or a fault explains it.  *)
THEOREM LeftoversAccounted == Spec => []LeftoversExplained
<1>1. Pictures => LeftoversExplained
    BY DEF Pictures
<1>2. QED
    BY InitTyped, TypeStep, InitPictures, PicturesStep, <1>1, PTL DEF Spec

=============================================================================
