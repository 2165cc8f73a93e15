------------------------------- MODULE Gallery -------------------------------
(***************************************************************************)
(* The photos of a property: the workbench tabs that upload, reorder and   *)
(* remove them, the whole-set PATCH with its checks, the tenant's gallery  *)
(* cap, the guarded delete of the property, and the daily sweep of the     *)
(* object store.                                                           *)
(*                                                                         *)
(* Two stores with no transaction between them: the gallery (property      *)
(* .photos) and the objects.  A PATCH reads, asks the store and writes in  *)
(* three steps; a sweep reads the gallery, lists the store, strips and     *)
(* deletes in four.  The order of the photos is left out.                  *)
(***************************************************************************)
EXTENDS Naturals, FiniteSets, FiniteSetsExt

CONSTANTS
  Tabs,       \* browser tabs whose steps are followed; others save between them
  Keys,       \* object keys that presign may mint
  Caps,       \* values that the owner may set as the gallery cap
  MaxFaults   \* bound on failed calls, crashes and oversize or junk uploads

\* A key ends in a UUID: there are finitely many.
ASSUME GalleryAssumption ==
  Caps \subseteq Nat /\ Caps # {} /\ MaxFaults \in Nat /\ IsFiniteSet(Keys)

VARIABLES
  exists,     \* the row of the property
  gallery,    \* property.photos
  cap,        \* tenant.gallery_cap
  object,     \* the object store: none, or an object and its age
  oversize,   \* objects over MAX_PHOTO_SIZE_BYTES, which a backend let past
  junk,       \* objects that are no image
  tab,        \* each tab, and the request it waits for
  sweep,      \* the sweep under way
  faults,
  allowed,    \* history: the largest cap so far
  exposed     \* history: photos that a PATCH links while a sweep condemns them

vars == <<exists, gallery, cap, object, oversize, junk, tab, sweep, faults, allowed, exposed>>

photoVars == <<exists, gallery, cap, object, oversize, junk>>

-----------------------------------------------------------------------------
Open == [at |-> "open", key |-> {}, next |-> {}, existing |-> {}]

Idle == [at |-> "idle", referenced |-> {}, orphans |-> {}, oversize |-> {}]

TypeOK ==
  /\ exists \in BOOLEAN
  /\ gallery \subseteq Keys
  /\ cap \in Caps
  /\ object \in [Keys -> {"none", "fresh", "old"}]
  /\ oversize \subseteq Keys /\ junk \subseteq Keys
  /\ tab \in [Tabs -> [at: {"open", "putting", "saving", "capping", "checking", "writing"},
                       key: SUBSET Keys, next: SUBSET Keys, existing: SUBSET Keys]]
  /\ sweep \in [at: {"idle", "listing", "stripping", "deleting"}, referenced: SUBSET Keys,
                orphans: SUBSET Keys, oversize: SUBSET Keys]
  /\ faults \in 0 .. MaxFaults
  /\ allowed \in Caps
  /\ exposed \subseteq Keys

Stored == {k \in Keys : object[k] # "none"}

\* Keys that something still knows.  Any other stands for a UUID never minted before.
Known ==
  Stored \cup gallery \cup sweep.referenced \cup sweep.orphans \cup sweep.oversize
  \cup UNION {tab[t].key \cup tab[t].next \cup tab[t].existing : t \in Tabs}

-----------------------------------------------------------------------------
Init ==
  /\ exists = TRUE
  /\ cap \in Caps
  /\ \E ks \in SUBSET Keys :
       /\ Cardinality(ks) \leq cap
       /\ gallery = ks
       /\ object = [k \in Keys |-> IF k \in ks THEN "old" ELSE "none"]
  /\ oversize = {} /\ junk = {}
  /\ tab = [t \in Tabs |-> Open]
  /\ sweep = Idle
  /\ faults = 0
  /\ allowed = cap
  /\ exposed = {}

-----------------------------------------------------------------------------
(* The workbench tab.                                                       *)

\* handleFiles, one file at a time: it is presigned, unless the property is gone, to be
\* added to the photos that the tab shows.  Those may be long out of date; and the cap
\* that the tab has fetched, which may turn a file away first, is only a courtesy.
Presign(t, k, shown) ==
  /\ tab[t].at = "open" /\ exists
  /\ k \notin Known \cup shown
  /\ tab' = [tab EXCEPT ![t] = [Open EXCEPT !.at = "putting", !.key = {k}, !.next = shown \cup {k}]]
  /\ exposed' = exposed \ {k}
  /\ UNCHANGED <<photoVars, sweep, faults, allowed>>

\* move and remove: the whole set that the tab shows, or all but one.
Rearrange(t, photos) ==
  /\ tab[t].at = "open"
  /\ tab' = [tab EXCEPT ![t] = [Open EXCEPT !.at = "saving", !.next = photos]]
  /\ UNCHANGED <<photoVars, sweep, faults, allowed, exposed>>

\* uploadToPresignedUrl: the bytes arrive; a backend that does not enforce what was
\* signed takes too many of them, and nothing has looked whether they are an image.
\* Then savePhotos sends the whole set, with the new key.
Put(t) ==
  /\ tab[t].at = "putting"
  /\ object' = [k \in Keys |-> IF k \in tab[t].key THEN "fresh" ELSE object[k]]
  /\ \/ UNCHANGED <<oversize, junk, faults>>
     \/ /\ faults < MaxFaults /\ faults' = faults + 1
        /\ \/ oversize' = oversize \cup tab[t].key /\ UNCHANGED junk
           \/ junk' = junk \cup tab[t].key /\ UNCHANGED oversize
  /\ tab' = [tab EXCEPT ![t].at = "saving", ![t].key = {}]
  /\ UNCHANGED <<exists, gallery, cap, sweep, allowed, exposed>>

\* The answer of a PATCH, or of a PUT that failed: the tab paints the photos that it
\* brings, or those from before it again, and a file that failed is given up.
Answered(t) == tab' = [tab EXCEPT ![t] = Open]

\* The PUT fails, with or without the bytes in the store.
PutFails(t) ==
  /\ tab[t].at = "putting"
  /\ faults < MaxFaults /\ faults' = faults + 1
  /\ \E arrived \in BOOLEAN :
       object' = [k \in Keys |-> IF k \in tab[t].key /\ arrived THEN "fresh" ELSE object[k]]
  /\ Answered(t)
  /\ UNCHANGED <<exists, gallery, cap, oversize, junk, sweep, allowed, exposed>>

-----------------------------------------------------------------------------
(* PropertiesService.updatePhotos                                           *)

\* getOwnedOrThrow
ReadExisting(t) ==
  /\ tab[t].at = "saving"
  /\ IF exists
     THEN tab' = [tab EXCEPT ![t].at = "capping", ![t].existing = gallery]
     ELSE Answered(t)
  /\ UNCHANGED <<photoVars, sweep, faults, allowed, exposed>>

\* Mutant: the cap is left to the tab.
Unbounded(next, existing) == TRUE

\* galleryCap: a PATCH may not grow the gallery it has read past the cap.
WithinCap(next, existing) ==
  \/ Cardinality(next) \leq cap
  \/ Cardinality(next) \leq Cardinality(existing)

CheckCap(t) ==
  /\ tab[t].at = "capping"
  /\ IF WithinCap(tab[t].next, tab[t].existing)
     THEN tab' = [tab EXCEPT ![t].at = "checking", ![t].existing = @ \cap tab[t].next]
     ELSE Answered(t)
  /\ UNCHANGED <<photoVars, sweep, faults, allowed, exposed>>

\* Mutant: an object that is not found is taken for one that is no worse.
NotJunk(k) == k \notin junk

\* isValidPhotoObject
IsValidPhotoObject(k) == object[k] # "none" /\ k \notin junk

\* Keys that the gallery did not have must be images in the store.
CheckObjects(t) ==
  /\ tab[t].at = "checking"
  /\ IF \A k \in tab[t].next \ tab[t].existing : IsValidPhotoObject(k)
     THEN tab' = [tab EXCEPT ![t].at = "writing"]
     ELSE Answered(t)
  /\ UNCHANGED <<photoVars, sweep, faults, allowed, exposed>>

\* PropertiesRepository.update.  A photo that a sweep under way has read as old
\* and unreferenced, or will find oversize, is exposed to it.
Link(photos) ==
  /\ gallery' = photos
  /\ exposed' = IF sweep.at = "idle" THEN exposed
                ELSE exposed \cup ((photos \ gallery) \cap (sweep.orphans \cup oversize))

\* The update, for a property that is still there, and the tab paints the answer.
Write(t) ==
  /\ tab[t].at = "writing"
  /\ IF exists THEN Link(tab[t].next) ELSE UNCHANGED <<gallery, exposed>>
  /\ Answered(t)
  /\ UNCHANGED <<exists, cap, object, oversize, junk, sweep, faults, allowed>>

\* A whole PATCH from elsewhere, with any set of keys, between two steps of the tabs.
PatchElsewhere(photos) ==
  /\ exists /\ photos # gallery /\ WithinCap(photos, gallery)
  /\ \A k \in photos \ gallery : IsValidPhotoObject(k)
  /\ Link(photos)
  /\ UNCHANGED <<exists, cap, object, oversize, junk, tab, sweep, faults, allowed>>

\* The API or the connection fails in the middle of a PATCH.
PatchFails(t) ==
  /\ tab[t].at \in {"saving", "capping", "checking", "writing"}
  /\ faults < MaxFaults /\ faults' = faults + 1
  /\ Answered(t)
  /\ UNCHANGED <<photoVars, sweep, allowed, exposed>>

-----------------------------------------------------------------------------
\* SettingsService.update: lowering the cap touches no photo.
SetGalleryCap(c) ==
  /\ c # cap /\ cap' = c
  /\ allowed' = Max({allowed, c})
  /\ UNCHANGED <<exists, gallery, object, oversize, junk, tab, sweep, faults, exposed>>

\* The guarded delete of a property that was never booked.
RemoveProperty ==
  /\ exists
  /\ exists' = FALSE /\ gallery' = {}
  /\ UNCHANGED <<cap, object, oversize, junk, tab, sweep, faults, allowed, exposed>>

\* PHOTO_GC_GRACE_MS pass.
Age(k) ==
  /\ object[k] = "fresh"
  /\ object' = [object EXCEPT ![k] = "old"]
  /\ UNCHANGED <<exists, gallery, cap, oversize, junk, tab, sweep, faults, allowed, exposed>>

-----------------------------------------------------------------------------
(* PhotoGcSweeperService.sweep                                              *)

\* Mutant: the sweep goes from property to property.
OldOfLiveProperty == {k \in Stored \ gallery : object[k] = "old" /\ exists}

\* isOld, by the clock of the start of the sweep, and in no gallery.
OldAndUnreferenced == {k \in Stored \ gallery : object[k] = "old"}

\* referencedKeys
SweepRead ==
  /\ sweep.at = "idle"
  /\ sweep' = [Idle EXCEPT !.at = "listing", !.referenced = gallery, !.orphans = OldAndUnreferenced]
  /\ UNCHANGED <<photoVars, tab, faults, allowed, exposed>>

\* Mutant: the size of an object in a gallery is forgiven.
OversizeOrphans == (Stored \cap oversize) \ sweep.referenced

\* The size backstop: no grace, and it does not ask who refers to the object.
OversizeObjects == Stored \cap oversize

\* listObjects, tenant by tenant.
SweepList ==
  /\ sweep.at = "listing"
  /\ sweep' = [at |-> "stripping", referenced |-> sweep.referenced \cap OversizeObjects,
               orphans |-> (sweep.orphans \cap Stored) \ oversize, oversize |-> OversizeObjects]
  /\ UNCHANGED <<photoVars, tab, faults, allowed, exposed>>

\* stripFromGallery, key by key, for what the sweep has read as referenced.
SweepStrip ==
  /\ sweep.at = "stripping"
  /\ \/ /\ sweep.referenced = {}
        /\ sweep' = [sweep EXCEPT !.at = "deleting"]
        /\ UNCHANGED gallery
     \/ \E k \in sweep.referenced :
          /\ sweep' = [sweep EXCEPT !.referenced = sweep.referenced \ {k}]
          /\ gallery' = gallery \ {k}
  /\ UNCHANGED <<exists, cap, object, oversize, junk, tab, faults, allowed, exposed>>

Patching(t) == tab[t].at \in {"capping", "checking", "writing"}

\* deleteObjects: what a PATCH under way is about to link is exposed.
SweepDelete ==
  LET gone == sweep.oversize \cup sweep.orphans
  IN /\ sweep.at = "deleting"
     /\ object' = [k \in Keys |-> IF k \in gone THEN "none" ELSE object[k]]
     /\ oversize' = oversize \ gone /\ junk' = junk \ gone
     /\ sweep' = Idle
     /\ exposed' = exposed \cup (gone \cap UNION {tab[t].next : t \in {s \in Tabs : Patching(s)}})
     /\ UNCHANGED <<exists, gallery, cap, tab, faults, allowed>>

\* The store or the process fails; the next sweep derives everything again.
SweepFails ==
  /\ sweep.at # "idle"
  /\ faults < MaxFaults /\ faults' = faults + 1
  /\ sweep' = Idle
  /\ UNCHANGED <<photoVars, tab, allowed, exposed>>

-----------------------------------------------------------------------------
SweepStep == SweepRead \/ SweepList \/ SweepStrip \/ SweepDelete

TabStep(t) ==
  \/ Put(t) \/ PutFails(t)
  \/ ReadExisting(t) \/ CheckCap(t) \/ CheckObjects(t) \/ Write(t) \/ PatchFails(t)
  \/ \E shown \in SUBSET Keys : Rearrange(t, shown) \/ \E k \in Keys : Presign(t, k, shown)

Next ==
  \/ \E t \in Tabs : TabStep(t)
  \/ \E photos \in SUBSET Keys : PatchElsewhere(photos)
  \/ \E c \in Caps : SetGalleryCap(c)
  \/ RemoveProperty
  \/ \E k \in Keys : Age(k)
  \/ SweepStep \/ SweepFails

\* The cron comes every day and its sweep goes on; time passes.
Fairness == WF_vars(SweepStep) /\ \A k \in Keys : WF_vars(Age(k))

Spec == Init /\ [][Next]_vars

FairSpec == Spec /\ Fairness

-----------------------------------------------------------------------------
Broken == {k \in gallery : object[k] = "none"}

\* "A key in here is NEVER deleted": the one way to a photo without an object is to
\* link it while a sweep is under way that condemns it, so neither
\* an upload within the grace window nor a photo that stays in its gallery is lost.
OnlyTheGapBreaks == Broken \subseteq exposed

\* Tabs that overwrite each other's set and caps that are lowered under them never
\* bring more photos together than some cap has allowed.
NeverOverEveryCap == Cardinality(gallery) \leq allowed

\* Abandoned uploads, removed photos and the photos of a deleted property are
\* reclaimed, if they are not linked again.
OrphansAreReclaimed ==
  \A k \in Keys : (k \in Stored \ gallery) ~> (k \in gallery \/ k \notin Stored)

\* An oversize object goes, in a gallery or not.
OversizeIsEvicted == \A k \in Keys : (k \in oversize) ~> (k \notin oversize)
=============================================================================
