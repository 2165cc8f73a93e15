---------------------------- MODULE GalleryProofs ----------------------------
(***************************************************************************)
(* Proofs about the photos of a property, for any number of tabs and keys  *)
(* and any caps.                                                           *)
(*                                                                         *)
(* GalleryProtocol is the inductive invariant: what a PATCH between its    *)
(* read, its checks and its write knows of the keys it is about to link,   *)
(* and what a sweep between its read and its delete knows of those that it *)
(* condemns.                                                               *)
(***************************************************************************)
EXTENDS Gallery, FiniteSetTheorems, TLAPS

\* A photo that has its object, or that a PATCH has linked while a sweep condemned it.
Backed(k) == object[k] # "none" \/ k \in exposed

\* A PATCH knows the keys that it keeps from the gallery it has read and, once it has
\* asked the store, all that it is about to write.
PatchesAreBacked ==
  \A t \in Tabs :
    /\ tab[t].at = "capping" => \A k \in tab[t].existing \cap tab[t].next : Backed(k)
    /\ tab[t].at = "checking" =>
         tab[t].existing \subseteq tab[t].next /\ \A k \in tab[t].existing : Backed(k)
    /\ tab[t].at = "writing" => \A k \in tab[t].next : Backed(k)

\* A key that waits for its bytes is nowhere else yet.
NewKeysAreNowhere ==
  \A t \in Tabs :
    /\ tab[t].key # {} => tab[t].at = "putting"
    /\ \A k \in tab[t].key :
         /\ object[k] = "none" /\ k \notin gallery
         /\ \A u \in Tabs : /\ k \notin tab[u].existing
                            /\ tab[u].at = "writing" => k \notin tab[u].next
                            /\ k \in tab[u].key => u = t

\* What a sweep is about to delete is in no gallery, but for what was exposed to it
\* and, until it strips them, the oversize photos that it has read there.
SweepsCondemnOrphans ==
  /\ oversize \subseteq Stored
  /\ sweep.oversize \subseteq oversize
  /\ gallery \cap sweep.orphans \subseteq exposed
  /\ sweep.at = "listing" => gallery \cap oversize \subseteq sweep.referenced \cup exposed
  /\ sweep.at = "stripping" => gallery \cap sweep.oversize \subseteq sweep.referenced \cup exposed
  /\ sweep.at \notin {"listing", "stripping"} => gallery \cap sweep.oversize \subseteq exposed
  /\ sweep.at \in {"idle", "listing"} => sweep.oversize = {}
  /\ sweep.at = "idle" => sweep.orphans = {}

\* A PATCH never brings more photos than some cap has allowed.
PatchesKeepTheCap ==
  /\ cap \leq allowed
  /\ \A t \in Tabs :
       /\ tab[t].at = "capping" => Cardinality(tab[t].existing) \leq allowed
       /\ tab[t].at \in {"checking", "writing"} => Cardinality(tab[t].next) \leq allowed

GalleryProtocol ==
  /\ TypeOK
  /\ OnlyTheGapBreaks
  /\ NeverOverEveryCap
  /\ PatchesAreBacked
  /\ NewKeysAreNowhere
  /\ SweepsCondemnOrphans
  /\ PatchesKeepTheCap
-----------------------------------------------------------------------------
\* The types of a tab and of a sweep.
TabRow ==
  [at: {"open", "putting", "saving", "capping", "checking", "writing"},
   key: SUBSET Keys, next: SUBSET Keys, existing: SUBSET Keys]

SweepRow ==
  [at: {"idle", "listing", "stripping", "deleting"}, referenced: SUBSET Keys,
   orphans: SUBSET Keys, oversize: SUBSET Keys]

LEMMA RowsAreTyped ==
  TypeOK <=> /\ exists \in BOOLEAN
             /\ gallery \in SUBSET Keys
             /\ cap \in Caps
             /\ object \in [Keys -> {"none", "fresh", "old"}]
             /\ oversize \subseteq Keys /\ junk \subseteq Keys
             /\ tab \in [Tabs -> TabRow]
             /\ sweep \in SweepRow
             /\ faults \in 0 .. MaxFaults
             /\ allowed \in Caps
             /\ exposed \subseteq Keys
BY DEF TypeOK, TabRow, SweepRow

\* The larger of two caps is a cap, and no smaller than either.
LEMMA LargerCap ==
  ASSUME NEW c \in Caps, NEW d \in Caps
  PROVE  Max({c, d}) \in Caps /\ Max({c, d}) \geq c /\ Max({c, d}) \geq d
<1>1. c \in Nat /\ d \in Nat
  BY GalleryAssumption
<1>2. \E x \in {c, d} : \A y \in {c, d} : x >= y
  <2>1. CASE c >= d
    BY <1>1, <2>1
  <2>2. CASE ~(c >= d)
    BY <1>1, <2>2
  <2> QED BY <2>1, <2>2
<1>3. Max({c, d}) \in {c, d} /\ \A y \in {c, d} : Max({c, d}) >= y
  BY <1>2 DEF Max
<1> QED BY <1>3

\* Steps of a tab leave a row of its type.
LEMMA TabRowMoves ==
  /\ Open \in TabRow
  /\ \A k \in Keys, ks \in SUBSET Keys :
       [Open EXCEPT !.at = "putting", !.key = {k}, !.next = ks] \in TabRow
  /\ \A ks \in SUBSET Keys : [Open EXCEPT !.at = "saving", !.next = ks] \in TabRow
  /\ \A r \in TabRow : [r EXCEPT !.at = "saving", !.key = {}] \in TabRow
  /\ \A r \in TabRow, ks \in SUBSET Keys :
       /\ [r EXCEPT !.at = "capping", !.existing = ks] \in TabRow
       /\ [r EXCEPT !.at = "checking", !.existing = @ \cap ks] \in TabRow
  /\ \A r \in TabRow : [r EXCEPT !.at = "writing"] \in TabRow
BY DEF TabRow, Open

\* What a step of tab t leaves of it.
TabMoved(t) ==
  /\ \A u \in Tabs : u # t => tab'[u] = tab[u]
  /\ tab'[t] \in TabRow

\* Only its own steps change a tab, one at a time, and no other step does.
LEMMA OneTabMoves ==
  ASSUME TypeOK, Next
  PROVE  tab' = tab \/ \E t \in Tabs : TabStep(t) /\ TabMoved(t)
<1> USE DEF TabMoved
<1>1. tab \in [Tabs -> TabRow] /\ gallery \in SUBSET Keys
  BY RowsAreTyped
<1>2. ASSUME NEW t \in Tabs, TabStep(t) PROVE TabMoved(t)
  <2>1. tab[t] \in TabRow /\ tab[t].next \in SUBSET Keys
    BY <1>1 DEF TabRow
  <2>2. ASSUME NEW r \in TabRow, tab' = [tab EXCEPT ![t] = r] PROVE TabMoved(t)
    BY <1>1, <2>2
  <2>3. CASE Answered(t)
    BY <2>2, <2>3, TabRowMoves DEF Answered
  <2>4. ASSUME Put(t) PROVE TabMoved(t)
    <3>1. tab' = [tab EXCEPT ![t] = [tab[t] EXCEPT !.at = "saving", !.key = {}]]
      BY <1>1, <2>1, <2>4 DEF Put
    <3> QED BY <2>1, <2>2, <3>1, TabRowMoves
  <2>5. ASSUME PutFails(t) PROVE TabMoved(t)
    BY <2>3, <2>5 DEF PutFails
  <2>6. ASSUME ReadExisting(t) PROVE TabMoved(t)
    <3>1. CASE ~exists
      BY <2>3, <2>6, <3>1 DEF ReadExisting
    <3>2. CASE exists
      <4>1. tab' = [tab EXCEPT ![t] = [tab[t] EXCEPT !.at = "capping", !.existing = gallery]]
        BY <1>1, <2>1, <2>6, <3>2 DEF ReadExisting
      <4> QED BY <1>1, <2>1, <2>2, <4>1, TabRowMoves
    <3> QED BY <3>1, <3>2
  <2>7. ASSUME CheckCap(t) PROVE TabMoved(t)
    <3>1. CASE ~WithinCap(tab[t].next, tab[t].existing)
      BY <2>3, <2>7, <3>1 DEF CheckCap
    <3>2. CASE WithinCap(tab[t].next, tab[t].existing)
      <4>1. tab' = [tab EXCEPT ![t] =
                      [tab[t] EXCEPT !.at = "checking", !.existing = @ \cap tab[t].next]]
        BY <1>1, <2>1, <2>7, <3>2 DEF CheckCap
      <4> QED BY <2>1, <2>2, <4>1, TabRowMoves
    <3> QED BY <3>1, <3>2
  <2>8. ASSUME CheckObjects(t) PROVE TabMoved(t)
    <3>1. \/ Answered(t)
          \/ tab' = [tab EXCEPT ![t] = [tab[t] EXCEPT !.at = "writing"]]
      BY <1>1, <2>1, <2>8 DEF CheckObjects
    <3> QED BY <2>1, <2>2, <2>3, <3>1, TabRowMoves
  <2>9. ASSUME Write(t) \/ PatchFails(t) PROVE TabMoved(t)
    BY <2>3, <2>9 DEF Write, PatchFails
  <2>10. ASSUME NEW shown \in SUBSET Keys, Rearrange(t, shown) PROVE TabMoved(t)
    BY <2>2, <2>10, TabRowMoves DEF Rearrange
  <2>11. ASSUME NEW shown \in SUBSET Keys, NEW k \in Keys, Presign(t, k, shown)
         PROVE  TabMoved(t)
    <3>1. shown \cup {k} \in SUBSET Keys
      OBVIOUS
    <3> QED BY <2>2, <2>11, <3>1, TabRowMoves DEF Presign
  <2> QED BY <1>2, <2>4, <2>5, <2>6, <2>7, <2>8, <2>9, <2>10, <2>11 DEF TabStep
<1>3. ASSUME \A t \in Tabs : ~TabStep(t) PROVE tab' = tab
  BY <1>3
     DEF Next, PatchElsewhere, SetGalleryCap, RemoveProperty, Age, SweepStep, SweepRead,
         SweepList, SweepStrip, SweepDelete, SweepFails, photoVars
<1> QED BY <1>2, <1>3

\* Every step keeps the types.
LEMMA StepsAreTyped ==
  ASSUME TypeOK, Next
  PROVE  TypeOK'
<1>1. /\ exists \in BOOLEAN /\ gallery \in SUBSET Keys
      /\ cap \in Caps /\ allowed \in Caps
      /\ object \in [Keys -> {"none", "fresh", "old"}]
      /\ oversize \subseteq Keys /\ junk \subseteq Keys
      /\ tab \in [Tabs -> TabRow] /\ sweep \in SweepRow
      /\ faults \in 0 .. MaxFaults /\ exposed \subseteq Keys
  BY RowsAreTyped
<1>2. MaxFaults \in Nat
  BY GalleryAssumption
<1>3. tab' \in [Tabs -> TabRow]
  <2>1. CASE tab' = tab
    BY <1>1, <2>1
  <2>2. ASSUME NEW t \in Tabs, TabStep(t), TabMoved(t) PROVE tab' \in [Tabs -> TabRow]
    <3>1. \E r \in TabRow : tab' = [tab EXCEPT ![t] = r]
      <4>1. \/ \E r : tab' = [tab EXCEPT ![t] = r]
            \/ \E a, b : tab' = [tab EXCEPT ![t].at = a, ![t].key = b]
            \/ \E a, b : tab' = [tab EXCEPT ![t].at = a, ![t].existing = b]
            \/ \E a : tab' = [tab EXCEPT ![t].at = a]
            \/ \E a, b : tab' = [tab EXCEPT ![t].at = a, ![t].existing = @ \cap b]
        BY <2>2 DEF TabStep, Put, PutFails, ReadExisting, CheckCap, CheckObjects, Write,
                    PatchFails, Rearrange, Presign, Answered
      <4>2. \E r : tab' = [tab EXCEPT ![t] = r]
        BY <1>1, <4>1
      <4>3. PICK r : tab' = [tab EXCEPT ![t] = r]
        BY <4>2
      <4>4. r = tab'[t]
        BY <1>1, <4>3
      <4> QED BY <2>2, <4>3, <4>4 DEF TabMoved
    <3> QED BY <1>1, <3>1
  <2> QED BY <2>1, <2>2, OneTabMoves
<1>4. object' \in [Keys -> {"none", "fresh", "old"}]
  BY <1>1 DEF Next, TabStep, Put, PutFails, ReadExisting, CheckCap, CheckObjects, Write,
              PatchFails, Rearrange, Presign, photoVars, PatchElsewhere, SetGalleryCap,
              RemoveProperty, Age, SweepStep, SweepRead, SweepList, SweepStrip, SweepDelete,
              SweepFails
<1>5. cap' \in Caps /\ allowed' \in Caps
  BY <1>1, LargerCap
     DEF Next, TabStep, Put, PutFails, ReadExisting, CheckCap, CheckObjects, Write,
              PatchFails, Rearrange, Presign, photoVars, PatchElsewhere, SetGalleryCap,
              RemoveProperty, Age, SweepStep, SweepRead, SweepList, SweepStrip, SweepDelete,
              SweepFails
<1>6. exists' \in BOOLEAN /\ faults' \in 0 .. MaxFaults
  <2>1. exists' = exists \/ exists' = FALSE
    BY DEF Next, TabStep, Put, PutFails, ReadExisting, CheckCap, CheckObjects, Write,
              PatchFails, Rearrange, Presign, photoVars, PatchElsewhere, SetGalleryCap,
              RemoveProperty, Age, SweepStep, SweepRead, SweepList, SweepStrip, SweepDelete,
              SweepFails
  <2>2. faults' = faults \/ (faults < MaxFaults /\ faults' = faults + 1)
    BY DEF Next, TabStep, Put, PutFails, ReadExisting, CheckCap, CheckObjects, Write,
              PatchFails, Rearrange, Presign, photoVars, PatchElsewhere, SetGalleryCap,
              RemoveProperty, Age, SweepStep, SweepRead, SweepList, SweepStrip, SweepDelete,
              SweepFails
  <2>3. exists' \in BOOLEAN
    BY <1>1, <2>1
  <2>4. faults' \in 0 .. MaxFaults
    BY <1>1, <1>2, <2>2
  <2> QED BY <2>3, <2>4
<1>7. \A t \in Tabs : tab[t].key \subseteq Keys /\ tab[t].next \subseteq Keys
  BY <1>1 DEF TabRow
<1>8. oversize' \subseteq Keys /\ junk' \subseteq Keys
  BY <1>1, <1>7
     DEF Next, TabStep, Put, PutFails, ReadExisting, CheckCap, CheckObjects, Write,
              PatchFails, Rearrange, Presign, photoVars, PatchElsewhere, SetGalleryCap,
              RemoveProperty, Age, SweepStep, SweepRead, SweepList, SweepStrip, SweepDelete,
              SweepFails
<1>9. gallery' \in SUBSET Keys
  BY <1>1, <1>7
     DEF Next, TabStep, Put, PutFails, ReadExisting, CheckCap, CheckObjects, Write, Link,
              PatchFails, Rearrange, Presign, photoVars, PatchElsewhere, SetGalleryCap,
              RemoveProperty, Age, SweepStep, SweepRead, SweepList, SweepStrip, SweepDelete,
              SweepFails
<1>10. sweep' \in SweepRow
  <2>1. CASE sweep' = sweep \/ sweep' = Idle
    BY <1>1, <2>1 DEF SweepRow, Idle
  <2>2. CASE SweepRead
    BY <1>1, <2>2 DEF SweepRead, SweepRow, Idle, OldAndUnreferenced, Stored
  <2>3. CASE SweepList
    BY <1>1, <2>3 DEF SweepList, SweepRow, OversizeObjects, Stored
  <2>4. CASE SweepStrip
    <3>1. CASE sweep' = [sweep EXCEPT !.at = "deleting"]
      BY <1>1, <3>1 DEF SweepRow
    <3>2. CASE \E k \in sweep.referenced :
                 sweep' = [sweep EXCEPT !.referenced = sweep.referenced \ {k}]
      BY <1>1, <3>2 DEF SweepRow
    <3> QED BY <2>4, <3>1, <3>2 DEF SweepStrip
  <2>5. \/ sweep' = sweep \/ sweep' = Idle
        \/ SweepRead \/ SweepList \/ SweepStrip
    BY DEF Next, TabStep, Put, PutFails, ReadExisting, CheckCap, CheckObjects, Write,
              PatchFails, Rearrange, Presign, PatchElsewhere, SetGalleryCap,
              RemoveProperty, Age, SweepStep, SweepDelete, SweepFails
  <2> QED BY <2>1, <2>2, <2>3, <2>4, <2>5
<1>11. exposed' \subseteq Keys
  <2>1. CASE UNCHANGED exposed
    BY <1>1, <2>1
  <2>2. \A ks \in SUBSET Keys : Link(ks) => exposed' \subseteq Keys
    BY <1>1 DEF Link
  <2>3. CASE SweepDelete
    BY <1>1, <2>3 DEF SweepDelete, SweepRow
  <2>4. CASE \E k \in Keys : exposed' = exposed \ {k}
    BY <1>1, <2>4
  <2>5. \/ UNCHANGED exposed
        \/ SweepDelete
        \/ \E k \in Keys : exposed' = exposed \ {k}
        \/ \E t \in Tabs : Link(tab[t].next)
        \/ \E ks \in SUBSET Keys : Link(ks)
    BY DEF Next, TabStep, Put, PutFails, ReadExisting, CheckCap, CheckObjects, Write,
              photoVars, PatchFails, Rearrange, Presign, PatchElsewhere, SetGalleryCap,
              RemoveProperty, Age, SweepStep, SweepRead, SweepList, SweepStrip, SweepFails
  <2> QED BY <1>7, <2>1, <2>2, <2>3, <2>4, <2>5
<1> QED BY <1>3, <1>4, <1>5, <1>6, <1>8, <1>9, <1>10, <1>11 DEF TypeOK, TabRow, SweepRow
-----------------------------------------------------------------------------
(* Who writes what.                                                         *)

\* Objects come by a PUT of their key and go by the delete of a sweep.
LEMMA WhoMovesObjects ==
  ASSUME TypeOK, Next, NEW k \in Keys
  PROVE  /\ object'[k] # "none" =>
              object[k] # "none" \/ \E t \in Tabs : (Put(t) \/ PutFails(t)) /\ k \in tab[t].key
         /\ object'[k] = "none" =>
              object[k] = "none" \/ (SweepDelete /\ k \in sweep.oversize \cup sweep.orphans)
<1>1. object \in [Keys -> {"none", "fresh", "old"}]
  BY RowsAreTyped
<1>2. CASE object' = object
  BY <1>2
<1>3. ASSUME NEW t \in Tabs, Put(t)
      PROVE  object'[k] = object[k] \/ (k \in tab[t].key /\ object'[k] = "fresh")
  BY <1>3 DEF Put
<1>4. ASSUME NEW t \in Tabs, PutFails(t)
      PROVE  object'[k] = object[k] \/ (k \in tab[t].key /\ object'[k] = "fresh")
  BY <1>4 DEF PutFails
<1>5. ASSUME NEW j \in Keys, Age(j)
      PROVE  object'[k] = object[k] \/ (object[k] = "fresh" /\ object'[k] = "old")
  BY <1>1, <1>5 DEF Age
<1>6. CASE SweepDelete
  <2>1. object'[k] = object[k]
        \/ (k \in sweep.oversize \cup sweep.orphans /\ object'[k] = "none")
    BY <1>6 DEF SweepDelete
  <2> QED BY <1>6, <2>1
<1>7. \/ object' = object
      \/ \E t \in Tabs : Put(t) \/ PutFails(t)
      \/ \E j \in Keys : Age(j)
      \/ SweepDelete
  BY DEF Next, TabStep, ReadExisting, CheckCap, CheckObjects, Write, PatchFails, Rearrange,
         Presign, photoVars, PatchElsewhere, SetGalleryCap, RemoveProperty, SweepStep,
         SweepRead, SweepList, SweepStrip, SweepFails
<1> QED BY <1>2, <1>3, <1>4, <1>5, <1>6, <1>7

\* Photos are added by the write of a PATCH that was checked, and with one statement.
LEMMA WhoAddsPhotos ==
  ASSUME Next, NEW k \in gallery', k \notin gallery
  PROVE  /\ \/ \E t \in Tabs : Write(t) /\ k \in tab[t].next
            \/ IsValidPhotoObject(k) /\ \E ks \in SUBSET Keys : PatchElsewhere(ks)
         /\ Link(gallery')
         /\ UNCHANGED <<object, oversize, sweep>>
<1>1. ASSUME NEW t \in Tabs, Write(t)
      PROVE  k \in tab[t].next /\ Link(gallery') /\ UNCHANGED <<object, oversize, sweep>>
  BY <1>1 DEF Write, Link
<1>2. ASSUME NEW ks \in SUBSET Keys, PatchElsewhere(ks)
      PROVE  /\ IsValidPhotoObject(k) /\ Link(gallery')
             /\ UNCHANGED <<object, oversize, sweep>>
  BY <1>2 DEF PatchElsewhere, Link
<1>3. \/ \E t \in Tabs : Write(t)
      \/ \E ks \in SUBSET Keys : PatchElsewhere(ks)
      \/ gallery' \subseteq gallery
  BY DEF Next, TabStep, Put, PutFails, ReadExisting, CheckCap, CheckObjects, PatchFails,
         Rearrange, Presign, photoVars, SetGalleryCap, RemoveProperty, Age, SweepStep,
         SweepRead, SweepList, SweepStrip, SweepDelete, SweepFails
<1> QED BY <1>1, <1>2, <1>3

\* A photo stays exposed, as long as its key is known.
LEMMA ExposedStays ==
  ASSUME Next, NEW k \in exposed, k \in Known
  PROVE  k \in exposed'
<1>1. ASSUME NEW t \in Tabs, NEW j \in Keys, NEW shown \in SUBSET Keys, Presign(t, j, shown)
      PROVE  k \in exposed'
  BY <1>1 DEF Presign
<1>2. \/ \E t \in Tabs, j \in Keys, shown \in SUBSET Keys : Presign(t, j, shown)
      \/ exposed \subseteq exposed'
  BY DEF Next, TabStep, Put, PutFails, ReadExisting, CheckCap, CheckObjects, PatchFails, Write,
         Link, PatchElsewhere, Rearrange, photoVars, SetGalleryCap, RemoveProperty, Age,
         SweepStep, SweepRead, SweepList, SweepStrip, SweepDelete, SweepFails
<1> QED BY <1>1, <1>2

\* A photo stays backed, but for what the delete of a sweep takes.
LEMMA BackedStays ==
  ASSUME TypeOK, Next, NEW k \in Keys, Backed(k), k \in Known
  PROVE  \/ Backed(k)'
         \/ SweepDelete /\ k \in sweep.oversize \cup sweep.orphans /\ k \notin exposed
BY WhoMovesObjects, ExposedStays DEF Backed

\* What a step of a tab leaves of its PATCH.
PatchMoved(t) ==
  /\ tab'[t].existing \subseteq tab[t].existing \cup gallery
  /\ \A k \in tab'[t].key :
       tab'[t].at = "putting" /\ \E shown \in SUBSET Keys : Presign(t, k, shown)
  /\ tab'[t].at = "capping" => tab'[t].existing = gallery
  /\ tab'[t].at = "checking" =>
       /\ tab[t].at = "capping" /\ WithinCap(tab[t].next, tab[t].existing)
       /\ tab'[t].next = tab[t].next /\ tab'[t].existing = tab[t].existing \cap tab[t].next
  /\ tab'[t].at = "writing" =>
       /\ tab[t].at = "checking" /\ tab'[t].next = tab[t].next
       /\ tab'[t].existing = tab[t].existing
       /\ \A k \in tab[t].next \ tab[t].existing : IsValidPhotoObject(k)
  /\ tab'[t].at \in {"capping", "checking", "writing"} =>
       UNCHANGED <<photoVars, sweep, allowed, exposed>>

LEMMA PatchesMove ==
  ASSUME TypeOK, NewKeysAreNowhere, NEW t \in Tabs, TabStep(t)
  PROVE  PatchMoved(t)
<1>1. tab \in [Tabs -> TabRow] /\ tab[t] \in TabRow
  BY RowsAreTyped
<1>2. tab[t].key # {} => tab[t].at = "putting"
  BY DEF NewKeysAreNowhere
<1>3. ASSUME Answered(t) PROVE PatchMoved(t)
  <2>1. tab'[t] = Open
    BY <1>1, <1>3 DEF Answered
  <2> QED BY <2>1 DEF Open, PatchMoved
<1>4. ASSUME Put(t) PROVE PatchMoved(t)
  <2>1. tab'[t] = [tab[t] EXCEPT !.at = "saving", !.key = {}]
    BY <1>1, <1>4 DEF Put
  <2> QED BY <1>1, <2>1 DEF PatchMoved, TabRow
<1>5. ASSUME ReadExisting(t) PROVE PatchMoved(t)
  <2>1. CASE ~exists
    BY <1>3, <1>5, <2>1 DEF ReadExisting
  <2>2. CASE exists
    <3>1. tab'[t] = [tab[t] EXCEPT !.at = "capping", !.existing = gallery]
      BY <1>1, <1>5, <2>2 DEF ReadExisting
    <3>2. tab[t].at = "saving" /\ UNCHANGED <<photoVars, sweep, allowed, exposed>>
      BY <1>5 DEF ReadExisting
    <3> QED BY <1>1, <1>2, <3>1, <3>2 DEF PatchMoved, TabRow
  <2> QED BY <2>1, <2>2
<1>6. ASSUME CheckCap(t) PROVE PatchMoved(t)
  <2>1. CASE ~WithinCap(tab[t].next, tab[t].existing)
    BY <1>3, <1>6, <2>1 DEF CheckCap
  <2>2. CASE WithinCap(tab[t].next, tab[t].existing)
    <3>1. tab'[t] = [tab[t] EXCEPT !.at = "checking", !.existing = @ \cap tab[t].next]
      BY <1>1, <1>6, <2>2 DEF CheckCap
    <3>2. tab[t].at = "capping" /\ UNCHANGED <<photoVars, sweep, allowed, exposed>>
      BY <1>6 DEF CheckCap
    <3> QED BY <1>1, <1>2, <2>2, <3>1, <3>2 DEF PatchMoved, TabRow
  <2> QED BY <2>1, <2>2
<1>7. ASSUME CheckObjects(t) PROVE PatchMoved(t)
  <2>1. CASE ~\A k \in tab[t].next \ tab[t].existing : IsValidPhotoObject(k)
    BY <1>3, <1>7, <2>1 DEF CheckObjects
  <2>2. CASE \A k \in tab[t].next \ tab[t].existing : IsValidPhotoObject(k)
    <3>1. tab'[t] = [tab[t] EXCEPT !.at = "writing"]
      BY <1>1, <1>7, <2>2 DEF CheckObjects
    <3>2. tab[t].at = "checking" /\ UNCHANGED <<photoVars, sweep, allowed, exposed>>
      BY <1>7 DEF CheckObjects
    <3> QED BY <1>1, <1>2, <2>2, <3>1, <3>2 DEF PatchMoved, TabRow
  <2> QED BY <2>1, <2>2
<1>8. ASSUME NEW shown \in SUBSET Keys, Rearrange(t, shown) PROVE PatchMoved(t)
  <2>1. tab'[t] = [Open EXCEPT !.at = "saving", !.next = shown]
    BY <1>1, <1>8 DEF Rearrange
  <2> QED BY <2>1 DEF Open, PatchMoved
<1>9. ASSUME NEW shown \in SUBSET Keys, NEW k \in Keys, Presign(t, k, shown) PROVE PatchMoved(t)
  <2>1. tab'[t] = [Open EXCEPT !.at = "putting", !.key = {k}, !.next = shown \cup {k}]
    BY <1>1, <1>9 DEF Presign
  <2> QED BY <1>9, <2>1 DEF Open, PatchMoved
<1>10. PutFails(t) \/ Write(t) \/ PatchFails(t) => Answered(t)
  BY DEF PutFails, Write, PatchFails
<1> QED BY <1>3, <1>4, <1>5, <1>6, <1>7, <1>8, <1>9, <1>10 DEF TabStep
-----------------------------------------------------------------------------
(* The parts of the invariant.                                              *)

\* Every tab moved by its own step, or not at all.
LEMMA EachTabMoves ==
  ASSUME TypeOK, NewKeysAreNowhere, Next, NEW t \in Tabs
  PROVE  tab'[t] = tab[t] \/ (TabStep(t) /\ PatchMoved(t))
BY OneTabMoves, PatchesMove DEF TabMoved

\* A photo in the gallery is only left without its object if it was exposed: what a
\* sweep deletes it has found in no gallery, or stripped.
LEMMA PhotosStayBacked ==
  ASSUME GalleryProtocol, Next
  PROVE  OnlyTheGapBreaks'
<1> USE DEF GalleryProtocol
<1> SUFFICES ASSUME NEW k \in gallery' PROVE Backed(k)'
  BY DEF OnlyTheGapBreaks, Broken, Backed
<1>1. gallery \subseteq Keys /\ gallery' \subseteq Keys /\ sweep \in SweepRow
  BY RowsAreTyped, StepsAreTyped DEF TypeOK
<1>2. CASE k \in gallery
  <2>1. Backed(k) /\ k \in Known
    BY <1>2 DEF OnlyTheGapBreaks, Broken, Backed, Known
  <2>2. SweepDelete /\ k \in sweep.oversize \cup sweep.orphans => k \in exposed
    BY <1>2 DEF SweepsCondemnOrphans, SweepDelete
  <2> QED BY <1>1, <1>2, <2>1, <2>2, BackedStays
<1>3. CASE k \notin gallery
  <2>1. exposed \subseteq exposed' /\ object' = object
    BY <1>3, WhoAddsPhotos DEF Link
  <2>2. CASE IsValidPhotoObject(k)
    BY <2>1, <2>2 DEF IsValidPhotoObject, Backed
  <2>3. ASSUME NEW t \in Tabs, Write(t), k \in tab[t].next PROVE Backed(k)'
    <3>1. Backed(k)
      BY <2>3 DEF Write, PatchesAreBacked
    <3> QED BY <2>1, <3>1 DEF Backed
  <2> QED BY <1>3, <2>2, <2>3, WhoAddsPhotos
<1> QED BY <1>2, <1>3

\* A PATCH keeps its hold of the keys that it has found: a delete in between exposes
\* the set that the PATCH is about to write.
LEMMA PatchesStayBacked ==
  ASSUME GalleryProtocol, Next
  PROVE  PatchesAreBacked'
<1> USE DEF GalleryProtocol
<1>1. /\ gallery \subseteq Keys /\ tab \in [Tabs -> TabRow]
      /\ \A t \in Tabs : tab[t].next \subseteq Keys /\ tab[t].existing \subseteq Keys
  BY RowsAreTyped DEF TabRow
<1> DEFINE Holds(t) ==
      /\ tab'[t].at = "capping" => \A k \in tab'[t].existing \cap tab'[t].next : Backed(k)'
      /\ tab'[t].at = "checking" =>
           tab'[t].existing \subseteq tab'[t].next /\ \A k \in tab'[t].existing : Backed(k)'
      /\ tab'[t].at = "writing" => \A k \in tab'[t].next : Backed(k)'
<1>2. ASSUME NEW t \in Tabs, tab'[t] = tab[t] PROVE Holds(t)
  <2>1. ASSUME NEW k \in tab[t].next, Patching(t), Backed(k) PROVE Backed(k)'
    <3>1. k \in Keys /\ k \in Known
      BY <1>1, <2>1 DEF Known
    <3>2. SweepDelete /\ k \in sweep.oversize \cup sweep.orphans => k \in exposed'
      BY <2>1 DEF SweepDelete
    <3> QED BY <2>1, <3>1, <3>2, BackedStays DEF Backed
  <2>2. /\ tab[t].at = "capping" => \A k \in tab[t].existing \cap tab[t].next : Backed(k)
        /\ tab[t].at = "checking" =>
             tab[t].existing \subseteq tab[t].next /\ \A k \in tab[t].existing : Backed(k)
        /\ tab[t].at = "writing" => \A k \in tab[t].next : Backed(k)
    BY DEF PatchesAreBacked
  <2> HIDE DEF GalleryProtocol
  <2> QED BY <1>2, <2>1, <2>2 DEF Patching
<1>3. ASSUME NEW t \in Tabs, TabStep(t), PatchMoved(t) PROVE Holds(t)
  <2>1. tab'[t].at \in {"capping", "checking", "writing"} => \A k : Backed(k) => Backed(k)'
    BY <1>3 DEF PatchMoved, photoVars, Backed
  <2>2. CASE tab'[t].at = "capping"
    BY <1>3, <2>1, <2>2 DEF PatchMoved, OnlyTheGapBreaks, Broken, Backed
  <2>3. CASE tab'[t].at = "checking"
    BY <1>3, <2>1, <2>3 DEF PatchMoved, PatchesAreBacked
  <2>4. CASE tab'[t].at = "writing"
    <3>1. \A k \in tab[t].existing : Backed(k)
      BY <1>3, <2>4 DEF PatchMoved, PatchesAreBacked
    <3>2. \A k \in tab[t].next \ tab[t].existing : Backed(k)
      BY <1>3, <2>4 DEF PatchMoved, IsValidPhotoObject, Backed
    <3>3. tab'[t].next = tab[t].next
      BY <1>3, <2>4 DEF PatchMoved
    <3> QED BY <2>1, <2>4, <3>1, <3>2, <3>3
  <2> QED BY <2>2, <2>3, <2>4
<1>4. \A t \in Tabs : Holds(t)
  BY <1>2, <1>3, EachTabMoves
<1> QED BY <1>4 DEF PatchesAreBacked

\* A key that waits for its bytes stays out of every gallery and every other PATCH: no
\* PATCH links it before it is an image in the store.
LEMMA NewKeysStayNowhere ==
  ASSUME GalleryProtocol, Next
  PROVE  NewKeysAreNowhere'
<1> USE DEF GalleryProtocol
<1>1. /\ gallery \subseteq Keys /\ tab \in [Tabs -> TabRow]
      /\ \A t \in Tabs : tab[t].key \subseteq Keys
  BY RowsAreTyped DEF TabRow
<1>2. ASSUME NEW t \in Tabs, NEW k \in tab'[t].key
      PROVE  /\ tab'[t].at = "putting"
             /\ object'[k] = "none" /\ k \notin gallery'
             /\ \A u \in Tabs : /\ k \notin tab'[u].existing
                                /\ tab'[u].at = "writing" => k \notin tab'[u].next
                                /\ k \in tab'[u].key => u = t
  <2>1. CASE tab'[t] = tab[t]
    <3>1. /\ k \in Keys /\ k \in tab[t].key /\ k \in Known /\ tab[t].at = "putting"
          /\ object[k] = "none" /\ k \notin gallery
          /\ \A u \in Tabs : /\ k \notin tab[u].existing
                             /\ tab[u].at = "writing" => k \notin tab[u].next
                             /\ k \in tab[u].key => u = t
      BY <1>1, <1>2, <2>1 DEF NewKeysAreNowhere, Known
    <3>2. object'[k] = "none"
      <4>1. ~Put(t) /\ ~PutFails(t)
        <5>1. Put(t) => tab'[t].at = "saving"
          BY <1>1 DEF Put, TabRow
        <5>2. PutFails(t) => tab'[t].at = "open"
          BY <1>1 DEF PutFails, Answered, Open
        <5> QED BY <2>1, <3>1, <5>1, <5>2
      <4> QED BY <3>1, <4>1, WhoMovesObjects
    <3>3. k \notin gallery'
      BY <3>1, WhoAddsPhotos DEF Write, IsValidPhotoObject
    <3>4. ASSUME NEW u \in Tabs
          PROVE  /\ k \notin tab'[u].existing
                 /\ tab'[u].at = "writing" => k \notin tab'[u].next
                 /\ k \in tab'[u].key => u = t
      <4>1. CASE tab'[u] = tab[u]
        BY <3>1, <4>1
      <4>2. CASE PatchMoved(u)
        <5>1. k \notin tab'[u].existing
          BY <3>1, <4>2 DEF PatchMoved
        <5>2. tab'[u].at = "writing" => k \notin tab'[u].next
          BY <3>1, <4>2 DEF PatchMoved, IsValidPhotoObject
        <5>3. k \notin tab'[u].key
          BY <3>1, <4>2 DEF PatchMoved, Presign
        <5> QED BY <5>1, <5>2, <5>3
      <4> QED BY <4>1, <4>2, EachTabMoves
    <3> QED BY <2>1, <3>1, <3>2, <3>3, <3>4
  <2>2. CASE PatchMoved(t)
    <3>1. PICK shown \in SUBSET Keys : Presign(t, k, shown)
      BY <1>2, <2>2 DEF PatchMoved
    <3>2. tab'[t].at = "putting" /\ tab'[t].existing \subseteq tab[t].existing \cup gallery
      BY <1>2, <2>2 DEF PatchMoved
    <3>3. k \notin Known /\ object' = object /\ gallery' = gallery
      BY <3>1 DEF Presign, photoVars
    <3>4. \A u \in Tabs : u # t => tab'[u] = tab[u]
      BY <1>1, <3>1 DEF Presign
    <3>5. /\ k \notin Stored /\ k \notin gallery
          /\ \A u \in Tabs : k \notin tab[u].existing /\ k \notin tab[u].next /\ k \notin tab[u].key
      BY <3>3 DEF Known
    <3>6. k \in Keys
      BY <1>2, StepsAreTyped DEF TypeOK
    <3>7. object[k] = "none"
      BY <3>5, <3>6 DEF Stored
    <3> QED BY <3>2, <3>3, <3>4, <3>5, <3>7
  <2> QED BY <2>1, <2>2, EachTabMoves
<1> QED BY <1>2 DEF NewKeysAreNowhere

\* A sweep under way keeps to what it has read: whatever is linked behind its back is
\* exposed, and what it has read as referenced is stripped before it is deleted.
LEMMA SweepsStayWithOrphans ==
  ASSUME GalleryProtocol, Next
  PROVE  SweepsCondemnOrphans'
<1>1. /\ gallery \subseteq Keys /\ tab \in [Tabs -> TabRow] /\ sweep \in SweepRow
      /\ object \in [Keys -> {"none", "fresh", "old"}] /\ oversize \subseteq Keys
      /\ exposed \subseteq Keys
      /\ \A t \in Tabs : tab[t].key \subseteq Keys
  BY RowsAreTyped DEF TabRow, GalleryProtocol
<1>2. SweepsCondemnOrphans
  BY DEF GalleryProtocol
<1>3. sweep.at \in {"idle", "listing", "stripping", "deleting"}
  BY <1>1 DEF SweepRow
<1>4. CASE SweepRead
  <2>1. sweep' = [Idle EXCEPT !.at = "listing", !.referenced = gallery,
                              !.orphans = OldAndUnreferenced]
        /\ UNCHANGED photoVars
    BY <1>4 DEF SweepRead
  <2>2. /\ sweep'.at = "listing" /\ sweep'.referenced = gallery /\ sweep'.oversize = {}
        /\ sweep'.orphans = OldAndUnreferenced
    BY <2>1 DEF Idle
  <2> QED BY <1>2, <2>1, <2>2 DEF SweepsCondemnOrphans, photoVars, OldAndUnreferenced, Stored
<1>5. CASE SweepList
  <2>1. /\ sweep.at = "listing" /\ UNCHANGED <<photoVars, exposed>>
        /\ sweep'.at = "stripping" /\ sweep'.referenced = sweep.referenced \cap OversizeObjects
        /\ sweep'.orphans \subseteq sweep.orphans
        /\ sweep'.oversize = OversizeObjects
    BY <1>5 DEF SweepList
  <2> QED BY <1>2, <2>1 DEF SweepsCondemnOrphans, photoVars, OversizeObjects, Stored
<1>6. CASE SweepStrip
  <2>1. sweep.at = "stripping" /\ UNCHANGED <<object, oversize, exposed>>
    BY <1>6 DEF SweepStrip
  <2>2. CASE /\ sweep.referenced = {} /\ gallery' = gallery
             /\ sweep' = [sweep EXCEPT !.at = "deleting"]
    <3>1. /\ sweep'.at = "deleting" /\ sweep'.orphans = sweep.orphans
          /\ sweep'.oversize = sweep.oversize
      BY <1>1, <2>2 DEF SweepRow
    <3> QED BY <1>2, <2>1, <2>2, <3>1 DEF SweepsCondemnOrphans, Stored
  <2>3. ASSUME NEW k \in sweep.referenced, gallery' = gallery \ {k},
               sweep' = [sweep EXCEPT !.referenced = sweep.referenced \ {k}]
        PROVE  SweepsCondemnOrphans'
    <3>1. /\ sweep'.at = "stripping" /\ sweep'.orphans = sweep.orphans
          /\ sweep'.oversize = sweep.oversize
          /\ sweep'.referenced = sweep.referenced \ {k}
      BY <1>1, <2>1, <2>3 DEF SweepRow
    <3> QED BY <1>2, <2>1, <2>3, <3>1 DEF SweepsCondemnOrphans, Stored
  <2> QED BY <1>6, <2>2, <2>3 DEF SweepStrip
<1>7. CASE SweepDelete
  <2>1. /\ sweep' = Idle /\ oversize' \subseteq oversize \ (sweep.oversize \cup sweep.orphans)
        /\ object' = [k \in Keys |-> IF k \in sweep.oversize \cup sweep.orphans
                                     THEN "none" ELSE object[k]]
    BY <1>7 DEF SweepDelete
  <2>2. sweep'.at = "idle" /\ sweep'.orphans = {} /\ sweep'.oversize = {}
    BY <2>1 DEF Idle
  <2>3. \A k \in oversize' : k \in Keys /\ object'[k] = object[k] /\ object[k] # "none"
    BY <1>1, <1>2, <2>1 DEF SweepsCondemnOrphans, Stored
  <2> QED BY <2>2, <2>3 DEF SweepsCondemnOrphans, Stored
<1>8. CASE SweepFails
  <2>1. sweep' = Idle /\ UNCHANGED photoVars
    BY <1>8 DEF SweepFails
  <2>2. sweep'.at = "idle" /\ sweep'.orphans = {} /\ sweep'.oversize = {}
    BY <2>1 DEF Idle
  <2> QED BY <1>2, <2>1, <2>2 DEF SweepsCondemnOrphans, photoVars, Stored
<1>9. ASSUME sweep' = sweep, ~SweepRead, ~SweepList, ~SweepStrip, ~SweepDelete, ~SweepFails
      PROVE  SweepsCondemnOrphans'
  <2>1. \A k \in Known : k \in exposed => k \in exposed'
    BY ExposedStays
  <2>2. \A k \in oversize' : k \notin oversize => \E t \in Tabs : Put(t) /\ k \in tab[t].key
    BY <1>9 DEF Next, TabStep, PutFails, Put, ReadExisting, CheckCap, CheckObjects, Write,
                PatchFails, Rearrange, Presign, photoVars, PatchElsewhere, SetGalleryCap,
                RemoveProperty, Age, SweepStep
  <2>3. oversize \subseteq oversize'
    BY <1>9 DEF Next, TabStep, PutFails, Put, ReadExisting, CheckCap, CheckObjects, Write,
                PatchFails, Rearrange, Presign, photoVars, PatchElsewhere, SetGalleryCap,
                RemoveProperty, Age, SweepStep
  <2>4. oversize' \subseteq Stored'
    <3>1. ASSUME NEW k \in oversize' PROVE k \in Keys /\ object'[k] # "none"
      <4>1. CASE k \in oversize
        BY <1>1, <1>2, <1>9, <4>1, WhoMovesObjects
           DEF SweepsCondemnOrphans, Stored, GalleryProtocol
      <4>2. CASE k \notin oversize
        BY <1>1, <2>2, <3>1, <4>2 DEF Put
      <4> QED BY <4>1, <4>2
    <3> QED BY <3>1 DEF Stored
  <2>5. \A k \in gallery' : k \notin gallery =>
          /\ oversize' = oversize
          /\ sweep.at # "idle" /\ k \in sweep.orphans \cup oversize => k \in exposed'
    BY WhoAddsPhotos DEF Link
  <2>6. \A k \in gallery : k \in oversize' => k \in oversize
    BY <2>2 DEF NewKeysAreNowhere, GalleryProtocol
  <2>7. \A k \in gallery : k \in exposed => k \in exposed'
    BY <2>1 DEF Known
  <2>8. gallery' \cap sweep.orphans \subseteq exposed'
    BY <1>2, <2>5, <2>7 DEF SweepsCondemnOrphans
  <2>9. sweep.at = "listing" => gallery' \cap oversize' \subseteq sweep.referenced \cup exposed'
    BY <1>2, <2>5, <2>6, <2>7 DEF SweepsCondemnOrphans
  <2>10. sweep.at = "stripping" =>
           gallery' \cap sweep.oversize \subseteq sweep.referenced \cup exposed'
    BY <1>2, <2>5, <2>7 DEF SweepsCondemnOrphans
  <2>11. sweep.at \notin {"listing", "stripping"} => gallery' \cap sweep.oversize \subseteq exposed'
    BY <1>2, <2>5, <2>7 DEF SweepsCondemnOrphans
  <2> QED BY <1>2, <1>9, <2>3, <2>4, <2>8, <2>9, <2>10, <2>11 DEF SweepsCondemnOrphans
<1>10. sweep' = sweep \/ SweepRead \/ SweepList \/ SweepStrip \/ SweepDelete \/ SweepFails
  BY DEF Next, TabStep, PutFails, Put, ReadExisting, CheckCap, CheckObjects, Write, PatchFails,
         Rearrange, Presign, PatchElsewhere, SetGalleryCap, RemoveProperty, Age, SweepStep
<1> QED BY <1>4, <1>5, <1>6, <1>7, <1>8, <1>9, <1>10

\* Fewer keys count for no more.
LEMMA FewerKeys ==
  ASSUME NEW S \in SUBSET Keys, NEW T \in SUBSET S
  PROVE  Cardinality(T) \in Nat /\ Cardinality(S) \in Nat /\ Cardinality(T) \leq Cardinality(S)
BY GalleryAssumption, FS_Subset, FS_CardinalityType

\* The largest cap so far only grows, and no cap is above it.
LEMMA AllowedGrows ==
  ASSUME TypeOK, PatchesKeepTheCap, Next
  PROVE  allowed \in Nat /\ allowed' \in Nat /\ allowed \leq allowed' /\ cap' \leq allowed'
<1>1. cap \in Caps /\ allowed \in Caps /\ Caps \subseteq Nat /\ cap \leq allowed
  BY GalleryAssumption, RowsAreTyped DEF PatchesKeepTheCap
<1>2. CASE UNCHANGED <<cap, allowed>>
  BY <1>1, <1>2
<1>3. ASSUME NEW c \in Caps, SetGalleryCap(c)
      PROVE  allowed' \in Nat /\ allowed \leq allowed' /\ cap' \leq allowed'
  <2>1. cap' = c /\ allowed' = Max({allowed, c})
    BY <1>3 DEF SetGalleryCap
  <2> QED BY <1>1, <2>1, LargerCap
<1>4. UNCHANGED <<cap, allowed>> \/ \E c \in Caps : SetGalleryCap(c)
  BY DEF Next, TabStep, PutFails, Put, ReadExisting, CheckCap, CheckObjects, Write, PatchFails,
         Rearrange, Presign, photoVars, PatchElsewhere, RemoveProperty, Age, SweepStep,
         SweepRead, SweepList, SweepStrip, SweepDelete, SweepFails
<1> QED BY <1>1, <1>2, <1>3, <1>4

\* A gallery that is written has passed the check against a cap, or against a gallery
\* that had.
LEMMA GalleryStaysUnderTheCap ==
  ASSUME GalleryProtocol, Next
  PROVE  NeverOverEveryCap' /\ PatchesKeepTheCap'
<1>1. /\ gallery \in SUBSET Keys /\ gallery' \in SUBSET Keys /\ tab \in [Tabs -> TabRow]
      /\ cap \in Nat
      /\ \A t \in Tabs : tab[t].next \in SUBSET Keys /\ tab[t].existing \in SUBSET Keys
  BY RowsAreTyped, StepsAreTyped, GalleryAssumption DEF TabRow, GalleryProtocol, TypeOK
<1>2. /\ Cardinality(gallery) \leq allowed
      /\ cap \leq allowed
      /\ \A t \in Tabs :
           /\ tab[t].at = "capping" => Cardinality(tab[t].existing) \leq allowed
           /\ tab[t].at \in {"checking", "writing"} => Cardinality(tab[t].next) \leq allowed
  BY DEF GalleryProtocol, NeverOverEveryCap, PatchesKeepTheCap
<1>3. allowed \in Nat /\ allowed' \in Nat /\ allowed \leq allowed' /\ cap' \leq allowed'
  BY AllowedGrows DEF GalleryProtocol
<1>4. \A S \in SUBSET Keys : Cardinality(S) \in Nat
  BY FewerKeys
<1>5. \A S \in SUBSET Keys : Cardinality(S) \leq allowed => Cardinality(S) \leq allowed'
  BY <1>3, <1>4
<1>6. ASSUME NEW S \in SUBSET Keys, NEW T \in SUBSET Keys, WithinCap(S, T),
             Cardinality(T) \leq allowed
      PROVE  Cardinality(S) \leq allowed
  <2>1. Cardinality(S) \leq cap \/ Cardinality(S) \leq Cardinality(T)
    BY <1>6 DEF WithinCap
  <2> QED BY <1>1, <1>2, <1>3, <1>4, <1>6, <2>1
<1>7. NeverOverEveryCap'
  <2>1. CASE gallery' \subseteq gallery
    <3>1. Cardinality(gallery') \leq Cardinality(gallery)
      BY <1>1, <2>1, FewerKeys
    <3> QED BY <1>1, <1>2, <1>3, <1>4, <3>1 DEF NeverOverEveryCap
  <2>2. ASSUME NEW t \in Tabs, Write(t), gallery' = tab[t].next PROVE NeverOverEveryCap'
    BY <1>1, <1>2, <1>5, <2>2 DEF Write, NeverOverEveryCap
  <2>3. ASSUME NEW ks \in SUBSET Keys, PatchElsewhere(ks) PROVE NeverOverEveryCap'
    <3>1. gallery' = ks /\ WithinCap(ks, gallery)
      BY <2>3 DEF PatchElsewhere, Link
    <3> QED BY <1>1, <1>2, <1>5, <1>6, <3>1 DEF NeverOverEveryCap
  <2>4. \/ gallery' \subseteq gallery
        \/ \E t \in Tabs : Write(t) /\ gallery' = tab[t].next
        \/ \E ks \in SUBSET Keys : PatchElsewhere(ks)
    BY DEF Next, TabStep, PutFails, Put, ReadExisting, CheckCap, CheckObjects, Write, Link,
           PatchFails, Rearrange, Presign, photoVars, SetGalleryCap, RemoveProperty, Age,
           SweepStep, SweepRead, SweepList, SweepStrip, SweepDelete, SweepFails
  <2> QED BY <2>1, <2>2, <2>3, <2>4
<1>8. ASSUME NEW t \in Tabs
      PROVE  /\ tab'[t].at = "capping" => Cardinality(tab'[t].existing) \leq allowed'
             /\ tab'[t].at \in {"checking", "writing"} => Cardinality(tab'[t].next) \leq allowed'
  <2>1. CASE tab'[t] = tab[t]
    BY <1>1, <1>2, <1>5, <2>1
  <2>2. CASE PatchMoved(t)
    <3>1. CASE tab'[t].at = "capping"
      BY <1>1, <1>2, <1>5, <2>2, <3>1 DEF PatchMoved
    <3>2. CASE tab'[t].at = "checking"
      <4>1. Cardinality(tab[t].next) \leq allowed /\ tab'[t].next = tab[t].next
        BY <1>1, <1>2, <1>6, <2>2, <3>2 DEF PatchMoved
      <4> QED BY <1>1, <1>5, <3>2, <4>1
    <3>3. CASE tab'[t].at = "writing"
      <4>1. Cardinality(tab[t].next) \leq allowed /\ tab'[t].next = tab[t].next
        BY <1>2, <2>2, <3>3 DEF PatchMoved
      <4> QED BY <1>1, <1>5, <3>3, <4>1
    <3> QED BY <3>1, <3>2, <3>3
  <2> QED BY <2>1, <2>2, EachTabMoves DEF GalleryProtocol
<1> QED BY <1>3, <1>7, <1>8 DEF PatchesKeepTheCap

-----------------------------------------------------------------------------
(* The theorems.                                                            *)

\* A property that is read for the first time has all its photos.
LEMMA GalleriesStartWhole == Init => GalleryProtocol
<1> SUFFICES ASSUME Init PROVE GalleryProtocol
  OBVIOUS
<1>1. /\ exists = TRUE /\ cap \in Caps /\ oversize = {} /\ junk = {}
      /\ tab = [t \in Tabs |-> Open] /\ sweep = Idle /\ faults = 0
      /\ allowed = cap /\ exposed = {}
  BY DEF Init
<1>2. /\ gallery \in SUBSET Keys /\ Cardinality(gallery) \leq cap
      /\ object = [k \in Keys |-> IF k \in gallery THEN "old" ELSE "none"]
  BY DEF Init
<1>3. TypeOK
  <2>1. 0 \in 0 .. MaxFaults /\ cap \in Nat
    BY <1>1, GalleryAssumption
  <2>2. tab \in [Tabs -> TabRow] /\ sweep \in SweepRow
    BY <1>1, TabRowMoves DEF SweepRow, Idle
  <2>3. object \in [Keys -> {"none", "fresh", "old"}]
    BY <1>2
  <2> QED BY <1>1, <1>2, <2>1, <2>2, <2>3, RowsAreTyped
<1>4. OnlyTheGapBreaks
  BY <1>2 DEF OnlyTheGapBreaks, Broken
<1>5. NeverOverEveryCap /\ PatchesKeepTheCap
  <2>1. cap \in Nat /\ cap \leq allowed
    BY <1>1, GalleryAssumption
  <2>2. \A t \in Tabs : tab[t].at = "open"
    BY <1>1 DEF Open
  <2> QED BY <1>1, <1>2, <2>1, <2>2 DEF NeverOverEveryCap, PatchesKeepTheCap
<1>6. PatchesAreBacked /\ NewKeysAreNowhere
  <2>1. \A t \in Tabs : tab[t].at = "open" /\ tab[t].key = {} /\ tab[t].existing = {}
    BY <1>1 DEF Open
  <2> QED BY <2>1 DEF PatchesAreBacked, NewKeysAreNowhere
<1>7. SweepsCondemnOrphans
  <2>1. sweep.at = "idle" /\ sweep.orphans = {} /\ sweep.oversize = {}
    BY <1>1 DEF Idle
  <2> QED BY <1>1, <2>1 DEF SweepsCondemnOrphans
<1> QED BY <1>3, <1>4, <1>5, <1>6, <1>7 DEF GalleryProtocol

\* Whatever a PATCH and a sweep read and write behind each other's back, each knows
\* enough of the keys that it is about to link or to delete.
THEOREM GalleryProtocolKept == Spec => []GalleryProtocol
<1>1. GalleryProtocol /\ [Next]_vars => GalleryProtocol'
  <2> SUFFICES ASSUME GalleryProtocol, [Next]_vars PROVE GalleryProtocol'
    OBVIOUS
  <2>1. CASE Next
    BY <2>1, PhotosStayBacked, PatchesStayBacked, NewKeysStayNowhere, SweepsStayWithOrphans,
       GalleryStaysUnderTheCap, StepsAreTyped DEF GalleryProtocol
  <2>2. CASE UNCHANGED vars
    BY <2>2
       DEF vars, GalleryProtocol, TypeOK, OnlyTheGapBreaks, Broken, NeverOverEveryCap,
           PatchesAreBacked, Backed, NewKeysAreNowhere, SweepsCondemnOrphans, Stored,
           PatchesKeepTheCap
  <2> QED BY <2>1, <2>2
<1> QED BY <1>1, GalleriesStartWhole, PTL DEF Spec

\* The sweep never takes the object of a photo that is in its gallery, unless a PATCH
\* linked that photo while the sweep that condemns it was under way.
THEOREM PhotosAreBacked == Spec => []OnlyTheGapBreaks
BY GalleryProtocolKept, PTL DEF GalleryProtocol

\* Tabs that overwrite each other's photos, with caps that go up and down between
\* their steps, never bring more photos together than some cap has allowed.
THEOREM CapHolds == Spec => []NeverOverEveryCap
BY GalleryProtocolKept, PTL DEF GalleryProtocol
===============================================================================
