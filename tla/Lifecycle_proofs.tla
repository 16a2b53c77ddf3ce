-------------------------- MODULE Lifecycle_proofs --------------------------
(***************************************************************************)
(* Proofs about Lifecycle, for any number of repositories, pushes, delete  *)
(* calls and maintainers, and for object stores that do and that do not    *)
(* report the deletion of an absent object.                                *)
(*                                                                         *)
(* The three properties speak of objects and rows; why they hold lies in   *)
(* the pushes and in the passes: no push still runs in a repository whose  *)
(* window is over, a pass works only on such repositories, and each phase  *)
(* of a purge finds what the phase before it left, whatever other passes,  *)
(* pushes and calls do in between.                                         *)
(***************************************************************************)
EXTENDS Lifecycle, SequenceTheorems, TLAPS

\* The part of TypeOK that the arguments below use.
Kinds ==
    /\ status \in [Repos -> {"none", "live", "deleted", "lapsed", "erased"}]
    /\ work \in [Pushes -> InFlight \union {"idle", "over"}]
    /\ home \in [Pushes -> 0 .. MaxRepo]
    /\ packs \subseteq Pushes /\ indexed \subseteq Pushes
    /\ segments \subseteq Pushes /\ listed \subseteq Pushes
    /\ at \in [Maintainers -> {"idle", "objects", "indexes", "rows", "tending"}]
    /\ repo \in [Maintainers -> 0 .. MaxRepo]
    /\ todo \in [Maintainers -> SUBSET Repos]

\* Past the window: nothing brings the repository back.
Condemned(r) == status[r] \in {"lapsed", "erased"}

\* Nothing is recorded for a push that has not begun.
IdleIsBlank ==
    \A p \in Pushes : work[p] = "idle" =>
        /\ home[p] = 0
        /\ p \notin packs /\ p \notin indexed /\ p \notin segments /\ p \notin listed

\* A push resolves a repository that has a row.
HomesExist == \A p \in Pushes : home[p] # 0 => status[home[p]] # "none"

\* A running push is in a repository that can still be used or restored.
RunningIsWithin ==
    \A p \in Pushes : work[p] \in InFlight =>
        home[p] # 0 /\ status[home[p]] \in {"live", "deleted"}

\* A running push that has put its objects still has them.
RunningIsStored ==
    \A p \in Pushes :
        work[p] \in {"stored", "numbered", "prepared", "journaled"} => p \in packs

\* A pass purges nothing that could be restored.
PurgesTheCondemned ==
    \A m \in Maintainers :
        /\ at[m] \in {"objects", "indexes", "rows"} => \A r \in todo[m] : Condemned(r)
        /\ at[m] \in {"indexes", "rows"} => repo[m] # 0 /\ Condemned(repo[m])

\* The index objects go after the prefix is empty ...
PrefixGoesFirst ==
    \A m \in Maintainers :
        at[m] \in {"indexes", "rows"} => \A p \in packs : home[p] # repo[m]

\* ... and the rows after every index object that they name.
IndexesGoBeforeRows ==
    \A m \in Maintainers :
        at[m] = "rows" => \A p \in listed : home[p] = repo[m] => p \notin indexed

\* RestorableIsWhole, push by push.
NamedIsStored ==
    \A p \in Pushes : home[p] # 0 /\ status[home[p]] \in {"live", "deleted"} =>
        (p \in segments => p \in packs) /\ (p \in listed => p \in indexed)

\* ErasedPrefixIsEmpty, push by push.
ErasedIsBare == \A p \in packs : home[p] # 0 => status[home[p]] # "erased"

Inv ==
    /\ IdleIsBlank
    /\ HomesExist
    /\ RunningIsWithin
    /\ RunningIsStored
    /\ PurgesTheCondemned
    /\ PrefixGoesFirst
    /\ IndexesGoBeforeRows
    /\ NamedIsStored
    /\ ErasedIsBare

-----------------------------------------------------------------------------
(* Each step keeps Inv: first what the step does, then the parts of Inv    *)
(* that it leaves alone, then one by one those that it can disturb.        *)

\* Calls that only resolve or end, and steps of nobody, leave all of it.
LEMMA StillKeepsInv ==
    ASSUME Inv, UNCHANGED <<status, work, home, objects, segments, listed, passes>>
    PROVE  Inv'
BY DEF Inv, IdleIsBlank, HomesExist, RunningIsWithin, RunningIsStored,
   PurgesTheCondemned, PrefixGoesFirst, IndexesGoBeforeRows, NamedIsStored,
   ErasedIsBare, Condemned, objects, passes

LEMMA CreateKeepsInv ==
    ASSUME Kinds, Inv, NEW k \in Keys, Create(k)
    PROVE  Inv'
<1>1. PICK r \in Repos :
        /\ status[r] \in {"none", "live"}
        /\ status' = [status EXCEPT ![r] = "live"]
        /\ UNCHANGED <<work, home, packs, indexed, segments, listed, at, repo, todo>>
  <2>1. CASE Holders(k) = {}
    <3>1. \A q \in NextId : q \in Repos /\ status[q] = "none"
      BY RepoBoundIsNatural DEF NextId, Repos
    <3> QED  BY <2>1, <3>1 DEF Create, objects, recorded, passes
  <2>2. CASE Holders(k) # {}
    BY <2>2 DEF Create, Holders, objects, recorded, passes
  <2> QED  BY <2>1, <2>2
<1>2. /\ IdleIsBlank' /\ RunningIsStored' /\ PrefixGoesFirst'
      /\ IndexesGoBeforeRows'
  BY <1>1 DEF Inv, IdleIsBlank, RunningIsStored, PrefixGoesFirst,
     IndexesGoBeforeRows
<1>3. HomesExist'
  BY <1>1, RepoBoundIsNatural DEF Kinds, Inv, HomesExist, Repos
<1>4. RunningIsWithin'
  BY <1>1, RepoBoundIsNatural DEF Kinds, Inv, RunningIsWithin, InFlight, Repos
<1>5. PurgesTheCondemned'
  BY <1>1, RepoBoundIsNatural DEF Kinds, Inv, PurgesTheCondemned, Condemned,
     Repos
<1>6. NamedIsStored'
  BY <1>1, RepoBoundIsNatural DEF Kinds, Inv, NamedIsStored, HomesExist, Repos
<1>7. ErasedIsBare'
  BY <1>1, RepoBoundIsNatural DEF Kinds, Inv, ErasedIsBare, Repos
<1> QED  BY <1>2, <1>3, <1>4, <1>5, <1>6, <1>7 DEF Inv

LEMMA MarkDeletedKeepsInv ==
    ASSUME Kinds, Inv, NEW c \in Callers, call[c] \in 0 .. MaxRepo, MarkDeleted(c)
    PROVE  Inv'
<1>1. CASE status[call[c]] = "live"
  <2>1. /\ status' = [status EXCEPT ![call[c]] = "deleted"]
        /\ UNCHANGED <<work, home, packs, indexed, segments, listed, at, repo, todo>>
    BY <1>1 DEF MarkDeleted, Bury, objects, recorded, passes
  <2>2. IdleIsBlank' /\ RunningIsStored' /\ PrefixGoesFirst' /\ IndexesGoBeforeRows'
    BY <2>1 DEF Inv, IdleIsBlank, RunningIsStored, PrefixGoesFirst,
       IndexesGoBeforeRows
  <2>3. HomesExist' /\ RunningIsWithin'
    BY <2>1, RepoBoundIsNatural DEF Kinds, Inv, HomesExist, RunningIsWithin, Repos
  <2>4. PurgesTheCondemned'
    BY <1>1, <2>1, RepoBoundIsNatural
       DEF Kinds, Inv, PurgesTheCondemned, Condemned, Repos
  <2>5. NamedIsStored' /\ ErasedIsBare'
    BY <1>1, <2>1, RepoBoundIsNatural DEF Kinds, Inv, NamedIsStored, ErasedIsBare, Repos
  <2> QED  BY <2>2, <2>3, <2>4, <2>5 DEF Inv
<1>2. CASE status[call[c]] # "live"
  <2>1. UNCHANGED <<status, work, home, objects, segments, listed, passes>>
    BY <1>2 DEF MarkDeleted, recorded
  <2> QED  BY <2>1, StillKeepsInv
<1> QED  BY <1>1, <1>2

LEMMA RestoreKeepsInv ==
    ASSUME Kinds, Inv, NEW r \in Repos, Restore(r)
    PROVE  Inv'
<1>1. /\ status[r] = "deleted"
      /\ status' = [status EXCEPT ![r] = "live"]
      /\ UNCHANGED <<work, home, packs, indexed, segments, listed, at, repo, todo>>
  BY DEF Restore, objects, recorded, passes
<1>2. /\ IdleIsBlank' /\ RunningIsStored' /\ PrefixGoesFirst'
      /\ IndexesGoBeforeRows'
  BY <1>1 DEF Inv, IdleIsBlank, RunningIsStored, PrefixGoesFirst,
     IndexesGoBeforeRows
<1>3. HomesExist'
  BY <1>1, RepoBoundIsNatural DEF Kinds, Inv, HomesExist, Repos
<1>4. RunningIsWithin'
  BY <1>1, RepoBoundIsNatural DEF Kinds, Inv, RunningIsWithin, InFlight, Repos
<1>5. PurgesTheCondemned'
  BY <1>1, RepoBoundIsNatural DEF Kinds, Inv, PurgesTheCondemned, Condemned,
     Repos
<1>6. NamedIsStored'
  BY <1>1, RepoBoundIsNatural DEF Kinds, Inv, NamedIsStored, Repos
<1>7. ErasedIsBare'
  BY <1>1, RepoBoundIsNatural DEF Kinds, Inv, ErasedIsBare, Repos
<1> QED  BY <1>2, <1>3, <1>4, <1>5, <1>6, <1>7 DEF Inv

LEMMA LapseKeepsInv ==
    ASSUME Kinds, Inv, NEW r \in Repos, Lapse(r)
    PROVE  Inv'
<1>1. /\ status[r] = "deleted"
      /\ \A q \in Pushes : home[q] = r => work[q] \notin InFlight
      /\ status' = [status EXCEPT ![r] = "lapsed"]
      /\ UNCHANGED <<work, home, packs, indexed, segments, listed, at, repo, todo>>
  BY DEF Lapse, objects, recorded, passes
<1>2. /\ IdleIsBlank' /\ RunningIsStored' /\ PrefixGoesFirst'
      /\ IndexesGoBeforeRows'
  BY <1>1 DEF Inv, IdleIsBlank, RunningIsStored, PrefixGoesFirst,
     IndexesGoBeforeRows
<1>3. HomesExist'
  BY <1>1, RepoBoundIsNatural DEF Kinds, Inv, HomesExist, Repos
<1>4. RunningIsWithin'
  BY <1>1, RepoBoundIsNatural DEF Kinds, Inv, RunningIsWithin, InFlight, Repos
<1>5. PurgesTheCondemned'
  BY <1>1, RepoBoundIsNatural DEF Kinds, Inv, PurgesTheCondemned, Condemned,
     Repos
<1>6. NamedIsStored'
  BY <1>1, RepoBoundIsNatural DEF Kinds, Inv, NamedIsStored, Repos
<1>7. ErasedIsBare'
  BY <1>1, RepoBoundIsNatural DEF Kinds, Inv, ErasedIsBare, Repos
<1> QED  BY <1>2, <1>3, <1>4, <1>5, <1>6, <1>7 DEF Inv

LEMMA ResolveKeepsInv ==
    ASSUME Kinds, Inv, NEW p \in Pushes, NEW k \in Keys, Resolve(p, k)
    PROVE  Inv'
<1>1. PICK r \in Repos :
        /\ status[r] = "live"
        /\ home' = [home EXCEPT ![p] = r]
        /\ work[p] = "idle" /\ work' = [work EXCEPT ![p] = "resolved"]
        /\ UNCHANGED <<status, packs, indexed, segments, listed, at, repo, todo>>
  BY DEF Resolve, Holders, rows, objects, recorded, passes
<1>2. PurgesTheCondemned'
  BY <1>1 DEF Inv, PurgesTheCondemned, Condemned
<1>3. IdleIsBlank'
  BY <1>1 DEF Kinds, Inv, IdleIsBlank, InFlight
<1>4. HomesExist'
  BY <1>1, RepoBoundIsNatural DEF Kinds, Inv, HomesExist, Repos
<1>5. RunningIsWithin'
  BY <1>1, RepoBoundIsNatural DEF Kinds, Inv, RunningIsWithin, InFlight, Repos
<1>6. RunningIsStored'
  BY <1>1 DEF Kinds, Inv, RunningIsStored, InFlight
<1>7. PrefixGoesFirst'
  BY <1>1 DEF Kinds, Inv, PrefixGoesFirst, IdleIsBlank, InFlight
<1>8. IndexesGoBeforeRows'
  BY <1>1 DEF Kinds, Inv, IndexesGoBeforeRows, IdleIsBlank, InFlight
<1>9. NamedIsStored'
  BY <1>1, RepoBoundIsNatural DEF Kinds, Inv, NamedIsStored, IdleIsBlank,
     InFlight, Repos
<1>10. ErasedIsBare'
  BY <1>1, RepoBoundIsNatural DEF Kinds, Inv, ErasedIsBare, IdleIsBlank,
     InFlight, Repos
<1> QED  BY <1>2, <1>3, <1>4, <1>5, <1>6, <1>7, <1>8, <1>9, <1>10 DEF Inv

LEMMA PutObjectsKeepsInv ==
    ASSUME Kinds, Inv, NEW p \in Pushes, PutObjects(p)
    PROVE  Inv'
<1>1. /\ work[p] = "resolved" /\ work' = [work EXCEPT ![p] = "stored"]
      /\ packs' = packs \union {p}
      /\ UNCHANGED <<status, home, indexed, segments, listed, at, repo, todo>>
  BY DEF PutObjects, Advance, rows, recorded, passes
<1>2. HomesExist' /\ PurgesTheCondemned' /\ IndexesGoBeforeRows'
  BY <1>1 DEF Inv, HomesExist, PurgesTheCondemned, IndexesGoBeforeRows,
     Condemned
<1>3. IdleIsBlank'
  BY <1>1 DEF Kinds, Inv, IdleIsBlank, InFlight
<1>4. RunningIsWithin'
  BY <1>1, RepoBoundIsNatural DEF Kinds, Inv, RunningIsWithin, InFlight, Repos
<1>5. RunningIsStored'
  BY <1>1 DEF Kinds, Inv, RunningIsStored, InFlight
<1>6. PrefixGoesFirst'
  BY <1>1, RepoBoundIsNatural DEF Kinds, Inv, PrefixGoesFirst,
     RunningIsWithin, PurgesTheCondemned, Condemned, InFlight, Repos
<1>7. NamedIsStored'
  BY <1>1, RepoBoundIsNatural DEF Kinds, Inv, NamedIsStored, Repos
<1>8. ErasedIsBare'
  BY <1>1, RepoBoundIsNatural DEF Kinds, Inv, ErasedIsBare, RunningIsWithin,
     InFlight, Repos
<1> QED  BY <1>2, <1>3, <1>4, <1>5, <1>6, <1>7, <1>8 DEF Inv

LEMMA NumberKeepsInv ==
    ASSUME Kinds, Inv, NEW p \in Pushes, Number(p)
    PROVE  Inv'
<1>1. /\ work[p] = "stored" /\ work' = [work EXCEPT ![p] = "numbered"]
      /\ UNCHANGED <<status, home, packs, indexed, segments, listed, at, repo, todo>>
  BY DEF Number, Advance, rows, objects, passes
<1>2. /\ HomesExist' /\ PurgesTheCondemned' /\ PrefixGoesFirst'
      /\ IndexesGoBeforeRows' /\ NamedIsStored' /\ ErasedIsBare'
  BY <1>1 DEF Inv, HomesExist, PurgesTheCondemned, PrefixGoesFirst,
     IndexesGoBeforeRows, NamedIsStored, ErasedIsBare, Condemned
<1>3. IdleIsBlank'
  BY <1>1 DEF Kinds, Inv, IdleIsBlank, InFlight
<1>4. RunningIsWithin'
  BY <1>1, RepoBoundIsNatural DEF Kinds, Inv, RunningIsWithin, InFlight, Repos
<1>5. RunningIsStored'
  BY <1>1 DEF Kinds, Inv, RunningIsStored, InFlight
<1> QED  BY <1>2, <1>3, <1>4, <1>5 DEF Inv

LEMMA PrepareKeepsInv ==
    ASSUME Kinds, Inv, NEW p \in Pushes, NEW large \in BOOLEAN, Prepare(p, large)
    PROVE  Inv'
<1>1. /\ work[p] = "numbered" /\ work' = [work EXCEPT ![p] = "prepared"]
      /\ indexed' \in {indexed, indexed \union {p}}
      /\ UNCHANGED <<status, home, packs, segments, listed, at, repo, todo>>
  BY DEF Prepare, Advance, rows, recorded, passes
<1>2. HomesExist' /\ PurgesTheCondemned' /\ PrefixGoesFirst' /\ ErasedIsBare'
  BY <1>1 DEF Inv, HomesExist, PurgesTheCondemned, PrefixGoesFirst,
     ErasedIsBare, Condemned
<1>3. IdleIsBlank'
  BY <1>1 DEF Kinds, Inv, IdleIsBlank, InFlight
<1>4. RunningIsWithin'
  BY <1>1, RepoBoundIsNatural DEF Kinds, Inv, RunningIsWithin, InFlight, Repos
<1>5. RunningIsStored'
  BY <1>1 DEF Kinds, Inv, RunningIsStored, InFlight
<1>6. IndexesGoBeforeRows'
  BY <1>1, RepoBoundIsNatural DEF Kinds, Inv, IndexesGoBeforeRows,
     RunningIsWithin, PurgesTheCondemned, Condemned, InFlight, Repos
<1>7. NamedIsStored'
  BY <1>1, RepoBoundIsNatural DEF Kinds, Inv, NamedIsStored, Repos
<1> QED  BY <1>2, <1>3, <1>4, <1>5, <1>6, <1>7 DEF Inv

LEMMA JournalKeepsInv ==
    ASSUME Kinds, Inv, NEW p \in Pushes, Journal(p)
    PROVE  Inv'
<1>1. /\ work[p] = "prepared" /\ work' = [work EXCEPT ![p] = "journaled"]
      /\ segments' = segments \union {p}
      /\ listed' = listed \union ({p} \intersect indexed)
      /\ UNCHANGED <<status, home, packs, indexed, at, repo, todo>>
  BY DEF Journal, Advance, rows, objects, passes
<1>2. HomesExist' /\ PurgesTheCondemned' /\ PrefixGoesFirst' /\ ErasedIsBare'
  BY <1>1 DEF Inv, HomesExist, PurgesTheCondemned, PrefixGoesFirst,
     ErasedIsBare, Condemned
<1>3. IdleIsBlank'
  BY <1>1 DEF Kinds, Inv, IdleIsBlank, InFlight
<1>4. RunningIsWithin'
  BY <1>1, RepoBoundIsNatural DEF Kinds, Inv, RunningIsWithin, InFlight, Repos
<1>5. RunningIsStored'
  BY <1>1 DEF Kinds, Inv, RunningIsStored, InFlight
<1>6. IndexesGoBeforeRows'
  BY <1>1, RepoBoundIsNatural DEF Kinds, Inv, IndexesGoBeforeRows,
     RunningIsWithin, PurgesTheCondemned, Condemned, InFlight, Repos
<1>7. NamedIsStored'
  BY <1>1, RepoBoundIsNatural DEF Kinds, Inv, NamedIsStored, RunningIsStored,
     InFlight, Repos
<1> QED  BY <1>2, <1>3, <1>4, <1>5, <1>6, <1>7 DEF Inv

LEMMA MoveRefsKeepsInv ==
    ASSUME Kinds, Inv, NEW p \in Pushes, MoveRefs(p)
    PROVE  Inv'
<1>1. /\ work[p] = "journaled" /\ work' = [work EXCEPT ![p] = "over"]
      /\ UNCHANGED <<status, home, packs, indexed, segments, listed, at, repo, todo>>
  BY DEF MoveRefs, Advance, rows, objects, passes
<1>2. /\ HomesExist' /\ PurgesTheCondemned' /\ PrefixGoesFirst'
      /\ IndexesGoBeforeRows' /\ NamedIsStored' /\ ErasedIsBare'
  BY <1>1 DEF Inv, HomesExist, PurgesTheCondemned, PrefixGoesFirst,
     IndexesGoBeforeRows, NamedIsStored, ErasedIsBare, Condemned
<1>3. IdleIsBlank'
  BY <1>1 DEF Kinds, Inv, IdleIsBlank, InFlight
<1>4. RunningIsWithin'
  BY <1>1, RepoBoundIsNatural DEF Kinds, Inv, RunningIsWithin, InFlight, Repos
<1>5. RunningIsStored'
  BY <1>1 DEF Kinds, Inv, RunningIsStored, InFlight
<1> QED  BY <1>2, <1>3, <1>4, <1>5 DEF Inv

LEMMA FailKeepsInv ==
    ASSUME Kinds, Inv, NEW p \in Pushes, Fail(p)
    PROVE  Inv'
<1>1. /\ work[p] \in InFlight /\ work' = [work EXCEPT ![p] = "over"]
      /\ UNCHANGED <<status, home, packs, indexed, segments, listed, at, repo, todo>>
  BY DEF Fail, rows, objects, recorded, passes
<1>2. /\ HomesExist' /\ PurgesTheCondemned' /\ PrefixGoesFirst'
      /\ IndexesGoBeforeRows' /\ NamedIsStored' /\ ErasedIsBare'
  BY <1>1 DEF Inv, HomesExist, PurgesTheCondemned, PrefixGoesFirst,
     IndexesGoBeforeRows, NamedIsStored, ErasedIsBare, Condemned
<1>3. IdleIsBlank'
  BY <1>1 DEF Kinds, Inv, IdleIsBlank, InFlight
<1>4. RunningIsWithin'
  BY <1>1, RepoBoundIsNatural DEF Kinds, Inv, RunningIsWithin, InFlight, Repos
<1>5. RunningIsStored'
  BY <1>1 DEF Kinds, Inv, RunningIsStored, InFlight
<1> QED  BY <1>2, <1>3, <1>4, <1>5 DEF Inv

LEMMA ListDeletedKeepsInv ==
    ASSUME Kinds, Inv, NEW m \in Maintainers, ListDeleted(m)
    PROVE  Inv'
<1>1. /\ at' = [at EXCEPT ![m] = "objects"]
      /\ repo' = [repo EXCEPT ![m] = 0]
      /\ todo' = [todo EXCEPT ![m] = {r \in Repos : status[r] = "lapsed"}]
      /\ UNCHANGED <<status, work, home, packs, indexed, segments, listed>>
  BY DEF ListDeleted, Goto, rows, objects, recorded
<1>2. /\ IdleIsBlank' /\ HomesExist' /\ RunningIsWithin' /\ RunningIsStored'
      /\ NamedIsStored' /\ ErasedIsBare'
  BY <1>1 DEF Inv, IdleIsBlank, HomesExist, RunningIsWithin, RunningIsStored,
     NamedIsStored, ErasedIsBare
<1>3. PurgesTheCondemned'
  BY <1>1, RepoBoundIsNatural DEF Kinds, Inv, PurgesTheCondemned, Condemned,
     Repos
<1>4. PrefixGoesFirst'
  BY <1>1 DEF Kinds, Inv, PrefixGoesFirst
<1>5. IndexesGoBeforeRows'
  BY <1>1 DEF Kinds, Inv, IndexesGoBeforeRows
<1> QED  BY <1>2, <1>3, <1>4, <1>5 DEF Inv

LEMMA PurgeObjectsKeepsInv ==
    ASSUME Kinds, Inv, NEW m \in Maintainers, PurgeObjects(m)
    PROVE  Inv'
<1>1. PICK r \in todo[m] :
        /\ at[m] = "objects"
        /\ packs' = {p \in packs : home[p] # r}
        /\ at' = [at EXCEPT ![m] = "indexes"]
        /\ repo' = [repo EXCEPT ![m] = r]
        /\ todo' = [todo EXCEPT ![m] = todo[m] \ {r}]
        /\ UNCHANGED <<status, work, home, indexed, segments, listed>>
  BY DEF PurgeObjects, Goto, Oldest, Of, rows, recorded
<1>2. HomesExist' /\ RunningIsWithin'
  BY <1>1 DEF Inv, HomesExist, RunningIsWithin
<1>3. IdleIsBlank'
  BY <1>1 DEF Kinds, Inv, IdleIsBlank, InFlight
<1>4. RunningIsStored'
  BY <1>1, RepoBoundIsNatural DEF Kinds, Inv, RunningIsStored,
     RunningIsWithin, PurgesTheCondemned, Condemned, InFlight, Repos
<1>5. PurgesTheCondemned'
  BY <1>1, RepoBoundIsNatural DEF Kinds, Inv, PurgesTheCondemned, Condemned,
     Repos
<1>6. PrefixGoesFirst'
  BY <1>1 DEF Kinds, Inv, PrefixGoesFirst
<1>7. IndexesGoBeforeRows'
  BY <1>1 DEF Kinds, Inv, IndexesGoBeforeRows
<1>8. NamedIsStored'
  BY <1>1, RepoBoundIsNatural DEF Kinds, Inv, NamedIsStored,
     PurgesTheCondemned, Condemned, Repos
<1>9. ErasedIsBare'
  BY <1>1, RepoBoundIsNatural DEF Kinds, Inv, ErasedIsBare, Repos
<1> QED  BY <1>2, <1>3, <1>4, <1>5, <1>6, <1>7, <1>8, <1>9 DEF Inv

LEMMA FailObjectsKeepsInv ==
    ASSUME Kinds, Inv, NEW m \in Maintainers, FailObjects(m)
    PROVE  Inv'
<1>1. PICK r \in todo[m] :
        /\ at[m] = "objects"
        /\ packs' \subseteq packs
        /\ \A p \in packs : home[p] # r => p \in packs'
        /\ at' = [at EXCEPT ![m] = "idle"]
        /\ repo' = [repo EXCEPT ![m] = 0]
        /\ todo' = [todo EXCEPT ![m] = {}]
        /\ UNCHANGED <<status, work, home, indexed, segments, listed>>
  BY DEF FailObjects, Goto, Oldest, Of, rows, recorded
<1>2. HomesExist' /\ RunningIsWithin'
  BY <1>1 DEF Inv, HomesExist, RunningIsWithin
<1>3. IdleIsBlank'
  BY <1>1 DEF Kinds, Inv, IdleIsBlank, InFlight
<1>4. RunningIsStored'
  BY <1>1, RepoBoundIsNatural DEF Kinds, Inv, RunningIsStored,
     RunningIsWithin, PurgesTheCondemned, Condemned, InFlight, Repos
<1>5. PurgesTheCondemned'
  BY <1>1, RepoBoundIsNatural DEF Kinds, Inv, PurgesTheCondemned, Condemned,
     Repos
<1>6. PrefixGoesFirst'
  BY <1>1 DEF Kinds, Inv, PrefixGoesFirst
<1>7. IndexesGoBeforeRows'
  BY <1>1 DEF Kinds, Inv, IndexesGoBeforeRows
<1>8. NamedIsStored'
  BY <1>1, RepoBoundIsNatural DEF Kinds, Inv, NamedIsStored,
     PurgesTheCondemned, Condemned, Repos
<1>9. ErasedIsBare'
  BY <1>1, RepoBoundIsNatural DEF Kinds, Inv, ErasedIsBare, Repos
<1> QED  BY <1>2, <1>3, <1>4, <1>5, <1>6, <1>7, <1>8, <1>9 DEF Inv

LEMMA PurgeIndexesKeepsInv ==
    ASSUME Kinds, Inv, NEW m \in Maintainers, PurgeIndexes(m)
    PROVE  Inv'
<1>1. /\ at[m] = "indexes"
      /\ indexed' = {p \in indexed : p \in listed => home[p] # repo[m]}
      /\ at' = [at EXCEPT ![m] = "rows"]
      /\ repo' = [repo EXCEPT ![m] = repo[m]]
      /\ todo' = [todo EXCEPT ![m] = todo[m]]
      /\ UNCHANGED <<status, work, home, packs, segments, listed>>
  BY DEF PurgeIndexes, Goto, Of, rows, recorded
<1>2. HomesExist' /\ RunningIsWithin' /\ RunningIsStored' /\ ErasedIsBare'
  BY <1>1 DEF Inv, HomesExist, RunningIsWithin, RunningIsStored, ErasedIsBare
<1>3. IdleIsBlank'
  BY <1>1 DEF Kinds, Inv, IdleIsBlank, InFlight
<1>4. PurgesTheCondemned'
  BY <1>1, RepoBoundIsNatural DEF Kinds, Inv, PurgesTheCondemned, Condemned,
     Repos
<1>5. PrefixGoesFirst'
  BY <1>1 DEF Kinds, Inv, PrefixGoesFirst
<1>6. IndexesGoBeforeRows'
  BY <1>1 DEF Kinds, Inv, IndexesGoBeforeRows
<1>7. NamedIsStored'
  BY <1>1, RepoBoundIsNatural DEF Kinds, Inv, NamedIsStored,
     PurgesTheCondemned, Condemned, Repos
<1> QED  BY <1>2, <1>3, <1>4, <1>5, <1>6, <1>7 DEF Inv

LEMMA DeferKeepsInv ==
    ASSUME Kinds, Inv, NEW m \in Maintainers, Defer(m)
    PROVE  Inv'
<1>1. /\ at[m] = "indexes"
      /\ indexed' \subseteq indexed
      /\ \A p \in indexed : (p \in listed /\ home[p] = repo[m]) \/ p \in indexed'
      /\ at' = [at EXCEPT ![m] = "objects"]
      /\ repo' = [repo EXCEPT ![m] = 0]
      /\ todo' = [todo EXCEPT ![m] = todo[m]]
      /\ UNCHANGED <<status, work, home, packs, segments, listed>>
  BY DEF Defer, Goto, Of, rows, recorded
<1>2. HomesExist' /\ RunningIsWithin' /\ RunningIsStored' /\ ErasedIsBare'
  BY <1>1 DEF Inv, HomesExist, RunningIsWithin, RunningIsStored, ErasedIsBare
<1>3. IdleIsBlank'
  BY <1>1 DEF Kinds, Inv, IdleIsBlank, InFlight
<1>4. PurgesTheCondemned'
  BY <1>1, RepoBoundIsNatural DEF Kinds, Inv, PurgesTheCondemned, Condemned,
     Repos
<1>5. PrefixGoesFirst'
  BY <1>1 DEF Kinds, Inv, PrefixGoesFirst
<1>6. IndexesGoBeforeRows'
  BY <1>1 DEF Kinds, Inv, IndexesGoBeforeRows
<1>7. NamedIsStored'
  BY <1>1, RepoBoundIsNatural DEF Kinds, Inv, NamedIsStored,
     PurgesTheCondemned, Condemned, Repos
<1> QED  BY <1>2, <1>3, <1>4, <1>5, <1>6, <1>7 DEF Inv

LEMMA EraseKeepsInv ==
    ASSUME Kinds, Inv, NEW m \in Maintainers, Erase(m)
    PROVE  Inv'
<1>1. /\ at[m] = "rows"
      /\ status' = [status EXCEPT ![repo[m]] = "erased"]
      /\ segments' \subseteq segments /\ listed' \subseteq listed
      /\ at' = [at EXCEPT ![m] = "objects"]
      /\ repo' = [repo EXCEPT ![m] = 0]
      /\ todo' = [todo EXCEPT ![m] = todo[m]]
      /\ UNCHANGED <<work, home, packs, indexed>>
  BY DEF Erase, Goto, PurgeRows, PurgeLists, Of, objects
<1>2. RunningIsStored'
  BY <1>1 DEF Inv, RunningIsStored
<1>3. IdleIsBlank'
  BY <1>1 DEF Kinds, Inv, IdleIsBlank, InFlight
<1>4. HomesExist'
  BY <1>1, RepoBoundIsNatural DEF Kinds, Inv, HomesExist, Repos
<1>5. RunningIsWithin'
  BY <1>1, RepoBoundIsNatural DEF Kinds, Inv, RunningIsWithin,
     PurgesTheCondemned, Condemned, InFlight, Repos
<1>6. PurgesTheCondemned'
  BY <1>1, RepoBoundIsNatural DEF Kinds, Inv, PurgesTheCondemned, Condemned,
     Repos
<1>7. PrefixGoesFirst'
  BY <1>1 DEF Kinds, Inv, PrefixGoesFirst
<1>8. IndexesGoBeforeRows'
  BY <1>1 DEF Kinds, Inv, IndexesGoBeforeRows
<1>9. NamedIsStored'
  BY <1>1, RepoBoundIsNatural DEF Kinds, Inv, NamedIsStored, Repos
<1>10. ErasedIsBare'
  BY <1>1, RepoBoundIsNatural DEF Kinds, Inv, ErasedIsBare, PrefixGoesFirst,
     Repos
<1> QED  BY <1>2, <1>3, <1>4, <1>5, <1>6, <1>7, <1>8, <1>9, <1>10 DEF Inv

LEMMA FailPassKeepsInv ==
    ASSUME Kinds, Inv, NEW m \in Maintainers, FailPass(m)
    PROVE  Inv'
<1>1. /\ at' = [at EXCEPT ![m] = "idle"]
      /\ repo' = [repo EXCEPT ![m] = 0]
      /\ todo' = [todo EXCEPT ![m] = {}]
      /\ UNCHANGED <<status, work, home, packs, indexed, segments, listed>>
  BY DEF FailPass, Goto, rows, objects, recorded
<1>2. /\ IdleIsBlank' /\ HomesExist' /\ RunningIsWithin' /\ RunningIsStored'
      /\ NamedIsStored' /\ ErasedIsBare'
  BY <1>1 DEF Inv, IdleIsBlank, HomesExist, RunningIsWithin, RunningIsStored,
     NamedIsStored, ErasedIsBare
<1>3. PurgesTheCondemned'
  BY <1>1, RepoBoundIsNatural DEF Kinds, Inv, PurgesTheCondemned, Condemned,
     Repos
<1>4. PrefixGoesFirst'
  BY <1>1 DEF Kinds, Inv, PrefixGoesFirst
<1>5. IndexesGoBeforeRows'
  BY <1>1 DEF Kinds, Inv, IndexesGoBeforeRows
<1> QED  BY <1>2, <1>3, <1>4, <1>5 DEF Inv

LEMMA ListLiveKeepsInv ==
    ASSUME Kinds, Inv, NEW m \in Maintainers, ListLive(m)
    PROVE  Inv'
<1>1. /\ at' = [at EXCEPT ![m] = "tending"]
      /\ repo' = [repo EXCEPT ![m] = 0]
      /\ todo' = [todo EXCEPT ![m] = {r \in Repos : status[r] = "live"}]
      /\ UNCHANGED <<status, work, home, packs, indexed, segments, listed>>
  BY DEF ListLive, Goto, rows, objects, recorded
<1>2. /\ IdleIsBlank' /\ HomesExist' /\ RunningIsWithin' /\ RunningIsStored'
      /\ NamedIsStored' /\ ErasedIsBare'
  BY <1>1 DEF Inv, IdleIsBlank, HomesExist, RunningIsWithin, RunningIsStored,
     NamedIsStored, ErasedIsBare
<1>3. PurgesTheCondemned'
  BY <1>1, RepoBoundIsNatural DEF Kinds, Inv, PurgesTheCondemned, Condemned,
     Repos
<1>4. PrefixGoesFirst'
  BY <1>1 DEF Kinds, Inv, PrefixGoesFirst
<1>5. IndexesGoBeforeRows'
  BY <1>1 DEF Kinds, Inv, IndexesGoBeforeRows
<1> QED  BY <1>2, <1>3, <1>4, <1>5 DEF Inv

LEMMA TendKeepsInv ==
    ASSUME Kinds, Inv, NEW m \in Maintainers, Tend(m)
    PROVE  Inv'
<1>1. PICK r \in todo[m] :
        /\ packs' \subseteq packs /\ indexed' \subseteq indexed
        /\ \A p \in packs : p \in segments \/ work[p] \in InFlight => p \in packs'
        /\ \A p \in indexed : p \in listed => p \in indexed'
        /\ at' = [at EXCEPT ![m] = "tending"]
        /\ repo' = [repo EXCEPT ![m] = 0]
        /\ todo' = [todo EXCEPT ![m] = todo[m] \ {r}]
        /\ UNCHANGED <<status, work, home, segments, listed>>
  BY DEF Tend, Goto, Stray, Of, rows, recorded
<1>2. HomesExist' /\ RunningIsWithin'
  BY <1>1 DEF Inv, HomesExist, RunningIsWithin
<1>3. IdleIsBlank'
  BY <1>1 DEF Kinds, Inv, IdleIsBlank, InFlight
<1>4. RunningIsStored'
  BY <1>1 DEF Kinds, Inv, RunningIsStored, InFlight
<1>5. PurgesTheCondemned'
  BY <1>1, RepoBoundIsNatural DEF Kinds, Inv, PurgesTheCondemned, Condemned,
     Repos
<1>6. PrefixGoesFirst'
  BY <1>1 DEF Kinds, Inv, PrefixGoesFirst
<1>7. IndexesGoBeforeRows'
  BY <1>1 DEF Kinds, Inv, IndexesGoBeforeRows
<1>8. NamedIsStored'
  BY <1>1, RepoBoundIsNatural DEF Kinds, Inv, NamedIsStored, Repos
<1>9. ErasedIsBare'
  BY <1>1, RepoBoundIsNatural DEF Kinds, Inv, ErasedIsBare, Repos
<1> QED  BY <1>2, <1>3, <1>4, <1>5, <1>6, <1>7, <1>8, <1>9 DEF Inv

LEMMA EndPassKeepsInv ==
    ASSUME Kinds, Inv, NEW m \in Maintainers, EndPass(m)
    PROVE  Inv'
<1>1. /\ at' = [at EXCEPT ![m] = "idle"]
      /\ repo' = [repo EXCEPT ![m] = 0]
      /\ todo' = [todo EXCEPT ![m] = {}]
      /\ UNCHANGED <<status, work, home, packs, indexed, segments, listed>>
  BY DEF EndPass, Goto, rows, objects, recorded
<1>2. /\ IdleIsBlank' /\ HomesExist' /\ RunningIsWithin' /\ RunningIsStored'
      /\ NamedIsStored' /\ ErasedIsBare'
  BY <1>1 DEF Inv, IdleIsBlank, HomesExist, RunningIsWithin, RunningIsStored,
     NamedIsStored, ErasedIsBare
<1>3. PurgesTheCondemned'
  BY <1>1, RepoBoundIsNatural DEF Kinds, Inv, PurgesTheCondemned, Condemned,
     Repos
<1>4. PrefixGoesFirst'
  BY <1>1 DEF Kinds, Inv, PrefixGoesFirst
<1>5. IndexesGoBeforeRows'
  BY <1>1 DEF Kinds, Inv, IndexesGoBeforeRows
<1> QED  BY <1>2, <1>3, <1>4, <1>5 DEF Inv

-----------------------------------------------------------------------------
LEMMA RepoIds ==
    /\ 0 \in 0 .. MaxRepo /\ 0 \notin Repos
    /\ \A r : r \in Repos <=> r \in 0 .. MaxRepo /\ r # 0
BY RepoBoundIsNatural DEF Repos

\* The types are kept whatever else holds.
LEMMA CallsKeepTypes == ASSUME TypeOK, Calling PROVE TypeOK'
<1> USE RepoIds
<1>1. ASSUME NEW k \in Keys, Create(k) PROVE TypeOK'
  <2>1. PICK r \in Repos :
          /\ status' = [status EXCEPT ![r] = "live"]
          /\ key' = [key EXCEPT ![r] = k]
          /\ counters' = counters \union {r}
          /\ UNCHANGED <<graves, call, work, home, objects, recorded, passes>>
    BY <1>1 DEF Create, Holders, NextId, InsertCounters
  <2> QED  BY <2>1 DEF TypeOK, objects, recorded, passes
<1>2. ASSUME NEW c \in Callers, NEW k \in Keys, Held(c, k) PROVE TypeOK'
  BY <1>2 DEF TypeOK, Held, Holders, rows, objects, recorded, passes
<1>3. ASSUME NEW c \in Callers, MarkDeleted(c) PROVE TypeOK'
  <2>1. call[c] \in Repos
    BY <1>3 DEF TypeOK, MarkDeleted
  <2>2. CASE status[call[c]] = "live"
    <3>1. graves' = Append(graves, call[c]) /\ graves \in Seq(Repos)
      BY <1>3, <2>2 DEF TypeOK, MarkDeleted, Bury
    <3>2. graves' \in Seq(Repos)
      BY <2>1, <3>1
    <3>3. status' = [status EXCEPT ![call[c]] = "deleted"]
      BY <1>3, <2>2 DEF MarkDeleted, Bury
    <3> QED  BY <1>3, <3>2, <3>3 DEF TypeOK, MarkDeleted, objects, recorded, passes
  <2>3. CASE status[call[c]] # "live"
    BY <1>3, <2>3 DEF TypeOK, MarkDeleted, objects, recorded, passes
  <2> QED  BY <2>2, <2>3
<1>4. ASSUME NEW c \in Callers, LoseDelete(c) PROVE TypeOK'
  BY <1>4 DEF TypeOK, LoseDelete, rows, objects, recorded, passes
<1> QED  BY <1>1, <1>2, <1>3, <1>4 DEF Calling

LEMMA AgingKeepsTypes == ASSUME TypeOK, Aging PROVE TypeOK'
<1>1. ASSUME NEW r \in Repos, Restore(r) PROVE TypeOK'
  <2>1. PICK i \in DOMAIN graves : graves' = RemoveAt(graves, i)
    BY <1>1 DEF Restore
  <2>2. graves' \in Seq(Repos)
    <3>1. graves \in Seq(Repos) /\ i \in 1 .. Len(graves)
      <4>1. graves \in Seq(Repos)  BY DEF TypeOK
      <4> QED  BY <2>1, <4>1, LenProperties
    <3>2. /\ SubSeq(graves, 1, i - 1) \in Seq(Repos)
          /\ SubSeq(graves, i + 1, Len(graves)) \in Seq(Repos)
      BY <3>1, SubSeqProperties
    <3> QED  BY <2>1, <3>2, ConcatProperties DEF RemoveAt
  <2> QED  BY <1>1, <2>2 DEF TypeOK, Restore, objects, recorded, passes
<1>2. ASSUME NEW r \in Repos, Lapse(r) PROVE TypeOK'
  BY <1>2 DEF TypeOK, Lapse, objects, recorded, passes
<1> QED  BY <1>1, <1>2 DEF Aging

LEMMA PushesKeepTypes == ASSUME TypeOK, Pushing PROVE TypeOK'
<1> USE DEF TypeOK, InFlight, Advance, rows, objects, recorded, passes
<1>1. ASSUME NEW p \in Pushes, NEW k \in Keys, Resolve(p, k) PROVE TypeOK'
  BY <1>1, RepoIds DEF Resolve, Holders
<1>2. ASSUME NEW p \in Pushes, PutObjects(p) PROVE TypeOK'
  BY <1>2 DEF PutObjects
<1>3. ASSUME NEW p \in Pushes, Number(p) PROVE TypeOK'
  BY <1>3 DEF Number
<1>4. ASSUME NEW p \in Pushes, NEW large \in BOOLEAN, Prepare(p, large) PROVE TypeOK'
  BY <1>4 DEF Prepare
<1>5. ASSUME NEW p \in Pushes, Journal(p) PROVE TypeOK'
  BY <1>5 DEF Journal
<1>6. ASSUME NEW p \in Pushes, MoveRefs(p) PROVE TypeOK'
  BY <1>6 DEF MoveRefs
<1>7. ASSUME NEW p \in Pushes, Fail(p) PROVE TypeOK'
  BY <1>7 DEF Fail
<1> QED  BY <1>1, <1>2, <1>3, <1>4, <1>5, <1>6, <1>7 DEF Pushing

LEMMA PassesKeepTypes ==
    ASSUME TypeOK, NEW m \in Maintainers, Purging(m) \/ Tending(m)
    PROVE  TypeOK'
<1> USE RepoIds DEF TypeOK, Goto, rows, objects, recorded
<1>0. \A r \in todo[m] : r \in 0 .. MaxRepo
  OBVIOUS
<1>1. CASE ListDeleted(m)   BY <1>1 DEF ListDeleted
<1>2. CASE PurgeObjects(m)
  <2>1. PICK r \in todo[m] :
          /\ packs' \subseteq packs
          /\ Goto(m, "indexes", r, todo[m] \ {r})
          /\ UNCHANGED <<rows, call, work, home, indexed, recorded>>
    BY <1>2 DEF PurgeObjects, Oldest
  <2> QED  BY <1>0, <2>1
<1>3. CASE FailObjects(m)   BY <1>3 DEF FailObjects, Oldest, Of
<1>4. CASE PurgeIndexes(m)  BY <1>4 DEF PurgeIndexes, Of
<1>5. CASE Defer(m)         BY <1>5 DEF Defer, Of
<1>6. CASE Erase(m)         BY <1>6 DEF Erase, PurgeRows, PurgeLists, Of
<1>7. CASE FailPass(m)      BY <1>7 DEF FailPass
<1>8. CASE ListLive(m)      BY <1>8 DEF ListLive
<1>9. CASE Tend(m)
  <2>1. PICK r \in todo[m] :
          /\ packs' \subseteq packs /\ indexed' \subseteq indexed
          /\ Goto(m, "tending", 0, todo[m] \ {r})
          /\ UNCHANGED <<rows, call, work, home, recorded>>
    BY <1>9 DEF Tend
  <2> QED  BY <2>1
<1>10. CASE EndPass(m)      BY <1>10 DEF EndPass
<1> QED
  BY <1>1, <1>2, <1>3, <1>4, <1>5, <1>6, <1>7, <1>8, <1>9, <1>10 DEF Purging, Tending

\* Every variable of the repositories' rows, the pushes and the passes keeps
\* its type: what the calls, pushes and passes write is what they may write.
THEOREM TypeCorrect == Spec => []TypeOK
<1>1. Init => TypeOK
  <2>1. <<>> \in Seq(Repos)
    OBVIOUS
  <2>2. ASSUME Init PROVE TypeOK
    BY <2>1, <2>2, RepoIds DEF Init, TypeOK, InFlight
  <2> QED  BY <2>2
<1>2. TypeOK /\ [Next]_vars => TypeOK'
  <2>1. ASSUME TypeOK, UNCHANGED vars PROVE TypeOK'
    BY <2>1 DEF TypeOK, vars, rows, objects, recorded, passes
  <2> QED
    BY <2>1, CallsKeepTypes, AgingKeepsTypes, PushesKeepTypes, PassesKeepTypes DEF Next
<1> QED  BY <1>1, <1>2, PTL DEF Spec

-----------------------------------------------------------------------------
LEMMA InitInv == Init => Inv
BY RepoBoundIsNatural
   DEF Init, Inv, IdleIsBlank, HomesExist, RunningIsWithin, RunningIsStored,
   PurgesTheCondemned, PrefixGoesFirst, IndexesGoBeforeRows, NamedIsStored,
   ErasedIsBare, InFlight

LEMMA NextKeepsInv == ASSUME TypeOK, Inv, [Next]_vars PROVE Inv'
<1>1. Kinds
  BY DEF TypeOK, Kinds
<1>2. CASE Calling
  <2>1. \A c \in Callers : call[c] \in 0 .. MaxRepo
    BY DEF TypeOK
  <2>2. ASSUME NEW c \in Callers, NEW k \in Keys, Held(c, k) PROVE Inv'
    BY <2>2, StillKeepsInv DEF Held, rows, recorded
  <2>3. ASSUME NEW c \in Callers, LoseDelete(c) PROVE Inv'
    BY <2>3, StillKeepsInv DEF LoseDelete, rows, recorded
  <2> QED
    BY <1>1, <1>2, <2>1, <2>2, <2>3, CreateKeepsInv, MarkDeletedKeepsInv DEF Calling
<1>3. CASE Aging
  BY <1>1, <1>3, RestoreKeepsInv, LapseKeepsInv DEF Aging
<1>4. CASE Pushing
  BY <1>1, <1>4, ResolveKeepsInv, PutObjectsKeepsInv, NumberKeepsInv,
     PrepareKeepsInv, JournalKeepsInv, MoveRefsKeepsInv, FailKeepsInv DEF Pushing
<1>5. ASSUME NEW m \in Maintainers, Purging(m) PROVE Inv'
  BY <1>1, <1>5, ListDeletedKeepsInv, PurgeObjectsKeepsInv, FailObjectsKeepsInv,
     PurgeIndexesKeepsInv, DeferKeepsInv, EraseKeepsInv, FailPassKeepsInv DEF Purging
<1>6. ASSUME NEW m \in Maintainers, Tending(m) PROVE Inv'
  BY <1>1, <1>6, ListLiveKeepsInv, TendKeepsInv, EndPassKeepsInv DEF Tending
<1>7. CASE UNCHANGED vars
  BY <1>7, StillKeepsInv DEF vars, rows, recorded
<1> QED  BY <1>2, <1>3, <1>4, <1>5, <1>6, <1>7 DEF Next

LEMMA Invariance == Spec => []Inv
<1>1. TypeOK /\ Inv /\ [Next]_vars => Inv'
  BY NextKeepsInv
<1> QED  BY <1>1, InitInv, TypeCorrect, PTL DEF Spec

\* Whatever runs at the same time, neither a purge nor a sweep takes an object
\* that a row of a live or a restorable repository names.
THEOREM RestorableStaysWhole == Spec => []RestorableIsWhole
<1>1. TypeOK /\ Inv => RestorableIsWhole
  BY RepoIds DEF TypeOK, Inv, NamedIsStored, RestorableIsWhole, Of
<1> QED  BY <1>1, TypeCorrect, Invariance, PTL

\* Nothing is left, and nothing comes to lie, under the prefix of an erased
\* repository: pushes that crashed in it and purges that were interrupted or
\* ran twice included.
THEOREM ErasedStaysEmpty == Spec => []ErasedPrefixIsEmpty
<1>1. Inv => ErasedPrefixIsEmpty
  BY RepoBoundIsNatural DEF Inv, ErasedIsBare, ErasedPrefixIsEmpty, Of, Repos
<1> QED  BY <1>1, Invariance, PTL

LEMMA OnlyEraseErases ==
    ASSUME TypeOK, [Next]_vars, NEW r \in Repos, status[r] = "lapsed", status'[r] = "erased"
    PROVE  \E m \in Maintainers : Erase(m) /\ repo[m] = r
<1>1. ASSUME Calling PROVE status'[r] # "erased"
  BY <1>1 DEF Calling, Create, Held, MarkDeleted, LoseDelete, Bury, TypeOK, rows
<1>2. ASSUME Aging PROVE status'[r] # "erased"
  BY <1>2 DEF Aging, Restore, Lapse, TypeOK
<1>3. ASSUME Pushing PROVE status'[r] # "erased"
  BY <1>3 DEF Pushing, Resolve, PutObjects, Number, Prepare, Journal, MoveRefs,
     Fail, Advance, rows
<1>4. ASSUME NEW m \in Maintainers, Tending(m) PROVE status'[r] # "erased"
  BY <1>4 DEF Tending, ListLive, Tend, EndPass, rows
<1>5. ASSUME NEW m \in Maintainers, Purging(m), ~Erase(m) PROVE status'[r] # "erased"
  BY <1>5 DEF Purging, ListDeleted, PurgeObjects, FailObjects, PurgeIndexes,
     Defer, FailPass, rows
<1>6. ASSUME NEW m \in Maintainers, Erase(m), repo[m] # r PROVE status'[r] # "erased"
  BY <1>6 DEF Erase, TypeOK
<1>7. ASSUME UNCHANGED vars PROVE status'[r] # "erased"
  BY <1>7 DEF vars, rows
<1> QED
  BY <1>1, <1>2, <1>3, <1>4, <1>5, <1>6, <1>7 DEF Next

\* The rows of a repository go only when no object in the bucket needs them to
\* be found, whatever failed before and whichever pass erases it.
THEOREM EraseStrandsNothing == Spec => EraseStrandsNothingNamed
<1>1. ASSUME TypeOK, Inv, [Next]_vars
      PROVE  \A r \in Repos : status[r] = "lapsed" /\ status'[r] = "erased" =>
                 Of(listed, r) \intersect indexed = {}
  <2> SUFFICES ASSUME NEW r \in Repos, status[r] = "lapsed", status'[r] = "erased"
               PROVE  Of(listed, r) \intersect indexed = {}
    OBVIOUS
  <2>1. PICK m \in Maintainers : Erase(m) /\ repo[m] = r
    BY <1>1, OnlyEraseErases
  <2>2. at[m] = "rows"
    BY <2>1 DEF Erase
  <2> QED  BY <1>1, <2>1, <2>2 DEF Inv, IndexesGoBeforeRows, Of
<1>2. TypeOK /\ Inv /\ [Next]_vars =>
        [\A r \in Repos : status[r] = "lapsed" /\ status'[r] = "erased" =>
            Of(listed, r) \intersect indexed = {}]_vars
  BY <1>1
<1> QED  BY <1>2, TypeCorrect, Invariance, PTL DEF Spec, EraseStrandsNothingNamed

=============================================================================
