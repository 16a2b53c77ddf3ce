--------------------------- MODULE Gather_proofs ---------------------------
(***************************************************************************)
(* Proofs about Gather, for any number of commits, segments, pushes,       *)
(* gatherers and readers, any packs and any bounds on a gather.            *)
(*                                                                         *)
(* A segment goes one way: its id is taken, its bytes are put once, its    *)
(* row is made live by the one push or gather that put them, retired by a  *)
(* gather, dropped, and then nobody names it.  The invariant says so of    *)
(* whoever holds a segment at each stage, and that what a gather has read  *)
(* of the pack index stays enough: every entry that lies in its sources is *)
(* among the images it will move, because a segment with a row receives no *)
(* entry any more.                                                         *)
(*                                                                         *)
(* Offsets are whatever Bytes gives: nothing below depends on the sum, only *)
(* on its being the same when the entries are relocated and when the bytes *)
(* are copied.                                                             *)
(***************************************************************************)
EXTENDS Gather, FiniteSetTheorems, TLAPS

IsOn(f, S) == f = [x \in S |-> f[x]]

\* What the proofs need of the types: the domains, and the segments.
Kinds ==
    /\ bucket \subseteq Segs /\ aged \subseteq Segs /\ ripe \subseteq Segs
    /\ IsOn(content, Segs)
    /\ row \in [Segs -> {"none", "live", "retired"}]
    /\ IsOn(packAt, Commits) /\ \A c \in Commits : packAt[c].seg \in 0 .. MaxSeg
    /\ IsOn(objectAt, Commits) /\ \A c \in Commits : objectAt[c].seg \in 0 .. MaxSeg
    /\ push \in [Pushes -> {"idle", "uploaded", "planned", "over"}]
    /\ seg \in [Pushes -> 0 .. MaxSeg]
    /\ insert \in [Pushes -> SUBSET Commits]
    /\ gather \in [Gatherers -> {"idle", "planned", "imaged", "placed", "copied"}]
    /\ sources \in [Gatherers -> SUBSET Segs]
    /\ into \in [Gatherers -> 0 .. MaxSeg]
    /\ IsOn(images, Gatherers) /\ IsOn(places, Gatherers)
    /\ listed \subseteq Segs
    /\ IsOn(reading, Readers)

Going(p) == push[p] \in {"uploaded", "planned"}
Read(g) == gather[g] \in {"imaged", "placed", "copied"}

\* An object has bytes, and a row stands for an object.
ObjectsHaveBytes ==
    /\ \A s \in bucket : content[s] # {}
    /\ \A s \in Segs : row[s] # "none" => s \in bucket

\* A push that has uploaded alone knows its segment.
UploadsAreHeld ==
    /\ \A p \in Pushes : push[p] = "idle" => seg[p] = 0
    /\ \A p \in Pushes : Going(p) =>
         /\ seg[p] \in bucket \ aged /\ row[seg[p]] = "none"
         /\ content[seg[p]] = PackOf[p]
         /\ \A q \in Pushes : Going(q) /\ seg[q] = seg[p] => q = p
         /\ \A g \in Gatherers : into[g] # seg[p]

\* A push records commits of its pack.
InsertsAreOwn ==
    \A p \in Pushes : push[p] = "planned" =>
        \A c \in insert[p] : \E x \in PackOf[p] : x.commit = c

\* A gather alone knows the segment it copies into.
CopiesAreHeld ==
    \A g \in Gatherers : gather[g] # "idle" =>
        /\ into[g] \in Segs \ aged /\ row[into[g]] = "none"
        /\ gather[g] # "copied" => content[into[g]] = {} /\ into[g] \notin bucket
        /\ gather[g] = "copied" => content[into[g]] = Copied(g) /\ into[g] \in bucket
        /\ \A h \in Gatherers : into[h] = into[g] => h = g

\* A gather that is not running holds nothing.
IdleHoldsNothing ==
    \A g \in Gatherers : gather[g] = "idle" =>
        /\ into[g] = 0 /\ sources[g] = {}
        /\ \A c \in Commits : images[g][c] = Nowhere /\ places[g][c] = Nowhere

\* What it copies from has its row, live or retired by another gather, is
\* older than the copy, and will not be dropped meanwhile.
SourcesAreKept ==
    \A g \in Gatherers :
        /\ gather[g] # "idle" => sources[g] # {}
        /\ \A s \in sources[g] : row[s] # "none" /\ s \notin ripe /\ s < into[g]

\* What it will write of either index is in the copy.
IsInCopy(g, c, at) ==
    at # Nowhere => at.seg = into[g] /\ [commit |-> c, off |-> at.off] \in Copied(g)

MovesAreInTheCopy ==
    \A g \in Gatherers : \A c \in Commits :
        IsInCopy(g, c, images[g][c]) /\ IsInCopy(g, c, places[g][c])

\* The images it will move are recorded, and none is left behind.
EveryImageIsMoved ==
    \A g \in Gatherers : \A c \in Commits :
        /\ images[g][c] # Nowhere => Recorded(c)
        /\ Read(g) /\ packAt[c].seg \in sources[g] => images[g][c] # Nowhere

\* The object index is never wrong about bytes, and misses no commit.
PlacesAreTrue ==
    \A c \in Commits :
        /\ objectAt[c] # Nowhere => /\ objectAt[c].seg \in Segs
                                    /\ [commit |-> c, off |-> objectAt[c].off]
                                          \in content[objectAt[c].seg]
        /\ Recorded(c) => objectAt[c] # Nowhere

\* Retired a window ago: nobody reads it or copies from it.
RipeIsUnread ==
    \A s \in ripe : row[s] = "retired"

\* Unreferenced for a window: whoever put it is gone.
AgedIsAbandoned ==
    \A s \in aged :
        /\ row[s] = "none" /\ content[s] # {}
        /\ \A p \in Pushes : seg[p] = s => ~Going(p)
        /\ \A g \in Gatherers : into[g] # s

\* The sweep deletes what was unreferenced for a window.
SweepsTheAged == sweep = "read" => listed \subseteq aged

\* What a reader was sent to keeps its row until the read is over.
ReadIsKept ==
    \A r \in Readers : reading[r] # Nowhere /\ reading[r].live =>
        /\ reading[r].at.seg \in Segs
        /\ row[reading[r].at.seg] # "none" /\ reading[r].at.seg \notin ripe
        /\ [commit |-> reading[r].commit, off |-> reading[r].at.off]
              \in content[reading[r].at.seg]

Inv ==
    /\ Kinds
    /\ ObjectsHaveBytes
    /\ UploadsAreHeld
    /\ InsertsAreOwn
    /\ CopiesAreHeld
    /\ IdleHoldsNothing
    /\ SourcesAreKept
    /\ MovesAreInTheCopy
    /\ EveryImageIsMoved
    /\ PlacesAreTrue
    /\ RipeIsUnread
    /\ AgedIsAbandoned
    /\ SweepsTheAged
    /\ ReadIsKept
    /\ ImagesReadBack

\* Each commit comes in one push, and one process gathers at a time.
OncePushed ==
    \A p, q \in Pushes : \A x \in PackOf[p], y \in PackOf[q] : x.commit = y.commit => p = q
OneGatherer == \A g, h \in Gatherers : g = h

\* Then a commit is recorded by the push that brings it and by no other.
PendingIsUnrecorded ==
    \A p \in Pushes : push[p] # "over" => \A x \in PackOf[p] : ~Recorded(x.commit)

\* And what a gather read of the index is what the index still says.
ReadsAreCurrent ==
    \A g \in Gatherers :
        /\ Read(g) => images[g] = Relocated(g, packAt, Commits)
        /\ gather[g] \in {"placed", "copied"} => places[g] = images[g]

\* So the two indexes never part.
IndexesAgree == objectAt = packAt

AloneInv ==
    /\ PendingIsUnrecorded
    /\ ReadsAreCurrent
    /\ IndexesAgree

-----------------------------------------------------------------------------
(* Helpers.                                                                *)

\* Where the sources lie in the copy depends on what is in them and on
\* nothing else.
LEMMA BytesStay ==
    ASSUME NEW S, \A s \in S : content'[s] = content[s]
    PROVE  Bytes(S)' = Bytes(S)
<1>1. [s \in S |-> Cardinality(content'[s])] = [s \in S |-> Cardinality(content[s])]
  OBVIOUS
<1> QED  BY <1>1, Zenon DEF Bytes

LEMMA ShiftsStay ==
    ASSUME NEW g, sources'[g] = sources[g],
           \A s \in sources[g] : content'[s] = content[s]
    PROVE  \A s : Shift(g, s)' = Shift(g, s)
<1> SUFFICES ASSUME NEW s PROVE Shift(g, s)' = Shift(g, s)
  OBVIOUS
<1> DEFINE S == {q \in sources[g] : q < s}
<1>1. Bytes(S)' = Bytes(S)
  BY BytesStay
<1> QED  BY <1>1 DEF Shift

LEMMA CopiedStays ==
    ASSUME NEW g, sources'[g] = sources[g],
           \A s \in sources[g] : content'[s] = content[s]
    PROVE  Copied(g)' = Copied(g)
<1>1. \A s : Shift(g, s)' = Shift(g, s)
  BY ShiftsStay
<1>2. \A y : y \in Copied(g) <=>
        \E s \in sources[g] : \E x \in content[s] :
            y = [commit |-> x.commit, off |-> x.off + Shift(g, s)]
  BY DEF Copied
<1>3. \A y : y \in Copied(g)' <=>
        \E s \in sources'[g] : \E x \in content'[s] :
            y = [commit |-> x.commit, off |-> x.off + Shift(g, s)']
  BY DEF Copied
<1>4. \A y : y \in Copied(g)' <=> y \in Copied(g)
  BY <1>1, <1>2, <1>3
<1> QED  BY <1>4

\* What lies in a source is in the copy, where Shift says.
LEMMA InTheCopy ==
    ASSUME NEW g, NEW c, NEW at, at.seg \in sources[g],
           [commit |-> c, off |-> at.off] \in content[at.seg]
    PROVE  /\ InCopy(g, at).seg = into[g]
           /\ [commit |-> c, off |-> InCopy(g, at).off] \in Copied(g)
<1> DEFINE x == [commit |-> c, off |-> at.off]
<1>1. [commit |-> x.commit, off |-> x.off + Shift(g, at.seg)] \in Copied(g)
  BY DEF Copied
<1> QED  BY <1>1 DEF InCopy

\* A copy of something has bytes.
LEMMA CopiesHaveBytes ==
    ASSUME NEW g, sources[g] # {}, \A s \in sources[g] : content[s] # {}
    PROVE  Copied(g) # {}
<1>1. PICK s \in sources[g] : content[s] # {}
  OBVIOUS
<1>2. PICK x : x \in content[s]
  BY <1>1
<1>3. [commit |-> x.commit, off |-> x.off + Shift(g, s)] \in Copied(g)
  <2>1. [commit |-> x.commit, off |-> x.off + Shift(g, s)]
          \in {[commit |-> z.commit, off |-> z.off + Shift(g, s)] : z \in content[s]}
    BY <1>2
  <2> QED  BY <1>1, <2>1 DEF Copied
<1> QED  BY <1>3

\* The end of a pass, however it ends.
LEMMA Left ==
    ASSUME Kinds, NEW g \in Gatherers, Leave(g)
    PROVE  /\ gather'[g] = "idle" /\ sources'[g] = {} /\ into'[g] = 0
           /\ \A c \in Commits : images'[g][c] = Nowhere /\ places'[g][c] = Nowhere
           /\ \A h \in Gatherers \ {g} :
                /\ gather'[h] = gather[h] /\ sources'[h] = sources[h] /\ into'[h] = into[h]
                /\ images'[h] = images[h] /\ places'[h] = places[h]
           /\ gather' \in [Gatherers -> {"idle", "planned", "imaged", "placed", "copied"}]
           /\ sources' \in [Gatherers -> SUBSET Segs]
           /\ into' \in [Gatherers -> 0 .. MaxSeg]
           /\ IsOn(images', Gatherers) /\ IsOn(places', Gatherers)
<1> USE DEF Leave, Kinds, IsOn
<1>1. /\ gather'[g] = "idle" /\ sources'[g] = {} /\ into'[g] = 0
      /\ gather' \in [Gatherers -> {"idle", "planned", "imaged", "placed", "copied"}]
      /\ sources' \in [Gatherers -> SUBSET Segs]
  OBVIOUS
<1>2. into' \in [Gatherers -> 0 .. MaxSeg]
  BY BoundsAreNaturals
<1>3. /\ images'[g] = [c \in Commits |-> Nowhere] /\ places'[g] = [c \in Commits |-> Nowhere]
      /\ IsOn(images', Gatherers) /\ IsOn(places', Gatherers)
  OBVIOUS
<1>4. \A h \in Gatherers \ {g} :
        /\ gather'[h] = gather[h] /\ sources'[h] = sources[h] /\ into'[h] = into[h]
        /\ images'[h] = images[h] /\ places'[h] = places[h]
  OBVIOUS
<1> QED  BY <1>1, <1>2, <1>3, <1>4, Zenon

\* An index keeps what it has or takes what is later.
LEMMA Joined ==
    ASSUME NEW index, NEW news, NEW c \in Commits,
           index[c].seg \in 0 .. MaxSeg, news[c].seg \in 0 .. MaxSeg
    PROVE  \/ Join(index, news)[c] = index[c] /\ news[c].seg <= index[c].seg
           \/ Join(index, news)[c] = news[c] /\ news[c].seg > index[c].seg
BY BoundsAreNaturals DEF Join

LEMMA PlanAppendKeepsInv ==
    ASSUME Inv, NEW p \in Pushes, PlanAppend(p)
    PROVE  Inv'
<1> USE DEF Inv
<1>1. /\ UNCHANGED <<gather, sources, into, images, places>>
      /\ UNCHANGED <<bucket, content, row, aged, ripe, packAt, objectAt>>
      /\ UNCHANGED <<seg, sweep, listed, reading>>
      /\ push[p] = "uploaded"
      /\ insert' = [insert EXCEPT ![p] =
           {x.commit : x \in {y \in PackOf[p] : ~Recorded(y.commit)}}]
      /\ push' = [push EXCEPT ![p] = IF insert'[p] = {} THEN "over" ELSE "planned"]
  BY DEF PlanAppend, indexes, pushing, gathering, sweeping
<1>2. \A g \in Gatherers : Copied(g)' = Copied(g)
  BY <1>1, CopiedStays
<1>3. Kinds'
  BY <1>1, PacksAreImages DEF Kinds, Image, IsOn, IsInCopy, Going, Read, Recorded,
     ReadsBack
<1>4. UploadsAreHeld'
  BY <1>1, <1>2 DEF UploadsAreHeld, Kinds, Going
<1>5. InsertsAreOwn'
  BY <1>1, <1>2 DEF InsertsAreOwn, Kinds
<1>6. ObjectsHaveBytes' /\ CopiesAreHeld' /\ IdleHoldsNothing' /\ SourcesAreKept'
  BY <1>1, <1>2 DEF ObjectsHaveBytes, CopiesAreHeld, IdleHoldsNothing,
     SourcesAreKept, IsOn, IsInCopy, Going, Read, Recorded, ReadsBack
<1>7. MovesAreInTheCopy' /\ EveryImageIsMoved' /\ PlacesAreTrue' /\ RipeIsUnread'
  BY <1>1, <1>2 DEF MovesAreInTheCopy, EveryImageIsMoved, PlacesAreTrue,
     RipeIsUnread, IsOn, IsInCopy, Going, Read, Recorded, ReadsBack
<1>8. AgedIsAbandoned' /\ SweepsTheAged' /\ ReadIsKept' /\ ImagesReadBack'
  BY <1>1, <1>2 DEF AgedIsAbandoned, SweepsTheAged, ReadIsKept, ImagesReadBack,
     IsOn, IsInCopy, Going, Read, Recorded, ReadsBack
<1> QED  BY <1>3, <1>4, <1>5, <1>6, <1>7, <1>8

LEMMA CrashPushKeepsInv ==
    ASSUME Inv, NEW p \in Pushes, CrashPush(p)
    PROVE  Inv'
<1> USE DEF Inv
<1>1. /\ UNCHANGED <<gather, sources, into, images, places>>
      /\ UNCHANGED <<bucket, content, row, aged, ripe, packAt, objectAt, seg, insert>>
      /\ UNCHANGED <<sweep, listed, reading>>
      /\ push[p] \in {"uploaded", "planned"}
      /\ push' = [push EXCEPT ![p] = "over"]
  BY DEF CrashPush, indexes, pushing, gathering, sweeping
<1>2. \A g \in Gatherers : Copied(g)' = Copied(g)
  BY <1>1, CopiedStays
<1>3. Kinds'
  BY <1>1, <1>2 DEF Kinds, IsOn
<1>4. UploadsAreHeld'
  BY <1>1, <1>2 DEF UploadsAreHeld, Kinds, Going
<1>5. InsertsAreOwn'
  BY <1>1, <1>2 DEF InsertsAreOwn, Kinds
<1>6. ObjectsHaveBytes' /\ CopiesAreHeld' /\ IdleHoldsNothing' /\ SourcesAreKept'
  BY <1>1, <1>2 DEF ObjectsHaveBytes, CopiesAreHeld, IdleHoldsNothing,
     SourcesAreKept, IsOn, IsInCopy, Going, Read, Recorded, ReadsBack
<1>7. MovesAreInTheCopy' /\ EveryImageIsMoved' /\ PlacesAreTrue' /\ RipeIsUnread'
  BY <1>1, <1>2 DEF MovesAreInTheCopy, EveryImageIsMoved, PlacesAreTrue,
     RipeIsUnread, IsOn, IsInCopy, Going, Read, Recorded, ReadsBack
<1>8. AgedIsAbandoned' /\ SweepsTheAged' /\ ReadIsKept' /\ ImagesReadBack'
  BY <1>1, <1>2 DEF AgedIsAbandoned, SweepsTheAged, ReadIsKept, ImagesReadBack,
     IsOn, IsInCopy, Going, Read, Recorded, ReadsBack
<1> QED  BY <1>3, <1>4, <1>5, <1>6, <1>7, <1>8

LEMMA DropRetiredKeepsInv ==
    ASSUME Inv, DropRetired
    PROVE  Inv'
<1> USE DEF Inv
<1>1. /\ UNCHANGED <<gather, sources, into, images, places>>
      /\ UNCHANGED <<bucket, content, packAt, objectAt, push, seg, insert, listed, reading>>
      /\ row' = [s \in Segs |-> IF s \in ripe THEN "none" ELSE row[s]]
      /\ aged' = aged \union ripe /\ ripe' = {} /\ sweep' = "dropped"
  BY DEF DropRetired, indexes, pushing, gathering, sweeping
<1>2. \A g \in Gatherers : Copied(g)' = Copied(g)
  BY <1>1, CopiedStays
<1>3. \A s \in ripe : row[s] = "retired" /\ s \in Segs
  BY DEF RipeIsUnread, Kinds
<1>4. \A s \in Segs : row'[s] = (IF s \in ripe THEN "none" ELSE row[s])
  BY <1>1
<1>5. Kinds'
  BY <1>1, <1>2 DEF Kinds, IsOn
<1>6. ObjectsHaveBytes'
  BY <1>1, <1>4 DEF ObjectsHaveBytes
<1>7. UploadsAreHeld'
  BY <1>1, <1>3, <1>4 DEF UploadsAreHeld, Kinds, Going
<1>8. CopiesAreHeld'
  BY <1>1, <1>2, <1>3, <1>4 DEF CopiesAreHeld
<1>9. SourcesAreKept'
  BY <1>1, <1>4 DEF SourcesAreKept, Kinds
<1>10. AgedIsAbandoned'
  <2> SUFFICES ASSUME NEW s \in ripe
               PROVE  /\ row'[s] = "none" /\ content[s] # {}
                      /\ \A p \in Pushes : seg[p] = s => ~Going(p)
                      /\ \A g \in Gatherers : into[g] # s
    BY <1>1, <1>4 DEF AgedIsAbandoned, Kinds, Going
  <2>1. s \in Segs /\ row[s] = "retired" /\ row'[s] = "none" /\ content[s] # {}
    BY <1>3, <1>4 DEF ObjectsHaveBytes
  <2>2. \A p \in Pushes : seg[p] = s => ~Going(p)
    BY <2>1 DEF UploadsAreHeld
  <2>3. \A g \in Gatherers : into[g] # s
    <3> SUFFICES ASSUME NEW g \in Gatherers, into[g] = s PROVE FALSE
      OBVIOUS
    <3>1. gather[g] # "idle"
      BY <2>1, BoundsAreNaturals DEF IdleHoldsNothing, Segs
    <3> QED  BY <2>1, <3>1 DEF CopiesAreHeld
  <2> QED  BY <2>1, <2>2, <2>3
<1>11. ReadIsKept'
  BY <1>1, <1>4 DEF ReadIsKept
<1>12. ImagesReadBack'
  <2> SUFFICES ASSUME NEW c \in Commits, Recorded(c)
               PROVE  row'[packAt[c].seg] = "live"
    BY <1>1 DEF ImagesReadBack, Recorded, ReadsBack
  <2> QED  BY <1>3, <1>4 DEF ImagesReadBack, ReadsBack, Kinds
<1>13. /\ InsertsAreOwn' /\ IdleHoldsNothing'
      /\ MovesAreInTheCopy' /\ EveryImageIsMoved'
  BY <1>1, <1>2 DEF InsertsAreOwn, IdleHoldsNothing, MovesAreInTheCopy,
     EveryImageIsMoved, IsOn, IsInCopy, Going, Read, Recorded, ReadsBack
<1>14. PlacesAreTrue' /\ RipeIsUnread' /\ SweepsTheAged'
  BY <1>1, <1>2 DEF PlacesAreTrue, RipeIsUnread, SweepsTheAged, IsOn, IsInCopy,
     Going, Read, Recorded, ReadsBack
<1> QED  BY <1>5, <1>6, <1>7, <1>8, <1>9, <1>10, <1>11, <1>12, <1>13, <1>14

LEMMA ListBucketKeepsInv ==
    ASSUME Inv, ListBucket
    PROVE  Inv'
<1> USE DEF Inv
<1>1. /\ UNCHANGED <<gather, sources, into, images, places>>
      /\ UNCHANGED <<bucket, content, row, aged, ripe, packAt, objectAt>>
      /\ UNCHANGED <<push, seg, insert, reading>>
      /\ listed' = bucket /\ sweep' = "listed"
  BY DEF ListBucket, indexes, pushing, gathering, sweeping
<1>2. \A g \in Gatherers : Copied(g)' = Copied(g)
  BY <1>1, CopiedStays
<1>3. Kinds'
  BY <1>1, <1>2 DEF Kinds, IsOn
<1>4. ObjectsHaveBytes' /\ UploadsAreHeld' /\ InsertsAreOwn' /\ CopiesAreHeld'
  BY <1>1, <1>2 DEF ObjectsHaveBytes, UploadsAreHeld, InsertsAreOwn, CopiesAreHeld,
     IsOn, IsInCopy, Going, Read, Recorded, ReadsBack
<1>5. /\ IdleHoldsNothing' /\ SourcesAreKept'
      /\ MovesAreInTheCopy' /\ EveryImageIsMoved'
  BY <1>1, <1>2 DEF IdleHoldsNothing, SourcesAreKept, MovesAreInTheCopy,
     EveryImageIsMoved, IsOn, IsInCopy, Going, Read, Recorded, ReadsBack
<1>6. PlacesAreTrue' /\ RipeIsUnread' /\ AgedIsAbandoned' /\ SweepsTheAged'
  BY <1>1, <1>2 DEF PlacesAreTrue, RipeIsUnread, AgedIsAbandoned, SweepsTheAged,
     IsOn, IsInCopy, Going, Read, Recorded, ReadsBack
<1>7. ReadIsKept' /\ ImagesReadBack'
  BY <1>1, <1>2 DEF ReadIsKept, ImagesReadBack, IsOn, IsInCopy, Going, Read,
     Recorded, ReadsBack
<1> QED  BY <1>3, <1>4, <1>5, <1>6, <1>7

LEMMA ReadRowsKeepsInv ==
    ASSUME Inv, ReadRows
    PROVE  Inv'
<1> USE DEF Inv
<1>1. /\ UNCHANGED <<gather, sources, into, images, places>>
      /\ UNCHANGED <<bucket, content, row, aged, ripe, packAt, objectAt>>
      /\ UNCHANGED <<push, seg, insert, reading>>
      /\ listed' \subseteq listed \intersect aged /\ sweep' = "read"
  BY DEF ReadRows, indexes, pushing, gathering, sweeping, ReferencedSegments
<1>2. \A g \in Gatherers : Copied(g)' = Copied(g)
  BY <1>1, CopiedStays
<1>3. Kinds'
  BY <1>1, <1>2 DEF Kinds, IsOn
<1>4. ObjectsHaveBytes' /\ UploadsAreHeld' /\ InsertsAreOwn' /\ CopiesAreHeld'
  BY <1>1, <1>2 DEF ObjectsHaveBytes, UploadsAreHeld, InsertsAreOwn, CopiesAreHeld,
     IsOn, IsInCopy, Going, Read, Recorded, ReadsBack
<1>5. /\ IdleHoldsNothing' /\ SourcesAreKept'
      /\ MovesAreInTheCopy' /\ EveryImageIsMoved'
  BY <1>1, <1>2 DEF IdleHoldsNothing, SourcesAreKept, MovesAreInTheCopy,
     EveryImageIsMoved, IsOn, IsInCopy, Going, Read, Recorded, ReadsBack
<1>6. PlacesAreTrue' /\ RipeIsUnread' /\ AgedIsAbandoned' /\ SweepsTheAged'
  BY <1>1, <1>2 DEF PlacesAreTrue, RipeIsUnread, AgedIsAbandoned, SweepsTheAged,
     IsOn, IsInCopy, Going, Read, Recorded, ReadsBack
<1>7. ReadIsKept' /\ ImagesReadBack'
  BY <1>1, <1>2 DEF ReadIsKept, ImagesReadBack, IsOn, IsInCopy, Going, Read,
     Recorded, ReadsBack
<1> QED  BY <1>3, <1>4, <1>5, <1>6, <1>7

LEMMA DeleteOrphanKeepsInv ==
    ASSUME Inv, NEW s \in Segs, DeleteOrphan(s)
    PROVE  Inv'
<1> USE DEF Inv
<1>1. /\ UNCHANGED <<gather, sources, into, images, places>>
      /\ UNCHANGED <<content, row, aged, ripe, packAt, objectAt, push, seg, insert, sweep, reading>>
      /\ sweep = "read" /\ s \in listed
      /\ bucket' = bucket \ {s} /\ listed' = listed \ {s}
  BY DEF DeleteOrphan, indexes, pushing, gathering, sweeping
<1>2. \A g \in Gatherers : Copied(g)' = Copied(g)
  BY <1>1, CopiedStays
<1>3. s \in aged /\ row[s] = "none" /\ \A p \in Pushes : seg[p] = s => ~Going(p)
  BY <1>1 DEF SweepsTheAged, AgedIsAbandoned
<1>4. \A g \in Gatherers : into[g] # s
  BY <1>3 DEF AgedIsAbandoned
<1>5. Kinds'
  BY <1>1, <1>2, <1>3, <1>4 DEF Kinds, IsOn
<1>6. ObjectsHaveBytes'
  BY <1>1, <1>3 DEF ObjectsHaveBytes
<1>7. UploadsAreHeld'
  BY <1>1, <1>2, <1>3, <1>4 DEF UploadsAreHeld, Kinds, Going
<1>8. InsertsAreOwn' /\ CopiesAreHeld' /\ IdleHoldsNothing' /\ SourcesAreKept'
  BY <1>1, <1>2, <1>3, <1>4 DEF InsertsAreOwn, CopiesAreHeld, IdleHoldsNothing,
     SourcesAreKept, IsOn, IsInCopy, Going, Read, Recorded, ReadsBack
<1>9. MovesAreInTheCopy' /\ EveryImageIsMoved' /\ PlacesAreTrue' /\ RipeIsUnread'
  BY <1>1, <1>2, <1>3, <1>4 DEF MovesAreInTheCopy, EveryImageIsMoved,
     PlacesAreTrue, RipeIsUnread, IsOn, IsInCopy, Going, Read, Recorded, ReadsBack
<1>10. AgedIsAbandoned' /\ SweepsTheAged' /\ ReadIsKept' /\ ImagesReadBack'
  BY <1>1, <1>2, <1>3, <1>4 DEF AgedIsAbandoned, SweepsTheAged, ReadIsKept,
     ImagesReadBack, IsOn, IsInCopy, Going, Read, Recorded, ReadsBack
<1> QED  BY <1>5, <1>6, <1>7, <1>8, <1>9, <1>10

LEMMA EndSweepKeepsInv ==
    ASSUME Inv, EndSweep
    PROVE  Inv'
<1> USE DEF Inv
<1>1. /\ UNCHANGED <<gather, sources, into, images, places>>
      /\ UNCHANGED <<bucket, content, row, aged, ripe, packAt, objectAt>>
      /\ UNCHANGED <<push, seg, insert, reading>>
      /\ listed' = {} /\ sweep' = "idle"
  BY DEF EndSweep, indexes, pushing, gathering, sweeping
<1>2. \A g \in Gatherers : Copied(g)' = Copied(g)
  BY <1>1, CopiedStays
<1>3. Kinds'
  BY <1>1, <1>2 DEF Kinds, IsOn
<1>4. ObjectsHaveBytes' /\ UploadsAreHeld' /\ InsertsAreOwn' /\ CopiesAreHeld'
  BY <1>1, <1>2 DEF ObjectsHaveBytes, UploadsAreHeld, InsertsAreOwn, CopiesAreHeld,
     IsOn, IsInCopy, Going, Read, Recorded, ReadsBack
<1>5. /\ IdleHoldsNothing' /\ SourcesAreKept'
      /\ MovesAreInTheCopy' /\ EveryImageIsMoved'
  BY <1>1, <1>2 DEF IdleHoldsNothing, SourcesAreKept, MovesAreInTheCopy,
     EveryImageIsMoved, IsOn, IsInCopy, Going, Read, Recorded, ReadsBack
<1>6. PlacesAreTrue' /\ RipeIsUnread' /\ AgedIsAbandoned' /\ SweepsTheAged'
  BY <1>1, <1>2 DEF PlacesAreTrue, RipeIsUnread, AgedIsAbandoned, SweepsTheAged,
     IsOn, IsInCopy, Going, Read, Recorded, ReadsBack
<1>7. ReadIsKept' /\ ImagesReadBack'
  BY <1>1, <1>2 DEF ReadIsKept, ImagesReadBack, IsOn, IsInCopy, Going, Read,
     Recorded, ReadsBack
<1> QED  BY <1>3, <1>4, <1>5, <1>6, <1>7

LEMMA FetchKeepsInv ==
    ASSUME Inv, NEW r \in Readers, Fetch(r)
    PROVE  Inv'
<1> USE DEF Inv
<1>1. /\ UNCHANGED <<gather, sources, into, images, places>>
      /\ UNCHANGED <<bucket, content, row, aged, ripe, packAt, objectAt, push, seg, insert>>
      /\ UNCHANGED <<sweep, listed>>
      /\ reading' = [reading EXCEPT ![r] = Nowhere]
  BY DEF Fetch, indexes, pushing, gathering, sweeping
<1>2. \A g \in Gatherers : Copied(g)' = Copied(g)
  BY <1>1, CopiedStays
<1>3. Kinds'
  BY <1>1, <1>2 DEF Kinds, IsOn
<1>4. ObjectsHaveBytes' /\ UploadsAreHeld' /\ InsertsAreOwn' /\ CopiesAreHeld'
  BY <1>1, <1>2 DEF ObjectsHaveBytes, UploadsAreHeld, InsertsAreOwn, CopiesAreHeld,
     IsOn, IsInCopy, Going, Read, Recorded, ReadsBack
<1>5. /\ IdleHoldsNothing' /\ SourcesAreKept'
      /\ MovesAreInTheCopy' /\ EveryImageIsMoved'
  BY <1>1, <1>2 DEF IdleHoldsNothing, SourcesAreKept, MovesAreInTheCopy,
     EveryImageIsMoved, IsOn, IsInCopy, Going, Read, Recorded, ReadsBack
<1>6. PlacesAreTrue' /\ RipeIsUnread' /\ AgedIsAbandoned' /\ SweepsTheAged'
  BY <1>1, <1>2 DEF PlacesAreTrue, RipeIsUnread, AgedIsAbandoned, SweepsTheAged,
     IsOn, IsInCopy, Going, Read, Recorded, ReadsBack
<1>7. ReadIsKept' /\ ImagesReadBack'
  BY <1>1, <1>2 DEF ReadIsKept, ImagesReadBack, IsOn, IsInCopy, Going, Read,
     Recorded, ReadsBack
<1> QED  BY <1>3, <1>4, <1>5, <1>6, <1>7

LEMMA AgeKeepsInv ==
    ASSUME Inv, NEW s \in Segs, Age(s)
    PROVE  Inv'
<1> USE DEF Inv
<1>1. /\ UNCHANGED <<gather, sources, into, images, places>>
      /\ UNCHANGED <<bucket, content, row, ripe, packAt, objectAt, push, seg, insert>>
      /\ UNCHANGED <<sweep, listed, reading>>
      /\ s \in bucket \ aged /\ row[s] = "none"
      /\ \A p \in Pushes : seg[p] = s => push[p] = "over"
      /\ \A g \in Gatherers : into[g] # s
      /\ aged' = aged \union {s}
  BY DEF Age, indexes, pushing, gathering, sweeping
<1>2. \A g \in Gatherers : Copied(g)' = Copied(g)
  BY <1>1, CopiedStays
<1>3. Kinds'
  BY <1>1, <1>2 DEF Kinds, IsOn
<1>4. UploadsAreHeld'
  BY <1>1, <1>2 DEF UploadsAreHeld, Kinds, Going
<1>5. AgedIsAbandoned'
  BY <1>1 DEF AgedIsAbandoned, Going, ObjectsHaveBytes
<1>6. ObjectsHaveBytes' /\ InsertsAreOwn' /\ CopiesAreHeld' /\ IdleHoldsNothing'
  BY <1>1, <1>2 DEF ObjectsHaveBytes, InsertsAreOwn, CopiesAreHeld,
     IdleHoldsNothing, IsOn, IsInCopy, Going, Read, Recorded, ReadsBack
<1>7. /\ SourcesAreKept' /\ MovesAreInTheCopy'
      /\ EveryImageIsMoved' /\ PlacesAreTrue'
  BY <1>1, <1>2 DEF SourcesAreKept, MovesAreInTheCopy, EveryImageIsMoved,
     PlacesAreTrue, IsOn, IsInCopy, Going, Read, Recorded, ReadsBack
<1>8. RipeIsUnread' /\ SweepsTheAged' /\ ReadIsKept' /\ ImagesReadBack'
  BY <1>1, <1>2 DEF RipeIsUnread, SweepsTheAged, ReadIsKept, ImagesReadBack, IsOn,
     IsInCopy, Going, Read, Recorded, ReadsBack
<1> QED  BY <1>3, <1>4, <1>5, <1>6, <1>7, <1>8

LEMMA RipenKeepsInv ==
    ASSUME Inv, NEW s \in Segs, Ripen(s)
    PROVE  Inv'
<1> USE DEF Inv
<1>1. /\ UNCHANGED <<gather, sources, into, images, places>>
      /\ UNCHANGED <<bucket, content, row, aged, packAt, objectAt, push, seg, insert>>
      /\ UNCHANGED <<sweep, listed, reading>>
      /\ row[s] = "retired" /\ \A g \in Gatherers : s \notin sources[g]
      /\ \A r \in Readers : reading[r] # Nowhere => reading[r].at.seg # s
      /\ ripe' = ripe \union {s}
  BY DEF Ripen, indexes, pushing, gathering, sweeping
<1>2. \A g \in Gatherers : Copied(g)' = Copied(g)
  BY <1>1, CopiedStays
<1>3. Kinds'
  BY <1>1, <1>2 DEF Kinds, IsOn
<1>4. UploadsAreHeld'
  BY <1>1, <1>2 DEF UploadsAreHeld, Kinds, Going
<1>5. ObjectsHaveBytes' /\ InsertsAreOwn' /\ CopiesAreHeld' /\ IdleHoldsNothing'
  BY <1>1, <1>2 DEF ObjectsHaveBytes, InsertsAreOwn, CopiesAreHeld,
     IdleHoldsNothing, IsOn, IsInCopy, Going, Read, Recorded, ReadsBack
<1>6. /\ SourcesAreKept' /\ MovesAreInTheCopy'
      /\ EveryImageIsMoved' /\ PlacesAreTrue'
  BY <1>1, <1>2 DEF SourcesAreKept, MovesAreInTheCopy, EveryImageIsMoved,
     PlacesAreTrue, IsOn, IsInCopy, Going, Read, Recorded, ReadsBack
<1>7. RipeIsUnread' /\ AgedIsAbandoned' /\ SweepsTheAged' /\ ReadIsKept'
  BY <1>1, <1>2 DEF RipeIsUnread, AgedIsAbandoned, SweepsTheAged, ReadIsKept, IsOn,
     IsInCopy, Going, Read, Recorded, ReadsBack
<1>8. ImagesReadBack'
  BY <1>1, <1>2 DEF ImagesReadBack, IsOn, IsInCopy, Going, Read, Recorded, ReadsBack
<1> QED  BY <1>3, <1>4, <1>5, <1>6, <1>7, <1>8

LEMMA ComposeKeepsInv ==
    ASSUME Inv, NEW r \in Readers, NEW c \in Commits, Compose(r, c)
    PROVE  Inv'
<1> USE DEF Inv
<1>1. /\ UNCHANGED <<gather, sources, into, images, places>>
      /\ UNCHANGED <<bucket, content, row, aged, ripe, packAt, objectAt>>
      /\ UNCHANGED <<push, seg, insert, sweep, listed>>
      /\ Recorded(c)
  BY DEF Compose, indexes, pushing, gathering, sweeping
<1>2. \A g \in Gatherers : Copied(g)' = Copied(g)
  BY <1>1, CopiedStays
<1>3. PICK at \in {packAt[c], objectAt[c]} : reading' = [reading EXCEPT ![r] =
        [commit |-> c, at |-> at, live |-> row[at.seg] = "live"]]
  BY DEF Compose
<1>4. Kinds'
  BY <1>1, <1>3 DEF Kinds, IsOn
<1>5. ReadIsKept'
  <2> DEFINE b == row[at.seg] = "live"
  <2>1. reading'[r] = [commit |-> c, at |-> at, live |-> b]
    BY <1>3 DEF Kinds, IsOn
  <2>2. reading'[r].live = b /\ reading'[r].at = at /\ reading'[r].commit = c
    BY <2>1
  <2>3. /\ at.seg \in Segs
        /\ [commit |-> c, off |-> at.off] \in content[at.seg]
    BY <1>1, <1>3 DEF ImagesReadBack, ReadsBack, PlacesAreTrue, Kinds
  <2>4. b => row[at.seg] # "none" /\ at.seg \notin ripe
    BY DEF RipeIsUnread
  <2>5. \A q \in Readers \ {r} : reading'[q] = reading[q]
    BY <1>3 DEF Kinds, IsOn
  <2> HIDE DEF b
  <2>6. \A q \in Readers \ {r} : reading'[q] # Nowhere /\ reading'[q].live =>
          /\ reading'[q].at.seg \in Segs
          /\ row'[reading'[q].at.seg] # "none" /\ reading'[q].at.seg \notin ripe'
          /\ [commit |-> reading'[q].commit, off |-> reading'[q].at.off]
                \in content'[reading'[q].at.seg]
    BY <1>1, <2>5 DEF ReadIsKept
  <2>7. reading'[r].live =>
          /\ reading'[r].at.seg \in Segs
          /\ row'[reading'[r].at.seg] # "none" /\ reading'[r].at.seg \notin ripe'
          /\ [commit |-> reading'[r].commit, off |-> reading'[r].at.off]
                \in content'[reading'[r].at.seg]
    BY <1>1, <2>2, <2>3, <2>4
  <2> QED  BY <2>6, <2>7 DEF ReadIsKept
<1>6. ObjectsHaveBytes' /\ UploadsAreHeld' /\ InsertsAreOwn' /\ CopiesAreHeld'
  BY <1>1, <1>2 DEF ObjectsHaveBytes, UploadsAreHeld, InsertsAreOwn, CopiesAreHeld,
     IsOn, IsInCopy, Going, Read, Recorded, ReadsBack
<1>7. /\ IdleHoldsNothing' /\ SourcesAreKept'
      /\ MovesAreInTheCopy' /\ EveryImageIsMoved'
  BY <1>1, <1>2 DEF IdleHoldsNothing, SourcesAreKept, MovesAreInTheCopy,
     EveryImageIsMoved, IsOn, IsInCopy, Going, Read, Recorded, ReadsBack
<1>8. PlacesAreTrue' /\ RipeIsUnread' /\ AgedIsAbandoned' /\ SweepsTheAged'
  BY <1>1, <1>2 DEF PlacesAreTrue, RipeIsUnread, AgedIsAbandoned, SweepsTheAged,
     IsOn, IsInCopy, Going, Read, Recorded, ReadsBack
<1>9. ImagesReadBack'
  BY <1>1, <1>2 DEF ImagesReadBack, IsOn, IsInCopy, Going, Read, Recorded, ReadsBack
<1> QED  BY <1>4, <1>5, <1>6, <1>7, <1>8, <1>9

LEMMA UploadKeepsInv ==
    ASSUME Inv, NEW p \in Pushes, NEW s \in Segs, Upload(p, s)
    PROVE  Inv'
<1> USE DEF Inv
<1>1. /\ UNCHANGED <<row, aged, ripe, packAt, objectAt, insert, sweep, listed, reading>>
      /\ UNCHANGED <<gather, sources, into, images, places>>
      /\ push[p] = "idle" /\ content[s] = {}
      /\ \A g \in Gatherers : into[g] # s
      /\ bucket' = bucket \union {s}
      /\ content' = [content EXCEPT ![s] = PackOf[p]]
      /\ seg' = [seg EXCEPT ![p] = s]
      /\ push' = [push EXCEPT ![p] = "uploaded"]
  BY DEF Upload, Unminted, indexes, gathering, sweeping
<1>2. /\ content'[s] = PackOf[p] /\ PackOf[p] # {}
      /\ \A x \in Segs \ {s} : content'[x] = content[x]
  BY <1>1, PacksAreImages DEF Kinds, IsOn
<1>3. s \notin bucket /\ s \notin aged /\ row[s] = "none"
  BY <1>1 DEF ObjectsHaveBytes, AgedIsAbandoned, Kinds
<1>4. \A g \in Gatherers : Copied(g)' = Copied(g)
  <2> SUFFICES ASSUME NEW g \in Gatherers PROVE Copied(g)' = Copied(g)
    OBVIOUS
  <2>1. \A x \in sources[g] : x \in Segs /\ x # s
    BY <1>3 DEF SourcesAreKept, Kinds
  <2> QED  BY <1>1, <1>2, <2>1, CopiedStays
<1>5. \A q \in Pushes : Going(q) => seg[q] # s
  BY <1>3 DEF UploadsAreHeld
<1>6. /\ push'[p] = "uploaded" /\ seg'[p] = s
      /\ \A q \in Pushes \ {p} : push'[q] = push[q] /\ seg'[q] = seg[q]
  BY <1>1 DEF Kinds
<1>7. Kinds'
  <2>1. s \in 0 .. MaxSeg
    BY BoundsAreNaturals DEF Segs
  <2> QED  BY <1>1, <2>1 DEF Kinds, IsOn
<1>8. ObjectsHaveBytes'
  BY <1>1, <1>2 DEF ObjectsHaveBytes, Kinds
<1>9. UploadsAreHeld'
  <2>1. \A q \in Pushes : push'[q] = "idle" => seg'[q] = 0
    BY <1>6 DEF UploadsAreHeld
  <2> SUFFICES ASSUME NEW q \in Pushes, Going(q)'
               PROVE  /\ seg'[q] \in bucket' \ aged' /\ row'[seg'[q]] = "none"
                      /\ content'[seg'[q]] = PackOf[q]
                      /\ \A o \in Pushes : Going(o)' /\ seg'[o] = seg'[q] => o = q
                      /\ \A g \in Gatherers : into'[g] # seg'[q]
    BY <2>1 DEF UploadsAreHeld
  <2>2. \A o \in Pushes \ {p} : Going(o)' => Going(o) /\ seg'[o] = seg[o] /\ seg[o] # s
    BY <1>5, <1>6 DEF Going
  <2>3. CASE q = p
    BY <1>1, <1>2, <1>3, <1>6, <2>2, <2>3
  <2>4. CASE q # p
    <3>1. Going(q) /\ seg'[q] = seg[q] /\ seg[q] # s
      BY <2>2, <2>4
    <3>2. /\ seg[q] \in bucket \ aged /\ row[seg[q]] = "none"
          /\ content[seg[q]] = PackOf[q]
          /\ \A o \in Pushes : Going(o) /\ seg[o] = seg[q] => o = q
          /\ \A g \in Gatherers : into[g] # seg[q]
      BY <3>1 DEF UploadsAreHeld
    <3>3. \A o \in Pushes : Going(o)' /\ seg'[o] = seg'[q] => o = q
      BY <1>6, <2>2, <3>1, <3>2
    <3>4. seg[q] \in Segs
      BY <3>2 DEF Kinds
    <3> QED  BY <1>1, <1>2, <3>1, <3>2, <3>3, <3>4
  <2> QED  BY <2>3, <2>4
<1>10. InsertsAreOwn'
  BY <1>1, <1>6 DEF InsertsAreOwn
<1>11. CopiesAreHeld'
  BY <1>1, <1>2, <1>4 DEF CopiesAreHeld
<1>12. PlacesAreTrue'
  BY <1>1, <1>2 DEF PlacesAreTrue, Recorded
<1>13. AgedIsAbandoned'
  BY <1>1, <1>2, <1>3, <1>6 DEF AgedIsAbandoned, Kinds, Going
<1>14. ReadIsKept'
  BY <1>1, <1>2, <1>3 DEF ReadIsKept
<1>15. ImagesReadBack'
  BY <1>1, <1>2, <1>3 DEF ImagesReadBack, ReadsBack, Recorded, Kinds
<1>16. /\ IdleHoldsNothing' /\ SourcesAreKept'
      /\ MovesAreInTheCopy' /\ EveryImageIsMoved'
  BY <1>1, <1>4 DEF IdleHoldsNothing, SourcesAreKept, MovesAreInTheCopy,
     EveryImageIsMoved, IsOn, IsInCopy, Going, Read, Recorded, ReadsBack
<1>17. RipeIsUnread' /\ SweepsTheAged'
  BY <1>1, <1>4 DEF RipeIsUnread, SweepsTheAged, IsOn, IsInCopy, Going, Read,
     Recorded, ReadsBack
<1> QED  BY <1>7, <1>8, <1>9, <1>10, <1>11, <1>12, <1>13, <1>14, <1>15, <1>16, <1>17

LEMMA CrashGatherKeepsInv ==
    ASSUME Inv, NEW g \in Gatherers, CrashGather(g)
    PROVE  Inv'
<1> USE DEF Inv
<1>1. /\ UNCHANGED <<bucket, content, row, aged, ripe, packAt, objectAt>>
      /\ UNCHANGED <<push, seg, insert, sweep, listed, reading>>
      /\ Leave(g)
  BY DEF CrashGather, indexes, pushing, sweeping
<1>2. /\ gather'[g] = "idle" /\ sources'[g] = {} /\ into'[g] = 0
      /\ \A c \in Commits : images'[g][c] = Nowhere /\ places'[g][c] = Nowhere
      /\ \A h \in Gatherers \ {g} :
           /\ gather'[h] = gather[h] /\ sources'[h] = sources[h] /\ into'[h] = into[h]
           /\ images'[h] = images[h] /\ places'[h] = places[h]
  BY <1>1, Left
<1>3. \A h \in Gatherers \ {g} : Copied(h)' = Copied(h)
  BY <1>1, <1>2, CopiedStays
<1>4. 0 \notin Segs
  BY DEF Segs
<1>5. \A p \in Pushes : Going(p) => seg[p] # 0
  BY <1>4 DEF UploadsAreHeld, Kinds
<1>6. Kinds'
  BY <1>1, Left DEF Kinds
<1>7. UploadsAreHeld'
  BY <1>1, <1>2, <1>5 DEF UploadsAreHeld, Going
<1>8. CopiesAreHeld'
  BY <1>1, <1>2, <1>3, <1>4 DEF CopiesAreHeld
<1>9. MovesAreInTheCopy'
  BY <1>1, <1>2, <1>3 DEF MovesAreInTheCopy, IsInCopy
<1>10. AgedIsAbandoned'
  BY <1>1, <1>2, <1>4 DEF AgedIsAbandoned, Going, Kinds
<1>11. ObjectsHaveBytes' /\ InsertsAreOwn' /\ IdleHoldsNothing' /\ SourcesAreKept'
  BY <1>1, <1>2 DEF ObjectsHaveBytes, InsertsAreOwn, IdleHoldsNothing,
     SourcesAreKept, IsOn, IsInCopy, Going, Read, Recorded, ReadsBack
<1>12. EveryImageIsMoved' /\ PlacesAreTrue' /\ RipeIsUnread' /\ SweepsTheAged'
  BY <1>1, <1>2 DEF EveryImageIsMoved, PlacesAreTrue, RipeIsUnread, SweepsTheAged,
     IsOn, IsInCopy, Going, Read, Recorded, ReadsBack
<1>13. ReadIsKept' /\ ImagesReadBack'
  BY <1>1, <1>2 DEF ReadIsKept, ImagesReadBack, IsOn, IsInCopy, Going, Read,
     Recorded, ReadsBack
<1> QED  BY <1>6, <1>7, <1>8, <1>9, <1>10, <1>11, <1>12, <1>13

LEMMA LoseGatherKeepsInv ==
    ASSUME Inv, NEW g \in Gatherers, LoseGather(g)
    PROVE  Inv'
<1> USE DEF Inv
<1>1. /\ UNCHANGED <<content, row, aged, ripe, packAt, objectAt>>
      /\ UNCHANGED <<push, seg, insert, sweep, listed, reading>>
      /\ bucket' = bucket \ {into[g]} /\ gather[g] = "copied"
      /\ Leave(g)
  BY DEF LoseGather, indexes, pushing, sweeping
<1>2. /\ gather'[g] = "idle" /\ sources'[g] = {} /\ into'[g] = 0
      /\ \A c \in Commits : images'[g][c] = Nowhere /\ places'[g][c] = Nowhere
      /\ \A h \in Gatherers \ {g} :
           /\ gather'[h] = gather[h] /\ sources'[h] = sources[h] /\ into'[h] = into[h]
           /\ images'[h] = images[h] /\ places'[h] = places[h]
  BY <1>1, Left
<1>3. \A h \in Gatherers \ {g} : Copied(h)' = Copied(h)
  BY <1>1, <1>2, CopiedStays
<1>4. 0 \notin Segs
  BY DEF Segs
<1>5. \A p \in Pushes : Going(p) => seg[p] # 0
  BY <1>4 DEF UploadsAreHeld, Kinds
<1>6. row[into[g]] = "none" /\ \A h \in Gatherers : into[h] = into[g] => h = g
  BY <1>1 DEF CopiesAreHeld
<1>7. \A p \in Pushes : Going(p) => seg[p] # into[g]
  BY DEF UploadsAreHeld
<1>8. Kinds'
  BY <1>1, Left DEF Kinds
<1>9. ObjectsHaveBytes'
  BY <1>1, <1>6 DEF ObjectsHaveBytes
<1>10. UploadsAreHeld'
  BY <1>1, <1>2, <1>5, <1>7 DEF UploadsAreHeld, Going
<1>11. CopiesAreHeld'
  BY <1>1, <1>2, <1>3, <1>4, <1>6 DEF CopiesAreHeld
<1>12. MovesAreInTheCopy'
  BY <1>1, <1>2, <1>3 DEF MovesAreInTheCopy, IsInCopy
<1>13. AgedIsAbandoned'
  BY <1>1, <1>2, <1>4 DEF AgedIsAbandoned, Going, Kinds
<1>14. ImagesReadBack'
  BY <1>1, <1>6 DEF ImagesReadBack, ReadsBack, Recorded
<1>15. /\ InsertsAreOwn' /\ IdleHoldsNothing'
      /\ SourcesAreKept' /\ EveryImageIsMoved'
  BY <1>1, <1>2 DEF InsertsAreOwn, IdleHoldsNothing, SourcesAreKept,
     EveryImageIsMoved, IsOn, IsInCopy, Going, Read, Recorded, ReadsBack
<1>16. PlacesAreTrue' /\ RipeIsUnread' /\ SweepsTheAged' /\ ReadIsKept'
  BY <1>1, <1>2 DEF PlacesAreTrue, RipeIsUnread, SweepsTheAged, ReadIsKept, IsOn,
     IsInCopy, Going, Read, Recorded, ReadsBack
<1> QED  BY <1>8, <1>9, <1>10, <1>11, <1>12, <1>13, <1>14, <1>15, <1>16

LEMMA PlanGatherKeepsInv ==
    ASSUME Inv, NEW g \in Gatherers, NEW i \in Segs, PlanGather(g, i)
    PROVE  Inv'
<1> USE DEF Inv
<1>1. /\ UNCHANGED <<bucket, content, row, aged, ripe, packAt, objectAt, images, places>>
      /\ UNCHANGED <<push, seg, insert, sweep, listed, reading>>
      /\ gather[g] = "idle" /\ content[i] = {} /\ \A h \in Gatherers : into[h] # i
      /\ sources' = [sources EXCEPT ![g] = Run]
      /\ into' = [into EXCEPT ![g] = i]
      /\ gather' = [gather EXCEPT ![g] = "planned"]
  BY DEF PlanGather, Unminted, indexes, pushing, sweeping
<1>2. Run \subseteq {s \in Segs : row[s] = "live" /\ s < i}
  BY DEF PlanGather, After, Run, Small, LiveSegments, Kinds
<1>3. Run # {}
  BY FS_EmptySet DEF PlanGather
<1>4. /\ gather'[g] = "planned" /\ sources'[g] = Run /\ into'[g] = i
      /\ \A h \in Gatherers \ {g} :
           gather'[h] = gather[h] /\ sources'[h] = sources[h] /\ into'[h] = into[h]
  BY <1>1 DEF Kinds
<1>5. \A c \in Commits : images[g][c] = Nowhere /\ places[g][c] = Nowhere
  BY <1>1 DEF IdleHoldsNothing
<1>6. \A h \in Gatherers \ {g} : Copied(h)' = Copied(h)
  BY <1>1, <1>4, CopiedStays
<1>7. i \notin bucket /\ i \notin aged /\ row[i] = "none"
  BY <1>1 DEF ObjectsHaveBytes, AgedIsAbandoned, Kinds
<1> HIDE DEF Run
<1>8. Kinds'
  <2>1. i \in 0 .. MaxSeg
    BY BoundsAreNaturals DEF Segs
  <2> QED  BY <1>1, <1>2, <2>1 DEF Kinds, IsOn
<1>9. UploadsAreHeld'
  <2>1. \A p \in Pushes : Going(p) => seg[p] # i
    BY <1>7 DEF UploadsAreHeld
  <2> QED  BY <1>1, <1>4, <2>1 DEF UploadsAreHeld, Going
<1>10. CopiesAreHeld'
  BY <1>1, <1>4, <1>6, <1>7 DEF CopiesAreHeld
<1>11. SourcesAreKept'
  BY <1>1, <1>2, <1>3, <1>4 DEF SourcesAreKept, RipeIsUnread
<1>12. MovesAreInTheCopy'
  BY <1>1, <1>4, <1>5, <1>6 DEF MovesAreInTheCopy, IsInCopy
<1>13. EveryImageIsMoved'
  BY <1>1, <1>4 DEF EveryImageIsMoved, Read, Recorded
<1>14. AgedIsAbandoned'
  BY <1>1, <1>4, <1>7 DEF AgedIsAbandoned, Going, Kinds
<1>15. ObjectsHaveBytes' /\ InsertsAreOwn' /\ IdleHoldsNothing' /\ PlacesAreTrue'
  BY <1>1, <1>4 DEF ObjectsHaveBytes, InsertsAreOwn, IdleHoldsNothing,
     PlacesAreTrue, IsOn, IsInCopy, Going, Read, Recorded, ReadsBack
<1>16. RipeIsUnread' /\ SweepsTheAged' /\ ReadIsKept' /\ ImagesReadBack'
  BY <1>1, <1>4 DEF RipeIsUnread, SweepsTheAged, ReadIsKept, ImagesReadBack, IsOn,
     IsInCopy, Going, Read, Recorded, ReadsBack
<1> QED  BY <1>8, <1>9, <1>10, <1>11, <1>12, <1>13, <1>14, <1>15, <1>16

LEMMA ReadImagesKeepsInv ==
    ASSUME Inv, NEW g \in Gatherers, ReadImages(g)
    PROVE  Inv'
<1>1. CASE \E c \in Commits : packAt[c].seg \in sources[g]
  <2> USE DEF Inv
  <2>1. /\ UNCHANGED <<bucket, content, row, aged, ripe, packAt, objectAt>>
        /\ UNCHANGED <<push, seg, insert, sweep, listed, reading, sources, into, places>>
        /\ gather[g] = "planned" /\ gather' = [gather EXCEPT ![g] = "imaged"]
        /\ images' = [images EXCEPT ![g] = Relocated(g, packAt, Commits)]
    BY <1>1 DEF ReadImages, indexes, pushing, sweeping
  <2>2. /\ gather'[g] = "imaged"
        /\ \A c \in Commits : images'[g][c] =
             IF packAt[c].seg \in sources[g] THEN InCopy(g, packAt[c]) ELSE Nowhere
        /\ \A h \in Gatherers \ {g} : gather'[h] = gather[h] /\ images'[h] = images[h]
    BY <2>1 DEF Kinds, IsOn, Relocated
  <2>3. \A h \in Gatherers : Copied(h)' = Copied(h)
    BY <2>1, CopiedStays
  <2>4. \A c \in Commits : packAt[c].seg \in sources[g] =>
          /\ Recorded(c)
          /\ InCopy(g, packAt[c]).seg = into[g] /\ InCopy(g, packAt[c]) # Nowhere
          /\ [commit |-> c, off |-> InCopy(g, packAt[c]).off] \in Copied(g)
    <3> SUFFICES ASSUME NEW c \in Commits, packAt[c].seg \in sources[g]
                 PROVE  /\ Recorded(c)
                        /\ InCopy(g, packAt[c]).seg = into[g]
                        /\ InCopy(g, packAt[c]) # Nowhere
                        /\ [commit |-> c, off |-> InCopy(g, packAt[c]).off] \in Copied(g)
      OBVIOUS
    <3>1. packAt[c].seg # 0 /\ into[g] # 0
      <4>1. packAt[c].seg \in Segs
        BY DEF Kinds
      <4>2. into[g] \in Segs
        BY <2>1 DEF CopiesAreHeld
      <4> QED  BY <4>1, <4>2, BoundsAreNaturals DEF Segs
    <3>2. Recorded(c)
      BY <3>1 DEF Recorded, Nowhere
    <3>3. [commit |-> c, off |-> packAt[c].off] \in content[packAt[c].seg]
      BY <3>2 DEF ImagesReadBack, ReadsBack
    <3>4. /\ InCopy(g, packAt[c]).seg = into[g]
          /\ [commit |-> c, off |-> InCopy(g, packAt[c]).off] \in Copied(g)
      BY <3>3, InTheCopy
    <3> QED  BY <3>1, <3>2, <3>4 DEF Nowhere
  <2>5. Kinds'
    BY <2>1 DEF Kinds, IsOn
  <2>6. MovesAreInTheCopy'
    <3>1. \A c \in Commits : IsInCopy(g, c, images[g][c])'
      BY <2>1, <2>2, <2>3, <2>4 DEF IsInCopy
    <3>2. \A c \in Commits : IsInCopy(g, c, places[g][c])'
      BY <2>1, <2>3 DEF IsInCopy, MovesAreInTheCopy
    <3>3. \A h \in Gatherers \ {g} : \A c \in Commits :
            IsInCopy(h, c, images[h][c])' /\ IsInCopy(h, c, places[h][c])'
      BY <2>1, <2>2, <2>3 DEF IsInCopy, MovesAreInTheCopy
    <3> QED  BY <3>1, <3>2, <3>3 DEF MovesAreInTheCopy
  <2>7. EveryImageIsMoved'
    <3>1. \A c \in Commits :
            /\ images'[g][c] # Nowhere => Recorded(c)
            /\ packAt[c].seg \in sources[g] => images'[g][c] # Nowhere
      BY <2>2, <2>4
    <3>2. \A h \in Gatherers \ {g} : \A c \in Commits :
            /\ images'[h][c] # Nowhere => Recorded(c)
            /\ Read(h)' /\ packAt[c].seg \in sources[h] => images'[h][c] # Nowhere
      BY <2>2 DEF EveryImageIsMoved, Read
    <3>3. \A c \in Commits : Recorded(c)' = Recorded(c)
      BY <2>1 DEF Recorded
    <3> QED  BY <2>1, <3>1, <3>2, <3>3 DEF EveryImageIsMoved
  <2>8. IdleHoldsNothing'
    BY <2>1, <2>2 DEF IdleHoldsNothing
  <2>9. CopiesAreHeld' /\ SourcesAreKept'
    BY <2>1, <2>2, <2>3 DEF CopiesAreHeld, SourcesAreKept
  <2>10. ObjectsHaveBytes' /\ UploadsAreHeld' /\ InsertsAreOwn'
    BY <2>1 DEF ObjectsHaveBytes, UploadsAreHeld, InsertsAreOwn, Going
  <2>11. PlacesAreTrue' /\ RipeIsUnread' /\ AgedIsAbandoned' /\ SweepsTheAged'
    BY <2>1 DEF PlacesAreTrue, RipeIsUnread, AgedIsAbandoned, SweepsTheAged, Going,
       Recorded
  <2>12. ReadIsKept' /\ ImagesReadBack'
    BY <2>1 DEF ReadIsKept, ImagesReadBack, ReadsBack, Recorded
  <2> QED  BY <2>5, <2>6, <2>7, <2>8, <2>9, <2>10, <2>11, <2>12
<1>2. CASE ~ \E c \in Commits : packAt[c].seg \in sources[g]
  <2>1. CrashGather(g)
    BY <1>2 DEF ReadImages, CrashGather
  <2> QED  BY <2>1, CrashGatherKeepsInv
<1> QED  BY <1>1, <1>2

LEMMA ReadPlacesKeepsInv ==
    ASSUME Inv, NEW g \in Gatherers, ReadPlaces(g)
    PROVE  Inv'
<1> USE DEF Inv
<1>1. /\ UNCHANGED <<bucket, content, row, aged, ripe, packAt, objectAt>>
      /\ UNCHANGED <<push, seg, insert, sweep, listed, reading, sources, into, images>>
      /\ gather[g] = "imaged" /\ gather' = [gather EXCEPT ![g] = "placed"]
      /\ places' = [places EXCEPT ![g] =
           Relocated(g, objectAt, {c \in Commits : images[g][c] # Nowhere})]
  BY DEF ReadPlaces, indexes, pushing, sweeping
<1>2. /\ gather'[g] = "placed"
      /\ \A c \in Commits : objectAt[c].seg \in sources[g] =>
           places'[g][c] \in {InCopy(g, objectAt[c]), Nowhere}
      /\ \A c \in Commits : objectAt[c].seg \notin sources[g] => places'[g][c] = Nowhere
      /\ \A h \in Gatherers \ {g} : gather'[h] = gather[h] /\ places'[h] = places[h]
  BY <1>1 DEF Kinds, IsOn, Relocated
<1>3. \A h \in Gatherers : Copied(h)' = Copied(h)
  BY <1>1, CopiedStays
<1>4. \A c \in Commits : objectAt[c].seg \in sources[g] =>
        /\ InCopy(g, objectAt[c]).seg = into[g]
        /\ [commit |-> c, off |-> InCopy(g, objectAt[c]).off] \in Copied(g)
  <2> SUFFICES ASSUME NEW c \in Commits, objectAt[c].seg \in sources[g]
               PROVE  /\ InCopy(g, objectAt[c]).seg = into[g]
                      /\ [commit |-> c, off |-> InCopy(g, objectAt[c]).off] \in Copied(g)
    OBVIOUS
  <2>1. objectAt[c].seg # 0
    BY DEF Kinds, Segs
  <2>2. [commit |-> c, off |-> objectAt[c].off] \in content[objectAt[c].seg]
    BY <2>1 DEF PlacesAreTrue, Nowhere
  <2> QED  BY <2>2, InTheCopy
<1>5. Kinds'
  BY <1>1 DEF Kinds, IsOn
<1>6. MovesAreInTheCopy'
  <2>1. \A c \in Commits : IsInCopy(g, c, places[g][c])'
    BY <1>1, <1>2, <1>3, <1>4 DEF IsInCopy
  <2>2. \A c \in Commits : IsInCopy(g, c, images[g][c])'
    BY <1>1, <1>3 DEF IsInCopy, MovesAreInTheCopy
  <2>3. \A h \in Gatherers \ {g} : \A c \in Commits :
          IsInCopy(h, c, images[h][c])' /\ IsInCopy(h, c, places[h][c])'
    BY <1>1, <1>2, <1>3 DEF IsInCopy, MovesAreInTheCopy
  <2> QED  BY <2>1, <2>2, <2>3 DEF MovesAreInTheCopy
<1>7. EveryImageIsMoved'
  BY <1>1, <1>2 DEF EveryImageIsMoved, Read, Recorded
<1>8. IdleHoldsNothing'
  BY <1>1, <1>2 DEF IdleHoldsNothing
<1>9. CopiesAreHeld' /\ SourcesAreKept'
  BY <1>1, <1>2, <1>3 DEF CopiesAreHeld, SourcesAreKept
<1>10. ObjectsHaveBytes' /\ UploadsAreHeld' /\ InsertsAreOwn'
  BY <1>1 DEF ObjectsHaveBytes, UploadsAreHeld, InsertsAreOwn, Going
<1>11. PlacesAreTrue' /\ RipeIsUnread' /\ AgedIsAbandoned' /\ SweepsTheAged'
  BY <1>1 DEF PlacesAreTrue, RipeIsUnread, AgedIsAbandoned, SweepsTheAged, Going,
     Recorded
<1>12. ReadIsKept' /\ ImagesReadBack'
  BY <1>1 DEF ReadIsKept, ImagesReadBack, ReadsBack, Recorded
<1> QED  BY <1>5, <1>6, <1>7, <1>8, <1>9, <1>10, <1>11, <1>12

LEMMA CopyKeepsInv ==
    ASSUME Inv, NEW g \in Gatherers, Copy(g)
    PROVE  Inv'
<1>1. CASE sources[g] \subseteq bucket
  <2> USE DEF Inv
  <2>1. /\ UNCHANGED <<row, aged, ripe, packAt, objectAt, sources, into, images, places>>
        /\ UNCHANGED <<push, seg, insert, sweep, listed, reading>>
        /\ gather[g] = "placed" /\ gather' = [gather EXCEPT ![g] = "copied"]
        /\ bucket' = bucket \union {into[g]}
        /\ content' = [content EXCEPT ![into[g]] = Copied(g)]
    BY <1>1 DEF Copy, indexes, pushing, sweeping
  <2>2. /\ into[g] \in Segs /\ into[g] \notin aged /\ row[into[g]] = "none"
        /\ content[into[g]] = {} /\ into[g] \notin bucket
        /\ \A h \in Gatherers : into[h] = into[g] => h = g
    BY <2>1 DEF CopiesAreHeld
  <2>3. /\ content'[into[g]] = Copied(g)
        /\ \A s \in Segs \ {into[g]} : content'[s] = content[s]
        /\ gather'[g] = "copied" /\ \A h \in Gatherers \ {g} : gather'[h] = gather[h]
    BY <2>1, <2>2 DEF Kinds, IsOn
  <2>4. \A h \in Gatherers : Copied(h)' = Copied(h)
    <3> SUFFICES ASSUME NEW h \in Gatherers PROVE Copied(h)' = Copied(h)
      OBVIOUS
    <3>1. \A s \in sources[h] : s \in Segs /\ s # into[g]
      BY <2>2 DEF SourcesAreKept, Kinds
    <3> QED  BY <2>1, <2>3, <3>1, CopiedStays
  <2>5. Copied(g) # {}
    <3>1. sources[g] # {} /\ \A s \in sources[g] : content[s] # {}
      BY <1>1, <2>1 DEF SourcesAreKept, ObjectsHaveBytes
    <3> QED  BY <3>1, CopiesHaveBytes
  <2>6. Kinds'
    BY <2>1, <2>2 DEF Kinds, IsOn
  <2>7. ObjectsHaveBytes'
    BY <2>1, <2>3, <2>5 DEF ObjectsHaveBytes, Kinds
  <2>8. UploadsAreHeld'
    BY <2>1, <2>2, <2>3 DEF UploadsAreHeld, Going, Kinds
  <2>9. CopiesAreHeld'
    <3> SUFFICES ASSUME NEW h \in Gatherers, gather'[h] # "idle"
                 PROVE  /\ into[h] \in Segs \ aged /\ row[into[h]] = "none"
                        /\ gather'[h] # "copied" =>
                             content'[into[h]] = {} /\ into[h] \notin bucket'
                        /\ gather'[h] = "copied" =>
                             content'[into[h]] = Copied(h) /\ into[h] \in bucket'
                        /\ \A k \in Gatherers : into[k] = into[h] => k = h
      BY <2>1, <2>4 DEF CopiesAreHeld
    <3>1. CASE h = g
      BY <2>1, <2>2, <2>3, <3>1
    <3>2. CASE h # g
      BY <2>1, <2>2, <2>3, <3>2 DEF CopiesAreHeld
    <3> QED  BY <3>1, <3>2
  <2>10. IdleHoldsNothing' /\ SourcesAreKept' /\ InsertsAreOwn'
    BY <2>1, <2>3 DEF IdleHoldsNothing, SourcesAreKept, InsertsAreOwn
  <2>11. MovesAreInTheCopy'
    BY <2>1, <2>4 DEF MovesAreInTheCopy, IsInCopy
  <2>12. EveryImageIsMoved'
    BY <2>1, <2>3 DEF EveryImageIsMoved, Read, Recorded
  <2>13. PlacesAreTrue'
    BY <2>1, <2>2, <2>3 DEF PlacesAreTrue, Recorded
  <2>14. RipeIsUnread' /\ SweepsTheAged'
    BY <2>1 DEF RipeIsUnread, SweepsTheAged
  <2>15. AgedIsAbandoned'
    BY <2>1, <2>2, <2>3 DEF AgedIsAbandoned, Going, Kinds
  <2>16. ReadIsKept'
    BY <2>1, <2>2, <2>3 DEF ReadIsKept
  <2>17. ImagesReadBack'
    BY <2>1, <2>2, <2>3 DEF ImagesReadBack, ReadsBack, Recorded, Kinds
  <2> QED  BY <2>6, <2>7, <2>8, <2>9, <2>10, <2>11, <2>12, <2>13, <2>14, <2>15,
     <2>16, <2>17
<1>2. CASE ~ (sources[g] \subseteq bucket)
  <2>1. CrashGather(g)
    BY <1>2 DEF Copy, CrashGather
  <2> QED  BY <2>1, CrashGatherKeepsInv
<1> QED  BY <1>1, <1>2

LEMMA AppendKeepsInv ==
    ASSUME Inv, NEW p \in Pushes, Append(p)
    PROVE  Inv'
<1> USE DEF Inv
<1>1. /\ UNCHANGED <<bucket, content, aged, ripe, seg, insert, sweep, listed, reading>>
      /\ UNCHANGED <<gather, sources, into, images, places>>
      /\ push[p] = "planned" /\ push' = [push EXCEPT ![p] = "over"]
      /\ packAt' = Join(packAt, Written(p)) /\ objectAt' = Join(objectAt, Written(p))
      /\ row' = [s \in Segs |-> IF s \in {seg[p]} /\ row[s] = "none" THEN "live" ELSE row[s]]
  BY DEF Append, RegisterSegments, gathering, sweeping
<1>2. /\ seg[p] \in Segs /\ seg[p] \in bucket /\ seg[p] \notin aged /\ row[seg[p]] = "none"
      /\ content[seg[p]] = PackOf[p]
      /\ \A q \in Pushes : Going(q) /\ seg[q] = seg[p] => q = p
      /\ \A g \in Gatherers : into[g] # seg[p]
  BY <1>1 DEF UploadsAreHeld, Going, Kinds
<1>3. /\ row'[seg[p]] = "live" /\ \A s \in Segs \ {seg[p]} : row'[s] = row[s]
      /\ push'[p] = "over" /\ \A q \in Pushes \ {p} : push'[q] = push[q]
  BY <1>1, <1>2 DEF Kinds
<1>4. \A g \in Gatherers : Copied(g)' = Copied(g)
  BY <1>1, CopiedStays
<1>5. /\ \A c \in Commits \ insert[p] : Written(p)[c] = Nowhere
      /\ \A c \in Commits \intersect insert[p] :
           /\ Written(p)[c].seg = seg[p]
           /\ [commit |-> c, off |-> Written(p)[c].off] \in PackOf[p]
  <2>1. \A c \in Commits \ insert[p] : Written(p)[c] = Nowhere
    BY DEF Written
  <2> SUFFICES ASSUME NEW c \in Commits \intersect insert[p]
               PROVE  /\ Written(p)[c].seg = seg[p]
                      /\ [commit |-> c, off |-> Written(p)[c].off] \in PackOf[p]
    BY <2>1
  <2> DEFINE x == CHOOSE y \in PackOf[p] : y.commit = c
  <2>2. x \in PackOf[p] /\ x.commit = c
    BY <1>1 DEF InsertsAreOwn
  <2>3. x \in Image
    BY <2>2, PacksAreImages
  <2>4. x = [commit |-> c, off |-> x.off]
    BY <2>2, <2>3 DEF Image
  <2>5. Written(p)[c] = [seg |-> seg[p], off |-> x.off]
    BY DEF Written
  <2> HIDE DEF x
  <2> QED  BY <2>2, <2>4, <2>5
<1>6. \A c \in Commits : Written(p)[c].seg \in 0 .. MaxSeg
  <2>1. Nowhere.seg = 0 /\ 0 \in 0 .. MaxSeg
    BY BoundsAreNaturals DEF Nowhere
  <2>2. seg[p] \in 0 .. MaxSeg
    BY DEF Kinds
  <2> QED  BY <1>5, <2>1, <2>2
<1>7. \A c \in Commits :
        /\ \/ packAt'[c] = packAt[c]
           \/ c \in insert[p] /\ packAt'[c] = Written(p)[c]
        /\ \/ objectAt'[c] = objectAt[c]
           \/ c \in insert[p] /\ objectAt'[c] = Written(p)[c]
        /\ c \in insert[p] => objectAt'[c].seg # 0 /\ packAt'[c].seg # 0
        /\ packAt'[c].seg \in 0 .. MaxSeg /\ objectAt'[c].seg \in 0 .. MaxSeg
  <2> SUFFICES ASSUME NEW c \in Commits
               PROVE  /\ \/ packAt'[c] = packAt[c]
                         \/ c \in insert[p] /\ packAt'[c] = Written(p)[c]
                      /\ \/ objectAt'[c] = objectAt[c]
                         \/ c \in insert[p] /\ objectAt'[c] = Written(p)[c]
                      /\ c \in insert[p] => objectAt'[c].seg # 0 /\ packAt'[c].seg # 0
                      /\ packAt'[c].seg \in 0 .. MaxSeg /\ objectAt'[c].seg \in 0 .. MaxSeg
    OBVIOUS
  <2>1. /\ packAt[c].seg \in 0 .. MaxSeg /\ objectAt[c].seg \in 0 .. MaxSeg
        /\ Written(p)[c].seg \in 0 .. MaxSeg
    BY <1>6 DEF Kinds
  <2>2. \/ packAt'[c] = packAt[c] /\ Written(p)[c].seg <= packAt[c].seg
        \/ packAt'[c] = Written(p)[c] /\ Written(p)[c].seg > packAt[c].seg
    BY <1>1, <2>1, Joined
  <2>3. \/ objectAt'[c] = objectAt[c] /\ Written(p)[c].seg <= objectAt[c].seg
        \/ objectAt'[c] = Written(p)[c] /\ Written(p)[c].seg > objectAt[c].seg
    BY <1>1, <2>1, Joined
  <2>4. c \notin insert[p] => Written(p)[c].seg = 0
    BY <1>5 DEF Nowhere
  <2>5. c \in insert[p] => Written(p)[c].seg > 0
    <3>1. seg[p] > 0
      BY <1>2, BoundsAreNaturals DEF Segs
    <3> QED  BY <1>5, <3>1
  <2> QED  BY <2>1, <2>2, <2>3, <2>4, <2>5, BoundsAreNaturals
<1>8. \A c \in Commits : Recorded(c) => Recorded(c)'
  BY <1>7 DEF Recorded, Nowhere
<1>9. Kinds'
  <2>1. IsOn(packAt', Commits) /\ IsOn(objectAt', Commits)
    BY <1>1 DEF IsOn, Join
  <2>2. row' \in [Segs -> {"none", "live", "retired"}]
    BY <1>1 DEF Kinds
  <2> QED  BY <1>1, <1>7, <2>1, <2>2 DEF Kinds
<1>10. ObjectsHaveBytes' /\ IdleHoldsNothing' /\ SweepsTheAged'
  BY <1>1, <1>2, <1>3 DEF ObjectsHaveBytes, IdleHoldsNothing, SweepsTheAged
<1>11. UploadsAreHeld'
  BY <1>1, <1>2, <1>3 DEF UploadsAreHeld, Going, Kinds
<1>12. InsertsAreOwn'
  BY <1>1, <1>3 DEF InsertsAreOwn
<1>13. CopiesAreHeld'
  BY <1>1, <1>2, <1>3, <1>4 DEF CopiesAreHeld
<1>14. SourcesAreKept'
  BY <1>1, <1>2, <1>3 DEF SourcesAreKept, Kinds
<1>15. MovesAreInTheCopy'
  BY <1>1, <1>4 DEF MovesAreInTheCopy, IsInCopy
<1>16. EveryImageIsMoved'
  <2> SUFFICES ASSUME NEW g \in Gatherers, NEW c \in Commits
               PROVE  /\ images[g][c] # Nowhere => Recorded(c)'
                      /\ Read(g) /\ packAt'[c].seg \in sources[g] => images[g][c] # Nowhere
    BY <1>1 DEF EveryImageIsMoved, Read
  <2>1. seg[p] \notin sources[g]
    BY <1>2 DEF SourcesAreKept
  <2> QED  BY <1>5, <1>7, <1>8, <2>1 DEF EveryImageIsMoved
<1>17. PlacesAreTrue'
  <2> SUFFICES ASSUME NEW c \in Commits
               PROVE  /\ objectAt'[c] # Nowhere =>
                           /\ objectAt'[c].seg \in Segs
                           /\ [commit |-> c, off |-> objectAt'[c].off]
                                 \in content[objectAt'[c].seg]
                      /\ Recorded(c)' => objectAt'[c] # Nowhere
    BY <1>1 DEF PlacesAreTrue
  <2>1. CASE c \in insert[p]
    <3>1. objectAt'[c] # Nowhere
      BY <1>7, <2>1 DEF Nowhere
    <3>2. Written(p)[c].seg \in Segs /\ [commit |-> c, off |-> Written(p)[c].off]
                                           \in content[Written(p)[c].seg]
      BY <1>2, <1>5, <2>1
    <3>3. objectAt'[c] = objectAt[c] \/ objectAt'[c] = Written(p)[c]
      BY <1>7
    <3> QED  BY <3>1, <3>2, <3>3 DEF PlacesAreTrue
  <2>2. CASE c \notin insert[p]
    <3>1. objectAt'[c] = objectAt[c] /\ packAt'[c] = packAt[c]
      BY <1>7, <2>2
    <3> QED  BY <3>1 DEF PlacesAreTrue, Recorded
  <2> QED  BY <2>1, <2>2
<1>18. RipeIsUnread'
  BY <1>1, <1>2, <1>3 DEF RipeIsUnread, Kinds
<1>19. AgedIsAbandoned'
  BY <1>1, <1>2, <1>3 DEF AgedIsAbandoned, Going, Kinds
<1>20. ReadIsKept'
  BY <1>1, <1>2, <1>3 DEF ReadIsKept
<1>21. ImagesReadBack'
  <2> SUFFICES ASSUME NEW c \in Commits, Recorded(c)'
               PROVE  /\ packAt'[c].seg \in bucket
                      /\ [commit |-> c, off |-> packAt'[c].off] \in content[packAt'[c].seg]
                      /\ row'[packAt'[c].seg] = "live"
    BY <1>1 DEF ImagesReadBack, ReadsBack
  <2>1. CASE packAt'[c] = packAt[c]
    <3>1. Recorded(c)
      BY <2>1 DEF Recorded
    <3> QED  BY <1>3, <2>1, <3>1 DEF ImagesReadBack, ReadsBack, Kinds
  <2>2. CASE c \in insert[p] /\ packAt'[c] = Written(p)[c]
    BY <1>2, <1>3, <1>5, <2>2
  <2> QED  BY <1>7, <2>1, <2>2
<1> QED  BY <1>9, <1>10, <1>11, <1>12, <1>13, <1>14, <1>15, <1>16, <1>17, <1>18,
   <1>19,
            <1>20, <1>21

LEMMA CommitGatherKeepsInv ==
    ASSUME Inv, NEW g \in Gatherers, CommitGather(g)
    PROVE  Inv'
<1> USE DEF Inv
<1>1. /\ UNCHANGED <<bucket, content, aged, ripe, push, seg, insert, sweep, listed, reading>>
      /\ gather[g] = "copied" /\ Leave(g)
      /\ packAt' = Join(packAt, images[g]) /\ objectAt' = Join(objectAt, places[g])
      /\ row' = RetireSegments(RegisterSegments(row, {into[g]}), sources[g])
  BY DEF CommitGather, pushing, sweeping
<1>2. /\ gather'[g] = "idle" /\ sources'[g] = {} /\ into'[g] = 0
      /\ \A c \in Commits : images'[g][c] = Nowhere /\ places'[g][c] = Nowhere
      /\ \A h \in Gatherers \ {g} :
           /\ gather'[h] = gather[h] /\ sources'[h] = sources[h] /\ into'[h] = into[h]
           /\ images'[h] = images[h] /\ places'[h] = places[h]
  BY <1>1, Left
<1>3. \A h \in Gatherers \ {g} : Copied(h)' = Copied(h)
  BY <1>1, <1>2, CopiedStays
<1>4. 0 \notin Segs
  BY DEF Segs
<1>5. \A p \in Pushes : Going(p) => seg[p] # 0 /\ seg[p] # into[g]
  BY <1>4 DEF UploadsAreHeld, Kinds
<1>6. /\ into[g] \in Segs /\ into[g] \in bucket /\ into[g] \notin aged
      /\ row[into[g]] = "none" /\ content[into[g]] = Copied(g)
      /\ \A h \in Gatherers : into[h] = into[g] => h = g
  BY <1>1 DEF CopiesAreHeld
<1>7. \A h \in Gatherers : into[g] \notin sources[h]
  BY <1>6 DEF SourcesAreKept
<1>8. /\ row' \in [Segs -> {"none", "live", "retired"}]
      /\ row'[into[g]] = "live"
      /\ \A s \in sources[g] : row'[s] = "retired"
      /\ \A s \in Segs \ sources[g] : s # into[g] => row'[s] = row[s]
  <2>1. RegisterSegments(row, {into[g]}) = [row EXCEPT ![into[g]] = "live"]
    BY <1>6 DEF RegisterSegments, Kinds
  <2>2. row' = [s \in Segs |-> IF s \in sources[g] /\ [row EXCEPT ![into[g]] = "live"][s] = "live"
                                THEN "retired" ELSE [row EXCEPT ![into[g]] = "live"][s]]
    BY <1>1, <2>1 DEF RetireSegments
  <2>3. \A s \in sources[g] : s \in Segs /\ row[s] \in {"live", "retired"} /\ s # into[g]
    BY <1>7 DEF SourcesAreKept, Kinds
  <2>4. sources[g] \subseteq Segs /\ into[g] \notin sources[g]
    BY <1>7 DEF Kinds
  <2>5. \A s \in Segs : row'[s] = IF s = into[g] THEN "live"
          ELSE IF s \in sources[g] /\ row[s] = "live" THEN "retired" ELSE row[s]
    BY <1>6, <2>2, <2>4 DEF Kinds
  <2> QED  BY <1>6, <2>2, <2>3, <2>4, <2>5 DEF Kinds
<1>9. \A s \in Segs : row[s] # "none" => row'[s] # "none"
  BY <1>6, <1>8
<1>10. \A s \in Segs : row[s] = "none" /\ s # into[g] => row'[s] = "none"
  BY <1>8 DEF SourcesAreKept
<1>11. \A c \in Commits : images[g][c].seg \in {0, into[g]} /\ places[g][c].seg \in {0, into[g]}
  <2>1. Nowhere.seg = 0
    BY DEF Nowhere
  <2> QED  BY <2>1 DEF MovesAreInTheCopy, IsInCopy
<1>12. \A c \in Commits :
        /\ packAt'[c] = packAt[c] \/ (images[g][c] # Nowhere /\ packAt'[c] = images[g][c])
        /\ objectAt'[c] = objectAt[c] \/ (places[g][c] # Nowhere /\ objectAt'[c] = places[g][c])
        /\ packAt[c].seg \in sources[g] => packAt'[c].seg = into[g]
        /\ packAt'[c].seg \in 0 .. MaxSeg /\ objectAt'[c].seg \in 0 .. MaxSeg
        /\ packAt'[c].seg >= packAt[c].seg /\ objectAt'[c].seg >= objectAt[c].seg
  <2> SUFFICES ASSUME NEW c \in Commits
               PROVE  /\ packAt'[c] = packAt[c] \/ (images[g][c] # Nowhere /\ packAt'[c] = images[g][c])
                      /\ objectAt'[c] = objectAt[c] \/ (places[g][c] # Nowhere /\ objectAt'[c] = places[g][c])
                      /\ packAt[c].seg \in sources[g] => packAt'[c].seg = into[g]
                      /\ packAt'[c].seg \in 0 .. MaxSeg /\ objectAt'[c].seg \in 0 .. MaxSeg
                      /\ packAt'[c].seg >= packAt[c].seg /\ objectAt'[c].seg >= objectAt[c].seg
    OBVIOUS
  <2>1. /\ packAt[c].seg \in 0 .. MaxSeg /\ objectAt[c].seg \in 0 .. MaxSeg
        /\ images[g][c].seg \in 0 .. MaxSeg /\ places[g][c].seg \in 0 .. MaxSeg
        /\ into[g] \in 1 .. MaxSeg
    <3>1. into[g] \in 1 .. MaxSeg
      BY <1>6 DEF Segs
    <3>2. 0 \in 0 .. MaxSeg /\ into[g] \in 0 .. MaxSeg
      BY <3>1, BoundsAreNaturals
    <3> QED  BY <1>11, <3>1, <3>2 DEF Kinds
  <2>2. \/ packAt'[c] = packAt[c] /\ images[g][c].seg <= packAt[c].seg
        \/ packAt'[c] = images[g][c] /\ images[g][c].seg > packAt[c].seg
    BY <1>1, <2>1, Joined
  <2>3. \/ objectAt'[c] = objectAt[c] /\ places[g][c].seg <= objectAt[c].seg
        \/ objectAt'[c] = places[g][c] /\ places[g][c].seg > objectAt[c].seg
    BY <1>1, <2>1, Joined
  <2>4. images[g][c].seg > 0 => images[g][c] # Nowhere
    BY DEF Nowhere
  <2>5. places[g][c].seg > 0 => places[g][c] # Nowhere
    BY DEF Nowhere
  <2>6. packAt[c].seg \in sources[g] => images[g][c].seg = into[g] /\ packAt[c].seg < into[g]
    BY <1>1 DEF EveryImageIsMoved, Read, MovesAreInTheCopy, IsInCopy, SourcesAreKept
  <2> QED  BY <2>1, <2>2, <2>3, <2>4, <2>5, <2>6, BoundsAreNaturals
<1>13. \A c \in Commits : Recorded(c) <=> Recorded(c)'
  <2> SUFFICES ASSUME NEW c \in Commits PROVE Recorded(c) <=> Recorded(c)'
    OBVIOUS
  <2>1. Recorded(c) => packAt[c].seg \in Segs
    BY DEF ImagesReadBack, ReadsBack, Kinds
  <2>2. Recorded(c) => packAt'[c].seg # 0
    BY <1>12, <2>1, BoundsAreNaturals DEF Segs, Kinds
  <2>3. Recorded(c)' => Recorded(c)
    BY <1>12 DEF EveryImageIsMoved, Recorded
  <2> QED  BY <2>2, <2>3 DEF Recorded, Nowhere
<1>14. Kinds'
  <2>1. IsOn(packAt', Commits) /\ IsOn(objectAt', Commits)
    BY <1>1 DEF IsOn, Join
  <2> QED  BY <1>1, <1>8, <1>12, <2>1, Left DEF Kinds
<1>15. ObjectsHaveBytes'
  BY <1>1, <1>6, <1>10 DEF ObjectsHaveBytes
<1>16. UploadsAreHeld'
  <2>1. \A p \in Pushes : Going(p) => row'[seg[p]] = "none" /\ \A h \in Gatherers : into'[h] # seg[p]
    BY <1>2, <1>5, <1>10 DEF UploadsAreHeld, Kinds
  <2> QED  BY <1>1, <2>1 DEF UploadsAreHeld, Going
<1>17. InsertsAreOwn' /\ SweepsTheAged'
  BY <1>1 DEF InsertsAreOwn, SweepsTheAged
<1>18. CopiesAreHeld'
  <2> SUFFICES ASSUME NEW h \in Gatherers, gather'[h] # "idle"
               PROVE  /\ into'[h] \in Segs \ aged' /\ row'[into'[h]] = "none"
                      /\ gather'[h] # "copied" =>
                           content'[into'[h]] = {} /\ into'[h] \notin bucket'
                      /\ gather'[h] = "copied" =>
                           content'[into'[h]] = Copied(h)' /\ into'[h] \in bucket'
                      /\ \A k \in Gatherers : into'[k] = into'[h] => k = h
    BY DEF CopiesAreHeld
  <2>0. /\ h # g /\ Copied(h)' = Copied(h)
        /\ gather'[h] = gather[h] /\ into'[h] = into[h]
    BY <1>2, <1>3
  <2>1. into[h] \in Segs /\ row[into[h]] = "none" /\ into[h] # into[g] /\ into[h] # 0
    BY <1>4, <1>6, <2>0 DEF CopiesAreHeld
  <2>2. \A k \in Gatherers : into'[k] = into[h] => k = h
    BY <1>2, <2>0, <2>1 DEF CopiesAreHeld
  <2> QED  BY <1>1, <1>10, <2>0, <2>1, <2>2 DEF CopiesAreHeld
<1>19. IdleHoldsNothing'
  BY <1>2 DEF IdleHoldsNothing
<1>20. SourcesAreKept'
  <2>1. \A h \in Gatherers : sources[h] \subseteq Segs
    BY DEF Kinds
  <2>2. \A h \in Gatherers \ {g} : \A s \in sources[h] : row'[s] # "none" /\ s \notin ripe /\ s < into[h]
    BY <1>9, <2>1 DEF SourcesAreKept
  <2> QED  BY <1>1, <1>2, <2>2 DEF SourcesAreKept
<1>21. MovesAreInTheCopy'
  BY <1>1, <1>2, <1>3 DEF MovesAreInTheCopy, IsInCopy
<1>22. EveryImageIsMoved'
  <2>1. \A h \in Gatherers \ {g} : \A c \in Commits :
          /\ images'[h][c] # Nowhere => Recorded(c)'
          /\ Read(h)' /\ packAt'[c].seg \in sources'[h] => images'[h][c] # Nowhere
    <3> SUFFICES ASSUME NEW h \in Gatherers \ {g}, NEW c \in Commits
                 PROVE  /\ images[h][c] # Nowhere => Recorded(c)'
                        /\ Read(h) /\ packAt'[c].seg \in sources[h] => images[h][c] # Nowhere
      BY <1>2 DEF Read
    <3>1. packAt'[c].seg \in sources[h] => packAt'[c] = packAt[c]
      <4>1. images[g][c] # Nowhere => images[g][c].seg = into[g]
        BY DEF MovesAreInTheCopy, IsInCopy
      <4>2. packAt'[c] = packAt[c] \/ (images[g][c] # Nowhere /\ packAt'[c] = images[g][c])
        BY <1>12
      <4>3. into[g] \notin sources[h]
        BY <1>7
      <4> QED  BY <4>1, <4>2, <4>3
    <3> QED  BY <1>13, <3>1 DEF EveryImageIsMoved
  <2>2. \A c \in Commits : images'[g][c] = Nowhere /\ ~Read(g)'
    BY <1>2 DEF Read
  <2> QED  BY <2>1, <2>2 DEF EveryImageIsMoved
<1>23. PlacesAreTrue'
  <2> SUFFICES ASSUME NEW c \in Commits
               PROVE  /\ objectAt'[c] # Nowhere =>
                           /\ objectAt'[c].seg \in Segs
                           /\ [commit |-> c, off |-> objectAt'[c].off]
                                 \in content[objectAt'[c].seg]
                      /\ Recorded(c) => objectAt'[c] # Nowhere
    BY <1>1, <1>13 DEF PlacesAreTrue
  <2>1. CASE objectAt'[c] = objectAt[c]
    BY <2>1 DEF PlacesAreTrue
  <2>2. CASE places[g][c] # Nowhere /\ objectAt'[c] = places[g][c]
    <3>1. places[g][c].seg = into[g] /\ [commit |-> c, off |-> places[g][c].off] \in Copied(g)
      BY <2>2 DEF MovesAreInTheCopy, IsInCopy
    <3> QED  BY <1>6, <2>2, <3>1
  <2> QED  BY <1>12, <2>1, <2>2
<1>24. RipeIsUnread'
  <2>1. \A s \in ripe : s \in Segs /\ row[s] = "retired" /\ s # into[g]
    BY <1>6 DEF RipeIsUnread, Kinds
  <2>2. \A s \in ripe : row'[s] = "retired"
    BY <1>8, <2>1
  <2> QED  BY <1>1, <2>2 DEF RipeIsUnread
<1>25. AgedIsAbandoned'
  <2>1. \A s \in aged : row'[s] = "none" /\ \A h \in Gatherers : into'[h] # s
    BY <1>2, <1>4, <1>6, <1>10 DEF AgedIsAbandoned, Kinds
  <2> QED  BY <1>1, <2>1 DEF AgedIsAbandoned, Going
<1>26. ReadIsKept'
  BY <1>1, <1>9 DEF ReadIsKept
<1>27. ImagesReadBack'
  <2> SUFFICES ASSUME NEW c \in Commits, Recorded(c)
               PROVE  /\ packAt'[c].seg \in bucket
                      /\ [commit |-> c, off |-> packAt'[c].off] \in content[packAt'[c].seg]
                      /\ row'[packAt'[c].seg] = "live"
    BY <1>1, <1>13 DEF ImagesReadBack, ReadsBack
  <2>1. CASE images[g][c] # Nowhere /\ packAt'[c] = images[g][c]
    <3>0. IsInCopy(g, c, images[g][c])
      BY DEF MovesAreInTheCopy
    <3>1. /\ packAt'[c].seg = into[g]
          /\ [commit |-> c, off |-> packAt'[c].off] \in Copied(g)
      BY <2>1, <3>0 DEF IsInCopy
    <3> QED  BY <1>6, <1>8, <3>1
  <2>2. CASE packAt'[c] = packAt[c]
    <3>1. packAt[c].seg \notin sources[g]
      BY <1>7, <1>12, <2>2
    <3>2. packAt[c].seg \in Segs /\ packAt[c].seg # into[g]
      BY <1>6 DEF ImagesReadBack, ReadsBack, Kinds
    <3> QED  BY <1>8, <2>2, <3>1, <3>2 DEF ImagesReadBack, ReadsBack
  <2> QED  BY <1>12, <2>1, <2>2
<1> QED  BY <1>14, <1>15, <1>16, <1>17, <1>18, <1>19, <1>20, <1>21, <1>22, <1>23,
   <1>24,
            <1>25, <1>26, <1>27

-----------------------------------------------------------------------------
(* The invariant, and what it gives.                                       *)

LEMMA InitInv == Init => Inv
<1> SUFFICES ASSUME Init PROVE Inv
  OBVIOUS
<1> USE DEF Init
<1>1. Nowhere.seg = 0 /\ 0 \in 0 .. MaxSeg
  BY BoundsAreNaturals DEF Nowhere
<1>2. Kinds
  BY <1>1 DEF Kinds, IsOn
<1>3. ObjectsHaveBytes /\ UploadsAreHeld /\ InsertsAreOwn /\ CopiesAreHeld
  BY DEF ObjectsHaveBytes, UploadsAreHeld, InsertsAreOwn, CopiesAreHeld, Going
<1>4. IdleHoldsNothing /\ SourcesAreKept /\ MovesAreInTheCopy /\ EveryImageIsMoved
  BY DEF IdleHoldsNothing, SourcesAreKept, MovesAreInTheCopy, IsInCopy,
     EveryImageIsMoved,
     Read
<1>5. PlacesAreTrue /\ RipeIsUnread /\ AgedIsAbandoned /\ SweepsTheAged
  BY DEF PlacesAreTrue, RipeIsUnread, AgedIsAbandoned, SweepsTheAged, Recorded
<1>6. ReadIsKept /\ ImagesReadBack
  BY DEF ReadIsKept, ImagesReadBack, Recorded
<1> QED  BY <1>2, <1>3, <1>4, <1>5, <1>6 DEF Inv

LEMMA StillKeepsInv == Inv /\ UNCHANGED vars => Inv'
<1> SUFFICES ASSUME Inv, UNCHANGED vars PROVE Inv'
  OBVIOUS
<1>1. /\ UNCHANGED <<bucket, content, row, aged, ripe, packAt, objectAt>>
      /\ UNCHANGED <<push, seg, insert, sweep, listed, reading>>
      /\ UNCHANGED <<gather, sources, into, images, places>>
  BY DEF vars, indexes, pushing, gathering, sweeping
<1>2. \A g \in Gatherers : Copied(g)' = Copied(g)
  BY <1>1, CopiedStays
<1> USE DEF Inv
<1>3. ObjectsHaveBytes' /\ UploadsAreHeld' /\ InsertsAreOwn' /\ CopiesAreHeld'
  BY <1>1, <1>2 DEF ObjectsHaveBytes, UploadsAreHeld, InsertsAreOwn, CopiesAreHeld,
     Going
<1>4. IdleHoldsNothing' /\ SourcesAreKept' /\ MovesAreInTheCopy' /\ EveryImageIsMoved'
  BY <1>1, <1>2 DEF IdleHoldsNothing, SourcesAreKept, MovesAreInTheCopy, IsInCopy,
     EveryImageIsMoved, Read, Recorded
<1>5. PlacesAreTrue' /\ RipeIsUnread' /\ AgedIsAbandoned' /\ SweepsTheAged'
  BY <1>1 DEF PlacesAreTrue, RipeIsUnread, AgedIsAbandoned, SweepsTheAged,
     Recorded, Going
<1>6. ReadIsKept' /\ ImagesReadBack'
  BY <1>1 DEF ReadIsKept, ImagesReadBack, ReadsBack, Recorded
<1>7. Kinds'
  BY <1>1 DEF Kinds, IsOn
<1> QED  BY <1>3, <1>4, <1>5, <1>6, <1>7

LEMMA NextKeepsInv == Inv /\ [Next]_vars => Inv'
<1> SUFFICES ASSUME Inv, Next PROVE Inv'
  BY StillKeepsInv
<1>1. CASE \E p \in Pushes : (\E s \in Segs : Upload(p, s)) \/ PlanAppend(p)
                             \/ Append(p) \/ CrashPush(p)
  BY <1>1, UploadKeepsInv, PlanAppendKeepsInv, AppendKeepsInv, CrashPushKeepsInv
<1>2. CASE \E g \in Gatherers : (\E i \in Segs : PlanGather(g, i)) \/ GatherStep(g)
                                \/ CrashGather(g)
  BY <1>2, PlanGatherKeepsInv, ReadImagesKeepsInv, ReadPlacesKeepsInv, CopyKeepsInv,
     CommitGatherKeepsInv, LoseGatherKeepsInv, CrashGatherKeepsInv DEF GatherStep
<1>3. CASE SweepStep
  BY <1>3, DropRetiredKeepsInv, ListBucketKeepsInv, ReadRowsKeepsInv,
     DeleteOrphanKeepsInv, EndSweepKeepsInv DEF SweepStep
<1>4. CASE \E r \in Readers : (\E c \in Commits : Compose(r, c)) \/ Fetch(r)
  BY <1>4, ComposeKeepsInv, FetchKeepsInv
<1>5. CASE \E s \in Segs : Age(s) \/ Ripen(s)
  BY <1>5, AgeKeepsInv, RipenKeepsInv
<1> QED  BY <1>1, <1>2, <1>3, <1>4, <1>5 DEF Next

LEMMA SpecInv == Spec => []Inv
BY InitInv, NextKeepsInv, PTL DEF Spec

\* However pushes, gathers, crashes and the sweep interleave, and whichever
\* commits two pushes have in common, the pack index leads to the image, and
\* to a segment no sweep will take (coalesce.rs, maintenance.rs sweep_repo).
THEOREM PackIndexReadsBack == Spec => []ImagesReadBack
<1>1. Inv => ImagesReadBack
  BY DEF Inv
<1> QED  BY <1>1, SpecInv, PTL

\* A reader sent to a live segment finds the bytes there until it is done:
\* retirement, the drop of the row and the sweep all wait for it
\* (coalesce.rs:163, repos.rs drop_retired_segments).
THEOREM ReadersAreServed == Spec => []ReadersFindTheirBytes
<1>1. Inv => ReadersFindTheirBytes
  BY DEF Inv, ReadIsKept, ObjectsHaveBytes, ReadersFindTheirBytes, ReadsBack
<1> QED  BY <1>1, SpecInv, PTL

-----------------------------------------------------------------------------
(* The object index, which two clients with one commit or two gathers of   *)
(* one repository lead astray, and nothing else does.                      *)

LEMMA QuietKeepsAlone ==
    ASSUME AloneInv, UNCHANGED <<packAt, objectAt, gather, sources, into, images, places>>,
           \A g \in Gatherers : \A s \in sources[g] : content'[s] = content[s],
           \A p \in Pushes : push'[p] # "over" => push[p] # "over"
    PROVE  AloneInv'
<1>1. \A g \in Gatherers : Relocated(g, packAt, Commits)' = Relocated(g, packAt, Commits)
  <2> SUFFICES ASSUME NEW g \in Gatherers
               PROVE  Relocated(g, packAt, Commits)' = Relocated(g, packAt, Commits)
    OBVIOUS
  <2>1. \A s : Shift(g, s)' = Shift(g, s)
    BY ShiftsStay
  <2>2. \A c \in Commits : InCopy(g, packAt[c])' = InCopy(g, packAt[c])
    BY <2>1 DEF InCopy
  <2> QED  BY <2>2 DEF Relocated
<1>2. ReadsAreCurrent'
  BY <1>1 DEF AloneInv, ReadsAreCurrent, Read
<1>3. PendingIsUnrecorded' /\ IndexesAgree'
  BY DEF AloneInv, PendingIsUnrecorded, IndexesAgree, Recorded
<1> QED  BY <1>2, <1>3 DEF AloneInv

LEMMA LeaveKeepsAlone ==
    ASSUME OneGatherer, Kinds, AloneInv, NEW g \in Gatherers, Leave(g),
           UNCHANGED <<packAt, objectAt, push>>
    PROVE  AloneInv'
<1>1. \A h \in Gatherers : gather'[h] = "idle"
  BY Left DEF OneGatherer
<1>2. ReadsAreCurrent'
  BY <1>1 DEF ReadsAreCurrent, Read
<1> QED  BY <1>2 DEF AloneInv, PendingIsUnrecorded, IndexesAgree, Recorded

LEMMA AppendKeepsAlone ==
    ASSUME OncePushed, Inv, AloneInv, NEW p \in Pushes, Append(p)
    PROVE  AloneInv'
<1>1. /\ UNCHANGED <<content, gather, sources, into, images, places>>
      /\ push[p] = "planned" /\ push' = [push EXCEPT ![p] = "over"]
      /\ packAt' = Join(packAt, Written(p)) /\ objectAt' = Join(objectAt, Written(p))
  BY DEF Append, gathering
<1>2. seg[p] \in Segs /\ row[seg[p]] = "none"
  BY <1>1 DEF Inv, UploadsAreHeld, Going, Kinds
<1>3. \A c \in Commits \ insert[p] : packAt'[c] = packAt[c]
  <2> SUFFICES ASSUME NEW c \in Commits \ insert[p] PROVE packAt'[c] = packAt[c]
    OBVIOUS
  <2>1. Written(p)[c] = Nowhere
    BY DEF Written
  <2>2. Written(p)[c].seg = 0 /\ packAt[c].seg \in Nat
    BY <2>1 DEF Nowhere, Inv, Kinds
  <2> QED  BY <1>1, <2>2 DEF Join
<1>4. \A c \in Commits \intersect insert[p] :
        packAt[c].seg = 0 /\ packAt'[c].seg = seg[p]
  <2> SUFFICES ASSUME NEW c \in Commits \intersect insert[p]
               PROVE  packAt[c].seg = 0 /\ packAt'[c].seg = seg[p]
    OBVIOUS
  <2>1. PICK x \in PackOf[p] : x.commit = c
    BY <1>1 DEF Inv, InsertsAreOwn
  <2>2. packAt[c] = Nowhere
    BY <1>1, <2>1 DEF AloneInv, PendingIsUnrecorded, Recorded
  <2>3. Written(p)[c].seg = seg[p]
    BY DEF Written
  <2>4. packAt[c].seg = 0 /\ seg[p] > 0
    BY <1>2, <2>2, BoundsAreNaturals DEF Nowhere, Segs
  <2> QED  BY <1>1, <2>3, <2>4 DEF Join
<1>5. IndexesAgree'
  BY <1>1 DEF AloneInv, IndexesAgree
<1>6. PendingIsUnrecorded'
  <2> SUFFICES ASSUME NEW q \in Pushes, push'[q] # "over", NEW x \in PackOf[q]
               PROVE  ~Recorded(x.commit)'
    BY DEF PendingIsUnrecorded
  <2>1. q # p /\ push[q] # "over"
    BY <1>1 DEF Inv, Kinds
  <2>2. x.commit \notin insert[p]
    BY <1>1, <2>1 DEF Inv, InsertsAreOwn, OncePushed
  <2>3. x.commit \in Commits
    BY PacksAreImages DEF Image
  <2> QED  BY <1>3, <2>1, <2>2, <2>3 DEF AloneInv, PendingIsUnrecorded, Recorded
<1>7. ReadsAreCurrent'
  <2> SUFFICES ASSUME NEW g \in Gatherers
               PROVE  Relocated(g, packAt, Commits)' = Relocated(g, packAt, Commits)
    BY <1>1 DEF ReadsAreCurrent, Read, AloneInv
  <2>1. \A s : Shift(g, s)' = Shift(g, s)
    BY <1>1, ShiftsStay
  <2>2. seg[p] \notin sources[g] /\ 0 \notin sources[g]
    BY <1>2 DEF Inv, SourcesAreKept, Kinds, Segs
  <2>3. \A c \in Commits :
          IF packAt'[c].seg \in sources[g] THEN packAt'[c] = packAt[c]
                                           ELSE packAt[c].seg \notin sources[g]
    BY <1>3, <1>4, <2>2
  <2>4. \A c \in Commits : packAt'[c].seg \in sources[g] =>
          InCopy(g, packAt[c])' = InCopy(g, packAt[c])
    BY <1>1, <2>1, <2>3 DEF InCopy
  <2> QED  BY <1>1, <2>3, <2>4 DEF Relocated
<1> QED  BY <1>5, <1>6, <1>7 DEF AloneInv

LEMMA CommitGatherKeepsAlone ==
    ASSUME OneGatherer, Inv, AloneInv, NEW g \in Gatherers, CommitGather(g)
    PROVE  AloneInv'
<1>1. /\ gather[g] = "copied" /\ Leave(g) /\ push' = push
      /\ packAt' = Join(packAt, images[g]) /\ objectAt' = Join(objectAt, places[g])
  BY DEF CommitGather, pushing
<1>2. \A h \in Gatherers : gather'[h] = "idle"
  BY <1>1, Left DEF OneGatherer, Inv
<1>3. IndexesAgree'
  BY <1>1 DEF AloneInv, ReadsAreCurrent, IndexesAgree
<1>4. \A c \in Commits : ~Recorded(c) => ~Recorded(c)'
  BY <1>1 DEF Join, Recorded, Inv, EveryImageIsMoved, Nowhere
<1>5. PendingIsUnrecorded'
  BY <1>1, <1>4, PacksAreImages DEF AloneInv, PendingIsUnrecorded, Image
<1>6. ReadsAreCurrent'
  BY <1>2 DEF ReadsAreCurrent, Read
<1> QED  BY <1>3, <1>5, <1>6 DEF AloneInv

LEMMA ReadingKeepsAlone ==
    ASSUME OneGatherer, Inv, AloneInv, NEW g \in Gatherers,
           ReadImages(g) \/ ReadPlaces(g) \/ Copy(g)
    PROVE  AloneInv'
<1>1. CASE ReadImages(g) /\ \E c \in Commits : packAt[c].seg \in sources[g]
  <2>1. /\ UNCHANGED <<content, packAt, objectAt, push, sources, into, places>>
        /\ images'[g] = Relocated(g, packAt, Commits) /\ gather'[g] = "imaged"
    BY <1>1 DEF ReadImages, indexes, pushing, Inv, Kinds, IsOn
  <2>2. Relocated(g, packAt, Commits)' = Relocated(g, packAt, Commits)
    BY <2>1, ShiftsStay DEF Relocated, InCopy
  <2>3. ReadsAreCurrent'
    BY <2>1, <2>2 DEF ReadsAreCurrent, OneGatherer, Read
  <2> QED  BY <2>1, <2>3 DEF AloneInv, PendingIsUnrecorded, IndexesAgree, Recorded
<1>2. CASE ReadPlaces(g)
  <2>1. /\ UNCHANGED <<content, packAt, objectAt, push, sources, into, images>>
        /\ places'[g] = Relocated(g, objectAt, {c \in Commits : images[g][c] # Nowhere})
        /\ gather[g] = "imaged" /\ gather'[g] = "placed"
    BY <1>2 DEF ReadPlaces, indexes, pushing, Inv, Kinds, IsOn
  <2>2. Relocated(g, packAt, Commits)' = Relocated(g, packAt, Commits)
    BY <2>1, ShiftsStay DEF Relocated, InCopy
  <2>3. images[g] = Relocated(g, packAt, Commits)
    BY <2>1 DEF AloneInv, ReadsAreCurrent, Read
  <2>4. \A c \in Commits : packAt[c].seg \in sources[g] => images[g][c] # Nowhere
    BY <2>1 DEF Inv, EveryImageIsMoved, Read
  <2>5. places'[g] = Relocated(g, packAt, Commits)
    BY <2>1, <2>4 DEF Relocated, AloneInv, IndexesAgree
  <2>6. ReadsAreCurrent'
    BY <2>1, <2>2, <2>3, <2>5 DEF ReadsAreCurrent, OneGatherer, Read
  <2> QED  BY <2>1, <2>6 DEF AloneInv, PendingIsUnrecorded, IndexesAgree, Recorded
<1>3. CASE Copy(g) /\ sources[g] \subseteq bucket
  <2>1. /\ UNCHANGED <<packAt, objectAt, push, sources, into, images, places>>
        /\ gather[g] = "placed" /\ content' = [content EXCEPT ![into[g]] = Copied(g)]
    BY <1>3 DEF Copy, indexes, pushing
  <2>2. \A s \in sources[g] : content'[s] = content[s]
    BY <2>1 DEF Inv, Kinds, IsOn, SourcesAreKept, CopiesAreHeld
  <2>3. \A s : Shift(g, s)' = Shift(g, s)
    BY <2>1, <2>2, ShiftsStay
  <2>4. \A c \in Commits : InCopy(g, packAt[c])' = InCopy(g, packAt[c])
    BY <2>1, <2>3 DEF InCopy
  <2>5. Relocated(g, packAt, Commits)' = Relocated(g, packAt, Commits)
    BY <2>1, <2>4 DEF Relocated
  <2>6. images[g] = Relocated(g, packAt, Commits) /\ places[g] = images[g]
    BY <2>1 DEF AloneInv, ReadsAreCurrent, Read
  <2>7. ReadsAreCurrent'
    BY <2>1, <2>5, <2>6 DEF ReadsAreCurrent, OneGatherer
  <2> QED  BY <2>1, <2>7 DEF AloneInv, PendingIsUnrecorded, IndexesAgree, Recorded
<1>4. CASE Leave(g) /\ UNCHANGED <<packAt, objectAt, push>>
  BY <1>4, LeaveKeepsAlone DEF Inv
<1> QED  BY <1>1, <1>2, <1>3, <1>4 DEF ReadImages, Copy, indexes, pushing

LEMMA NextKeepsAlone ==
    ASSUME OncePushed, OneGatherer, Inv, AloneInv, [Next]_vars
    PROVE  AloneInv'
<1>1. ASSUME NEW p \in Pushes, NEW s \in Segs, Upload(p, s) PROVE AloneInv'
  <2>1. /\ UNCHANGED <<packAt, objectAt, gather, sources, into, images, places>>
        /\ content' = [content EXCEPT ![s] = PackOf[p]] /\ content[s] = {}
        /\ push[p] = "idle" /\ push' = [push EXCEPT ![p] = "uploaded"]
    BY <1>1 DEF Upload, Unminted, indexes, gathering
  <2>2. \A g \in Gatherers : \A x \in sources[g] : content'[x] = content[x]
    <3>1. \A g \in Gatherers : \A x \in sources[g] : x \in Segs /\ content[x] # {}
      BY DEF Inv, SourcesAreKept, ObjectsHaveBytes, Kinds
    <3> QED  BY <2>1, <3>1 DEF Inv, Kinds, IsOn
  <2>3. \A q \in Pushes : push'[q] # "over" => push[q] # "over"
    BY <2>1 DEF Inv, Kinds
  <2> QED  BY <2>1, <2>2, <2>3, QuietKeepsAlone
<1>2. ASSUME NEW p \in Pushes, PlanAppend(p) \/ CrashPush(p) PROVE AloneInv'
  <2>1. /\ UNCHANGED <<packAt, objectAt, gather, sources, into, images, places, content>>
        /\ push[p] # "over" /\ \E to : push' = [push EXCEPT ![p] = to]
    BY <1>2 DEF PlanAppend, CrashPush, indexes, gathering
  <2>2. \A q \in Pushes : push'[q] # "over" => push[q] # "over"
    BY <2>1 DEF Inv, Kinds
  <2> QED  BY <2>1, <2>2, QuietKeepsAlone
<1>3. ASSUME NEW g \in Gatherers, NEW i \in Segs, PlanGather(g, i) PROVE AloneInv'
  <2>1. /\ UNCHANGED <<packAt, objectAt, push>> /\ gather' = [gather EXCEPT ![g] = "planned"]
    BY <1>3 DEF PlanGather, indexes, pushing
  <2>2. \A h \in Gatherers : gather'[h] = "planned"
    BY <2>1 DEF OneGatherer, Inv, Kinds
  <2>3. ReadsAreCurrent'
    BY <2>2 DEF ReadsAreCurrent, Read
  <2> QED  BY <2>1, <2>3 DEF AloneInv, PendingIsUnrecorded, IndexesAgree, Recorded
<1>4. ASSUME NEW g \in Gatherers, LoseGather(g) \/ CrashGather(g) PROVE AloneInv'
  BY <1>4, LeaveKeepsAlone DEF LoseGather, CrashGather, Inv, indexes, pushing
<1>5. ASSUME SweepStep \/ (\E r \in Readers : (\E c \in Commits : Compose(r, c)) \/ Fetch(r))
             \/ (\E s \in Segs : Age(s) \/ Ripen(s)) \/ UNCHANGED vars
      PROVE  AloneInv'
  <2>1. UNCHANGED <<packAt, objectAt, gather, sources, into, images, places, content, push>>
    BY <1>5 DEF SweepStep, DropRetired, ListBucket, ReadRows, DeleteOrphan, EndSweep,
       Compose, Fetch, Age, Ripen, vars, indexes, pushing, gathering
  <2> QED  BY <2>1, QuietKeepsAlone
<1> QED  BY <1>1, <1>2, <1>3, <1>4, <1>5, AppendKeepsAlone, CommitGatherKeepsAlone,
            ReadingKeepsAlone DEF Next, GatherStep

\* Of a repository in which every commit comes in one push and one process
\* gathers at a time, the object index reads back as well: what gather_race
\* shows takes a second client with the same commit, or a second gather
\* (coalesce.rs images_in and moved_locations, two reads at two moments).
THEOREM ObjectIndexReadsBack ==
    ASSUME OncePushed, OneGatherer
    PROVE  Spec => []ObjectsReadBack
<1>1. Init => AloneInv
  BY PacksAreImages DEF Init, AloneInv, PendingIsUnrecorded, ReadsAreCurrent,
     IndexesAgree, Recorded, Read, Image
<1>2. Inv /\ AloneInv /\ [Next]_vars => AloneInv'
  BY NextKeepsAlone
<1>3. Inv /\ AloneInv => ObjectsReadBack
  BY DEF Inv, AloneInv, IndexesAgree, ImagesReadBack, ObjectsReadBack
<1> QED  BY <1>1, <1>2, <1>3, SpecInv, PTL DEF Spec
=============================================================================
