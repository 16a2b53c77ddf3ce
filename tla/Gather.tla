------------------------------- MODULE Gather -------------------------------
(***************************************************************************)
(* A repository's pack images in the bucket: pushes that write them, the   *)
(* gather that copies small objects into larger ones, the sweep that       *)
(* deletes what no row names, and the reads that run through all of it     *)
(* (git/retrieve/coalesce.rs, server/app/maintenance.rs, git/ingest,       *)
(* server/postgres/repos.rs).                                              *)
(*                                                                         *)
(* A segment object is named by its ULID and never changes.  It holds the  *)
(* pack images of some commits at some offsets.  Two indexes say where an  *)
(* image is, the pack index for the commit itself and the object index for *)
(* the trees and blobs in its image; each keeps, of all it was ever told,  *)
(* the location in the segment with the greatest ULID.  A row per segment, *)
(* live or retired, is what keeps the sweep away from an object.           *)
(***************************************************************************)
EXTENDS Naturals, FiniteSets, Functions

CONSTANTS
    Commits,        \* commits, each with one pack image of size one
    MaxSeg,         \* bound: segment ULIDs are 1 .. MaxSeg, in their order
    Pushes,         \* pushes
    PackOf,         \* push -> the images it uploads, a set of [commit, off]
    Gatherers,      \* processes that run maintenance passes
    Readers,        \* fetches
    SmallBytes,     \* a segment of this size or more is not gathered
    MaxOutputBytes, \* the most bytes one gather copies
    MaxInputs       \* the most segments one gather takes

Segs == 1 .. MaxSeg
Image == [commit : Commits, off : Nat]
Place == [seg : 0 .. MaxSeg, off : Nat]
Nowhere == [seg |-> 0, off |-> 0]

ASSUME BoundsAreNaturals ==
    {MaxSeg, SmallBytes, MaxOutputBytes, MaxInputs} \subseteq Nat
ASSUME PacksAreImages ==
    /\ DOMAIN PackOf = Pushes
    /\ \A p \in Pushes : PackOf[p] # {} /\ PackOf[p] \subseteq Image /\ IsFiniteSet(PackOf[p])
    /\ \A p \in Pushes : \A x, y \in PackOf[p] : x.commit = y.commit => x = y

VARIABLES
    bucket,     \* segment objects that exist
    content,    \* segment -> the images in it; what was put is never changed
    row,        \* segment -> its row in commit_segments
    aged,       \* unreferenced segments whose ULID is older than the grace window
    ripe,       \* segments retired longer ago than the grace window
    packAt,     \* pack index: commit -> where its image is
    objectAt,   \* object index: commit -> where the objects of its image are
    push,       \* per push: where it is
    seg,        \* per push: the segment it writes
    insert,     \* per push: the commits it will record
    gather,     \* per gatherer: where it is
    sources,    \* per gatherer: the segments to copy
    into,       \* per gatherer: the segment copied into
    images,     \* per gatherer: pack index entries to write
    places,     \* per gatherer: object index entries to write
    sweep,      \* the sweep: where it is
    listed,     \* the sweep: what it listed, then what it will delete
    reading     \* per reader: the commit, the place it will read and whether
                \* its segment was live when the index was read, or none

pushing == <<push, seg, insert>>
gathering == <<gather, sources, into, images, places>>
sweeping == <<sweep, listed>>
indexes == <<packAt, objectAt>>
vars == <<bucket, content, row, aged, ripe, indexes, pushing, gathering, sweeping, reading>>

TypeOK ==
    /\ bucket \subseteq Segs
    /\ content \in [Segs -> SUBSET Image]
    /\ row \in [Segs -> {"none", "live", "retired"}]
    /\ aged \subseteq Segs /\ ripe \subseteq Segs
    /\ packAt \in [Commits -> Place] /\ objectAt \in [Commits -> Place]
    /\ push \in [Pushes -> {"idle", "uploaded", "planned", "over"}]
    /\ seg \in [Pushes -> 0 .. MaxSeg]
    /\ insert \in [Pushes -> SUBSET Commits]
    /\ gather \in [Gatherers -> {"idle", "planned", "imaged", "placed", "copied"}]
    /\ sources \in [Gatherers -> SUBSET Segs]
    /\ into \in [Gatherers -> 0 .. MaxSeg]
    /\ images \in [Gatherers -> [Commits -> Place]]
    /\ places \in [Gatherers -> [Commits -> Place]]
    /\ sweep \in {"idle", "dropped", "listed", "read"}
    /\ listed \subseteq Segs
    /\ reading \in [Readers -> [commit : Commits, at : Place, live : BOOLEAN]
                              \union {Nowhere}]

Init ==
    /\ bucket = {}
    /\ content = [s \in Segs |-> {}]
    /\ row = [s \in Segs |-> "none"]
    /\ aged = {} /\ ripe = {}
    /\ packAt = [c \in Commits |-> Nowhere]
    /\ objectAt = [c \in Commits |-> Nowhere]
    /\ push = [p \in Pushes |-> "idle"]
    /\ seg = [p \in Pushes |-> 0]
    /\ insert = [p \in Pushes |-> {}]
    /\ gather = [g \in Gatherers |-> "idle"]
    /\ sources = [g \in Gatherers |-> {}]
    /\ into = [g \in Gatherers |-> 0]
    /\ images = [g \in Gatherers |-> [c \in Commits |-> Nowhere]]
    /\ places = [g \in Gatherers |-> [c \in Commits |-> Nowhere]]
    /\ sweep = "idle" /\ listed = {}
    /\ reading = [r \in Readers |-> Nowhere]

-----------------------------------------------------------------------------
(* The indexes.                                                            *)

Recorded(c) == packAt[c] # Nowhere

\* What an index keeps of what it holds and what it is told.
Join(index, news) ==
    [c \in Commits |-> IF news[c].seg > index[c].seg THEN news[c] ELSE index[c]]

\* The image of c is where the place says.
ReadsBack(c, at) ==
    at.seg \in bucket /\ [commit |-> c, off |-> at.off] \in content[at.seg]

\* The rows of commit_segments: registering one that is there changes nothing
\* (ON CONFLICT DO NOTHING), and retiring keeps the row.
RegisterSegments(rows, S) ==
    [s \in Segs |-> IF s \in S /\ rows[s] = "none" THEN "live" ELSE rows[s]]
RetireSegments(rows, S) ==
    [s \in Segs |-> IF s \in S /\ rows[s] = "live" THEN "retired" ELSE rows[s]]

\* What a gather may take, and what the sweep may not: two questions.
LiveSegments(S) == {s \in S : row[s] = "live"}
ReferencedSegments(S) == {s \in S : row[s] # "none"}

\* An id nobody has: ULIDs are random in their low bits.
Unminted(s) == content[s] = {} /\ \A g \in Gatherers : into[g] # s

-----------------------------------------------------------------------------
(* Pushes.                                                                 *)

\* build_commit_packs: the images are put as one object, under an id stamped
\* by the clock of the host that ingests.
Upload(p, s) ==
    /\ push[p] = "idle"
    /\ Unminted(s)
    /\ bucket' = bucket \union {s}
    /\ content' = [content EXCEPT ![s] = PackOf[p]]
    /\ seg' = [seg EXCEPT ![p] = s]
    /\ push' = [push EXCEPT ![p] = "uploaded"]
    /\ UNCHANGED <<row, aged, ripe, indexes, insert, gathering, sweeping, reading>>

\* plan_commits: only commits without an entry are recorded, and a segment
\* is registered for those alone.
PlanAppend(p) ==
    /\ push[p] = "uploaded"
    /\ insert' = [insert EXCEPT ![p] = {x.commit : x \in {y \in PackOf[p] : ~Recorded(y.commit)}}]
    /\ push' = [push EXCEPT ![p] = IF insert'[p] = {} THEN "over" ELSE "planned"]
    /\ UNCHANGED <<bucket, content, row, aged, ripe, indexes, seg, gathering, sweeping, reading>>

Written(p) ==
    [c \in Commits |-> IF c \in insert[p]
        THEN [seg |-> seg[p], off |-> (CHOOSE x \in PackOf[p] : x.commit = c).off] ELSE Nowhere]

\* The push's journal: its row and both indexes in one transaction.
Append(p) ==
    /\ push[p] = "planned"
    /\ row' = RegisterSegments(row, {seg[p]})
    /\ packAt' = Join(packAt, Written(p))
    /\ objectAt' = Join(objectAt, Written(p))
    /\ push' = [push EXCEPT ![p] = "over"]
    /\ UNCHANGED <<bucket, content, aged, ripe, seg, insert, gathering, sweeping, reading>>

\* The push stops after its upload and leaves an orphan.
CrashPush(p) ==
    /\ push[p] \in {"uploaded", "planned"}
    /\ push' = [push EXCEPT ![p] = "over"]
    /\ UNCHANGED <<bucket, content, row, aged, ripe, indexes, seg, insert, gathering, sweeping, reading>>

-----------------------------------------------------------------------------
(* The gather.                                                             *)

Bytes(S) == SumFunction([s \in S |-> Cardinality(content[s])])

\* Of what was listed: a retired segment is not copied again.
Small == {s \in LiveSegments(bucket) : Cardinality(content[s]) < SmallBytes}

\* plan: the oldest of them, while both bounds hold.
Run ==
    {s \in Small : \A q \in Small : q <= s =>
        LET before == {x \in Small : x < q} IN
        /\ Cardinality(before) < MaxInputs
        /\ Bytes(before) + Cardinality(content[q]) <= MaxOutputBytes}

\* The pass is over, however it ended, and what it knew is gone.
Leave(g) ==
    /\ gather' = [gather EXCEPT ![g] = "idle"]
    /\ sources' = [sources EXCEPT ![g] = {}]
    /\ into' = [into EXCEPT ![g] = 0]
    /\ images' = [images EXCEPT ![g] = [c \in Commits |-> Nowhere]]
    /\ places' = [places EXCEPT ![g] = [c \in Commits |-> Nowhere]]

\* Mutant: the copy is stamped by this host's clock alone.
AfterByClock(i) == i \in Segs

\* after: the copy's id is later than every source's, whatever the clock of
\* this host says.
After(i) == \A s \in Run : i > s

\* coalesce, up to the first index read.
PlanGather(g, i) ==
    /\ gather[g] = "idle"
    /\ Cardinality(Run) >= 2
    /\ Unminted(i) /\ After(i)
    /\ sources' = [sources EXCEPT ![g] = Run]
    /\ into' = [into EXCEPT ![g] = i]
    /\ gather' = [gather EXCEPT ![g] = "planned"]
    /\ UNCHANGED <<bucket, content, row, aged, ripe, indexes, pushing, images, places, sweeping, reading>>

\* Where a source starts in the copy: they follow each other in the order of
\* their ids.
Shift(g, s) == Bytes({q \in sources[g] : q < s})

\* Where a place in a source is in the copy.
InCopy(g, at) == [seg |-> into[g], off |-> at.off + Shift(g, at.seg)]

Relocated(g, index, C) ==
    [c \in Commits |-> IF c \in C /\ index[c].seg \in sources[g]
                         THEN InCopy(g, index[c]) ELSE Nowhere]

\* images_in, relocated: entries of the pack index that lie in the sources.
ReadImages(g) ==
    /\ gather[g] = "planned"
    /\ IF \E c \in Commits : packAt[c].seg \in sources[g]
         THEN /\ images' = [images EXCEPT ![g] = Relocated(g, packAt, Commits)]
              /\ gather' = [gather EXCEPT ![g] = "imaged"]
              /\ UNCHANGED <<sources, into, places>>
         ELSE Leave(g)
    /\ UNCHANGED <<bucket, content, row, aged, ripe, indexes, pushing, sweeping, reading>>

\* moved_locations: the objects of those images, where they lie in a source.
ReadPlaces(g) ==
    /\ gather[g] = "imaged"
    /\ places' = [places EXCEPT ![g] =
         Relocated(g, objectAt, {c \in Commits : images[g][c] # Nowhere})]
    /\ gather' = [gather EXCEPT ![g] = "placed"]
    /\ UNCHANGED <<bucket, content, row, aged, ripe, indexes, pushing, sources, into,
                   images, sweeping, reading>>

\* copy: every source, in order, or nothing if one of them is gone.
Copied(g) ==
    UNION {{[commit |-> x.commit, off |-> x.off + Shift(g, s)] : x \in content[s]}
             : s \in sources[g]}

Copy(g) ==
    /\ gather[g] = "placed"
    /\ IF sources[g] \subseteq bucket
         THEN /\ bucket' = bucket \union {into[g]}
              /\ content' = [content EXCEPT ![into[g]] = Copied(g)]
              /\ gather' = [gather EXCEPT ![g] = "copied"]
              /\ UNCHANGED <<sources, into, images, places>>
         ELSE Leave(g) /\ UNCHANGED <<bucket, content>>
    /\ UNCHANGED <<row, aged, ripe, indexes, pushing, sweeping, reading>>

\* Mutant: the rows of the sources are dropped with the commit.
CommitGatherDropping(g) ==
    /\ gather[g] = "copied"
    /\ packAt' = Join(packAt, images[g])
    /\ objectAt' = Join(objectAt, places[g])
    /\ row' = [s \in Segs |-> IF s = into[g] THEN "live"
                              ELSE IF s \in sources[g] THEN "none" ELSE row[s]]
    /\ Leave(g)
    /\ UNCHANGED <<bucket, content, aged, ripe, pushing, sweeping, reading>>

\* commit_held: entries, the copy's row and the sources' retirement in one
\* transaction, whose lock nobody else holds.
CommitGather(g) ==
    /\ gather[g] = "copied"
    /\ packAt' = Join(packAt, images[g])
    /\ objectAt' = Join(objectAt, places[g])
    /\ row' = RetireSegments(RegisterSegments(row, {into[g]}), sources[g])
    /\ Leave(g)
    /\ UNCHANGED <<bucket, content, aged, ripe, pushing, sweeping, reading>>

\* hold_maintenance_lock, tried and never waited for: another gather may be in
\* its transaction at this instant.
LockMayBeHeld(g) == \E h \in Gatherers \ {g} : gather[h] = "copied"

\* commit_held refused, and the copy is taken back.
LoseGather(g) ==
    /\ gather[g] = "copied"
    /\ LockMayBeHeld(g)
    /\ bucket' = bucket \ {into[g]}
    /\ Leave(g)
    /\ UNCHANGED <<content, row, aged, ripe, indexes, pushing, sweeping, reading>>

CrashGather(g) ==
    /\ gather[g] # "idle"
    /\ Leave(g)
    /\ UNCHANGED <<bucket, content, row, aged, ripe, indexes, pushing, sweeping, reading>>

-----------------------------------------------------------------------------
(* The sweep of pack images.                                               *)

\* drop_retired_segments.  What was retired a whole window ago is older than
\* the window itself.
DropRetired ==
    /\ sweep = "idle"
    /\ row' = [s \in Segs |-> IF s \in ripe THEN "none" ELSE row[s]]
    /\ aged' = aged \union ripe
    /\ ripe' = {}
    /\ sweep' = "dropped"
    /\ UNCHANGED <<bucket, content, indexes, pushing, gathering, listed, reading>>

ListBucket ==
    /\ sweep = "dropped"
    /\ listed' = bucket
    /\ sweep' = "listed"
    /\ UNCHANGED <<bucket, content, row, aged, ripe, indexes, pushing, gathering, reading>>

\* referenced_segments and plan_repo_sweep: rows are read after the listing.
ReadRows ==
    /\ sweep = "listed"
    /\ listed' = (listed \ ReferencedSegments(listed)) \intersect aged
    /\ sweep' = "read"
    /\ UNCHANGED <<bucket, content, row, aged, ripe, indexes, pushing, gathering, reading>>

\* sweep_repo: orphans go one by one; a failure or a crash ends the pass.
DeleteOrphan(s) ==
    /\ sweep = "read"
    /\ s \in listed
    /\ bucket' = bucket \ {s}
    /\ listed' = listed \ {s}
    /\ UNCHANGED <<content, row, aged, ripe, indexes, pushing, gathering, sweep, reading>>

EndSweep ==
    /\ sweep # "idle"
    /\ sweep' = "idle"
    /\ listed' = {}
    /\ UNCHANGED <<bucket, content, row, aged, ripe, indexes, pushing, gathering, reading>>

-----------------------------------------------------------------------------
(* Reads and time.                                                         *)

\* A fetch composes the index once and reads ranges out of the bucket later.
Compose(r, c) ==
    /\ reading[r] = Nowhere
    /\ Recorded(c)
    /\ \E at \in {packAt[c], objectAt[c]} :
         reading' = [reading EXCEPT ![r] =
           [commit |-> c, at |-> at, live |-> row[at.seg] = "live"]]
    /\ UNCHANGED <<bucket, content, row, aged, ripe, indexes, pushing, gathering, sweeping>>

Fetch(r) ==
    /\ reading[r] # Nowhere
    /\ reading' = [reading EXCEPT ![r] = Nowhere]
    /\ UNCHANGED <<bucket, content, row, aged, ripe, indexes, pushing, gathering, sweeping>>

\* The grace window.  A push or a gather that is still going is younger than
\* the window, and so is the listing of a gather and the index of a read:
\* everything that runs ends within it.
Age(s) ==
    /\ s \in bucket \ aged /\ row[s] = "none"
    /\ \A p \in Pushes : seg[p] = s => push[p] = "over"
    /\ \A g \in Gatherers : into[g] # s
    /\ aged' = aged \union {s}
    /\ UNCHANGED <<bucket, content, row, ripe, indexes, pushing, gathering, sweeping, reading>>

Ripen(s) ==
    /\ row[s] = "retired" /\ s \notin ripe
    /\ \A g \in Gatherers : s \notin sources[g]
    /\ \A r \in Readers : reading[r] # Nowhere => reading[r].at.seg # s
    /\ ripe' = ripe \union {s}
    /\ UNCHANGED <<bucket, content, row, aged, indexes, pushing, gathering, sweeping, reading>>

GatherStep(g) ==
    \/ ReadImages(g) \/ ReadPlaces(g) \/ Copy(g) \/ CommitGather(g) \/ LoseGather(g)

SweepStep == DropRetired \/ ListBucket \/ ReadRows \/ (\E s \in Segs : DeleteOrphan(s)) \/ EndSweep

Next ==
    \/ \E p \in Pushes : (\E s \in Segs : Upload(p, s)) \/ PlanAppend(p) \/ Append(p) \/ CrashPush(p)
    \/ \E g \in Gatherers : (\E i \in Segs : PlanGather(g, i)) \/ GatherStep(g) \/ CrashGather(g)
    \/ SweepStep
    \/ \E r \in Readers : (\E c \in Commits : Compose(r, c)) \/ Fetch(r)
    \/ \E s \in Segs : Age(s) \/ Ripen(s)

Spec == Init /\ [][Next]_vars

-----------------------------------------------------------------------------
(* Properties.                                                             *)

\* Wherever the pack index places a commit's image, the image is there and
\* the sweep is kept away from it: copying, retiring, sweeping and pushing
\* never leave an entry that names other bytes or none, or a segment that is
\* on its way out (coalesce.rs relocated, maintenance.rs sweep_repo).
ImagesReadBack ==
    \A c \in Commits : Recorded(c) =>
        ReadsBack(c, packAt[c]) /\ row[packAt[c].seg] = "live"

\* The same of the trees and blobs of the image, which a second index places
\* (objects/write.rs moved_locations).  append.rs:610 says that registering a
\* segment "is what stops the sweep reclaiming an image the index now points
\* into".
ObjectsReadBack == \A c \in Commits : Recorded(c) => ReadsBack(c, objectAt[c])

\* A fetch that composed an index, either one, before the segment it was sent
\* to was retired still finds the bytes there, whatever is gathered, dropped
\* and swept while it reads (coalesce.rs:163, "Retired rather than dropped").
ReadersFindTheirBytes ==
    \A r \in Readers : reading[r] # Nowhere /\ reading[r].live =>
        ReadsBack(reading[r].commit, reading[r].at)

=============================================================================
