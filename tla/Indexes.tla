------------------------------ MODULE Indexes ------------------------------
(***************************************************************************)
(* The values the segmented indexes hold, down to the words they are       *)
(* written as: the parent graph ("graph") and the pack facts ("packs") by  *)
(* commit seq, and the object index on its two shelves ("trees", "blobs"). *)
(*                                                                         *)
(* Pushes record, gathers move images, compactions merge any segments that *)
(* are listed; a reader decodes what its ranges touch and joins it.  How   *)
(* segments are listed and swept is module Segments.  A field of a record  *)
(* is one word here, whatever its width in bytes, and so is an oid.        *)
(*                                                                         *)
(* Sources: graph-store/src/{index,strided,packs,write,store,format}.rs,   *)
(* objects/src/{index,write,store,read}.rs, lattice/core/src/*.rs.         *)
(***************************************************************************)
EXTENDS Integers, Sequences, FiniteSets
LOCAL INSTANCE SequencesExt
LOCAL INSTANCE FiniteSetsExt

CONSTANTS
    NoWord,         \* u32::MAX: no parent, no commit in this slot, no blob in the tail
    FirstSeq,       \* the lowest seq a push here is given
    PushShapes,     \* the pushes there may be: [skipped, two, parents, date, delta, again]
    MaxClusters,    \* DEFAULT_CLUSTERS: ranges one scattered read is cut into
    ScanBand,       \* SCAN_BAND
    RelocationGap,  \* RELOCATION_GAP
    MaxHops,        \* MAX_DELTA_CHAIN
    MaxWrites,      \* bound: pushes and gathers
    MaxMerges       \* bound: compactions

ASSUME IndexConstants ==
    /\ NoWord \in Nat /\ FirstSeq \in 0 .. NoWord
    /\ MaxClusters \in Nat \ {0}

VARIABLES
    catalog,    \* tier -> the segments listed
    told,       \* tier -> what was ever recorded there: [seq, node] pairs
    nextSeq,    \* the next seq (commits, trees and blobs are numbered alike)
    nextUlid,   \* the next pack segment
    merges,     \* compactions so far
    refused     \* whether a push was refused for its seq

ivars == <<catalog, told, nextSeq, nextUlid, merges, refused>>

Shelves == {"trees", "blobs"}
Tiers == {"graph", "packs"} \cup Shelves

\* Ord of tuples and of Vec.
Before(a, b) ==
    \/ \E n \in 1 .. Min({Len(a), Len(b)}) :
         a[n] < b[n] /\ \A m \in 1 .. (n - 1) : a[m] = b[m]
    \/ Len(a) < Len(b) /\ \A m \in DOMAIN a : a[m] = b[m]

Ascending(S) == SetToSortSeq(S, LAMBDA a, b : a < b)

---------------------------------------------------------------------------
(* A slot per seq *)

\* A slot is {} for a hole, or {node}.
NoSlots == [first |-> 0, slots |-> <<>>]

Trimmed(first, slots) ==
    LET held == {i \in DOMAIN slots : slots[i] # {}}
    IN  IF held = {} THEN NoSlots
        ELSE [first |-> first + Min(held) - 1, slots |-> SubSeq(slots, Min(held), Max(held))]

At(s, seq) ==
    LET i == seq - s.first + 1 IN IF i \in DOMAIN s.slots THEN s.slots[i] ELSE {}

\* iter: every seq held, with its node.
SlotEntries(s) ==
    UNION {{[seq |-> s.first + i - 1, node |-> n] : n \in s.slots[i]} : i \in DOMAIN s.slots}

LastSeq(s) == s.first + Len(s.slots) - 1

LaidOut(nodes) ==
    IF DOMAIN nodes = {} THEN NoSlots
    ELSE LET first == Min(DOMAIN nodes)
             Slot(seq) == IF seq \in DOMAIN nodes THEN {nodes[seq]} ELSE {}
         IN  Trimmed(first, [i \in 1 .. (Max(DOMAIN nodes) - first + 1) |-> Slot(first + i - 1)])

---------------------------------------------------------------------------
(* The frame and the tail *)

\* The layouts: both shelves are object indexes, and share one.
Magic(tier) == IF tier \in Shelves THEN "objects" ELSE tier

\* Words a record takes, by layout.
Stride(tier) == CASE tier = "graph" -> 5 [] tier = "packs" -> 8 [] OTHER -> 4

\* write_header, and what follows it.
Framed(tier, first, records, tail) ==
    [magic |-> Magic(tier), first |-> first, records |-> Len(records) \div Stride(tier),
     tail |-> Len(tail), words |-> records \o tail]

\* read_header: the layout must be the reader's, and the counts the length.
Readable(tier, bytes) ==
    /\ bytes.magic = Magic(tier)
    /\ Len(bytes.words) = bytes.records * Stride(tier) + bytes.tail

\* The records of the first to the last index, as a half-open window of
\* records; empty when the two do not meet.
SliceOf(bytes, first, last) ==
    LET end == bytes.first + bytes.records - 1
    IN  IF bytes.records = 0 \/ last < bytes.first \/ first > end THEN <<0, 0>>
        ELSE <<Max({first, bytes.first}) - bytes.first, Min({last, end}) - bytes.first + 1>>

RecordAt(tier, bytes, i) == SubSeq(bytes.words, i * Stride(tier) + 1, (i + 1) * Stride(tier))
TailOf(tier, bytes) == SubSeq(bytes.words, bytes.records * Stride(tier) + 1, Len(bytes.words))

\* stow: where a blob went, and the tail with it.
Stow(blob, tail) ==
    IF blob = <<>> THEN [at |-> NoWord, tail |-> tail]
    ELSE [at |-> Len(tail), tail |-> tail \o <<Len(blob)>> \o blob]

\* fetch: {} for an offset the tail does not hold.
Unstow(at, tail) ==
    IF at = NoWord THEN {<<>>}
    ELSE IF at >= Len(tail) \/ at + 1 + tail[at + 1] > Len(tail) THEN {}
    ELSE {SubSeq(tail, at + 2, at + 1 + tail[at + 1])}

Range0(s) == {s[i] : i \in DOMAIN s}

---------------------------------------------------------------------------
(* Tier one: the parent graph *)

\* A node is <<generation, root tree, parent, parent, the other parents>>.
GraphRank(n) == <<n[1], n[2], n[3], n[4]>> \o n[5]

ParentsOf(n) == SelectSeq(<<n[3], n[4]>>, LAMBDA p : p # NoWord) \o n[5]

\* A seq a slot can hold.
Fits(seq) == seq >= 0 /\ seq < NoWord

Slot(parents, i) == IF i <= Len(parents) THEN parents[i] ELSE NoWord

CorrectedDate(date, generations) ==
    LET own == Min({Max({date, 0}), NoWord})
        floor == IF generations = {} THEN 0 ELSE Min({Max(generations) + 1, NoWord})
    IN  Max({own, floor, 1})

\* insert_dated: the node, ranked above what its parents are known to be.
DatedNode(parents, root, date, generation) ==
    <<CorrectedDate(date, {generation[p] : p \in Range0(parents)}), root,
      Slot(parents, 1), Slot(parents, 2), SubSeq(parents, 3, Len(parents))>>

\* assemble, then encode: a hole is a record without a root tree.
GraphEncode(s) ==
    LET Laid(out, slot) ==
          IF slot = {} THEN [out EXCEPT !.records = @ \o <<NoWord, NoWord, NoWord, 0, NoWord>>]
          ELSE LET n == CHOOSE x \in slot : TRUE
                   extra == Stow(n[5], out.tail)
               IN  [records |-> out.records \o <<n[3], n[4], n[2], n[1], extra.at>>, tail |-> extra.tail]
        all == FoldLeft(Laid, [records |-> <<>>, tail |-> <<>>], s.slots)
    IN  Framed("graph", s.first, all.records, all.tail)

\* decode_range: rebuilt through nodes; a stray offset is refused ({}).
GraphDecode(bytes, first, last) ==
    LET w == SliceOf(bytes, first, last)
        rec == [i \in 1 .. (w[2] - w[1]) |-> RecordAt("graph", bytes, w[1] + i - 1)]
        extra == [i \in DOMAIN rec |-> Unstow(rec[i][5], TailOf("graph", bytes))]
        Node(i) == IF rec[i][3] = NoWord THEN {}
                   ELSE {<<rec[i][4], rec[i][3], rec[i][1], rec[i][2], e>> : e \in extra[i]}
    IN  IF \E i \in DOMAIN rec : extra[i] = {} THEN {}
        ELSE {Trimmed(bytes.first + w[1], [i \in DOMAIN rec |-> Node(i)])}

---------------------------------------------------------------------------
(* Tier two: what is in a commit's image, and where it is *)

\* The newest segment wins, and the rest makes the order total.
PackRank(n) ==
    <<n.segment.id, n.entryLen, n.blobOffset, n.segment.base, n.segment.len>>
    \o n.trees \o <<-1>> \o n.blobs

PackEncode(s) ==
    LET Laid(out, slot) ==
          IF slot = {} THEN [out EXCEPT !.records = @ \o <<0, 0, 0, 0, 0, 0, 0, 0>>]
          ELSE LET n == CHOOSE x \in slot : TRUE
                   trees == Stow(n.trees, out.tail)
                   blobs == Stow(n.blobs, trees.tail)
               IN  [records |-> out.records \o
                        <<n.entryLen, n.blobOffset, n.segment.id, n.segment.base, n.segment.len,
                          trees.at, blobs.at, 1>>,
                    tail |-> blobs.tail]
        all == FoldLeft(Laid, [records |-> <<>>, tail |-> <<>>], s.slots)
    IN  Framed("packs", s.first, all.records, all.tail)

\* decode_range and read_record.
PackDecode(bytes, first, last) ==
    LET w == SliceOf(bytes, first, last)
        heap == TailOf("packs", bytes)
        rec == [i \in 1 .. (w[2] - w[1]) |-> RecordAt("packs", bytes, w[1] + i - 1)]
        Node(r) == {[entryLen |-> r[1], blobOffset |-> r[2],
                     segment |-> [id |-> r[3], base |-> r[4], len |-> r[5]],
                     trees |-> t, blobs |-> b] :
                        t \in Unstow(r[6], heap), b \in Unstow(r[7], heap)}
    IN  IF \E i \in DOMAIN rec : rec[i][8] = 1 /\ Node(rec[i]) = {} THEN {}
        ELSE {Trimmed(bytes.first + w[1], [i \in DOMAIN rec |-> IF rec[i][8] = 1 THEN Node(rec[i]) ELSE {}])}

---------------------------------------------------------------------------
(* The object index: sorted pairs of a seq and what is known of it *)

\* A location is [pack, segment, offset, len, base], base NoWord for whole;
\* pack stands for the pack's seq and its oid.
LocationRank(l) ==
    <<l.pack, l.segment.id, l.segment.base, l.segment.len, l.offset, l.len,
      IF l.base = NoWord THEN 0 ELSE l.base + 1>>

\* Mutant: of the copies of an image, the first is kept.
NewestPerPackFirst(locations) ==
    {l \in locations : \A m \in locations :
        m.pack = l.pack => ~ Before(LocationRank(m), LocationRank(l))}

\* keep_newest_per_pack: the last of each pack's run.
NewestPerPack(locations) ==
    {l \in locations : \A m \in locations :
        m.pack = l.pack => ~ Before(LocationRank(l), LocationRank(m))}

InLocationOrder(S) == SetToSortSeq(S, LAMBDA a, b : Before(LocationRank(a), LocationRank(b)))
NothingKnown == [locations |-> <<>>, trees |-> {}, blobs |-> {}]

\* absorb, and the same reduction in Builder::locate.
Absorbed(a, b) ==
    [locations |-> InLocationOrder(NewestPerPack(Range0(a.locations) \cup Range0(b.locations))),
     trees |-> a.trees \cup b.trees, blobs |-> a.blobs \cup b.blobs]

\* An index is a function of the seqs it holds.
Known(index, seq) == IF seq \in DOMAIN index THEN index[seq] ELSE NothingKnown
ObjectsJoined(a, b) ==
    [seq \in DOMAIN a \cup DOMAIN b |-> Absorbed(Known(a, seq), Known(b, seq))]

\* Builder::build: what holds nothing has no entry.
Built(index) ==
    LET held == {seq \in DOMAIN index : index[seq] # NothingKnown}
    IN  [seq \in held |-> index[seq]]

LocationWords(l) ==
    <<l.pack, l.offset, l.len, l.base, l.segment.id, l.segment.base, l.segment.len>>
LocationStride == 7

StowLocations(locations, heap) ==
    IF locations = <<>> THEN [at |-> NoWord, tail |-> heap]
    ELSE [at |-> Len(heap),
          tail |-> heap \o <<Len(locations)>> \o
                   FlattenSeq([i \in DOMAIN locations |-> LocationWords(locations[i])])]

\* read_locations: the length word counts locations, not words.
ReadLocations(at, heap) ==
    IF at = NoWord THEN {<<>>}
    ELSE IF at >= Len(heap) \/ at + 1 + heap[at + 1] * LocationStride > Len(heap) THEN {}
    ELSE {[i \in 1 .. heap[at + 1] |->
            LET r == SubSeq(heap, at + 2 + (i - 1) * LocationStride, at + 1 + i * LocationStride)
            IN  [pack |-> r[1], offset |-> r[2], len |-> r[3], base |-> r[4],
                 segment |-> [id |-> r[5], base |-> r[6], len |-> r[7]]]]}

ObjectEncode(shelf, index) ==
    LET Laid(out, seq) ==
          LET o == index[seq]
              locations == StowLocations(o.locations, out.tail)
              trees == Stow(Ascending(o.trees), locations.tail)
              blobs == Stow(Ascending(o.blobs), trees.tail)
          IN  [records |-> out.records \o <<seq, locations.at, trees.at, blobs.at>>, tail |-> blobs.tail]
        seqs == Ascending(DOMAIN index)
        all == FoldLeft(Laid, [records |-> <<>>, tail |-> <<>>], seqs)
    IN  Framed(shelf, IF seqs = <<>> THEN 0 ELSE seqs[1], all.records, all.tail)

\* decode_range: the whole order is checked, only the window is read.
ObjectDecode(shelf, bytes, first, last) ==
    LET heap == TailOf(shelf, bytes)
        rec == [i \in 1 .. bytes.records |-> RecordAt(shelf, bytes, i - 1)]
        window == {i \in DOMAIN rec : rec[i][1] >= first /\ rec[i][1] <= last}
        Entry(r) == {[locations |-> l, trees |-> Range0(t), blobs |-> Range0(b)] :
                        l \in ReadLocations(r[2], heap), t \in Unstow(r[3], heap), b \in Unstow(r[4], heap)}
    IN  IF \/ \E i \in 1 .. (bytes.records - 1) : rec[i][1] >= rec[i + 1][1]
           \/ \E i \in window : Entry(rec[i]) = {}
        THEN {}
        ELSE {[seq \in {rec[i][1] : i \in window} |->
                CHOOSE e \in Entry(rec[CHOOSE i \in window : rec[i][1] = seq]) : TRUE]}

---------------------------------------------------------------------------
(* Any of them *)

Nothing(tier) == IF tier \in Shelves THEN [seq \in {} |-> NothingKnown] ELSE NoSlots

HasNothing(tier, v) == v = Nothing(tier)

\* The order of the nodes of a tier with a slot per seq.
RankOf(tier, n) == IF tier = "graph" THEN GraphRank(n) ELSE PackRank(n)

\* absorb: of two nodes at one seq, the greater.
KeptOf(tier, a, b) ==
    IF a = {} \/ b = {} THEN a \cup b
    ELSE {n \in a \cup b : \A m \in a \cup b : ~ Before(RankOf(tier, n), RankOf(tier, m))}

Joined(tier, a, b) ==
    IF b.slots = <<>> THEN a
    ELSE IF a.slots = <<>> THEN b
    ELSE LET first == Min({a.first, b.first})
             last == Max({LastSeq(a), LastSeq(b)})
         IN  Trimmed(first, [i \in 1 .. (last - first + 1) |->
                                KeptOf(tier, At(a, first + i - 1), At(b, first + i - 1))])

JoinOf(tier, a, b) ==
    IF tier \in Shelves THEN ObjectsJoined(a, b) ELSE Joined(tier, a, b)

Encode(tier, v) ==
    CASE tier = "graph" -> GraphEncode(v)
      [] tier = "packs" -> PackEncode(v)
      [] OTHER -> ObjectEncode(tier, v)

\* {} for bytes that are refused.
Decode(tier, bytes, first, last) ==
    IF ~ Readable(tier, bytes) THEN {}
    ELSE CASE tier = "graph" -> GraphDecode(bytes, first, last)
           [] tier = "packs" -> PackDecode(bytes, first, last)
           [] OTHER -> ObjectDecode(tier, bytes, first, last)

\* What a segment's row says it covers.
Covers(tier, v) ==
    IF tier \in Shelves THEN <<Min(DOMAIN v), Max(DOMAIN v)>> ELSE <<v.first, LastSeq(v)>>

\* prepare: nothing is written for a value without keys.
Prepared(tier, v) ==
    IF HasNothing(tier, v) THEN {}
    ELSE {[first |-> Covers(tier, v)[1], last |-> Covers(tier, v)[2], bytes |-> Encode(tier, v)]}

\* compose.
Composed(tier, values) == FoldLeft(LAMBDA a, b : JoinOf(tier, a, b), Nothing(tier), values)

\* read: the segments that overlap the range, narrowed to it, joined.
ReadOf(tier, first, last) ==
    LET Values(listed) ==
          [i \in DOMAIN listed |-> CHOOSE v \in Decode(tier, listed[i].bytes, first, last) : TRUE]
    IN  Composed(tier, Values(SetToSeq({s \in catalog[tier] : s.first <= last /\ first <= s.last})))

\* cluster: at most MaxClusters ranges, cut at the widest gaps, or the hull
\* when cutting does not divide the span by what it multiplies the reads by.
Cluster(keys) ==
    LET Width(r) == r[2] - r[1] + 1
        hull == <<Min(keys), Max(keys)>>
        Cheaper(ranges) ==
          IF Len(ranges) < 2
             \/ FoldLeft(LAMBDA sum, r : sum + Width(r), 0, ranges) * Len(ranges) <= Width(hull)
          THEN ranges ELSE <<hull>>
        RangesFrom(sorted, starts) ==
          [n \in DOMAIN starts |->
            <<sorted[starts[n]], sorted[IF n = Len(starts) THEN Len(sorted) ELSE starts[n + 1] - 1]>>]
        Starts(widest) ==
          Ascending({1} \cup {i + 1 : i \in Range0(SubSeq(widest, 1, Min({MaxClusters - 1, Len(widest)})))})
        Cut(sorted) ==
          LET GapAfter(i) == sorted[i + 1] - sorted[i]
              gaps == {i \in 1 .. (Len(sorted) - 1) : GapAfter(i) > 1}
          IN  RangesFrom(sorted, Starts(SetToSortSeq(gaps,
                  LAMBDA i, j : Before(<<GapAfter(j), j>>, <<GapAfter(i), i>>))))
    IN  IF keys = {} THEN <<>> ELSE Cheaper(Cut(Ascending(keys)))

\* read_at: one read per cluster, the parts kept apart.
ReadAt(tier, keys) ==
    LET Parts(ranges) == [i \in DOMAIN ranges |-> ReadOf(tier, ranges[i][1], ranges[i][2])]
    IN  Parts(Cluster(keys))

---------------------------------------------------------------------------
(* What readers ask *)

\* generations_of and index: one span over the seqs.
GraphEntry(seqs, seq) == At(ReadOf("graph", Min(seqs), Max(seqs)), seq)

\* PackFacts::get: the first part that holds the seq.
PackFact(seqs, seq) ==
    LET First(parts) ==
          LET has == {i \in DOMAIN parts : At(parts[i], seq) # {}}
          IN  IF has = {} THEN {} ELSE At(parts[Min(has)], seq)
    IN  First(ReadAt("packs", seqs))

\* RepoObjects::read.
ObjectRead(shelf, seqs) == Composed(shelf, ReadAt(shelf, seqs))

\* introducing: the lowest pack that stores it.
Introducing(o) == IF o.locations = <<>> THEN {} ELSE {o.locations[1]}

\* chain: a hop at a time by the introducing location, until an entry that
\* is whole, one that is not there, or a hop too many.
ChainOf(shelf, seq) ==
    LET Onto(last, found) ==
          IF found = {} THEN [last EXCEPT !.at = {}]
          ELSE LET l == CHOOSE x \in found : TRUE
               IN  [hops |-> Append(last.hops, l), at |-> {l.base} \ {NoWord}]
        hop[n \in 0 .. (MaxHops + 1)] ==
          IF n = 0 THEN [hops |-> <<>>, at |-> {seq}]
          ELSE Onto(hop[n - 1],
                    UNION {Introducing(Known(ObjectRead(shelf, {s}), s)) : s \in hop[n - 1].at})
    IN  hop[MaxHops + 1].hops

\* bands: the ranges of a scan, cut only where no segment straddles.
ScanBands ==
    LET ranges == SetToSortSeq({<<s.first, s.last>> : s \in catalog["packs"]}, Before)
        Absorb(bands, r) ==
          IF bands # <<>> /\ (r[1] <= Last(bands)[2] \/ Last(bands)[2] - Last(bands)[1] < ScanBand)
          THEN [bands EXCEPT ![Len(bands)][2] = Max({@, r[2]})]
          ELSE Append(bands, r)
    IN  FoldLeft(Absorb, <<>>, ranges)

\* images_in: every commit whose image is in one of the segments.
ImagesIn(ids) ==
    {x \in UNION {SlotEntries(ReadOf("packs", band[1], band[2])) : band \in Range0(ScanBands)} :
        x.node.segment.id \in ids}

---------------------------------------------------------------------------
(* What writes *)

IInit ==
    /\ catalog = [t \in Tiers |-> {}] /\ told = [t \in Tiers |-> {}]
    /\ nextSeq = FirstSeq /\ nextUlid = 1 /\ merges = 0 /\ refused = FALSE

Recorded == {x.seq : x \in told["graph"]}
LastRecorded == IF Recorded = {} THEN {} ELSE {Max(Recorded)}

\* Listed together when the journal lands.
Lands(tier, values) ==
    catalog[tier] \cup UNION {Prepared(tier, v) : v \in values}

ImageLen == 3
Image(q, place, ulid, reincluded) ==
    [entryLen |-> 1, blobOffset |-> 2, segment |-> [id |-> ulid, base |-> place * ImageLen, len |-> ImageLen],
     trees |-> Ascending({q} \cup reincluded), blobs |-> <<q>>]

\* The entry of one object in a commit's image.
Placed(q, image, offset, base) ==
    [pack |-> q, segment |-> image.segment, offset |-> offset, len |-> 1, base |-> base]

Object(location, trees, blobs) == [locations |-> <<location>>, trees |-> trees, blobs |-> blobs]

\* Parents by what a shape says of them.
ParentList(which) ==
    CASE which = "none" -> <<>>
      [] which = "last" -> Ascending(LastRecorded)
      [] which = "all" -> Reverse(Ascending(Recorded))

\* One push: ranks_of, then record in both stores and relocate, of a commit
\* with these parents and, if two, a child of it.  The first of its trees is
\* a delta, reincluded trees are stored again beside it, and the seqs before
\* its own were given to a push that recorded nothing.
Push(skipped, two, parents, date, delta, reincluded) ==
    LET first == nextSeq + skipped
        seqs == IF two THEN {first, first + 1} ELSE {first}
        known == [p \in Range0(parents) |->
                    (CHOOSE n \in GraphEntry(Range0(parents), p) : TRUE)[1]]
        NodesOf(node) ==
            [q \in seqs |-> IF q = first THEN node
                            ELSE DatedNode(<<first>>, q, 0, [p \in {first} |-> node[1]])]
        nodes == NodesOf(DatedNode(parents, first, date, known))
        images == [q \in seqs |-> Image(q, q - first, nextUlid, IF q = first THEN reincluded ELSE {})]
        Base(q) == IF q = first /\ delta THEN CHOOSE p \in LastRecorded : TRUE ELSE NoWord
        newTrees == [q \in seqs |-> Object(Placed(q, images[q], 1, Base(q)), LastRecorded, {q})]
        newBlobs == [q \in seqs |-> Object(Placed(q, images[q], 2, NoWord), {}, {})]
        again == [t \in reincluded |-> Object(Placed(first, images[first], 1, NoWord), {}, {})]
        Said(f) == {[seq |-> q, node |-> f[q]] : q \in DOMAIN f}
        write == [graph |-> {LaidOut(nodes)}, packs |-> {LaidOut(images)},
                  trees |-> {Built(newTrees), Built(again)}, blobs |-> {Built(newBlobs)}]
    IN  /\ nextUlid <= MaxWrites
        /\ nextSeq' = first + Cardinality(seqs)
        /\ nextUlid' = nextUlid + 1
        /\ IF \A q \in seqs : Fits(q)
           THEN /\ catalog' = [t \in Tiers |-> Lands(t, write[t])]
                /\ told' = [graph |-> told["graph"] \cup Said(nodes),
                            packs |-> told["packs"] \cup Said(images),
                            trees |-> told["trees"] \cup Said(newTrees) \cup Said(again),
                            blobs |-> told["blobs"] \cup Said(newBlobs)]
                /\ UNCHANGED refused
           ELSE refused' = TRUE /\ UNCHANGED <<catalog, told>>
        /\ UNCHANGED merges

\* runs: a moved image too far past the last one opens another segment.
RunsOfMoved(moved) ==
    LET Far(q) == \A p \in DOMAIN moved : p < q => q - p > RelocationGap
        start(q) == Max({p \in DOMAIN moved : p <= q /\ Far(p)})
    IN  {[q \in {r \in DOMAIN moved : start(r) = start(p)} |-> moved[q]] : p \in DOMAIN moved}

\* A gather: the images of these segments are copied into a new one, and
\* every location that named one of them is written again.
Moved(segment, ids, sizes, ulid) ==
    [segment EXCEPT !.id = ulid,
                    !.base = @ + FoldLeft(LAMBDA sum, i : sum + sizes[i], 0,
                                          Ascending({i \in ids : i < segment.id}))]

GatherImages(ids) ==
    \E images \in {ImagesIn(ids)} :
    LET sizes == [i \in ids |-> Max({x.node.segment.base + x.node.segment.len :
                                       x \in {y \in told["packs"] : y.node.segment.id = i}})]
        At0(segment) == Moved(segment, ids, sizes, nextUlid)
        moved == [q \in {x.seq : x \in images} |->
                    LET n == (CHOOSE x \in images : x.seq = q).node
                    IN  [n EXCEPT !.segment = At0(n.segment)]]
        Stored(shelf) == UNION {Range0(IF shelf = "trees" THEN x.node.trees ELSE x.node.blobs) : x \in images}
        \* moved_locations, one object
        Again(shelf, q) ==
            LET of == {l \in Range0(Known(ObjectRead(shelf, Stored(shelf)), q).locations) : l.segment.id \in ids}
            IN  [locations |-> InLocationOrder({[l EXCEPT !.segment = At0(l.segment)] : l \in of}),
                 trees |-> {}, blobs |-> {}]
        Said(f) == {[seq |-> q, node |-> f[q]] : q \in DOMAIN f}
    IN  /\ nextUlid <= MaxWrites /\ images # {}
        /\ nextUlid' = nextUlid + 1
        /\ \E again \in {[s \in Shelves |-> Built([q \in Stored(s) |-> Again(s, q)])]} :
             /\ catalog' = [t \in Tiers |->
                   CASE t = "graph" -> catalog[t]
                     [] t = "packs" -> Lands(t, {LaidOut(run) : run \in RunsOfMoved(moved)})
                     [] OTHER -> Lands(t, {again[t]})]
             /\ told' = [t \in Tiers |->
                   CASE t = "graph" -> told[t]
                     [] t = "packs" -> told[t] \cup Said(moved)
                     [] OTHER -> told[t] \cup Said(again[t])]
        /\ UNCHANGED <<nextSeq, merges, refused>>

\* A merge of some of a tier's segments, decoded whole and joined.
Merge(tier, S) ==
    LET listed == SetToSeq(S)
        value == Composed(tier, [i \in DOMAIN listed |->
                    CHOOSE v \in Decode(tier, listed[i].bytes, 0, NoWord) : TRUE])
    IN  /\ merges < MaxMerges /\ Cardinality(S) > 1
        /\ catalog' = [catalog EXCEPT ![tier] = (@ \ S) \cup Prepared(tier, value)]
        /\ merges' = merges + 1
        /\ UNCHANGED <<told, nextSeq, nextUlid, refused>>

PackSegments == {x.node.segment.id : x \in told["packs"]}

INext ==
    \/ \E p \in PushShapes :
         Push(p.skipped, p.two, ParentList(p.parents), p.date, p.delta /\ Recorded # {},
              IF p.again THEN LastRecorded ELSE {})
    \/ \E ids \in (SUBSET PackSegments) \ {{}} : GatherImages(ids)
    \/ \E tier \in Tiers : \E S \in SUBSET catalog[tier] : Merge(tier, S)

---------------------------------------------------------------------------

\* What was last said of a seq's image, and of an object's entry in a pack.
NewestTold(S) == {x \in S : \A y \in S : y.node.segment.id <= x.node.segment.id}

Entries0(shelf, q) == UNION {Range0(x.node.locations) : x \in {y \in told[shelf] : y.seq = q}}
LiveTold(shelf, q) ==
    {l \in Entries0(shelf, q) : \A m \in Entries0(shelf, q) : m.pack = l.pack => m.segment.id <= l.segment.id}

\* However writes were spread over segments, images moved and segments merged,
\* a read of any seqs (CommitIndex::get, PackFacts::get, RepoObjects::read)
\* finds for each the parents it was recorded with, its image where it was
\* last moved to and all its packs, lowest first; an object's chain starts at
\* its own entry and ends at a whole one.
SeqsReadBack ==
    /\ \A seqs \in {S \in SUBSET Recorded : Cardinality(S) \in {1, 2, Cardinality(Recorded)} /\ S # {}} :
       \A objects \in {[shelf \in Shelves |-> ObjectRead(shelf, seqs)]} :
       \A q \in seqs :
         /\ GraphEntry(seqs, q) = {x.node : x \in {y \in told["graph"] : y.seq = q}}
         /\ PackFact(seqs, q) = {x.node : x \in NewestTold({y \in told["packs"] : y.seq = q})}
         /\ \A shelf \in Shelves :
              LET o == Known(objects[shelf], q)
              IN  /\ Range0(o.locations) = LiveTold(shelf, q)
                  /\ \A i, j \in DOMAIN o.locations : i < j => o.locations[i].pack < o.locations[j].pack
                  /\ o.trees = UNION {x.node.trees : x \in {y \in told[shelf] : y.seq = q}}
                  /\ o.blobs = UNION {x.node.blobs : x \in {y \in told[shelf] : y.seq = q}}
    /\ \A q \in Recorded, shelf \in Shelves : \A chain \in {ChainOf(shelf, q)} :
         /\ {chain[1]} = {l \in LiveTold(shelf, q) : \A m \in LiveTold(shelf, q) : l.pack <= m.pack}
         /\ chain[Len(chain)].base = NoWord

\* A gather's scan (images_in) finds every image that is in a segment, and
\* none that has left it; a generation clears every parent's until the width
\* is spent; and a segment that lost its end, or has another layout, is
\* refused and never read short.  (A shelf's segment read as the other shelf's
\* is not: the two have one layout, and only the catalog tells them apart.)
ScansAreExact ==
    /\ \A id \in PackSegments :
         ImagesIn({id}) = {x \in UNION {NewestTold({y \in told["packs"] : y.seq = q}) : q \in Recorded} :
                              x.node.segment.id = id}
    /\ \A x \in told["graph"], y \in told["graph"] :
         x.seq \in Range0(ParentsOf(y.node)) => y.node[1] > x.node[1] \/ y.node[1] = NoWord
    /\ \A tier \in Tiers : \A s \in catalog[tier] :
         /\ Decode(tier, [s.bytes EXCEPT !.words = Front(@)], 0, NoWord) = {}
         /\ \A other \in Tiers : Magic(other) # Magic(tier) => Decode(other, s.bytes, 0, NoWord) = {}

\* Both: what was written to the indexes is what any read or scan of them
\* finds, wherever it has been moved or merged to since.
IndexesReadBack == SeqsReadBack /\ ScansAreExact
===========================================================================
