------------------------------- MODULE Ingest -------------------------------
(* Taking a pack in: identify its entries, plan what each new commit's image *)
(* holds, keep of the client's deltas what a reader can resolve, bound the   *)
(* chains, encode the rest, lay the images out and record them.             *)
(*                                                                           *)
(* A commit is a number above its parents'.  A snapshot maps paths to blobs; *)
(* the tree of a commit is its snapshot.  An image maps each tree and blob   *)
(* it stores to the object its entry is a delta against, or None.  The seq   *)
(* of a commit, and of its image, is its place in `numbered': a commit keeps *)
(* the number a push gave it that died before it was recorded.  An object's  *)
(* canonical entry, which every point read takes, is in the image of the     *)
(* lowest seq that has it.                                                   *)
EXTENDS Naturals, Sequences, FiniteSets, FiniteSetsExt, SequencesExt, TLC

CONSTANTS
    Histories,      \* the histories clients may push, [parents, snapshot]
    Pushers,        \* clients that push at the same time
    MaxPushes,      \* pushes in all
    MaxDeltas,      \* entries of a pack that arrive as deltas
    MaxDeclined,    \* deltas of a push that turn out no smaller
    MaxTreeChain,   \* MAX_TREE_CHAIN
    MaxBlobChain,   \* MAX_BLOB_CHAIN
    InFlight        \* IN_FLIGHT_ENTRIES

ASSUME LimitsAssumption ==
    /\ MaxPushes \in Nat /\ MaxDeltas \in Nat /\ MaxDeclined \in Nat
    /\ MaxTreeChain \in Nat /\ MaxBlobChain \in Nat /\ InFlight \in Nat \ {0}

VARIABLES
    history,        \* what there is to push
    numbered,       \* the commits that have a seq, in the order of their seqs
    recorded,       \* the commits recorded, as they were, each push's by seq
    images,         \* recorded commit -> object -> base
    pushes,         \* pusher -> its push
    left            \* pushes still to come

vars == <<history, numbered, recorded, images, pushes, left>>

None == <<"none", 0>>
Tree(s) == <<"tree", s>>
Blob(b) == <<"blob", b>>
Whole == [form |-> "whole"]
Ofs(b) == [form |-> "ofs", base |-> b]
Ref(b) == [form |-> "ref", base |-> b]

Idle == [phase |-> "idle"]

Commits == DOMAIN history.parents
Objects(c) == LET s == history.snapshot[c] IN {Tree(s)} \union {Blob(s[p]) : p \in DOMAIN s}
AllObjects == UNION {Objects(c) : c \in Commits}

\* Everything reached from S along Onward.
Closure(S, Onward(_), longest) ==
    LET after[n \in 0 .. longest] ==
            IF n = 0 THEN S ELSE after[n - 1] \union UNION {Onward(x) : x \in after[n - 1]}
    IN  after[longest]

Ancestors(S) == Closure(S, LAMBDA c : Range(history.parents[c]), Cardinality(Commits))

-----------------------------------------------------------------------------
(* The object index                                                        *)

Recorded == {i \in DOMAIN numbered : numbered[i] \in Range(recorded)}
Holders(o) == {i \in Recorded : o \in DOMAIN images[numbered[i]]}
Stored(o) == Holders(o) # {}
FirstPack(o) == Min(Holders(o))
Home(o) == numbered[FirstPack(o)]
Canonical(o) == images[Home(o)][o]

\* The deltas a point read applies; a walk gives up past `most'.
ChainDepth(o, most) ==
    LET walk[n \in 0 .. most] ==
            IF n = 0 THEN o
            ELSE IF walk[n - 1] = None \/ ~ Stored(walk[n - 1]) THEN None ELSE Canonical(walk[n - 1])
    IN  Cardinality({n \in 1 .. most : walk[n] # None})

-----------------------------------------------------------------------------
(* The pack arrives                                                        *)

\* What a pack may hold for a push of `new': the client leaves out what the
\* ancestors of it that are recorded have, and may leave out one thing more.
Packs(new) ==
    LET whole == UNION {Objects(c) : c \in new}
        old == UNION {Objects(c) : c \in Ancestors(new) \ new}
    IN  {(whole \ old) \union again : again \in SUBSET (whole \intersect old)}
        \union {whole \ (old \union {o}) : o \in whole}

\* The encodings a pack may arrive in: a base is named by its place in the
\* pack, or by id, which may be of any object; a client's own entries form no
\* cycle.
Wires(pack) ==
    LET likes(o) == {b \in AllObjects : b[1] = o[1] /\ b # o}
        forms(o) == {Ofs(b) : b \in likes(o) \intersect pack} \union {Ref(b) : b \in likes(o)}
        deltas(d) == {f \in [d -> UNION {forms(o) : o \in d}] : \A o \in d : f[o] \in forms(o)}
        drawn == UNION {{[o \in pack |-> IF o \in d THEN f[o] ELSE Whole] : f \in deltas(d)}
                            : d \in {x \in SUBSET pack : Cardinality(x) <= MaxDeltas}}
    IN  {w \in drawn : \A d \in SUBSET {o \in pack : w[o].form # "whole"} :
            d # {} => \E o \in d : w[o].base \notin d}

Arrive(p) ==
    /\ pushes[p] = Idle /\ left > 0 /\ left' = left - 1
    /\ \E tip \in Commits \ Range(recorded) :
         LET new == Ancestors({tip}) \ Range(recorded)
         IN  \E pack \in Packs(new) : \E wire \in Wires(pack) :
                pushes' = [pushes EXCEPT ![p] =
                    [phase |-> "scanned", new |-> new, wire |-> wire, bases |-> {}, ready |-> {},
                     waiting |-> {}, flying |-> {}, got |-> {}, plan |-> <<>>, staged |-> {}]]
    /\ UNCHANGED <<history, numbered, recorded, images>>

-----------------------------------------------------------------------------
(* Identifying the entries                                                 *)

Sent(push) == DOMAIN push.wire

\* The bases named by id are looked up once, before any entry is seeded.
\* Whole entries are ready, and those whose base the store had; an entry that
\* names any other by id waits for it.
Seed(p) ==
    LET push == pushes[p]
        refs == {o \in Sent(push) : push.wire[o].form = "ref"}
        bases == {b \in {push.wire[o].base : o \in refs} : Stored(b)}
        held == {o \in refs : push.wire[o].base \in bases}
    IN  /\ push.phase = "scanned"
        /\ pushes' = [pushes EXCEPT ![p].phase = "resolving", ![p].bases = bases,
                         ![p].ready = {o \in Sent(push) : push.wire[o].form = "whole"} \union held,
                         ![p].waiting = refs \ held]
        /\ UNCHANGED <<history, numbered, recorded, images, left>>

Take(p) ==
    LET push == pushes[p]
    IN  /\ push.phase = "resolving" /\ Cardinality(push.flying) < InFlight
        /\ \E o \in push.ready :
              pushes' = [pushes EXCEPT ![p].ready = @ \ {o}, ![p].flying = @ \union {o}]
        /\ UNCHANGED <<history, numbered, recorded, images, left>>

\* Mutant: an entry that names its base by id is only ever seeded.
UnblockedByPlace(push, o) ==
    {e \in Sent(push) : push.wire[e].form = "ofs" /\ push.wire[e].base = o}

\* What an entry that lands unblocks: by its place, and by its id.
Unblocked(push, o) ==
    {e \in Sent(push) : push.wire[e].form = "ofs" /\ push.wire[e].base = o}
        \union {e \in push.waiting : push.wire[e].base = o}

Land(p) ==
    LET push == pushes[p]
    IN  /\ push.phase = "resolving"
        /\ \E o \in push.flying :
              pushes' = [pushes EXCEPT ![p].flying = @ \ {o}, ![p].got = @ \union {o},
                             ![p].ready = @ \union Unblocked(push, o),
                             ![p].waiting = @ \ Unblocked(push, o)]
        /\ UNCHANGED <<history, numbered, recorded, images, left>>

Identified(p) ==
    LET push == pushes[p]
    IN  /\ push.phase = "resolving" /\ push.ready = {} /\ push.flying = {}
        /\ pushes' = [pushes EXCEPT ![p].phase = IF push.got = Sent(push) THEN "identified" ELSE "invalid"]
        /\ UNCHANGED <<history, numbered, recorded, images, left>>

-----------------------------------------------------------------------------
(* What each image holds                                                   *)

Entry(c, o, base) == [in |-> c, o |-> o, base |-> base, wire |-> FALSE]

\* Diffed against the root of the first parent, in the push or recorded.
BaseCommit(push, c) ==
    IF history.parents[c] # <<>> /\ Head(history.parents[c]) \in push.new \union Range(recorded)
    THEN Head(history.parents[c]) ELSE 0

DiffTrees(old, new) ==
    [p \in {q \in DOMAIN new : q \notin DOMAIN old \/ old[q] # new[q]} |->
        [new |-> Blob(new[p]), old |-> IF p \in DOMAIN old THEN Blob(old[p]) ELSE None]]

\* The root tree leads, the blobs follow, each object once.
OrderEntries(c, base) ==
    LET new == history.snapshot[c]
        old == IF base = 0 THEN <<>> ELSE history.snapshot[base]
        changes == DiffTrees(old, new)
        paths == SetToSortSeq(DOMAIN changes, <)
        firsts == SelectSeq(paths, LAMBDA p : \A q \in DOMAIN changes : q < p => changes[q].new # changes[p].new)
        root == IF base = 0 THEN None ELSE Tree(old)
    IN  IF base # 0 /\ old = new THEN <<>>
        ELSE <<Entry(c, Tree(new), root)>>
                \o [i \in DOMAIN firsts |-> Entry(c, changes[firsts[i]].new, changes[firsts[i]].old)]

\* A commit whose diff meets a tree neither sent nor stored gets no image.
Plannable(push, c) ==
    LET base == BaseCommit(push, c)
        readable(t) == t \in Sent(push) \/ Stored(t)
    IN  /\ readable(Tree(history.snapshot[c]))
        /\ base # 0 => readable(Tree(history.snapshot[base]))

Orders(new) ==
    {s \in SetToSeqs(new) : \A i, j \in DOMAIN s : s[i] \in Range(history.parents[s[j]]) => i < j}

PlanPush(p) ==
    LET push == pushes[p]
        packed(c) == IF Plannable(push, c) THEN OrderEntries(c, BaseCommit(push, c)) ELSE <<>>
    IN  /\ push.phase = "identified"
        /\ \E order \in Orders(push.new) :
              pushes' = [pushes EXCEPT ![p].phase = "planned",
                            ![p].plan = FlattenSeq([i \in DOMAIN order |-> packed(order[i])])]
        /\ UNCHANGED <<history, numbered, recorded, images, left>>

-----------------------------------------------------------------------------
(* Keeping the client's encodings                                          *)

Homes(plan, o) == {e.in : e \in {x \in Range(plan) : x.o = o}}

\* Where a base may be read: the images this push plans, or else its first.
HomesOf(plan, base) ==
    IF Homes(plan, base) # {} THEN Homes(plan, base) ELSE IF Stored(base) THEN {Home(base)} ELSE {}

\* Mutant: a base is good wherever it is stored.
KeptAnywhere(plan, c, base) == HomesOf(plan, base) # {}

Kept(plan, c, base) == HomesOf(plan, base) \intersect Ancestors({c}) # {}

Classified(push, e) ==
    IF e.o \notin Sent(push) THEN e
    ELSE LET w == push.wire[e.o]
         IN  IF w.form = "whole" THEN [e EXCEPT !.base = None, !.wire = TRUE]
             ELSE IF Kept(push.plan, e.in, w.base) THEN [e EXCEPT !.base = w.base, !.wire = TRUE]
             ELSE e

\* One kind's entries of one image, bases first; an edge that closes a cycle
\* is left unsatisfied.
SectionOrder(section) ==
    LET named(o) == SelectInSeq(section, LAMBDA e : e.o = o)
        fresh(done, i) == i # 0 /\ section[i] \notin done
        path(done, i) ==
            LET at[n \in 1 .. Len(section)] ==
                    IF n = 1 THEN <<i>>
                    ELSE LET before == at[n - 1]
                             next == named(section[Last(before)].base)
                         IN  IF fresh(done, next) /\ next \notin Range(before) THEN Append(before, next) ELSE before
            IN  at[Len(section)]
        visit(out, i) == IF ~ fresh(Range(out), i) THEN out
                         ELSE out \o Reverse([k \in DOMAIN path(Range(out), i) |-> section[path(Range(out), i)[k]]])
    IN  FoldLeftDomain(visit, <<>>, section)

DependencyOrder(entries) ==
    SectionOrder(SelectSeq(entries, LAMBDA e : e.o[1] = "tree"))
        \o SectionOrder(SelectSeq(entries, LAMBDA e : e.o[1] = "blob"))

CommitOrder(plan) ==
    SetToSortSeq({i \in DOMAIN plan : \A j \in 1 .. i - 1 : plan[j].in # plan[i].in}, <)

Classify(p) ==
    LET push == pushes[p]
        marked == [i \in DOMAIN push.plan |-> Classified(push, push.plan[i])]
        leads == CommitOrder(marked)
        of(c) == SelectSeq(marked, LAMBDA e : e.in = c)
    IN  /\ push.phase = "planned"
        /\ pushes' = [pushes EXCEPT ![p].phase = "classified",
              ![p].plan = FlattenSeq([i \in DOMAIN leads |-> DependencyOrder(of(marked[leads[i]].in))])]
        /\ UNCHANGED <<history, numbered, recorded, images, left>>

-----------------------------------------------------------------------------
(* Bounding the chains                                                     *)

MaxChain(o) == IF o[1] = "tree" THEN MaxTreeChain ELSE MaxBlobChain

Planned(plan) == {e.o : e \in Range(plan)}
Older(plan) == {e.base : e \in Range(plan)} \ (Planned(plan) \union {None})
StoredAt(plan) ==
    LET asked == {e.o : e \in {x \in Range(plan) : x.base # None}} \union Older(plan)
    IN  [o \in {x \in asked : Stored(x)} |-> FirstPack(o)]

\* Every stored object precedes every object this push introduces.
Precedes(a, b) == a[1] < b[1] \/ (a[1] = b[1] /\ a[2] < b[2])

Nowhere == <<2, 0>>
Own(o, storedAt, rank) ==
    IF o \in DOMAIN storedAt THEN <<0, storedAt[o]>> ELSE IF o \in DOMAIN rank THEN <<1, rank[o]>> ELSE Nowhere
AsBase(o, storedAt, rank) ==
    IF o \in DOMAIN rank THEN <<1, rank[o]>> ELSE IF o \in DOMAIN storedAt THEN <<0, storedAt[o]>> ELSE Nowhere

\* Mutant: only the length of a chain is bounded.
LoopsNever(e, storedAt, rank) == FALSE

\* A base that does not strictly precede the object could lead back to it.
Loops(e, storedAt, rank) ==
    LET own == Own(e.o, storedAt, rank)
        base == AsBase(e.base, storedAt, rank)
    IN  e.base # None /\ own # Nowhere /\ base # Nowhere /\ ~ Precedes(base, own)

\* A client's delta is nothing without its base, so a cut drops its bytes too.
Cut(e) == [e EXCEPT !.base = None, !.wire = @ /\ e.base = None]

\* One entry of the walk: an unknown base is past every limit.
BoundEntry(walk, e, storedAt, older) ==
    LET kept == IF Loops(e, storedAt, walk.rank) THEN Cut(e) ELSE e
        known == kept.base \in DOMAIN walk.depth \union DOMAIN older
        reached == IF kept.base = None THEN 0
                   ELSE 1 + (IF kept.base \in DOMAIN walk.depth THEN walk.depth[kept.base] ELSE older[kept.base])
        over == kept.base # None /\ (~ known \/ reached > MaxChain(kept.o))
    IN  [ out |-> Append(walk.out, IF over THEN Cut(kept) ELSE kept),
          depth |-> walk.depth @@ (kept.o :> IF over THEN 0 ELSE reached),
          rank |-> walk.rank @@ (kept.o :> Cardinality(DOMAIN walk.rank)) ]

BoundChains(p) ==
    LET push == pushes[p]
        storedAt == StoredAt(push.plan)
        older == [o \in {x \in Older(push.plan) : Stored(x)} |-> ChainDepth(o, MaxBlobChain)]
        step(walk, e) == BoundEntry(walk, e, storedAt, older)
    IN  /\ push.phase = "classified"
        /\ pushes' = [pushes EXCEPT ![p].phase = "bounded",
              ![p].plan = FoldLeft(step, [out |-> <<>>, depth |-> <<>>, rank |-> <<>>], push.plan).out]
        /\ UNCHANGED <<history, numbered, recorded, images, left>>

-----------------------------------------------------------------------------
(* Encoding what is left                                                   *)

\* Mutant: an object that is not sent again is never encoded again.
WantedInPush(push) ==
    {<<e.o, e.base>> : e \in {x \in Range(push.plan) : ~ x.wire /\ (x.base # None \/ x.o \in Sent(push))}}

\* Every encoding to produce; an object stored as a delta gets a whole copy
\* when an image takes it in again.
Wanted(push) ==
    LET own == {e \in Range(push.plan) : ~ e.wire}
    IN  {<<e.o, e.base>> : e \in {x \in own : x.base # None \/ x.o \in Sent(push)}}
        \union {<<e.o, None>> : e \in {x \in own : x.o \notin Sent(push) /\ Stored(x.o) /\ Canonical(x.o) # None}}

\* An object's bytes: back along the pack's own chain to something whole, or
\* to a base the pack does not have or the walk has been through, which is
\* then read from the store.
Readable(push, o) ==
    LET steps == Cardinality(Sent(push)) + 2
        inWire(path, w) == w.form = "ofs" \/ (w.form = "ref" /\ w.base \in Sent(push) \ Range(path))
        walk[n \in 1 .. steps] ==
            IF n = 1 THEN <<o>>
            ELSE LET w == push.wire[Last(walk[n - 1])]
                 IN  IF inWire(walk[n - 1], w) THEN Append(walk[n - 1], w.base) ELSE walk[n - 1]
        root == push.wire[Last(walk[steps])]
    IN  IF o \in Sent(push) THEN root = Whole \/ Stored(root.base) ELSE Stored(o)

\* A delta no smaller than its object is staged whole.
Encodings(wants, larger) == (wants \ larger) \union {<<w[1], None>> : w \in larger}

Materialise(p) ==
    LET push == pushes[p]
        wants == Wanted(push)
    IN  /\ push.phase = "bounded"
        /\ IF \A w \in wants : Readable(push, w[1]) /\ (w[2] = None \/ Readable(push, w[2]))
             THEN \E larger \in {d \in SUBSET {w \in wants : w[2] # None} : Cardinality(d) <= MaxDeclined} :
                    pushes' = [pushes EXCEPT ![p].phase = "staged", ![p].staged = Encodings(wants, larger)]
             ELSE pushes' = [pushes EXCEPT ![p].phase = "failed"]
        /\ UNCHANGED <<history, numbered, recorded, images, left>>

-----------------------------------------------------------------------------
(* Promotion                                                               *)

\* The base an entry is laid out with: the client's, the staged one, none if
\* only a whole copy was staged, none if the stored entry is forwarded.
PlanEntry(push, e) ==
    IF e.wire \/ <<e.o, e.base>> \in push.staged THEN e.base ELSE None

\* A stored entry is forwarded only when it is whole.
Placeable(push, e) ==
    \/ e.wire \/ <<e.o, e.base>> \in push.staged \/ <<e.o, None>> \in push.staged
    \/ Stored(e.o) /\ Canonical(e.o) = None

PlanImages(push, c) ==
    LET entries == {e \in Range(push.plan) : e.in = c}
    IN  [o \in {e.o : e \in entries} |-> PlanEntry(push, CHOOSE e \in entries : e.o = o)]

\* The check over the whole push, which has one tip.
Connected(push) ==
    \A c \in push.new : \A o \in Objects(c) : o \in Sent(push) \/ Stored(o)

ToInsert(push) == push.new \ Range(recorded)

\* The seqs once the commits of a push are numbered: one that a dead push
\* numbered keeps its seq, the others get the next ones, parents first.
Numberings(push) == {numbered \o order : order \in Orders(ToInsert(push) \ Range(numbered))}

AllPlaceable(push) == \A e \in Range(push.plan) : Placeable(push, e)

\* Promotion and append: the commits nobody has recorded since.
Promote(p) ==
    LET push == pushes[p]
        fresh == ToInsert(push)
    IN  /\ push.phase = "staged" /\ Connected(push)
        /\ IF AllPlaceable(push)
             THEN /\ numbered' \in Numberings(push)
                  /\ recorded' = recorded \o SelectSeq(numbered', LAMBDA c : c \in fresh)
                  /\ images' = images @@ [c \in fresh |-> PlanImages(push, c)]
                  /\ pushes' = [pushes EXCEPT ![p] = Idle]
             ELSE /\ pushes' = [pushes EXCEPT ![p].phase = "failed"]
                  /\ UNCHANGED <<numbered, recorded, images>>
        /\ UNCHANGED <<history, left>>

\* The push dies, or its journal fails, once its commits are numbered: none of
\* them is recorded.
Strand(p) ==
    LET push == pushes[p]
    IN  /\ push.phase = "staged" /\ Connected(push) /\ AllPlaceable(push)
        /\ numbered' \in Numberings(push)
        /\ pushes' = [pushes EXCEPT ![p] = Idle]
        /\ UNCHANGED <<history, recorded, images, left>>

Reject(p) ==
    /\ pushes[p].phase = "staged" /\ ~ Connected(pushes[p])
    /\ pushes' = [pushes EXCEPT ![p] = Idle]
    /\ UNCHANGED <<history, numbered, recorded, images, left>>

\* A push that failed is answered, and its session dropped.
Drop(p) ==
    /\ pushes[p].phase \in {"invalid", "failed"}
    /\ pushes' = [pushes EXCEPT ![p] = Idle]
    /\ UNCHANGED <<history, numbered, recorded, images, left>>

-----------------------------------------------------------------------------
Init ==
    /\ history \in Histories
    /\ numbered = <<>> /\ recorded = <<>> /\ images = <<>>
    /\ pushes = [p \in Pushers |-> Idle] /\ left = MaxPushes

Next ==
    \E p \in Pushers :
        Arrive(p) \/ Seed(p) \/ Take(p) \/ Land(p) \/ Identified(p) \/ PlanPush(p) \/ Classify(p)
            \/ BoundChains(p) \/ Materialise(p) \/ Promote(p) \/ Strand(p) \/ Reject(p) \/ Drop(p)

Spec == Init /\ [][Next]_vars

-----------------------------------------------------------------------------
(* Properties                                                              *)

\* An image and those of the ancestors hold the whole snapshot of its commit,
\* what the client left out of the pack included, and every base in it,
\* whether the client chose it, the diff did, or a stored object was taken in
\* again: a clone that is sent those images can resolve every entry.  This is
\* stated of pushes that come one after the other: while one is under way,
\* another may record an object that the first left out of its plan.
ImagesAreServable ==
    \A c \in Range(recorded) :
        Objects(c) \union (Range(images[c]) \ {None})
            \subseteq UNION {DOMAIN images[a] : a \in Ancestors({c})}

\* A push whose objects are all sent or stored is never failed for want of
\* bytes: what the encoding pass leaves to be forwarded is stored whole, and
\* what it encodes against can be read.  Of pushes that come one after the
\* other, as above.
ConnectedPushesLand ==
    \A p \in Pushers : pushes[p].phase = "failed" => ~ Connected(pushes[p])

BasesOf(o) == {images[c][o] : c \in {x \in Range(recorded) : o \in DOMAIN images[x]}} \ {None}

\* Whichever of an object's entries a clone takes, following the bases ends:
\* the stored deltas, over all the images, form no cycle.
PassedDeltasAreAcyclic ==
    \A o \in AllObjects : o \notin Closure(BasesOf(o), BasesOf, Cardinality(AllObjects))

\* Nothing was recorded under a seq below one recorded before it.
SeqsFollowRecording ==
    \A i, j \in DOMAIN numbered :
        {numbered[i], numbered[j]} \subseteq Range(recorded) /\ i < j =>
            SelectInSeq(recorded, LAMBDA c : c = numbered[i]) < SelectInSeq(recorded, LAMBDA c : c = numbered[j])

\* A point read ends: from any stored object the canonical entries lead along
\* stored ones to a whole one, also when a push takes up the seqs of one that
\* died and its entries come before some that were stored already.  As long
\* as no push has, a clone's deltas end too, whichever copy of an object it
\* is sent: the bases precede, over all the images.  Of pushes that come one
\* after the other, as above.
DeltasLeadBack ==
    LET onward(o) == IF Stored(o) /\ Canonical(o) # None THEN {Canonical(o)} ELSE {}
    IN  /\ \A o \in AllObjects : Stored(o) =>
             LET path == Closure({o}, onward, Cardinality(AllObjects))
             IN  \E e \in path : Stored(e) /\ Canonical(e) = None
        /\ SeqsFollowRecording => PassedDeltasAreAcyclic

\* A push is refused as inconsistent only if one of its entries is a delta
\* against an object that is not in the pack and was not stored when the bases
\* were looked up: every other entry is reached, whatever the order in which
\* entries are taken and land, and whatever other pushes record meanwhile.
ResolveIsComplete ==
    \A p \in Pushers : pushes[p].phase = "invalid" =>
        LET push == pushes[p]
        IN  \E o \in Sent(push) : /\ push.wire[o].form = "ref"
                                  /\ push.wire[o].base \notin Sent(push) \union push.bases

=============================================================================
