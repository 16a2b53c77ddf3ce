------------------------------ MODULE Ancestry ------------------------------
(* The questions asked of the commit graph, each a walk of its own: whether *)
(* one commit is an ancestor of another, the merge bases of two, which of a  *)
(* set a commit reaches, a page of first parents, and the proofs a push      *)
(* needs before an entry of its pack may be stored against a base in another *)
(* commit's pack.  One step of a walk is one round of its loop, which reads  *)
(* one band.                                                                 *)
(*                                                                           *)
(* The graph is any history over commits 1 .. N of which a part is recorded: *)
(* the others have a number and no entry yet.  Commit 0 is an id the         *)
(* repository has no number for.                                             *)
EXTENDS Bands, TLC

CONSTANTS
    N,              \* commits of the history
    MaxParents,     \* parents a commit has at most
    Budget,         \* commits a merge-base walk may read (max_commits)
    PageBand,       \* PAGE_BAND
    WalkCap,        \* WALK_CAP, how far back a boundary walk reaches
    MaxWalks,       \* MAX_BOUNDARY_WALKS
    MaxBits         \* MAX_LIVE_ANCESTOR_BITS

ASSUME AncestryAssumption ==
    /\ N \in Nat /\ MaxParents \in Nat /\ Budget \in Nat /\ PageBand \in Nat
    /\ WalkCap \in Nat /\ MaxWalks \in Nat /\ MaxBits \in Nat

VARIABLES
    parents,        \* the whole history: commit -> its parents, in order
    graphed,       \* the commits the graph store has an entry for
    walk            \* the walk under way, or None

avars == <<parents, graphed, walk>>

None == [kind |-> "none"]

Commits == 1 .. N

\* A commit's parents are distinct, have smaller seqs and are at most MaxParents.
ParentLists(c) ==
    {s \in UNION {[1 .. k -> 1 .. (c - 1)] : k \in 0 .. Min({c - 1, MaxParents})} : IsInjective(s)}

AllGraphs == {f \in [Commits -> ParentLists(N)] : \A c \in Commits : f[c] \in ParentLists(c)}

AInit ==
    /\ parents \in AllGraphs
    /\ graphed \in {1 .. m : m \in 0 .. N}
    /\ walk = None

\* What the graph store reads for any band of the walk.
GraphIndex == [c \in graphed |-> parents[c]]

IsNumbered(c) == c # 0

\* A walk that answers at once is over; one that must read goes on.
Over(kind, q, answer) == [kind |-> kind, q |-> q, end |-> "answered", answer |-> answer]

Fails(w) == walk' = [kind |-> w.kind, q |-> w.q, end |-> "failed"]

Answers(w, a) == walk' = Over(w.kind, w.q, a)

-----------------------------------------------------------------------------
(* is_ancestor                                                             *)

AskIsAncestor(a, d) ==
    LET q == [ancestor |-> a, descendant |-> d]
    IN  walk' = IF ~ IsNumbered(a) \/ ~ IsNumbered(d) \/ a > d THEN Over("is_ancestor", q, FALSE)
                ELSE IF a = d THEN Over("is_ancestor", q, TRUE)
                ELSE [kind |-> "is_ancestor", q |-> q, end |-> "open",
                      frontier |-> {d}, width |-> FirstWidth]

\* A round that reached the floor at the ancestor has searched all of it.
IsAncestorBand ==
    LET w == walk
        low == Floor(Max(w.frontier), w.width)
        floor == IF low < w.q.ancestor THEN w.q.ancestor ELSE low
        band == ExpandAncestors(GraphIndex, w.frontier, floor)
    IN  CASE ~ band.covered -> Fails(w)
          [] band.covered /\ w.q.ancestor \in band.visited -> Answers(w, TRUE)
          [] band.covered /\ w.q.ancestor \notin band.visited
                 /\ (floor <= w.q.ancestor \/ band.below = {}) -> Answers(w, FALSE)
          [] OTHER -> walk' = [w EXCEPT !.frontier = band.below, !.width = Grow(@)]

-----------------------------------------------------------------------------
(* merge_bases                                                             *)

AskMergeBases(a, b) ==
    LET q == [a |-> a, b |-> b]
    IN  walk' = IF ~ IsNumbered(a) \/ ~ IsNumbered(b) THEN Over("merge_bases", q, {})
                ELSE IF a = b THEN Over("merge_bases", q, {a})
                ELSE [kind |-> "merge_bases", q |-> q, end |-> "open", width |-> FirstWidth,
                      side |-> [x \in {"a", "b"} |-> [reach |-> {q[x]}, frontier |-> {q[x]}]]]

\* One side expands to the floor; a frontier wholly below it is left alone.
MergeBaseSide(s, floor) ==
    IF \A c \in s.frontier : c < floor THEN [reach |-> s.reach, frontier |-> s.frontier, covered |-> TRUE]
    ELSE LET band == ExpandAncestors(GraphIndex, s.frontier, floor)
         IN  [reach |-> s.reach \union band.visited \union band.below,
              frontier |-> band.below, covered |-> band.covered]

\* Everything left to explore is reachable from both.
Common(x, y) == x.frontier \subseteq y.reach /\ y.frontier \subseteq x.reach

\* Taking the newest of what is left removes all it reaches.
Maximal(common) ==
    LET taken[left \in SUBSET common] ==
            IF left = {} THEN {}
            ELSE LET head == Max(left)
                     rest == left \ {head}
                     reach == IF rest = {} THEN {}
                              ELSE ExpandAncestors(GraphIndex, {head}, Min(rest)).visited
                 IN  {head} \union taken[rest \ reach]
    IN  taken[common]

MergeBasesBand ==
    LET w == walk
        floor == Floor(Max(w.side["a"].frontier \union w.side["b"].frontier), w.width)
        Bases(x, y) == Maximal(x.reach \intersect y.reach)
        Judged(x, y) ==
          CASE ~ (x.covered /\ y.covered) -> Fails(w)
            [] x.covered /\ y.covered /\ Common(x, y) -> Answers(w, Bases(x, y))
            [] x.covered /\ y.covered /\ ~ Common(x, y)
                   /\ Cardinality(x.reach) + Cardinality(y.reach) > Budget ->
                   walk' = Over(w.kind, [a |-> w.q.a, b |-> w.q.b, exhausted |-> TRUE], Bases(x, y))
            [] OTHER ->
                   walk' = [w EXCEPT !.width = Grow(@),
                                !.side["a"] = [reach |-> x.reach, frontier |-> x.frontier],
                                !.side["b"] = [reach |-> y.reach, frontier |-> y.frontier]]
    IN  Judged(MergeBaseSide(w.side["a"], floor), MergeBaseSide(w.side["b"], floor))

-----------------------------------------------------------------------------
(* ancestors_among and first_parent_page                                   *)

\* One band, floored so that a walk cannot run the length of history.  What
\* the walk names below the floor is reached as well.
AncestorsAmong(seed, candidates, cap) ==
    LET wanted == {c \in candidates : IsNumbered(c)}
        low == IF seed < cap THEN 0 ELSE seed - cap
        floor == IF low < Min(wanted) THEN Min(wanted) ELSE low
        band == ExpandAncestors(GraphIndex, {seed}, floor)
    IN  IF ~ IsNumbered(seed) \/ wanted = {} THEN [found |-> {}, covered |-> TRUE]
        ELSE [found |-> (band.visited \union band.below) \intersect wanted,
              covered |-> band.covered]

AskAmong(seed, candidates) ==
    LET q == [seed |-> seed, candidates |-> candidates]
        got == AncestorsAmong(seed, candidates, WalkCap)
    IN  IF got.covered THEN walk' = Over("among", q, got.found)
        ELSE Fails([kind |-> "among", q |-> q])

AskPage(tip, limit) ==
    LET q == [tip |-> tip, limit |-> limit]
    IN  walk' = IF limit = 0 \/ ~ IsNumbered(tip) THEN Over("page", q, <<>>)
                ELSE [kind |-> "page", q |-> q, end |-> "open", page |-> <<>>, at |-> tip]

\* first_parent_page loads a band around `at'; follow takes first parents
\* while the band still holds them and the page has room.
Follow(at, floor, room) ==
    LET from[k \in 0 .. room] ==
            LET prev == from[k - 1]
            IN  IF k = 0 THEN [page |-> <<>>, at |-> at, missing |-> FALSE]
                ELSE IF prev.missing \/ prev.at = 0 \/ prev.at < floor THEN prev
                ELSE IF prev.at \notin graphed THEN [prev EXCEPT !.missing = TRUE]
                ELSE [page |-> Append(prev.page, prev.at), missing |-> FALSE,
                      at |-> IF parents[prev.at] = <<>> THEN 0 ELSE Head(parents[prev.at])]
    IN  from[room]

PageRound ==
    LET w == walk
        floor == IF w.at < PageBand THEN 0 ELSE w.at - PageBand
        got == Follow(w.at, floor, w.q.limit - Len(w.page))
        page == w.page \o got.page
    IN  CASE got.missing -> Fails(w)
          [] ~ got.missing /\ (got.at = 0 \/ Len(page) >= w.q.limit) -> Answers(w, page)
          [] OTHER -> walk' = [w EXCEPT !.page = page, !.at = got.at]

-----------------------------------------------------------------------------
(* needed_commits and depth_classify                                       *)

AskNeeded(wants, haves, shallow) ==
    LET q == [wants |-> wants, haves |-> haves, shallow |-> shallow]
    IN  walk' = [kind |-> "needed", q |-> q, end |-> "open", w |-> PaintWalk(wants, haves, shallow, shallow)]

NeededBand ==
    \E w \in {PaintBand(GraphIndex, walk.w)} :
        IF ~ w.covered THEN Fails(walk)
        ELSE IF PaintOver(w) THEN Answers(walk, w.needed)
        ELSE walk' = [walk EXCEPT !.w = w]

AskDepths(wants, limit) ==
    walk' = [kind |-> "depths", q |-> [wants |-> wants, limit |-> limit], end |-> "open",
             w |-> DepthWalk(wants, limit)]

DepthsBand ==
    \E w \in {DepthBand(GraphIndex, walk.w)} :
        IF ~ w.covered THEN Fails(walk)
        ELSE IF DepthOver(w) THEN Answers(walk, w.sent)
        ELSE walk' = [walk EXCEPT !.w = w]

-----------------------------------------------------------------------------
(* The proofs of a push                                                    *)

\* The push sends the commits above `last'; the rest are in the repository.
Sent(last) == (last + 1) .. N

\* The parents the push names and did not send.
NamedParents(last) == {p \in 1 .. last : \E c \in Sent(last) : p \in Range(parents[c])}

\* q is named before p, in the order in which the push's commits are walked.
NamedBefore(q, p, last) ==
    LET first(x) == Min({c \in Sent(last) : x \in Range(parents[c])})
        ps == parents[first(p)]
    IN  \/ first(q) < first(p)
        \/ first(q) = first(p) /\ \E i, j \in DOMAIN ps : i < j /\ ps[i] = q /\ ps[j] = p

\* Of these the first MaxWalks; each is walked once.
BoundariesOf(last) ==
    LET named == NamedParents(last)
    IN  {p \in named : Cardinality({q \in named : NamedBefore(q, p, last)}) < MaxWalks}

ChildrenLeft(last) ==
    [c \in Sent(last) |-> Cardinality({d \in Sent(last) : c \in Range(parents[d])})]

AskProofs(last) ==
    /\ 1 .. last \subseteq graphed
    /\ LET bs == BoundariesOf(last)
       IN  walk' = [kind |-> "prove", q |-> [last |-> last], end |-> "open", at |-> last + 1,
                    boundaries |-> bs,
                    reachable |-> [b \in bs |-> AncestorsAmong(b, 1 .. last, WalkCap).found],
                    left |-> ChildrenLeft(last), live |-> <<>>, oldest |-> <<>>,
                    proven |-> {}, dropped |-> FALSE]

\* What the commit inherits from the closures its parents left behind: their
\* bits and their own, and a bit for each boundary that was walked.
ClosureOf(w, c) ==
    UNION {(IF p \in DOMAIN w.live THEN w.live[p] ELSE {}) \union
           (IF p > w.q.last \/ p \in w.boundaries THEN {p} ELSE {}) : p \in Range(parents[c])}

Resident(live) == MapThenSumSet(LAMBDA c : Cardinality(live[c]), DOMAIN live)

\* Mutant: a commit below a boundary counts as reached when it has a number
\* below the boundary's.
HoldsByNumber(w, closure, home) ==
    IF home > w.q.last THEN home \in closure
    ELSE \E b \in closure \intersect w.boundaries : home <= b

\* A home of the push is a bit of the closure; an older one is reached from a
\* boundary in it.
Holds(w, closure, home) ==
    IF home > w.q.last THEN home \in closure
    ELSE \E b \in closure \intersect w.boundaries : home \in w.reachable[b]

\* A parent is done with once its last child is built; a closure some child
\* still needs is kept, and the oldest are dropped under pressure.
ProveCommit ==
    LET w == walk
        c == w.at
        closure == ClosureOf(w, c)
        left == [d \in DOMAIN w.left |-> IF d \in Range(parents[c]) THEN w.left[d] - 1 ELSE w.left[d]]
        still == {d \in DOMAIN w.live : left[d] > 0}
        kept == [d \in (IF left[c] > 0 THEN still \union {c} ELSE still) |->
                    IF d = c THEN closure ELSE w.live[d]]
        oldest == IF left[c] > 0 THEN Append(w.oldest, c) ELSE w.oldest
        Without(k) == [d \in DOMAIN kept \ Range(SubSeq(oldest, 1, k)) |-> kept[d]]
        evict == IF left[c] = 0 THEN 0
                 ELSE Min({k \in 0 .. Len(oldest) : Resident(Without(k)) <= MaxBits})
        proven == w.proven \union {<<c, h>> : h \in {x \in Commits : Holds(w, closure, x)}}
    IN  walk' = IF c = N THEN [kind |-> "prove", end |-> "answered", answer |-> proven,
                               q |-> [last |-> w.q.last,
                                      bounded |-> w.dropped \/ w.boundaries # NamedParents(w.q.last)]]
                ELSE [w EXCEPT !.at = c + 1, !.left = left, !.proven = proven,
                               !.live = Without(evict),
                               !.oldest = SubSeq(oldest, evict + 1, Len(oldest)),
                               !.dropped = @ \/ Without(evict) # kept]

-----------------------------------------------------------------------------
\* The sets a question names have at most two members.
Few(S) == {T \in SUBSET S : Cardinality(T) <= 2}

AskAboutAncestry ==
    /\ walk = None
    /\ \/ \E a, b \in 0 .. N : AskIsAncestor(a, b) \/ (a <= b /\ AskMergeBases(a, b))
       \/ \E c \in 0 .. N, S \in Few(0 .. N) \ {{}} : AskAmong(c, S)
       \/ \E c \in 0 .. N, k \in 0 .. N : AskPage(c, k)
       \/ \E last \in 0 .. (N - 1) : AskProofs(last)
       \/ \E W \in Few(graphed) \ {{}} :
              \/ \E h, b \in 0 .. N : W # {h} /\ AskNeeded(W, {h} \ {0}, {b} \ {0})
              \/ \E d \in 1 .. N : AskDepths(W, d)

Round(kind, Step) == walk.kind = kind /\ walk.end = "open" /\ Step

ANext ==
    /\ \/ AskAboutAncestry
       \/ Round("is_ancestor", IsAncestorBand)
       \/ Round("merge_bases", MergeBasesBand)
       \/ Round("page", PageRound)
       \/ Round("prove", ProveCommit)
       \/ Round("needed", NeededBand)
       \/ Round("depths", DepthsBand)
    /\ UNCHANGED <<parents, graphed>>

ASpec == AInit /\ [][ANext]_avars

-----------------------------------------------------------------------------
(* Properties                                                              *)

\* The reference: a commit reaches itself and all that its parents reach.
Reach(c) == Walked({c}, [d \in Commits |-> Range(parents[d])], N)

CommonAncestors(a, b) == Reach(a) \intersect Reach(b)

Best(S) == {c \in S : \A d \in S : c \in Reach(d) => c = d}

FirstParents(tip, k) ==
    LET line[n \in 1 .. N] ==
            LET before == line[n - 1]
            IN  IF n = 1 THEN <<tip>>
                ELSE IF parents[Last(before)] = <<>> THEN before
                ELSE Append(before, Head(parents[Last(before)]))
    IN  SubSeq(line[N], 1, Min({k, Len(line[N])}))

Asked(w) == CASE w.kind = "is_ancestor" -> {w.q.ancestor, w.q.descendant}
              [] w.kind = "merge_bases" -> {w.q.a, w.q.b}
              [] w.kind = "among" -> {w.q.seed}
              [] w.kind = "page" -> {w.q.tip}
              [] w.kind = "needed" -> w.q.wants \union w.q.haves
              [] w.kind = "depths" -> w.q.wants

\* The reference for a grafted history, and for the length of a shortest path.
GraftedReach(S, grafts) ==
    Walked(S, [d \in Commits \ grafts |-> Range(parents[d])], N)

Within(S, d) ==
    LET near[k \in 1 .. d] ==
            IF k = 1 THEN S
            ELSE LET nearer == near[k - 1]
                 IN  nearer \union UNION {Range(parents[c]) : c \in nearer}
    IN  near[d]

\* What a walk that is over says: it failed, and then only about a commit that
\* has no entry, or its answer is as the whole history would have it.
Agrees(kind, truth) ==
    walk.kind = kind /\ walk.end # "open" =>
        IF walk.end = "failed" THEN ~ (Asked(walk) \subseteq graphed) ELSE truth

AllNumbered == 0 \notin Asked(walk)

IsAncestorAgrees ==
    Agrees("is_ancestor", walk.answer = (AllNumbered /\ walk.q.ancestor \in Reach(walk.q.descendant)))

\* One that ran out of its budget claims no more than is true.
MergeBasesAgree ==
    Agrees("merge_bases",
        LET common == CommonAncestors(walk.q.a, walk.q.b)
        IN  IF "exhausted" \in DOMAIN walk.q
            THEN walk.answer \subseteq common /\ walk.answer = Best(walk.answer)
            ELSE walk.answer = IF AllNumbered THEN Best(common) ELSE {})

\* And so does one that is asked for more than WalkCap back.
AmongAgrees ==
    Agrees("among",
        LET truth == IF AllNumbered THEN Reach(walk.q.seed) \intersect walk.q.candidates ELSE {}
        IN  walk.answer \subseteq truth /\ (walk.q.seed <= WalkCap + 1 => walk.answer = truth))

NeededAgrees ==
    Agrees("needed",
        walk.answer = GraftedReach(walk.q.wants, walk.q.shallow) \ GraftedReach(walk.q.haves, walk.q.shallow))

DepthsAgree ==
    Agrees("depths",
        walk.answer = {x \in Commits \X (1 .. walk.q.limit) :
                          /\ x[1] \in Within(walk.q.wants, x[2])
                          /\ x[2] > 1 => x[1] \notin Within(walk.q.wants, x[2] - 1)})

PageAgrees ==
    Agrees("page",
        walk.answer = IF AllNumbered /\ walk.q.limit # 0 THEN FirstParents(walk.q.tip, walk.q.limit) ELSE <<>>)

\* Whatever the shape of the history, the schedule of the bands and the part
\* that is recorded, a walk that answers (banded_is_ancestor,
\* banded_merge_bases, ancestors_among, first_parent_page, banded_paint_walk,
\* depth_classify) answers as the
\* whole history would; one that stops at its bound says so, or claims no more
\* than is true; and only a question about a commit without an entry fails.
WalksAgreeWithTheGraph ==
    /\ IsAncestorAgrees /\ MergeBasesAgree /\ AmongAgrees
    /\ NeededAgrees /\ DepthsAgree /\ PageAgrees

\* Push::prove never says that a commit's readers reach a home they do not
\* reach, whichever closures were evicted and whichever boundaries were not
\* walked; and it misses a proof only when one of its bounds was met.
ProofsAreSound ==
    LET w == walk
        truth == {x \in Sent(w.q.last) \X Commits : x[2] \in Reach(x[1]) \ {x[1]}}
    IN  w.kind = "prove" /\ w.end = "answered" =>
            /\ w.answer \subseteq truth
            /\ ~ w.q.bounded /\ w.q.last <= WalkCap + 1 => w.answer = truth
=============================================================================
