-------------------------------- MODULE Bands --------------------------------
(* The walks of the commit graph, in seq space.                             *)
(*                                                                          *)
(* A commit is its seq, a natural number above that of every parent.  An    *)
(* index `ix' maps each commit the graph store holds to the sequence of its *)
(* parents, in the order git records them.  A walk descends in bands of seqs *)
(* whose width follows a schedule; one round reads one band, and what it     *)
(* reaches below the floor of that band is the frontier of the next round.   *)
(* A walk that has to read a commit the index does not hold fails.           *)
EXTENDS Naturals, Sequences, FiniteSets, FiniteSetsExt, SequencesExt

CONSTANTS
    InitialWidth,   \* the width of a walk's first band
    Growth,         \* the factor each round widens it by
    MaxWidth        \* its ceiling

ASSUME WidthsAssumption ==
    /\ InitialWidth \in Nat \ {0} /\ Growth \in Nat \ {0}
    /\ MaxWidth \in Nat \ {0}

FirstWidth == IF InitialWidth < MaxWidth THEN InitialWidth ELSE MaxWidth

Grow(width) == IF width * Growth < MaxWidth THEN width * Growth ELSE MaxWidth

\* saturating_sub on the width of the band, whose top is `ceil'.
Floor(ceil, width) == IF ceil + 1 < width THEN 0 ELSE ceil + 1 - width

Parents(ix, c) == Range(ix[c])

\* A stack walk: everything reached from S along `onward', which maps what a
\* walk goes on from to where it leads.  No path goes on more than `longest'
\* times.
Walked(S, onward, longest) ==
    LET after[n \in 0 .. longest] ==
            IF n = 0 THEN S
            ELSE LET before == after[n - 1]
                 IN  before \union UNION {onward[x] : x \in before \intersect DOMAIN onward}
    IN  after[longest]

-----------------------------------------------------------------------------
(* One band                                                                *)

\* Mutant: a parent below the floor is walked past instead of reported.
ExpandAncestorsSkipping(ix, seeds, floor) ==
    LET onward == [c \in {d \in DOMAIN ix : d >= floor} |-> Parents(ix, c)]
        reach == Walked(seeds, onward, Cardinality(DOMAIN ix) + 1)
        visited == {c \in reach : c >= floor}
    IN  [ visited |-> visited, below |-> {c \in seeds : c < floor},
          covered |-> visited \subseteq DOMAIN ix ]

ExpandAncestors(ix, seeds, floor) ==
    LET onward == [c \in {d \in DOMAIN ix : d >= floor} |-> Parents(ix, c)]
        reach == Walked(seeds, onward, Cardinality(DOMAIN ix) + 1)
        visited == {c \in reach : c >= floor}
    IN  [ visited |-> visited, below |-> reach \ visited,
          covered |-> visited \subseteq DOMAIN ix ]

\* One colour of a paint walk: it is painted on what it reaches and travels on
\* from what is neither below the floor nor blocked, never to `kept'.
PaintColour(ix, seeds, floor, block, kept) ==
    LET Travels(c) == c >= floor /\ c \notin block
        onward == [c \in {d \in DOMAIN ix : Travels(d)} |-> Parents(ix, c) \ kept]
        painted == Walked(seeds, onward, Cardinality(DOMAIN ix) + 1)
    IN  [painted |-> painted, covered |-> {c \in painted : Travels(c)} \subseteq DOMAIN ix]

\* A seed carrying both flags travels as a have: its want must not leak down.
ExpandPaint(ix, wants, haves, floor, wantBlock, haveBlock) ==
    LET Both(want, have) ==
          [ finalized |-> {c \in want.painted \ have.painted : c >= floor},
            wantsBelow |-> {c \in want.painted : c < floor},
            havesBelow |-> {c \in have.painted : c < floor},
            covered |-> want.covered /\ have.covered ]
    IN  Both(PaintColour(ix, wants \ haves, floor, wantBlock, haves),
             PaintColour(ix, haves, floor, haveBlock, {}))

\* The least of the depths a frontier holds for a commit is the one kept.
Pooled(pairs) == {x \in pairs : \A y \in pairs : y[1] = x[1] => x[2] <= y[2]}

\* Relaxation: every pair of a commit and a length of path to it within the
\* limit, and then the least length of each.
ExpandDepth(ix, seeds, floor, limit) ==
    LET onward == [x \in {d \in DOMAIN ix : d >= floor} \X (1 .. limit - 1) |->
                     {<<p, x[2] + 1>> : p \in Parents(ix, x[1])}]
        Split(best) ==
          [ reached |-> {x \in best : x[1] >= floor}, below |-> {x \in best : x[1] < floor},
            covered |-> {x[1] : x \in {y \in best : y[1] >= floor}} \subseteq DOMAIN ix ]
    IN  Split(Pooled(Walked(seeds, onward, Cardinality(DOMAIN ix) + 1)))

-----------------------------------------------------------------------------
(* A paint walk and a depth walk, band by band                             *)

\* Only a frontier a want alone reaches can still contribute.
PaintWalk(wants, haves, wantBlock, haveBlock) ==
    [ wants |-> wants, haves |-> haves, wantBlock |-> wantBlock, haveBlock |-> haveBlock,
      width |-> FirstWidth, needed |-> {}, covered |-> TRUE ]

PaintOver(w) == w.wants \subseteq w.haves \/ ~ w.covered

PaintBand(ix, w) ==
    LET floor == Floor(Max(w.wants \union w.haves), w.width)
        In(S) == {c \in S : c >= floor}
        After(band) ==
          [w EXCEPT !.wants = (w.wants \ In(w.wants)) \union band.wantsBelow,
                    !.haves = (w.haves \ In(w.haves)) \union band.havesBelow,
                    !.width = Grow(w.width),
                    !.needed = @ \union band.finalized,
                    !.covered = band.covered]
    IN  After(ExpandPaint(ix, In(w.wants), In(w.haves), floor, w.wantBlock, w.haveBlock))

DepthWalk(wants, limit) ==
    [frontier |-> {<<c, 1>> : c \in wants}, limit |-> limit, width |-> FirstWidth,
     sent |-> {}, covered |-> TRUE]

DepthOver(w) == w.frontier = {} \/ ~ w.covered

DepthBand(ix, w) ==
    LET floor == Floor(Max({x[1] : x \in w.frontier}), w.width)
        seeds == {x \in w.frontier : x[1] >= floor}
        After(band) ==
          [w EXCEPT !.frontier = Pooled((w.frontier \ seeds) \union band.below),
                    !.width = Grow(w.width),
                    !.sent = @ \union band.reached,
                    !.covered = band.covered]
    IN  After(ExpandDepth(ix, seeds, floor, w.limit))

\* The loops over bands, run to their end: every band is below the one before.
PaintedDown(ix, w0) ==
    LET rounds == Max({0} \union w0.wants \union w0.haves) + 1
        at[n \in 0 .. rounds] ==
            IF n = 0 THEN w0
            ELSE LET w == at[n - 1] IN IF PaintOver(w) THEN w ELSE PaintBand(ix, w)
    IN  at[rounds]

ClassifiedByDepth(ix, w0) ==
    LET rounds == Max({0} \union {x[1] : x \in w0.frontier}) + 1
        at[n \in 0 .. rounds] ==
            IF n = 0 THEN w0
            ELSE LET w == at[n - 1] IN IF DepthOver(w) THEN w ELSE DepthBand(ix, w)
    IN  at[rounds]
=============================================================================
