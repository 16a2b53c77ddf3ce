--------------------------- MODULE Serving_proofs ---------------------------
(***************************************************************************)
(* Proofs about what a repository answers with: the deltas a fetch sends   *)
(* as they are stored (Fetch), the walks of the commit graph (Ancestry),   *)
(* the outcomes of a push to a remote (Remote), the pages of a listing     *)
(* (Service) and the frames of a pack stream (Formats), for any history,   *)
(* any schedule of bands, any keys and limits, and any body cut into any   *)
(* writes.                                                                 *)
(*                                                                         *)
(* Walks, pages and frames are recursive functions.  What such a function  *)
(* computes is shown by induction over a set of numbers (Counting), and    *)
(* that it exists at all by Recursion.                                     *)
(***************************************************************************)
EXTENDS Remote, Ancestry, Service, Formats, FiniteSetTheorems, SequenceTheorems, WellFoundedInduction, TLAPS

-----------------------------------------------------------------------------
(* Induction and recursion                                                 *)

LEMMA NatMin == \A T \in SUBSET Nat : T # {} => \E n \in T : \A m \in T : n <= m
<1> SUFFICES ASSUME NEW T \in SUBSET Nat, T # {}
             PROVE  \E n \in T : \A m \in T : n <= m
  OBVIOUS
<1> DEFINE R == OpToRel(<, Nat)
<1>1. IsWellFoundedOn(R, Nat)
  BY NatLessThanWellFounded, Zenon
<1>2. \A x, y \in Nat : x < y => <<x, y>> \in R
  BY DEF OpToRel
<1> HIDE DEF R
<1>3. PICK x \in T : \A y \in T : ~ (<<y, x>> \in R)
  BY <1>1, WFMin
<1>4. ASSUME NEW y \in T PROVE x <= y
  <2>1. x \in Nat /\ y \in Nat
    OBVIOUS
  <2>2. ~ (y < x)
    BY <1>2, <1>3, <2>1
  <2> QED  BY <2>1, <2>2
<1> QED  BY <1>4

\* Induction over a set of numbers.
LEMMA Counting ==
    ASSUME NEW T \in SUBSET Nat, 0 \in T, \A n \in T : n + 1 \in T
    PROVE  T = Nat
<1> SUFFICES ASSUME Nat \ T # {} PROVE FALSE
  OBVIOUS
<1>1. PICK n \in Nat \ T : \A m \in Nat \ T : n <= m
  BY NatMin
<1>2. n # 0 /\ n - 1 \in Nat /\ n - 1 \notin Nat \ T
  BY <1>1
<1>3. (n - 1) + 1 \in T
  BY <1>2
<1> QED  BY <1>1, <1>3

IsOn(f, S) == DOMAIN f = S /\ f = [x \in S |-> f[x]]

\* f is the function that starts with b and goes on by F.
Recurses(f, m, b, F) == \A n \in 0 .. m : f[n] = IF n = 0 THEN b ELSE F[<<f[n - 1], n>>]

\* A function defined by recursion over 0 .. m exists, and takes its values
\* where the steps of the recursion do.
LEMMA Recursion ==
    ASSUME NEW V, NEW b \in V, NEW m \in Nat, NEW F \in [V \X Nat -> V]
    PROVE  \E f \in [0 .. m -> V] : Recurses(f, m, b, F)
<1> DEFINE Ok(k, f) == \A n \in 0 .. k : f[n] = IF n = 0 THEN b ELSE F[<<f[n - 1], n>>]
           T == {k \in Nat : \E f \in [0 .. k -> V] : Ok(k, f)}
<1>1. 0 \in T
  <2>1. [n \in 0 .. 0 |-> b] \in [0 .. 0 -> V] /\ Ok(0, [n \in 0 .. 0 |-> b])
    OBVIOUS
  <2> QED  BY <2>1
<1>2. \A k \in T : k + 1 \in T
  <2> SUFFICES ASSUME NEW k \in T PROVE k + 1 \in T
    OBVIOUS
  <2>1. PICK f \in [0 .. k -> V] : Ok(k, f)
    OBVIOUS
  <2> DEFINE g == [n \in 0 .. k + 1 |-> IF n = k + 1 THEN F[<<f[k], k + 1>>] ELSE f[n]]
  <2>2. k \in Nat /\ k + 1 \in Nat /\ k \in 0 .. k
    OBVIOUS
  <2>3. F[<<f[k], k + 1>>] \in V
    BY <2>1, <2>2
  <2>4. g \in [0 .. k + 1 -> V]
    BY <2>2, <2>3
  <2>5. ASSUME NEW n \in 0 .. k + 1
        PROVE  g[n] = IF n = 0 THEN b ELSE F[<<g[n - 1], n>>]
    <3>1. CASE n = k + 1
      <4>1. g[n - 1] = f[k] /\ g[n] = F[<<f[k], k + 1>>] /\ n # 0
        BY <3>1, <2>2
      <4> QED  BY <4>1, <3>1
    <3>2. CASE n \in 0 .. k /\ n = 0
      <4>1. 0 \in 0 .. k
        BY <2>2
      <4>2. f[0] = b
        BY <2>1, <4>1
      <4>3. g[0] = f[0]
        BY <2>2
      <4> QED  BY <4>2, <4>3, <3>2
    <3>3. CASE n \in 0 .. k /\ n # 0
      <4>1. g[n] = f[n] /\ g[n - 1] = f[n - 1]
        BY <3>3, <2>2
      <4> QED  BY <4>1, <3>3, <2>1
    <3> QED  BY <3>1, <3>2, <3>3, <2>2
  <2>6. Ok(k + 1, g)
    BY <2>5
  <2> QED  BY <2>2, <2>4, <2>6
<1> HIDE DEF T
<1>3. T = Nat
  <2>1. T \subseteq Nat
    BY DEF T
  <2> QED  BY <1>1, <1>2, <2>1, Counting
<1> QED  BY <1>3 DEF T, Recurses

-----------------------------------------------------------------------------
(* Walks                                                                   *)

\* One more step of a walk.
Onwards(X, onward) == X \union UNION {onward[x] : x \in X \intersect DOMAIN onward}

\* Where a walk may come to.
Reachable(S, onward) == S \union UNION {onward[x] : x \in DOMAIN onward}

\* after[n] is what a walk from S has reached in n steps.
Steps(after, S, onward, longest) ==
    /\ after \in [0 .. longest -> SUBSET Reachable(S, onward)]
    /\ after[0] = S
    /\ \A n \in 1 .. longest : after[n] = Onwards(after[n - 1], onward)

LEMMA OnwardsStays ==
    ASSUME NEW S, NEW onward, NEW X \in SUBSET Reachable(S, onward)
    PROVE  Onwards(X, onward) \in SUBSET Reachable(S, onward)
BY DEF Onwards, Reachable

LEMMA WalkHasSteps ==
    ASSUME NEW S, NEW onward, NEW longest \in Nat
    PROVE  \E after : Steps(after, S, onward, longest) /\ Walked(S, onward, longest) = after[longest]
<1> DEFINE V == SUBSET Reachable(S, onward)
           F == [x \in V \X Nat |-> Onwards(x[1], onward)]
           Rec(f) == [n \in 0 .. longest |-> IF n = 0 THEN S
                        ELSE LET before == f[n - 1]
                             IN  before \union UNION {onward[x] : x \in before \intersect DOMAIN onward}]
           h == CHOOSE f : f = Rec(f)
<1>1. S \in V
  BY DEF Reachable
<1>2. F \in [V \X Nat -> V]
  <2>1. ASSUME NEW x \in V \X Nat PROVE Onwards(x[1], onward) \in V
    <3>1. x[1] \in V
      OBVIOUS
    <3> QED  BY <3>1, OnwardsStays
  <2> HIDE DEF V
  <2> QED  BY <2>1
<1>3. \E f \in [0 .. longest -> V] : Recurses(f, longest, S, F)
  <2> HIDE DEF V, F
  <2> QED  BY <1>1, <1>2, Recursion
<1>4. PICK f \in [0 .. longest -> V] : Recurses(f, longest, S, F)
  BY <1>3
<1>5. ASSUME NEW n \in 1 .. longest PROVE f[n] = Onwards(f[n - 1], onward)
  <2>1. n \in 0 .. longest /\ n # 0 /\ n - 1 \in 0 .. longest /\ n \in Nat
    OBVIOUS
  <2>2. f[n - 1] \in V
    BY <2>1, <1>4
  <2>3. f[n] = F[<<f[n - 1], n>>]
    <3> HIDE DEF F, V
    <3> QED  BY <1>4, <2>1 DEF Recurses
  <2>4. <<f[n - 1], n>> \in V \X Nat /\ <<f[n - 1], n>>[1] = f[n - 1]
    BY <2>1, <2>2
  <2> HIDE DEF V
  <2> QED  BY <2>3, <2>4
<1>6. f[0] = S
  <2>1. 0 \in 0 .. longest
    OBVIOUS
  <2> HIDE DEF V, F
  <2> QED  BY <2>1, <1>4 DEF Recurses
<1>7. Steps(f, S, onward, longest)
  BY <1>4, <1>5, <1>6 DEF Steps
<1> HIDE DEF F
<1>8. f = Rec(f)
  <2>1. ASSUME NEW n \in 0 .. longest PROVE f[n] = Rec(f)[n]
    BY <1>5, <1>6 DEF Onwards
  <2> HIDE DEF V
  <2>2. f = [n \in 0 .. longest |-> f[n]]
    BY <1>4
  <2>3. Rec(f) = [n \in 0 .. longest |-> Rec(f)[n]]
    OBVIOUS
  <2> HIDE DEF Rec
  <2> QED  BY <2>1, <2>2, <2>3
<1>9. h = Rec(h)
  <2> HIDE DEF Rec
  <2> QED  BY <1>8
<1>10. Walked(S, onward, longest) = h[longest]
  BY DEF Walked
<1> HIDE DEF h
<1> DEFINE T == {n \in Nat : n \in 0 .. longest => h[n] = f[n]}
<1>11. 0 \in T
  BY <1>6, <1>9
<1>12. ASSUME NEW n \in T PROVE n + 1 \in T
  <2> SUFFICES ASSUME n + 1 \in 0 .. longest PROVE h[n + 1] = f[n + 1]
    OBVIOUS
  <2>1. n \in Nat /\ (n + 1) - 1 = n /\ n + 1 # 0 /\ n \in 0 .. longest /\ n + 1 \in 1 .. longest
    OBVIOUS
  <2>2. h[n + 1] = Onwards(h[n], onward)
    BY <1>9, <2>1 DEF Onwards
  <2>3. f[n + 1] = Onwards(f[n], onward)
    BY <1>5, <2>1
  <2> QED  BY <2>1, <2>2, <2>3
<1>13. T = Nat
  <2>1. T \in SUBSET Nat
    OBVIOUS
  <2> HIDE DEF T
  <2> QED  BY <1>11, <1>12, <2>1, Counting
<1>14. h[longest] = f[longest]
  BY <1>13
<1> QED  BY <1>7, <1>10, <1>14

\* A walk starts from S and stays within what is closed.
LEMMA WalkedStays ==
    ASSUME NEW S, NEW onward, NEW longest \in Nat, NEW Z, S \subseteq Z,
           \A x \in Z \intersect DOMAIN onward : onward[x] \subseteq Z
    PROVE  S \subseteq Walked(S, onward, longest) /\ Walked(S, onward, longest) \subseteq Z
<1>1. PICK after : Steps(after, S, onward, longest) /\ Walked(S, onward, longest) = after[longest]
  BY WalkHasSteps
<1> DEFINE T == {n \in Nat : n \in 0 .. longest => S \subseteq after[n] /\ after[n] \subseteq Z}
<1>2. 0 \in T
  BY <1>1 DEF Steps
<1>3. ASSUME NEW n \in T PROVE n + 1 \in T
  <2> SUFFICES ASSUME n + 1 \in 0 .. longest PROVE S \subseteq after[n + 1] /\ after[n + 1] \subseteq Z
    OBVIOUS
  <2>1. n \in Nat /\ (n + 1) - 1 = n /\ n \in 0 .. longest /\ n + 1 \in 1 .. longest
    OBVIOUS
  <2>2. after[n + 1] = Onwards(after[n], onward)
    BY <1>1, <2>1 DEF Steps
  <2>3. S \subseteq after[n] /\ after[n] \subseteq Z
    BY <2>1
  <2> QED  BY <2>2, <2>3 DEF Onwards
<1>4. T = Nat
  <2>1. T \in SUBSET Nat
    OBVIOUS
  <2> HIDE DEF T
  <2> QED  BY <1>2, <1>3, <2>1, Counting
<1>5. longest \in T /\ longest \in 0 .. longest
  BY <1>4
<1> QED  BY <1>1, <1>5

\* A walk that may go on as often as there is anything to go on from ends with
\* all there is to reach.
LEMMA WalkedIsClosed ==
    ASSUME NEW S, NEW onward, NEW D, IsFiniteSet(D), DOMAIN onward \subseteq D,
           NEW longest \in Nat, longest >= Cardinality(D)
    PROVE  \A x \in Walked(S, onward, longest) \intersect DOMAIN onward :
              onward[x] \subseteq Walked(S, onward, longest)
<1> DEFINE Closed(X) == \A x \in X \intersect DOMAIN onward : onward[x] \subseteq X
           Size(X) == Cardinality(X \intersect DOMAIN onward)
<1>1. Cardinality(D) \in Nat
  BY FS_CardinalityType
<1>2. \A X : IsFiniteSet(X \intersect DOMAIN onward) /\ Size(X) \in Nat /\ Size(X) <= Cardinality(D)
  <2> TAKE X
  <2>1. (X \intersect DOMAIN onward) \in SUBSET D
    OBVIOUS
  <2> QED  BY <2>1, FS_Subset, FS_CardinalityType
<1>3. PICK after : Steps(after, S, onward, longest) /\ Walked(S, onward, longest) = after[longest]
  BY <1>1, WalkHasSteps
<1> DEFINE T == {n \in Nat : n \in 0 .. longest => Closed(after[n]) \/ n < Size(after[n])}
<1>4. 0 \in T
  <2>1. CASE after[0] \intersect DOMAIN onward = {}
    BY <2>1
  <2>2. CASE after[0] \intersect DOMAIN onward # {}
    <3>1. Size(after[0]) # 0 /\ Size(after[0]) \in Nat
      BY <2>2, <1>2, FS_EmptySet
    <3> QED  BY <3>1
  <2> QED  BY <2>1, <2>2
<1>5. ASSUME NEW n \in T PROVE n + 1 \in T
  <2> SUFFICES ASSUME n + 1 \in 0 .. longest PROVE Closed(after[n + 1]) \/ n + 1 < Size(after[n + 1])
    OBVIOUS
  <2>1. n \in Nat /\ (n + 1) - 1 = n /\ n \in 0 .. longest /\ n + 1 \in 1 .. longest
    BY <1>1
  <2>2. PICK X, Y : X = after[n] /\ Y = after[n + 1] /\ Y = Onwards(X, onward)
    BY <1>3, <2>1 DEF Steps
  <2>3. X \subseteq Y
    BY <2>2 DEF Onwards
  <2>4. CASE Y \intersect DOMAIN onward = X \intersect DOMAIN onward
    <3>1. Closed(Y)
      BY <2>2, <2>4 DEF Onwards
    <3> QED  BY <3>1, <2>2
  <2>5. CASE Y \intersect DOMAIN onward # X \intersect DOMAIN onward
    <3>1. ~ Closed(X)
      BY <2>2, <2>5 DEF Onwards
    <3>2. n < Size(X)
      BY <2>1, <2>2, <3>1
    <3>3. Size(X) < Size(Y)
      <4>1. (X \intersect DOMAIN onward) \in SUBSET (Y \intersect DOMAIN onward)
        BY <2>3
      <4>2. Size(X) <= Size(Y) /\ (Size(X) = Size(Y) => X \intersect DOMAIN onward = Y \intersect DOMAIN onward)
        BY <4>1, <1>2, FS_Subset
      <4>3. Size(X) \in Nat /\ Size(Y) \in Nat
        BY <1>2
      <4> HIDE DEF Size
      <4> QED  BY <4>2, <4>3, <2>5
    <3>4. Size(X) \in Nat /\ Size(Y) \in Nat
      BY <1>2
    <3> HIDE DEF Size, Closed
    <3>5. n + 1 < Size(Y)
      BY <3>2, <3>3, <3>4, <2>1
    <3> QED  BY <3>5, <2>2
  <2> QED  BY <2>4, <2>5
<1>6. T = Nat
  <2>1. T \in SUBSET Nat
    OBVIOUS
  <2> HIDE DEF T
  <2> QED  BY <1>4, <1>5, <2>1, Counting
<1>7. Closed(after[longest]) \/ longest < Size(after[longest])
  <2>1. longest \in T /\ longest \in 0 .. longest
    BY <1>1, <1>6
  <2> HIDE DEF Closed, Size
  <2> QED  BY <2>1
<1>8. ~ (longest < Size(after[longest]))
  <2>1. Size(after[longest]) \in Nat /\ Size(after[longest]) <= Cardinality(D)
    BY <1>2
  <2> HIDE DEF Size
  <2> QED  BY <2>1, <1>1
<1> QED  BY <1>3, <1>7, <1>8

-----------------------------------------------------------------------------
(* A paint walk without haves                                              *)

LEMMA MaxIs ==
    ASSUME NEW k \in Nat, NEW S \in SUBSET (0 .. k), S # {}
    PROVE  Max(S) \in S /\ \A x \in S : x <= Max(S)
<1> DEFINE T == {k - x : x \in S}
<1>1. T \in SUBSET Nat /\ T # {}
  <2>1. \A x \in S : x \in Nat /\ x <= k /\ k - x \in Nat
    OBVIOUS
  <2>2. PICK x \in S : TRUE
    OBVIOUS
  <2>3. k - x \in T
    OBVIOUS
  <2> QED  BY <2>1, <2>3
<1>2. PICK n \in T : \A m \in T : n <= m
  BY <1>1, NatMin
<1>3. PICK x \in S : n = k - x
  OBVIOUS
<1>4. \A y \in S : x >= y
  <2> TAKE y \in S
  <2>1. k - y \in T
    OBVIOUS
  <2>2. n <= k - y
    BY <1>2, <2>1
  <2> QED  BY <1>3, <2>2
<1>5. Max(S) \in S /\ \A y \in S : Max(S) >= y
  BY <1>4 DEF Max
<1> QED  BY <1>5

LEMMA FloorIs ==
    ASSUME NEW ceil \in Nat, NEW width \in Nat \ {0}
    PROVE  Floor(ceil, width) \in Nat /\ Floor(ceil, width) <= ceil
BY DEF Floor

LEMMA GrowIs ==
    ASSUME NEW width \in Nat \ {0}
    PROVE  Grow(width) \in Nat \ {0}
<1>1. width * Growth \in Nat \ {0}
  BY WidthsAssumption
<1> QED  BY <1>1, WidthsAssumption DEF Grow

\* The entries of an index, whose parents have numbers up to k.
IndexUpTo(ix, k) ==
    /\ IsFiniteSet(DOMAIN ix) /\ DOMAIN ix \subseteq 0 .. k
    /\ \A c \in DOMAIN ix : Parents(ix, c) \subseteq 0 .. k

LEMMA NothingPainted ==
    ASSUME NEW ix, NEW k, IndexUpTo(ix, k), NEW floor
    PROVE  LET p == PaintColour(ix, {}, floor, {}, {}) IN p.painted = {} /\ p.covered
<1> DEFINE D == DOMAIN ix
           onward == [c \in {d \in DOMAIN ix : d >= floor /\ d \notin {}} |-> Parents(ix, c) \ {}]
<1>1. Cardinality(D) + 1 \in Nat
  BY FS_CardinalityType DEF IndexUpTo
<1>2. Walked({}, onward, Cardinality(D) + 1) = {}
  <2> HIDE DEF onward, D
  <2>1. \A x \in {} \intersect DOMAIN onward : onward[x] \subseteq {}
    OBVIOUS
  <2> QED  BY <1>1, <2>1, WalkedStays
<1> QED  BY <1>2 DEF PaintColour

\* What the colour of the wants is painted on: all there is to reach down to
\* the floor, and what is just below it.
LEMMA WantsPainted ==
    ASSUME NEW ix, NEW k \in Nat, IndexUpTo(ix, k), NEW seeds \in SUBSET (0 .. k), NEW floor \in Nat
    PROVE  LET p == PaintColour(ix, seeds, floor, {}, {})
           IN  /\ seeds \subseteq p.painted /\ p.painted \subseteq 0 .. k
               /\ p.covered \in BOOLEAN
               /\ p.covered => \A c \in p.painted : c >= floor =>
                                  c \in DOMAIN ix /\ Parents(ix, c) \subseteq p.painted
<1> DEFINE onward == [c \in {d \in DOMAIN ix : d >= floor /\ d \notin {}} |-> Parents(ix, c) \ {}]
           longest == Cardinality(DOMAIN ix) + 1
           painted == Walked(seeds, onward, longest)
<1>1. longest \in Nat
  BY FS_CardinalityType DEF IndexUpTo
<1>2. DOMAIN onward = {d \in DOMAIN ix : d >= floor} /\ \A c \in DOMAIN onward : onward[c] = Parents(ix, c)
  OBVIOUS
<1>3. PaintColour(ix, seeds, floor, {}, {}) =
        [painted |-> painted, covered |-> {c \in painted : c >= floor /\ c \notin {}} \subseteq DOMAIN ix]
  BY DEF PaintColour
<1> HIDE DEF onward
<1>4. seeds \subseteq painted /\ painted \subseteq 0 .. k
  <2>1. PICK Z : Z = 0 .. k
    OBVIOUS
  <2>2. seeds \subseteq Z /\ \A x \in Z \intersect DOMAIN onward : onward[x] \subseteq Z
    BY <1>2, <2>1 DEF IndexUpTo
  <2> HIDE DEF longest
  <2> QED  BY <1>1, <2>1, <2>2, WalkedStays
<1>5. \A x \in painted \intersect DOMAIN onward : onward[x] \subseteq painted
  <2>1. IsFiniteSet(DOMAIN ix) /\ DOMAIN onward \subseteq DOMAIN ix
    BY <1>2 DEF IndexUpTo
  <2>2. longest >= Cardinality(DOMAIN ix)
    BY <2>1, FS_CardinalityType
  <2> QED  BY <1>1, <2>1, <2>2, WalkedIsClosed
<1> HIDE DEF painted
<1>6. PICK covered \in BOOLEAN : covered = ({c \in painted : c >= floor /\ c \notin {}} \subseteq DOMAIN ix)
  OBVIOUS
<1>7. covered => \A c \in painted : c >= floor => c \in DOMAIN ix /\ Parents(ix, c) \subseteq painted
  <2> SUFFICES ASSUME covered, NEW c \in painted, c >= floor
               PROVE  c \in DOMAIN ix /\ Parents(ix, c) \subseteq painted
    OBVIOUS
  <2>1. c \in DOMAIN ix
    BY <1>6
  <2> QED  BY <2>1, <1>2, <1>5
<1>8. PICK p : p = PaintColour(ix, seeds, floor, {}, {}) /\ p = [painted |-> painted, covered |-> covered]
  BY <1>3, <1>6, Zenon
<1>9. p.painted = painted /\ p.covered = covered
  BY <1>8
<1> QED  BY <1>4, <1>7, <1>8, <1>9

PaintFields == {"wants", "haves", "wantBlock", "haveBlock", "width", "needed", "covered"}

\* A walk from no haves and without grafts: what it has finalized is recorded,
\* with its parents, or those are still to be walked.
Painting(ix, k, w) ==
    /\ IsOn(w, PaintFields)
    /\ w.haves = {} /\ w.wantBlock = {} /\ w.haveBlock = {}
    /\ w.width \in Nat \ {0} /\ w.wants \subseteq 0 .. k /\ w.needed \subseteq 0 .. k
    /\ w.covered \in BOOLEAN
    /\ w.covered => \A c \in w.needed : c \in DOMAIN ix /\ Parents(ix, c) \subseteq w.needed \union w.wants

LEMMA BandPaints ==
    ASSUME NEW ix, NEW k \in Nat, IndexUpTo(ix, k), NEW w, Painting(ix, k, w), ~ PaintOver(w)
    PROVE  /\ Painting(ix, k, PaintBand(ix, w))
           /\ \E m \in w.wants : \A c \in PaintBand(ix, w).wants : c < m
<1> DEFINE floor == Floor(Max(w.wants \union w.haves), w.width)
           In(S) == {c \in S : c >= floor}
           band == ExpandPaint(ix, In(w.wants), In(w.haves), floor, w.wantBlock, w.haveBlock)
           v == PaintBand(ix, w)
<1>1. v = [w EXCEPT !.wants = (w.wants \ In(w.wants)) \union band.wantsBelow,
                    !.haves = (w.haves \ In(w.haves)) \union band.havesBelow,
                    !.width = Grow(w.width),
                    !.needed = @ \union band.finalized,
                    !.covered = band.covered]
  BY DEF PaintBand
<1>2. w.haves = {} /\ w.wants # {} /\ w.wants \union w.haves = w.wants /\ w.covered
  BY DEF PaintOver, Painting
<1>3. PICK m : m = Max(w.wants)
  OBVIOUS
<1>4. m \in w.wants /\ (\A x \in w.wants : x <= m) /\ m \in Nat
  <2>1. w.wants \in SUBSET (0 .. k)
    BY DEF Painting
  <2>2. PICK W \in SUBSET (0 .. k) : W = w.wants
    BY <2>1
  <2>3. Max(W) \in W /\ \A x \in W : x <= Max(W)
    BY <2>2, <1>2, MaxIs
  <2> QED  BY <2>2, <2>3, <1>3
<1>5. floor \in Nat /\ floor <= m
  <2>1. floor = Floor(m, w.width) /\ w.width \in Nat \ {0}
    BY <1>2, <1>3 DEF Painting
  <2> HIDE DEF floor
  <2> QED  BY <2>1, <1>4, FloorIs
<1> HIDE DEF floor
<1> DEFINE want == PaintColour(ix, In(w.wants), floor, {}, {})
           have == PaintColour(ix, {}, floor, {}, {})
<1>6. /\ band.finalized = {c \in want.painted \ have.painted : c >= floor}
      /\ band.wantsBelow = {c \in want.painted : c < floor}
      /\ band.havesBelow = {c \in have.painted : c < floor}
      /\ band.covered = (want.covered /\ have.covered)
  <2>1. In(w.haves) = {} /\ w.wantBlock = {} /\ w.haveBlock = {} /\ In(w.wants) \ {} = In(w.wants)
    BY <1>2 DEF Painting
  <2>2. band = ExpandPaint(ix, In(w.wants), {}, floor, {}, {})
    BY <2>1
  <2> HIDE DEF band, In
  <2> QED  BY <2>1, <2>2 DEF ExpandPaint
<1>7. have.painted = {} /\ have.covered = TRUE
  BY NothingPainted
<1>8. /\ In(w.wants) \subseteq want.painted /\ want.painted \subseteq 0 .. k
      /\ want.covered \in BOOLEAN
      /\ want.covered => \A c \in want.painted : c >= floor =>
                            c \in DOMAIN ix /\ Parents(ix, c) \subseteq want.painted
  <2>1. In(w.wants) \in SUBSET (0 .. k)
    BY DEF Painting
  <2> HIDE DEF In
  <2> QED  BY <2>1, <1>5, WantsPainted
<1> HIDE DEF want, have, band
<1>9. /\ v.wants = (w.wants \ In(w.wants)) \union {c \in want.painted : c < floor}
      /\ v.haves = {} /\ v.wantBlock = {} /\ v.haveBlock = {}
      /\ v.width = Grow(w.width)
      /\ v.needed = w.needed \union {c \in want.painted : c >= floor}
      /\ v.covered = want.covered /\ IsOn(v, PaintFields)
  <2>1. IsOn(w, PaintFields) /\ w.wantBlock = {} /\ w.haveBlock = {}
    BY DEF Painting
  <2>2. band.havesBelow = {} /\ band.covered = want.covered
        /\ band.finalized = {c \in want.painted : c >= floor}
        /\ (w.haves \ In(w.haves)) \union band.havesBelow = {}
    BY <1>2, <1>6, <1>7, <1>8
  <2> HIDE DEF In, v
  <2> QED  BY <1>1, <1>6, <2>1, <2>2 DEF IsOn, PaintFields
<1> HIDE DEF v
<1>10. ASSUME NEW c \in v.wants PROVE c \in 0 .. k /\ c < floor
  <2>1. w.wants \subseteq 0 .. k
    BY DEF Painting
  <2> QED  BY <2>1, <1>5, <1>8, <1>9
<1>11. v.width \in Nat \ {0}
  BY <1>9, GrowIs DEF Painting
<1>12. ASSUME v.covered, NEW c \in v.needed
       PROVE  c \in DOMAIN ix /\ Parents(ix, c) \subseteq v.needed \union v.wants
  <2>0. w.wants \subseteq 0 .. k
    BY DEF Painting
  <2>1. want.painted \subseteq v.needed \union v.wants
    BY <1>5, <1>8, <1>9
  <2>2. w.wants \subseteq v.needed \union v.wants
    BY <2>0, <1>5, <1>8, <1>9
  <2>3. CASE c \in w.needed
    <3>1. c \in DOMAIN ix /\ Parents(ix, c) \subseteq w.needed \union w.wants
      BY <2>3, <1>2 DEF Painting
    <3> QED  BY <3>1, <2>2, <1>9
  <2>4. CASE c \in want.painted /\ c >= floor
    BY <2>4, <2>1, <1>8, <1>9, <1>12
  <2> QED  BY <2>3, <2>4, <1>9
<1>13. Painting(ix, k, v)
  <2>1. w.needed \subseteq 0 .. k
    BY DEF Painting
  <2>2. v.needed \subseteq 0 .. k
    BY <2>1, <1>8, <1>9
  <2> QED  BY <2>2, <1>8, <1>9, <1>10, <1>11, <1>12 DEF Painting
<1>14. \A c \in v.wants : c < m
  BY <1>4, <1>5, <1>10
<1> QED  BY <1>4, <1>13, <1>14 DEF v

\* The next state of a walk in its loop.
Turn(ix, w) == IF PaintOver(w) THEN w ELSE PaintBand(ix, w)

\* at[n] is a walk from w0 after n turns of its loop.
Turns(at, ix, w0, rounds) ==
    /\ at[0] = w0
    /\ \A n \in 1 .. rounds : at[n] = Turn(ix, at[n - 1])

LEMMA TurnPaints ==
    ASSUME NEW ix, NEW k \in Nat, IndexUpTo(ix, k), NEW w, Painting(ix, k, w)
    PROVE  Painting(ix, k, Turn(ix, w))
BY BandPaints DEF Turn

LEMMA PaintingIsOne ==
    ASSUME NEW ix, NEW k \in Nat, NEW w, Painting(ix, k, w)
    PROVE  w \in [PaintFields -> (SUBSET (0 .. k)) \union Nat \union BOOLEAN]
<1> DEFINE U == (SUBSET (0 .. k)) \union Nat \union BOOLEAN
<1>1. {} \in U
  OBVIOUS
<1>2. w.wants \in U /\ w.needed \in U /\ w.width \in U /\ w.covered \in U
  BY DEF Painting
<1>3. w.haves \in U /\ w.wantBlock \in U /\ w.haveBlock \in U
  BY <1>1 DEF Painting
<1> HIDE DEF U
<1>4. \A x \in PaintFields : w[x] \in U
  BY <1>2, <1>3 DEF PaintFields
<1>5. IsOn(w, PaintFields)
  BY DEF Painting
<1>6. w \in [PaintFields -> U]
  BY <1>4, <1>5 DEF IsOn
<1> QED  BY <1>6 DEF U

LEMMA PaintedDownTurns ==
    ASSUME NEW ix, NEW k \in Nat, IndexUpTo(ix, k), NEW w0, Painting(ix, k, w0),
           NEW rounds \in Nat, rounds = Max({0} \union w0.wants \union w0.haves) + 1
    PROVE  \E at : Turns(at, ix, w0, rounds) /\ PaintedDown(ix, w0) = at[rounds]
<1> DEFINE V == {w \in [PaintFields -> (SUBSET (0 .. k)) \union Nat \union BOOLEAN] : Painting(ix, k, w)}
           F == [x \in V \X Nat |-> Turn(ix, x[1])]
           Rec(f) == [n \in 0 .. rounds |-> IF n = 0 THEN w0
                        ELSE LET w == f[n - 1] IN IF PaintOver(w) THEN w ELSE PaintBand(ix, w)]
           h == CHOOSE f : f = Rec(f)
<1>1. w0 \in V /\ \A w \in V : Turn(ix, w) \in V
  BY PaintingIsOne, TurnPaints
<1> HIDE DEF V
<1>2. F \in [V \X Nat -> V]
  <2>1. ASSUME NEW x \in V \X Nat PROVE Turn(ix, x[1]) \in V
    BY <1>1
  <2> QED  BY <2>1
<1>3. PICK f \in [0 .. rounds -> V] : Recurses(f, rounds, w0, F)
  <2> HIDE DEF F
  <2> QED  BY <1>1, <1>2, Recursion
<1>4. ASSUME NEW n \in 1 .. rounds PROVE f[n] = Turn(ix, f[n - 1])
  <2>1. n \in 0 .. rounds /\ n # 0 /\ n - 1 \in 0 .. rounds /\ n \in Nat
    OBVIOUS
  <2>2. f[n - 1] \in V
    BY <2>1, <1>3
  <2>3. f[n] = F[<<f[n - 1], n>>]
    <3> HIDE DEF F
    <3> QED  BY <1>3, <2>1 DEF Recurses
  <2>4. <<f[n - 1], n>> \in V \X Nat /\ <<f[n - 1], n>>[1] = f[n - 1]
    BY <2>1, <2>2
  <2> QED  BY <2>3, <2>4
<1>5. f[0] = w0
  <2>1. 0 \in 0 .. rounds
    OBVIOUS
  <2> HIDE DEF F
  <2> QED  BY <2>1, <1>3 DEF Recurses
<1>6. Turns(f, ix, w0, rounds)
  BY <1>4, <1>5 DEF Turns
<1> HIDE DEF F
<1>7. f = Rec(f)
  <2>1. ASSUME NEW n \in 0 .. rounds PROVE f[n] = Rec(f)[n]
    <3>1. CASE n = 0
      BY <3>1, <1>5
    <3>2. CASE n # 0
      <4>1. n \in 1 .. rounds
        BY <3>2
      <4>2. f[n] = Turn(ix, f[n - 1])
        BY <4>1, <1>4
      <4>3. Rec(f)[n] = Turn(ix, f[n - 1])
        BY <3>2 DEF Turn
      <4> QED  BY <4>2, <4>3
    <3> QED  BY <3>1, <3>2
  <2>2. f = [n \in 0 .. rounds |-> f[n]]
    BY <1>3
  <2>3. Rec(f) = [n \in 0 .. rounds |-> Rec(f)[n]]
    OBVIOUS
  <2> HIDE DEF Rec
  <2> QED  BY <2>1, <2>2, <2>3
<1>8. h = Rec(h)
  <2> HIDE DEF Rec
  <2> QED  BY <1>7
<1>9. PaintedDown(ix, w0) = h[rounds]
  BY DEF PaintedDown
<1> HIDE DEF h
<1> DEFINE T == {n \in Nat : n \in 0 .. rounds => h[n] = f[n]}
<1>10. 0 \in T
  BY <1>5, <1>8
<1>11. ASSUME NEW n \in T PROVE n + 1 \in T
  <2> SUFFICES ASSUME n + 1 \in 0 .. rounds PROVE h[n + 1] = f[n + 1]
    OBVIOUS
  <2>1. n \in Nat /\ (n + 1) - 1 = n /\ n + 1 # 0 /\ n \in 0 .. rounds /\ n + 1 \in 1 .. rounds
    OBVIOUS
  <2>2. h[n + 1] = Turn(ix, h[n])
    BY <1>8, <2>1 DEF Turn
  <2>3. f[n + 1] = Turn(ix, f[n])
    BY <1>4, <2>1
  <2> QED  BY <2>1, <2>2, <2>3
<1>12. T = Nat
  <2>1. T \in SUBSET Nat
    OBVIOUS
  <2> HIDE DEF T
  <2> QED  BY <1>10, <1>11, <2>1, Counting
<1>13. h[rounds] = f[rounds]
  <2>1. rounds \in T
    BY <1>12
  <2>2. rounds \in 0 .. rounds
    OBVIOUS
  <2> QED  BY <2>1, <2>2
<1> QED  BY <1>6, <1>9, <1>13

\* A walk that is run to its end and covered has finalized, with each commit,
\* every parent: no band is left, because each is below the one before.
LEMMA PaintedDownIsClosed ==
    ASSUME NEW ix, NEW k \in Nat, IndexUpTo(ix, k), NEW w0, Painting(ix, k, w0),
           PaintedDown(ix, w0).covered
    PROVE  \A c \in PaintedDown(ix, w0).needed :
              c \in DOMAIN ix /\ Parents(ix, c) \subseteq PaintedDown(ix, w0).needed
<1>1. PICK m : m = Max({0} \union w0.wants \union w0.haves)
  OBVIOUS
<1>2. m \in Nat /\ \A c \in w0.wants : c <= m
  <2>1. {0} \union w0.wants \union w0.haves \in SUBSET (0 .. k)
    BY DEF Painting
  <2>2. PICK W \in SUBSET (0 .. k) : W = {0} \union w0.wants \union w0.haves
    BY <2>1
  <2>3. W # {} /\ w0.wants \subseteq W
    BY <2>2
  <2>4. Max(W) \in W /\ \A x \in W : x <= Max(W)
    BY <2>3, MaxIs
  <2> QED  BY <2>2, <2>3, <2>4, <1>1
<1>3. PICK rounds \in Nat : rounds = m + 1
  BY <1>2
<1>4. PICK at : Turns(at, ix, w0, rounds) /\ PaintedDown(ix, w0) = at[rounds]
  BY <1>1, <1>3, PaintedDownTurns
<1> DEFINE Sunk(n, w) == w.covered => \A c \in w.wants : c + n <= m
           T == {n \in Nat : n \in 0 .. rounds => Painting(ix, k, at[n]) /\ Sunk(n, at[n])}
<1>5. 0 \in T
  <2>1. \A c \in w0.wants : c + 0 <= m
    BY <1>2 DEF Painting
  <2> QED  BY <2>1, <1>4 DEF Turns
<1>6. ASSUME NEW n \in T PROVE n + 1 \in T
  <2> SUFFICES ASSUME n + 1 \in 0 .. rounds PROVE Painting(ix, k, at[n + 1]) /\ Sunk(n + 1, at[n + 1])
    OBVIOUS
  <2>1. n \in Nat /\ (n + 1) - 1 = n /\ n \in 0 .. rounds /\ n + 1 \in 1 .. rounds
    OBVIOUS
  <2>2. PICK w, v : w = at[n] /\ v = at[n + 1] /\ v = Turn(ix, w)
    BY <1>4, <2>1 DEF Turns
  <2>3. Painting(ix, k, w) /\ Sunk(n, w)
    BY <2>1, <2>2
  <2>4. Painting(ix, k, v)
    BY <2>2, <2>3, TurnPaints
  <2>5. Sunk(n + 1, v)
    <3>1. CASE PaintOver(w)
      <4>1. v = w
        BY <2>2, <3>1 DEF Turn
      <4>2. ~ w.covered \/ w.wants = {}
        BY <2>3, <3>1 DEF PaintOver, Painting
      <4> QED  BY <4>1, <4>2
    <3>2. CASE ~ PaintOver(w)
      <4>1. v = PaintBand(ix, w) /\ w.covered
        BY <2>2, <3>2 DEF Turn, PaintOver
      <4>2. PICK d \in w.wants : \A c \in v.wants : c < d
        BY <4>1, <2>3, <3>2, BandPaints
      <4>3. d + n <= m
        BY <4>1, <2>3
      <4>4. d \in Nat /\ \A c \in v.wants : c \in Nat
        BY <2>3, <2>4 DEF Painting
      <4> QED  BY <4>2, <4>3, <4>4, <2>1, <1>2
    <3> QED  BY <3>1, <3>2
  <2> QED  BY <2>2, <2>4, <2>5
<1>7. T = Nat
  <2>1. T \in SUBSET Nat
    OBVIOUS
  <2> HIDE DEF T
  <2> QED  BY <1>5, <1>6, <2>1, Counting
<1>8. PICK w : w = at[rounds]
  OBVIOUS
<1>9. Painting(ix, k, w) /\ Sunk(rounds, w)
  <2>1. rounds \in T /\ rounds \in 0 .. rounds
    BY <1>7
  <2> QED  BY <2>1, <1>8
<1>10. w.covered
  BY <1>4, <1>8
<1>11. w.wants = {}
  <2>1. \A c \in w.wants : c \in Nat /\ c + rounds <= m
    BY <1>9, <1>10 DEF Painting
  <2> QED  BY <2>1, <1>2, <1>3
<1> QED  BY <1>4, <1>8, <1>9, <1>10, <1>11 DEF Painting

-----------------------------------------------------------------------------
(* The deltas that go out as they are stored                               *)

\* With every commit of S its parents, and they are of the history.
WithParents(S) == \A c \in S : c \in History /\ Range(repo.parents[c]) \subseteq S

FetchInv ==
    /\ repo \in Histories /\ recorded \subseteq History
    /\ "phase" \in DOMAIN req
    /\ req.phase = "streaming" /\ plan.deltas => WithParents(plan.needed)

LEMMA HistoryIs ==
    ASSUME repo \in Histories
    PROVE  \E k \in Nat : /\ History = 1 .. k /\ IsFiniteSet(History) /\ Cardinality(History) = k
                          /\ \A c \in History : Range(repo.parents[c]) \subseteq 0 .. k
<1>1. PICK k \in Nat : /\ History = 1 .. k
                       /\ \A c \in 1 .. k : Range(repo.parents[c]) \subseteq 1 .. c - 1
  <2>1. PICK k : k = Len(repo.parents)
    OBVIOUS
  <2>2. /\ k \in Nat /\ DOMAIN repo.parents = 1 .. k
        /\ \A c \in 1 .. k : Range(repo.parents[c]) \subseteq 1 .. c - 1
    BY <2>1, HistoriesAssumption
  <2> QED  BY <2>2 DEF History
<1>2. IsFiniteSet(1 .. k) /\ Cardinality(1 .. k) = k
  BY FS_Interval
<1>3. \A c \in 1 .. k : 1 .. c - 1 \subseteq 0 .. k
  OBVIOUS
<1> QED  BY <1>1, <1>2, <1>3

\* All ancestors of a commit go with it.
LEMMA AncestorsGoToo ==
    ASSUME repo \in Histories, NEW S, WithParents(S), NEW c \in S
    PROVE  Ancestors({c}) \subseteq S
<1> DEFINE onward == [d \in DOMAIN repo.parents |-> Range(repo.parents[d])]
           longest == Cardinality(DOMAIN repo.parents)
<1>1. longest \in Nat
  BY HistoryIs DEF History
<1>2. {c} \subseteq S /\ \A x \in S \intersect DOMAIN onward : onward[x] \subseteq S
  BY DEF WithParents
<1>3. Walked({c}, onward, longest) \subseteq S
  <2> HIDE DEF onward, longest
  <2> QED  BY <1>1, <1>2, WalkedStays
<1> QED  BY <1>3 DEF Ancestors, AncestorsIn

\* What goes out with a closed set of commits: the base of a tree with the
\* images of the ancestors, and that of a blob too, because a filter that
\* leaves it out leaves out the blob itself.
LEMMA BasesGoToo ==
    ASSUME repo \in Histories, NEW p, WithParents(p.needed)
    PROVE  PassedBases(p) \subseteq Entries(p)
<1> SUFFICES ASSUME NEW b \in PassedBases(p) PROVE b \in Entries(p)
  OBVIOUS
<1>0. PICK c \in p.needed : \E o \in ImageEntries(c, p) \ {Commit(c)} : b \in BasesIn(c, o)
  <2>1. p.deltas
    BY DEF PassedBases
  <2> QED  BY <2>1 DEF PassedBases
<1>1. PICK o \in ImageEntries(c, p) \ {Commit(c)} : b \in BasesIn(c, o)
  BY <1>0
<1>2. b[1] = o[1] /\ b \in Trees(Ancestors({c})) \union Blobs(Ancestors({c}))
  BY <1>1 DEF BasesIn
<1>3. Ancestors({c}) \subseteq p.needed
  BY AncestorsGoToo
<1>4. \A a \in p.needed : ImageEntries(a, p) \subseteq Entries(p)
  BY DEF Entries
<1>5. CASE b \in Trees(Ancestors({c}))
  <2>1. PICK a \in Ancestors({c}) : b \in PackTrees(a)
    BY <1>5 DEF Trees
  <2> QED  BY <2>1, <1>3, <1>4 DEF ImageEntries
<1>6. CASE b \in Blobs(Ancestors({c}))
  <2>1. PICK a \in Ancestors({c}) : b \in PackBlobs(a)
    BY <1>6 DEF Blobs
  <2>2. o[1] = "blob"
    BY <2>1, <1>2 DEF PackBlobs, Blob
  <2>3. o \notin PackTrees(c)
    BY <2>2 DEF PackTrees, Tree
  <2>4. o \in Kept(PackBlobs(c), p)
    BY <1>1, <2>3 DEF ImageEntries
  <2>5. "blob:none" \notin p.filters
    BY <2>2, <2>4 DEF Kept, OfKind
  <2>6. b \in Kept(PackBlobs(a), p)
    BY <2>1, <2>5 DEF Kept
  <2> QED  BY <2>1, <2>6, <1>3, <1>4 DEF ImageEntries
<1> QED  BY <1>2, <1>5, <1>6

LEMMA IndexIsUpTo ==
    ASSUME repo \in Histories, recorded \subseteq History
    PROVE  \E k \in Nat : /\ recorded \subseteq 0 .. k /\ IndexUpTo(Index, k)
                          /\ DOMAIN Index = recorded
                          /\ \A c \in recorded : Parents(Index, c) = Range(repo.parents[c])
<1>1. PICK k \in Nat : /\ History = 1 .. k /\ IsFiniteSet(History)
                       /\ \A c \in History : Range(repo.parents[c]) \subseteq 0 .. k
  BY HistoryIs
<1>2. IsFiniteSet(recorded)
  BY <1>1, FS_Subset
<1>3. DOMAIN Index = recorded /\ \A c \in recorded : Index[c] = repo.parents[c]
  BY DEF Index
<1>4. recorded \subseteq 0 .. k
  BY <1>1
<1>5. \A c \in recorded : Parents(Index, c) = Range(repo.parents[c])
  BY <1>3 DEF Parents
<1>6. IndexUpTo(Index, k)
  BY <1>1, <1>2, <1>3, <1>4, <1>5 DEF IndexUpTo
<1> QED  BY <1>3, <1>4, <1>5, <1>6

LEMMA FetchWalkStarts ==
    ASSUME NEW ix, NEW k \in Nat, NEW wants \in SUBSET (0 .. k)
    PROVE  Painting(ix, k, PaintWalk(wants, {}, {}, {}))
<1>1. FirstWidth \in Nat \ {0}
  BY WidthsAssumption DEF FirstWidth
<1>2. PICK w : w = PaintWalk(wants, {}, {}, {})
  OBVIOUS
<1>3. /\ IsOn(w, PaintFields) /\ w.wants = wants /\ w.haves = {} /\ w.wantBlock = {}
      /\ w.haveBlock = {} /\ w.width = FirstWidth /\ w.needed = {} /\ w.covered = TRUE
  BY <1>2 DEF PaintWalk, IsOn, PaintFields
<1> QED  BY <1>1, <1>2, <1>3 DEF Painting

\* The commits of a plan whose deltas pass are closed under parents.
LEMMA PlannedWithParents ==
    ASSUME repo \in Histories, recorded \subseteq History, NEW r,
           PlanFetch(r).ok, PlanFetch(r).deltas
    PROVE  WithParents(PlanFetch(r).needed)
<1> DEFINE wants == Seqs(Peeled(r.wants))
           walked == Needed(wants, r)
           p == PlanFetch(r)
<1>1. Resolves(r.wants)
  BY DEF PlanFetch
<1>2. p.ok = walked.covered /\ p.needed = walked.needed /\ p.deltas = MayPassDeltas(r)
  BY <1>1 DEF PlanFetch
<1>3. r.haves = {} /\ r.shallow = {} /\ r.deepen = {}
  BY <1>2 DEF MayPassDeltas
<1>4. wants \subseteq recorded
  <2> SUFFICES ASSUME NEW o \in Peeled(r.wants), o[1] = "commit" PROVE o[2] \in recorded
    BY DEF Seqs, OfKind
  <2>1. Stored(o)
    BY <1>1 DEF Resolves
  <2> QED  BY <2>1 DEF Stored
<1> HIDE DEF wants
<1>5. CASE wants = {}
  <2>1. walked.needed = {}
    BY <1>5 DEF Needed
  <2> QED  BY <1>2, <2>1 DEF WithParents
<1>6. CASE wants # {}
  <2>1. PICK k \in Nat : /\ recorded \subseteq 0 .. k /\ IndexUpTo(Index, k)
                         /\ DOMAIN Index = recorded
                         /\ \A c \in recorded : Parents(Index, c) = Range(repo.parents[c])
    BY IndexIsUpTo
  <2>2. PICK w0 : w0 = PaintWalk(wants, {}, {}, {})
    OBVIOUS
  <2>3. walked.needed = PaintedDown(Index, w0).needed /\ walked.covered = PaintedDown(Index, w0).covered
    BY <1>3, <1>6, <2>2 DEF Needed, NeededCommits
  <2>4. Painting(Index, k, w0)
    <3>1. wants \in SUBSET (0 .. k)
      BY <1>4, <2>1
    <3> QED  BY <2>2, <3>1, FetchWalkStarts
  <2>5. \A c \in PaintedDown(Index, w0).needed :
           c \in DOMAIN Index /\ Parents(Index, c) \subseteq PaintedDown(Index, w0).needed
    BY <1>2, <2>1, <2>3, <2>4, PaintedDownIsClosed
  <2> QED  BY <1>2, <2>1, <2>3, <2>5 DEF WithParents
<1> QED  BY <1>5, <1>6

LEMMA FetchStarts == Init => FetchInv
<1> SUFFICES ASSUME Init PROVE FetchInv
  OBVIOUS
<1>1. repo \in Histories /\ req = NoRequest
  BY DEF Init
<1>2. recorded \subseteq History
  <2>1. PICK k \in Nat : History = 1 .. k /\ Cardinality(History) = k
    BY <1>1, HistoryIs
  <2>2. PICK m \in 1 .. Cardinality(History) : recorded = 1 .. m
    BY DEF Init
  <2> QED  BY <2>1, <2>2
<1>3. req.phase = "none" /\ "phase" \in DOMAIN req
  BY <1>1 DEF NoRequest
<1> QED  BY <1>1, <1>2, <1>3 DEF FetchInv

LEMMA FetchStepKeeps ==
    ASSUME FetchInv, [Next]_vars
    PROVE  FetchInv'
<1>1. repo' = repo /\ History' = History
  BY DEF Next, Ask, Refuse, Negotiate, Plan, Stream, StreamFails, Record, vars, History
<1>2. recorded' \subseteq History
  BY DEF FetchInv, Next, Ask, Refuse, Negotiate, Plan, Stream, StreamFails, Record, vars
<1>3. ASSUME req' = req, plan' = plan PROVE FetchInv'
  BY <1>1, <1>2, <1>3 DEF FetchInv, WithParents
<1>4. ASSUME "phase" \in DOMAIN req', req'.phase # "streaming" PROVE FetchInv'
  BY <1>1, <1>2, <1>4 DEF FetchInv
<1>5. CASE Ask
  <2>1. req'.phase = "asked" /\ "phase" \in DOMAIN req'
    BY <1>5 DEF Ask
  <2> QED  BY <1>4, <2>1
<1>6. CASE req' = NoRequest
  BY <1>4, <1>6 DEF NoRequest
<1>7. CASE Negotiate
  <2>1. req'.phase = req.phase /\ req.phase = "asked" /\ "phase" \in DOMAIN req'
    BY <1>7 DEF Negotiate, FetchInv
  <2> QED  BY <1>4, <2>1
<1>8. CASE Plan
  <2>1. PICK p : p = PlanFetch(req) /\ IF p.ok THEN plan' = p /\ req' = [req EXCEPT !.phase = "streaming"]
                                       ELSE plan' = NoPlan /\ req' = NoRequest
    BY <1>8 DEF Plan
  <2>2. CASE ~ p.ok
    BY <1>6, <2>1, <2>2
  <2>3. CASE p.ok
    <3>1. plan' = p /\ "phase" \in DOMAIN req'
      BY <2>1, <2>3 DEF FetchInv
    <3>2. p.deltas => WithParents(p.needed)
      BY <2>1, <2>3, PlannedWithParents DEF FetchInv
    <3> QED  BY <1>1, <1>2, <3>1, <3>2 DEF FetchInv, WithParents
  <2> QED  BY <2>2, <2>3
<1> QED  BY <1>3, <1>5, <1>6, <1>7, <1>8 DEF Next, Refuse, Stream, StreamFails, Record, vars

\* A delta is only sent as it is stored when its base is sent too: MayPassDeltas
\* lets them through only for a clone without boundary or depth, whose walk,
\* band by band, ends with a set of commits closed under parents.
THEOREM BasesAreSent == Spec => []PassedBasesAreSent
<1>1. FetchInv => PassedBasesAreSent
  <2> SUFFICES ASSUME FetchInv, req.phase = "streaming" PROVE PassedBases(plan) \subseteq Entries(plan)
    BY DEF PassedBasesAreSent
  <2>1. CASE plan.deltas
    BY <2>1, BasesGoToo DEF FetchInv
  <2>2. CASE ~ plan.deltas
    BY <2>2 DEF PassedBases
  <2> QED  BY <2>1, <2>2
<1> QED  BY <1>1, FetchStarts, FetchStepKeeps, PTL DEF Spec

-----------------------------------------------------------------------------
(* The reference: what the whole history reaches                           *)

\* With each commit that is not a graft, Z has its parents.
Closes(Z, grafts) == \A c \in Z \intersect (Commits \ grafts) : Range(parents[c]) \subseteq Z

LEMMA ParentsAreOlder ==
    ASSUME parents \in AllGraphs
    PROVE  \A c \in Commits : Range(parents[c]) \subseteq 1 .. c - 1
<1> SUFFICES ASSUME NEW c \in Commits, NEW i \in DOMAIN parents[c] PROVE parents[c][i] \in 1 .. c - 1
  BY DEF Range
<1>1. parents[c] \in ParentLists(c)
  BY DEF AllGraphs
<1>2. PICK k : parents[c] \in [1 .. k -> 1 .. (c - 1)]
  BY <1>1 DEF ParentLists
<1> QED  BY <1>2

LEMMA CommitsAreFinite == IsFiniteSet(Commits) /\ Cardinality(Commits) = N /\ Commits \subseteq Nat
<1>1. N \in Nat /\ Commits = 1 .. N
  BY AncestryAssumption DEF Commits
<1>2. IsFiniteSet(1 .. N) /\ Cardinality(1 .. N) = N
  BY <1>1, FS_Interval
<1> QED  BY <1>1, <1>2

\* What is reached is closed, and the least that is.
LEMMA ReachIs ==
    ASSUME parents \in AllGraphs, NEW S \in SUBSET Commits, NEW grafts
    PROVE  /\ S \subseteq GraftedReach(S, grafts) /\ GraftedReach(S, grafts) \subseteq Commits
           /\ Closes(GraftedReach(S, grafts), grafts)
           /\ \A Z : S \subseteq Z /\ Closes(Z, grafts) => GraftedReach(S, grafts) \subseteq Z
<1> DEFINE onward == [d \in Commits \ grafts |-> Range(parents[d])]
<1>1. DOMAIN onward = Commits \ grafts /\ \A d \in DOMAIN onward : onward[d] = Range(parents[d])
  OBVIOUS
<1>2. GraftedReach(S, grafts) = Walked(S, onward, N)
  BY DEF GraftedReach
<1> HIDE DEF onward
<1>3. N \in Nat /\ IsFiniteSet(Commits) /\ N >= Cardinality(Commits) /\ DOMAIN onward \subseteq Commits
  BY CommitsAreFinite, AncestryAssumption, <1>1
<1>4. \A x \in Walked(S, onward, N) \intersect DOMAIN onward : onward[x] \subseteq Walked(S, onward, N)
  BY <1>3, WalkedIsClosed
<1>5. ASSUME NEW Z, S \subseteq Z, Closes(Z, grafts)
      PROVE  S \subseteq Walked(S, onward, N) /\ Walked(S, onward, N) \subseteq Z
  <2>1. \A x \in Z \intersect DOMAIN onward : onward[x] \subseteq Z
    BY <1>1, <1>5 DEF Closes
  <2> QED  BY <1>3, <1>5, <2>1, WalkedStays
<1>6. Closes(Commits, grafts)
  <2>1. \A c \in Commits : 1 .. c - 1 \subseteq Commits
    BY AncestryAssumption DEF Commits
  <2> QED  BY <2>1, ParentsAreOlder DEF Closes
<1>7. S \subseteq Walked(S, onward, N) /\ Walked(S, onward, N) \subseteq Commits
  BY <1>5, <1>6
<1>8. Closes(Walked(S, onward, N), grafts)
  BY <1>1, <1>4 DEF Closes
<1> QED  BY <1>2, <1>5, <1>7, <1>8

LEMMA ReachOfOne == ASSUME NEW c PROVE Reach(c) = GraftedReach({c}, {})
<1>1. Commits \ {} = Commits
  OBVIOUS
<1> QED  BY <1>1 DEF Reach, GraftedReach

\* Everything reached from below a number is below it.
LEMMA ReachIsBelow ==
    ASSUME parents \in AllGraphs, NEW S \in SUBSET Commits, NEW grafts, NEW n \in Nat,
           \A c \in S : c < n
    PROVE  \A c \in GraftedReach(S, grafts) : c < n
<1> DEFINE Z == {c \in Commits : c < n}
<1>1. S \subseteq Z
  OBVIOUS
<1>2. Closes(Z, grafts)
  <2> SUFFICES ASSUME NEW c \in Z, NEW p \in Range(parents[c]) PROVE p \in Z
    BY DEF Closes
  <2>1. c \in Commits /\ c \in 1 .. N /\ c < n /\ p \in 1 .. c - 1 /\ N \in Nat
    BY ParentsAreOlder, AncestryAssumption DEF Commits
  <2>2. p \in 1 .. N /\ p < n
    BY <2>1
  <2> QED  BY <2>2 DEF Commits
<1> HIDE DEF Z
<1>3. GraftedReach(S, grafts) \subseteq Z
  BY <1>1, <1>2, ReachIs
<1> QED  BY <1>3 DEF Z

\* The commits that have an entry are the first ones, and so closed.
GraphIsWhole == parents \in AllGraphs /\ \E m \in 0 .. N : graphed = 1 .. m

LEMMA GraphedCloses ==
    ASSUME GraphIsWhole
    PROVE  graphed \subseteq Commits /\ IsFiniteSet(graphed) /\ \A grafts : Closes(graphed, grafts)
<1>1. PICK m \in 0 .. N : graphed = 1 .. m
  BY DEF GraphIsWhole
<1>2. graphed \subseteq Commits
  BY <1>1, AncestryAssumption DEF Commits
<1>3. IsFiniteSet(graphed)
  BY <1>2, CommitsAreFinite, FS_Subset
<1>4. ASSUME NEW grafts PROVE Closes(graphed, grafts)
  <2> SUFFICES ASSUME NEW c \in graphed, NEW p \in Range(parents[c]) PROVE p \in graphed
    BY DEF Closes
  <2>1. c \in 1 .. m /\ p \in 1 .. c - 1
    BY <1>1, <1>2, ParentsAreOlder DEF GraphIsWhole
  <2> QED  BY <1>1, <2>1, AncestryAssumption
<1> QED  BY <1>2, <1>3, <1>4

-----------------------------------------------------------------------------
(* One band                                                                *)

\* What a walk within a band comes to: closed down to its floor, or the walk
\* has come to a commit without an entry.
BandOf(reach, seeds, floor, block, kept) ==
    /\ seeds \subseteq reach /\ reach \subseteq Commits
    /\ \A c \in reach : c >= floor /\ c \notin block /\ c \in graphed => Range(parents[c]) \ kept \subseteq reach
    /\ \A Z : Closes(Z, block) /\ seeds \subseteq Z => reach \subseteq Z

LEMMA BandIs ==
    ASSUME GraphIsWhole, NEW seeds \in SUBSET Commits, NEW floor \in Nat, NEW block, NEW kept,
           NEW onward, DOMAIN onward = {d \in graphed : d >= floor /\ d \notin block},
           \A d \in DOMAIN onward : onward[d] = Range(parents[d]) \ kept
    PROVE  BandOf(Walked(seeds, onward, Cardinality(graphed) + 1), seeds, floor, block, kept)
<1>1. PICK longest : longest = Cardinality(graphed) + 1
  OBVIOUS
<1>2. longest \in Nat /\ longest >= Cardinality(graphed) /\ IsFiniteSet(graphed) /\ DOMAIN onward \subseteq graphed
  BY <1>1, GraphedCloses, FS_CardinalityType
<1>3. \A x \in Walked(seeds, onward, longest) \intersect DOMAIN onward : onward[x] \subseteq Walked(seeds, onward, longest)
  BY <1>2, WalkedIsClosed
<1>4. graphed \subseteq Commits
  BY GraphedCloses
<1>5. ASSUME NEW Z, seeds \subseteq Z, Closes(Z, block)
      PROVE  seeds \subseteq Walked(seeds, onward, longest) /\ Walked(seeds, onward, longest) \subseteq Z
  <2>1. \A x \in Z \intersect DOMAIN onward : onward[x] \subseteq Z
    BY <1>4, <1>5 DEF Closes
  <2> QED  BY <1>2, <1>5, <2>1, WalkedStays
<1>6. Closes(Commits, block)
  <2>1. \A c \in Commits : 1 .. c - 1 \subseteq Commits
    BY AncestryAssumption DEF Commits
  <2> QED  BY <2>1, ParentsAreOlder DEF Closes, GraphIsWhole
<1>7. seeds \subseteq Walked(seeds, onward, longest) /\ Walked(seeds, onward, longest) \subseteq Commits
  BY <1>5, <1>6
<1> QED  BY <1>1, <1>3, <1>5, <1>7 DEF BandOf

LEMMA IndexOfGraph ==
    /\ DOMAIN GraphIndex = graphed
    /\ \A c \in graphed : Parents(GraphIndex, c) = Range(parents[c])
  BY DEF GraphIndex, Parents

\* expand_ancestors
LEMMA ExpandAncestorsIs ==
    ASSUME GraphIsWhole, NEW seeds \in SUBSET Commits, NEW floor \in Nat
    PROVE  LET band == ExpandAncestors(GraphIndex, seeds, floor)
           IN  /\ BandOf(band.visited \union band.below, seeds, floor, {}, {})
               /\ band.visited = {c \in band.visited \union band.below : c >= floor}
               /\ band.below = {c \in band.visited \union band.below : c < floor}
               /\ band.covered = (band.visited \subseteq graphed)
<1> DEFINE onward == [c \in {d \in DOMAIN GraphIndex : d >= floor} |-> Parents(GraphIndex, c)]
<1>1. PICK reach : reach = Walked(seeds, onward, Cardinality(graphed) + 1)
  OBVIOUS
<1>2. BandOf(reach, seeds, floor, {}, {})
  <2>1. DOMAIN onward = {d \in graphed : d >= floor /\ d \notin {}}
    BY IndexOfGraph
  <2>2. \A d \in DOMAIN onward : onward[d] = Range(parents[d]) \ {}
    BY IndexOfGraph
  <2> HIDE DEF onward
  <2> QED  BY <1>1, <2>1, <2>2, BandIs
<1>3. PICK visited, below : visited = {c \in reach : c >= floor} /\ below = {c \in reach : c < floor}
  OBVIOUS
<1>4. below = reach \ visited /\ visited \union below = reach
  <2>1. \A c \in reach : c \in Nat
    BY <1>2, CommitsAreFinite DEF BandOf
  <2> QED  BY <1>3, <2>1
<1>5. PICK band : /\ band = ExpandAncestors(GraphIndex, seeds, floor)
                  /\ band = [visited |-> visited, below |-> below, covered |-> visited \subseteq graphed]
  <2>1. ExpandAncestors(GraphIndex, seeds, floor) =
          [visited |-> visited, below |-> below, covered |-> visited \subseteq graphed]
    BY <1>1, <1>3, <1>4, IndexOfGraph DEF ExpandAncestors
  <2> QED  BY <2>1
<1>6. band.visited = visited /\ band.below = below /\ band.covered = (visited \subseteq graphed)
  BY <1>5
<1>7. BandOf(band.visited \union band.below, seeds, floor, {}, {})
  BY <1>2, <1>4, <1>6
<1> QED  BY <1>3, <1>4, <1>5, <1>6, <1>7

\* All that seeds reach is in the band, or reached from what is below it.
LEMMA BandGoesOn ==
    ASSUME GraphIsWhole, NEW seeds \in SUBSET Commits, NEW floor \in Nat, NEW block, NEW reach,
           BandOf(reach, seeds, floor, block, {}), {c \in reach : c >= floor /\ c \notin block} \subseteq graphed,
           NEW rest \in SUBSET Commits, {c \in reach : c < floor} \subseteq rest
    PROVE  GraftedReach(seeds \union rest, block) \subseteq reach \union GraftedReach(rest, block)
<1>1. rest \subseteq GraftedReach(rest, block) /\ Closes(GraftedReach(rest, block), block)
  BY ReachIs DEF GraphIsWhole
<1>2. PICK R : R = GraftedReach(rest, block)
  OBVIOUS
<1>3. Closes(reach \union R, block)
  <2> SUFFICES ASSUME NEW c \in reach \union R, c \in Commits, c \notin block
               PROVE  Range(parents[c]) \subseteq reach \union R
    BY DEF Closes
  <2>1. CASE c \in R
    BY <2>1, <1>1, <1>2 DEF Closes
  <2>2. CASE c \in reach /\ c >= floor
    <3>1. Range(parents[c]) \ {} \subseteq reach
      BY <2>2 DEF BandOf
    <3> QED  BY <3>1
  <2>3. CASE c \in reach /\ ~ (c >= floor)
    <3>1. c \in Nat
      BY CommitsAreFinite
    <3>2. c \in R
      BY <3>1, <2>3, <1>1, <1>2
    <3> QED  BY <3>2, <2>1
  <2> QED  BY <2>1, <2>2, <2>3
<1>4. seeds \union rest \subseteq reach \union R
  BY <1>1, <1>2 DEF BandOf
<1>5. seeds \union rest \in SUBSET Commits
  OBVIOUS
<1>6. PICK S \in SUBSET Commits : S = seeds \union rest
  BY <1>5
<1>7. GraftedReach(S, block) \subseteq reach \union R
  BY <1>3, <1>4, <1>6, ReachIs DEF GraphIsWhole
<1> QED  BY <1>2, <1>6, <1>7

-----------------------------------------------------------------------------
(* is_ancestor                                                             *)

AncestorFields == {"kind", "q", "end", "frontier", "width"}

\* The frontier is reached from the descendant, and the ancestor, if it is one,
\* from the frontier.
IsAncestorOpen(w) ==
    LET a == w.q.ancestor
        d == w.q.descendant
    IN  /\ IsOn(w, AncestorFields) /\ a \in Commits /\ d \in Commits
        /\ w.frontier \in SUBSET Commits /\ w.frontier # {} /\ w.width \in Nat \ {0}
        /\ w.frontier \subseteq Reach(d)
        /\ a \in Reach(d) => a \in GraftedReach(w.frontier, {})

IsAncestorInv == walk.kind = "is_ancestor" /\ walk.end = "open" => IsAncestorOpen(walk)

LEMMA WidthStarts == FirstWidth \in Nat \ {0}
  BY WidthsAssumption DEF FirstWidth

LEMMA OverIs ==
    ASSUME NEW kind, NEW q, NEW answer
    PROVE  LET w == Over(kind, q, answer)
           IN  w.kind = kind /\ w.q = q /\ w.end = "answered" /\ w.answer = answer /\ "kind" \in DOMAIN w
  BY DEF Over

LEMMA FailsIs ==
    ASSUME NEW w, Fails(w)
    PROVE  walk'.kind = w.kind /\ walk'.q = w.q /\ walk'.end = "failed" /\ "kind" \in DOMAIN walk'
  BY DEF Fails

LEMMA MaxOfCommits ==
    ASSUME NEW S \in SUBSET Commits, S # {}
    PROVE  Max(S) \in S /\ Max(S) \in Nat /\ \A x \in S : x <= Max(S)
<1>1. N \in Nat /\ S \in SUBSET (0 .. N)
  BY AncestryAssumption DEF Commits
<1>2. Max(S) \in S /\ \A x \in S : x <= Max(S)
  BY <1>1, MaxIs
<1> QED  BY <1>2, CommitsAreFinite

\* The walk is as the old history has it: a step changes no history.
Still == parents' = parents /\ graphed' = graphed

LEMMA ReachStays ==
    ASSUME Still
    PROVE  /\ \A c : Reach(c)' = Reach(c)
           /\ \A S, g : GraftedReach(S, g)' = GraftedReach(S, g)
  BY DEF Still, Reach, GraftedReach, Commits

LEMMA AskIsAncestorKeeps ==
    ASSUME GraphIsWhole, Still, NEW a \in 0 .. N, NEW d \in 0 .. N, AskIsAncestor(a, d)
    PROVE  walk'.kind = "is_ancestor" /\ "kind" \in DOMAIN walk' /\ IsAncestorInv' /\ IsAncestorAgrees'
<1> DEFINE q == [ancestor |-> a, descendant |-> d]
<1>1. q.ancestor = a /\ q.descendant = d
  OBVIOUS
<1>2. \A c \in Commits : Reach(c)' = Reach(c) /\ c \in Reach(c) /\ \A b \in Reach(c) : b <= c
  <2> SUFFICES ASSUME NEW c \in Commits PROVE Reach(c)' = Reach(c) /\ c \in Reach(c) /\ \A b \in Reach(c) : b <= c
    OBVIOUS
  <2>1. {c} \in SUBSET Commits /\ c \in Nat /\ c + 1 \in Nat /\ \A x \in {c} : x < c + 1
    BY CommitsAreFinite
  <2>2. \A b \in GraftedReach({c}, {}) : b < c + 1
    BY <2>1, ReachIsBelow DEF GraphIsWhole
  <2>3. c \in GraftedReach({c}, {}) /\ GraftedReach({c}, {}) \subseteq Commits
    BY <2>1, ReachIs DEF GraphIsWhole
  <2>4. \A b \in GraftedReach({c}, {}) : b \in Nat
    BY <2>3, CommitsAreFinite
  <2> QED  BY <2>1, <2>2, <2>3, <2>4, ReachOfOne, ReachStays
<1>3. CASE ~ IsNumbered(a) \/ ~ IsNumbered(d) \/ a > d
  <2>1. walk' = Over("is_ancestor", q, FALSE)
    BY <1>3 DEF AskIsAncestor
  <2>2. walk'.kind = "is_ancestor" /\ walk'.q = q /\ walk'.end = "answered" /\ walk'.answer = FALSE /\ "kind" \in DOMAIN walk'
    BY <2>1 DEF Over
  <2>3. ~ (0 \notin {a, d} /\ a \in Reach(d))
    BY <1>2, <1>3, AncestryAssumption DEF IsNumbered, Commits
  <2>4. (~ (AllNumbered /\ walk.q.ancestor \in Reach(walk.q.descendant)))'
    BY <1>1, <2>2, <2>3, ReachStays DEF AllNumbered, Asked
  <2> QED  BY <2>2, <2>4 DEF IsAncestorInv, IsAncestorAgrees, Agrees
<1>4. CASE IsNumbered(a) /\ IsNumbered(d) /\ ~ (a > d) /\ a = d
  <2>1. walk' = Over("is_ancestor", q, TRUE)
    BY <1>4 DEF AskIsAncestor
  <2>2. walk'.kind = "is_ancestor" /\ walk'.q = q /\ walk'.end = "answered" /\ walk'.answer = TRUE /\ "kind" \in DOMAIN walk'
    BY <2>1 DEF Over
  <2>3. 0 \notin {a, d} /\ a \in Reach(d)
    BY <1>2, <1>4, AncestryAssumption DEF IsNumbered, Commits
  <2>4. (AllNumbered /\ walk.q.ancestor \in Reach(walk.q.descendant))'
    BY <1>1, <2>2, <2>3, ReachStays DEF AllNumbered, Asked
  <2> QED  BY <2>2, <2>4 DEF IsAncestorInv, IsAncestorAgrees, Agrees
<1>5. CASE IsNumbered(a) /\ IsNumbered(d) /\ ~ (a > d) /\ a # d
  <2>1. walk' = [kind |-> "is_ancestor", q |-> q, end |-> "open", frontier |-> {d}, width |-> FirstWidth]
    BY <1>5 DEF AskIsAncestor
  <2> HIDE DEF q
  <2>2. /\ walk'.kind = "is_ancestor" /\ walk'.q = q /\ walk'.end = "open" /\ walk'.frontier = {d}
        /\ walk'.width = FirstWidth /\ IsOn(walk', AncestorFields) /\ "kind" \in DOMAIN walk'
    BY <2>1 DEF IsOn, AncestorFields
  <2>3. a \in Commits /\ d \in Commits
    BY <1>5, AncestryAssumption DEF IsNumbered, Commits
  <2>4. d \in Reach(d) /\ (a \in Reach(d) => a \in GraftedReach({d}, {}))
    BY <1>2, <2>3, ReachOfOne
  <2>5. IsAncestorOpen(walk)'
    BY <1>1, <2>2, <2>3, <2>4, ReachStays, WidthStarts DEF IsAncestorOpen, Commits
  <2> QED  BY <2>2, <2>5 DEF IsAncestorInv, IsAncestorAgrees, Agrees
<1> QED  BY <1>3, <1>4, <1>5

LEMMA IsAncestorBandKeeps ==
    ASSUME GraphIsWhole, Still, IsAncestorInv, walk.kind = "is_ancestor", walk.end = "open", IsAncestorBand
    PROVE  walk'.kind = "is_ancestor" /\ "kind" \in DOMAIN walk' /\ IsAncestorInv' /\ IsAncestorAgrees'
<1> DEFINE w == walk
           a == w.q.ancestor
           d == w.q.descendant
           low == Floor(Max(w.frontier), w.width)
           floor == IF low < a THEN a ELSE low
           band == ExpandAncestors(GraphIndex, w.frontier, floor)
           reach == band.visited \union band.below
<1>1. /\ IsOn(w, AncestorFields) /\ a \in Commits /\ d \in Commits
      /\ w.frontier \in SUBSET Commits /\ w.frontier # {} /\ w.width \in Nat \ {0}
      /\ w.frontier \subseteq Reach(d)
      /\ a \in Reach(d) => a \in GraftedReach(w.frontier, {})
  BY DEF IsAncestorInv, IsAncestorOpen
<1>2. floor \in Nat /\ a <= floor /\ a \in Nat
  <2>1. Max(w.frontier) \in Nat
    BY <1>1, MaxOfCommits
  <2>2. low \in Nat
    BY <1>1, <2>1, FloorIs
  <2>3. a \in Nat
    BY <1>1, CommitsAreFinite
  <2> QED  BY <2>2, <2>3
<1> HIDE DEF floor
<1>3. /\ BandOf(reach, w.frontier, floor, {}, {})
      /\ band.visited = {c \in reach : c >= floor}
      /\ band.below = {c \in reach : c < floor}
      /\ band.covered = (band.visited \subseteq graphed)
  BY <1>1, <1>2, ExpandAncestorsIs
<1>4. /\ ~ band.covered => Fails(w)
      /\ band.covered /\ a \in band.visited => Answers(w, TRUE)
      /\ band.covered /\ a \notin band.visited /\ (floor <= a \/ band.below = {}) => Answers(w, FALSE)
      /\ band.covered /\ a \notin band.visited /\ ~ (floor <= a \/ band.below = {}) =>
            walk' = [w EXCEPT !.frontier = band.below, !.width = Grow(@)]
  BY DEF IsAncestorBand, floor
<1> HIDE DEF band
<1>5. Reach(d) = GraftedReach({d}, {}) /\ {d} \in SUBSET Commits
  BY <1>1, ReachOfOne
<1>6. Reach(d) \subseteq Commits /\ Closes(Reach(d), {})
  BY <1>5, ReachIs DEF GraphIsWhole
<1>7. reach \subseteq Reach(d)
  BY <1>1, <1>3, <1>6 DEF BandOf
<1>8. ASSUME band.covered, a \in Reach(d)
      PROVE  a \in reach \/ a \in GraftedReach(band.below, {})
  <2>1. band.below \in SUBSET Commits /\ {c \in reach : c < floor} \subseteq band.below
    BY <1>3, <1>6, <1>7
  <2>2. {c \in reach : c >= floor /\ c \notin {}} \subseteq graphed
    BY <1>3, <1>8
  <2>3. GraftedReach(w.frontier \union band.below, {}) \subseteq reach \union GraftedReach(band.below, {})
    BY <1>1, <1>2, <1>3, <2>1, <2>2, BandGoesOn
  <2>4. GraftedReach(w.frontier, {}) \subseteq GraftedReach(w.frontier \union band.below, {})
    <3>1. PICK S \in SUBSET Commits : S = w.frontier \union band.below
      BY <1>1, <2>1
    <3>2. S \subseteq GraftedReach(S, {}) /\ Closes(GraftedReach(S, {}), {})
      BY <3>1, ReachIs DEF GraphIsWhole
    <3>3. w.frontier \subseteq GraftedReach(S, {})
      BY <3>1, <3>2
    <3> QED  BY <1>1, <3>1, <3>2, <3>3, ReachIs DEF GraphIsWhole
  <2> QED  BY <1>1, <1>8, <2>3, <2>4
<1>9. \A c \in GraftedReach(band.below, {}) : c < floor
  <2>1. band.below \in SUBSET Commits /\ \A c \in band.below : c < floor
    BY <1>3, <1>6, <1>7
  <2> QED  BY <1>2, <2>1, ReachIsBelow DEF GraphIsWhole
<1>11. CASE ~ band.covered
  <2>1. walk'.kind = "is_ancestor" /\ walk'.q = w.q /\ walk'.end = "failed" /\ "kind" \in DOMAIN walk'
    BY <1>4, <1>11, FailsIs
  <2>2. d \notin graphed
    <3> SUFFICES ASSUME d \in graphed PROVE FALSE
      OBVIOUS
    <3>1. Closes(graphed, {}) /\ {d} \subseteq graphed
      BY GraphedCloses
    <3>2. Reach(d) \subseteq graphed
      <4>1. \A Z : {d} \subseteq Z /\ Closes(Z, {}) => GraftedReach({d}, {}) \subseteq Z
        BY <1>5, ReachIs DEF GraphIsWhole
      <4> QED  BY <1>5, <3>1, <4>1
    <3> QED  BY <1>3, <1>7, <1>11, <3>2
  <2>3. (~ (Asked(walk) \subseteq graphed))'
    BY <2>1, <2>2 DEF Asked, Still
  <2> QED  BY <2>1, <2>3 DEF IsAncestorInv, IsAncestorAgrees, Agrees
<1>12. ASSUME NEW answer \in BOOLEAN, Answers(w, answer), answer = (a \in Reach(d))
       PROVE  walk'.kind = "is_ancestor" /\ "kind" \in DOMAIN walk' /\ IsAncestorInv' /\ IsAncestorAgrees'
  <2>1. /\ walk'.kind = "is_ancestor" /\ walk'.q = w.q /\ walk'.end = "answered"
        /\ walk'.answer = answer /\ "kind" \in DOMAIN walk'
    BY <1>12, OverIs DEF Answers
  <2>2. a # 0 /\ d # 0
    BY <1>1, AncestryAssumption DEF Commits
  <2>3. AllNumbered'
    BY <2>1, <2>2 DEF AllNumbered, Asked
  <2>4. (walk.answer = (AllNumbered /\ walk.q.ancestor \in Reach(walk.q.descendant)))'
    BY <1>12, <2>1, <2>3, ReachStays
  <2> QED  BY <2>1, <2>4 DEF IsAncestorInv, IsAncestorAgrees, Agrees
<1>13. CASE band.covered /\ a \in band.visited
  <2>1. a \in Reach(d)
    BY <1>7, <1>13
  <2> QED  BY <1>4, <1>12, <1>13, <2>1
<1>14. CASE band.covered /\ a \notin band.visited /\ (floor <= a \/ band.below = {})
  <2>1. a \notin Reach(d)
    <3> SUFFICES ASSUME a \in Reach(d) PROVE FALSE
      OBVIOUS
    <3>1. a \in reach \/ a \in GraftedReach(band.below, {})
      BY <1>8, <1>14
    <3>2. CASE floor <= a
      <4>1. a \notin GraftedReach(band.below, {})
        BY <1>2, <1>9, <3>2
      <4>2. a \in band.visited
        BY <1>2, <1>3, <3>1, <3>2, <4>1
      <4> QED  BY <1>14, <4>2
    <3>3. CASE band.below = {}
      <4>1. GraftedReach({}, {}) \subseteq {}
        <5>1. Closes({}, {})
          BY DEF Closes
        <5> QED  BY <5>1, ReachIs DEF GraphIsWhole
      <4> QED  BY <1>14, <3>1, <3>3, <4>1
    <3> QED  BY <1>14, <3>2, <3>3
  <2>2. Answers(w, FALSE)
    BY <1>4, <1>14, Zenon
  <2>3. FALSE = (a \in Reach(d))
    BY <2>1
  <2> QED  BY <1>12, <2>2, <2>3
<1>15. CASE band.covered /\ a \notin band.visited /\ ~ (floor <= a \/ band.below = {})
  <2>1. walk' = [w EXCEPT !.frontier = band.below, !.width = Grow(@)]
    BY <1>4, <1>15
  <2>2. /\ walk'.kind = "is_ancestor" /\ walk'.q = w.q /\ walk'.end = "open" /\ IsOn(walk', AncestorFields)
        /\ walk'.frontier = band.below /\ walk'.width = Grow(w.width) /\ "kind" \in DOMAIN walk'
    BY <1>1, <2>1 DEF IsOn, AncestorFields
  <2>3. Grow(w.width) \in Nat \ {0}
    BY <1>1, GrowIs
  <2>4. band.below \in SUBSET Commits /\ band.below \subseteq Reach(d) /\ band.below # {}
    BY <1>6, <1>7, <1>15
  <2>5. a \in Reach(d) => a \in GraftedReach(band.below, {})
    <3> SUFFICES ASSUME a \in Reach(d), a \in reach PROVE a \in GraftedReach(band.below, {})
      BY <1>8, <1>15
    <3>1. a \in band.below
      BY <1>15
    <3> QED  BY <2>4, <3>1, ReachIs DEF GraphIsWhole
  <2>6. IsAncestorOpen(walk)'
    BY <1>1, <2>2, <2>3, <2>4, <2>5, ReachStays DEF IsAncestorOpen, Commits
  <2> QED  BY <2>2, <2>6 DEF IsAncestorInv, IsAncestorAgrees, Agrees
<1> QED  BY <1>11, <1>13, <1>14, <1>15

-----------------------------------------------------------------------------
(* ancestors_among                                                         *)

LEMMA MinOfNumbers ==
    ASSUME NEW S \in SUBSET Nat, S # {}
    PROVE  Min(S) \in S /\ \A x \in S : Min(S) <= x
<1>1. PICK n \in S : \A m \in S : n <= m
  BY NatMin
<1> QED  BY <1>1 DEF Min

\* What a walk of one band finds is reached, and is all that is when the seed is
\* within WalkCap of the first commit.
LEMMA AmongIs ==
    ASSUME GraphIsWhole, NEW seed \in 0 .. N, NEW candidates \in SUBSET (0 .. N)
    PROVE  LET got == AncestorsAmong(seed, candidates, WalkCap)
               truth == IF seed # 0 THEN Reach(seed) \intersect candidates ELSE {}
           IN  /\ got.covered \/ seed \notin graphed
               /\ got.found \subseteq truth
               /\ got.covered /\ seed <= WalkCap + 1 => got.found = truth
<1> DEFINE got == AncestorsAmong(seed, candidates, WalkCap)
           wanted == {c \in candidates : IsNumbered(c)}
           low == IF seed < WalkCap THEN 0 ELSE seed - WalkCap
           floor == IF low < Min(wanted) THEN Min(wanted) ELSE low
           band == ExpandAncestors(GraphIndex, {seed}, floor)
           reach == band.visited \union band.below
           truth == IF seed # 0 THEN Reach(seed) \intersect candidates ELSE {}
<1> SUFFICES /\ got.covered \/ seed \notin graphed
             /\ got.found \subseteq truth
             /\ got.covered /\ seed <= WalkCap + 1 => got.found = truth
  OBVIOUS
<1>1. N \in Nat /\ WalkCap \in Nat
  BY AncestryAssumption
<1>2. CASE ~ IsNumbered(seed) \/ wanted = {}
  <2>1. got = [found |-> {}, covered |-> TRUE]
    BY <1>2 DEF AncestorsAmong
  <2>2. got.found = {} /\ got.covered
    BY <2>1
  <2>3. truth = {}
    <3>1. CASE ~ IsNumbered(seed)
      BY <3>1 DEF IsNumbered
    <3>2. CASE IsNumbered(seed) /\ wanted = {}
      <4>1. seed \in Commits /\ {seed} \in SUBSET Commits
        BY <3>2, <1>1 DEF IsNumbered, Commits
      <4>2. Reach(seed) \subseteq Commits
        BY <4>1, ReachIs, ReachOfOne DEF GraphIsWhole
      <4>3. \A c \in Commits : c # 0
        BY <1>1 DEF Commits
      <4> QED  BY <3>2, <4>2, <4>3 DEF IsNumbered
    <3> QED  BY <1>2, <3>1, <3>2
  <2> HIDE DEF got, truth
  <2> QED  BY <2>2, <2>3
<1>3. CASE IsNumbered(seed) /\ wanted # {}
  <2>1. seed # 0 /\ {seed} \in SUBSET Commits /\ truth = Reach(seed) \intersect candidates
    BY <1>1, <1>3 DEF IsNumbered, Commits
  <2>2. Min(wanted) \in wanted /\ \A c \in wanted : Min(wanted) <= c
    <3>1. wanted \in SUBSET Nat
      <4>1. 0 .. N \subseteq Nat
        BY <1>1
      <4> QED  BY <4>1
    <3> HIDE DEF wanted
    <3> QED  BY <1>3, <3>1, MinOfNumbers
  <2>3. Min(wanted) \in Nat /\ Min(wanted) # 0
    <3>1. \A c \in wanted : c \in 0 .. N /\ c # 0
      BY DEF IsNumbered
    <3> HIDE DEF wanted
    <3> QED  BY <1>1, <2>2, <3>1
  <2>4. floor \in Nat /\ (seed <= WalkCap + 1 => floor = Min(wanted))
    <3>1. low \in Nat /\ (seed <= WalkCap + 1 => low <= 1)
      BY <1>1
    <3> HIDE DEF low, wanted
    <3> QED  BY <2>3, <3>1
  <2>5. got = [found |-> reach \intersect wanted, covered |-> band.covered]
    BY <1>3 DEF AncestorsAmong
  <2>6. got.found = reach \intersect wanted /\ got.covered = band.covered
    BY <2>5
  <2> HIDE DEF got, floor
  <2>7. /\ BandOf(reach, {seed}, floor, {}, {})
        /\ band.visited = {c \in reach : c >= floor}
        /\ band.below = {c \in reach : c < floor}
        /\ band.covered = (band.visited \subseteq graphed)
    BY <2>1, <2>4, ExpandAncestorsIs
  <2> HIDE DEF band
  <2>8. Reach(seed) = GraftedReach({seed}, {}) /\ seed \in Reach(seed) /\ Closes(Reach(seed), {}) /\ Reach(seed) \subseteq Commits
    BY <2>1, ReachOfOne, ReachIs DEF GraphIsWhole
  <2>9. reach \subseteq Reach(seed)
    BY <2>7, <2>8 DEF BandOf
  <2>10. \A c \in Commits : c \in Nat /\ c # 0
    BY <1>1 DEF Commits
  <2>11. got.found \subseteq truth
    BY <2>1, <2>6, <2>9
  <2>12. ASSUME band.covered, seed <= WalkCap + 1 PROVE truth \subseteq got.found
    <3> SUFFICES ASSUME NEW c \in Reach(seed), c \in candidates PROVE c \in reach \intersect wanted
      BY <2>1, <2>6
    <3>1. c \in wanted /\ c \in Nat
      BY <2>8, <2>10 DEF IsNumbered
    <3>2. floor <= c
      BY <2>2, <2>4, <2>12, <3>1
    <3>3. band.below \in SUBSET Commits /\ {x \in reach : x < floor} \subseteq band.below /\ \A x \in band.below : x < floor
      BY <2>7, <2>8, <2>9
    <3>4. {x \in reach : x >= floor /\ x \notin {}} \subseteq graphed
      BY <2>7, <2>12
    <3>5. GraftedReach({seed} \union band.below, {}) \subseteq reach \union GraftedReach(band.below, {})
      BY <2>1, <2>4, <2>7, <3>3, <3>4, BandGoesOn
    <3>6. c \in GraftedReach({seed} \union band.below, {})
      <4>1. PICK S \in SUBSET Commits : S = {seed} \union band.below
        BY <2>1, <3>3
      <4>2. S \subseteq GraftedReach(S, {}) /\ Closes(GraftedReach(S, {}), {})
        BY <4>1, ReachIs DEF GraphIsWhole
      <4>3. {seed} \subseteq GraftedReach(S, {})
        BY <4>1, <4>2
      <4>4. GraftedReach({seed}, {}) \subseteq GraftedReach(S, {})
        BY <2>1, <4>2, <4>3, ReachIs DEF GraphIsWhole
      <4> QED  BY <2>8, <4>1, <4>4
    <3>7. \A x \in GraftedReach(band.below, {}) : x < floor
      BY <2>4, <3>3, ReachIsBelow DEF GraphIsWhole
    <3>8. c \notin GraftedReach(band.below, {})
      BY <2>4, <3>1, <3>2, <3>7
    <3> QED  BY <3>1, <3>5, <3>6, <3>8
  <2>13. band.covered \/ seed \notin graphed
    <3> SUFFICES ASSUME seed \in graphed PROVE band.covered
      OBVIOUS
    <3>1. Closes(graphed, {}) /\ {seed} \subseteq graphed
      BY GraphedCloses
    <3>2. reach \subseteq graphed
      BY <2>7, <3>1 DEF BandOf
    <3> QED  BY <2>7, <3>2
  <2> HIDE DEF truth
  <2> QED  BY <2>6, <2>11, <2>12, <2>13
<1> HIDE DEF got, truth
<1> QED  BY <1>2, <1>3

LEMMA AskAmongKeeps ==
    ASSUME GraphIsWhole, Still, NEW seed \in 0 .. N, NEW candidates \in SUBSET (0 .. N), AskAmong(seed, candidates)
    PROVE  walk'.kind = "among" /\ walk'.end # "open" /\ "kind" \in DOMAIN walk' /\ AmongAgrees'
<1>1. PICK q : q = [seed |-> seed, candidates |-> candidates]
  OBVIOUS
<1>2. q.seed = seed /\ q.candidates = candidates
  BY <1>1
<1>3. PICK got : got = AncestorsAmong(seed, candidates, WalkCap)
  OBVIOUS
<1>4. PICK truth : truth = IF seed # 0 THEN Reach(seed) \intersect candidates ELSE {}
  OBVIOUS
<1>5. /\ got.covered \/ seed \notin graphed
      /\ got.found \subseteq truth
      /\ got.covered /\ seed <= WalkCap + 1 => got.found = truth
  BY <1>3, <1>4, AmongIs
<1>6. IF got.covered THEN walk' = Over("among", q, got.found) ELSE Fails([kind |-> "among", q |-> q])
  BY <1>1, <1>3 DEF AskAmong
<1>7. CASE got.covered
  <2>1. /\ walk'.kind = "among" /\ walk'.q = q /\ walk'.end = "answered"
        /\ walk'.answer = got.found /\ "kind" \in DOMAIN walk'
    BY <1>6, <1>7, OverIs
  <2>2. AllNumbered' <=> seed # 0
    BY <1>2, <2>1 DEF AllNumbered, Asked
  <2>3. (IF AllNumbered THEN Reach(walk.q.seed) \intersect walk.q.candidates ELSE {})' = truth
    BY <1>2, <1>4, <2>1, <2>2, ReachStays
  <2> QED  BY <1>2, <1>5, <1>7, <2>1, <2>3 DEF AmongAgrees, Agrees
<1>8. CASE ~ got.covered
  <2>1. PICK f : f = [kind |-> "among", q |-> q]
    OBVIOUS
  <2>2. Fails(f) /\ f.kind = "among" /\ f.q = q
    BY <1>6, <1>8, <2>1
  <2>3. walk'.kind = "among" /\ walk'.q = q /\ walk'.end = "failed" /\ "kind" \in DOMAIN walk'
    BY <2>2, FailsIs
  <2>4. (~ (Asked(walk) \subseteq graphed))'
    BY <1>2, <1>5, <1>8, <2>3 DEF Asked, Still
  <2> QED  BY <2>3, <2>4 DEF AmongAgrees, Agrees
<1> QED  BY <1>7, <1>8

-----------------------------------------------------------------------------
(* needed_commits                                                          *)

NeededFields == {"kind", "q", "end", "w"}

LEMMA PaintColourIs ==
    ASSUME GraphIsWhole, NEW seeds \in SUBSET Commits, NEW floor \in Nat, NEW block, NEW kept
    PROVE  LET p == PaintColour(GraphIndex, seeds, floor, block, kept)
           IN  /\ BandOf(p.painted, seeds, floor, block, kept)
               /\ p.covered = ({c \in p.painted : c >= floor /\ c \notin block} \subseteq graphed)
<1> DEFINE onward == [c \in {d \in DOMAIN GraphIndex : d >= floor /\ d \notin block} |->
                         Parents(GraphIndex, c) \ kept]
<1>1. PICK painted : painted = Walked(seeds, onward, Cardinality(graphed) + 1)
  OBVIOUS
<1>2. BandOf(painted, seeds, floor, block, kept)
  <2>1. DOMAIN onward = {d \in graphed : d >= floor /\ d \notin block}
    BY IndexOfGraph
  <2>2. \A d \in DOMAIN onward : onward[d] = Range(parents[d]) \ kept
    BY IndexOfGraph
  <2> HIDE DEF onward
  <2> QED  BY <1>1, <2>1, <2>2, BandIs
<1>3. PICK covered : covered = ({c \in painted : c >= floor /\ c \notin block} \subseteq graphed)
  OBVIOUS
<1>4. PICK p : /\ p = PaintColour(GraphIndex, seeds, floor, block, kept)
               /\ p = [painted |-> painted, covered |-> covered]
  BY <1>1, <1>3, IndexOfGraph DEF PaintColour
<1>5. p.painted = painted /\ p.covered = covered
  BY <1>4
<1> QED  BY <1>2, <1>3, <1>4, <1>5

\* What one band of a paint walk makes of it, with the colours it painted.
Paints(w, v, floor, want, have) ==
    /\ floor \in Nat /\ \E c \in w.wants \union w.haves : floor <= c
    /\ IsOn(v, PaintFields) /\ v.width = Grow(w.width)
    /\ v.wantBlock = w.wantBlock /\ v.haveBlock = w.haveBlock
    /\ BandOf(want, {c \in w.wants \ w.haves : c >= floor}, floor, w.wantBlock, {c \in w.haves : c >= floor})
    /\ BandOf(have, {c \in w.haves : c >= floor}, floor, w.haveBlock, {})
    /\ v.wants = {c \in w.wants : c < floor} \union {c \in want : c < floor}
    /\ v.haves = {c \in w.haves : c < floor} \union {c \in have : c < floor}
    /\ v.needed = w.needed \union {c \in want \ have : c >= floor}
    /\ v.covered \in BOOLEAN
    /\ v.covered <=> /\ {c \in want : c >= floor /\ c \notin w.wantBlock} \subseteq graphed
                     /\ {c \in have : c >= floor /\ c \notin w.haveBlock} \subseteq graphed

LEMMA PaintBandIs ==
    ASSUME GraphIsWhole, NEW w, IsOn(w, PaintFields), w.wants \in SUBSET Commits, w.haves \in SUBSET Commits,
           w.width \in Nat \ {0}, w.wants # {}
    PROVE  \E floor, want, have : Paints(w, PaintBand(GraphIndex, w), floor, want, have)
<1> DEFINE floor == Floor(Max(w.wants \union w.haves), w.width)
           In(S) == {c \in S : c >= floor}
           band == ExpandPaint(GraphIndex, In(w.wants), In(w.haves), floor, w.wantBlock, w.haveBlock)
           v == PaintBand(GraphIndex, w)
<1>1. v = [w EXCEPT !.wants = (w.wants \ In(w.wants)) \union band.wantsBelow,
                    !.haves = (w.haves \ In(w.haves)) \union band.havesBelow,
                    !.width = Grow(w.width),
                    !.needed = @ \union band.finalized,
                    !.covered = band.covered]
  BY DEF PaintBand
<1>2. PICK S \in SUBSET Commits : S = w.wants \union w.haves
  OBVIOUS
<1>3. Max(S) \in S /\ Max(S) \in Nat
  BY <1>2, MaxOfCommits
<1>4. floor \in Nat /\ \E c \in w.wants \union w.haves : floor <= c
  BY <1>2, <1>3, FloorIs
<1> HIDE DEF floor
<1>5. PICK want, have : /\ want = PaintColour(GraphIndex, In(w.wants) \ In(w.haves), floor, w.wantBlock, In(w.haves))
                        /\ have = PaintColour(GraphIndex, In(w.haves), floor, w.haveBlock, {})
  OBVIOUS
<1>6. /\ band.finalized = {c \in want.painted \ have.painted : c >= floor}
      /\ band.wantsBelow = {c \in want.painted : c < floor}
      /\ band.havesBelow = {c \in have.painted : c < floor}
      /\ band.covered = (want.covered /\ have.covered)
  <2> HIDE DEF In
  <2> QED  BY <1>5 DEF ExpandPaint
<1> HIDE DEF band
<1>7. In(w.wants) \ In(w.haves) = {c \in w.wants \ w.haves : c >= floor}
  OBVIOUS
<1>8. /\ BandOf(want.painted, {c \in w.wants \ w.haves : c >= floor}, floor, w.wantBlock, In(w.haves))
      /\ want.covered = ({c \in want.painted : c >= floor /\ c \notin w.wantBlock} \subseteq graphed)
  <2>1. In(w.wants) \ In(w.haves) \in SUBSET Commits
    OBVIOUS
  <2>2. PICK seeds \in SUBSET Commits : seeds = In(w.wants) \ In(w.haves)
    BY <2>1
  <2>3. /\ BandOf(want.painted, seeds, floor, w.wantBlock, In(w.haves))
        /\ want.covered = ({c \in want.painted : c >= floor /\ c \notin w.wantBlock} \subseteq graphed)
    <3>1. PICK kept : kept = In(w.haves)
      OBVIOUS
    <3>2. want = PaintColour(GraphIndex, seeds, floor, w.wantBlock, kept)
      <4> HIDE DEF In
      <4> QED  BY <1>5, <2>2, <3>1
    <3> HIDE DEF In
    <3>3. /\ BandOf(want.painted, seeds, floor, w.wantBlock, kept)
          /\ want.covered = ({c \in want.painted : c >= floor /\ c \notin w.wantBlock} \subseteq graphed)
      BY <1>4, <3>2, PaintColourIs
    <3> QED  BY <3>1, <3>3
  <2> QED  BY <1>7, <2>2, <2>3
<1>9. /\ BandOf(have.painted, In(w.haves), floor, w.haveBlock, {})
      /\ have.covered = ({c \in have.painted : c >= floor /\ c \notin w.haveBlock} \subseteq graphed)
  <2>1. In(w.haves) \in SUBSET Commits
    OBVIOUS
  <2> HIDE DEF In
  <2> QED  BY <1>4, <1>5, <2>1, PaintColourIs
<1>10. \A c \in w.wants \union w.haves : c \in Nat
  BY CommitsAreFinite
<1>11. w.wants \ In(w.wants) = {c \in w.wants : c < floor} /\ w.haves \ In(w.haves) = {c \in w.haves : c < floor}
  BY <1>4, <1>10
<1>12. /\ v.wants = (w.wants \ In(w.wants)) \union band.wantsBelow
       /\ v.haves = (w.haves \ In(w.haves)) \union band.havesBelow
       /\ v.width = Grow(w.width) /\ v.needed = w.needed \union band.finalized /\ v.covered = band.covered
       /\ v.wantBlock = w.wantBlock /\ v.haveBlock = w.haveBlock /\ IsOn(v, PaintFields)
  <2> HIDE DEF In, v
  <2> QED  BY <1>1 DEF IsOn, PaintFields
<1> HIDE DEF v
<1>13. Paints(w, v, floor, want.painted, have.painted)
  <2>1. v.covered \in BOOLEAN
    BY <1>6, <1>12
  <2>2. v.covered <=> /\ {c \in want.painted : c >= floor /\ c \notin w.wantBlock} \subseteq graphed
                      /\ {c \in have.painted : c >= floor /\ c \notin w.haveBlock} \subseteq graphed
    BY <1>6, <1>8, <1>9, <1>12
  <2>3. v.wants = {c \in w.wants : c < floor} \union {c \in want.painted : c < floor}
    BY <1>6, <1>11, <1>12
  <2>4. v.haves = {c \in w.haves : c < floor} \union {c \in have.painted : c < floor}
    BY <1>6, <1>11, <1>12
  <2>5. v.needed = w.needed \union {c \in want.painted \ have.painted : c >= floor}
    BY <1>6, <1>12
  <2> QED  BY <1>4, <1>8, <1>9, <1>12, <2>1, <2>2, <2>3, <2>4, <2>5 DEF Paints
<1> QED  BY <1>13 DEF v

\* Down to `ceil' all is decided: what a want reaches and no have is needed.
\* Below it both are what the frontiers reach.
Decided(w, grafts, W, H, ceil) ==
    /\ IsOn(w, PaintFields) /\ w.wants \in SUBSET Commits /\ w.haves \in SUBSET Commits
    /\ w.width \in Nat \ {0} /\ w.wantBlock = grafts /\ w.haveBlock = grafts
    /\ ceil \in Nat /\ \A c \in w.wants \union w.haves : c < ceil
    /\ w.wants \subseteq W /\ w.haves \subseteq H
    /\ {c \in H : c < ceil} \subseteq GraftedReach(w.haves, grafts)
    /\ w.needed \subseteq W \ H
    /\ W \subseteq H \union w.needed \union GraftedReach(w.wants, grafts)

LEMMA PaintBandDecides ==
    ASSUME GraphIsWhole, NEW w, NEW grafts, NEW W \in SUBSET Commits, NEW H \in SUBSET Commits, NEW ceil,
           Closes(W, grafts), Closes(H, grafts), Decided(w, grafts, W, H, ceil), w.wants # {},
           NEW v, v = PaintBand(GraphIndex, w)
    PROVE  /\ v.covered \in BOOLEAN
           /\ W \union H \subseteq graphed => v.covered
           /\ v.covered => \E low : Decided(v, grafts, W, H, low)
<1>1. /\ IsOn(w, PaintFields) /\ w.wants \in SUBSET Commits /\ w.haves \in SUBSET Commits
      /\ w.width \in Nat \ {0} /\ w.wantBlock = grafts /\ w.haveBlock = grafts
      /\ ceil \in Nat /\ \A c \in w.wants \union w.haves : c < ceil
      /\ w.wants \subseteq W /\ w.haves \subseteq H
      /\ {c \in H : c < ceil} \subseteq GraftedReach(w.haves, grafts)
      /\ w.needed \subseteq W \ H
      /\ W \subseteq H \union w.needed \union GraftedReach(w.wants, grafts)
  BY DEF Decided
<1>2. PICK floor, want, have : Paints(w, v, floor, want, have)
  BY <1>1, PaintBandIs
<1> DEFINE wantSeeds == {c \in w.wants \ w.haves : c >= floor}
           haveSeeds == {c \in w.haves : c >= floor}
<1>3. /\ floor \in Nat /\ \E c \in w.wants \union w.haves : floor <= c
      /\ IsOn(v, PaintFields) /\ v.width = Grow(w.width)
      /\ v.wantBlock = grafts /\ v.haveBlock = grafts
      /\ BandOf(want, wantSeeds, floor, grafts, haveSeeds)
      /\ BandOf(have, haveSeeds, floor, grafts, {})
      /\ v.wants = {c \in w.wants : c < floor} \union {c \in want : c < floor}
      /\ v.haves = {c \in w.haves : c < floor} \union {c \in have : c < floor}
      /\ v.needed = w.needed \union {c \in want \ have : c >= floor}
      /\ v.covered \in BOOLEAN
      /\ v.covered <=> /\ {c \in want : c >= floor /\ c \notin grafts} \subseteq graphed
                       /\ {c \in have : c >= floor /\ c \notin grafts} \subseteq graphed
  BY <1>1, <1>2 DEF Paints
<1>4. want \subseteq W /\ have \subseteq H /\ want \subseteq Commits /\ have \subseteq Commits
      /\ wantSeeds \subseteq want /\ haveSeeds \subseteq have
  BY <1>1, <1>3 DEF BandOf
<1>5. \A c \in Commits : c \in Nat
  BY CommitsAreFinite
<1>6. W \union H \subseteq graphed => v.covered
  BY <1>3, <1>4
<1>7. ASSUME v.covered PROVE Decided(v, grafts, W, H, floor)
  <2>1. v.wants \in SUBSET Commits /\ v.haves \in SUBSET Commits /\ v.wants \subseteq W /\ v.haves \subseteq H
        /\ \A c \in v.wants \union v.haves : c < floor
    BY <1>1, <1>3, <1>4
  <2>2. v.width \in Nat \ {0}
    BY <1>1, <1>3, GrowIs
  <2>3. floor < ceil
    <3>1. PICK c \in w.wants \union w.haves : floor <= c
      BY <1>3
    <3>2. c \in Nat /\ c < ceil
      BY <1>1, <1>5
    <3> QED  BY <1>1, <1>3, <3>1, <3>2
  <2>4. GraftedReach(w.haves, grafts) \subseteq have \union GraftedReach(v.haves, grafts)
    <3>1. {c \in have : c < floor} \subseteq v.haves /\ {c \in have : c >= floor /\ c \notin grafts} \subseteq graphed
      BY <1>3, <1>7
    <3>2. haveSeeds \in SUBSET Commits
      BY <1>4
    <3>3. GraftedReach(haveSeeds \union v.haves, grafts) \subseteq have \union GraftedReach(v.haves, grafts)
      <4>1. PICK seeds \in SUBSET Commits, rest \in SUBSET Commits : seeds = haveSeeds /\ rest = v.haves
        BY <2>1, <3>2
      <4>2. BandOf(have, seeds, floor, grafts, {}) /\ {c \in have : c < floor} \subseteq rest
        BY <1>3, <3>1, <4>1
      <4> QED  BY <1>3, <3>1, <4>1, <4>2, BandGoesOn
    <3>4. PICK S \in SUBSET Commits : S = haveSeeds \union v.haves
      BY <2>1, <3>2
    <3>5. w.haves \subseteq S
      BY <1>1, <1>3, <1>5, <3>4
    <3>6. S \subseteq GraftedReach(S, grafts) /\ Closes(GraftedReach(S, grafts), grafts)
      BY <3>4, ReachIs DEF GraphIsWhole
    <3>7. w.haves \subseteq GraftedReach(S, grafts)
      BY <3>5, <3>6
    <3>8. GraftedReach(w.haves, grafts) \subseteq GraftedReach(S, grafts)
      BY <1>1, <3>6, <3>7, ReachIs DEF GraphIsWhole
    <3> QED  BY <3>3, <3>4, <3>8
  <2>5. \A c \in H : floor <= c /\ c < ceil => c \in have
    <3> SUFFICES ASSUME NEW c \in H, floor <= c, c < ceil PROVE c \in have
      OBVIOUS
    <3>1. c \in have \/ c \in GraftedReach(v.haves, grafts)
      BY <1>1, <2>4
    <3>2. \A x \in GraftedReach(v.haves, grafts) : x < floor
      BY <1>3, <2>1, ReachIsBelow DEF GraphIsWhole
    <3>3. c \in Nat
      BY <1>5
    <3> QED  BY <1>3, <3>1, <3>2, <3>3
  <2>6. {c \in H : c < floor} \subseteq GraftedReach(v.haves, grafts)
    <3> SUFFICES ASSUME NEW c \in H, c < floor PROVE c \in GraftedReach(v.haves, grafts)
      OBVIOUS
    <3>1. c \in Nat /\ c < ceil
      BY <1>1, <1>3, <1>5, <2>3
    <3>2. c \in have \/ c \in GraftedReach(v.haves, grafts)
      BY <1>1, <2>4, <3>1
    <3>3. c \in have => c \in v.haves
      BY <1>3
    <3>4. v.haves \subseteq GraftedReach(v.haves, grafts)
      BY <2>1, ReachIs DEF GraphIsWhole
    <3> QED  BY <3>2, <3>3, <3>4
  <2>7. \A c \in want : c < ceil
    <3>1. wantSeeds \in SUBSET Commits /\ \A c \in wantSeeds : c < ceil
      BY <1>1
    <3>2. PICK S \in SUBSET Commits : S = wantSeeds
      BY <3>1
    <3>3. \A c \in GraftedReach(S, grafts) : c < ceil
      BY <1>1, <3>1, <3>2, ReachIsBelow DEF GraphIsWhole
    <3>4. S \subseteq GraftedReach(S, grafts) /\ Closes(GraftedReach(S, grafts), grafts)
      BY <3>2, ReachIs DEF GraphIsWhole
    <3>5. want \subseteq GraftedReach(S, grafts)
      BY <1>3, <3>2, <3>4 DEF BandOf
    <3> QED  BY <3>3, <3>5
  <2>8. v.needed \subseteq W \ H
    <3> SUFFICES ASSUME NEW c \in want, c \notin have, c >= floor PROVE c \in W \ H
      BY <1>1, <1>3
    <3>1. c \in Nat /\ floor <= c /\ c < ceil
      BY <1>3, <1>4, <1>5, <2>7
    <3> QED  BY <1>4, <2>5, <3>1
  <2>9. W \subseteq H \union v.needed \union GraftedReach(v.wants, grafts)
    <3> DEFINE Z == H \union v.needed \union GraftedReach(v.wants, grafts)
               R == GraftedReach(v.wants, grafts)
    <3>1. v.wants \subseteq R /\ Closes(R, grafts)
      BY <2>1, ReachIs DEF GraphIsWhole
    <3>5. \A c \in GraftedReach(w.wants, grafts) : c \in Z
      <4> DEFINE Y == H \union {c \in want \ have : c >= floor} \union R
      <4>1. Y \subseteq Z /\ want \subseteq Y
        <5>1. Y \subseteq Z
          BY <1>3
        <5>2. ASSUME NEW c \in want PROVE c \in Y
          <6>1. c \in Nat
            BY <1>4, <1>5
          <6>2. CASE c < floor
            BY <1>3, <3>1, <6>2
          <6>3. CASE c >= floor
            BY <1>4, <6>3
          <6> QED  BY <1>3, <6>1, <6>2, <6>3
        <5> QED  BY <5>1, <5>2
      <4>2. w.wants \subseteq Y
        <5> SUFFICES ASSUME NEW c \in w.wants PROVE c \in Y
          OBVIOUS
        <5>1. c \in Nat
          BY <1>1, <1>5
        <5>2. CASE c < floor
          BY <1>3, <3>1, <5>2
        <5>3. CASE c >= floor /\ c \in w.haves
          BY <1>1, <5>3
        <5>4. CASE c >= floor /\ c \notin w.haves
          BY <1>4, <4>1, <5>4
        <5> QED  BY <1>3, <5>1, <5>2, <5>3, <5>4
      <4>3. Closes(Y, grafts)
        <5> SUFFICES ASSUME NEW c \in Y, c \in Commits, c \notin grafts PROVE Range(parents[c]) \subseteq Y
          BY DEF Closes
        <5>1. CASE c \in H
          BY <5>1 DEF Closes
        <5>2. CASE c \in R
          BY <3>1, <5>2 DEF Closes
        <5>3. CASE c \in want /\ c >= floor
          <6>1. c \in graphed
            BY <1>3, <1>7, <5>3
          <6>2. Range(parents[c]) \ haveSeeds \subseteq want
            BY <1>3, <5>3, <6>1 DEF BandOf
          <6>3. haveSeeds \subseteq Y
            BY <1>1
          <6> QED  BY <4>1, <6>2, <6>3
        <5> QED  BY <5>1, <5>2, <5>3
      <4> HIDE DEF Y, Z
      <4>4. GraftedReach(w.wants, grafts) \subseteq Y
        BY <1>1, <4>2, <4>3, ReachIs DEF GraphIsWhole
      <4> QED  BY <4>1, <4>4
    <3>6. w.needed \subseteq Z
      BY <1>3
    <3> QED  BY <1>1, <3>5, <3>6
  <2> QED  BY <1>3, <2>1, <2>2, <2>6, <2>8, <2>9 DEF Decided
<1> QED  BY <1>3, <1>6, <1>7

NeededOpen(w) ==
    LET W == GraftedReach(w.q.wants, w.q.shallow)
        H == GraftedReach(w.q.haves, w.q.shallow)
    IN  /\ IsOn(w, NeededFields) /\ w.q.wants \in SUBSET Commits /\ w.q.haves \in SUBSET Commits
        /\ w.w.wants # {}
        /\ \E ceil : Decided(w.w, w.q.shallow, W, H, ceil)

NeededInv == walk.kind = "needed" /\ walk.end = "open" => NeededOpen(walk)

LEMMA AskNeededKeeps ==
    ASSUME GraphIsWhole, Still, NEW wants \in SUBSET Commits, NEW haves \in SUBSET Commits, NEW shallow,
           wants # {}, AskNeeded(wants, haves, shallow)
    PROVE  walk'.kind = "needed" /\ "kind" \in DOMAIN walk' /\ NeededInv' /\ NeededAgrees'
<1> DEFINE q == [wants |-> wants, haves |-> haves, shallow |-> shallow]
<1>1. PICK w : w = PaintWalk(wants, haves, shallow, shallow)
  OBVIOUS
<1>2. /\ IsOn(w, PaintFields) /\ w.wants = wants /\ w.haves = haves /\ w.wantBlock = shallow /\ w.haveBlock = shallow
      /\ w.width = FirstWidth /\ w.needed = {}
  BY <1>1 DEF PaintWalk, IsOn, PaintFields
<1>3. q.wants = wants /\ q.haves = haves /\ q.shallow = shallow
  OBVIOUS
<1>4. walk' = [kind |-> "needed", q |-> q, end |-> "open", w |-> w]
  BY <1>1 DEF AskNeeded
<1> HIDE DEF q
<1>5. /\ walk'.kind = "needed" /\ walk'.q = q /\ walk'.end = "open" /\ walk'.w = w /\ IsOn(walk', NeededFields)
      /\ "kind" \in DOMAIN walk'
  BY <1>4 DEF IsOn, NeededFields
<1>6. PICK W, H : W = GraftedReach(wants, shallow) /\ H = GraftedReach(haves, shallow)
  OBVIOUS
<1>7. wants \subseteq W /\ haves \subseteq H
  BY <1>6, ReachIs DEF GraphIsWhole
<1>8. N + 1 \in Nat /\ \A c \in Commits : c < N + 1
  BY AncestryAssumption DEF Commits
<1>9. Decided(w, shallow, W, H, N + 1)
  BY <1>2, <1>6, <1>7, <1>8, WidthStarts DEF Decided
<1>10. W = GraftedReach(wants, shallow)' /\ H = GraftedReach(haves, shallow)'
  BY <1>6, ReachStays
<1>11. Decided(w, shallow, W, H, N + 1)'
  BY <1>9, ReachStays DEF Decided, Commits
<1>12. NeededOpen(walk)'
  BY <1>2, <1>3, <1>5, <1>10, <1>11, ReachStays DEF NeededOpen, Commits
<1> QED  BY <1>5, <1>12 DEF NeededInv, NeededAgrees, Agrees

LEMMA NeededBandKeeps ==
    ASSUME GraphIsWhole, Still, NeededInv, walk.kind = "needed", walk.end = "open", NeededBand
    PROVE  walk'.kind = "needed" /\ "kind" \in DOMAIN walk' /\ NeededInv' /\ NeededAgrees'
<1>1. PICK wants, haves, shallow : wants = walk.q.wants /\ haves = walk.q.haves /\ shallow = walk.q.shallow
  OBVIOUS
<1>2. PICK W, H : W = GraftedReach(wants, shallow) /\ H = GraftedReach(haves, shallow)
  OBVIOUS
<1>3. PICK ceil : /\ IsOn(walk, NeededFields) /\ wants \in SUBSET Commits /\ haves \in SUBSET Commits
                  /\ walk.w.wants # {} /\ Decided(walk.w, shallow, W, H, ceil)
  BY <1>1, <1>2 DEF NeededInv, NeededOpen
<1>4. PICK v : /\ v = PaintBand(GraphIndex, walk.w)
               /\ IF ~ v.covered THEN Fails(walk)
                  ELSE IF PaintOver(v) THEN Answers(walk, v.needed)
                  ELSE walk' = [walk EXCEPT !.w = v]
  BY DEF NeededBand
<1>5. /\ W \in SUBSET Commits /\ H \in SUBSET Commits /\ Closes(W, shallow) /\ Closes(H, shallow)
      /\ \A Z : wants \subseteq Z /\ Closes(Z, shallow) => W \subseteq Z
      /\ \A Z : haves \subseteq Z /\ Closes(Z, shallow) => H \subseteq Z
  BY <1>2, <1>3, ReachIs DEF GraphIsWhole
<1>6. /\ v.covered \in BOOLEAN
      /\ W \union H \subseteq graphed => v.covered
      /\ v.covered => \E low : Decided(v, shallow, W, H, low)
  BY <1>3, <1>4, <1>5, PaintBandDecides
<1>7. CASE ~ v.covered
  <2>1. walk'.kind = "needed" /\ walk'.q = walk.q /\ walk'.end = "failed" /\ "kind" \in DOMAIN walk'
    BY <1>4, <1>7, FailsIs
  <2>2. ~ (wants \union haves \subseteq graphed)
    <3> SUFFICES ASSUME wants \subseteq graphed, haves \subseteq graphed PROVE FALSE
      OBVIOUS
    <3>1. Closes(graphed, shallow)
      BY GraphedCloses
    <3> QED  BY <1>5, <1>6, <1>7, <3>1
  <2>3. (~ (Asked(walk) \subseteq graphed))'
    BY <1>1, <2>1, <2>2 DEF Asked, Still
  <2> QED  BY <2>1, <2>3 DEF NeededInv, NeededAgrees, Agrees
<1>8. CASE v.covered /\ PaintOver(v)
  <2>1. PICK low : Decided(v, shallow, W, H, low)
    BY <1>6, <1>8
  <2>2. /\ v.wants \subseteq v.haves /\ v.wants \in SUBSET Commits /\ v.haves \subseteq H /\ v.needed \subseteq W \ H
        /\ W \subseteq H \union v.needed \union GraftedReach(v.wants, shallow)
    BY <1>8, <2>1 DEF Decided, PaintOver
  <2>3. GraftedReach(v.wants, shallow) \subseteq H
    BY <1>5, <2>2, ReachIs DEF GraphIsWhole
  <2>4. v.needed = W \ H
    BY <2>2, <2>3
  <2>5. /\ walk'.kind = "needed" /\ walk'.q = walk.q /\ walk'.end = "answered"
        /\ walk'.answer = v.needed /\ "kind" \in DOMAIN walk'
    BY <1>4, <1>8, OverIs DEF Answers
  <2>6. (walk.answer = GraftedReach(walk.q.wants, walk.q.shallow) \ GraftedReach(walk.q.haves, walk.q.shallow))'
    BY <1>1, <1>2, <2>4, <2>5, ReachStays
  <2> QED  BY <2>5, <2>6 DEF NeededInv, NeededAgrees, Agrees
<1>9. CASE v.covered /\ ~ PaintOver(v)
  <2>1. PICK low : Decided(v, shallow, W, H, low)
    BY <1>6, <1>9
  <2>2. v.wants # {}
    BY <1>9 DEF PaintOver
  <2>3. walk' = [walk EXCEPT !.w = v]
    BY <1>4, <1>9
  <2>4. /\ walk'.kind = "needed" /\ walk'.q = walk.q /\ walk'.end = "open" /\ walk'.w = v /\ IsOn(walk', NeededFields)
        /\ "kind" \in DOMAIN walk'
    BY <1>3, <2>3 DEF IsOn, NeededFields
  <2>5. Decided(v, shallow, W, H, low)'
    BY <2>1, ReachStays DEF Decided, Commits
  <2>6. W = GraftedReach(wants, shallow)' /\ H = GraftedReach(haves, shallow)'
    BY <1>2, ReachStays
  <2>7. NeededOpen(walk)'
    BY <1>1, <1>3, <2>2, <2>4, <2>5, <2>6 DEF NeededOpen, Commits
  <2> QED  BY <2>4, <2>7 DEF NeededInv, NeededAgrees, Agrees
<1> QED  BY <1>6, <1>7, <1>8, <1>9

-----------------------------------------------------------------------------
(* merge_bases                                                             *)

LEMMA ReachFacts ==
    ASSUME parents \in AllGraphs, NEW c \in Commits
    PROVE  /\ c \in Reach(c) /\ Reach(c) \subseteq Commits /\ Closes(Reach(c), {})
           /\ \A Z : c \in Z /\ Closes(Z, {}) => Reach(c) \subseteq Z
           /\ \A b \in Reach(c) : b \in Nat /\ b <= c /\ Reach(b) \subseteq Reach(c)
<1>1. {c} \in SUBSET Commits /\ Reach(c) = GraftedReach({c}, {})
  BY ReachOfOne
<1>2. /\ c \in Reach(c) /\ Reach(c) \subseteq Commits /\ Closes(Reach(c), {})
      /\ \A Z : c \in Z /\ Closes(Z, {}) => Reach(c) \subseteq Z
  <2>1. /\ {c} \subseteq GraftedReach({c}, {}) /\ GraftedReach({c}, {}) \subseteq Commits
        /\ Closes(GraftedReach({c}, {}), {})
        /\ \A Z : {c} \subseteq Z /\ Closes(Z, {}) => GraftedReach({c}, {}) \subseteq Z
    BY <1>1, ReachIs
  <2> QED  BY <1>1, <2>1
<1>3. ASSUME NEW b \in Reach(c) PROVE b \in Nat /\ b <= c /\ Reach(b) \subseteq Reach(c)
  <2>1. b \in Commits /\ {b} \in SUBSET Commits /\ b \in Nat /\ c \in Nat /\ c + 1 \in Nat
    <3>1. b \in Commits
      BY <1>2
    <3>2. b \in Nat /\ c \in Nat
      BY <3>1, CommitsAreFinite
    <3> QED  BY <3>1, <3>2
  <2>2. b < c + 1
    BY <1>1, <2>1, ReachIsBelow
  <2>3. GraftedReach({b}, {}) \subseteq Reach(c)
    BY <1>2, <2>1, ReachIs
  <2> QED  BY <2>1, <2>2, <2>3, ReachOfOne
<1> QED  BY <1>2, <1>3

LEMMA ReachGrows ==
    ASSUME parents \in AllGraphs, NEW T \in SUBSET Commits, NEW S, S \subseteq T, NEW grafts
    PROVE  GraftedReach(S, grafts) \subseteq GraftedReach(T, grafts)
<1>1. S \in SUBSET Commits /\ T \subseteq GraftedReach(T, grafts) /\ Closes(GraftedReach(T, grafts), grafts)
  BY ReachIs
<1>2. S \subseteq GraftedReach(T, grafts)
  BY <1>1
<1> QED  BY <1>1, <1>2, ReachIs

LEMMA ReachOfMany ==
    ASSUME parents \in AllGraphs, NEW S \in SUBSET Commits, NEW x \in GraftedReach(S, {})
    PROVE  \E s \in S : x \in Reach(s)
<1> DEFINE Z == {c \in Commits : \E s \in S : c \in Reach(s)}
<1>1. S \subseteq Z
  BY ReachFacts
<1>2. Closes(Z, {})
  <2> SUFFICES ASSUME NEW c \in Z, NEW p \in Range(parents[c]) PROVE p \in Z
    BY DEF Closes
  <2>1. PICK s \in S : c \in Reach(s)
    OBVIOUS
  <2>2. p \in Reach(s) /\ Reach(s) \subseteq Commits
    BY <2>1, ReachFacts DEF Closes
  <2> QED  BY <2>1, <2>2
<1> HIDE DEF Z
<1>3. GraftedReach(S, {}) \subseteq Z
  BY <1>1, <1>2, ReachIs
<1> QED  BY <1>3 DEF Z

\* Of commits that reach each other there is only one.
LEMMA NewestIsBest ==
    ASSUME parents \in AllGraphs, NEW S \in SUBSET Commits, NEW head \in S, \A c \in S : c <= head
    PROVE  Best(S) = {head} \union Best((S \ {head}) \ Reach(head))
<1> DEFINE rest == (S \ {head}) \ Reach(head)
<1>1. \A c \in S : c \in Nat /\ \A d \in S : d \in Reach(c) => d <= c
  BY CommitsAreFinite, ReachFacts
<1>2. \A c, d, e \in S : c \in Reach(d) /\ d \in Reach(e) => c \in Reach(e)
  BY ReachFacts
<1>3. head \in Best(S)
  BY <1>1 DEF Best
<1>4. ASSUME NEW c \in Best(S), c # head PROVE c \in Best(rest)
  BY <1>4 DEF Best
<1>5. ASSUME NEW c \in Best(rest) PROVE c \in Best(S)
  <2>1. c \in S /\ c # head /\ c \notin Reach(head) /\ \A d \in rest : c \in Reach(d) => c = d
    BY DEF Best
  <2>2. ASSUME NEW d \in S, c \in Reach(d) PROVE c = d
    <3>1. CASE d \in rest
      BY <2>1, <2>2, <3>1
    <3>2. CASE d = head
      BY <2>1, <2>2, <3>2
    <3>3. CASE d \in Reach(head)
      BY <1>2, <2>1, <2>2, <3>3
    <3> QED  BY <3>1, <3>2, <3>3
  <2> QED  BY <2>1, <2>2 DEF Best
<1> QED  BY <1>3, <1>4, <1>5

\* remove_redundant: within what has an entry, a band from the newest finds all
\* it reaches of the rest.
LEMMA NewestReaches ==
    ASSUME GraphIsWhole, NEW S \in SUBSET graphed, NEW head \in S, \A c \in S : c <= head, NEW rest, rest = S \ {head}
    PROVE  rest \ (IF rest = {} THEN {} ELSE ExpandAncestors(GraphIndex, {head}, Min(rest)).visited) = rest \ Reach(head)
<1>1. CASE rest = {}
  BY <1>1
<1>2. CASE rest # {}
  <2>1. graphed \subseteq Commits /\ Closes(graphed, {})
    BY GraphedCloses
  <2>2. rest \in SUBSET Nat /\ {head} \in SUBSET Commits /\ head \in Commits
    BY <2>1, CommitsAreFinite
  <2>3. PICK floor : floor = Min(rest)
    OBVIOUS
  <2>4. floor \in Nat /\ \A c \in rest : floor <= c
    BY <1>2, <2>2, <2>3, MinOfNumbers
  <2>5. PICK band : band = ExpandAncestors(GraphIndex, {head}, floor)
    OBVIOUS
  <2>6. PICK reach : reach = band.visited \union band.below
    OBVIOUS
  <2>7. /\ BandOf(reach, {head}, floor, {}, {})
        /\ band.visited = {c \in reach : c >= floor}
        /\ band.below = {c \in reach : c < floor}
    BY <2>2, <2>4, <2>5, <2>6, ExpandAncestorsIs
  <2>8. /\ head \in Reach(head) /\ Reach(head) \subseteq Commits /\ Closes(Reach(head), {})
        /\ Reach(head) = GraftedReach({head}, {})
    BY <2>2, ReachFacts, ReachOfOne DEF GraphIsWhole
  <2>9. reach \subseteq Reach(head) /\ reach \subseteq graphed
    BY <2>1, <2>7, <2>8 DEF BandOf
  <2>10. ASSUME NEW c \in rest, c \in Reach(head) PROVE c \in band.visited
    <3>1. band.below \in SUBSET Commits /\ {x \in reach : x < floor} \subseteq band.below
          /\ {x \in reach : x >= floor /\ x \notin {}} \subseteq graphed
      BY <2>1, <2>7, <2>9
    <3>2. GraftedReach({head} \union band.below, {}) \subseteq reach \union GraftedReach(band.below, {})
      BY <2>2, <2>4, <2>7, <3>1, BandGoesOn
    <3>3. PICK T \in SUBSET Commits : T = {head} \union band.below
      BY <2>2, <3>1
    <3>4. {head} \subseteq T
      BY <3>3
    <3>6. GraftedReach({head}, {}) \subseteq GraftedReach(T, {})
      BY <3>4, ReachGrows DEF GraphIsWhole
    <3>7. c \in reach \union GraftedReach(band.below, {})
      BY <2>8, <2>10, <3>2, <3>3, <3>6
    <3>8. \A x \in GraftedReach(band.below, {}) : x < floor
      BY <2>4, <2>7, <3>1, ReachIsBelow DEF GraphIsWhole
    <3>9. c \in Nat /\ floor <= c
      BY <2>2, <2>4
    <3> QED  BY <2>4, <2>7, <3>7, <3>8, <3>9
  <2>11. band.visited \subseteq Reach(head)
    BY <2>7, <2>9
  <2> QED  BY <1>2, <2>3, <2>5, <2>10, <2>11
<1> QED  BY <1>1, <1>2

LEMMA MaximalIsBest ==
    ASSUME GraphIsWhole, NEW common \in SUBSET graphed
    PROVE  Maximal(common) = Best(common)
<1> DEFINE Rec(f) == [left \in SUBSET common |->
              IF left = {} THEN {}
              ELSE LET head == Max(left)
                       rest == left \ {head}
                       reach == IF rest = {} THEN {}
                                ELSE ExpandAncestors(GraphIndex, {head}, Min(rest)).visited
                   IN  {head} \union f[rest \ reach]]
           taken == CHOOSE f : f = Rec(f)
           Left(left) == (left \ {Max(left)}) \ Reach(Max(left))
<1>1. Maximal(common) = taken[common]
  BY DEF Maximal
<1>2. common \subseteq Commits
  BY GraphedCloses
<1>3. ASSUME NEW left \in SUBSET common, left # {}
      PROVE  /\ Max(left) \in left /\ \A c \in left : c <= Max(left)
             /\ Left(left) \in SUBSET common
             /\ \A f : Rec(f)[left] = {Max(left)} \union f[Left(left)]
             /\ Best(left) = {Max(left)} \union Best(Left(left))
  <2>1. left \in SUBSET Commits /\ left \in SUBSET graphed
    BY <1>2
  <2>2. Max(left) \in left /\ \A c \in left : c <= Max(left)
    BY <1>3, <2>1, MaxOfCommits
  <2>3. PICK head : head = Max(left)
    OBVIOUS
  <2>4. PICK rest : rest = left \ {head}
    OBVIOUS
  <2>5. rest \ (IF rest = {} THEN {} ELSE ExpandAncestors(GraphIndex, {head}, Min(rest)).visited) = rest \ Reach(head)
    BY <2>1, <2>2, <2>3, <2>4, NewestReaches
  <2>6. Best(left) = {head} \union Best((left \ {head}) \ Reach(head))
    BY <2>1, <2>2, <2>3, NewestIsBest DEF GraphIsWhole
  <2>7. ASSUME NEW f PROVE Rec(f)[left] = {head} \union f[rest \ Reach(head)]
    BY <1>3, <2>3, <2>4, <2>5
  <2> HIDE DEF Rec
  <2> QED  BY <2>2, <2>3, <2>4, <2>6, <2>7
<1>4. Best({}) = {} /\ \A f : Rec(f)[{}] = {}
  BY DEF Best
<1>5. \E f : f = Rec(f)
  <2> DEFINE g == [left \in SUBSET common |-> Best(left)]
  <2>1. ASSUME NEW left \in SUBSET common PROVE Rec(g)[left] = Best(left)
    <3>1. CASE left = {}
      BY <1>4, <3>1
    <3>2. CASE left # {}
      <4>1. Left(left) \in SUBSET common /\ Rec(g)[left] = {Max(left)} \union g[Left(left)]
            /\ Best(left) = {Max(left)} \union Best(Left(left))
        BY <1>3, <3>2
      <4> HIDE DEF Rec, Left
      <4>2. g[Left(left)] = Best(Left(left))
        BY <4>1
      <4> HIDE DEF g
      <4> QED  BY <4>1, <4>2
    <3> QED  BY <3>1, <3>2
  <2>2. Rec(g) = [left \in SUBSET common |-> Rec(g)[left]]
    OBVIOUS
  <2> HIDE DEF Rec
  <2>3. Rec(g) = g
    BY <2>1, <2>2
  <2> QED  BY <2>3
<1>6. taken = Rec(taken)
  <2> HIDE DEF Rec
  <2> QED  BY <1>5
<1> HIDE DEF taken
<1> DEFINE T == {n \in Nat : \A left \in SUBSET common : (\A c \in left : c <= n) => taken[left] = Best(left)}
<1>7. 0 \in T
  <2> SUFFICES ASSUME NEW left \in SUBSET common, \A c \in left : c <= 0 PROVE taken[left] = Best(left)
    OBVIOUS
  <2>1. left = {}
    BY <1>2, AncestryAssumption DEF Commits
  <2> HIDE DEF Rec
  <2> QED  BY <1>4, <1>6, <2>1
<1>8. ASSUME NEW n \in T PROVE n + 1 \in T
  <2> SUFFICES ASSUME NEW left \in SUBSET common, \A c \in left : c <= n + 1 PROVE taken[left] = Best(left)
    OBVIOUS
  <2>1. CASE left = {}
    <3> HIDE DEF Rec
    <3> QED  BY <1>4, <1>6, <2>1
  <2>2. CASE left # {}
    <3>1. /\ Max(left) \in left /\ \A c \in left : c <= Max(left)
          /\ Left(left) \in SUBSET common
          /\ Rec(taken)[left] = {Max(left)} \union taken[Left(left)]
          /\ Best(left) = {Max(left)} \union Best(Left(left))
      BY <1>3, <2>2
    <3>2. \A c \in Left(left) : c <= n
      <4> SUFFICES ASSUME NEW c \in Left(left) PROVE c <= n
        OBVIOUS
      <4>1. c \in left /\ c # Max(left) /\ Max(left) \in Nat /\ c \in Nat /\ n \in Nat
        BY <1>2, <3>1, CommitsAreFinite
      <4>2. c <= Max(left) /\ Max(left) <= n + 1
        BY <3>1, <4>1
      <4> QED  BY <4>1, <4>2
    <3>3. taken[Left(left)] = Best(Left(left))
      <4> HIDE DEF Left
      <4> QED  BY <3>1, <3>2
    <3>4. taken[left] = Rec(taken)[left]
      <4> HIDE DEF Rec
      <4> QED  BY <1>6
    <3> HIDE DEF Rec, Left
    <3> QED  BY <3>1, <3>3, <3>4
  <2> QED  BY <2>1, <2>2
<1>9. T = Nat
  <2>1. T \in SUBSET Nat
    OBVIOUS
  <2> HIDE DEF T
  <2> QED  BY <1>7, <1>8, <2>1, Counting
<1>10. N \in T
  BY <1>9, AncestryAssumption
<1>11. \A c \in common : c <= N
  BY <1>2, AncestryAssumption DEF Commits
<1>12. taken[common] = Best(common)
  <2>1. common \in SUBSET common
    OBVIOUS
  <2> QED  BY <1>10, <1>11, <2>1
<1> QED  BY <1>1, <1>12

\* A side has found only what its commit reaches, and has gone on from all of
\* it but its frontier.
Explores(reach, frontier, c) ==
    /\ c \in reach /\ reach \subseteq Reach(c) /\ frontier \subseteq reach
    /\ \A x \in reach \ frontier : Range(parents[x]) \subseteq reach

LEMMA ExploresAll ==
    ASSUME parents \in AllGraphs, NEW c \in Commits, NEW reach, NEW frontier, Explores(reach, frontier, c)
    PROVE  Reach(c) \subseteq reach \union GraftedReach(frontier, {})
<1>1. frontier \in SUBSET Commits /\ c \in reach
  BY ReachFacts DEF Explores
<1>2. PICK R : R = GraftedReach(frontier, {})
  OBVIOUS
<1>3. frontier \subseteq R /\ Closes(R, {})
  BY <1>1, <1>2, ReachIs
<1>4. Closes(reach \union R, {})
  <2> SUFFICES ASSUME NEW x \in reach \union R, x \in Commits PROVE Range(parents[x]) \subseteq reach \union R
    BY DEF Closes
  <2>1. CASE x \in R
    BY <1>3, <2>1 DEF Closes
  <2>2. CASE x \in reach \ frontier
    BY <2>2 DEF Explores
  <2> QED  BY <1>3, <2>1, <2>2
<1> QED  BY <1>1, <1>2, <1>4, ReachFacts

LEMMA MergeBaseSideIs ==
    ASSUME GraphIsWhole, NEW c \in Commits, NEW s, Explores(s.reach, s.frontier, c), NEW floor \in Nat,
           NEW t, t = MergeBaseSide(s, floor)
    PROVE  /\ t.covered \in BOOLEAN
           /\ c \in graphed => t.covered
           /\ t.covered => Explores(t.reach, t.frontier, c)
           /\ t.covered => \A f \in s.frontier : f >= floor => f \in graphed
<1>1. s.frontier \in SUBSET Commits /\ Reach(c) \subseteq Commits /\ Closes(Reach(c), {})
  BY ReachFacts DEF Explores, GraphIsWhole
<1>2. CASE \A f \in s.frontier : f < floor
  <2>1. t = [reach |-> s.reach, frontier |-> s.frontier, covered |-> TRUE]
    BY <1>2 DEF MergeBaseSide
  <2>2. t.reach = s.reach /\ t.frontier = s.frontier /\ t.covered
    BY <2>1
  <2>3. \A f \in s.frontier : f \in Nat
    BY <1>1, CommitsAreFinite
  <2>4. \A f \in s.frontier : ~ (f >= floor)
    BY <1>2, <2>3
  <2>5. t.covered = TRUE
    BY <2>1
  <2> QED  BY <2>2, <2>4, <2>5
<1>3. CASE ~ (\A f \in s.frontier : f < floor)
  <2>1. PICK band : band = ExpandAncestors(GraphIndex, s.frontier, floor)
    OBVIOUS
  <2>2. t = [reach |-> s.reach \union band.visited \union band.below, frontier |-> band.below, covered |-> band.covered]
    BY <1>3, <2>1 DEF MergeBaseSide
  <2>3. t.reach = s.reach \union band.visited \union band.below /\ t.frontier = band.below /\ t.covered = band.covered
    BY <2>2
  <2>4. PICK reach : reach = band.visited \union band.below
    OBVIOUS
  <2>5. /\ BandOf(reach, s.frontier, floor, {}, {})
        /\ band.visited = {x \in reach : x >= floor}
        /\ band.below = {x \in reach : x < floor}
        /\ band.covered = (band.visited \subseteq graphed)
    BY <1>1, <2>1, <2>4, ExpandAncestorsIs
  <2>6. reach \subseteq Reach(c) /\ s.frontier \subseteq reach
    BY <1>1, <2>5 DEF BandOf, Explores
  <2>7. t.reach = s.reach \union reach
    BY <2>3, <2>4
  <2>8. ASSUME c \in graphed PROVE band.covered
    <3>1. Closes(graphed, {})
      BY GraphedCloses
    <3>2. Reach(c) \subseteq graphed
      BY <2>8, <3>1, ReachFacts DEF GraphIsWhole
    <3> QED  BY <2>5, <2>6, <3>2
  <2>9. ASSUME band.covered PROVE Explores(t.reach, t.frontier, c)
    <3>1. c \in t.reach /\ t.reach \subseteq Reach(c) /\ t.frontier \subseteq t.reach
      BY <2>3, <2>6, <2>7 DEF Explores
    <3>2. ASSUME NEW x \in t.reach \ t.frontier PROVE Range(parents[x]) \subseteq t.reach
      <4>1. CASE x \in band.visited
        <5>1. x \in reach /\ x >= floor /\ x \notin {} /\ x \in graphed
          BY <2>5, <2>9, <4>1
        <5>2. Range(parents[x]) \ {} \subseteq reach
          BY <2>5, <5>1 DEF BandOf
        <5> QED  BY <2>7, <5>2
      <4>2. CASE x \notin band.visited
        <5>1. x \in s.reach \ s.frontier
          BY <2>3, <2>4, <2>6, <4>2
        <5> QED  BY <2>7, <5>1 DEF Explores
      <4> QED  BY <4>1, <4>2
    <3> QED  BY <3>1, <3>2 DEF Explores
  <2>10. band.covered => \A f \in s.frontier : f >= floor => f \in graphed
    BY <2>5, <2>6
  <2> QED  BY <2>3, <2>5, <2>8, <2>9, <2>10
<1> QED  BY <1>2, <1>3

\* When each side's frontier is known to the other, the best of what both have
\* found are the best of all.
LEMMA CommonIsEnough ==
    ASSUME parents \in AllGraphs, NEW a \in Commits, NEW b \in Commits, NEW x, NEW y,
           Explores(x.reach, x.frontier, a), Explores(y.reach, y.frontier, b), Common(x, y)
    PROVE  Best(x.reach \intersect y.reach) = Best(CommonAncestors(a, b))
<1> DEFINE R == x.reach \intersect y.reach
           C == Reach(a) \intersect Reach(b)
<1>1. x.frontier \subseteq R /\ y.frontier \subseteq R /\ R \subseteq C /\ C \subseteq Commits
  BY ReachFacts DEF Explores, Common
<1>2. ASSUME NEW c \in C PROVE \E f \in R : c \in Reach(f)
  <2>1. c \in x.reach \union GraftedReach(x.frontier, {}) /\ c \in y.reach \union GraftedReach(y.frontier, {})
    BY ExploresAll
  <2>2. CASE c \in R
    BY <1>1, <2>2, ReachFacts
  <2>3. CASE c \in GraftedReach(x.frontier, {})
    <3>1. x.frontier \in SUBSET Commits
      BY <1>1
    <3>2. \E f \in x.frontier : c \in Reach(f)
      BY <2>3, <3>1, ReachOfMany
    <3> QED  BY <1>1, <3>2
  <2>4. CASE c \in GraftedReach(y.frontier, {})
    <3>1. y.frontier \in SUBSET Commits
      BY <1>1
    <3>2. \E f \in y.frontier : c \in Reach(f)
      BY <2>4, <3>1, ReachOfMany
    <3> QED  BY <1>1, <3>2
  <2> QED  BY <2>1, <2>2, <2>3, <2>4
<1>3. \A c, d \in C : c \in Reach(d) => c <= d /\ c \in Nat /\ d \in Nat
  BY <1>1, ReachFacts, CommitsAreFinite
<1>4. \A c, d, e \in C : c \in Reach(d) /\ d \in Reach(e) => c \in Reach(e)
  BY <1>1, ReachFacts
<1>5. ASSUME NEW c \in Best(C) PROVE c \in Best(R)
  <2>1. c \in C /\ \A d \in C : c \in Reach(d) => c = d
    BY DEF Best
  <2>2. c \in R
    BY <1>1, <1>2, <2>1
  <2> QED  BY <1>1, <2>1, <2>2 DEF Best
<1>6. ASSUME NEW c \in Best(R) PROVE c \in Best(C)
  <2>1. c \in R /\ \A d \in R : c \in Reach(d) => c = d
    BY DEF Best
  <2>2. ASSUME NEW d \in C, c \in Reach(d) PROVE c = d
    <3>1. PICK f \in R : d \in Reach(f)
      BY <1>2
    <3>2. c \in C /\ f \in C
      BY <1>1, <2>1
    <3>3. c = f
      BY <1>4, <2>1, <2>2, <3>1, <3>2
    <3>4. c <= d /\ d <= c /\ c \in Nat /\ d \in Nat
      BY <1>3, <2>2, <3>1, <3>2, <3>3
    <3> QED  BY <3>4
  <2> QED  BY <1>1, <2>1, <2>2 DEF Best
<1>7. Best(R) = Best(C)
  BY <1>5, <1>6
<1> QED  BY <1>7 DEF CommonAncestors

MergeBasesFields == {"kind", "q", "end", "width", "side"}

\* Once a band is read, both commits have entries.
MergeBasesOpen(w) ==
    LET a == w.q.a
        b == w.q.b
        sideA == w.side["a"]
        sideB == w.side["b"]
    IN  /\ IsOn(w, MergeBasesFields) /\ DOMAIN w.q = {"a", "b"} /\ a \in Commits /\ b \in Commits
        /\ w.width \in Nat \ {0} /\ IsOn(w.side, {"a", "b"})
        /\ Explores(sideA.reach, sideA.frontier, a) /\ Explores(sideB.reach, sideB.frontier, b)
        /\ sideA.frontier \union sideB.frontier # {}
        /\ (a \in graphed /\ b \in graphed) \/ (sideA.frontier = {a} /\ sideB.frontier = {b})

MergeBasesInv == walk.kind = "merge_bases" /\ walk.end = "open" => MergeBasesOpen(walk)

LEMMA ExploresStays ==
    ASSUME Still
    PROVE  /\ \A reach, frontier, c : Explores(reach, frontier, c)' = Explores(reach, frontier, c)
           /\ \A S : Best(S)' = Best(S)
           /\ \A a, b : CommonAncestors(a, b)' = CommonAncestors(a, b)
<1>1. \A c : Reach(c)' = Reach(c)
  BY ReachStays
<1> QED  BY <1>1 DEF Still, Explores, Best, CommonAncestors

LEMMA AskMergeBasesKeeps ==
    ASSUME GraphIsWhole, Still, NEW a \in 0 .. N, NEW b \in 0 .. N, AskMergeBases(a, b)
    PROVE  walk'.kind = "merge_bases" /\ "kind" \in DOMAIN walk' /\ MergeBasesInv' /\ MergeBasesAgree'
<1> DEFINE q == [a |-> a, b |-> b]
<1>1. q.a = a /\ q.b = b /\ DOMAIN q = {"a", "b"} /\ q["a"] = a /\ q["b"] = b
  OBVIOUS
<1>2. CASE ~ IsNumbered(a) \/ ~ IsNumbered(b)
  <2>1. walk' = Over("merge_bases", q, {})
    BY <1>2 DEF AskMergeBases
  <2> HIDE DEF q
  <2>2. walk'.kind = "merge_bases" /\ walk'.q = q /\ walk'.end = "answered" /\ walk'.answer = {} /\ "kind" \in DOMAIN walk'
    BY <2>1, OverIs
  <2>3. ~ AllNumbered'
    BY <1>1, <1>2, <2>2 DEF AllNumbered, Asked, IsNumbered
  <2> QED  BY <1>1, <2>2, <2>3 DEF MergeBasesInv, MergeBasesAgree, Agrees
<1>3. CASE IsNumbered(a) /\ IsNumbered(b) /\ a = b
  <2>1. walk' = Over("merge_bases", q, {a})
    BY <1>3 DEF AskMergeBases
  <2> HIDE DEF q
  <2>2. walk'.kind = "merge_bases" /\ walk'.q = q /\ walk'.end = "answered" /\ walk'.answer = {a} /\ "kind" \in DOMAIN walk'
    BY <2>1, OverIs
  <2>3. a \in Commits
    BY <1>3, AncestryAssumption DEF IsNumbered, Commits
  <2>4. Best(CommonAncestors(a, b)) = {a}
    <3>1. CommonAncestors(a, b) = Reach(a)
      BY <1>3 DEF CommonAncestors
    <3>2. a \in Reach(a) /\ \A c \in Reach(a) : c \in Nat /\ c <= a /\ a \in Nat
      BY <2>3, ReachFacts, CommitsAreFinite DEF GraphIsWhole
    <3>3. \A c \in Reach(a) : a \in Reach(c) => a <= c
      <4> SUFFICES ASSUME NEW c \in Reach(a), a \in Reach(c) PROVE a <= c
        OBVIOUS
      <4>1. c \in Commits
        BY <2>3, ReachFacts DEF GraphIsWhole
      <4> QED  BY <4>1, ReachFacts DEF GraphIsWhole
    <3>4. a \in Best(Reach(a))
      BY <3>2, <3>3 DEF Best
    <3>5. \A c \in Best(Reach(a)) : c = a
      BY <3>2 DEF Best
    <3> QED  BY <3>1, <3>4, <3>5
  <2>5. (Best(CommonAncestors(walk.q.a, walk.q.b)))' = {a}
    BY <1>1, <2>2, <2>4, ExploresStays
  <2>6. "exhausted" \notin DOMAIN walk'.q
    BY <1>1, <2>2
  <2>7. AllNumbered'
    BY <1>1, <1>3, <2>2 DEF AllNumbered, Asked, IsNumbered
  <2> QED  BY <2>2, <2>5, <2>6, <2>7 DEF MergeBasesInv, MergeBasesAgree, Agrees
<1>4. CASE IsNumbered(a) /\ IsNumbered(b) /\ a # b
  <2>1. PICK side : side = [x \in {"a", "b"} |-> [reach |-> {q[x]}, frontier |-> {q[x]}]]
    OBVIOUS
  <2>2. walk' = [kind |-> "merge_bases", q |-> q, end |-> "open", width |-> FirstWidth, side |-> side]
    BY <1>4, <2>1 DEF AskMergeBases
  <2>3. /\ IsOn(side, {"a", "b"}) /\ side["a"].reach = {a} /\ side["a"].frontier = {a}
        /\ side["b"].reach = {b} /\ side["b"].frontier = {b}
    BY <1>1, <2>1 DEF IsOn
  <2> HIDE DEF q
  <2>4. /\ walk'.kind = "merge_bases" /\ walk'.q = q /\ walk'.end = "open" /\ walk'.width = FirstWidth
        /\ walk'.side = side /\ IsOn(walk', MergeBasesFields) /\ "kind" \in DOMAIN walk'
    BY <2>2 DEF IsOn, MergeBasesFields
  <2>5. a \in Commits /\ b \in Commits
    BY <1>4, AncestryAssumption DEF IsNumbered, Commits
  <2>6. Explores({a}, {a}, a) /\ Explores({b}, {b}, b)
    BY <2>5, ReachFacts DEF Explores, GraphIsWhole
  <2>7. Explores({a}, {a}, a)' /\ Explores({b}, {b}, b)'
    BY <2>6, ExploresStays
  <2>8. MergeBasesOpen(walk)'
    BY <1>1, <2>3, <2>4, <2>5, <2>7, WidthStarts DEF MergeBasesOpen, Commits
  <2> QED  BY <2>4, <2>8 DEF MergeBasesInv, MergeBasesAgree, Agrees
<1> QED  BY <1>2, <1>3, <1>4

LEMMA MergeBasesBandKeeps ==
    ASSUME GraphIsWhole, Still, MergeBasesInv, walk.kind = "merge_bases", walk.end = "open", MergeBasesBand
    PROVE  walk'.kind = "merge_bases" /\ "kind" \in DOMAIN walk' /\ MergeBasesInv' /\ MergeBasesAgree'
<1>1. PICK w, a, b, s, t : w = walk /\ a = w.q.a /\ b = w.q.b /\ s = w.side["a"] /\ t = w.side["b"]
  OBVIOUS
<1>2. /\ IsOn(w, MergeBasesFields) /\ DOMAIN w.q = {"a", "b"} /\ a \in Commits /\ b \in Commits
      /\ w.width \in Nat \ {0} /\ IsOn(w.side, {"a", "b"})
      /\ Explores(s.reach, s.frontier, a) /\ Explores(t.reach, t.frontier, b)
      /\ s.frontier \union t.frontier # {}
      /\ (a \in graphed /\ b \in graphed) \/ (s.frontier = {a} /\ t.frontier = {b})
  BY <1>1 DEF MergeBasesInv, MergeBasesOpen
<1>3. PICK floor : floor = Floor(Max(s.frontier \union t.frontier), w.width)
  OBVIOUS
<1>4. PICK x, y : x = MergeBaseSide(s, floor) /\ y = MergeBaseSide(t, floor)
  OBVIOUS
<1>5. /\ ~ (x.covered /\ y.covered) => Fails(w)
      /\ x.covered /\ y.covered /\ Common(x, y) => Answers(w, Maximal(x.reach \intersect y.reach))
      /\ x.covered /\ y.covered /\ ~ Common(x, y) =>
           \/ walk' = Over(w.kind, [a |-> a, b |-> b, exhausted |-> TRUE], Maximal(x.reach \intersect y.reach))
           \/ walk' = [w EXCEPT !.width = Grow(@),
                                !.side["a"] = [reach |-> x.reach, frontier |-> x.frontier],
                                !.side["b"] = [reach |-> y.reach, frontier |-> y.frontier]]
  BY <1>1, <1>3, <1>4 DEF MergeBasesBand
<1>6. floor \in Nat /\ floor <= Max(s.frontier \union t.frontier) /\ \A c \in s.frontier \union t.frontier : c <= Max(s.frontier \union t.frontier)
      /\ Max(s.frontier \union t.frontier) \in s.frontier \union t.frontier
  <2>1. PICK S \in SUBSET Commits : S = s.frontier \union t.frontier
    BY <1>2, ReachFacts DEF Explores, GraphIsWhole
  <2>2. Max(S) \in S /\ Max(S) \in Nat /\ \A c \in S : c <= Max(S)
    BY <1>2, <2>1, MaxOfCommits
  <2> QED  BY <1>2, <1>3, <2>1, <2>2, FloorIs
<1>7. /\ x.covered \in BOOLEAN /\ y.covered \in BOOLEAN
      /\ a \in graphed => x.covered
      /\ b \in graphed => y.covered
      /\ x.covered => Explores(x.reach, x.frontier, a) /\ \A f \in s.frontier : f >= floor => f \in graphed
      /\ y.covered => Explores(y.reach, y.frontier, b) /\ \A f \in t.frontier : f >= floor => f \in graphed
  BY <1>2, <1>4, <1>6, MergeBaseSideIs
<1>8. ASSUME x.covered, y.covered PROVE a \in graphed /\ b \in graphed
  <2> SUFFICES ASSUME s.frontier = {a}, t.frontier = {b} PROVE a \in graphed /\ b \in graphed
    BY <1>2
  <2>1. PICK m \in 0 .. N : graphed = 1 .. m
    BY DEF GraphIsWhole
  <2>2. PICK top \in {a, b} : top >= floor /\ a <= top /\ b <= top
    <3>1. s.frontier \union t.frontier = {a, b}
      OBVIOUS
    <3>2. PICK top \in {a, b} : top = Max(s.frontier \union t.frontier)
      BY <1>6, <3>1
    <3>3. top \in Nat
      BY <1>2, CommitsAreFinite
    <3> QED  BY <1>6, <3>1, <3>2, <3>3
  <2>3. top \in graphed
    BY <1>7, <1>8, <2>2
  <2>4. a \in 1 .. N /\ b \in 1 .. N /\ N \in Nat
    BY <1>2, AncestryAssumption DEF Commits
  <2> QED  BY <2>1, <2>2, <2>3, <2>4
<1>9. CASE ~ (x.covered /\ y.covered)
  <2>1. walk'.kind = "merge_bases" /\ walk'.q = w.q /\ walk'.end = "failed" /\ "kind" \in DOMAIN walk'
    BY <1>1, <1>5, <1>9, FailsIs
  <2>2. ~ ({a, b} \subseteq graphed)
    BY <1>7, <1>9
  <2>3. (~ (Asked(walk) \subseteq graphed))'
    BY <1>1, <2>1, <2>2 DEF Asked, Still
  <2> QED  BY <2>1, <2>3 DEF MergeBasesInv, MergeBasesAgree, Agrees
<1>10. ASSUME x.covered, y.covered
       PROVE  /\ Maximal(x.reach \intersect y.reach) = Best(x.reach \intersect y.reach)
              /\ x.reach \intersect y.reach \subseteq CommonAncestors(a, b)
              /\ a # 0 /\ b # 0
  <2>1. a \in graphed /\ Closes(graphed, {})
    BY <1>8, <1>10, GraphedCloses
  <2>2. Reach(a) \subseteq graphed
    BY <1>2, <2>1, ReachFacts DEF GraphIsWhole
  <2>3. PICK common : common = x.reach \intersect y.reach
    OBVIOUS
  <2>4. common \in SUBSET graphed /\ common \subseteq CommonAncestors(a, b)
    BY <1>7, <1>10, <2>2, <2>3 DEF Explores, CommonAncestors
  <2>5. a # 0 /\ b # 0
    BY <1>2, AncestryAssumption DEF Commits
  <2> QED  BY <2>3, <2>4, <2>5, MaximalIsBest
<1>11. CASE x.covered /\ y.covered /\ Common(x, y)
  <2>1. PICK answer : answer = Maximal(x.reach \intersect y.reach)
    OBVIOUS
  <2>2. answer = Best(CommonAncestors(a, b))
    BY <1>2, <1>7, <1>10, <1>11, <2>1, CommonIsEnough DEF GraphIsWhole
  <2>3. Answers(w, answer)
    BY <1>5, <1>11, <2>1
  <2>4. /\ walk'.kind = "merge_bases" /\ walk'.q = w.q /\ walk'.end = "answered"
        /\ walk'.answer = answer /\ "kind" \in DOMAIN walk'
    BY <1>1, <2>3, OverIs DEF Answers
  <2>5. (Best(CommonAncestors(walk.q.a, walk.q.b)))' = answer
    BY <1>1, <2>2, <2>4, ExploresStays
  <2>6. "exhausted" \notin DOMAIN walk'.q
    BY <1>2, <2>4
  <2>7. AllNumbered'
    BY <1>1, <1>10, <1>11, <2>4 DEF AllNumbered, Asked
  <2> QED  BY <2>4, <2>5, <2>6, <2>7 DEF MergeBasesInv, MergeBasesAgree, Agrees
<1>12. CASE /\ x.covered /\ y.covered /\ ~ Common(x, y)
            /\ walk' = Over(w.kind, [a |-> a, b |-> b, exhausted |-> TRUE], Maximal(x.reach \intersect y.reach))
  <2>1. PICK answer, q : answer = Maximal(x.reach \intersect y.reach) /\ q = [a |-> a, b |-> b, exhausted |-> TRUE]
    OBVIOUS
  <2>2. "exhausted" \in DOMAIN q /\ q.a = a /\ q.b = b
    BY <2>1
  <2>3. walk' = Over(w.kind, q, answer)
    BY <1>12, <2>1
  <2>4. walk'.kind = "merge_bases" /\ walk'.q = q /\ walk'.end = "answered" /\ walk'.answer = answer /\ "kind" \in DOMAIN walk'
    BY <1>1, <2>3, OverIs
  <2>5. answer = Best(x.reach \intersect y.reach) /\ x.reach \intersect y.reach \subseteq CommonAncestors(a, b)
    BY <1>10, <1>12, <2>1
  <2>6. answer \subseteq CommonAncestors(a, b) /\ answer = Best(answer)
    BY <2>5 DEF Best
  <2>7. (walk.answer \subseteq CommonAncestors(walk.q.a, walk.q.b) /\ walk.answer = Best(walk.answer))'
    BY <2>2, <2>4, <2>6, ExploresStays
  <2> QED  BY <2>2, <2>4, <2>7 DEF MergeBasesInv, MergeBasesAgree, Agrees
<1>13. CASE /\ x.covered /\ y.covered /\ ~ Common(x, y)
            /\ walk' = [w EXCEPT !.width = Grow(@),
                                 !.side["a"] = [reach |-> x.reach, frontier |-> x.frontier],
                                 !.side["b"] = [reach |-> y.reach, frontier |-> y.frontier]]
  <2>1. PICK f, g : f = [reach |-> x.reach, frontier |-> x.frontier] /\ g = [reach |-> y.reach, frontier |-> y.frontier]
    OBVIOUS
  <2>2. f.reach = x.reach /\ f.frontier = x.frontier /\ g.reach = y.reach /\ g.frontier = y.frontier
    BY <2>1
  <2>3. walk' = [w EXCEPT !.width = Grow(@), !.side["a"] = f, !.side["b"] = g]
    BY <1>13, <2>1
  <2>4. /\ walk'.kind = "merge_bases" /\ walk'.q = w.q /\ walk'.end = "open" /\ walk'.width = Grow(w.width)
        /\ IsOn(walk', MergeBasesFields) /\ "kind" \in DOMAIN walk'
    BY <1>1, <1>2, <2>3 DEF IsOn, MergeBasesFields
  <2>5. IsOn(walk'.side, {"a", "b"}) /\ walk'.side["a"] = f /\ walk'.side["b"] = g
    BY <1>2, <2>3 DEF IsOn, MergeBasesFields
  <2>6. Grow(w.width) \in Nat \ {0}
    BY <1>2, GrowIs
  <2>7. Explores(f.reach, f.frontier, a)' /\ Explores(g.reach, g.frontier, b)'
    BY <1>7, <1>13, <2>2, ExploresStays
  <2>8. f.frontier \union g.frontier # {}
    BY <1>13, <2>2 DEF Common
  <2>9. a \in graphed' /\ b \in graphed'
    BY <1>8, <1>13 DEF Still
  <2>10. MergeBasesOpen(walk)'
    BY <1>1, <1>2, <2>4, <2>5, <2>6, <2>7, <2>8, <2>9 DEF MergeBasesOpen, Commits
  <2> QED  BY <2>4, <2>10 DEF MergeBasesInv, MergeBasesAgree, Agrees
<1> QED  BY <1>5, <1>9, <1>11, <1>12, <1>13

-----------------------------------------------------------------------------
(* first_parent_page                                                       *)

FirstParent(c) == IF parents[c] = <<>> THEN 0 ELSE Head(parents[c])

LEMMA FirstParentIs ==
    ASSUME parents \in AllGraphs, NEW c \in Commits
    PROVE  /\ FirstParent(c) \in 0 .. c - 1 /\ FirstParent(c) \in {0} \union Commits
           /\ FirstParent(c) # 0 => FirstParent(c) \in Range(parents[c])
           /\ FirstParent(c) = 0 <=> parents[c] = <<>>
<1>1. parents[c] \in ParentLists(c)
  BY DEF AllGraphs
<1>2. PICK k \in 0 .. Min({c - 1, MaxParents}) : parents[c] \in [1 .. k -> 1 .. (c - 1)]
  BY <1>1 DEF ParentLists
<1>3. c \in 1 .. N /\ N \in Nat
  BY AncestryAssumption DEF Commits
<1>4. Min({c - 1, MaxParents}) \in Nat
  <2>1. {c - 1, MaxParents} \in SUBSET Nat
    BY <1>3, AncestryAssumption
  <2> QED  BY <2>1, MinOfNumbers
<1>5. k \in Nat
  BY <1>4
<1>6. parents[c] \in Seq(1 .. (c - 1))
  <2>1. parents[c] \in UNION {[1 .. n -> 1 .. (c - 1)] : n \in Nat}
    BY <1>2, <1>5
  <2> QED  BY <2>1, SeqDef
<1>7. CASE parents[c] = <<>>
  BY <1>3, <1>7 DEF FirstParent
<1>8. CASE parents[c] # <<>>
  <2>1. 1 \in DOMAIN parents[c] /\ Head(parents[c]) = parents[c][1] /\ Head(parents[c]) \in 1 .. (c - 1)
    <3>1. PICK S, p : S = 1 .. (c - 1) /\ p = parents[c]
      OBVIOUS
    <3>2. p \in Seq(S) /\ p # <<>>
      BY <1>6, <1>8, <3>1
    <3>3. Head(p) \in S /\ Head(p) = p[1] /\ Len(p) \in Nat \ {0} /\ DOMAIN p = 1 .. Len(p)
      BY <3>2, HeadTailProperties, EmptySeq, LenProperties
    <3> QED  BY <3>1, <3>3
  <2>2. Head(parents[c]) \in Range(parents[c])
    BY <2>1 DEF Range
  <2> QED  BY <1>3, <1>8, <2>1, <2>2 DEF FirstParent, Commits
<1> QED  BY <1>7, <1>8

\* A line of first parents from a tip, and what comes after it.
Line(s, tip) ==
    /\ s \in Seq(Commits) /\ (s # <<>> => s[1] = tip)
    /\ \A i \in 1 .. Len(s) - 1 : s[i + 1] = FirstParent(s[i])

After(s, tip) == IF s = <<>> THEN tip ELSE FirstParent(s[Len(s)])

LEMMA LineGrows ==
    ASSUME NEW tip, NEW s, Line(s, tip), After(s, tip) \in Commits,
           NEW t \in Seq(Commits), Len(t) = Len(s) + 1, \A i \in 1 .. Len(s) : t[i] = s[i], t[Len(t)] = After(s, tip)
    PROVE  Line(t, tip) /\ t # <<>> /\ After(t, tip) = FirstParent(After(s, tip))
<1>1. s \in Seq(Commits) /\ Len(s) \in Nat /\ t # <<>> /\ (s = <<>> <=> Len(s) = 0)
  BY DEF Line
<1>2. t[1] = tip
  BY <1>1 DEF Line, After
<1>3. ASSUME NEW i \in 1 .. Len(t) - 1 PROVE t[i + 1] = FirstParent(t[i])
  <2>1. CASE i = Len(s)
    <3>1. t[i + 1] = After(s, tip) /\ t[i] = s[Len(s)] /\ s # <<>>
      BY <1>1, <2>1
    <3> QED  BY <3>1 DEF After
  <2>2. CASE i # Len(s)
    <3>1. i \in 1 .. Len(s) - 1 /\ i + 1 \in 1 .. Len(s) /\ i \in 1 .. Len(s)
      BY <1>1, <2>2
    <3> QED  BY <3>1 DEF Line
  <2> QED  BY <2>1, <2>2
<1> QED  BY <1>1, <1>2, <1>3 DEF Line, After

LEMMA LineDescends ==
    ASSUME parents \in AllGraphs, NEW tip \in Commits, NEW s, Line(s, tip)
    PROVE  \A i \in 1 .. Len(s) : s[i] + i <= N + 1
<1>1. s \in Seq(Commits) /\ N \in Nat /\ Commits = 1 .. N
  BY AncestryAssumption DEF Line, Commits
<1> DEFINE T == {n \in Nat : n + 1 \in 1 .. Len(s) => s[n + 1] + (n + 1) <= N + 1}
<1>2. 0 \in T
  BY <1>1 DEF Line
<1>3. ASSUME NEW n \in T PROVE n + 1 \in T
  <2> SUFFICES ASSUME (n + 1) + 1 \in 1 .. Len(s) PROVE s[(n + 1) + 1] + ((n + 1) + 1) <= N + 1
    OBVIOUS
  <2>1. n \in Nat /\ n + 1 \in 1 .. Len(s) - 1 /\ n + 1 \in 1 .. Len(s)
    BY <1>1
  <2>2. s[(n + 1) + 1] = FirstParent(s[n + 1]) /\ s[n + 1] + (n + 1) <= N + 1
    BY <2>1 DEF Line
  <2>3. s[n + 1] \in Commits /\ s[n + 1] \in 1 .. N
    BY <1>1, <2>1
  <2>4. FirstParent(s[n + 1]) \in 0 .. s[n + 1] - 1
    BY <2>3, FirstParentIs
  <2> QED  BY <1>1, <2>1, <2>2, <2>3, <2>4
<1>4. T = Nat
  <2>1. T \in SUBSET Nat
    OBVIOUS
  <2> HIDE DEF T
  <2> QED  BY <1>2, <1>3, <2>1, Counting
<1> SUFFICES ASSUME NEW i \in 1 .. Len(s) PROVE s[i] + i <= N + 1
  OBVIOUS
<1>5. i - 1 \in T /\ (i - 1) + 1 = i
  <2>1. i - 1 \in Nat /\ (i - 1) + 1 = i
    BY <1>1
  <2> HIDE DEF T
  <2> QED  BY <1>4, <2>1
<1> QED  BY <1>5

\* There is one line from a tip.
LEMMA LinesAgree ==
    ASSUME parents \in AllGraphs, NEW tip, NEW s, NEW t, Line(s, tip), Line(t, tip)
    PROVE  \A i \in 1 .. Len(s) : i <= Len(t) => s[i] = t[i]
<1>1. s \in Seq(Commits) /\ t \in Seq(Commits) /\ Len(s) \in Nat /\ Len(t) \in Nat
  BY DEF Line
<1> DEFINE T == {n \in Nat : n + 1 \in 1 .. Len(s) /\ n + 1 <= Len(t) => s[n + 1] = t[n + 1]}
<1>2. 0 \in T
  BY <1>1 DEF Line
<1>3. ASSUME NEW n \in T PROVE n + 1 \in T
  <2> SUFFICES ASSUME (n + 1) + 1 \in 1 .. Len(s), (n + 1) + 1 <= Len(t) PROVE s[(n + 1) + 1] = t[(n + 1) + 1]
    OBVIOUS
  <2>1. n \in Nat /\ n + 1 \in 1 .. Len(s) - 1 /\ n + 1 \in 1 .. Len(t) - 1 /\ n + 1 \in 1 .. Len(s) /\ n + 1 <= Len(t)
    BY <1>1
  <2> QED  BY <2>1 DEF Line
<1>4. T = Nat
  <2>1. T \in SUBSET Nat
    OBVIOUS
  <2> HIDE DEF T
  <2> QED  BY <1>2, <1>3, <2>1, Counting
<1> SUFFICES ASSUME NEW i \in 1 .. Len(s), i <= Len(t) PROVE s[i] = t[i]
  OBVIOUS
<1>5. i - 1 \in T /\ (i - 1) + 1 = i
  <2>1. i - 1 \in Nat /\ (i - 1) + 1 = i
    BY <1>1
  <2> HIDE DEF T
  <2> QED  BY <1>4, <2>1
<1> QED  BY <1>5

\* A line that has as much as was asked for, or all there is, is the page.
LEMMA LineIsPage ==
    ASSUME parents \in AllGraphs, NEW tip \in Commits, NEW limit \in Nat \ {0}, NEW s, Line(s, tip), Len(s) <= limit,
           Len(s) = limit \/ After(s, tip) = 0,
           NEW t, Line(t, tip), t # <<>>, After(t, tip) = 0
    PROVE  s = SubSeq(t, 1, Min({limit, Len(t)}))
<1>1. s \in Seq(Commits) /\ t \in Seq(Commits) /\ Len(s) \in Nat /\ Len(t) \in Nat \ {0} /\ (s = <<>> <=> Len(s) = 0)
  BY DEF Line
<1>2. 0 \notin Commits
  BY AncestryAssumption DEF Commits
<1>3. Len(s) <= Len(t)
  <2> SUFFICES ASSUME Len(t) < Len(s) PROVE FALSE
    BY <1>1
  <2>1. Len(t) \in 1 .. Len(s) - 1 /\ Len(t) \in 1 .. Len(s) /\ Len(t) <= Len(t) /\ Len(t) + 1 \in 1 .. Len(s)
    BY <1>1
  <2>2. s[Len(t)] = t[Len(t)] /\ s[Len(t) + 1] = FirstParent(s[Len(t)]) /\ s[Len(t) + 1] \in Commits
    <3>1. s[Len(t)] = t[Len(t)]
      BY <2>1, LinesAgree
    <3>2. s[Len(t) + 1] = FirstParent(s[Len(t)])
      BY <2>1 DEF Line
    <3>3. s[Len(t) + 1] \in Commits
      BY <1>1, <2>1, ElementOfSeq
    <3> QED  BY <3>1, <3>2, <3>3
  <2> QED  BY <1>2, <2>2 DEF After
<1>4. ASSUME After(s, tip) = 0 PROVE Len(s) = Len(t)
  <2>1. s # <<>> /\ Len(s) # 0
    BY <1>1, <1>2, <1>4 DEF After
  <2> SUFFICES ASSUME Len(s) < Len(t) PROVE FALSE
    BY <1>1, <1>3
  <2>2. Len(s) \in 1 .. Len(t) - 1 /\ Len(s) \in 1 .. Len(s) /\ Len(s) + 1 \in 1 .. Len(t)
    BY <1>1, <2>1
  <2>3. s[Len(s)] = t[Len(s)] /\ t[Len(s) + 1] = FirstParent(t[Len(s)]) /\ t[Len(s) + 1] \in Commits
    <3>1. s[Len(s)] = t[Len(s)]
      BY <1>3, <2>2, LinesAgree
    <3>2. t[Len(s) + 1] = FirstParent(t[Len(s)])
      BY <2>2 DEF Line
    <3>3. t[Len(s) + 1] \in Commits
      BY <1>1, <2>2, ElementOfSeq
    <3> QED  BY <3>1, <3>2, <3>3
  <2> QED  BY <1>2, <1>4, <2>1, <2>3 DEF After
<1>5. Min({limit, Len(t)}) = Len(s)
  <2>1. {limit, Len(t)} \in SUBSET Nat /\ {limit, Len(t)} # {}
    BY <1>1
  <2>2. PICK least : least = Min({limit, Len(t)})
    OBVIOUS
  <2>3. least \in {limit, Len(t)} /\ least <= limit /\ least <= Len(t)
    BY <2>1, <2>2, MinOfNumbers
  <2> QED  BY <1>1, <1>3, <1>4, <2>2, <2>3
<1>6. \A i \in 1 .. Len(s) : t[i] \in Commits /\ s[i] = t[i]
  BY <1>1, <1>3, LinesAgree
<1>7. PICK u : u = SubSeq(t, 1, Len(s))
  OBVIOUS
<1>8. u \in Seq(Commits) /\ Len(u) = Len(s) /\ \A i \in 1 .. Len(s) : u[i] = t[i]
  BY <1>1, <1>3, <1>7
<1>9. s = u
  BY <1>1, <1>6, <1>8, SeqEqual
<1> QED  BY <1>5, <1>7, <1>9

\* The reference: all first parents of the tip, which are N at most.
LEMMA FirstParentsAre ==
    ASSUME parents \in AllGraphs, NEW tip \in Commits, NEW k
    PROVE  \E t : /\ Line(t, tip) /\ t # <<>> /\ After(t, tip) = 0
                  /\ FirstParents(tip, k) = SubSeq(t, 1, Min({k, Len(t)}))
<1> DEFINE Onto(s) == IF parents[Last(s)] = <<>> THEN s ELSE Append(s, Head(parents[Last(s)]))
           Rec(f) == [n \in 1 .. N |->
                        LET before == f[n - 1]
                        IN  IF n = 1 THEN <<tip>>
                            ELSE IF parents[Last(before)] = <<>> THEN before
                            ELSE Append(before, Head(parents[Last(before)]))]
           line == CHOOSE f : f = Rec(f)
           V == {s \in Seq(Commits) : s # <<>>}
           F == [x \in V \X Nat |-> Onto(x[1])]
<1>1. FirstParents(tip, k) = SubSeq(line[N], 1, Min({k, Len(line[N])}))
  BY DEF FirstParents
<1>2. N \in Nat \ {0} /\ N - 1 \in Nat
  BY AncestryAssumption DEF Commits
<1>3. ASSUME NEW s \in V
      PROVE  /\ Len(s) \in Nat \ {0} /\ Last(s) = s[Len(s)] /\ s[Len(s)] \in Commits
             /\ FirstParent(Last(s)) = 0 => Onto(s) = s
             /\ FirstParent(Last(s)) # 0 => /\ FirstParent(Last(s)) \in Commits
                                            /\ Onto(s) = Append(s, FirstParent(Last(s)))
             /\ Onto(s) \in V
  <2>1. s \in Seq(Commits) /\ s # <<>>
    OBVIOUS
  <2>2. Len(s) \in Nat \ {0} /\ Last(s) = s[Len(s)] /\ s[Len(s)] \in Commits
    <3>1. Len(s) \in Nat \ {0}
      BY <2>1, EmptySeq
    <3>2. s[Len(s)] \in Commits
      BY <2>1, <3>1, ElementOfSeq
    <3> QED  BY <3>1, <3>2 DEF Last
  <2>3. FirstParent(Last(s)) \in {0} \union Commits /\ (FirstParent(Last(s)) = 0 <=> parents[Last(s)] = <<>>)
    BY <2>2, FirstParentIs
  <2>4. CASE FirstParent(Last(s)) = 0
    <3>1. Onto(s) = s
      BY <2>3, <2>4
    <3> QED  BY <2>1, <2>2, <2>4, <3>1
  <2>5. CASE FirstParent(Last(s)) # 0
    <3>1. Onto(s) = Append(s, FirstParent(Last(s))) /\ FirstParent(Last(s)) \in Commits
      BY <2>3, <2>5 DEF FirstParent
    <3>2. Append(s, FirstParent(Last(s))) \in V
      BY <2>1, <3>1, AppendProperties
    <3> HIDE DEF Onto
    <3> QED  BY <2>2, <2>5, <3>1, <3>2
  <2> QED  BY <2>4, <2>5
<1>4. F \in [V \X Nat -> V]
  <2>1. ASSUME NEW x \in V \X Nat PROVE Onto(x[1]) \in V
    <3>1. x[1] \in V
      OBVIOUS
    <3> HIDE DEF V, Onto
    <3> QED  BY <1>3, <3>1
  <2> HIDE DEF V, Onto
  <2> QED  BY <2>1
<1>5. <<tip>> \in V
  OBVIOUS
<1>6. PICK f \in [0 .. N - 1 -> V] : Recurses(f, N - 1, <<tip>>, F)
  <2> HIDE DEF V, F
  <2> QED  BY <1>2, <1>4, <1>5, Recursion
<1>7. ASSUME NEW h, NEW n \in 1 .. N
      PROVE  Rec(h)[n] = IF n = 1 THEN <<tip>> ELSE Onto(h[n - 1])
  OBVIOUS
<1>8. \E h : h = Rec(h)
  <2> DEFINE h == [n \in 1 .. N |-> f[n - 1]]
  <2>1. ASSUME NEW n \in 1 .. N PROVE h[n] = Rec(h)[n]
    <3>1. n - 1 \in 0 .. N - 1 /\ h[n] = f[n - 1] /\ n \in Nat
      BY <1>2
    <3>2. CASE n = 1
      <4>1. f[0] = <<tip>>
        <5>1. 0 \in 0 .. N - 1
          BY <1>2
        <5> HIDE DEF F, V
        <5> QED  BY <1>6, <5>1 DEF Recurses
      <4> QED  BY <1>7, <3>1, <3>2, <4>1
    <3>3. CASE n # 1
      <4>1. n - 1 # 0 /\ (n - 1) - 1 \in 0 .. N - 1 /\ n - 1 \in 1 .. N /\ n - 1 \in Nat
        BY <1>2, <3>1, <3>3
      <4>2. f[n - 1] = F[<<f[(n - 1) - 1], n - 1>>]
        <5> HIDE DEF F, V
        <5> QED  BY <1>6, <3>1, <4>1 DEF Recurses
      <4>3. PICK prev \in V : prev = f[(n - 1) - 1]
        <5> HIDE DEF V
        <5> QED  BY <1>6, <4>1
      <4>4. f[n - 1] = Onto(prev)
        <5>1. <<prev, n - 1>> \in V \X Nat /\ <<prev, n - 1>>[1] = prev
          BY <4>1
        <5> HIDE DEF V, Onto
        <5> QED  BY <4>2, <4>3, <5>1
      <4>5. h[n - 1] = prev
        BY <4>1, <4>3
      <4> HIDE DEF h, Onto, Rec
      <4> QED  BY <1>7, <3>1, <3>3, <4>4, <4>5
    <3> QED  BY <3>2, <3>3
  <2>2. Rec(h) = [n \in 1 .. N |-> Rec(h)[n]]
    OBVIOUS
  <2> HIDE DEF Rec
  <2>3. h = Rec(h)
    BY <2>1, <2>2
  <2> QED  BY <2>3
<1>9. line = Rec(line)
  <2> HIDE DEF Rec
  <2> QED  BY <1>8
<1> HIDE DEF line, F
<1> DEFINE Good(s, n) == Line(s, tip) /\ s \in V /\ (Len(s) = n \/ After(s, tip) = 0)
           T == {n \in Nat : n + 1 \in 1 .. N => Good(line[n + 1], n + 1)}
<1>10. 0 \in T
  <2>1. line[1] = <<tip>>
    <3>1. 1 \in 1 .. N
      BY <1>2
    <3> HIDE DEF Rec
    <3> QED  BY <1>7, <1>9, <3>1
  <2>2. Good(<<tip>>, 1)
    BY DEF Line
  <2> HIDE DEF Good
  <2> QED  BY <2>1, <2>2
<1>11. ASSUME NEW n \in T PROVE n + 1 \in T
  <2> SUFFICES ASSUME (n + 1) + 1 \in 1 .. N PROVE Good(line[(n + 1) + 1], (n + 1) + 1)
    OBVIOUS
  <2>1. n \in Nat /\ n + 1 \in 1 .. N /\ (n + 1) + 1 # 1 /\ ((n + 1) + 1) - 1 = n + 1
    BY <1>2
  <2>2. PICK s : s = line[n + 1] /\ Good(s, n + 1)
    BY <2>1
  <2>3. line[(n + 1) + 1] = Onto(s)
    <3> HIDE DEF Rec, Onto
    <3> QED  BY <1>7, <1>9, <2>1, <2>2
  <2>4. s \in V /\ s # <<>> /\ Line(s, tip) /\ s \in Seq(Commits)
    BY <2>2
  <2>5. After(s, tip) = FirstParent(Last(s))
    BY <1>3, <2>4 DEF After
  <2>6. CASE FirstParent(Last(s)) = 0
    <3>1. Onto(s) = s
      BY <1>3, <2>4, <2>6
    <3>2. Good(s, (n + 1) + 1)
      BY <2>4, <2>5, <2>6
    <3> HIDE DEF Onto, Good
    <3> QED  BY <2>3, <3>1, <3>2
  <2>7. CASE FirstParent(Last(s)) # 0
    <3>1. PICK t : t = Onto(s)
      OBVIOUS
    <3>2. PICK next \in Commits : next = FirstParent(Last(s)) /\ t = Append(s, next) /\ t \in V
      <4> HIDE DEF Onto, V
      <4> QED  BY <1>3, <2>4, <2>7, <3>1
    <3>3. t \in Seq(Commits) /\ Len(t) = Len(s) + 1 /\ (\A i \in 1 .. Len(s) : t[i] = s[i]) /\ t[Len(t)] = next
      BY <2>4, <3>2, AppendProperties
    <3>4. Line(t, tip)
      BY <2>4, <2>5, <3>2, <3>3, LineGrows
    <3>5. Len(s) = n + 1
      BY <2>2, <2>5, <2>7
    <3> HIDE DEF Onto
    <3> QED  BY <2>3, <3>1, <3>2, <3>3, <3>4, <3>5
  <2> QED  BY <2>6, <2>7
<1>12. T = Nat
  <2>1. T \in SUBSET Nat
    OBVIOUS
  <2> HIDE DEF T
  <2> QED  BY <1>10, <1>11, <2>1, Counting
<1>13. PICK t : t = line[N] /\ Good(t, N)
  <2>1. N - 1 \in T /\ (N - 1) + 1 = N /\ N \in 1 .. N
    <3> HIDE DEF T
    <3> QED  BY <1>2, <1>12
  <2> HIDE DEF Good
  <2> QED  BY <2>1
<1>14. Line(t, tip) /\ t # <<>> /\ t \in Seq(Commits) /\ t \in V
  BY <1>13
<1>15. After(t, tip) = 0
  <2> SUFFICES ASSUME Len(t) = N PROVE After(t, tip) = 0
    BY <1>13
  <2>1. N \in 1 .. Len(t)
    BY <1>2
  <2>2. t[N] + N <= N + 1
    BY <1>14, <2>1, LineDescends
  <2>3. t[N] \in Commits /\ t[N] \in Nat
    BY <1>14, <2>1, ElementOfSeq, CommitsAreFinite
  <2>4. t[N] <= 1
    BY <1>2, <2>2, <2>3
  <2>5. FirstParent(t[N]) \in 0 .. t[N] - 1
    BY <2>3, FirstParentIs
  <2>6. FirstParent(t[N]) = 0
    BY <2>3, <2>4, <2>5
  <2> QED  BY <1>14, <2>6 DEF After
<1> QED  BY <1>1, <1>13, <1>14, <1>15

\* follow: one step.
FollowStep(prev, floor) ==
    IF prev.missing \/ prev.at = 0 \/ prev.at < floor THEN prev
    ELSE IF prev.at \notin graphed THEN [prev EXCEPT !.missing = TRUE]
    ELSE [page |-> Append(prev.page, prev.at), missing |-> FALSE,
          at |-> IF parents[prev.at] = <<>> THEN 0 ELSE Head(parents[prev.at])]

Follows == [page : Seq(Commits), at : 0 .. N, missing : BOOLEAN]

LEMMA FollowSteps ==
    ASSUME parents \in AllGraphs, NEW prev \in Follows, NEW floor, NEW next, next = FollowStep(prev, floor)
    PROVE  /\ next \in Follows
           /\ \/ next = prev
              \/ /\ next.page = prev.page /\ next.at = prev.at /\ next.missing
                 /\ prev.at \in Commits \ graphed
              \/ /\ prev.at \in Commits \intersect graphed /\ ~ next.missing
                 /\ next.page = Append(prev.page, prev.at) /\ next.at = FirstParent(prev.at)
<1>1. prev.page \in Seq(Commits) /\ prev.at \in 0 .. N /\ prev.missing \in BOOLEAN /\ N \in Nat
  BY AncestryAssumption DEF Follows
<1>2. CASE prev.missing \/ prev.at = 0 \/ prev.at < floor
  BY <1>2 DEF FollowStep
<1>3. CASE ~ (prev.missing \/ prev.at = 0 \/ prev.at < floor) /\ prev.at \notin graphed
  <2>1. prev.at \in Commits \ graphed
    BY <1>1, <1>3 DEF Commits
  <2>2. next = [prev EXCEPT !.missing = TRUE]
    BY <1>3 DEF FollowStep
  <2>3. next \in Follows /\ next.page = prev.page /\ next.at = prev.at /\ next.missing
    BY <2>2 DEF Follows
  <2> QED  BY <2>1, <2>3
<1>4. CASE ~ (prev.missing \/ prev.at = 0 \/ prev.at < floor) /\ prev.at \in graphed
  <2>1. prev.at \in Commits \intersect graphed
    BY <1>1, <1>4 DEF Commits
  <2>2. next = [page |-> Append(prev.page, prev.at), missing |-> FALSE, at |-> FirstParent(prev.at)]
    BY <1>4 DEF FollowStep, FirstParent
  <2>3. next.page = Append(prev.page, prev.at) /\ next.missing = FALSE /\ next.at = FirstParent(prev.at)
    BY <2>2
  <2>4. Append(prev.page, prev.at) \in Seq(Commits) /\ FirstParent(prev.at) \in 0 .. N
    <3>1. FirstParent(prev.at) \in {0} \union Commits
      BY <2>1, FirstParentIs
    <3> QED  BY <1>1, <2>1, <3>1, AppendProperties DEF Commits
  <2>5. next \in Follows
    BY <2>2, <2>4 DEF Follows
  <2> QED  BY <2>1, <2>3, <2>5
<1> QED  BY <1>2, <1>3, <1>4

\* What is taken goes on from the page there is, and is no more than fits.
LEMMA FollowIs ==
    ASSUME parents \in AllGraphs, NEW tip \in Commits, NEW page, Line(page, tip), After(page, tip) \in Commits,
           NEW floor, NEW room \in Nat, NEW got, got = Follow(After(page, tip), floor, room)
    PROVE  /\ got.missing \in BOOLEAN /\ got.page \in Seq(Commits) /\ Len(got.page) <= room
           /\ Line(page \o got.page, tip) /\ got.at = After(page \o got.page, tip) /\ got.at \in 0 .. N
           /\ got.missing => got.at \in Commits \ graphed
<1> DEFINE start == [page |-> <<>>, at |-> After(page, tip), missing |-> FALSE]
           Rec(f) == [k \in 0 .. room |->
                        LET prev == f[k - 1]
                        IN  IF k = 0 THEN [page |-> <<>>, at |-> After(page, tip), missing |-> FALSE]
                            ELSE IF prev.missing \/ prev.at = 0 \/ prev.at < floor THEN prev
                            ELSE IF prev.at \notin graphed THEN [prev EXCEPT !.missing = TRUE]
                            ELSE [page |-> Append(prev.page, prev.at), missing |-> FALSE,
                                  at |-> IF parents[prev.at] = <<>> THEN 0 ELSE Head(parents[prev.at])]]
           from == CHOOSE f : f = Rec(f)
           F == [x \in Follows \X Nat |-> FollowStep(x[1], floor)]
<1>1. got = from[room]
  BY DEF Follow
<1>2. ASSUME NEW f, NEW k \in 0 .. room
      PROVE  Rec(f)[k] = IF k = 0 THEN start ELSE FollowStep(f[k - 1], floor)
  BY DEF FollowStep
<1>3. start \in Follows /\ start.page = <<>> /\ start.at = After(page, tip) /\ start.missing = FALSE
  <2>1. After(page, tip) \in 0 .. N
    BY AncestryAssumption DEF Commits
  <2>2. start \in Follows
    BY <2>1 DEF Follows
  <2> QED  BY <2>2
<1>4. F \in [Follows \X Nat -> Follows]
  <2>1. ASSUME NEW x \in Follows \X Nat PROVE FollowStep(x[1], floor) \in Follows
    BY FollowSteps
  <2> QED  BY <2>1
<1> HIDE DEF start, Rec
<1>5. PICK f \in [0 .. room -> Follows] : Recurses(f, room, start, F)
  <2> HIDE DEF F
  <2> QED  BY <1>3, <1>4, Recursion
<1>6. f = Rec(f)
  <2>1. ASSUME NEW k \in 0 .. room PROVE f[k] = Rec(f)[k]
    <3>1. CASE k = 0
      <4> HIDE DEF F
      <4> QED  BY <1>2, <1>5, <3>1 DEF Recurses
    <3>2. CASE k # 0
      <4>1. k - 1 \in 0 .. room /\ k \in Nat
        BY <3>2
      <4>2. PICK prev \in Follows : prev = f[k - 1]
        BY <1>5, <4>1
      <4>3. f[k] = F[<<prev, k>>]
        <5> HIDE DEF F
        <5> QED  BY <1>5, <3>2, <4>2 DEF Recurses
      <4>4. <<prev, k>> \in Follows \X Nat /\ <<prev, k>>[1] = prev
        BY <4>1
      <4>5. f[k] = FollowStep(prev, floor)
        BY <4>3, <4>4
      <4> QED  BY <1>2, <3>2, <4>2, <4>5
    <3> QED  BY <3>1, <3>2
  <2>2. Rec(f) = [k \in 0 .. room |-> Rec(f)[k]]
    BY DEF Rec
  <2> QED  BY <1>5, <2>1, <2>2
<1>7. from = Rec(from)
  BY <1>6
<1> HIDE DEF from, F
<1> DEFINE Good(r, k) ==
             /\ r \in Follows /\ Len(r.page) <= k
             /\ Line(page \o r.page, tip) /\ r.at = After(page \o r.page, tip)
             /\ r.missing => r.at \in Commits \ graphed
           T == {k \in Nat : k \in 0 .. room => Good(from[k], k)}
<1>8. page \in Seq(Commits)
  BY DEF Line
<1>9. 0 \in T
  <2>1. from[0] = start
    BY <1>2, <1>7
  <2>2. page \o <<>> = page
    BY <1>8
  <2>3. Good(start, 0)
    BY <1>3, <2>2
  <2> HIDE DEF Good
  <2> QED  BY <2>1, <2>3
<1>10. ASSUME NEW k \in T PROVE k + 1 \in T
  <2> SUFFICES ASSUME k + 1 \in 0 .. room PROVE Good(from[k + 1], k + 1)
    OBVIOUS
  <2>1. k \in Nat /\ k \in 0 .. room /\ (k + 1) - 1 = k /\ k + 1 # 0
    OBVIOUS
  <2>2. PICK prev : prev = from[k] /\ Good(prev, k)
    BY <2>1
  <2>3. PICK next : next = from[k + 1] /\ next = FollowStep(prev, floor)
    BY <1>2, <1>7, <2>1, <2>2
  <2>4. prev.page \in Seq(Commits) /\ Len(prev.page) \in Nat /\ prev \in Follows
    BY <2>2 DEF Follows
  <2>5. /\ next \in Follows
        /\ \/ next = prev
           \/ /\ next.page = prev.page /\ next.at = prev.at /\ next.missing
              /\ prev.at \in Commits \ graphed
           \/ /\ prev.at \in Commits \intersect graphed /\ ~ next.missing
              /\ next.page = Append(prev.page, prev.at) /\ next.at = FirstParent(prev.at)
    BY <2>3, <2>4, FollowSteps
  <2>6. CASE next = prev
    BY <2>1, <2>2, <2>3, <2>4, <2>6
  <2>7. CASE next.page = prev.page /\ next.at = prev.at /\ next.missing /\ prev.at \in Commits \ graphed
    BY <2>1, <2>2, <2>3, <2>4, <2>5, <2>7
  <2>8. CASE /\ prev.at \in Commits \intersect graphed /\ ~ next.missing
             /\ next.page = Append(prev.page, prev.at) /\ next.at = FirstParent(prev.at)
    <3>1. PICK s, t, at : s = page \o prev.page /\ t = page \o next.page /\ at = prev.at
      OBVIOUS
    <3>2. s \in Seq(Commits) /\ Len(s) = Len(page) + Len(prev.page) /\ Line(s, tip) /\ at = After(s, tip) /\ at \in Commits
      BY <1>8, <2>2, <2>4, <2>8, <3>1, ConcatProperties
    <3>3. /\ next.page \in Seq(Commits) /\ Len(next.page) = Len(prev.page) + 1
          /\ \A i \in 1 .. Len(prev.page) : next.page[i] = prev.page[i]
          /\ next.page[Len(next.page)] = at
      BY <2>4, <2>8, <3>1, AppendProperties
    <3>4. t \in Seq(Commits) /\ Len(t) = Len(s) + 1 /\ Len(page) \in Nat
      <4>1. t \in Seq(Commits) /\ Len(t) = Len(page) + Len(next.page)
        BY <1>8, <3>1, <3>3, ConcatProperties
      <4>2. Len(page) \in Nat
        BY <1>8
      <4> QED  BY <2>4, <3>2, <3>3, <4>1, <4>2
    <3>5. ASSUME NEW i \in 1 .. Len(s) PROVE t[i] = s[i]
      <4>1. CASE i <= Len(page)
        BY <1>8, <2>4, <3>1, <3>2, <3>3, <3>4, <4>1, ConcatProperties
      <4>2. CASE ~ (i <= Len(page))
        <5>1. i - Len(page) \in 1 .. Len(prev.page)
          BY <2>4, <3>2, <3>4, <4>2
        <5>2. t[i] = next.page[i - Len(page)] /\ s[i] = prev.page[i - Len(page)]
          BY <1>8, <2>4, <3>1, <3>2, <3>3, <3>4, <4>2, <5>1, ConcatProperties
        <5> QED  BY <3>3, <5>1, <5>2
      <4> QED  BY <4>1, <4>2
    <3>6. t[Len(t)] = at
      <4>1. Len(t) \in 1 .. Len(page) + Len(next.page) /\ ~ (Len(t) <= Len(page)) /\ Len(t) - Len(page) = Len(next.page)
        BY <2>4, <3>2, <3>3, <3>4
      <4>2. t[Len(t)] = next.page[Len(t) - Len(page)]
        BY <1>8, <3>1, <3>3, <4>1, ConcatProperties
      <4> QED  BY <3>3, <4>1, <4>2
    <3>7. Line(t, tip) /\ After(t, tip) = FirstParent(at)
      BY <3>2, <3>4, <3>5, <3>6, LineGrows
    <3> QED  BY <2>1, <2>2, <2>3, <2>4, <2>5, <2>8, <3>1, <3>3, <3>7
  <2> QED  BY <2>5, <2>6, <2>7, <2>8
<1>11. T = Nat
  <2>1. T \in SUBSET Nat
    OBVIOUS
  <2> HIDE DEF T
  <2> QED  BY <1>9, <1>10, <2>1, Counting
<1>12. Good(got, room)
  <2>1. room \in T /\ room \in 0 .. room
    <3> HIDE DEF T
    <3> QED  BY <1>11
  <2> HIDE DEF Good
  <2> QED  BY <1>1, <2>1
<1> QED  BY <1>12 DEF Follows

PageFields == {"kind", "q", "end", "page", "at"}

\* The page so far is the head of the line, and `at' is what comes next.
PageOpen(w) ==
    /\ IsOn(w, PageFields) /\ w.q.tip \in Commits /\ w.q.limit \in Nat \ {0}
    /\ Line(w.page, w.q.tip) /\ Len(w.page) < w.q.limit
    /\ w.at = After(w.page, w.q.tip) /\ w.at \in Commits

PageInv == walk.kind = "page" /\ walk.end = "open" => PageOpen(walk)

LEMMA LineStays ==
    ASSUME Still
    PROVE  /\ \A s, tip : Line(s, tip)' = Line(s, tip) /\ After(s, tip)' = After(s, tip)
           /\ \A tip, k : FirstParents(tip, k)' = FirstParents(tip, k)
<1>1. \A c : FirstParent(c)' = FirstParent(c)
  BY DEF Still, FirstParent
<1>2. \A s, tip : Line(s, tip)' = Line(s, tip) /\ After(s, tip)' = After(s, tip)
  BY <1>1 DEF Line, After, Commits
<1>3. \A tip, k : FirstParents(tip, k)' = FirstParents(tip, k)
  BY DEF Still, FirstParents
<1> QED  BY <1>2, <1>3

LEMMA AskPageKeeps ==
    ASSUME GraphIsWhole, Still, NEW tip \in 0 .. N, NEW limit \in 0 .. N, AskPage(tip, limit)
    PROVE  walk'.kind = "page" /\ "kind" \in DOMAIN walk' /\ PageInv' /\ PageAgrees'
<1> DEFINE q == [tip |-> tip, limit |-> limit]
<1>1. q.tip = tip /\ q.limit = limit
  OBVIOUS
<1>2. CASE limit = 0 \/ ~ IsNumbered(tip)
  <2>1. walk' = Over("page", q, <<>>)
    BY <1>2 DEF AskPage
  <2> HIDE DEF q
  <2>2. walk'.kind = "page" /\ walk'.q = q /\ walk'.end = "answered" /\ walk'.answer = <<>> /\ "kind" \in DOMAIN walk'
    BY <2>1, OverIs
  <2>3. ~ (AllNumbered /\ walk.q.limit # 0)'
    BY <1>1, <1>2, <2>2 DEF AllNumbered, Asked, IsNumbered
  <2> QED  BY <2>2, <2>3 DEF PageInv, PageAgrees, Agrees
<1>3. CASE limit # 0 /\ IsNumbered(tip)
  <2>1. walk' = [kind |-> "page", q |-> q, end |-> "open", page |-> <<>>, at |-> tip]
    BY <1>3 DEF AskPage
  <2> HIDE DEF q
  <2>2. /\ walk'.kind = "page" /\ walk'.q = q /\ walk'.end = "open" /\ walk'.page = <<>> /\ walk'.at = tip
        /\ IsOn(walk', PageFields) /\ "kind" \in DOMAIN walk'
    BY <2>1 DEF IsOn, PageFields
  <2>3. tip \in Commits /\ limit \in Nat \ {0}
    BY <1>3, AncestryAssumption DEF Commits, IsNumbered
  <2>4. Line(<<>>, tip) /\ After(<<>>, tip) = tip
    BY DEF Line, After
  <2>5. Line(<<>>, tip)' /\ After(<<>>, tip)' = tip
    BY <2>4, LineStays
  <2>6. Len(<<>>) < limit
    BY <2>3
  <2>7. PageOpen(walk)'
    BY <1>1, <2>2, <2>3, <2>5, <2>6 DEF PageOpen, Commits
  <2> QED  BY <2>2, <2>7 DEF PageInv, PageAgrees, Agrees
<1> QED  BY <1>2, <1>3

\* A line from a commit with an entry has only commits with an entry.
LEMMA LineIsGraphed ==
    ASSUME GraphIsWhole, NEW tip \in graphed, NEW s, Line(s, tip)
    PROVE  After(s, tip) \in {0} \union graphed
<1>1. s \in Seq(Commits) /\ Len(s) \in Nat /\ graphed \subseteq Commits /\ Closes(graphed, {})
  BY GraphedCloses DEF Line
<1>2. \A c \in graphed : FirstParent(c) \in {0} \union graphed
  BY <1>1, FirstParentIs DEF GraphIsWhole, Closes
<1>3. 0 \notin Commits
  BY AncestryAssumption DEF Commits
<1> DEFINE T == {n \in Nat : n + 1 \in 1 .. Len(s) => s[n + 1] \in graphed}
<1>4. 0 \in T
  BY <1>1 DEF Line
<1>5. ASSUME NEW n \in T PROVE n + 1 \in T
  <2> SUFFICES ASSUME (n + 1) + 1 \in 1 .. Len(s) PROVE s[(n + 1) + 1] \in graphed
    OBVIOUS
  <2>1. n \in Nat /\ n + 1 \in 1 .. Len(s) - 1 /\ n + 1 \in 1 .. Len(s)
    BY <1>1
  <2>2. s[(n + 1) + 1] = FirstParent(s[n + 1]) /\ s[n + 1] \in graphed
    BY <2>1 DEF Line
  <2>3. s[(n + 1) + 1] \in Commits
    BY <1>1, ElementOfSeq
  <2> QED  BY <1>2, <1>3, <2>2, <2>3
<1>6. T = Nat
  <2>1. T \in SUBSET Nat
    OBVIOUS
  <2> HIDE DEF T
  <2> QED  BY <1>4, <1>5, <2>1, Counting
<1>7. CASE s = <<>>
  BY <1>7 DEF After
<1>8. CASE s # <<>>
  <2>1. Len(s) \in Nat \ {0}
    BY <1>1, <1>8, EmptySeq
  <2>2. Len(s) - 1 \in Nat /\ (Len(s) - 1) + 1 = Len(s) /\ Len(s) \in 1 .. Len(s)
    BY <2>1
  <2>3. Len(s) - 1 \in T
    <3> HIDE DEF T
    <3> QED  BY <1>6, <2>2
  <2>4. s[Len(s)] \in graphed
    BY <2>2, <2>3
  <2> QED  BY <1>2, <1>8, <2>4 DEF After
<1> QED  BY <1>7, <1>8

LEMMA PageRoundKeeps ==
    ASSUME GraphIsWhole, Still, PageInv, walk.kind = "page", walk.end = "open", PageRound
    PROVE  walk'.kind = "page" /\ "kind" \in DOMAIN walk' /\ PageInv' /\ PageAgrees'
<1>1. PICK w, tip, limit : w = walk /\ tip = w.q.tip /\ limit = w.q.limit
  OBVIOUS
<1>2. /\ IsOn(w, PageFields) /\ tip \in Commits /\ limit \in Nat \ {0}
      /\ Line(w.page, tip) /\ Len(w.page) < limit
      /\ w.at = After(w.page, tip) /\ w.at \in Commits
  BY <1>1 DEF PageInv, PageOpen
<1>3. PICK floor : floor = IF w.at < PageBand THEN 0 ELSE w.at - PageBand
  OBVIOUS
<1>4. PICK got : got = Follow(w.at, floor, limit - Len(w.page))
  OBVIOUS
<1>5. PICK page : page = w.page \o got.page
  OBVIOUS
<1>6. /\ got.missing => Fails(w)
      /\ ~ got.missing /\ (got.at = 0 \/ Len(page) >= limit) => Answers(w, page)
      /\ ~ got.missing /\ ~ (got.at = 0 \/ Len(page) >= limit) => walk' = [w EXCEPT !.page = page, !.at = got.at]
  BY <1>1, <1>3, <1>4, <1>5 DEF PageRound
<1>7. w.page \in Seq(Commits) /\ Len(w.page) \in Nat /\ limit - Len(w.page) \in Nat
  BY <1>2 DEF Line
<1>8. /\ got.missing \in BOOLEAN /\ got.page \in Seq(Commits) /\ Len(got.page) <= limit - Len(w.page)
      /\ Line(page, tip) /\ got.at = After(page, tip) /\ got.at \in 0 .. N
      /\ got.missing => got.at \in Commits \ graphed
  <2>1. PICK p, room : p = w.page /\ room = limit - Len(p) /\ room \in Nat
    BY <1>7
  <2>2. Line(p, tip) /\ After(p, tip) \in Commits /\ got = Follow(After(p, tip), floor, room)
    BY <1>2, <1>4, <2>1
  <2>3. parents \in AllGraphs
    BY DEF GraphIsWhole
  <2>4. /\ got.missing \in BOOLEAN /\ got.page \in Seq(Commits) /\ Len(got.page) <= room
        /\ Line(p \o got.page, tip) /\ got.at = After(p \o got.page, tip) /\ got.at \in 0 .. N
        /\ got.missing => got.at \in Commits \ graphed
    <3>1. tip \in Commits /\ room \in Nat
      BY <1>2, <2>1
    <3> QED  BY <2>2, <2>3, <3>1, FollowIs
  <2> QED  BY <1>5, <2>1, <2>4
<1>9. Len(page) \in Nat /\ Len(page) <= limit
  <2>1. Len(page) = Len(w.page) + Len(got.page) /\ Len(got.page) \in Nat
    <3>1. Len(page) = Len(w.page) + Len(got.page)
      BY <1>5, <1>7, <1>8, ConcatProperties
    <3>2. PICK taken : taken = got.page
      OBVIOUS
    <3>3. taken \in Seq(Commits)
      BY <1>8, <3>2
    <3>4. Len(taken) \in Nat
      BY <3>3
    <3> QED  BY <3>1, <3>2, <3>4
  <2>2. PICK n, m : n = Len(w.page) /\ m = Len(got.page)
    OBVIOUS
  <2>3. n \in Nat /\ m \in Nat /\ limit \in Nat /\ m <= limit - n /\ Len(page) = n + m
    BY <1>2, <1>7, <1>8, <2>1, <2>2
  <2> QED  BY <2>3
<1>10. CASE got.missing
  <2>1. walk'.kind = "page" /\ walk'.q = w.q /\ walk'.end = "failed" /\ "kind" \in DOMAIN walk'
    BY <1>1, <1>6, <1>10, FailsIs
  <2>2. tip \notin graphed
    <3>1. got.at # 0 /\ got.at \notin graphed
      BY <1>8, <1>10, AncestryAssumption DEF Commits
    <3> QED  BY <1>8, <3>1, LineIsGraphed
  <2>3. (~ (Asked(walk) \subseteq graphed))'
    BY <1>1, <2>1, <2>2 DEF Asked, Still
  <2> QED  BY <2>1, <2>3 DEF PageInv, PageAgrees, Agrees
<1>11. CASE ~ got.missing /\ (got.at = 0 \/ Len(page) >= limit)
  <2>1. /\ walk'.kind = "page" /\ walk'.q = w.q /\ walk'.end = "answered"
        /\ walk'.answer = page /\ "kind" \in DOMAIN walk'
    BY <1>1, <1>6, <1>11, OverIs DEF Answers
  <2>2. PICK t : /\ Line(t, tip) /\ t # <<>> /\ After(t, tip) = 0
                 /\ FirstParents(tip, limit) = SubSeq(t, 1, Min({limit, Len(t)}))
    BY <1>2, FirstParentsAre DEF GraphIsWhole
  <2>3. Len(page) = limit \/ After(page, tip) = 0
    BY <1>2, <1>8, <1>9, <1>11
  <2>4. page = FirstParents(tip, limit)
    <3>1. parents \in AllGraphs
      BY DEF GraphIsWhole
    <3>2. tip \in Commits /\ limit \in Nat \ {0} /\ Line(page, tip)
      BY <1>2, <1>8
    <3>3. page = SubSeq(t, 1, Min({limit, Len(t)}))
      BY <1>9, <2>2, <2>3, <3>1, <3>2, LineIsPage
    <3> QED  BY <2>2, <3>3
  <2>5. tip # 0 /\ limit # 0
    BY <1>2, AncestryAssumption DEF Commits
  <2>6. (AllNumbered /\ walk.q.limit # 0)'
    BY <1>1, <2>1, <2>5 DEF AllNumbered, Asked
  <2>7. (walk.answer = FirstParents(walk.q.tip, walk.q.limit))'
    BY <1>1, <2>1, <2>4, LineStays
  <2> QED  BY <2>1, <2>6, <2>7 DEF PageInv, PageAgrees, Agrees
<1>12. CASE ~ got.missing /\ ~ (got.at = 0 \/ Len(page) >= limit)
  <2>1. walk' = [w EXCEPT !.page = page, !.at = got.at]
    BY <1>6, <1>12
  <2>2. /\ walk'.kind = "page" /\ walk'.q = w.q /\ walk'.end = "open" /\ walk'.page = page /\ walk'.at = got.at
        /\ IsOn(walk', PageFields) /\ "kind" \in DOMAIN walk'
    BY <1>1, <1>2, <2>1 DEF IsOn, PageFields
  <2>3. got.at \in Commits /\ Len(page) < limit
    BY <1>2, <1>8, <1>9, <1>12, AncestryAssumption DEF Commits
  <2>4. Line(page, tip)' /\ got.at = After(page, tip)'
    BY <1>8, LineStays
  <2>5. PageOpen(walk)'
    BY <1>1, <1>2, <2>2, <2>3, <2>4 DEF PageOpen, Commits
  <2> QED  BY <2>2, <2>5 DEF PageInv, PageAgrees, Agrees
<1> QED  BY <1>8, <1>10, <1>11, <1>12

-----------------------------------------------------------------------------
(* depth_classify                                                          *)

\* Commits with a length of path, and what is closed along the parents.
Pairs(limit) == Commits \X (1 .. limit)

Lengthens(Z, limit) ==
    \A c \in Commits, d \in 1 .. limit - 1 : <<c, d>> \in Z => \A p \in Range(parents[c]) : <<p, d + 1>> \in Z

PathsFrom(F, limit) == {x \in Pairs(limit) : \A Z \in SUBSET Pairs(limit) : F \subseteq Z /\ Lengthens(Z, limit) => x \in Z}

LEMMA PairsLengthen ==
    ASSUME parents \in AllGraphs, NEW limit \in Nat \ {0}
    PROVE  Lengthens(Pairs(limit), limit)
<1> SUFFICES ASSUME NEW c \in Commits, NEW d \in 1 .. limit - 1, NEW p \in Range(parents[c])
             PROVE  <<p, d + 1>> \in Pairs(limit)
  BY DEF Lengthens
<1>1. c \in 1 .. N /\ N \in Nat /\ p \in 1 .. c - 1
  BY ParentsAreOlder, AncestryAssumption DEF Commits
<1>2. p \in Commits /\ d + 1 \in 1 .. limit
  BY <1>1 DEF Commits
<1> QED  BY <1>2 DEF Pairs

LEMMA PathsAre ==
    ASSUME parents \in AllGraphs, NEW limit \in Nat \ {0}, NEW F \in SUBSET Pairs(limit)
    PROVE  /\ F \subseteq PathsFrom(F, limit) /\ PathsFrom(F, limit) \subseteq Pairs(limit)
           /\ Lengthens(PathsFrom(F, limit), limit)
           /\ \A Z : F \subseteq Z /\ Lengthens(Z, limit) => PathsFrom(F, limit) \subseteq Z
<1>1. F \subseteq PathsFrom(F, limit) /\ PathsFrom(F, limit) \subseteq Pairs(limit)
  BY DEF PathsFrom
<1>2. Lengthens(PathsFrom(F, limit), limit)
  <2> SUFFICES ASSUME NEW c \in Commits, NEW d \in 1 .. limit - 1, <<c, d>> \in PathsFrom(F, limit), NEW p \in Range(parents[c])
               PROVE  <<p, d + 1>> \in PathsFrom(F, limit)
    BY DEF Lengthens
  <2>1. <<c, d>> \in Pairs(limit) /\ \A Z \in SUBSET Pairs(limit) : F \subseteq Z /\ Lengthens(Z, limit) => <<c, d>> \in Z
    BY DEF PathsFrom
  <2>2. <<p, d + 1>> \in Pairs(limit)
    BY <2>1, PairsLengthen DEF Lengthens
  <2>3. \A Z \in SUBSET Pairs(limit) : F \subseteq Z /\ Lengthens(Z, limit) => <<p, d + 1>> \in Z
    BY <2>1 DEF Lengthens
  <2> QED  BY <2>2, <2>3 DEF PathsFrom
<1>3. ASSUME NEW Z, F \subseteq Z, Lengthens(Z, limit) PROVE PathsFrom(F, limit) \subseteq Z
  <2> DEFINE Y == Z \intersect Pairs(limit)
  <2>1. Y \in SUBSET Pairs(limit) /\ F \subseteq Y
    BY <1>3
  <2>2. Lengthens(Y, limit)
    BY <1>3, PairsLengthen DEF Lengthens
  <2> HIDE DEF Y
  <2>3. PathsFrom(F, limit) \subseteq Y
    BY <2>1, <2>2 DEF PathsFrom
  <2> QED  BY <2>3 DEF Y
<1> QED  BY <1>1, <1>2, <1>3

Starts(W) == {<<c, 1>> : c \in W}

LEMMA StartsArePairs ==
    ASSUME NEW W \in SUBSET Commits, NEW limit \in Nat \ {0}
    PROVE  Starts(W) \in SUBSET Pairs(limit)
<1>1. 1 \in 1 .. limit
  OBVIOUS
<1> QED  BY <1>1 DEF Starts, Pairs

\* A path is of one commit, or longer by one than a path to a child.
LEMMA PathsGoBack ==
    ASSUME parents \in AllGraphs, NEW limit \in Nat \ {0}, NEW W \in SUBSET Commits,
           NEW c, NEW d, <<c, d>> \in PathsFrom(Starts(W), limit)
    PROVE  \/ d = 1 /\ c \in W
           \/ /\ d \in 2 .. limit
              /\ \E b \in Commits : c \in Range(parents[b]) /\ <<b, d - 1>> \in PathsFrom(Starts(W), limit)
<1>1. PICK P : P = PathsFrom(Starts(W), limit)
  OBVIOUS
<1>2. Starts(W) \in SUBSET Pairs(limit)
  BY StartsArePairs
<1>3. Starts(W) \subseteq P /\ P \subseteq Pairs(limit) /\ Lengthens(P, limit)
  BY <1>1, <1>2, PathsAre
<1> DEFINE Onset(x) == \/ x[2] = 1 /\ x[1] \in W
                      \/ /\ x[2] \in 2 .. limit
                         /\ \E b \in Commits : x[1] \in Range(parents[b]) /\ <<b, x[2] - 1>> \in P
           Z == {x \in P : Onset(x)}
<1>4. Starts(W) \subseteq Z
  BY <1>3 DEF Starts
<1>5. Lengthens(Z, limit)
  <2> SUFFICES ASSUME NEW a \in Commits, NEW e \in 1 .. limit - 1, <<a, e>> \in Z, NEW p \in Range(parents[a])
               PROVE  <<p, e + 1>> \in Z
    BY DEF Lengthens
  <2>1. <<a, e>> \in P
    OBVIOUS
  <2>2. <<p, e + 1>> \in P
    BY <1>3, <2>1 DEF Lengthens
  <2>3. e + 1 \in 2 .. limit /\ (e + 1) - 1 = e
    OBVIOUS
  <2>4. Onset(<<p, e + 1>>)
    BY <2>1, <2>3
  <2> QED  BY <2>2, <2>4
<1> HIDE DEF Z
<1>6. P \subseteq Z
  BY <1>1, <1>2, <1>4, <1>5, PathsAre
<1>7. Onset(<<c, d>>)
  BY <1>1, <1>6 DEF Z
<1> QED  BY <1>1, <1>7

\* The reference: within d, there is a path of d commits at most.
LEMMA WithinIs ==
    ASSUME parents \in AllGraphs, NEW limit \in Nat \ {0}, NEW W \in SUBSET Commits, NEW d \in 1 .. limit
    PROVE  Within(W, d) = {c \in Commits : \E e \in 1 .. d : <<c, e>> \in PathsFrom(Starts(W), limit)}
<1>1. PICK P : P = PathsFrom(Starts(W), limit)
  OBVIOUS
<1>2. Starts(W) \in SUBSET Pairs(limit)
  BY StartsArePairs
<1>3. Starts(W) \subseteq P /\ P \subseteq Pairs(limit) /\ Lengthens(P, limit)
  BY <1>1, <1>2, PathsAre
<1> DEFINE Up(X) == X \union UNION {Range(parents[c]) : c \in X}
           A(k) == {c \in Commits : \E e \in 1 .. k : <<c, e>> \in P}
           Rec(f) == [k \in 1 .. d |->
                        IF k = 1 THEN W
                        ELSE LET nearer == f[k - 1]
                             IN  nearer \union UNION {Range(parents[c]) : c \in nearer}]
           near == CHOOSE f : f = Rec(f)
<1>4. Within(W, d) = near[d]
  BY DEF Within
<1>5. A(1) = W
  <2>1. ASSUME NEW c \in W PROVE c \in A(1)
    <3>1. <<c, 1>> \in Starts(W)
      BY DEF Starts
    <3> QED  BY <1>3, <3>1
  <2>2. ASSUME NEW c \in A(1) PROVE c \in W
    <3>1. <<c, 1>> \in P
      OBVIOUS
    <3> QED  BY <1>1, <3>1, PathsGoBack
  <2> QED  BY <2>1, <2>2
<1>6. ASSUME NEW k \in 1 .. limit - 1 PROVE A(k + 1) = Up(A(k))
  <2>1. A(k) \subseteq A(k + 1)
    OBVIOUS
  <2>2. ASSUME NEW c \in A(k), NEW p \in Range(parents[c]) PROVE p \in A(k + 1)
    <3>1. PICK e \in 1 .. k : <<c, e>> \in P
      OBVIOUS
    <3>2. e \in 1 .. limit - 1 /\ e + 1 \in 1 .. k + 1
      OBVIOUS
    <3>3. <<p, e + 1>> \in P
      BY <1>3, <3>1, <3>2 DEF Lengthens
    <3>4. p \in Commits
      BY <1>3, <3>3 DEF Pairs
    <3> QED  BY <3>2, <3>3, <3>4
  <2>3. ASSUME NEW c \in A(k + 1), c \notin A(k) PROVE \E b \in A(k) : c \in Range(parents[b])
    <3>1. PICK e \in 1 .. k + 1 : <<c, e>> \in P
      OBVIOUS
    <3>2. e = k + 1 /\ e # 1 /\ e - 1 = k
      BY <2>3, <3>1
    <3>3. PICK b \in Commits : c \in Range(parents[b]) /\ <<b, e - 1>> \in P
      BY <1>1, <3>1, <3>2, PathsGoBack
    <3>4. k \in 1 .. k /\ <<b, k>> \in P
      BY <3>2, <3>3
    <3> QED  BY <3>3, <3>4
  <2> HIDE DEF A
  <2> QED  BY <2>1, <2>2, <2>3
<1> HIDE DEF A
<1>7. ASSUME NEW f, NEW k \in 1 .. d
      PROVE  Rec(f)[k] = IF k = 1 THEN W ELSE Up(f[k - 1])
  OBVIOUS
<1> HIDE DEF Up
<1>8. ASSUME NEW k \in 1 .. d, k # 1 PROVE A(k) = Up(A(k - 1))
  <2>1. k - 1 \in 1 .. limit - 1 /\ (k - 1) + 1 = k
    BY <1>8
  <2>2. A((k - 1) + 1) = Up(A(k - 1))
    BY <1>6, <2>1
  <2> QED  BY <2>1, <2>2
<1>9. \E f : f = Rec(f)
  <2> DEFINE g == [k \in 1 .. d |-> A(k)]
  <2>1. ASSUME NEW k \in 1 .. d PROVE g[k] = Rec(g)[k]
    <3>1. CASE k = 1
      BY <1>5, <1>7, <3>1
    <3>2. CASE k # 1
      <4>1. k - 1 \in 1 .. d
        BY <3>2
      <4>2. g[k] = A(k) /\ g[k - 1] = A(k - 1)
        BY <4>1
      <4> HIDE DEF g, Rec
      <4> QED  BY <1>7, <1>8, <3>2, <4>2
    <3> QED  BY <3>1, <3>2
  <2>2. Rec(g) = [k \in 1 .. d |-> Rec(g)[k]]
    OBVIOUS
  <2> HIDE DEF Rec
  <2>3. g = Rec(g)
    BY <2>1, <2>2
  <2> QED  BY <2>3
<1> HIDE DEF Rec
<1>10. near = Rec(near)
  BY <1>9
<1> HIDE DEF near
<1> DEFINE T == {n \in Nat : n + 1 \in 1 .. d => near[n + 1] = A(n + 1)}
<1>11. 0 \in T
  BY <1>5, <1>7, <1>10
<1>12. ASSUME NEW n \in T PROVE n + 1 \in T
  <2> SUFFICES ASSUME (n + 1) + 1 \in 1 .. d PROVE near[(n + 1) + 1] = A((n + 1) + 1)
    OBVIOUS
  <2>1. n \in Nat /\ n + 1 \in 1 .. d /\ (n + 1) + 1 # 1 /\ ((n + 1) + 1) - 1 = n + 1
    OBVIOUS
  <2>2. near[n + 1] = A(n + 1)
    BY <2>1
  <2>3. near[(n + 1) + 1] = Up(near[n + 1])
    BY <1>7, <1>10, <2>1
  <2>4. A((n + 1) + 1) = Up(A(n + 1))
    BY <1>8, <2>1
  <2> QED  BY <2>2, <2>3, <2>4
<1>13. T = Nat
  <2>1. T \in SUBSET Nat
    OBVIOUS
  <2> HIDE DEF T
  <2> QED  BY <1>11, <1>12, <2>1, Counting
<1>14. near[d] = A(d)
  <2>1. d - 1 \in Nat /\ (d - 1) + 1 = d /\ d \in 1 .. d
    OBVIOUS
  <2>2. d - 1 \in T
    <3> HIDE DEF T
    <3> QED  BY <1>13, <2>1
  <2> QED  BY <2>1, <2>2
<1> QED  BY <1>1, <1>4, <1>14 DEF A

\* A pair is of the least length its commit has.
LEMMA PooledHasLeast ==
    ASSUME NEW limit \in Nat, NEW S \in SUBSET Pairs(limit), NEW x \in S
    PROVE  \E y \in Pooled(S) : y[1] = x[1] /\ y[2] <= x[2]
<1> DEFINE L == {y[2] : y \in {z \in S : z[1] = x[1]}}
<1>1. \A y \in S : y[1] \in Commits /\ y[2] \in Nat
  BY DEF Pairs
<1>2. L \in SUBSET Nat /\ L # {}
  BY <1>1
<1>3. PICK n \in L : \A m \in L : n <= m
  BY <1>2, NatMin
<1>4. PICK y \in S : y[1] = x[1] /\ y[2] = n
  OBVIOUS
<1>5. \A z \in S : z[1] = y[1] => y[2] <= z[2]
  BY <1>3, <1>4
<1>6. y \in Pooled(S)
  BY <1>5 DEF Pooled
<1> QED  BY <1>3, <1>4, <1>6

LEMMA PooledIs ==
    ASSUME NEW S
    PROVE  Pooled(S) \subseteq S /\ \A x \in Pooled(S) : \A y \in S : y[1] = x[1] => x[2] <= y[2]
  BY DEF Pooled

LEMMA PairIs ==
    ASSUME NEW limit \in Nat, NEW x \in Pairs(limit)
    PROVE  x = <<x[1], x[2]>> /\ x[1] \in Commits /\ x[2] \in 1 .. limit /\ x[1] \in Nat /\ x[2] \in Nat
<1>1. x = <<x[1], x[2]>> /\ x[1] \in Commits /\ x[2] \in 1 .. limit
  BY DEF Pairs
<1> QED  BY <1>1, CommitsAreFinite

\* What DepthsAgree asks for: the least length of each commit.
LEMMA ShortestPaths ==
    ASSUME parents \in AllGraphs, NEW limit \in Nat \ {0}, NEW W \in SUBSET Commits
    PROVE  {x \in Commits \X (1 .. limit) :
               /\ x[1] \in Within(W, x[2])
               /\ x[2] > 1 => x[1] \notin Within(W, x[2] - 1)} = Pooled(PathsFrom(Starts(W), limit))
<1>1. PICK P : P = PathsFrom(Starts(W), limit)
  OBVIOUS
<1>2. P \in SUBSET Pairs(limit)
  BY <1>1, StartsArePairs, PathsAre
<1>3. ASSUME NEW c \in Commits, NEW d \in 1 .. limit PROVE c \in Within(W, d) <=> \E e \in 1 .. d : <<c, e>> \in P
  BY <1>1, WithinIs
<1>4. ASSUME NEW c \in Commits, NEW d \in 1 .. limit
      PROVE  (c \in Within(W, d) /\ (d > 1 => c \notin Within(W, d - 1))) <=> <<c, d>> \in Pooled(P)
  <2>1. ASSUME c \in Within(W, d), d > 1 => c \notin Within(W, d - 1) PROVE <<c, d>> \in Pooled(P)
    <3>1. PICK e \in 1 .. d : <<c, e>> \in P
      BY <1>3, <2>1
    <3>2. \A y \in P : y[1] = c => d <= y[2]
      <4> SUFFICES ASSUME NEW y \in P, y[1] = c, ~ (d <= y[2]) PROVE FALSE
        OBVIOUS
      <4>1. y = <<c, y[2]>> /\ y[2] \in 1 .. limit
        BY <1>2, PairIs
      <4>2. d > 1 /\ d - 1 \in 1 .. limit /\ y[2] \in 1 .. d - 1
        BY <4>1
      <4>3. c \in Within(W, d - 1)
        BY <1>3, <4>1, <4>2
      <4> QED  BY <2>1, <4>2, <4>3
    <3>3. d <= e
      BY <3>1, <3>2
    <3>4. e = d
      BY <3>1, <3>3
    <3> QED  BY <3>1, <3>2, <3>4 DEF Pooled
  <2>2. ASSUME <<c, d>> \in Pooled(P) PROVE c \in Within(W, d) /\ (d > 1 => c \notin Within(W, d - 1))
    <3>1. <<c, d>> \in P /\ \A y \in P : y[1] = c => d <= y[2]
      BY <2>2 DEF Pooled
    <3>2. d \in 1 .. d
      OBVIOUS
    <3>3. c \in Within(W, d)
      BY <1>3, <3>1, <3>2
    <3>4. ASSUME d > 1, c \in Within(W, d - 1) PROVE FALSE
      <4>1. d - 1 \in 1 .. limit
        BY <3>4
      <4>2. PICK e \in 1 .. d - 1 : <<c, e>> \in P
        BY <1>3, <3>4, <4>1
      <4>3. d <= e
        BY <3>1, <4>2
      <4> QED  BY <4>2, <4>3
    <3> QED  BY <3>3, <3>4
  <2> QED  BY <2>1, <2>2
<1>5. PICK D : D = {x \in Commits \X (1 .. limit) :
                       /\ x[1] \in Within(W, x[2])
                       /\ x[2] > 1 => x[1] \notin Within(W, x[2] - 1)}
  OBVIOUS
<1>6. ASSUME NEW x \in D PROVE x \in Pooled(P)
  <2>1. x = <<x[1], x[2]>> /\ x[1] \in Commits /\ x[2] \in 1 .. limit /\ x[1] \in Within(W, x[2])
        /\ (x[2] > 1 => x[1] \notin Within(W, x[2] - 1))
    BY <1>5
  <2> QED  BY <1>4, <2>1
<1>7. ASSUME NEW x \in Pooled(P) PROVE x \in D
  <2>1. x \in Pairs(limit)
    BY <1>2, PooledIs
  <2>2. x = <<x[1], x[2]>> /\ x[1] \in Commits /\ x[2] \in 1 .. limit
    BY <2>1, PairIs
  <2>3. x[1] \in Within(W, x[2]) /\ (x[2] > 1 => x[1] \notin Within(W, x[2] - 1))
    BY <1>4, <2>2
  <2> QED  BY <1>5, <2>1, <2>3 DEF Pairs
<1>8. D = Pooled(P)
  BY <1>6, <1>7
<1> QED  BY <1>1, <1>5, <1>8

\* A walk along pairs whose commits get smaller: as many steps as there are
\* commits to go on from, and one more, are all it takes.
LEMMA DescentIsClosed ==
    ASSUME NEW S, NEW onward, NEW m \in Nat,
           \A y \in DOMAIN onward : y[1] \in 1 .. m /\ \A x \in onward[y] : x[1] \in 0 .. y[1] - 1
    PROVE  \A x \in Walked(S, onward, m + 1) \intersect DOMAIN onward : onward[x] \subseteq Walked(S, onward, m + 1)
<1>1. m + 1 \in Nat /\ (m + 1) - 1 = m /\ m + 1 \in 1 .. m + 1 /\ m \in 0 .. m + 1
  OBVIOUS
<1>2. PICK after : Steps(after, S, onward, m + 1) /\ Walked(S, onward, m + 1) = after[m + 1]
  BY <1>1, WalkHasSteps
<1>3. ASSUME NEW n \in 1 .. m + 1 PROVE after[n] = Onwards(after[n - 1], onward)
  BY <1>2 DEF Steps
<1> DEFINE T == {n \in Nat : n + 1 \in 1 .. m + 1 =>
                   \A x \in after[n + 1] \ after[n] : x[1] \in Nat /\ x[1] + (n + 1) <= m}
<1>4. 0 \in T
  <2> SUFFICES ASSUME NEW x \in after[1] \ after[0] PROVE x[1] \in Nat /\ x[1] + 1 <= m
    OBVIOUS
  <2>1. after[1] = Onwards(after[0], onward)
    <3>1. 1 \in 1 .. m + 1 /\ 1 - 1 = 0
      OBVIOUS
    <3> QED  BY <1>3, <3>1
  <2>2. PICK y \in DOMAIN onward : x \in onward[y]
    BY <2>1 DEF Onwards
  <2>3. y[1] \in 1 .. m /\ x[1] \in 0 .. y[1] - 1
    BY <2>2
  <2> QED  BY <2>3
<1>5. ASSUME NEW n \in T PROVE n + 1 \in T
  <2> SUFFICES ASSUME (n + 1) + 1 \in 1 .. m + 1, NEW x \in after[(n + 1) + 1] \ after[n + 1]
               PROVE  x[1] \in Nat /\ x[1] + ((n + 1) + 1) <= m
    OBVIOUS
  <2>1. n \in Nat /\ n + 1 \in 1 .. m + 1 /\ ((n + 1) + 1) - 1 = n + 1 /\ (n + 1) - 1 = n
    OBVIOUS
  <2>2. after[(n + 1) + 1] = Onwards(after[n + 1], onward) /\ after[n + 1] = Onwards(after[n], onward)
    BY <1>3, <2>1
  <2>3. PICK y \in after[n + 1] \intersect DOMAIN onward : x \in onward[y]
    BY <2>2 DEF Onwards
  <2>4. y \notin after[n]
    BY <2>2, <2>3 DEF Onwards
  <2>5. y[1] \in Nat /\ y[1] + (n + 1) <= m
    BY <2>1, <2>3, <2>4
  <2>6. x[1] \in 0 .. y[1] - 1
    BY <2>3
  <2> QED  BY <2>1, <2>5, <2>6
<1>6. T = Nat
  <2>1. T \in SUBSET Nat
    OBVIOUS
  <2> HIDE DEF T
  <2> QED  BY <1>4, <1>5, <2>1, Counting
<1>7. after[m + 1] \subseteq after[m]
  <2>1. m \in T
    <3> HIDE DEF T
    <3> QED  BY <1>6
  <2>2. \A x \in after[m + 1] \ after[m] : x[1] \in Nat /\ x[1] + (m + 1) <= m
    BY <1>1, <2>1
  <2> QED  BY <2>2
<1>8. after[m + 1] = Onwards(after[m], onward)
  BY <1>1, <1>3
<1> QED  BY <1>2, <1>7, <1>8 DEF Onwards

\* What a band of a depth walk comes to, before the least are kept.
BandOfPairs(M, seeds, floor, limit) ==
    /\ seeds \subseteq M /\ M \subseteq Pairs(limit)
    /\ \A c \in graphed, d \in 1 .. limit - 1 :
           <<c, d>> \in M /\ c >= floor => \A p \in Range(parents[c]) : <<p, d + 1>> \in M
    /\ \A Z : Lengthens(Z, limit) /\ seeds \subseteq Z => M \subseteq Z

LEMMA ExpandDepthIs ==
    ASSUME GraphIsWhole, NEW limit \in Nat \ {0}, NEW seeds \in SUBSET Pairs(limit), NEW floor \in Nat,
           NEW band, band = ExpandDepth(GraphIndex, seeds, floor, limit)
    PROVE  \E M : /\ BandOfPairs(M, seeds, floor, limit)
                  /\ band.reached = {x \in Pooled(M) : x[1] >= floor}
                  /\ band.below = {x \in Pooled(M) : x[1] < floor}
                  /\ band.covered \in BOOLEAN
                  /\ band.covered <=> \A x \in M : x[1] >= floor => x[1] \in graphed
<1> DEFINE onward == [x \in {d \in DOMAIN GraphIndex : d >= floor} \X (1 .. limit - 1) |->
                        {<<p, x[2] + 1>> : p \in Parents(GraphIndex, x[1])}]
<1>1. PICK M : M = Walked(seeds, onward, Cardinality(graphed) + 1)
  OBVIOUS
<1>2. PICK m \in 0 .. N : graphed = 1 .. m
  BY DEF GraphIsWhole
<1>3. Cardinality(graphed) = m /\ m \in Nat
  BY <1>2, FS_Interval, AncestryAssumption
<1>4. PICK best : best = Pooled(M)
  OBVIOUS
<1>5. PICK reached, below, covered : /\ reached = {x \in best : x[1] >= floor} /\ below = {x \in best : x[1] < floor}
                                     /\ covered = ({x[1] : x \in {y \in best : y[1] >= floor}} \subseteq graphed)
  OBVIOUS
<1>6. band = [reached |-> reached, below |-> below, covered |-> covered]
  BY <1>1, <1>4, <1>5, IndexOfGraph DEF ExpandDepth
<1>7. band.reached = reached /\ band.below = below /\ band.covered = covered
  BY <1>6
<1>8. /\ DOMAIN onward = {d \in graphed : d >= floor} \X (1 .. limit - 1)
      /\ \A c \in graphed, d \in 1 .. limit - 1 : c >= floor =>
            <<c, d>> \in DOMAIN onward /\ onward[<<c, d>>] = {<<p, d + 1>> : p \in Range(parents[c])}
  BY IndexOfGraph
<1> HIDE DEF onward
<1>9. graphed \subseteq Commits
  BY GraphedCloses
<1>10. ASSUME NEW y \in DOMAIN onward
       PROVE  /\ y = <<y[1], y[2]>> /\ y[1] \in graphed /\ y[1] >= floor /\ y[2] \in 1 .. limit - 1
              /\ onward[y] = {<<p, y[2] + 1>> : p \in Range(parents[y[1]])}
  <2>1. y = <<y[1], y[2]>> /\ y[1] \in graphed /\ y[1] >= floor /\ y[2] \in 1 .. limit - 1
    BY <1>8
  <2> QED  BY <1>8, <2>1
<1>11. \A y \in DOMAIN onward : y[1] \in 1 .. m /\ \A x \in onward[y] : x[1] \in 0 .. y[1] - 1
  <2> SUFFICES ASSUME NEW y \in DOMAIN onward, NEW x \in onward[y] PROVE y[1] \in 1 .. m /\ x[1] \in 0 .. y[1] - 1
    BY <1>2, <1>10
  <2>1. PICK p \in Range(parents[y[1]]) : x = <<p, y[2] + 1>>
    BY <1>10
  <2>2. y[1] \in 1 .. m /\ y[1] \in Commits
    BY <1>2, <1>9, <1>10
  <2>3. p \in 1 .. y[1] - 1
    BY <2>2, ParentsAreOlder DEF GraphIsWhole
  <2>4. x[1] = p
    BY <2>1
  <2> QED  BY <2>2, <2>3, <2>4
<1>12. \A x \in M \intersect DOMAIN onward : onward[x] \subseteq M
  BY <1>1, <1>3, <1>11, DescentIsClosed
<1>13. ASSUME NEW Z, Lengthens(Z, limit), seeds \subseteq Z PROVE seeds \subseteq M /\ M \subseteq Z
  <2>1. \A x \in Z \intersect DOMAIN onward : onward[x] \subseteq Z
    <3> SUFFICES ASSUME NEW y \in Z, y \in DOMAIN onward, NEW x \in onward[y] PROVE x \in Z
      OBVIOUS
    <3>1. PICK p \in Range(parents[y[1]]) : x = <<p, y[2] + 1>>
      BY <1>10
    <3>2. y = <<y[1], y[2]>> /\ y[1] \in Commits /\ y[2] \in 1 .. limit - 1
      BY <1>9, <1>10
    <3> QED  BY <1>13, <3>1, <3>2 DEF Lengthens
  <2>2. Cardinality(graphed) + 1 \in Nat
    BY <1>3
  <2> QED  BY <1>1, <1>13, <2>1, <2>2, WalkedStays
<1>14. seeds \subseteq M /\ M \subseteq Pairs(limit)
  BY <1>13, PairsLengthen DEF GraphIsWhole
<1>15. ASSUME NEW c \in graphed, NEW d \in 1 .. limit - 1, <<c, d>> \in M, c >= floor, NEW p \in Range(parents[c])
       PROVE  <<p, d + 1>> \in M
  <2>1. <<c, d>> \in DOMAIN onward /\ <<p, d + 1>> \in onward[<<c, d>>]
    BY <1>8, <1>15
  <2> QED  BY <1>12, <1>15, <2>1
<1>16. BandOfPairs(M, seeds, floor, limit)
  BY <1>13, <1>14, <1>15 DEF BandOfPairs
<1>17. covered <=> \A x \in M : x[1] >= floor => x[1] \in graphed
  <2>1. best \subseteq M
    BY <1>4, PooledIs
  <2>2. \A x \in M : \E y \in best : y[1] = x[1]
    BY <1>4, <1>14, PooledHasLeast
  <2> QED  BY <1>5, <2>1, <2>2
<1>18. covered \in BOOLEAN
  BY <1>5
<1> QED  BY <1>4, <1>5, <1>7, <1>16, <1>17, <1>18

LEMMA PathsAreBelow ==
    ASSUME parents \in AllGraphs, NEW limit \in Nat \ {0}, NEW F \in SUBSET Pairs(limit), NEW n \in Nat,
           \A x \in F : x[1] < n
    PROVE  \A x \in PathsFrom(F, limit) : x[1] < n
<1> DEFINE Z == {x \in Pairs(limit) : x[1] < n}
<1>1. F \subseteq Z
  OBVIOUS
<1>2. Lengthens(Z, limit)
  <2> SUFFICES ASSUME NEW c \in Commits, NEW d \in 1 .. limit - 1, <<c, d>> \in Z, NEW p \in Range(parents[c])
               PROVE  <<p, d + 1>> \in Z
    BY DEF Lengthens
  <2>1. <<c, d>> \in Pairs(limit) /\ c < n /\ c \in Nat
    BY CommitsAreFinite
  <2>2. <<p, d + 1>> \in Pairs(limit)
    BY <2>1, PairsLengthen DEF Lengthens
  <2>3. p \in 1 .. c - 1
    BY ParentsAreOlder
  <2>4. p < n
    BY <2>1, <2>3
  <2> QED  BY <2>2, <2>4
<1> HIDE DEF Z
<1>3. PathsFrom(F, limit) \subseteq Z
  BY <1>1, <1>2, PathsAre
<1> QED  BY <1>3 DEF Z

\* Keeping the least lengths only makes paths shorter.
LEMMA PoolingShortens ==
    ASSUME parents \in AllGraphs, NEW limit \in Nat \ {0}, NEW G \in SUBSET Pairs(limit), NEW x \in PathsFrom(G, limit)
    PROVE  \E y \in PathsFrom(Pooled(G), limit) : y[1] = x[1] /\ y[2] <= x[2]
<1>1. PICK Q : Q = PathsFrom(Pooled(G), limit)
  OBVIOUS
<1>2. Pooled(G) \in SUBSET Pairs(limit)
  BY PooledIs
<1>3. Pooled(G) \subseteq Q /\ Q \subseteq Pairs(limit) /\ Lengthens(Q, limit)
  BY <1>1, <1>2, PathsAre
<1> DEFINE Z == {z \in Pairs(limit) : \E y \in Q : y[1] = z[1] /\ y[2] <= z[2]}
<1>4. G \subseteq Z
  BY <1>3, PooledHasLeast
<1>5. Lengthens(Z, limit)
  <2> SUFFICES ASSUME NEW c \in Commits, NEW d \in 1 .. limit - 1, <<c, d>> \in Z, NEW p \in Range(parents[c])
               PROVE  <<p, d + 1>> \in Z
    BY DEF Lengthens
  <2>1. PICK y \in Q : y[1] = c /\ y[2] <= d
    OBVIOUS
  <2>2. y = <<c, y[2]>> /\ y[2] \in 1 .. limit
    BY <1>3, <2>1, PairIs
  <2>3. y[2] \in 1 .. limit - 1 /\ y[2] + 1 <= d + 1
    BY <2>1, <2>2
  <2>4. <<p, y[2] + 1>> \in Q
    BY <1>3, <2>1, <2>2, <2>3 DEF Lengthens
  <2>5. <<p, d + 1>> \in Pairs(limit)
    <3>1. <<c, d>> \in Pairs(limit)
      OBVIOUS
    <3> QED  BY <3>1, PairsLengthen DEF Lengthens
  <2>6. <<p, y[2] + 1>>[1] = <<p, d + 1>>[1] /\ <<p, y[2] + 1>>[2] <= <<p, d + 1>>[2]
    BY <2>3
  <2> HIDE DEF Z
  <2> QED  BY <2>4, <2>5, <2>6 DEF Z
<1> HIDE DEF Z
<1>6. PathsFrom(G, limit) \subseteq Z
  BY <1>4, <1>5, PathsAre
<1>7. x \in Z
  BY <1>6
<1> QED  BY <1>1, <1>7 DEF Z

\* Of what is in a band, the least are enough to go on from.
LEMMA PooledTwice ==
    ASSUME NEW limit \in Nat, NEW M \in SUBSET Pairs(limit), NEW R \in SUBSET Pairs(limit), NEW floor
    PROVE  Pooled(R \union {x \in Pooled(M) : x[1] < floor}) = Pooled(R \union {x \in M : x[1] < floor})
<1>1. PICK G, H : G = R \union {x \in Pooled(M) : x[1] < floor} /\ H = R \union {x \in M : x[1] < floor}
  OBVIOUS
<1>2. G \subseteq H
  BY <1>1, PooledIs
<1>3. ASSUME NEW x \in Pooled(H) PROVE x \in Pooled(G)
  <2>1. x \in H /\ \A y \in H : y[1] = x[1] => x[2] <= y[2]
    BY PooledIs
  <2>2. x \in G
    BY <1>1, <2>1 DEF Pooled
  <2> QED  BY <1>2, <2>1, <2>2 DEF Pooled
<1>4. ASSUME NEW x \in Pooled(G) PROVE x \in Pooled(H)
  <2>1. x \in G /\ \A y \in G : y[1] = x[1] => x[2] <= y[2]
    BY PooledIs
  <2>2. ASSUME NEW y \in H, y[1] = x[1] PROVE x[2] <= y[2]
    <3>1. CASE y \in R
      BY <1>1, <2>1, <2>2, <3>1
    <3>2. CASE y \in M /\ y[1] < floor
      <4>1. PICK z \in Pooled(M) : z[1] = y[1] /\ z[2] <= y[2]
        BY <3>2, PooledHasLeast
      <4>2. z \in G
        BY <1>1, <3>2, <4>1
      <4>3. x[2] <= z[2]
        BY <2>1, <2>2, <4>1, <4>2
      <4>4. z \in M /\ x \in Pairs(limit)
        BY <1>1, <2>1, <4>1, PooledIs
      <4>5. x[2] \in Nat /\ y[2] \in Nat /\ z[2] \in Nat
        BY <3>2, <4>4, PairIs
      <4> QED  BY <4>1, <4>3, <4>5
    <3> QED  BY <1>1, <3>1, <3>2
  <2> QED  BY <1>2, <2>1, <2>2 DEF Pooled
<1> QED  BY <1>1, <1>3, <1>4

DepthFields == {"frontier", "limit", "width", "sent", "covered"}
DepthsFields == {"kind", "q", "end", "w"}

\* Down to `ceil' each commit has been sent with the least of its lengths;
\* below it the paths of the least lengths go through the frontier.
Classified(w, P, limit, ceil) ==
    /\ IsOn(w, DepthFields) /\ w.limit = limit /\ w.width \in Nat \ {0}
    /\ w.frontier \subseteq P
    /\ ceil \in Nat /\ \A x \in w.frontier : x[1] < ceil
    /\ w.sent = {x \in Pooled(P) : x[1] >= ceil}
    /\ {x \in Pooled(P) : x[1] < ceil} \subseteq PathsFrom(w.frontier, limit)

\* What one band of a depth walk makes of it, M being what it came to.
DeepensBy(w, v, limit, floor, M) ==
    /\ floor \in Nat /\ \E x \in w.frontier : floor <= x[1]
    /\ BandOfPairs(M, {x \in w.frontier : x[1] >= floor}, floor, limit)
    /\ IsOn(v, DepthFields) /\ v.limit = limit /\ v.width \in Nat \ {0}
    /\ v.frontier = Pooled({x \in w.frontier : x[1] < floor} \union {x \in M : x[1] < floor})
    /\ v.sent = w.sent \union {x \in Pooled(M) : x[1] >= floor}
    /\ v.covered \in BOOLEAN
    /\ v.covered <=> \A x \in M : x[1] >= floor => x[1] \in graphed

LEMMA DepthBandIs ==
    ASSUME GraphIsWhole, NEW limit \in Nat \ {0}, NEW w, IsOn(w, DepthFields), w.limit = limit,
           w.width \in Nat \ {0}, w.frontier \in SUBSET Pairs(limit), w.frontier # {},
           NEW v, v = DepthBand(GraphIndex, w)
    PROVE  \E floor, M : DeepensBy(w, v, limit, floor, M)
<1>1. PICK S : S = {x[1] : x \in w.frontier}
  OBVIOUS
<1>2. S \in SUBSET Commits /\ S # {}
  <2>1. \A x \in w.frontier : x[1] \in Commits
    BY PairIs
  <2> QED  BY <1>1, <2>1
<1>3. Max(S) \in S /\ Max(S) \in Nat
  BY <1>2, MaxOfCommits
<1>4. PICK floor : floor = Floor(Max(S), w.width)
  OBVIOUS
<1>5. floor \in Nat /\ floor <= Max(S)
  BY <1>3, <1>4, FloorIs
<1>6. \E x \in w.frontier : floor <= x[1]
  BY <1>1, <1>3, <1>5
<1>7. PICK seeds : seeds = {x \in w.frontier : x[1] >= floor}
  OBVIOUS
<1>8. seeds \in SUBSET Pairs(limit)
  BY <1>7
<1>9. PICK band : band = ExpandDepth(GraphIndex, seeds, floor, limit)
  OBVIOUS
<1>10. PICK M : /\ BandOfPairs(M, seeds, floor, limit)
                /\ band.reached = {x \in Pooled(M) : x[1] >= floor}
                /\ band.below = {x \in Pooled(M) : x[1] < floor}
                /\ band.covered \in BOOLEAN
                /\ band.covered <=> \A x \in M : x[1] >= floor => x[1] \in graphed
  BY <1>5, <1>8, <1>9, ExpandDepthIs
<1>11. v = [w EXCEPT !.frontier = Pooled((w.frontier \ seeds) \union band.below),
                     !.width = Grow(w.width),
                     !.sent = @ \union band.reached,
                     !.covered = band.covered]
  BY <1>1, <1>4, <1>7, <1>9 DEF DepthBand
<1>12. /\ IsOn(v, DepthFields) /\ v.limit = limit /\ v.width = Grow(w.width)
       /\ v.frontier = Pooled((w.frontier \ seeds) \union band.below)
       /\ v.sent = w.sent \union band.reached /\ v.covered = band.covered
  BY <1>11 DEF IsOn, DepthFields
<1>13. PICK R : R = {x \in w.frontier : x[1] < floor}
  OBVIOUS
<1>14. w.frontier \ seeds = R /\ R \in SUBSET Pairs(limit)
  <2>1. \A x \in w.frontier : x[1] \in Nat
    BY PairIs
  <2> QED  BY <1>5, <1>7, <1>13, <2>1
<1>15. v.frontier = Pooled(R \union {x \in M : x[1] < floor})
  <2>1. M \in SUBSET Pairs(limit)
    BY <1>10 DEF BandOfPairs
  <2>2. v.frontier = Pooled(R \union {x \in Pooled(M) : x[1] < floor})
    BY <1>10, <1>12, <1>14
  <2> QED  BY <1>14, <2>1, <2>2, PooledTwice
<1>16. v.width \in Nat \ {0}
  BY <1>12, GrowIs
<1> QED  BY <1>5, <1>6, <1>7, <1>10, <1>12, <1>13, <1>15, <1>16 DEF DeepensBy

LEMMA DepthBandClassifies ==
    ASSUME GraphIsWhole, NEW limit \in Nat \ {0}, NEW P \in SUBSET Pairs(limit), Lengthens(P, limit),
           NEW w, NEW ceil, Classified(w, P, limit, ceil), w.frontier # {},
           NEW v, v = DepthBand(GraphIndex, w)
    PROVE  /\ v.covered \in BOOLEAN
           /\ (\A x \in P : x[1] \in graphed) => v.covered
           /\ v.covered => \E low : Classified(v, P, limit, low)
<1>1. /\ IsOn(w, DepthFields) /\ w.limit = limit /\ w.width \in Nat \ {0}
      /\ w.frontier \subseteq P
      /\ ceil \in Nat /\ \A x \in w.frontier : x[1] < ceil
      /\ w.sent = {x \in Pooled(P) : x[1] >= ceil}
      /\ {x \in Pooled(P) : x[1] < ceil} \subseteq PathsFrom(w.frontier, limit)
  BY DEF Classified
<1>2. PICK F : F = w.frontier
  OBVIOUS
<1>3. F \in SUBSET Pairs(limit) /\ F \subseteq P
  BY <1>1, <1>2
<1>0. PICK floor \in Nat : \E M : DeepensBy(w, v, limit, floor, M)
  <2>1. w.frontier \in SUBSET Pairs(limit)
    BY <1>2, <1>3
  <2>2. PICK floor, M : DeepensBy(w, v, limit, floor, M)
    BY <1>1, <2>1, DepthBandIs
  <2> QED  BY <2>2 DEF DeepensBy
<1>4. PICK M :
        /\ \E x \in F : floor <= x[1]
        /\ BandOfPairs(M, {x \in F : x[1] >= floor}, floor, limit)
        /\ IsOn(v, DepthFields) /\ v.limit = limit /\ v.width \in Nat \ {0}
        /\ v.frontier = Pooled({x \in F : x[1] < floor} \union {x \in M : x[1] < floor})
        /\ v.sent = w.sent \union {x \in Pooled(M) : x[1] >= floor}
        /\ v.covered \in BOOLEAN
        /\ v.covered <=> \A x \in M : x[1] >= floor => x[1] \in graphed
  BY <1>2, <1>0 DEF DeepensBy
<1>5. PICK G : G = {x \in F : x[1] < floor} \union {x \in M : x[1] < floor}
  OBVIOUS
<1>6. M \subseteq P /\ M \in SUBSET Pairs(limit) /\ {x \in F : x[1] >= floor} \subseteq M
  BY <1>3, <1>4 DEF BandOfPairs
<1>7. G \in SUBSET Pairs(limit) /\ G \subseteq P /\ (\A x \in G : x[1] < floor) /\ v.frontier = Pooled(G)
  BY <1>3, <1>4, <1>5, <1>6
<1>8. \A x \in P : x = <<x[1], x[2]>> /\ x[1] \in Nat /\ x[2] \in Nat
  BY PairIs
<1>9. parents \in AllGraphs
  BY DEF GraphIsWhole
<1>10. floor < ceil
  <2>1. PICK x \in F : floor <= x[1]
    BY <1>4
  <2>2. x[1] < ceil /\ x[1] \in Nat
    BY <1>1, <1>2, <1>3, <1>8
  <2> QED  BY <1>1, <2>1, <2>2
<1>11. ASSUME v.covered PROVE Classified(v, P, limit, floor)
  <2>1. PathsFrom(F, limit) \subseteq M \union PathsFrom(G, limit)
    <3>1. G \subseteq PathsFrom(G, limit) /\ Lengthens(PathsFrom(G, limit), limit)
      BY <1>7, <1>9, PathsAre
    <3>2. PICK Z : Z = M \union PathsFrom(G, limit)
      OBVIOUS
    <3>3. F \subseteq Z
      <4> SUFFICES ASSUME NEW x \in F PROVE x \in Z
        OBVIOUS
      <4>1. x[1] \in Nat
        BY <1>3, <1>8
      <4> QED  BY <1>5, <1>6, <3>1, <3>2, <4>1
    <3>4. Lengthens(Z, limit)
      <4> SUFFICES ASSUME NEW c \in Commits, NEW d \in 1 .. limit - 1, <<c, d>> \in Z, NEW p \in Range(parents[c])
                   PROVE  <<p, d + 1>> \in Z
        BY DEF Lengthens
      <4>1. CASE <<c, d>> \in PathsFrom(G, limit)
        BY <3>1, <3>2, <4>1 DEF Lengthens
      <4>2. CASE <<c, d>> \in M /\ c >= floor
        <5>1. c \in graphed
          <6>1. <<c, d>>[1] >= floor => <<c, d>>[1] \in graphed
            BY <1>4, <1>11, <4>2
          <6> QED  BY <4>2, <6>1
        <5>2. <<p, d + 1>> \in M
          BY <1>4, <4>2, <5>1 DEF BandOfPairs
        <5> QED  BY <3>2, <5>2
      <4>3. CASE <<c, d>> \in M /\ ~ (c >= floor)
        <5>1. c \in Nat
          BY CommitsAreFinite
        <5>2. <<c, d>>[1] < floor
          BY <4>3, <5>1
        <5>3. <<c, d>> \in G
          BY <1>5, <4>3, <5>2
        <5> QED  BY <3>1, <4>1, <5>3
      <4> QED  BY <3>2, <4>1, <4>2, <4>3
    <3>5. PathsFrom(F, limit) \subseteq Z
      BY <1>3, <1>9, <3>3, <3>4, PathsAre
    <3> QED  BY <3>2, <3>5
  <2>2. \A x \in PathsFrom(G, limit) : x[1] < floor
    BY <1>7, <1>9, PathsAreBelow
  <2>3. \A x \in PathsFrom(F, limit) : x[1] < ceil
    BY <1>1, <1>2, <1>3, <1>9, PathsAreBelow
  <2>4. ASSUME NEW x \in Pooled(P), x[1] >= floor, x[1] < ceil PROVE x \in Pooled(M)
    <3>1. x \in P /\ \A y \in P : y[1] = x[1] => x[2] <= y[2]
      BY PooledIs
    <3>2. x \in M \union PathsFrom(G, limit)
      BY <1>1, <1>2, <2>1, <2>4
    <3>3. x \notin PathsFrom(G, limit)
      BY <1>8, <2>2, <2>4, <3>1
    <3> QED  BY <1>6, <3>1, <3>2, <3>3 DEF Pooled
  <2>5. ASSUME NEW x \in Pooled(M), x[1] >= floor PROVE x \in Pooled(P) /\ x[1] < ceil
    <3>1. x \in M /\ \A y \in M : y[1] = x[1] => x[2] <= y[2]
      BY PooledIs
    <3>2. x[1] < ceil
      <4>1. F \subseteq PathsFrom(F, limit) /\ Lengthens(PathsFrom(F, limit), limit)
        BY <1>3, <1>9, PathsAre
      <4>2. {y \in F : y[1] >= floor} \subseteq PathsFrom(F, limit)
        BY <4>1
      <4>3. M \subseteq PathsFrom(F, limit)
        BY <1>4, <4>1, <4>2 DEF BandOfPairs
      <4> QED  BY <2>3, <3>1, <4>3
    <3>3. PICK z \in Pooled(P) : z[1] = x[1] /\ z[2] <= x[2]
      BY <1>6, <3>1, PooledHasLeast
    <3>4. z \in Pooled(M)
      BY <2>4, <2>5, <3>2, <3>3
    <3>5. z \in M /\ z \in P /\ x \in P
      BY <1>6, <3>1, <3>4, PooledIs
    <3>6. x[2] <= z[2]
      BY <3>1, <3>3, <3>5
    <3>7. x = z
      BY <1>8, <3>3, <3>5, <3>6
    <3> QED  BY <3>2, <3>7
  <2>6. v.sent = {x \in Pooled(P) : x[1] >= floor}
    <3>1. \A x \in Pooled(P) : x[1] \in Nat
      BY <1>8, PooledIs
    <3>2. ASSUME NEW x \in v.sent PROVE x \in Pooled(P) /\ x[1] >= floor
      <4>1. CASE x \in w.sent
        <5>1. x \in Pooled(P) /\ x[1] >= ceil
          BY <1>1, <4>1
        <5>2. x[1] \in Nat
          BY <3>1, <5>1
        <5> QED  BY <1>1, <1>10, <5>1, <5>2
      <4>2. CASE x \in Pooled(M) /\ x[1] >= floor
        BY <2>5, <4>2
      <4> QED  BY <1>4, <3>2, <4>1, <4>2
    <3>3. ASSUME NEW x \in Pooled(P), x[1] >= floor PROVE x \in v.sent
      <4>1. CASE x[1] >= ceil
        BY <1>1, <1>4, <4>1
      <4>2. CASE x[1] < ceil
        BY <1>4, <2>4, <3>3, <4>2
      <4> QED  BY <1>1, <3>1, <4>1, <4>2
    <3> QED  BY <3>2, <3>3
  <2>7. v.frontier \subseteq P /\ \A x \in v.frontier : x[1] < floor
    BY <1>7, PooledIs
  <2>8. ASSUME NEW x \in Pooled(P), x[1] < floor PROVE x \in PathsFrom(v.frontier, limit)
    <3>1. x \in P /\ \A y \in P : y[1] = x[1] => x[2] <= y[2]
      BY PooledIs
    <3>2. x[1] < ceil
      BY <1>1, <1>8, <1>10, <2>8, <3>1
    <3>3. x \in M \union PathsFrom(G, limit)
      BY <1>1, <1>2, <2>1, <3>2
    <3>4. x \in PathsFrom(G, limit)
      <4>1. G \subseteq PathsFrom(G, limit)
        BY <1>7, <1>9, PathsAre
      <4> QED  BY <1>5, <2>8, <3>3, <4>1
    <3>5. PICK y \in PathsFrom(Pooled(G), limit) : y[1] = x[1] /\ y[2] <= x[2]
      BY <1>7, <1>9, <3>4, PoolingShortens
    <3>6. y \in P
      <4>1. Pooled(G) \in SUBSET Pairs(limit) /\ Pooled(G) \subseteq P
        BY <1>7, PooledIs
      <4> QED  BY <1>9, <3>5, <4>1, PathsAre
    <3>7. x[2] <= y[2]
      BY <3>1, <3>5, <3>6
    <3>8. x = y
      BY <1>8, <3>1, <3>5, <3>6, <3>7
    <3> QED  BY <1>7, <3>5, <3>8
  <2> QED  BY <1>4, <2>6, <2>7, <2>8 DEF Classified
<1>12. (\A x \in P : x[1] \in graphed) => v.covered
  BY <1>4, <1>6
<1> QED  BY <1>4, <1>11, <1>12

DepthsOpen(w) ==
    LET P == PathsFrom(Starts(w.q.wants), w.q.limit)
    IN  /\ IsOn(w, DepthsFields) /\ w.q.wants \in SUBSET Commits /\ w.q.limit \in Nat \ {0}
        /\ w.w.frontier # {}
        /\ \E ceil : Classified(w.w, P, w.q.limit, ceil)

DepthsInv == walk.kind = "depths" /\ walk.end = "open" => DepthsOpen(walk)

LEMMA PathsStay ==
    ASSUME Still
    PROVE  /\ \A F, limit : PathsFrom(F, limit)' = PathsFrom(F, limit)
           /\ \A W, d : Within(W, d)' = Within(W, d)
           /\ \A w, P, limit, ceil : Classified(w, P, limit, ceil)' = Classified(w, P, limit, ceil)
<1>1. \A F, limit : PathsFrom(F, limit)' = PathsFrom(F, limit)
  BY DEF Still, PathsFrom, Lengthens, Pairs, Commits
<1>2. \A W, d : Within(W, d)' = Within(W, d)
  BY DEF Still, Within
<1>3. \A w, P, limit, ceil : Classified(w, P, limit, ceil)' = Classified(w, P, limit, ceil)
  BY <1>1 DEF Classified
<1> QED  BY <1>1, <1>2, <1>3

LEMMA AskDepthsKeeps ==
    ASSUME GraphIsWhole, Still, NEW wants \in SUBSET Commits, wants # {}, NEW limit \in Nat \ {0},
           AskDepths(wants, limit)
    PROVE  walk'.kind = "depths" /\ "kind" \in DOMAIN walk' /\ DepthsInv' /\ DepthsAgree'
<1>1. PICK q : q = [wants |-> wants, limit |-> limit]
  OBVIOUS
<1>2. q.wants = wants /\ q.limit = limit
  BY <1>1
<1>3. PICK w : w = DepthWalk(wants, limit)
  OBVIOUS
<1>4. /\ IsOn(w, DepthFields) /\ w.frontier = Starts(wants) /\ w.limit = limit /\ w.width = FirstWidth
      /\ w.sent = {}
  BY <1>3 DEF DepthWalk, IsOn, DepthFields, Starts
<1>5. walk' = [kind |-> "depths", q |-> q, end |-> "open", w |-> w]
  BY <1>1, <1>3 DEF AskDepths
<1>6. /\ walk'.kind = "depths" /\ walk'.q = q /\ walk'.end = "open" /\ walk'.w = w
      /\ IsOn(walk', DepthsFields) /\ "kind" \in DOMAIN walk'
  BY <1>5 DEF IsOn, DepthsFields
<1>7. PICK P : P = PathsFrom(Starts(wants), limit)
  OBVIOUS
<1>8. Starts(wants) \in SUBSET Pairs(limit)
  BY StartsArePairs
<1>9. Starts(wants) \subseteq P /\ P \subseteq Pairs(limit)
  BY <1>7, <1>8, PathsAre DEF GraphIsWhole
<1>10. N + 1 \in Nat /\ \A x \in P : x[1] < N + 1
  <2>1. N \in Nat /\ \A x \in P : x[1] \in 1 .. N
    BY <1>9, PairIs, AncestryAssumption DEF Commits
  <2> QED  BY <2>1
<1>11. Pooled(P) \subseteq P
  BY PooledIs
<1>12. \A x \in Pooled(P) : ~ (x[1] >= N + 1)
  <2>1. \A x \in P : x[1] \in Nat
    BY <1>9, PairIs
  <2> QED  BY <1>10, <1>11, <2>1
<1>13. Classified(w, P, limit, N + 1)
  BY <1>4, <1>7, <1>9, <1>10, <1>11, <1>12, WidthStarts DEF Classified
<1>14. Starts(wants) # {}
  BY DEF Starts
<1>15. P = PathsFrom(Starts(wants), limit)' /\ Classified(w, P, limit, N + 1)'
  BY <1>7, <1>13, PathsStay
<1>16. DepthsOpen(walk)'
  BY <1>2, <1>4, <1>6, <1>14, <1>15 DEF DepthsOpen, Commits, Starts
<1> QED  BY <1>6, <1>16 DEF DepthsInv, DepthsAgree, Agrees

LEMMA DepthsBandKeeps ==
    ASSUME GraphIsWhole, Still, DepthsInv, walk.kind = "depths", walk.end = "open", DepthsBand
    PROVE  walk'.kind = "depths" /\ "kind" \in DOMAIN walk' /\ DepthsInv' /\ DepthsAgree'
<1>1. PICK wants, limit : wants = walk.q.wants /\ limit = walk.q.limit
  OBVIOUS
<1>2. PICK P : P = PathsFrom(Starts(wants), limit)
  OBVIOUS
<1>3. PICK ceil : /\ IsOn(walk, DepthsFields) /\ wants \in SUBSET Commits /\ limit \in Nat \ {0}
                  /\ walk.w.frontier # {} /\ Classified(walk.w, P, limit, ceil)
  BY <1>1, <1>2 DEF DepthsInv, DepthsOpen
<1>4. PICK v : /\ v = DepthBand(GraphIndex, walk.w)
               /\ IF ~ v.covered THEN Fails(walk)
                  ELSE IF DepthOver(v) THEN Answers(walk, v.sent)
                  ELSE walk' = [walk EXCEPT !.w = v]
  BY DEF DepthsBand
<1>5. parents \in AllGraphs /\ Starts(wants) \in SUBSET Pairs(limit)
  BY <1>3, StartsArePairs DEF GraphIsWhole
<1>6. P \in SUBSET Pairs(limit) /\ Lengthens(P, limit)
      /\ \A Z : Starts(wants) \subseteq Z /\ Lengthens(Z, limit) => P \subseteq Z
  BY <1>2, <1>3, <1>5, PathsAre
<1>7. /\ v.covered \in BOOLEAN
      /\ (\A x \in P : x[1] \in graphed) => v.covered
      /\ v.covered => \E low : Classified(v, P, limit, low)
  BY <1>3, <1>4, <1>6, DepthBandClassifies
<1>8. CASE ~ v.covered
  <2>1. walk'.kind = "depths" /\ walk'.q = walk.q /\ walk'.end = "failed" /\ "kind" \in DOMAIN walk'
    BY <1>4, <1>8, FailsIs
  <2>2. ~ (wants \subseteq graphed)
    <3> SUFFICES ASSUME wants \subseteq graphed PROVE FALSE
      OBVIOUS
    <3> DEFINE Z == {x \in Pairs(limit) : x[1] \in graphed}
    <3>1. Starts(wants) \subseteq Z
      BY <1>5 DEF Starts
    <3>2. Lengthens(Z, limit)
      <4> SUFFICES ASSUME NEW c \in Commits, NEW d \in 1 .. limit - 1, <<c, d>> \in Z, NEW p \in Range(parents[c])
                   PROVE  <<p, d + 1>> \in Z
        BY DEF Lengthens
      <4>1. <<c, d>> \in Pairs(limit) /\ c \in graphed
        OBVIOUS
      <4>2. <<p, d + 1>> \in Pairs(limit)
        BY <1>3, <1>5, <4>1, PairsLengthen DEF Lengthens
      <4>3. p \in graphed
        <5>1. Closes(graphed, {})
          BY GraphedCloses
        <5> QED  BY <4>1, <5>1 DEF Closes
      <4> QED  BY <4>2, <4>3
    <3> HIDE DEF Z
    <3>3. P \subseteq Z
      BY <1>6, <3>1, <3>2
    <3>4. \A x \in P : x[1] \in graphed
      BY <3>3 DEF Z
    <3> QED  BY <1>7, <1>8, <3>4
  <2>3. (~ (Asked(walk) \subseteq graphed))'
    BY <1>1, <2>1, <2>2 DEF Asked, Still
  <2> QED  BY <2>1, <2>3 DEF DepthsInv, DepthsAgree, Agrees
<1>9. CASE v.covered /\ DepthOver(v)
  <2>1. PICK low : Classified(v, P, limit, low)
    BY <1>7, <1>9
  <2>2. /\ v.frontier = {} /\ low \in Nat /\ v.sent = {x \in Pooled(P) : x[1] >= low}
        /\ {x \in Pooled(P) : x[1] < low} \subseteq PathsFrom({}, limit)
    BY <1>9, <2>1 DEF Classified, DepthOver
  <2>3. PathsFrom({}, limit) = {}
    <3>1. Lengthens({}, limit) /\ {} \in SUBSET Pairs(limit)
      BY DEF Lengthens
    <3> QED  BY <1>3, <1>5, <3>1, PathsAre
  <2>4. v.sent = Pooled(P)
    <3>1. \A x \in Pooled(P) : x[1] \in Nat
      BY <1>3, <1>6, PairIs, PooledIs
    <3> QED  BY <2>2, <2>3, <3>1
  <2>5. /\ walk'.kind = "depths" /\ walk'.q = walk.q /\ walk'.end = "answered"
        /\ walk'.answer = v.sent /\ "kind" \in DOMAIN walk'
    BY <1>4, <1>9, OverIs DEF Answers
  <2>6. v.sent = {x \in Commits \X (1 .. limit) :
                    /\ x[1] \in Within(wants, x[2])
                    /\ x[2] > 1 => x[1] \notin Within(wants, x[2] - 1)}
    BY <1>2, <1>3, <1>5, <2>4, ShortestPaths
  <2>7. (walk.answer = {x \in Commits \X (1 .. walk.q.limit) :
                          /\ x[1] \in Within(walk.q.wants, x[2])
                          /\ x[2] > 1 => x[1] \notin Within(walk.q.wants, x[2] - 1)})'
    BY <1>1, <2>5, <2>6, PathsStay DEF Commits
  <2> QED  BY <2>5, <2>7 DEF DepthsInv, DepthsAgree, Agrees
<1>10. CASE v.covered /\ ~ DepthOver(v)
  <2>1. PICK low : Classified(v, P, limit, low)
    BY <1>7, <1>10
  <2>2. v.frontier # {}
    BY <1>10 DEF DepthOver
  <2>3. walk' = [walk EXCEPT !.w = v]
    BY <1>4, <1>10
  <2>4. /\ walk'.kind = "depths" /\ walk'.q = walk.q /\ walk'.end = "open" /\ walk'.w = v
        /\ IsOn(walk', DepthsFields) /\ "kind" \in DOMAIN walk'
    BY <1>3, <2>3 DEF IsOn, DepthsFields
  <2>5. P = PathsFrom(Starts(wants), limit)' /\ Classified(v, P, limit, low)'
    BY <1>2, <2>1, PathsStay
  <2>6. DepthsOpen(walk)'
    BY <1>1, <1>3, <2>2, <2>4, <2>5 DEF DepthsOpen, Commits, Starts
  <2> QED  BY <2>4, <2>6 DEF DepthsInv, DepthsAgree, Agrees
<1> QED  BY <1>7, <1>8, <1>9, <1>10

-----------------------------------------------------------------------------
(* The proofs of a push                                                    *)

ProveFields == {"kind", "q", "end", "at", "boundaries", "reachable", "left", "live", "oldest", "proven", "dropped"}

\* A closure has only what its commit reaches.
SoundClosure(X, d) == X \subseteq Reach(d) \ {d}

\* A closure has all its commit reaches of the push, and of the rest a
\* boundary from which it is reached.
WholeClosure(X, d, last, bs) ==
    \A x \in Reach(d) \ {d} : IF x > last THEN x \in X ELSE \E b \in X \intersect bs : x \in Reach(b)

\* The children of d that are still to be built.
ChildrenFrom(d, at) == {e \in at .. N : d \in Range(parents[e])}

TrueProofs(last, n) == {x \in (last + 1 .. n) \X Commits : x[2] \in Reach(x[1]) \ {x[1]}}

BoundariesReach(w, last) ==
    \A b \in w.boundaries : /\ w.reachable[b] \subseteq Reach(b)
                            /\ last <= WalkCap + 1 => w.reachable[b] = Reach(b) \intersect (1 .. last)

\* Closures and proofs are sound; if nothing was dropped and every boundary is
\* walked, none is missing of which a child is still to be built.
Proving(w, last, at) ==
    /\ last \in 0 .. N - 1 /\ at \in last + 1 .. N
    /\ w.boundaries \in SUBSET NamedParents(last) /\ BoundariesReach(w, last)
    /\ DOMAIN w.left = last + 1 .. N
    /\ \A d \in last + 1 .. N : w.left[d] = Cardinality(ChildrenFrom(d, at))
    /\ DOMAIN w.live \subseteq last + 1 .. at - 1
    /\ \A d \in DOMAIN w.live : SoundClosure(w.live[d], d)
    /\ w.dropped \in BOOLEAN
    /\ ~ w.dropped /\ w.boundaries = NamedParents(last) =>
           \A d \in last + 1 .. at - 1 :
               w.left[d] > 0 => d \in DOMAIN w.live /\ WholeClosure(w.live[d], d, last, w.boundaries)
    /\ w.proven \subseteq TrueProofs(last, at - 1)
    /\ ~ w.dropped /\ w.boundaries = NamedParents(last) /\ last <= WalkCap + 1 =>
           w.proven = TrueProofs(last, at - 1)

ProveOpen(w) == IsOn(w, ProveFields) /\ Proving(w, w.q.last, w.at)

ProveInv == walk.kind = "prove" /\ walk.end = "open" => ProveOpen(walk)

\* A commit reaches itself and what its parents reach.
LEMMA ReachByParents ==
    ASSUME parents \in AllGraphs, NEW c \in Commits
    PROVE  /\ \A p \in Range(parents[c]) : p \in Commits /\ p < c /\ Reach(p) \subseteq Reach(c) \ {c}
           /\ \A x \in Reach(c) \ {c} : \E p \in Range(parents[c]) : x \in Reach(p)
<1>1. c \in Nat /\ c \in 1 .. N /\ N \in Nat
  BY AncestryAssumption DEF Commits
<1>2. c \in Reach(c) /\ Closes(Reach(c), {}) /\ Reach(c) \subseteq Commits
  BY ReachFacts
<1>3. ASSUME NEW p \in Range(parents[c]) PROVE p \in Commits /\ p < c /\ Reach(p) \subseteq Reach(c) \ {c}
  <2>1. p \in 1 .. c - 1
    BY ParentsAreOlder
  <2>2. p \in Commits /\ p < c /\ p \in Nat
    BY <1>1, <2>1 DEF Commits
  <2>3. p \in Reach(c)
    BY <1>2, <1>3 DEF Closes
  <2>4. Reach(p) \subseteq Reach(c)
    BY <2>3, ReachFacts
  <2>5. \A b \in Reach(p) : b \in Nat /\ b <= p
    BY <2>2, ReachFacts
  <2>6. c \notin Reach(p)
    BY <1>1, <2>2, <2>5
  <2> QED  BY <2>2, <2>4, <2>6
<1>4. ASSUME NEW x \in Reach(c) \ {c} PROVE \E p \in Range(parents[c]) : x \in Reach(p)
  <2> DEFINE Z == {y \in Commits : y = c \/ \E p \in Range(parents[c]) : y \in Reach(p)}
  <2>1. c \in Z
    OBVIOUS
  <2>2. Closes(Z, {})
    <3> SUFFICES ASSUME NEW y \in Z, NEW r \in Range(parents[y]) PROVE r \in Z
      BY DEF Closes
    <3>1. CASE y = c
      <4>1. r \in Commits /\ r \in Reach(r) /\ r \in Range(parents[c])
        BY <1>3, <3>1, ReachFacts
      <4> QED  BY <4>1
    <3>2. CASE y # c
      <4>1. PICK p \in Range(parents[c]) : y \in Reach(p)
        BY <3>2
      <4>2. p \in Commits
        BY <1>3
      <4>3. y \in Commits /\ Closes(Reach(p), {}) /\ Reach(p) \subseteq Commits
        BY <4>2, ReachFacts
      <4>4. r \in Reach(p)
        BY <4>1, <4>3 DEF Closes
      <4> QED  BY <4>3, <4>4
    <3> QED  BY <3>1, <3>2
  <2> HIDE DEF Z
  <2>3. Reach(c) \subseteq Z
    BY <2>1, <2>2, ReachFacts
  <2> QED  BY <2>3 DEF Z
<1> QED  BY <1>3, <1>4

LEMMA ChildrenAreFinite ==
    ASSUME parents \in AllGraphs, NEW d, NEW at \in Nat
    PROVE  /\ IsFiniteSet(ChildrenFrom(d, at)) /\ Cardinality(ChildrenFrom(d, at)) \in Nat
           /\ at \in 1 .. N => Cardinality(ChildrenFrom(d, at + 1)) =
                  IF d \in Range(parents[at]) THEN Cardinality(ChildrenFrom(d, at)) - 1
                  ELSE Cardinality(ChildrenFrom(d, at))
           /\ (\E e \in at .. N : d \in Range(parents[e])) => Cardinality(ChildrenFrom(d, at)) > 0
<1>1. N \in Nat /\ IsFiniteSet(at .. N)
  BY AncestryAssumption, FS_Interval
<1>2. PICK C : C = ChildrenFrom(d, at)
  OBVIOUS
<1>3. C \in SUBSET (at .. N)
  BY <1>2 DEF ChildrenFrom
<1>4. IsFiniteSet(C) /\ Cardinality(C) \in Nat
  BY <1>1, <1>3, FS_Subset, FS_CardinalityType
<1>5. ASSUME at \in 1 .. N
      PROVE  Cardinality(ChildrenFrom(d, at + 1)) = IF d \in Range(parents[at]) THEN Cardinality(C) - 1 ELSE Cardinality(C)
  <2>1. \A e : e \in at + 1 .. N <=> e \in at .. N /\ e # at
    BY <1>1
  <2>2. ChildrenFrom(d, at + 1) = C \ {at}
    BY <1>2, <2>1 DEF ChildrenFrom
  <2>3. at \in C <=> d \in Range(parents[at])
    BY <1>1, <1>2, <1>5 DEF ChildrenFrom
  <2> QED  BY <1>4, <2>2, <2>3, FS_RemoveElement
<1>6. ASSUME NEW e \in at .. N, d \in Range(parents[e]) PROVE Cardinality(C) > 0
  <2>1. e \in C
    BY <1>2, <1>6 DEF ChildrenFrom
  <2>2. Cardinality(C) # 0
    BY <1>4, <2>1, FS_EmptySet
  <2> QED  BY <1>4, <2>2
<1> QED  BY <1>2, <1>4, <1>5, <1>6

LEMMA ProvingStays ==
    ASSUME Still
    PROVE  /\ \A w, last, at : Proving(w, last, at)' = Proving(w, last, at)
           /\ \A last, n : TrueProofs(last, n)' = TrueProofs(last, n)
           /\ \A last : NamedParents(last)' = NamedParents(last)
<1>1. \A c : Reach(c)' = Reach(c)
  BY ReachStays
<1>2. parents' = parents
  BY DEF Still
<1>3. \A last : NamedParents(last)' = NamedParents(last)
  BY <1>2 DEF NamedParents, Sent
<1>4. \A last, n : TrueProofs(last, n)' = TrueProofs(last, n)
  BY <1>1 DEF TrueProofs, Commits
<1>5. \A d, at : ChildrenFrom(d, at)' = ChildrenFrom(d, at)
  BY <1>2 DEF ChildrenFrom
<1>6. \A w, last : BoundariesReach(w, last)' = BoundariesReach(w, last)
  BY <1>1 DEF BoundariesReach
<1>7. \A X, d : SoundClosure(X, d)' = SoundClosure(X, d)
  BY <1>1 DEF SoundClosure
<1>8. \A X, d, last, bs : WholeClosure(X, d, last, bs)' = WholeClosure(X, d, last, bs)
  BY <1>1 DEF WholeClosure
<1>9. \A w, last, at : Proving(w, last, at)' = Proving(w, last, at)
  BY <1>3, <1>4, <1>5, <1>6, <1>7, <1>8 DEF Proving
<1> QED  BY <1>3, <1>4, <1>9

LEMMA AskProofsKeeps ==
    ASSUME GraphIsWhole, Still, NEW last \in 0 .. N - 1, AskProofs(last)
    PROVE  walk'.kind = "prove" /\ "kind" \in DOMAIN walk' /\ ProveInv' /\ ProofsAreSound'
<1>1. PICK bs : bs = BoundariesOf(last)
  OBVIOUS
<1>2. PICK q : q = [last |-> last]
  OBVIOUS
<1>3. PICK re : re = [b \in bs |-> AncestorsAmong(b, 1 .. last, WalkCap).found]
  OBVIOUS
<1>4. PICK left : left = ChildrenLeft(last)
  OBVIOUS
<1>5. PICK w : w = [kind |-> "prove", q |-> q, end |-> "open", at |-> last + 1, boundaries |-> bs,
                    reachable |-> re, left |-> left, live |-> <<>>, oldest |-> <<>>,
                    proven |-> {}, dropped |-> FALSE]
  OBVIOUS
<1>6. walk' = w /\ 1 .. last \subseteq graphed
  BY <1>1, <1>2, <1>3, <1>4, <1>5 DEF AskProofs
<1>7. /\ w.kind = "prove" /\ w.q = q /\ w.end = "open" /\ w.at = last + 1 /\ w.boundaries = bs /\ w.reachable = re
      /\ w.left = left /\ w.live = <<>> /\ w.proven = {} /\ w.dropped = FALSE
      /\ IsOn(w, ProveFields) /\ "kind" \in DOMAIN w
  BY <1>5 DEF IsOn, ProveFields
<1>8. q.last = last
  BY <1>2
<1>9. N \in Nat /\ last \in Nat /\ last + 1 \in last + 1 .. N /\ WalkCap \in Nat
  BY AncestryAssumption
<1>10. bs \in SUBSET NamedParents(last) /\ NamedParents(last) \in SUBSET (1 .. last)
  BY <1>1 DEF BoundariesOf, NamedParents
<1>11. BoundariesReach(w, last)
  <2> SUFFICES ASSUME NEW b \in bs
               PROVE  re[b] \subseteq Reach(b) /\ (last <= WalkCap + 1 => re[b] = Reach(b) \intersect (1 .. last))
    BY <1>7 DEF BoundariesReach
  <2>1. b \in 1 .. last
    BY <1>10
  <2>2. b \in 0 .. N /\ b # 0 /\ b \in graphed /\ 1 .. last \in SUBSET (0 .. N) /\ b <= last
    BY <1>6, <1>9, <2>1
  <2>3. PICK S \in SUBSET (0 .. N) : S = 1 .. last
    BY <2>2
  <2>4. PICK got : got = AncestorsAmong(b, S, WalkCap)
    OBVIOUS
  <2>5. PICK truth : truth = Reach(b) \intersect S
    OBVIOUS
  <2>6. /\ got.covered \/ b \notin graphed
        /\ got.found \subseteq truth
        /\ got.covered /\ b <= WalkCap + 1 => got.found = truth
    BY <2>2, <2>3, <2>4, <2>5, AmongIs
  <2>7. re[b] = got.found
    BY <1>3, <2>3, <2>4
  <2>8. last <= WalkCap + 1 => b <= WalkCap + 1
    BY <1>9, <2>1, <2>2
  <2> QED  BY <2>2, <2>3, <2>5, <2>6, <2>7, <2>8
<1>12. DOMAIN left = last + 1 .. N /\ \A d \in last + 1 .. N : left[d] = Cardinality(ChildrenFrom(d, last + 1))
  BY <1>4 DEF ChildrenLeft, Sent, ChildrenFrom
<1>13. last + 1 .. (last + 1) - 1 = {} /\ TrueProofs(last, (last + 1) - 1) = {}
  <2>1. last + 1 .. (last + 1) - 1 = {}
    BY <1>9
  <2> QED  BY <2>1 DEF TrueProofs
<1>14. DOMAIN w.live = {}
  BY <1>7
<1>15. Proving(w, last, last + 1)
  BY <1>7, <1>9, <1>10, <1>11, <1>12, <1>13, <1>14 DEF Proving
<1>16. Proving(w, last, last + 1)'
  BY <1>15, ProvingStays
<1>17. ProveInv'
  BY <1>6, <1>7, <1>8, <1>16 DEF ProveInv, ProveOpen
<1>18. ProofsAreSound'
  BY <1>6, <1>7 DEF ProofsAreSound
<1> QED  BY <1>6, <1>7, <1>17, <1>18

\* closure_of
LEMMA ClosureIs ==
    ASSUME GraphIsWhole, NEW w, NEW last, NEW c, Proving(w, last, c), w.q.last = last, NEW X, X = ClosureOf(w, c)
    PROVE  /\ SoundClosure(X, c)
           /\ ~ w.dropped /\ w.boundaries = NamedParents(last) => WholeClosure(X, c, last, w.boundaries)
<1>1. /\ last \in 0 .. N - 1 /\ c \in last + 1 .. N /\ N \in Nat /\ c \in Commits /\ c \in 1 .. N
      /\ last \in Nat /\ c \in Nat /\ last < c
  <2>1. last \in 0 .. N - 1 /\ c \in last + 1 .. N /\ N \in Nat
    BY AncestryAssumption DEF Proving
  <2> QED  BY <2>1 DEF Commits
<1>2. /\ \A p \in Range(parents[c]) : p \in Commits /\ p < c /\ Reach(p) \subseteq Reach(c) \ {c}
      /\ \A x \in Reach(c) \ {c} : \E p \in Range(parents[c]) : x \in Reach(p)
  BY <1>1, ReachByParents DEF GraphIsWhole
<1>3. \A p \in Commits : p \in Nat /\ p \in Reach(p) /\ \A b \in Reach(p) : b \in Nat /\ b <= p
  BY CommitsAreFinite, ReachFacts DEF GraphIsWhole
<1>4. \A y : y \in X <=> \E p \in Range(parents[c]) :
                            \/ p \in DOMAIN w.live /\ y \in w.live[p]
                            \/ y = p /\ (p > last \/ p \in w.boundaries)
  BY DEF ClosureOf
<1>5. SoundClosure(X, c)
  <2> SUFFICES ASSUME NEW y \in X PROVE y \in Reach(c) \ {c}
    BY DEF SoundClosure
  <2>1. PICK p \in Range(parents[c]) : (p \in DOMAIN w.live /\ y \in w.live[p]) \/ y = p
    BY <1>4
  <2>2. p \in DOMAIN w.live => w.live[p] \subseteq Reach(p)
    BY DEF Proving, SoundClosure
  <2>3. y \in Reach(p)
    BY <1>2, <1>3, <2>1, <2>2
  <2> QED  BY <1>2, <2>3
<1>6. ASSUME ~ w.dropped, w.boundaries = NamedParents(last)
      PROVE  WholeClosure(X, c, last, w.boundaries)
  <2> SUFFICES ASSUME NEW x \in Reach(c) \ {c}
               PROVE  IF x > last THEN x \in X ELSE \E b \in X \intersect w.boundaries : x \in Reach(b)
    BY DEF WholeClosure
  <2>1. PICK p \in Range(parents[c]) : x \in Reach(p)
    BY <1>2
  <2>2. p \in Commits /\ p \in Nat /\ p < c /\ x \in Nat /\ x <= p /\ p \in 1 .. N
    <3>1. p \in Commits /\ p < c
      BY <1>2
    <3> QED  BY <1>3, <2>1, <3>1 DEF Commits
  <2>3. CASE ~ (p > last)
    <3>1. p \in 1 .. last /\ ~ (x > last)
      BY <1>1, <2>2, <2>3
    <3>2. p \in NamedParents(last)
      BY <1>1, <3>1 DEF NamedParents, Sent
    <3>3. p \in X
      BY <1>4, <1>6, <3>2
    <3> QED  BY <1>6, <2>1, <3>1, <3>2, <3>3
  <2>4. CASE p > last
    <3>1. p \in last + 1 .. c - 1 /\ p \in last + 1 .. N
      BY <1>1, <2>2, <2>4
    <3>2. w.left[p] > 0
      <4>1. c \in c .. N
        BY <1>1
      <4>2. w.left[p] = Cardinality(ChildrenFrom(p, c))
        BY <3>1 DEF Proving
      <4> QED  BY <1>1, <4>1, <4>2, ChildrenAreFinite DEF GraphIsWhole
    <3>3. p \in DOMAIN w.live /\ WholeClosure(w.live[p], p, last, w.boundaries)
      BY <1>6, <3>1, <3>2 DEF Proving
    <3>4. CASE x = p
      BY <1>4, <2>4, <3>4
    <3>5. CASE x # p
      <4>1. IF x > last THEN x \in w.live[p] ELSE \E b \in w.live[p] \intersect w.boundaries : x \in Reach(b)
        BY <2>1, <3>3, <3>5 DEF WholeClosure
      <4>2. w.live[p] \subseteq X
        BY <1>4, <3>3
      <4> QED  BY <4>1, <4>2
    <3> QED  BY <3>4, <3>5
  <2> QED  BY <2>3, <2>4
<1> QED  BY <1>5, <1>6

\* What ProveCommit makes of a walk: the homes a closure is found to hold, the
\* children left, the closures a child still needs, and the proofs.
Homes(w, X) == {x \in Commits : Holds(w, X, x)}

LeftAfter(w, c) == [d \in DOMAIN w.left |-> IF d \in Range(parents[c]) THEN w.left[d] - 1 ELSE w.left[d]]

NeededAfter(w, c) ==
    LET still == {d \in DOMAIN w.live : LeftAfter(w, c)[d] > 0}
    IN  [d \in (IF LeftAfter(w, c)[c] > 0 THEN still \union {c} ELSE still) |->
            IF d = c THEN ClosureOf(w, c) ELSE w.live[d]]

ProvenAfter(w, c) == w.proven \union {<<c, h>> : h \in Homes(w, ClosureOf(w, c))}

HasEveryHome(S, c) == S = Reach(c) \ {c}

\* What a commit is found to hold is what it reaches.
LEMMA HomesAre ==
    ASSUME GraphIsWhole, NEW w, NEW last, NEW c, Proving(w, last, c), w.q.last = last,
           NEW X, SoundClosure(X, c)
    PROVE  /\ SoundClosure(Homes(w, X), c)
           /\ last <= WalkCap + 1 /\ WholeClosure(X, c, last, w.boundaries) => HasEveryHome(Homes(w, X), c)
<1>1. /\ N \in Nat /\ c \in Commits /\ last \in Nat /\ c \in Nat /\ last < c /\ last <= N
  <2>1. last \in 0 .. N - 1 /\ c \in last + 1 .. N /\ N \in Nat
    BY AncestryAssumption DEF Proving
  <2> QED  BY <2>1 DEF Commits
<1>2. w.boundaries \in SUBSET (1 .. last) /\ BoundariesReach(w, last)
  BY DEF Proving, NamedParents
<1>3. \A b \in w.boundaries : b \in Commits /\ b \in Nat /\ b <= last
  BY <1>1, <1>2 DEF Commits
<1>4. Reach(c) \subseteq Commits /\ \A b \in Reach(c) : Reach(b) \subseteq Reach(c)
  BY <1>1, ReachFacts DEF GraphIsWhole
<1>5. \A b \in w.boundaries : c \notin Reach(b)
  BY <1>1, <1>3, ReachFacts DEF GraphIsWhole
<1>6. ASSUME NEW x \in Homes(w, X) PROVE x \in Reach(c) \ {c}
  <2>1. CASE x > last
    BY <2>1, <1>6 DEF Homes, Holds, SoundClosure
  <2>2. CASE ~ (x > last)
    <3>1. PICK b \in X \intersect w.boundaries : x \in w.reachable[b]
      BY <2>2, <1>6 DEF Homes, Holds
    <3>2. x \in Reach(b) /\ b \in Reach(c)
      BY <1>2, <3>1 DEF BoundariesReach, SoundClosure
    <3> QED  BY <1>4, <1>5, <3>1, <3>2
  <2> QED  BY <2>1, <2>2
<1>7. ASSUME last <= WalkCap + 1, WholeClosure(X, c, last, w.boundaries), NEW x \in Reach(c) \ {c}
      PROVE  x \in Homes(w, X)
  <2>1. x \in Commits /\ x \in 1 .. N
    BY <1>4 DEF Commits
  <2>2. CASE x > last
    BY <1>7, <2>1, <2>2 DEF Homes, Holds, WholeClosure
  <2>3. CASE ~ (x > last)
    <3>1. PICK b \in X \intersect w.boundaries : x \in Reach(b)
      BY <1>7, <2>3 DEF WholeClosure
    <3>2. x \in 1 .. last
      BY <1>1, <2>1, <2>3
    <3>3. x \in w.reachable[b]
      BY <1>2, <1>7, <3>1, <3>2 DEF BoundariesReach
    <3> QED  BY <2>1, <2>3, <3>1, <3>3 DEF Homes, Holds
  <2> QED  BY <2>2, <2>3
<1> QED  BY <1>6, <1>7 DEF SoundClosure, HasEveryHome

LEMMA ProofsGrow ==
    ASSUME parents \in AllGraphs, NEW last \in Nat, NEW c \in Commits, last < c
    PROVE  TrueProofs(last, c) = TrueProofs(last, c - 1) \union {<<c, h>> : h \in Reach(c) \ {c}}
<1>1. c \in Nat /\ Reach(c) \subseteq Commits
  BY CommitsAreFinite, ReachFacts
<1>2. \A d : d \in last + 1 .. c <=> d \in last + 1 .. c - 1 \/ d = c
  BY <1>1
<1>3. ASSUME NEW x \in TrueProofs(last, c)
      PROVE  x \in TrueProofs(last, c - 1) \union {<<c, h>> : h \in Reach(c) \ {c}}
  <2>1. PICK d \in last + 1 .. c, h \in Commits : x = <<d, h>> /\ h \in Reach(d) \ {d}
    BY DEF TrueProofs
  <2>2. CASE d = c
    BY <2>1, <2>2
  <2>3. CASE d # c
    BY <1>2, <2>1, <2>3 DEF TrueProofs
  <2> QED  BY <2>2, <2>3
<1>4. ASSUME NEW x \in TrueProofs(last, c - 1) PROVE x \in TrueProofs(last, c)
  BY <1>2 DEF TrueProofs
<1>5. ASSUME NEW h \in Reach(c) \ {c} PROVE <<c, h>> \in TrueProofs(last, c)
  BY <1>1, <1>2 DEF TrueProofs
<1> QED  BY <1>3, <1>4, <1>5

\* Closures that are left when some are dropped are those that were there.
LEMMA ProvingGoesOn ==
    ASSUME GraphIsWhole, NEW w, NEW last, NEW c, Proving(w, last, c), w.q.last = last, c # N,
           NEW v, v.boundaries = w.boundaries, v.reachable = w.reachable, v.left = LeftAfter(w, c),
           v.proven = ProvenAfter(w, c), DOMAIN v.live \subseteq DOMAIN NeededAfter(w, c),
           \A d \in DOMAIN v.live : v.live[d] = NeededAfter(w, c)[d],
           v.dropped = (w.dropped \/ v.live # NeededAfter(w, c))
    PROVE  Proving(v, last, c + 1)
<1> DEFINE left == LeftAfter(w, c)
           kept == NeededAfter(w, c)
           X == ClosureOf(w, c)
           homes == Homes(w, X)
<1>1. /\ last \in 0 .. N - 1 /\ c \in last + 1 .. N /\ N \in Nat /\ c \in Commits /\ c \in 1 .. N
      /\ last \in Nat /\ c \in Nat /\ last < c /\ c + 1 \in last + 1 .. N /\ (c + 1) - 1 = c
  <2>1. last \in 0 .. N - 1 /\ c \in last + 1 .. N /\ N \in Nat
    BY AncestryAssumption DEF Proving
  <2> QED  BY <2>1 DEF Commits
<1>2. /\ SoundClosure(X, c)
      /\ ~ w.dropped /\ w.boundaries = NamedParents(last) => WholeClosure(X, c, last, w.boundaries)
  BY ClosureIs
<1> HIDE DEF homes, kept, left, X
<1>3. homes = Homes(w, X) /\ left = LeftAfter(w, c) /\ kept = NeededAfter(w, c) /\ X = ClosureOf(w, c)
  BY DEF homes, kept, left, X
<1>4. /\ homes \subseteq Reach(c) \ {c}
      /\ last <= WalkCap + 1 /\ WholeClosure(X, c, last, w.boundaries) => homes = Reach(c) \ {c}
  <2>1. /\ SoundClosure(Homes(w, X), c)
        /\ last <= WalkCap + 1 /\ WholeClosure(X, c, last, w.boundaries) => HasEveryHome(Homes(w, X), c)
    BY <1>2, HomesAre
  <2> QED  BY <1>3, <2>1 DEF SoundClosure, HasEveryHome
<1>5. TrueProofs(last, c) = TrueProofs(last, c - 1) \union {<<c, h>> : h \in Reach(c) \ {c}}
  BY <1>1, ProofsGrow DEF GraphIsWhole
<1>6. v.proven = w.proven \union {<<c, h>> : h \in homes}
  BY <1>3 DEF ProvenAfter
<1>7. w.dropped \in BOOLEAN /\ v.dropped \in BOOLEAN /\ (~ v.dropped => ~ w.dropped /\ v.live = kept)
  BY <1>3 DEF Proving
<1>8. v.proven \subseteq TrueProofs(last, c)
  <2>1. w.proven \subseteq TrueProofs(last, c - 1)
    BY DEF Proving
  <2> QED  BY <1>4, <1>5, <1>6, <2>1
<1>9. ~ v.dropped /\ v.boundaries = NamedParents(last) /\ last <= WalkCap + 1 => v.proven = TrueProofs(last, c)
  <2> SUFFICES ASSUME ~ v.dropped, v.boundaries = NamedParents(last), last <= WalkCap + 1
               PROVE  v.proven = TrueProofs(last, c)
    OBVIOUS
  <2>1. w.proven = TrueProofs(last, c - 1)
    BY <1>7 DEF Proving
  <2>2. homes = Reach(c) \ {c}
    BY <1>2, <1>4, <1>7
  <2> QED  BY <1>5, <1>6, <2>1, <2>2
<1>10. DOMAIN left = last + 1 .. N /\ \A d \in last + 1 .. N : left[d] = Cardinality(ChildrenFrom(d, c + 1))
  <2>1. DOMAIN w.left = last + 1 .. N /\ \A d \in last + 1 .. N : w.left[d] = Cardinality(ChildrenFrom(d, c))
    BY DEF Proving
  <2>2. ASSUME NEW d \in last + 1 .. N PROVE left[d] = Cardinality(ChildrenFrom(d, c + 1))
    <3>1. left[d] = IF d \in Range(parents[c]) THEN w.left[d] - 1 ELSE w.left[d]
      BY <1>3, <2>1 DEF LeftAfter
    <3>2. Cardinality(ChildrenFrom(d, c + 1)) =
              IF d \in Range(parents[c]) THEN Cardinality(ChildrenFrom(d, c)) - 1 ELSE Cardinality(ChildrenFrom(d, c))
      BY <1>1, ChildrenAreFinite DEF GraphIsWhole
    <3> QED  BY <2>1, <3>1, <3>2
  <2> QED  BY <1>3, <2>1, <2>2 DEF LeftAfter
<1>11. /\ DOMAIN kept = IF left[c] > 0 THEN {e \in DOMAIN w.live : left[e] > 0} \union {c}
                        ELSE {e \in DOMAIN w.live : left[e] > 0}
       /\ \A d \in DOMAIN kept : kept[d] = IF d = c THEN X ELSE w.live[d]
  BY <1>3 DEF NeededAfter
<1>12. DOMAIN w.live \subseteq last + 1 .. c - 1 /\ \A d \in DOMAIN w.live : SoundClosure(w.live[d], d)
  BY DEF Proving
<1>13. \A d : d \in last + 1 .. c <=> d \in last + 1 .. c - 1 \/ d = c
  BY <1>1
<1>14. DOMAIN kept \subseteq last + 1 .. c
  BY <1>11, <1>12, <1>13
<1>15. \A d \in DOMAIN kept : SoundClosure(kept[d], d)
  BY <1>2, <1>11, <1>12
<1>16. ASSUME ~ v.dropped, v.boundaries = NamedParents(last), NEW d \in last + 1 .. c, left[d] > 0
       PROVE  d \in DOMAIN v.live /\ WholeClosure(v.live[d], d, last, v.boundaries)
  <2>1. v.live = kept /\ ~ w.dropped
    BY <1>7, <1>16
  <2>2. CASE d = c
    BY <1>2, <1>11, <1>16, <2>1, <2>2
  <2>3. CASE d # c
    <3>1. d \in last + 1 .. c - 1 /\ d \in last + 1 .. N
      BY <1>1, <1>13, <2>3
    <3>2. w.left[d] > 0
      <4>1. left[d] = IF d \in Range(parents[c]) THEN w.left[d] - 1 ELSE w.left[d]
        BY <1>3, <3>1 DEF LeftAfter, Proving
      <4>2. w.left[d] \in Nat
        BY <1>1, <3>1, ChildrenAreFinite DEF Proving, GraphIsWhole
      <4> QED  BY <1>16, <4>1, <4>2
    <3>3. d \in DOMAIN w.live /\ WholeClosure(w.live[d], d, last, w.boundaries)
      BY <1>16, <2>1, <3>1, <3>2 DEF Proving
    <3>4. d \in DOMAIN kept /\ kept[d] = w.live[d]
      BY <1>11, <1>16, <2>3, <3>3
    <3> QED  BY <2>1, <3>3, <3>4
  <2> QED  BY <2>2, <2>3
<1>17. v.boundaries \in SUBSET NamedParents(last) /\ BoundariesReach(v, last)
  BY DEF Proving, BoundariesReach
<1>18. DOMAIN v.live \subseteq last + 1 .. c /\ \A d \in DOMAIN v.live : SoundClosure(v.live[d], d)
  BY <1>3, <1>14, <1>15
<1> QED  BY <1>1, <1>3, <1>7, <1>8, <1>9, <1>10, <1>16, <1>17, <1>18 DEF Proving

LEMMA ProveCommitKeeps ==
    ASSUME GraphIsWhole, Still, ProveInv, walk.kind = "prove", walk.end = "open", ProveCommit
    PROVE  walk'.kind = "prove" /\ "kind" \in DOMAIN walk' /\ ProveInv' /\ ProofsAreSound'
<1>1. PICK c, last : c = walk.at /\ last = walk.q.last
  OBVIOUS
<1>2. PICK X, left, kept, proven :
        /\ X = ClosureOf(walk, c) /\ left = LeftAfter(walk, c) /\ kept = NeededAfter(walk, c)
        /\ proven = ProvenAfter(walk, c)
  OBVIOUS
<1>3. PICK said : said = [last |-> last, bounded |-> walk.dropped \/ walk.boundaries # NamedParents(last)]
  OBVIOUS
<1>4. PICK rest, olds :
        /\ DOMAIN rest \subseteq DOMAIN kept /\ \A d \in DOMAIN rest : rest[d] = kept[d]
        /\ walk' = IF c = N THEN [kind |-> "prove", end |-> "answered", answer |-> proven, q |-> said]
                   ELSE [walk EXCEPT !.at = c + 1, !.left = left, !.proven = proven, !.live = rest,
                                     !.oldest = olds, !.dropped = walk.dropped \/ rest # kept]
  <2> DEFINE w == walk
             at == w.at
             need == NeededAfter(w, at)
             oldest == IF LeftAfter(w, at)[at] > 0 THEN Append(w.oldest, at) ELSE w.oldest
             Without(k) == [d \in DOMAIN need \ Range(SubSeq(oldest, 1, k)) |-> need[d]]
             evict == IF LeftAfter(w, at)[at] = 0 THEN 0
                      ELSE Min({k \in 0 .. Len(oldest) : Resident(Without(k)) <= MaxBits})
             remain == Without(evict)
             older == SubSeq(oldest, evict + 1, Len(oldest))
  <2>1. walk' = IF at = N THEN [kind |-> "prove", end |-> "answered", answer |-> ProvenAfter(w, at),
                                q |-> [last |-> w.q.last, bounded |-> w.dropped \/ w.boundaries # NamedParents(w.q.last)]]
                ELSE [w EXCEPT !.at = at + 1, !.left = LeftAfter(w, at), !.proven = ProvenAfter(w, at),
                               !.live = remain, !.oldest = older, !.dropped = w.dropped \/ remain # need]
    BY DEF ProveCommit, ProvenAfter, LeftAfter, NeededAfter, Homes
  <2>2. DOMAIN remain \subseteq DOMAIN need /\ \A d \in DOMAIN remain : remain[d] = need[d]
    OBVIOUS
  <2> HIDE DEF remain, older
  <2>3. walk' = IF c = N THEN [kind |-> "prove", end |-> "answered", answer |-> proven, q |-> said]
                ELSE [walk EXCEPT !.at = c + 1, !.left = left, !.proven = proven, !.live = remain,
                                  !.oldest = older, !.dropped = walk.dropped \/ remain # kept]
    BY <1>1, <1>2, <1>3, <2>1
  <2>4. DOMAIN remain \subseteq DOMAIN kept /\ \A d \in DOMAIN remain : remain[d] = kept[d]
    BY <1>1, <1>2, <2>2
  <2> HIDE DEF w, at, need, oldest, Without, evict
  <2> QED  BY <2>3, <2>4, Zenon
<1>5. IsOn(walk, ProveFields) /\ Proving(walk, last, c)
  BY <1>1 DEF ProveInv, ProveOpen
<1>6. CASE c # N
  <2>1. PICK drops : drops = (walk.dropped \/ rest # kept)
    OBVIOUS
  <2>2. walk' = [walk EXCEPT !.at = c + 1, !.left = left, !.proven = proven,
                             !.live = rest, !.oldest = olds, !.dropped = drops]
    BY <1>4, <1>6, <2>1
  <2>3. /\ walk'.kind = "prove" /\ walk'.end = "open" /\ walk'.q = walk.q /\ walk'.at = c + 1
        /\ walk'.boundaries = walk.boundaries /\ walk'.reachable = walk.reachable
        /\ walk'.left = left /\ walk'.proven = proven /\ walk'.live = rest /\ walk'.dropped = drops
        /\ IsOn(walk', ProveFields) /\ "kind" \in DOMAIN walk'
    BY <1>5, <2>2 DEF IsOn, ProveFields
  <2>4. PICK v : v = walk'
    OBVIOUS
  <2>5. /\ v.boundaries = walk.boundaries /\ v.reachable = walk.reachable
        /\ v.left = left /\ v.proven = proven /\ v.live = rest /\ v.dropped = (walk.dropped \/ v.live # kept)
        /\ DOMAIN v.live \subseteq DOMAIN kept /\ \A d \in DOMAIN v.live : v.live[d] = kept[d]
    BY <1>4, <2>1, <2>3, <2>4
  <2>6. Proving(v, last, c + 1)
    BY <1>1, <1>2, <1>5, <1>6, <2>5, ProvingGoesOn
  <2>7. Proving(v, last, c + 1)'
    BY <2>6, ProvingStays
  <2>8. ProveInv'
    BY <1>1, <2>3, <2>4, <2>7 DEF ProveInv, ProveOpen
  <2>9. ProofsAreSound'
    BY <2>3 DEF ProofsAreSound
  <2> QED  BY <2>3, <2>8, <2>9
<1>7. CASE c = N
  <2>1. walk' = [kind |-> "prove", end |-> "answered", answer |-> proven, q |-> said]
    BY <1>4, <1>7
  <2>2. said.last = last /\ (~ said.bounded => ~ walk.dropped /\ walk.boundaries = NamedParents(last))
    BY <1>3
  <2>3. walk'.kind = "prove" /\ walk'.end = "answered" /\ walk'.answer = proven /\ walk'.q = said /\ "kind" \in DOMAIN walk'
    BY <2>1
  <2>4. /\ last \in 0 .. N - 1 /\ c \in last + 1 .. N /\ N \in Nat /\ c \in Commits
        /\ last \in Nat /\ c \in Nat /\ last < c
    <3>1. last \in 0 .. N - 1 /\ c \in last + 1 .. N /\ N \in Nat
      BY <1>5, AncestryAssumption DEF Proving
    <3> QED  BY <3>1 DEF Commits
  <2>5. /\ SoundClosure(X, c)
        /\ ~ walk.dropped /\ walk.boundaries = NamedParents(last) => WholeClosure(X, c, last, walk.boundaries)
    BY <1>1, <1>2, <1>5, ClosureIs
  <2>6. PICK homes : homes = Homes(walk, X)
    OBVIOUS
  <2>7. /\ homes \subseteq Reach(c) \ {c}
        /\ last <= WalkCap + 1 /\ WholeClosure(X, c, last, walk.boundaries) => homes = Reach(c) \ {c}
    <3>1. /\ SoundClosure(Homes(walk, X), c)
          /\ last <= WalkCap + 1 /\ WholeClosure(X, c, last, walk.boundaries) => HasEveryHome(Homes(walk, X), c)
      BY <1>1, <1>5, <2>5, HomesAre
    <3> QED  BY <2>6, <3>1 DEF SoundClosure, HasEveryHome
  <2>8. TrueProofs(last, c) = TrueProofs(last, c - 1) \union {<<c, h>> : h \in Reach(c) \ {c}}
    BY <2>4, ProofsGrow DEF GraphIsWhole
  <2>9. proven = walk.proven \union {<<c, h>> : h \in homes}
    BY <1>2, <2>6 DEF ProvenAfter
  <2>10. proven \subseteq TrueProofs(last, N)
    <3>1. walk.proven \subseteq TrueProofs(last, c - 1)
      BY <1>5 DEF Proving
    <3> QED  BY <1>7, <2>7, <2>8, <2>9, <3>1
  <2>11. ASSUME ~ said.bounded, last <= WalkCap + 1 PROVE proven = TrueProofs(last, N)
    <3>1. ~ walk.dropped /\ walk.boundaries = NamedParents(last)
      BY <2>2, <2>11
    <3>2. walk.proven = TrueProofs(last, c - 1)
      BY <1>5, <2>11, <3>1 DEF Proving
    <3>3. homes = Reach(c) \ {c}
      BY <2>5, <2>7, <2>11, <3>1
    <3> QED  BY <1>7, <2>8, <2>9, <3>2, <3>3
  <2>12. TrueProofs(last, N) = {x \in Sent(last) \X Commits : x[2] \in Reach(x[1]) \ {x[1]}}'
    <3>1. TrueProofs(last, N) = TrueProofs(last, N)'
      BY ProvingStays
    <3> QED  BY <3>1 DEF TrueProofs, Sent
  <2>13. ProofsAreSound'
    BY <2>2, <2>3, <2>10, <2>11, <2>12 DEF ProofsAreSound
  <2>14. ProveInv'
    BY <2>3 DEF ProveInv
  <2> QED  BY <2>3, <2>13, <2>14
<1> QED  BY <1>6, <1>7

-----------------------------------------------------------------------------
(* All walks                                                               *)

WalksAreOn == IsAncestorInv /\ MergeBasesInv /\ PageInv /\ NeededInv /\ DepthsInv /\ ProveInv

AncestryInv == GraphIsWhole /\ "kind" \in DOMAIN walk /\ WalksAreOn /\ WalksAgreeWithTheGraph /\ ProofsAreSound

\* A walk of one kind says nothing of the others.
LEMMA OtherWalks ==
    /\ walk.kind # "is_ancestor" => IsAncestorInv /\ IsAncestorAgrees
    /\ walk.kind # "merge_bases" => MergeBasesInv /\ MergeBasesAgree
    /\ walk.kind # "among" => AmongAgrees
    /\ walk.kind # "page" => PageInv /\ PageAgrees
    /\ walk.kind # "needed" => NeededInv /\ NeededAgrees
    /\ walk.kind # "depths" => DepthsInv /\ DepthsAgree
    /\ walk.kind # "prove" => ProveInv /\ ProofsAreSound
<1>1. walk.kind # "is_ancestor" => IsAncestorInv /\ IsAncestorAgrees
  BY DEF IsAncestorInv, IsAncestorAgrees, Agrees
<1>2. walk.kind # "merge_bases" => MergeBasesInv /\ MergeBasesAgree
  BY DEF MergeBasesInv, MergeBasesAgree, Agrees
<1>3. walk.kind # "among" => AmongAgrees
  BY DEF AmongAgrees, Agrees
<1>4. walk.kind # "page" => PageInv /\ PageAgrees
  BY DEF PageInv, PageAgrees, Agrees
<1>5. walk.kind # "needed" => NeededInv /\ NeededAgrees
  BY DEF NeededInv, NeededAgrees, Agrees
<1>6. walk.kind # "depths" => DepthsInv /\ DepthsAgree
  BY DEF DepthsInv, DepthsAgree, Agrees
<1>7. walk.kind # "prove" => ProveInv /\ ProofsAreSound
  BY DEF ProveInv, ProofsAreSound
<1> QED  BY <1>1, <1>2, <1>3, <1>4, <1>5, <1>6, <1>7

LEMMA GraphStays == ASSUME Still, GraphIsWhole PROVE GraphIsWhole'
  BY DEF Still, GraphIsWhole, AllGraphs, ParentLists, Commits

LEMMA NothingHappens ==
    ASSUME AncestryInv, UNCHANGED avars
    PROVE  AncestryInv'
<1>1. Still /\ walk' = walk /\ graphed' = graphed
  BY DEF avars, Still
<1>2. GraphIsWhole' /\ ("kind" \in DOMAIN walk)'
  BY <1>1, GraphStays DEF AncestryInv
<1>3. Asked(walk)' = Asked(walk) /\ AllNumbered' = AllNumbered
  BY <1>1 DEF Asked, AllNumbered
<1>4. IsAncestorInv' /\ IsAncestorAgrees'
  BY <1>1, <1>3, ReachStays DEF AncestryInv, WalksAreOn, WalksAgreeWithTheGraph,
     IsAncestorInv, IsAncestorOpen, IsAncestorAgrees, Agrees, Commits
<1>5. MergeBasesInv' /\ MergeBasesAgree'
  BY <1>1, <1>3, ExploresStays DEF AncestryInv, WalksAreOn, WalksAgreeWithTheGraph,
     MergeBasesInv, MergeBasesOpen, MergeBasesAgree, Agrees, Commits
<1>6. AmongAgrees'
  BY <1>1, <1>3, ReachStays DEF AncestryInv, WalksAgreeWithTheGraph, AmongAgrees, Agrees
<1>7. PageInv' /\ PageAgrees'
  BY <1>1, <1>3, LineStays DEF AncestryInv, WalksAreOn, WalksAgreeWithTheGraph,
     PageInv, PageOpen, PageAgrees, Agrees, Commits
<1>8. NeededInv' /\ NeededAgrees'
  BY <1>1, <1>3, ReachStays DEF AncestryInv, WalksAreOn, WalksAgreeWithTheGraph,
     NeededInv, NeededOpen, NeededAgrees, Agrees, Decided, Commits
<1>9. DepthsInv'
  <2>1. DepthsInv
    BY DEF AncestryInv, WalksAreOn
  <2> QED  BY <1>1, <2>1, PathsStay DEF DepthsInv, DepthsOpen, Starts, Commits
<1>10. DepthsAgree'
  <2>1. DepthsAgree
    BY DEF AncestryInv, WalksAgreeWithTheGraph
  <2> SUFFICES ASSUME walk.kind = "depths", walk.end # "open"
               PROVE  (IF walk.end = "failed" THEN ~ (Asked(walk) \subseteq graphed)
                       ELSE walk.answer = {x \in Commits \X (1 .. walk.q.limit) :
                                /\ x[1] \in Within(walk.q.wants, x[2])
                                /\ x[2] > 1 => x[1] \notin Within(walk.q.wants, x[2] - 1)})'
    BY <1>1 DEF DepthsAgree, Agrees
  <2>2. walk.end = "failed" => (~ (Asked(walk) \subseteq graphed))'
    BY <1>1, <1>3, <2>1 DEF DepthsAgree, Agrees
  <2>3. walk.end # "failed" => walk.answer = {x \in Commits \X (1 .. walk.q.limit) :
                                /\ x[1] \in Within(walk.q.wants, x[2])
                                /\ x[2] > 1 => x[1] \notin Within(walk.q.wants, x[2] - 1)}
    BY <2>1 DEF DepthsAgree, Agrees
  <2>4. walk.end # "failed" => (walk.answer = {x \in Commits \X (1 .. walk.q.limit) :
                                /\ x[1] \in Within(walk.q.wants, x[2])
                                /\ x[2] > 1 => x[1] \notin Within(walk.q.wants, x[2] - 1)})'
    BY <1>1, <2>3, PathsStay DEF Commits
  <2> QED  BY <1>1, <2>2, <2>4
<1>11. ProveInv'
  <2>1. ProveInv
    BY DEF AncestryInv, WalksAreOn
  <2> QED  BY <1>1, <2>1, ProvingStays DEF ProveInv, ProveOpen
<1>12. ProofsAreSound'
  BY <1>1, ReachStays DEF AncestryInv, ProofsAreSound, Sent, Commits
<1> QED  BY <1>2, <1>4, <1>5, <1>6, <1>7, <1>8, <1>9, <1>10, <1>11, <1>12 DEF AncestryInv, WalksAreOn, WalksAgreeWithTheGraph

LEMMA AncestryStep == AncestryInv /\ [ANext]_avars => AncestryInv'
<1> SUFFICES ASSUME AncestryInv, [ANext]_avars PROVE AncestryInv'
  OBVIOUS
<1>1. CASE UNCHANGED avars
  BY <1>1, NothingHappens
<1>2. CASE ANext
  <2> DEFINE Stands == ("kind" \in DOMAIN walk)' /\ WalksAreOn' /\ WalksAgreeWithTheGraph' /\ ProofsAreSound'
  <2>1. Still /\ GraphIsWhole /\ "kind" \in DOMAIN walk /\ WalksAreOn
    BY <1>2 DEF ANext, Still, AncestryInv
  <2>2. GraphIsWhole'
    BY <2>1, GraphStays
  <2>3. (/\ walk.kind # "is_ancestor" => IsAncestorInv /\ IsAncestorAgrees
         /\ walk.kind # "merge_bases" => MergeBasesInv /\ MergeBasesAgree
         /\ walk.kind # "among" => AmongAgrees
         /\ walk.kind # "page" => PageInv /\ PageAgrees
         /\ walk.kind # "needed" => NeededInv /\ NeededAgrees
         /\ walk.kind # "depths" => DepthsInv /\ DepthsAgree
         /\ walk.kind # "prove" => ProveInv /\ ProofsAreSound)'
    BY OtherWalks, PTL
  <2>4. ASSUME walk'.kind = "is_ancestor" /\ "kind" \in DOMAIN walk' /\ IsAncestorInv' /\ IsAncestorAgrees'
        PROVE  Stands
    BY <2>3, <2>4 DEF WalksAreOn, WalksAgreeWithTheGraph
  <2>5. ASSUME walk'.kind = "merge_bases" /\ "kind" \in DOMAIN walk' /\ MergeBasesInv' /\ MergeBasesAgree'
        PROVE  Stands
    BY <2>3, <2>5 DEF WalksAreOn, WalksAgreeWithTheGraph
  <2>6. ASSUME walk'.kind = "among" /\ "kind" \in DOMAIN walk' /\ AmongAgrees'
        PROVE  Stands
    BY <2>3, <2>6 DEF WalksAreOn, WalksAgreeWithTheGraph
  <2>7. ASSUME walk'.kind = "page" /\ "kind" \in DOMAIN walk' /\ PageInv' /\ PageAgrees'
        PROVE  Stands
    BY <2>3, <2>7 DEF WalksAreOn, WalksAgreeWithTheGraph
  <2>8. ASSUME walk'.kind = "needed" /\ "kind" \in DOMAIN walk' /\ NeededInv' /\ NeededAgrees'
        PROVE  Stands
    BY <2>3, <2>8 DEF WalksAreOn, WalksAgreeWithTheGraph
  <2>9. ASSUME walk'.kind = "depths" /\ "kind" \in DOMAIN walk' /\ DepthsInv' /\ DepthsAgree'
        PROVE  Stands
    BY <2>3, <2>9 DEF WalksAreOn, WalksAgreeWithTheGraph
  <2>10. ASSUME walk'.kind = "prove" /\ "kind" \in DOMAIN walk' /\ ProveInv' /\ ProofsAreSound'
         PROVE  Stands
    BY <2>3, <2>10 DEF WalksAreOn, WalksAgreeWithTheGraph
  <2> HIDE DEF Stands
  <2>11. ASSUME NEW a \in 0 .. N, NEW b \in 0 .. N, AskIsAncestor(a, b) PROVE Stands
    BY <2>1, <2>4, <2>11, AskIsAncestorKeeps
  <2>12. ASSUME NEW a \in 0 .. N, NEW b \in 0 .. N, AskMergeBases(a, b) PROVE Stands
    BY <2>1, <2>5, <2>12, AskMergeBasesKeeps
  <2>13. ASSUME NEW c \in 0 .. N, NEW S \in Few(0 .. N), AskAmong(c, S) PROVE Stands
    <3>1. S \in SUBSET (0 .. N)
      BY DEF Few
    <3> QED  BY <2>1, <2>6, <2>13, <3>1, AskAmongKeeps
  <2>14. ASSUME NEW c \in 0 .. N, NEW k \in 0 .. N, AskPage(c, k) PROVE Stands
    BY <2>1, <2>7, <2>14, AskPageKeeps
  <2>15. ASSUME NEW last \in 0 .. N - 1, AskProofs(last) PROVE Stands
    BY <2>1, <2>10, <2>15, AskProofsKeeps
  <2>16. \A W \in Few(graphed) : W \in SUBSET Commits
    BY <2>1, GraphedCloses DEF Few
  <2>17. ASSUME NEW W \in Few(graphed) \ {{}}, NEW h \in 0 .. N, NEW b \in 0 .. N,
                AskNeeded(W, {h} \ {0}, {b} \ {0})
         PROVE  Stands
    <3>1. W \in SUBSET Commits /\ W # {}
      BY <2>16
    <3>2. {h} \ {0} \in SUBSET Commits
      BY AncestryAssumption DEF Commits
    <3> QED  BY <2>1, <2>8, <2>17, <3>1, <3>2, AskNeededKeeps
  <2>18. ASSUME NEW W \in Few(graphed) \ {{}}, NEW d \in 1 .. N, AskDepths(W, d)
         PROVE  Stands
    <3>1. W \in SUBSET Commits /\ W # {}
      BY <2>16
    <3>2. d \in Nat \ {0}
      BY AncestryAssumption
    <3> QED  BY <2>1, <2>9, <2>18, <3>1, <3>2, AskDepthsKeeps
  <2>19. ASSUME AskAboutAncestry PROVE Stands
    BY <2>11, <2>12, <2>13, <2>14, <2>15, <2>17, <2>18, <2>19 DEF AskAboutAncestry
  <2>20. ASSUME walk.kind = "is_ancestor", walk.end = "open", IsAncestorBand PROVE Stands
    BY <2>1, <2>4, <2>20, IsAncestorBandKeeps DEF WalksAreOn
  <2>21. ASSUME walk.kind = "merge_bases", walk.end = "open", MergeBasesBand PROVE Stands
    BY <2>1, <2>5, <2>21, MergeBasesBandKeeps DEF WalksAreOn
  <2>22. ASSUME walk.kind = "page", walk.end = "open", PageRound PROVE Stands
    BY <2>1, <2>7, <2>22, PageRoundKeeps DEF WalksAreOn
  <2>23. ASSUME walk.kind = "needed", walk.end = "open", NeededBand PROVE Stands
    BY <2>1, <2>8, <2>23, NeededBandKeeps DEF WalksAreOn
  <2>24. ASSUME walk.kind = "depths", walk.end = "open", DepthsBand PROVE Stands
    BY <2>1, <2>9, <2>24, DepthsBandKeeps DEF WalksAreOn
  <2>25. ASSUME walk.kind = "prove", walk.end = "open", ProveCommit PROVE Stands
    BY <2>1, <2>10, <2>25, ProveCommitKeeps DEF WalksAreOn
  <2>26. Stands
    BY <1>2, <2>19, <2>20, <2>21, <2>22, <2>23, <2>24, <2>25, Zenon DEF ANext, Round
  <2> QED  BY <2>2, <2>26 DEF Stands, AncestryInv
<1> QED  BY <1>1, <1>2

LEMMA AncestryStarts == AInit => AncestryInv
<1> SUFFICES ASSUME AInit PROVE AncestryInv
  OBVIOUS
<1>1. walk.kind = "none" /\ "kind" \in DOMAIN walk
  BY DEF AInit, None
<1>2. GraphIsWhole
  BY DEF AInit, GraphIsWhole
<1> QED  BY <1>1, <1>2, OtherWalks DEF AncestryInv, WalksAreOn, WalksAgreeWithTheGraph

\* Every walk of the commit graph that ends (banded_is_ancestor,
\* banded_merge_bases, ancestors_among, first_parent_page, banded_paint_walk,
\* depth_classify) answers as the whole history would, for every history,
\* every part of it that is recorded and every schedule of band widths; one
\* that met its bound claims no more than is true, and only a question about a
\* commit without an entry fails.
THEOREM AncestryIsTrue == ASpec => []WalksAgreeWithTheGraph
<1>1. AncestryInv => WalksAgreeWithTheGraph
  BY DEF AncestryInv
<1> QED  BY <1>1, AncestryStarts, AncestryStep, PTL DEF ASpec

\* Push::prove never says that a commit's readers reach a home they do not
\* reach, whichever closures are evicted (Closures::keep) and whichever
\* boundaries are not walked; and unless a closure that was still needed was
\* evicted, or a boundary left out, or one lies deeper than WALK_CAP, it misses
\* none, for every history, every split of it into old and sent, and every bound.
THEOREM PushProofsAreSound == ASpec => []ProofsAreSound
<1>1. AncestryInv => ProofsAreSound
  BY DEF AncestryInv
<1> QED  BY <1>1, AncestryStarts, AncestryStep, PTL DEF ASpec

-----------------------------------------------------------------------------
(* The outcomes of a push to a remote                                      *)

PushFields == {"phase", "request", "seen", "steps", "report", "landed", "error"}
StepFields == {"ref", "old", "new", "force", "status"}

\* What this side lets a command do to a ref of the remote's.
Allowed(s) == s.force \/ s.new = Null \/ s.old = Null \/ IsAncestor(s.old, s.new)

\* A ref is one step's, and what moved was allowed to.
StepsAreSound ==
    /\ \A i \in DOMAIN push.steps : IsOn(push.steps[i], StepFields)
    /\ \A i, j \in DOMAIN push.steps : push.steps[i].ref = push.steps[j].ref => i = j
    /\ \A i \in DOMAIN push.steps : push.steps[i].ref \in push.landed => Allowed(push.steps[i])

\* All of an atomic push moved, if any of it did.
AtomicMoves ==
    push.request.atomic /\ (\E i \in DOMAIN push.steps : push.steps[i].ref \in push.landed) =>
        \A i \in DOMAIN push.steps :
            push.steps[i].ref \in push.landed \/ push.steps[i].status = "up_to_date"

\* Until the report is read, a step is sent, refused on this side, or needless.
Unreported ==
    /\ \A i \in DOMAIN push.steps :
         /\ push.steps[i].status \in {"send", "rejected", "up_to_date"}
         /\ push.steps[i].status = "send" => Allowed(push.steps[i])
         /\ push.steps[i].ref \in push.landed => push.steps[i].status = "send"
    /\ push.request.atomic =>
         \A i, j \in DOMAIN push.steps :
            push.steps[i].status = "rejected" => push.steps[j].status # "send"

\* The errors that leave it open what landed.
Unsure == StatusErrors \union {"report_unread", "transport"}

Reported ==
    /\ push.error = "none" =>
         \A i \in DOMAIN push.steps :
            push.steps[i].status \in {"updated", "deleted"} => push.steps[i].ref \in push.landed
    /\ push.error # "none" /\ push.landed # {} => push.error \in Unsure

Pushing ==
    /\ IsOn(push, PushFields)
    /\ push.phase \in {"dialing", "discovered", "planned", "sent", "landed", "refused", "answered"}
    /\ StepsAreSound /\ AtomicMoves
    /\ push.phase \notin {"landed", "answered"} => push.landed = {}
    /\ push.phase # "answered" => Unreported
    /\ push.phase = "answered" => Reported

RemoteInv == push = NoPush \/ Pushing

LEMMA AllowedStays ==
    ASSUME repo' = repo, recorded' = recorded, NEW CONSTANT s
    PROVE  Allowed(s)' <=> Allowed(s)
  BY DEF Allowed, IsAncestor, Ancestors, Null, Commit

\* The fields of a push that is changed in some.
LEMMA FieldsOfPush ==
    ASSUME IsOn(push, PushFields)
    PROVE  /\ push = [phase |-> push.phase, request |-> push.request, seen |-> push.seen,
                      steps |-> push.steps, report |-> push.report, landed |-> push.landed,
                      error |-> push.error]
           /\ \A f \in PushFields : f \in DOMAIN push
  BY DEF IsOn, PushFields

\* What a step that leaves the steps and what landed alone keeps.
LEMMA SoundStays ==
    ASSUME repo' = repo, recorded' = recorded,
           push'.steps = push.steps, push'.landed = push.landed, push'.request = push.request
    PROVE  /\ StepsAreSound => StepsAreSound'
           /\ AtomicMoves => AtomicMoves'
           /\ Unreported => Unreported'
<1>1. PICK steps : steps = push.steps
  OBVIOUS
<1>2. push'.steps = steps
  BY <1>1
<1>3. \A i \in DOMAIN steps : Allowed(steps[i])' <=> Allowed(steps[i])
  BY AllowedStays
<1>4. StepsAreSound => StepsAreSound'
  BY <1>1, <1>2, <1>3 DEF StepsAreSound, IsOn
<1>5. AtomicMoves => AtomicMoves'
  BY DEF AtomicMoves
<1>6. Unreported => Unreported'
  BY <1>1, <1>2, <1>3 DEF Unreported
<1> QED  BY <1>4, <1>5, <1>6

\* A push that ends without outcomes says so truly.
LEMMA FailedKeeps ==
    ASSUME RemoteInv, push # NoPush, repo' = repo, recorded' = recorded,
           NEW CONSTANT error, Failed(error), error # "none",
           push.landed = {} \/ error \in Unsure
    PROVE  Pushing'
<1>1. Pushing
  BY DEF RemoteInv
<1>2. /\ push'.phase = "answered" /\ push'.error = error /\ push'.steps = push.steps
      /\ push'.landed = push.landed /\ push'.request = push.request /\ IsOn(push', PushFields)
  BY <1>1 DEF Failed, Pushing, IsOn, PushFields
<1>3. StepsAreSound' /\ AtomicMoves'
  BY <1>1, <1>2, SoundStays DEF Pushing
<1>4. Reported'
  BY <1>2 DEF Reported
<1> QED  BY <1>2, <1>3, <1>4 DEF Pushing

LEMMA RemoteStays ==
    ASSUME RemoteInv, repo' = repo, recorded' = recorded, push' = push
    PROVE  RemoteInv'
<1>1. CASE push = NoPush
  BY <1>1 DEF RemoteInv
<1>2. CASE Pushing
  <2>1. StepsAreSound' /\ AtomicMoves' /\ (Unreported => Unreported') /\ Reported' = Reported
    BY <1>2, SoundStays DEF Pushing, Reported
  <2> QED  BY <1>2, <2>1 DEF RemoteInv, Pushing, IsOn
<1> QED  BY <1>1, <1>2 DEF RemoteInv

\* A step that goes on and touches neither the steps nor what landed.
LEMMA GoingOnKeeps ==
    ASSUME RemoteInv, push # NoPush, repo' = repo, recorded' = recorded,
           push.landed = {}, push.phase # "answered",
           push'.phase \in {"discovered", "planned", "sent", "refused"},
           push'.steps = push.steps, push'.landed = push.landed, push'.request = push.request,
           IsOn(push', PushFields)
    PROVE  Pushing'
<1>1. Pushing
  BY DEF RemoteInv
<1>2. StepsAreSound' /\ AtomicMoves' /\ Unreported'
  BY <1>1, SoundStays DEF Pushing
<1> QED  BY <1>2 DEF Pushing

LEMMA BeginKeeps ==
    ASSUME Begin
    PROVE  Pushing'
<1>1. PICK request \in Requests, private \in BOOLEAN, sendable \in BOOLEAN :
         LET stated == request.refs # <<>> /\ sendable
         IN  push' = [ phase |-> IF stated /\ Dialable(request.url, private)
                                   THEN "dialing" ELSE "answered",
                       request |-> request, seen |-> <<>>, steps |-> <<>>, report |-> <<>>,
                       landed |-> {}, error |-> IF stated THEN "remote" ELSE "request" ]
  BY DEF Begin
<1>2. /\ push'.phase \in {"dialing", "answered"} /\ push'.steps = <<>> /\ push'.landed = {}
      /\ push'.error \in {"request", "remote"} /\ IsOn(push', PushFields)
  <2> HIDE DEF Dialable
  <2> QED  BY <1>1 DEF IsOn, PushFields
<1>3. DOMAIN push'.steps = {}
  <2>1. DOMAIN <<>> = {}
    OBVIOUS
  <2> QED  BY <1>2, <2>1
<1>4. StepsAreSound' /\ AtomicMoves' /\ Unreported' /\ Reported'
  BY <1>2, <1>3 DEF StepsAreSound, AtomicMoves, Unreported, Reported
<1> QED  BY <1>2, <1>4 DEF Pushing

LEMMA DiscoverKeeps ==
    ASSUME RemoteInv, Discover, repo' = repo, recorded' = recorded
    PROVE  Pushing'
<1>1. Pushing /\ push # NoPush /\ push.landed = {} /\ push.phase = "dialing"
  BY DEF RemoteInv, Discover, NoPush, Pushing
<1>2. CASE push' = [push EXCEPT !.phase = "discovered", !.seen = remote.refs]
  <2>1. /\ push'.phase = "discovered" /\ push'.steps = push.steps /\ push'.landed = push.landed
        /\ push'.request = push.request /\ IsOn(push', PushFields)
    BY <1>1, <1>2 DEF Pushing, IsOn, PushFields
  <2> QED  BY <1>1, <2>1, GoingOnKeeps
<1>3. CASE \E error \in StatusErrors \union {"unsupported", "protocol", "transport"} : Failed(error)
  <2>1. PICK error \in StatusErrors \union {"unsupported", "protocol", "transport"} : Failed(error)
    BY <1>3
  <2>2. error # "none"
    BY <2>1 DEF StatusErrors
  <2> QED  BY <1>1, <2>1, <2>2, FailedKeeps
<1> QED  BY <1>2, <1>3 DEF Discover

\* What a spec becomes: a step to the ref it names.
LEMMA FastForwardIsSound ==
    ASSUME NEW spec, NEW local, NEW refs, NEW s, s = FastForwardOnly(StepOf(spec, local, refs))
    PROVE  /\ IsOn(s, StepFields) /\ s.ref = Destination(spec)
           /\ s.status \in {"send", "rejected", "up_to_date"}
           /\ s.status = "send" => Allowed(s)
<1>1. PICK t : t = StepOf(spec, local, refs)
  OBVIOUS
<1>2. IsOn(t, StepFields) /\ t.ref = Destination(spec) /\ t.status \in {"send", "rejected", "up_to_date"}
  BY <1>1 DEF StepOf, IsOn, StepFields
<1>3. s = FastForwardOnly(t)
  BY <1>1
<1>4. CASE t.status = "send" /\ ~ Allowed(t)
  <2>1. s = [t EXCEPT !.status = "rejected"]
    BY <1>3, <1>4 DEF FastForwardOnly, Allowed
  <2> QED  BY <1>2, <2>1 DEF IsOn, StepFields
<1>5. CASE ~ (t.status = "send" /\ ~ Allowed(t))
  <2>1. s = t
    BY <1>3, <1>5 DEF FastForwardOnly, Allowed
  <2> QED  BY <1>2, <1>5, <2>1
<1> QED  BY <1>4, <1>5

\* A step held back is the same ref's, and sent only if it was to be.
LEMMA HoldBackIsSound ==
    ASSUME NEW all, \A i \in DOMAIN all : IsOn(all[i], StepFields) /\ all[i].status \in {"send", "rejected", "up_to_date"},
           NEW steps, steps = HoldBack(all)
    PROVE  /\ DOMAIN steps = DOMAIN all
           /\ \A i \in DOMAIN all :
                /\ IsOn(steps[i], StepFields) /\ steps[i].ref = all[i].ref
                /\ steps[i].status \in {"send", "rejected", "up_to_date"}
                /\ steps[i].status = "send" => steps[i] = all[i]
           /\ \A i, j \in DOMAIN all : steps[i].status = "rejected" => steps[j].status # "send"
<1>1. CASE \E i \in DOMAIN all : all[i].status = "rejected"
  <2>1. DOMAIN steps = DOMAIN all /\
        \A i \in DOMAIN all : steps[i] = IF all[i].status = "send"
                                     THEN [all[i] EXCEPT !.status = "rejected"] ELSE all[i]
    BY <1>1 DEF HoldBack
  <2>2. ASSUME NEW i \in DOMAIN all
        PROVE  /\ IsOn(steps[i], StepFields) /\ steps[i].ref = all[i].ref
               /\ steps[i].status \in {"rejected", "up_to_date"}
    <3>1. CASE all[i].status = "send"
      <4>1. steps[i] = [all[i] EXCEPT !.status = "rejected"]
        BY <3>1, <2>1
      <4> QED  BY <4>1 DEF IsOn, StepFields
    <3>2. CASE all[i].status # "send"
      BY <3>2, <2>1
    <3> QED  BY <3>1, <3>2
  <2> QED  BY <2>1, <2>2
<1>2. CASE ~ \E i \in DOMAIN all : all[i].status = "rejected"
  <2>1. steps = all
    BY <1>2 DEF HoldBack
  <2> QED  BY <1>2, <2>1
<1> QED  BY <1>1, <1>2

\* The fields of a push whose commands are worked out.
LEMMA PlannedKeeps ==
    ASSUME RemoteInv, push.phase = "discovered", repo' = repo, recorded' = recorded,
           NEW CONSTANT steps,
           \A i \in DOMAIN steps :
              /\ IsOn(steps[i], StepFields)
              /\ steps[i].status \in {"send", "rejected", "up_to_date"}
              /\ steps[i].status = "send" => Allowed(steps[i]),
           \A i, j \in DOMAIN steps : steps[i].ref = steps[j].ref => i = j,
           push.request.atomic =>
              \A i, j \in DOMAIN steps : steps[i].status = "rejected" => steps[j].status # "send",
           push' = [push EXCEPT !.steps = steps, !.error = "none",
                        !.phase = IF Commands(steps) = {} THEN "answered" ELSE "planned"]
    PROVE  Pushing'
<1>1. Pushing /\ push.landed = {}
  BY DEF RemoteInv, NoPush, Pushing
<1>2. PICK phase \in {"answered", "planned"} :
         push' = [push EXCEPT !.steps = steps, !.error = "none", !.phase = phase]
  OBVIOUS
<1>3. /\ push'.phase = phase /\ push'.steps = steps /\ push'.landed = {} /\ push'.error = "none"
      /\ push'.request = push.request /\ IsOn(push', PushFields)
  BY <1>1, <1>2 DEF Pushing, IsOn, PushFields
<1>4. \A i \in DOMAIN steps : Allowed(steps[i])' <=> Allowed(steps[i])
  BY AllowedStays
<1>5. StepsAreSound'
  BY <1>3 DEF StepsAreSound
<1>6. AtomicMoves'
  BY <1>3 DEF AtomicMoves
<1>7. Unreported'
  BY <1>3, <1>4 DEF Unreported
<1>8. Reported'
  BY <1>3 DEF Reported
<1> QED  BY <1>3, <1>5, <1>6, <1>7, <1>8 DEF Pushing

LEMMA PlanCommandsKeeps ==
    ASSUME RemoteInv, PlanCommands, repo' = repo, recorded' = recorded
    PROVE  Pushing'
<1>1. Pushing /\ push # NoPush /\ push.landed = {} /\ push.phase = "discovered"
  BY DEF RemoteInv, PlanCommands, NoPush, Pushing
<1>2. PICK local, specs, seen : /\ local = [r \in Direct(repo.refs) |-> repo.refs[r]]
                                /\ specs = push.request.refs /\ seen = push.seen
  OBVIOUS
<1>3. PICK all : all = [i \in DOMAIN specs |-> FastForwardOnly(StepOf(specs[i], local, seen))]
  OBVIOUS
<1>4. PICK steps : steps = IF push.request.atomic THEN HoldBack(all) ELSE all
  OBVIOUS
<1>5. \/ Failed("storage")
      \/ ~ WellNamed(specs, local) /\ Failed("request")
      \/ /\ WellNamed(specs, local)
         /\ push' = [push EXCEPT !.steps = steps, !.error = "none",
                        !.phase = IF Commands(steps) = {} THEN "answered" ELSE "planned"]
  BY <1>2, <1>3, <1>4 DEF PlanCommands
<1>6. CASE \E error \in {"storage", "request"} : Failed(error)
  <2>1. PICK error \in {"storage", "request"} : Failed(error)
    BY <1>6
  <2> QED  BY <1>1, <2>1, FailedKeeps
<1>7. CASE /\ WellNamed(specs, local)
           /\ push' = [push EXCEPT !.steps = steps, !.error = "none",
                          !.phase = IF Commands(steps) = {} THEN "answered" ELSE "planned"]
  <2>1. DOMAIN all = DOMAIN specs
    BY <1>3
  <2>2. ASSUME NEW i \in DOMAIN all
        PROVE  /\ IsOn(all[i], StepFields) /\ all[i].ref = Destination(specs[i])
               /\ all[i].status \in {"send", "rejected", "up_to_date"}
               /\ all[i].status = "send" => Allowed(all[i])
    <3>1. all[i] = FastForwardOnly(StepOf(specs[i], local, seen))
      BY <1>3
    <3> QED  BY <3>1, FastForwardIsSound
  <2>3. \A i, j \in DOMAIN all : all[i].ref = all[j].ref => i = j
    BY <1>7, <2>1, <2>2 DEF WellNamed
  <2>4. /\ DOMAIN steps = DOMAIN all
        /\ \A i \in DOMAIN all :
             /\ IsOn(steps[i], StepFields) /\ steps[i].ref = all[i].ref
             /\ steps[i].status \in {"send", "rejected", "up_to_date"}
             /\ steps[i].status = "send" => steps[i] = all[i]
        /\ push.request.atomic =>
             \A i, j \in DOMAIN all : steps[i].status = "rejected" => steps[j].status # "send"
    <3>1. CASE push.request.atomic
      <4>1. steps = HoldBack(all)
        BY <1>4, <3>1
      <4> QED  BY <2>2, <4>1, HoldBackIsSound
    <3>2. CASE ~ push.request.atomic
      BY <1>4, <2>2, <3>2
    <3> QED  BY <3>1, <3>2
  <2>5. \A i \in DOMAIN steps :
           /\ IsOn(steps[i], StepFields)
           /\ steps[i].status \in {"send", "rejected", "up_to_date"}
           /\ steps[i].status = "send" => Allowed(steps[i])
    BY <2>2, <2>4
  <2>6. \A i, j \in DOMAIN steps : steps[i].ref = steps[j].ref => i = j
    BY <2>3, <2>4
  <2>7. push' = [push EXCEPT !.steps = steps, !.error = "none",
                     !.phase = IF Commands(steps) = {} THEN "answered" ELSE "planned"]
    BY <1>7
  <2>8. push.request.atomic =>
           \A i, j \in DOMAIN steps : steps[i].status = "rejected" => steps[j].status # "send"
    BY <2>4
  <2> QED  BY <1>1, <2>5, <2>6, <2>7, <2>8, PlannedKeeps
<1> QED  BY <1>5, <1>6, <1>7

LEMMA SendKeeps ==
    ASSUME RemoteInv, Send, repo' = repo, recorded' = recorded
    PROVE  Pushing'
<1>1. Pushing /\ push # NoPush /\ push.landed = {} /\ push.phase = "planned"
  BY DEF RemoteInv, Send, NoPush, Pushing
<1>2. Failed("pack") \/ \E report : push' = [push EXCEPT !.phase = "sent", !.report = report]
  BY DEF Send
<1>3. CASE Failed("pack")
  BY <1>1, <1>3, FailedKeeps
<1>4. CASE \E report : push' = [push EXCEPT !.phase = "sent", !.report = report]
  <2>1. /\ push'.phase = "sent" /\ push'.steps = push.steps /\ push'.landed = push.landed
        /\ push'.request = push.request /\ IsOn(push', PushFields)
    BY <1>1, <1>4 DEF Pushing, IsOn, PushFields
  <2> QED  BY <1>1, <2>1, GoingOnKeeps
<1> QED  BY <1>2, <1>3, <1>4

LEMMA SendFailsKeeps ==
    ASSUME RemoteInv, SendFails, repo' = repo, recorded' = recorded
    PROVE  Pushing'
<1>1. push # NoPush /\ Failed("transport")
  BY DEF SendFails, NoPush
<1> QED  BY <1>1, FailedKeeps DEF Unsure

LEMMA RefusesPackKeeps ==
    ASSUME RemoteInv, RemoteRefusesPack, repo' = repo, recorded' = recorded
    PROVE  Pushing'
<1>1. Pushing /\ push # NoPush /\ push.landed = {} /\ push.phase = "sent"
  BY DEF RemoteInv, RemoteRefusesPack, NoPush, Pushing
<1>2. /\ push'.phase = "refused" /\ push'.steps = push.steps /\ push'.landed = push.landed
      /\ push'.request = push.request /\ IsOn(push', PushFields)
  BY <1>1 DEF RemoteRefusesPack, Pushing, IsOn, PushFields
<1> QED  BY <1>1, <1>2, GoingOnKeeps

LEMMA LandsKeeps ==
    ASSUME RemoteInv, RemoteLands, repo' = repo, recorded' = recorded
    PROVE  Pushing'
<1>1. Pushing /\ push # NoPush /\ push.phase = "sent"
  BY DEF RemoteInv, RemoteLands, NoPush
<1>2. PICK cmds, steps : cmds = Commands(push.steps) /\ steps = push.steps
  OBVIOUS
<1>3. PICK taken \in SUBSET cmds :
         /\ push.request.atomic => taken \in {{}, cmds}
         /\ push' = [push EXCEPT !.phase = "landed", !.landed = {s.ref : s \in taken}]
  BY <1>2 DEF RemoteLands
<1>4. PICK refs : refs = {s.ref : s \in taken}
  BY Zenon
<1>5. /\ push'.phase = "landed" /\ push'.steps = steps /\ push'.landed = refs
      /\ push'.request = push.request /\ IsOn(push', PushFields)
  BY <1>1, <1>2, <1>3, <1>4 DEF Pushing, IsOn, PushFields
<1>6. \A i \in DOMAIN steps : Allowed(steps[i])' <=> Allowed(steps[i])
  BY AllowedStays
<1>7. cmds = {steps[i] : i \in {k \in DOMAIN steps : steps[k].status = "send"}}
  BY <1>2 DEF Commands, Range
<1>8. /\ \A i \in DOMAIN steps : IsOn(steps[i], StepFields)
      /\ \A i, j \in DOMAIN steps : steps[i].ref = steps[j].ref => i = j
      /\ \A i \in DOMAIN steps :
           /\ steps[i].status \in {"send", "rejected", "up_to_date"}
           /\ steps[i].status = "send" => Allowed(steps[i])
      /\ push.request.atomic =>
           \A i, j \in DOMAIN steps : steps[i].status = "rejected" => steps[j].status # "send"
  BY <1>1, <1>2 DEF Pushing, StepsAreSound, Unreported
<1>9. ASSUME NEW i \in DOMAIN steps, steps[i].ref \in refs
      PROVE  steps[i].status = "send" /\ steps[i] \in taken
  <2>1. PICK s \in taken : s.ref = steps[i].ref
    BY <1>4, <1>9
  <2>2. PICK j \in DOMAIN steps : s = steps[j] /\ steps[j].status = "send"
    BY <1>3, <1>7, <2>1
  <2>3. i = j
    BY <1>8, <2>1, <2>2
  <2> QED  BY <2>1, <2>2, <2>3
<1>10. StepsAreSound'
  BY <1>5, <1>6, <1>8, <1>9 DEF StepsAreSound, IsOn
<1>11. ASSUME push.request.atomic, NEW k \in DOMAIN steps, steps[k].ref \in refs,
              NEW i \in DOMAIN steps
       PROVE  steps[i].ref \in refs \/ steps[i].status = "up_to_date"
  <2>1. steps[k].status = "send" /\ taken = cmds
    BY <1>3, <1>9, <1>11
  <2>2. steps[i].status \in {"send", "up_to_date"}
    BY <1>8, <1>11, <2>1
  <2>3. steps[i].status = "send" => steps[i] \in cmds
    BY <1>7
  <2> QED  BY <1>4, <2>1, <2>2, <2>3
<1>12. AtomicMoves'
  BY <1>5, <1>11 DEF AtomicMoves
<1>13. Unreported'
  BY <1>5, <1>6, <1>8, <1>9 DEF Unreported
<1> QED  BY <1>5, <1>10, <1>12, <1>13 DEF Pushing

LEMMA ReportKeeps ==
    ASSUME RemoteInv, Report, repo' = repo, recorded' = recorded
    PROVE  Pushing'
<1>0. push.phase \in {"landed", "refused"}
  BY DEF Report
<1>1. Pushing /\ push # NoPush /\ push.phase \in {"landed", "refused"}
  BY <1>0 DEF RemoteInv, NoPush
<1>2. CASE \E error \in StatusErrors \union {"report_unread"} : Failed(error)
  <2>1. PICK error \in StatusErrors \union {"report_unread"} : Failed(error)
    BY <1>2
  <2>2. error \in Unsure /\ error # "none"
    BY <2>1 DEF Unsure, StatusErrors
  <2> QED  BY <1>1, <2>1, <2>2, FailedKeeps
<1>3. CASE ~ \E error \in StatusErrors \union {"report_unread"} : Failed(error)
  <2>1. PICK said \in SUBSET push.landed :
           push' = [push EXCEPT !.phase = "answered",
                       !.error = IF push.phase = "refused" THEN "pack_refused" ELSE "none",
                       !.steps = [i \in DOMAIN push.steps |->
                                    [push.steps[i] EXCEPT !.status = Status(push.steps[i], said)]]]
    BY <1>3 DEF Report
  <2>2. PICK old, new, error :
           /\ old = push.steps
           /\ new = [i \in DOMAIN old |-> [old[i] EXCEPT !.status = Status(old[i], said)]]
           /\ error = IF push.phase = "refused" THEN "pack_refused" ELSE "none"
    OBVIOUS
  <2>3. push' = [push EXCEPT !.phase = "answered", !.error = error, !.steps = new]
    BY <2>1, <2>2
  <2>4. /\ push'.phase = "answered" /\ push'.steps = new /\ push'.error = error
        /\ push'.landed = push.landed /\ push'.request = push.request /\ IsOn(push', PushFields)
    BY <1>1, <2>3 DEF Pushing, IsOn, PushFields
  <2>5. /\ \A i \in DOMAIN old : IsOn(old[i], StepFields)
        /\ \A i, j \in DOMAIN old : old[i].ref = old[j].ref => i = j
        /\ \A i \in DOMAIN old : old[i].ref \in push.landed => Allowed(old[i])
        /\ \A i \in DOMAIN old : old[i].status \in {"send", "rejected", "up_to_date"}
    BY <1>1, <2>2 DEF Pushing, StepsAreSound, Unreported
  <2>6. DOMAIN new = DOMAIN old
    BY <2>2
  <2>7. ASSUME NEW i \in DOMAIN old
        PROVE  /\ IsOn(new[i], StepFields)
               /\ new[i].ref = old[i].ref /\ new[i].old = old[i].old
               /\ new[i].new = old[i].new /\ new[i].force = old[i].force
               /\ new[i].status = Status(old[i], said)
    <3>1. new[i] = [old[i] EXCEPT !.status = Status(old[i], said)]
      BY <2>2
    <3>2. IsOn(old[i], StepFields)
      BY <2>5
    <3> QED  BY <3>1, <3>2 DEF IsOn, StepFields
  <2>8. \A i \in DOMAIN old :
           /\ Allowed(old[i]) => Allowed(new[i])'
           /\ old[i].status = "up_to_date" => new[i].status = "up_to_date"
           /\ new[i].status \in {"updated", "deleted"} => new[i].ref \in said
    <3> SUFFICES ASSUME NEW i \in DOMAIN old
                 PROVE  /\ Allowed(old[i]) => Allowed(new[i])'
                        /\ old[i].status = "up_to_date" => new[i].status = "up_to_date"
                        /\ new[i].status \in {"updated", "deleted"} => new[i].ref \in said
      OBVIOUS
    <3>1. Allowed(old[i]) => Allowed(new[i])
      BY <2>7 DEF Allowed
    <3>2. Allowed(new[i])' <=> Allowed(new[i])
      BY AllowedStays
    <3>3. old[i].status \in {"send", "rejected", "up_to_date"}
      BY <2>5
    <3> QED  BY <2>7, <3>1, <3>2, <3>3 DEF Status
  <2>9. StepsAreSound'
    BY <2>4, <2>5, <2>6, <2>7, <2>8 DEF StepsAreSound, IsOn
  <2>10. AtomicMoves'
    <3>1. push.request.atomic /\ (\E i \in DOMAIN old : old[i].ref \in push.landed) =>
            \A i \in DOMAIN old : old[i].ref \in push.landed \/ old[i].status = "up_to_date"
      BY <1>1, <2>2 DEF Pushing, AtomicMoves
    <3> QED  BY <3>1, <2>4, <2>6, <2>7, <2>8 DEF AtomicMoves
  <2>11. Reported'
    <3>1. \A i \in DOMAIN new : new[i].status \in {"updated", "deleted"} => new[i].ref \in push.landed
      BY <2>1, <2>6, <2>8
    <3>2. push.phase = "refused" => push.landed = {}
      BY <1>1 DEF Pushing
    <3> QED  BY <1>1, <2>2, <2>4, <3>1, <3>2 DEF Reported
  <2> QED  BY <2>4, <2>9, <2>10, <2>11 DEF Pushing
<1> QED  BY <1>2, <1>3

LEMMA RemoteStepKeeps ==
    ASSUME RemoteInv, RemoteNext, UNCHANGED vars
    PROVE  RemoteInv'
<1> USE DEF RemoteInv
<1>1. repo' = repo /\ recorded' = recorded
  BY DEF vars
<1>2. CASE Begin
  BY <1>2, BeginKeeps
<1>3. CASE Discover
  BY <1>1, <1>3, DiscoverKeeps
<1>4. CASE PlanCommands
  BY <1>1, <1>4, PlanCommandsKeeps
<1>5. CASE Send
  BY <1>1, <1>5, SendKeeps
<1>6. CASE SendFails
  BY <1>1, <1>6, SendFailsKeeps
<1>7. CASE OtherPush
  BY <1>1, <1>7, RemoteStays DEF OtherPush
<1>8. CASE RemoteLands
  BY <1>1, <1>8, LandsKeeps
<1>9. CASE RemoteRefusesPack
  BY <1>1, <1>9, RefusesPackKeeps
<1>10. CASE Report
  BY <1>1, <1>10, ReportKeeps
<1>11. CASE AnswerLost
  <2>1. push # NoPush /\ Failed("transport")
    BY <1>11 DEF AnswerLost, NoPush
  <2> QED  BY <1>1, <2>1, FailedKeeps DEF Unsure
<1> QED
  BY <1>2, <1>3, <1>4, <1>5, <1>6, <1>7, <1>8, <1>9, <1>10, <1>11 DEF RemoteNext

\* What the invariant says of a push that is over.
LEMMA RemoteInvIsEnough ==
    ASSUME RemoteInv
    PROVE  OutcomesAreTrue
<1> SUFFICES ASSUME push.phase \in {"landed", "answered"} PROVE OutcomesAreTrue
  BY DEF OutcomesAreTrue
<1>1. Pushing
  BY DEF RemoteInv, NoPush
<1>2. PICK steps : steps = Range(push.steps)
  OBVIOUS
<1>3. \A s \in steps : \E i \in DOMAIN push.steps : s = push.steps[i]
  BY <1>2 DEF Range
<1>4. \A i \in DOMAIN push.steps : push.steps[i] \in steps
  BY <1>2 DEF Range
<1>5. PICK moved : moved = {s \in steps : s.ref \in push.landed}
  OBVIOUS
<1>6. push.phase = "answered" /\ push.error = "none" =>
         \A s \in steps : s.status \in {"updated", "deleted"} => s \in moved
  BY <1>1, <1>3, <1>5 DEF Pushing, Reported
<1>7. push.request.atomic /\ moved # {} =>
         \A s \in steps : s \in moved \/ s.status = "up_to_date"
  BY <1>1, <1>3, <1>5 DEF Pushing, AtomicMoves
<1>8. \A s \in moved : Allowed(s)
  BY <1>1, <1>3, <1>5 DEF Pushing, StepsAreSound
<1>9. push.phase = "answered" /\ push.error # "none" /\ moved # {} =>
         PushFailed(push.error) \notin {"invalid_argument", "aborted", "internal"}
  BY <1>1, <1>5 DEF Pushing, Reported, PushFailed, Unsure, StatusErrors
<1> QED  BY <1>2, <1>5, <1>6, <1>7, <1>8, <1>9 DEF OutcomesAreTrue, Allowed

\* What Client::push answers is what happened, whatever the remote holds and
\* does and whoever else pushes to it: a ref reported as moved was moved, an
\* atomic push moved all or nothing, no commit of the remote's is dropped
\* without force, and a call that fails as invalid_argument, aborted or
\* internal moved nothing.
THEOREM RemoteOutcomesAreTrue == RemoteSpec => []OutcomesAreTrue
<1>1. RemoteInit => RemoteInv
  BY DEF RemoteInit, RemoteInv
<1>2. RemoteInv /\ [RemoteNext /\ UNCHANGED vars]_<<vars, remoteVars>> => RemoteInv'
  <2>1. CASE UNCHANGED <<vars, remoteVars>>
    BY <2>1, RemoteStays DEF vars, remoteVars
  <2> QED  BY <2>1, RemoteStepKeeps
<1>3. RemoteInv => OutcomesAreTrue
  BY RemoteInvIsEnough
<1> QED  BY <1>1, <1>2, <1>3, PTL DEF RemoteSpec

-----------------------------------------------------------------------------
(* The order of keys                                                       *)

\* a comes before b because of place n: they agree before it, and there a is
\* smaller or at its end.
LessAt(a, b, n) ==
    /\ n \in 1 .. Len(b) /\ n - 1 <= Len(a)
    /\ \A m \in 1 .. (n - 1) : a[m] = b[m]
    /\ n = Len(a) + 1 \/ (n <= Len(a) /\ a[n] < b[n])

LEMMA LessMeans ==
    ASSUME NEW a \in Seq(Nat), NEW b \in Seq(Nat)
    PROVE  Less(a, b) <=> \E n \in Nat : LessAt(a, b, n)
<1>1. Len(a) \in Nat /\ Len(b) \in Nat /\ DOMAIN a = 1 .. Len(a) /\ DOMAIN b = 1 .. Len(b)
  OBVIOUS
<1>2. ASSUME Less(a, b) PROVE \E n \in Nat : LessAt(a, b, n)
  <2>1. CASE \E n \in DOMAIN a \cap DOMAIN b : a[n] < b[n] /\ \A m \in 1 .. (n - 1) : a[m] = b[m]
    <3>1. PICK n \in DOMAIN a \cap DOMAIN b : a[n] < b[n] /\ \A m \in 1 .. (n - 1) : a[m] = b[m]
      BY <2>1
    <3>2. n \in Nat /\ n \in 1 .. Len(b) /\ n - 1 <= Len(a) /\ n <= Len(a)
      BY <1>1, <3>1
    <3> QED  BY <3>1, <3>2 DEF LessAt
  <2>2. CASE Len(a) < Len(b) /\ \A m \in DOMAIN a : a[m] = b[m]
    <3>1. PICK n : n = Len(a) + 1
      OBVIOUS
    <3>2. n \in Nat /\ n \in 1 .. Len(b) /\ n - 1 = Len(a) /\ n - 1 <= Len(a)
      BY <1>1, <2>2, <3>1
    <3>3. \A m \in 1 .. (n - 1) : a[m] = b[m]
      BY <1>1, <2>2, <3>2
    <3> QED  BY <3>1, <3>2, <3>3, Zenon DEF LessAt
  <2> QED  BY <1>2, <2>1, <2>2 DEF Less
<1>3. ASSUME NEW n \in Nat, LessAt(a, b, n) PROVE Less(a, b)
  <2>1. CASE n = Len(a) + 1
    <3>1. Len(a) < Len(b)
      BY <1>1, <1>3, <2>1 DEF LessAt
    <3>2. \A m \in DOMAIN a : a[m] = b[m]
      BY <1>1, <1>3, <2>1 DEF LessAt
    <3> QED  BY <3>1, <3>2 DEF Less
  <2>2. CASE n <= Len(a) /\ a[n] < b[n]
    <3>1. n \in DOMAIN a \cap DOMAIN b /\ \A m \in 1 .. (n - 1) : a[m] = b[m]
      BY <1>1, <1>3, <2>2 DEF LessAt
    <3> QED  BY <2>2, <3>1 DEF Less
  <2> QED  BY <1>3, <2>1, <2>2 DEF LessAt
<1> QED  BY <1>2, <1>3

LEMMA LessIsStrict ==
    ASSUME NEW a \in Seq(Nat)
    PROVE  ~ Less(a, a)
<1> SUFFICES ASSUME NEW n \in Nat, LessAt(a, a, n) PROVE FALSE
  BY LessMeans
<1>1. Len(a) \in Nat /\ \A k \in 1 .. Len(a) : a[k] \in Nat
  OBVIOUS
<1> QED  BY <1>1 DEF LessAt

LEMMA LessIsTransitive ==
    ASSUME NEW a \in Seq(Nat), NEW b \in Seq(Nat), NEW c \in Seq(Nat), Less(a, b), Less(b, c)
    PROVE  Less(a, c)
<1>1. PICK n \in Nat : LessAt(a, b, n)
  BY LessMeans
<1>2. PICK k \in Nat : LessAt(b, c, k)
  BY LessMeans
<1>3. /\ Len(a) \in Nat /\ Len(b) \in Nat /\ Len(c) \in Nat
      /\ \A i \in 1 .. Len(a) : a[i] \in Nat
      /\ \A i \in 1 .. Len(b) : b[i] \in Nat
      /\ \A i \in 1 .. Len(c) : c[i] \in Nat
  OBVIOUS
<1>4. /\ n \in 1 .. Len(b) /\ n - 1 <= Len(a)
      /\ \A m \in 1 .. (n - 1) : a[m] = b[m]
      /\ n = Len(a) + 1 \/ (n <= Len(a) /\ a[n] < b[n])
  BY <1>1 DEF LessAt
<1>5. /\ k \in 1 .. Len(c) /\ k - 1 <= Len(b)
      /\ \A m \in 1 .. (k - 1) : b[m] = c[m]
      /\ k = Len(b) + 1 \/ (k <= Len(b) /\ b[k] < c[k])
  BY <1>2 DEF LessAt
<1> DEFINE la == Len(a)  lb == Len(b)  lc == Len(c)
<1>9. /\ la \in Nat /\ lb \in Nat /\ lc \in Nat
      /\ n \in 1 .. lb /\ n - 1 <= la /\ k \in 1 .. lc /\ k - 1 <= lb
      /\ n = la + 1 \/ n <= la
      /\ k = lb + 1 \/ k <= lb
  BY <1>3, <1>4, <1>5
<1>10. /\ n < k => /\ n \in 1 .. lc /\ n \in 1 .. (k - 1)
                   /\ \A m \in 1 .. (n - 1) : m \in 1 .. (k - 1)
       /\ k < n => /\ k <= la /\ k \in 1 .. (n - 1)
                   /\ \A m \in 1 .. (k - 1) : m \in 1 .. (n - 1)
  <2> HIDE DEF la, lb, lc
  <2> QED  BY <1>9
<1>6. CASE n < k
  <2>1. n \in 1 .. Len(c) /\ n \in 1 .. (k - 1) /\ \A m \in 1 .. (n - 1) : m \in 1 .. (k - 1)
    BY <1>6, <1>10, Zenon
  <2>2. c[n] = b[n] /\ \A m \in 1 .. (n - 1) : a[m] = c[m]
    BY <1>4, <1>5, <2>1
  <2>3. LessAt(a, c, n)
    BY <1>4, <2>1, <2>2 DEF LessAt
  <2> QED  BY <2>3, LessMeans
<1>7. CASE n = k
  <2>1. b[n] < c[n] /\ n \in 1 .. Len(c)
    BY <1>3, <1>4, <1>5, <1>7
  <2>2. \A m \in 1 .. (n - 1) : a[m] = c[m]
    BY <1>4, <1>5, <1>7
  <2>3. n <= Len(a) /\ a[n] < b[n] => a[n] < c[n]
    <3>1. CASE n <= Len(a) /\ a[n] < b[n]
      <4>1. n \in 1 .. Len(a) /\ n \in 1 .. Len(b)
        BY <1>3, <1>4, <3>1
      <4>2. a[n] \in Nat /\ b[n] \in Nat /\ c[n] \in Nat
        BY <1>3, <2>1, <4>1, Zenon
      <4> QED  BY <2>1, <3>1, <4>2
    <3> QED  BY <3>1
  <2>4. LessAt(a, c, n)
    BY <1>4, <2>1, <2>2, <2>3, Zenon DEF LessAt
  <2> QED  BY <2>4, LessMeans
<1>8. CASE k < n
  <2>1. k \in 1 .. Len(c) /\ k <= Len(a) /\ k \in 1 .. (n - 1) /\ \A m \in 1 .. (k - 1) : m \in 1 .. (n - 1)
    BY <1>5, <1>8, <1>10, Zenon
  <2>0. k <= Len(b) /\ b[k] < c[k]
    <3>1. k # lb + 1
      <4> HIDE DEF la, lb, lc
      <4> QED  BY <1>8, <1>9
    <3> QED  BY <1>5, <3>1, Zenon
  <2>2. b[k] < c[k] /\ a[k] = b[k] /\ \A m \in 1 .. (k - 1) : a[m] = c[m]
    BY <1>4, <1>5, <2>0, <2>1, Zenon
  <2>3. k - 1 <= Len(a)
    BY <1>3, <2>1
  <2>4. LessAt(a, c, k)
    BY <2>1, <2>2, <2>3 DEF LessAt
  <2> QED  BY <2>4, LessMeans
<1> QED  BY <1>6, <1>7, <1>8

LEMMA LessIsTotal ==
    ASSUME NEW a \in Seq(Nat), NEW b \in Seq(Nat), a # b
    PROVE  Less(a, b) \/ Less(b, a)
<1>1. /\ Len(a) \in Nat /\ Len(b) \in Nat
      /\ \A i \in 1 .. Len(a) : a[i] \in Nat
      /\ \A i \in 1 .. Len(b) : b[i] \in Nat
  OBVIOUS
<1> DEFINE T == {n \in Nat : n >= 1 /\ (n > Len(a) \/ n > Len(b) \/ a[n] # b[n])}
<1>2. Len(a) + 1 \in T /\ T \in SUBSET Nat
  BY <1>1
<1>3. PICK n \in T : \A m \in T : n <= m
  <2> HIDE DEF T
  <2> QED  BY <1>2, NatMin
<1>4. n \in Nat /\ n >= 1 /\ (n > Len(a) \/ n > Len(b) \/ a[n] # b[n])
  OBVIOUS
<1>5. ASSUME NEW m \in 1 .. (n - 1) PROVE m <= Len(a) /\ m <= Len(b) /\ a[m] = b[m]
  BY <1>1, <1>3, <1>4
<1>6. n - 1 <= Len(a) /\ n - 1 <= Len(b)
  <2>1. CASE n = 1
    BY <1>1, <2>1
  <2>2. CASE n > 1
    BY <1>1, <1>4, <1>5, <2>2
  <2> QED  BY <1>4, <2>1, <2>2
<1>7. CASE n <= Len(a) /\ n <= Len(b)
  <2>1. a[n] < b[n] \/ b[n] < a[n]
    BY <1>1, <1>4, <1>7
  <2>2. n \in 1 .. Len(a) /\ n \in 1 .. Len(b)
    BY <1>1, <1>4, <1>7
  <2>3. LessAt(a, b, n) \/ LessAt(b, a, n)
    BY <1>5, <1>6, <1>7, <2>1, <2>2 DEF LessAt
  <2> QED  BY <1>4, <2>3, LessMeans
<1>8. CASE n > Len(a) /\ n <= Len(b)
  <2>1. n = Len(a) + 1 /\ n \in 1 .. Len(b)
    BY <1>1, <1>4, <1>6, <1>8
  <2>2. LessAt(a, b, n)
    BY <1>5, <1>6, <2>1, Zenon DEF LessAt
  <2> QED  BY <1>4, <2>2, LessMeans
<1>9. CASE n > Len(b) /\ n <= Len(a)
  <2>1. n = Len(b) + 1 /\ n \in 1 .. Len(a)
    BY <1>1, <1>4, <1>6, <1>9
  <2>2. LessAt(b, a, n)
    BY <1>5, <1>6, <2>1, Zenon DEF LessAt
  <2> QED  BY <1>4, <2>2, LessMeans
<1>10. CASE n > Len(a) /\ n > Len(b)
  <2>1. Len(a) = n - 1 /\ Len(b) = n - 1
    BY <1>1, <1>4, <1>6, <1>10
  <2>2. a = b
    BY <1>5, <2>1
  <2> QED  BY <2>2
<1> QED  BY <1>1, <1>4, <1>7, <1>8, <1>9, <1>10

\* A key inside the two bounds of a prefix has it, and the other way round.
LEMMA PrefixMeans ==
    ASSUME NEW p \in Seq(Nat), NEW k \in Seq(Nat)
    PROVE  IsPrefix(p, k) <=> Len(p) <= Len(k) /\ \A m \in 1 .. Len(p) : p[m] = k[m]
<1>1. Len(p) \in Nat /\ Len(k) \in Nat
  OBVIOUS
<1>2. SubSeq(p, 1, Len(p)) = p
  OBVIOUS
<1>3. ASSUME Len(p) <= Len(k)
      PROVE  SubSeq(p, 1, Len(p)) = SubSeq(k, 1, Len(p)) <=> \A m \in 1 .. Len(p) : p[m] = k[m]
  <2>1. PICK t : t = SubSeq(k, 1, Len(p))
    OBVIOUS
  <2>2. t \in Seq(Nat) /\ Len(t) = Len(p) /\ \A m \in 1 .. Len(p) : t[m] = k[m]
    BY <1>1, <1>3, <2>1
  <2>3. ASSUME \A m \in 1 .. Len(p) : p[m] = t[m] PROVE p = t
    <3>1. p = [m \in 1 .. Len(p) |-> p[m]]
      OBVIOUS
    <3>2. t = [m \in 1 .. Len(p) |-> t[m]]
      BY <2>2
    <3> QED  BY <2>3, <3>1, <3>2
  <2> QED  BY <1>2, <2>1, <2>2, <2>3
<1> QED  BY <1>3 DEF IsPrefix

LEMMA BytesInside ==
    ASSUME NEW p \in Seq(Nat), NEW k \in Seq(Nat)
    PROVE  ~ Less(k, p) /\ (p # <<>> => Less(k, UpperBound(p))) <=> IsPrefix(p, k)
<1>1. /\ Len(p) \in Nat /\ Len(k) \in Nat
      /\ \A m \in 1 .. Len(p) : p[m] \in Nat
      /\ \A m \in 1 .. Len(k) : k[m] \in Nat
  OBVIOUS
<1>2. CASE p = <<>>
  <2>1. Len(p) = 0
    BY <1>2
  <2>2. ~ Less(k, p)
    <3>1. \A n \in Nat : ~ LessAt(k, p, n)
      BY <2>1 DEF LessAt
    <3> QED  BY <3>1, LessMeans
  <2>3. IsPrefix(p, k)
    <3>1. Len(p) <= Len(k) /\ 1 .. Len(p) = {}
      BY <1>1, <2>1
    <3> QED  BY <3>1, PrefixMeans
  <2> QED  BY <1>2, <2>2, <2>3
<1>3. CASE p # <<>>
  <2>1. PICK q, n : q = UpperBound(p) /\ n = Len(p)
    OBVIOUS
  <2>2. n \in Nat /\ n >= 1
    BY <1>1, <1>3, <2>1
  <2>3. /\ q \in Seq(Nat) /\ Len(q) = n /\ q[n] = p[n] + 1
        /\ \A m \in 1 .. (n - 1) : q[m] = p[m]
    <3>1. q = [p EXCEPT ![n] = p[n] + 1]
      BY <2>1 DEF UpperBound
    <3>2. n \in 1 .. Len(p) /\ p[n] + 1 \in Nat
      BY <1>1, <2>1, <2>2
    <3>3. q \in Seq(Nat) /\ Len(q) = Len(p)
      BY <3>1, <3>2
    <3>4. q[n] = p[n] + 1 /\ \A m \in 1 .. (n - 1) : q[m] = p[m]
      BY <3>1, <3>2, <2>1, <2>2
    <3> QED  BY <2>1, <3>3, <3>4
  <2>5. IsPrefix(p, k) <=> n <= Len(k) /\ \A m \in 1 .. n : p[m] = k[m]
    BY <2>1, PrefixMeans
  <2>6. ASSUME n <= Len(k), \A m \in 1 .. n : p[m] = k[m]
        PROVE  ~ Less(k, p) /\ Less(k, q)
    <3>1. ASSUME NEW j \in Nat, LessAt(k, p, j) PROVE FALSE
      <4>1. j \in 1 .. n /\ (j = Len(k) + 1 \/ (j <= Len(k) /\ k[j] < p[j]))
        BY <2>1, <3>1 DEF LessAt
      <4>2. k[j] = p[j] /\ j <= Len(k) /\ p[j] \in Nat
        BY <1>1, <2>1, <2>2, <2>6, <4>1
      <4> QED  BY <1>1, <4>1, <4>2
    <3>2. LessAt(k, q, n)
      <4>1. n \in 1 .. Len(q) /\ n - 1 <= Len(k) /\ n \in 1 .. n
        BY <1>1, <2>2, <2>3, <2>6
      <4>2. k[n] < q[n]
        BY <1>1, <2>1, <2>3, <2>6, <4>1
      <4>3. \A m \in 1 .. (n - 1) : k[m] = q[m]
        BY <2>2, <2>3, <2>6
      <4> QED  BY <2>6, <4>1, <4>2, <4>3, Zenon DEF LessAt
    <3> QED  BY <2>2, <2>3, <3>1, <3>2, LessMeans
  <2>7. ASSUME ~ Less(k, p), Less(k, q)
        PROVE  n <= Len(k) /\ \A m \in 1 .. n : p[m] = k[m]
    <3>1. PICK j \in Nat : LessAt(k, q, j)
      BY <2>3, <2>7, LessMeans
    <3>2. /\ j \in 1 .. n /\ j - 1 <= Len(k)
          /\ \A m \in 1 .. (j - 1) : k[m] = q[m]
          /\ j = Len(k) + 1 \/ (j <= Len(k) /\ k[j] < q[j])
      BY <2>3, <3>1 DEF LessAt
    <3>3. ~ LessAt(k, p, j)
      BY <2>7, LessMeans
    <3>4. \A m \in 1 .. (j - 1) : m \in 1 .. (n - 1)
      BY <2>2, <3>2
    <3>5. \A m \in 1 .. (j - 1) : k[m] = p[m]
      BY <2>3, <3>2, <3>4
    <3>6. j \in 1 .. Len(p) /\ ~ (j = Len(k) + 1) /\ j <= Len(k) /\ ~ (k[j] < p[j]) /\ k[j] < q[j]
      BY <2>1, <3>2, <3>3, <3>5, Zenon DEF LessAt
    <3>7. k[j] \in Nat /\ p[j] \in Nat
      BY <1>1, <3>2, <3>6
    <3>8. j = n
      <4>1. j \in 1 .. (n - 1) => q[j] = p[j]
        BY <2>3
      <4> QED  BY <2>2, <3>2, <3>6, <4>1
    <3>9. k[n] = p[n]
      <4>1. k[n] \in Nat /\ p[n] \in Nat /\ ~ (k[n] < p[n]) /\ k[n] < p[n] + 1
        BY <2>3, <3>6, <3>7, <3>8, Zenon
      <4> QED  BY <4>1
    <3> QED  BY <2>2, <3>5, <3>6, <3>8, <3>9
  <2> QED  BY <1>3, <2>1, <2>5, <2>6, <2>7
<1> QED  BY <1>2, <1>3

\* The strings in byte order, which a database created for it collates in.
ByteOrder == {x \in Strings \X Strings : Less(x[1], x[2])}

\* Byte order is one of the orders the assumption allows.
LEMMA ByteOrderIsCollation == IsCollation(ByteOrder)
<1>1. ASSUME NEW p \in AskedPrefixes \ {<<>>} PROVE UpperBound(p) \in Seq(Nat)
  <2>1. p \in Seq(Nat) /\ Len(p) \in 1 .. Len(p) /\ p[Len(p)] + 1 \in Nat
    BY ListingAssumption
  <2> QED  BY <2>1 DEF UpperBound
<1>2. Strings \in SUBSET Seq(Nat) /\ <<>> \in Strings
  <2>1. \A q \in {UpperBound(p) : p \in AskedPrefixes \ {<<>>}} : q \in Seq(Nat)
    BY <1>1
  <2>2. AllKeys \in SUBSET Seq(Nat) /\ AskedPrefixes \in SUBSET Seq(Nat) /\ <<>> \in Seq(Nat)
    BY ListingAssumption
  <2> QED  BY <2>1, <2>2, Zenon DEF Strings
<1>3. \A a, b \in Strings : <<a, b>> \in ByteOrder <=> Less(a, b)
  BY DEF ByteOrder
<1>4. ASSUME NEW a \in Strings PROVE ~ Less(a, <<>>)
  <2>1. a \in Seq(Nat) /\ <<>> \in Seq(Nat) /\ Len(<<>>) = 0
    BY <1>2
  <2>2. \A n \in Nat : ~ LessAt(a, <<>>, n)
    BY <2>1 DEF LessAt
  <2> QED  BY <2>1, <2>2, LessMeans
<1>5. \A a \in Strings : ~ Less(a, a)
  BY <1>2, LessIsStrict
<1>6. \A a, b, c \in Strings : Less(a, b) /\ Less(b, c) => Less(a, c)
  BY <1>2, LessIsTransitive
<1>7. \A a, b \in Strings : a = b \/ Less(a, b) \/ Less(b, a)
  BY <1>2, LessIsTotal
<1> HIDE DEF ByteOrder
<1> QED  BY <1>2, <1>3, <1>4, <1>5, <1>6, <1>7, Zenon DEF IsCollation

\* What ListingsAreComplete says of a prefix that is a range, it says of every
\* prefix when the database collates in byte order: the bounds that
\* prefix_upper_bound makes then hold the keys with the prefix and no other.
THEOREM ByteOrderMakesRanges ==
    ASSUME Collation = ByteOrder, NEW p \in AskedPrefixes
    PROVE  IsRange(p)
<1> SUFFICES ASSUME NEW k \in AllKeys PROVE Inside(p, k) <=> IsPrefix(p, k)
  BY DEF IsRange
<1>1. p \in Seq(Nat) /\ k \in Seq(Nat) /\ p \in Strings /\ k \in Strings
      /\ (p # <<>> => UpperBound(p) \in Strings)
  BY ListingAssumption DEF Strings
<1>2. \A a, b \in Strings : SortsBefore(a, b) <=> Less(a, b)
  BY DEF SortsBefore, ByteOrder
<1>3. Inside(p, k) <=> ~ Less(k, p) /\ (p # <<>> => Less(k, UpperBound(p)))
  BY <1>1, <1>2 DEF Inside
<1> QED  BY <1>1, <1>3, BytesInside

-----------------------------------------------------------------------------
(* A set in its order                                                      *)

\* The order of the database, whichever it is.
LEMMA OrderIsStrict ==
    ASSUME NEW a \in Strings
    PROVE  ~ SortsBefore(a, a)
  BY CollationAssumption DEF SortsBefore, IsCollation

LEMMA OrderIsTransitive ==
    ASSUME NEW a \in Strings, NEW b \in Strings, NEW c \in Strings, SortsBefore(a, b), SortsBefore(b, c)
    PROVE  SortsBefore(a, c)
  BY CollationAssumption DEF SortsBefore, IsCollation

LEMMA OrderIsTotal ==
    ASSUME NEW a \in Strings, NEW b \in Strings
    PROVE  a = b \/ SortsBefore(a, b) \/ SortsBefore(b, a)
  BY CollationAssumption DEF SortsBefore, IsCollation

\* Nothing comes before the empty string, and so any other comes after it.
LEMMA EmptyIsFirst ==
    ASSUME NEW a \in Strings, a # <<>>
    PROVE  SortsBefore(<<>>, a)
<1>1. <<>> \in Strings /\ ~ SortsBefore(a, <<>>)
  BY CollationAssumption DEF Strings, SortsBefore, IsCollation
<1> QED  BY <1>1, OrderIsTotal

Enumerates(s, S) ==
    /\ s \in Seq(S) /\ Len(s) = Cardinality(S)
    /\ \A x \in S : \E i \in 1 .. Len(s) : s[i] = x
    /\ \A i, j \in 1 .. Len(s) : i < j => SortsBefore(s[i], s[j])

LEMMA InOrderEnumerates ==
    ASSUME NEW S \in SUBSET Strings, IsFiniteSet(S)
    PROVE  Enumerates(InOrder(S), S)
<1> DEFINE Before(x) == {y \in S : SortsBefore(y, x)}
           n == Cardinality(S)
           rank == [x \in S |-> Cardinality(Before(x))]
<1>1. n \in Nat
  BY FS_CardinalityType
<1>2. ASSUME NEW x \in S
      PROVE  /\ IsFiniteSet(Before(x)) /\ Cardinality(Before(x)) \in 0 .. (n - 1)
             /\ Cardinality(Before(x)) \in Nat
             /\ x \notin Before(x) /\ Before(x) \in SUBSET S
  <2>1. x \notin Before(x) /\ Before(x) \in SUBSET S
    BY OrderIsStrict
  <2> HIDE DEF Before
  <2>2. IsFiniteSet(Before(x)) /\ Cardinality(Before(x)) <= n /\ (n = Cardinality(Before(x)) => S = Before(x))
    BY <2>1, FS_Subset
  <2>3. Cardinality(Before(x)) \in Nat
    BY <2>2, FS_CardinalityType
  <2>4. Cardinality(Before(x)) # n
    BY <2>1, <2>2
  <2> QED  BY <1>1, <2>1, <2>2, <2>3, <2>4
<1>3. ASSUME NEW x \in S, NEW y \in S, SortsBefore(x, y)
      PROVE  Cardinality(Before(x)) < Cardinality(Before(y))
  <2>1. Before(x) \in SUBSET Before(y) /\ x \in Before(y)
    BY <1>3, OrderIsTransitive
  <2> HIDE DEF Before
  <2>2. IsFiniteSet(Before(y)) /\ x \notin Before(x) /\ Cardinality(Before(x)) \in Nat /\ Cardinality(Before(y)) \in Nat
    BY <1>2
  <2>3. Cardinality(Before(x)) <= Cardinality(Before(y))
        /\ (Cardinality(Before(y)) = Cardinality(Before(x)) => Before(y) = Before(x))
    BY <2>1, <2>2, FS_Subset
  <2> QED  BY <2>1, <2>2, <2>3
<1>4. ASSUME NEW x \in S, NEW y \in S, Cardinality(Before(x)) = Cardinality(Before(y)) PROVE x = y
  <2>1. x \in Strings /\ y \in Strings
    OBVIOUS
  <2>2. ~ SortsBefore(x, y) /\ ~ SortsBefore(y, x)
    <3> HIDE DEF Before
    <3>1. Cardinality(Before(x)) \in Nat /\ Cardinality(Before(y)) \in Nat
      BY <1>2
    <3> QED  BY <1>3, <1>4, <3>1
  <2> QED  BY <2>1, <2>2, OrderIsTotal
<1>5. rank \in Injection(S, 0 .. (n - 1))
  <2>1. rank \in [S -> 0 .. (n - 1)]
    BY <1>2
  <2>2. \A x, y \in S : rank[x] = rank[y] => x = y
    <3> HIDE DEF Before
    <3> QED  BY <1>4
  <2> HIDE DEF rank
  <2> QED  BY <2>1, <2>2 DEF Injection, IsInjective
<1>6. IsFiniteSet(0 .. (n - 1)) /\ Cardinality(0 .. (n - 1)) = n
  <2>1. 0 \in Int /\ n - 1 \in Int
    BY <1>1
  <2> HIDE DEF n
  <2>2. IsFiniteSet(0 .. (n - 1)) /\ Cardinality(0 .. (n - 1)) = IF 0 > n - 1 THEN 0 ELSE (n - 1) - 0 + 1
    BY <2>1, FS_Interval
  <2> QED  BY <1>1, <2>2
<1>7. \A i \in 0 .. (n - 1) : \E x \in S : rank[x] = i
  <2>1. rank \in Surjection(S, 0 .. (n - 1))
    <3> HIDE DEF rank
    <3> QED  BY <1>5, <1>6, FS_Injection
  <2> HIDE DEF rank
  <2> QED  BY <2>1 DEF Surjection
<1> DEFINE s == InOrder(S)
<1>8. s = [i \in 1 .. n |-> CHOOSE x \in S : Cardinality(Before(x)) = i - 1]
  BY DEF InOrder, Sorted
<1>9. ASSUME NEW i \in 1 .. n
      PROVE  s[i] \in S /\ Cardinality(Before(s[i])) = i - 1
  <2>1. s[i] = CHOOSE x \in S : Cardinality(Before(x)) = i - 1
    BY <1>8
  <2>2. i - 1 \in 0 .. (n - 1)
    BY <1>1
  <2>3. \E x \in S : Cardinality(Before(x)) = i - 1
    BY <1>7, <2>2
  <2> HIDE DEF s, Before
  <2> QED  BY <2>1, <2>3
<1>10. DOMAIN s = 1 .. n
  BY <1>8
<1> HIDE DEF s, Before
<1>11. s \in Seq(S) /\ Len(s) = n
  <2>1. s = [i \in 1 .. n |-> s[i]]
    BY <1>8 DEF s
  <2> HIDE DEF n
  <2>2. s \in [1 .. n -> S]
    BY <1>9, <2>1
  <2> QED  BY <1>1, <2>2
<1>12. ASSUME NEW x \in S PROVE \E i \in 1 .. n : s[i] = x
  <2>1. PICK c : c = Cardinality(Before(x))
    OBVIOUS
  <2>2. c \in 0 .. (n - 1)
    BY <1>2, <2>1
  <2>3. c + 1 \in 1 .. n /\ (c + 1) - 1 = c
    BY <1>1, <2>2
  <2>4. s[c + 1] = x
    BY <1>4, <1>9, <2>1, <2>3
  <2> QED  BY <2>3, <2>4
<1>13. ASSUME NEW i \in 1 .. n, NEW j \in 1 .. n, i < j PROVE SortsBefore(s[i], s[j])
  <2>1. s[i] \in S /\ s[j] \in S /\ Cardinality(Before(s[i])) = i - 1 /\ Cardinality(Before(s[j])) = j - 1
    BY <1>9
  <2>2. s[i] # s[j]
    BY <1>1, <1>13, <2>1
  <2>3. ~ SortsBefore(s[j], s[i])
    BY <1>1, <1>3, <1>13, <2>1
  <2> QED  BY <2>1, <2>2, <2>3, OrderIsTotal
<1> QED  BY <1>11, <1>12, <1>13 DEF Enumerates, s

IsBeginning(t, s, n, X) ==
    /\ t \in Seq(X) /\ Len(t) \in Nat /\ Len(s) \in Nat
    /\ Len(t) = IF n < Len(s) THEN n ELSE Len(s)
    /\ \A i \in 1 .. Len(t) : t[i] = s[i]

LEMMA TakeIsBeginning ==
    ASSUME NEW X, NEW s \in Seq(X), NEW n \in Nat
    PROVE  IsBeginning(Take(s, n), s, n, X)
<1> USE DEF IsBeginning
<1>0. PICK t : t = Take(s, n)
  OBVIOUS
<1>1. CASE n < Len(s)
  <2>1. t = SubSeq(s, 1, n)
    BY <1>0, <1>1 DEF Take
  <2>2. 1 \in 1 .. Len(s) + 1 /\ n \in 0 .. Len(s)
    BY <1>1
  <2>3. t \in Seq(X) /\ Len(t) = n
    BY <1>1, <2>1, <2>2
  <2>4. \A i \in 1 .. n : t[i] = s[i]
    BY <1>1, <2>1, <2>2
  <2> QED  BY <1>0, <1>1, <2>3, <2>4
<1>2. CASE ~ (n < Len(s))
  BY <1>0, <1>2 DEF Take
<1> QED  BY <1>1, <1>2

\* A page is a beginning of the order, and the token divides it from the rest.
PageOf(page, held, limit, S) ==
    /\ page \in Seq(S)
    /\ \A i, j \in 1 .. Len(page) : i < j => SortsBefore(page[i], page[j])
    /\ Len(held) > limit =>
         /\ held[limit] \in S
         /\ \A i \in 1 .. Len(page) : ~ SortsBefore(held[limit], page[i])
         /\ \A x \in S : SortsBefore(held[limit], x) \/ \E i \in 1 .. Len(page) : page[i] = x
    /\ ~ (Len(held) > limit) => \A x \in S : \E i \in 1 .. Len(page) : page[i] = x

LEMMA PageDivides ==
    ASSUME NEW S \in SUBSET Strings, IsFiniteSet(S), NEW limit \in Nat \ {0},
           NEW held, held = Take(InOrder(S), limit + 1), NEW page, page = Take(held, limit)
    PROVE  PageOf(page, held, limit, S)
<1>1. PICK s : s = InOrder(S)
  OBVIOUS
<1>2. /\ s \in Seq(S) /\ Len(s) \in Nat /\ \A i \in 1 .. Len(s) : s[i] \in S
      /\ \A x \in S : \E i \in 1 .. Len(s) : s[i] = x
      /\ \A i, j \in 1 .. Len(s) : i < j => SortsBefore(s[i], s[j])
  <2>1. Enumerates(s, S)
    BY <1>1, InOrderEnumerates
  <2>2. s \in Seq(S)
    BY <2>1, Zenon DEF Enumerates
  <2>3. Len(s) \in Nat /\ \A i \in 1 .. Len(s) : s[i] \in S
    BY <2>2
  <2> QED  BY <2>1, <2>2, <2>3, Zenon DEF Enumerates
<1>3. /\ held \in Seq(S) /\ Len(held) \in Nat /\ \A i \in 1 .. Len(held) : held[i] = s[i]
      /\ Len(held) = IF limit + 1 < Len(s) THEN limit + 1 ELSE Len(s)
  <2>1. PICK m \in Nat : m = limit + 1
    OBVIOUS
  <2>2. held = Take(s, m)
    BY <1>1, <2>1
  <2>3. s \in Seq(S)
    BY <1>2
  <2>4. IsBeginning(held, s, m, S)
    BY <2>2, <2>3, TakeIsBeginning
  <2> QED  BY <2>1, <2>4 DEF IsBeginning
<1>4. /\ page \in Seq(S) /\ Len(page) \in Nat /\ \A i \in 1 .. Len(page) : page[i] = held[i]
      /\ Len(page) = IF limit < Len(held) THEN limit ELSE Len(held)
  <2>1. limit \in Nat /\ held \in Seq(S)
    BY <1>3
  <2>2. IsBeginning(page, held, limit, S)
    BY <2>1, TakeIsBeginning
  <2> QED  BY <2>2 DEF IsBeginning
<1> DEFINE n == Len(page)  h == Len(held)  l == Len(s)
<1>5. /\ n \in Nat /\ h \in Nat /\ l \in Nat /\ n <= h /\ h <= l
      /\ h > limit => n = limit /\ limit \in 1 .. h
      /\ ~ (h > limit) => n = l
  <2>1. h \in Nat /\ n \in Nat /\ l \in Nat
    BY <1>2, <1>3, <1>4
  <2>2. h = (IF limit + 1 < l THEN limit + 1 ELSE l) /\ n = (IF limit < h THEN limit ELSE h)
    BY <1>3, <1>4
  <2> HIDE DEF n, h, l
  <2> QED  BY <2>1, <2>2
<1>6. \A i \in 1 .. n : i \in 1 .. h /\ i \in 1 .. l
  <2> HIDE DEF n, h, l
  <2> QED  BY <1>5
<1>7. \A i \in 1 .. n : page[i] = s[i] /\ i \in 1 .. l
  BY <1>3, <1>4, <1>6
<1>8. \A i, j \in 1 .. n : i < j => SortsBefore(page[i], page[j])
  BY <1>2, <1>7
<1>9. ASSUME h > limit
      PROVE  /\ held[limit] \in S /\ held[limit] = s[limit] /\ limit \in 1 .. l
             /\ \A i \in 1 .. n : ~ SortsBefore(held[limit], page[i])
             /\ \A x \in S : SortsBefore(held[limit], x) \/ \E i \in 1 .. n : page[i] = x
  <2>1. limit \in 1 .. h /\ n = limit /\ limit \in 1 .. l /\ limit \in 1 .. n
    <3> HIDE DEF n, h, l
    <3> QED  BY <1>5, <1>9
  <2>2. held[limit] = s[limit] /\ s[limit] \in S
    BY <1>2, <1>3, <2>1, Zenon
  <2>3. ASSUME NEW i \in 1 .. n PROVE ~ SortsBefore(s[limit], page[i])
    <3>1. page[i] = s[i] /\ i \in 1 .. l /\ s[i] \in Strings /\ s[limit] \in Strings
      <4>1. page[i] = s[i] /\ i \in 1 .. l
      BY <1>7, Zenon
    <4>2. s[i] \in S /\ s[limit] \in S
      BY <1>2, <2>2, <4>1, Zenon
    <4> QED  BY <4>1, <4>2
    <3>2. i < limit \/ i = limit
      <4> HIDE DEF n, l
      <4> QED  BY <2>1
    <3>3. CASE i = limit
      BY <3>1, <3>3, OrderIsStrict
    <3>4. CASE i < limit
      <4>1. SortsBefore(s[i], s[limit])
        BY <1>2, <2>1, <3>1, <3>4
      <4>2. ASSUME SortsBefore(s[limit], s[i]) PROVE FALSE
        <5>1. SortsBefore(s[i], s[i])
          BY <3>1, <4>1, <4>2, OrderIsTransitive
        <5> QED  BY <3>1, <5>1, OrderIsStrict
      <4> QED  BY <3>1, <4>2
    <3> QED  BY <3>2, <3>3, <3>4
  <2>4. ASSUME NEW x \in S PROVE SortsBefore(s[limit], x) \/ \E i \in 1 .. n : page[i] = x
    <3>1. PICK i \in 1 .. l : s[i] = x
      BY <1>2
    <3>2. i \in 1 .. n \/ limit < i
      <4> HIDE DEF n, l
      <4> QED  BY <2>1
    <3>3. CASE i \in 1 .. n
      BY <1>7, <3>1, <3>3
    <3>4. CASE limit < i
      BY <1>2, <2>1, <3>1, <3>4
    <3> QED  BY <3>2, <3>3, <3>4
  <2> QED  BY <2>1, <2>2, <2>3, <2>4
<1>10. ASSUME ~ (h > limit), NEW x \in S PROVE \E i \in 1 .. n : page[i] = x
  <2>1. n = l
    BY <1>5, <1>10
  <2>2. PICK i \in 1 .. l : s[i] = x
    BY <1>2
  <2> QED  BY <1>7, <2>1, <2>2
<1> QED  BY <1>4, <1>8, <1>9, <1>10 DEF PageOf

-----------------------------------------------------------------------------
(* A listing                                                               *)

ListingFields == {"at", "prefix", "token", "asked", "got"}

Given(k) == \E i \in DOMAIN listing.got : listing.got[i] = k

\* What was given out so far: in order, inside the prefix, there at some time.
GivenAreTrue ==
    /\ \A i, j \in DOMAIN listing.got : i < j => SortsBefore(listing.got[i], listing.got[j])
    /\ \A i \in DOMAIN listing.got : listing.got[i] \in ever /\ Inside(listing.prefix, listing.got[i])

\* The token divides what was given from what is to come.
TokenDivides ==
    /\ listing.token # <<>> => IsKey(listing.token) /\ listing.token \in AllKeys /\ Inside(listing.prefix, listing.token)
    /\ \A i \in DOMAIN listing.got : ~ SortsBefore(listing.token, listing.got[i])
    /\ \A k \in throughout :
         Inside(listing.prefix, k) /\ ~ SortsBefore(listing.token, k) => Given(k)

Listing ==
    /\ IsOn(listing, ListingFields)
    /\ listing.prefix \in AskedPrefixes /\ listing.token \in Strings
    /\ listing.asked \in Nat /\ listing.got \in Seq(AllKeys)
    /\ listing.at \in {"paging", "done", "refused"}
    /\ throughout \subseteq keys /\ keys \subseteq ever /\ ever \subseteq {k \in AllKeys : IsKey(k)}
    /\ GivenAreTrue
    /\ listing.at = "paging" => TokenDivides
    /\ listing.at = "done" => \A k \in throughout : Inside(listing.prefix, k) => Given(k)
    /\ listing.at = "refused" => ~ CheckPrefix(listing.prefix) \/ ~ IsRange(listing.prefix)

ListingInv ==
    /\ keys \subseteq {k \in AllKeys : IsKey(k)}
    /\ listing = NoListing \/ Listing

LEMMA KeysAreLists ==
    ASSUME ListingInv
    PROVE  /\ keys \in SUBSET Strings /\ keys \in SUBSET AllKeys /\ IsFiniteSet(keys)
           /\ \A k \in keys : IsKey(k)
<1>1. keys \in SUBSET AllKeys /\ AllKeys \in SUBSET Strings /\ IsFiniteSet(AllKeys)
      /\ \A k \in keys : IsKey(k)
  BY ListingAssumption DEF ListingInv, Strings
<1>2. IsFiniteSet(keys)
  BY <1>1, FS_Subset
<1> QED  BY <1>1, <1>2

LEMMA StartKeeps ==
    ASSUME ListingInv, NEW p \in AskedPrefixes, NEW asked \in 0 .. 2, StartListing(p, asked)
    PROVE  ListingInv'
<1>1. listing' = [at |-> "paging", prefix |-> p, token |-> <<>>, asked |-> asked, got |-> <<>>]
      /\ throughout' = keys /\ ever' = keys /\ keys' = keys
  BY DEF StartListing
<1>2. /\ listing'.at = "paging" /\ listing'.prefix = p /\ listing'.token = <<>>
      /\ listing'.asked = asked /\ listing'.got = <<>> /\ IsOn(listing', ListingFields)
  BY <1>1 DEF IsOn, ListingFields
<1>3. DOMAIN listing'.got = {} /\ listing'.got \in Seq(AllKeys) /\ listing'.token \in Strings
      /\ p \in AskedPrefixes /\ asked \in Nat
  <2>1. DOMAIN <<>> = {} /\ <<>> \in Seq(AllKeys) /\ <<>> \in Strings
    BY DEF Strings
  <2> QED  BY <1>2, <2>1
<1>4. \A k \in keys : SortsBefore(<<>>, k)
  <2> SUFFICES ASSUME NEW k \in keys PROVE SortsBefore(<<>>, k)
    OBVIOUS
  <2>1. k \in Strings /\ k # <<>>
    BY KeysAreLists DEF IsKey
  <2> QED  BY <2>1, EmptyIsFirst
<1>5. GivenAreTrue'
  BY <1>3 DEF GivenAreTrue
<1>6. TokenDivides'
  BY <1>1, <1>2, <1>3, <1>4 DEF TokenDivides
<1>7. Listing'
  BY <1>1, <1>2, <1>3, <1>5, <1>6 DEF Listing, ListingInv
<1> QED  BY <1>1, <1>7 DEF ListingInv

LEMMA CreateKeeps ==
    ASSUME ListingInv, NEW k \in AllKeys, CreateKey(k)
    PROVE  ListingInv'
<1>1. /\ listing.at = "paging" /\ IsKey(k) /\ keys' = keys \cup {k} /\ ever' = ever \cup {k}
      /\ listing' = listing /\ throughout' = throughout
  BY DEF CreateKey
<1>2. Listing
  BY <1>1 DEF ListingInv, NoListing
<1>3. GivenAreTrue' /\ TokenDivides'
  BY <1>1, <1>2 DEF Listing, GivenAreTrue, TokenDivides, Given
<1>4. Listing'
  BY <1>1, <1>2, <1>3 DEF Listing
<1> QED  BY <1>1, <1>4 DEF ListingInv

LEMMA DeleteKeeps ==
    ASSUME ListingInv, NEW k \in AllKeys, DeleteKey(k)
    PROVE  ListingInv'
<1>1. /\ listing.at = "paging" /\ keys' = keys \ {k} /\ throughout' = throughout \ {k}
      /\ listing' = listing /\ ever' = ever
  BY DEF DeleteKey
<1>2. Listing
  BY <1>1 DEF ListingInv, NoListing
<1>3. GivenAreTrue' /\ TokenDivides'
  BY <1>1, <1>2 DEF Listing, GivenAreTrue, TokenDivides, Given
<1>4. Listing'
  BY <1>1, <1>2, <1>3 DEF Listing
<1> QED  BY <1>1, <1>4 DEF ListingInv

LEMMA PageKeeps ==
    ASSUME ListingInv, ListRepositories
    PROVE  ListingInv'
<1>1. /\ listing.at = "paging" /\ keys' = keys /\ throughout' = throughout /\ ever' = ever
  BY DEF ListRepositories
<1>2. Listing
  BY <1>1 DEF ListingInv, NoListing
<1>3. PICK limit : limit = PageLimit(listing.asked, RepositoryLimit)
  OBVIOUS
<1>4. limit \in Nat \ {0}
  BY <1>2, <1>3, ListingAssumption DEF Listing, PageLimit
<1>5. PICK S, prefix, token, got :
         /\ prefix = listing.prefix /\ token = listing.token /\ got = listing.got
         /\ S = {k \in keys : SortsBefore(token, k) /\ Inside(prefix, k)}
  OBVIOUS
<1>6. PICK held : held = Take(InOrder(S), limit + 1)
  OBVIOUS
<1>7. PICK page : page = Take(held, limit)
  OBVIOUS
<1>8. listing' =
         IF \/ ~ CheckPrefix(prefix)
            \/ token # <<>> /\ ~ (IsKey(token) /\ IsPrefix(prefix, token))
         THEN [listing EXCEPT !.at = "refused"]
         ELSE [listing EXCEPT !.at = IF Len(held) > limit THEN "paging" ELSE "done",
                              !.token = IF Len(held) > limit THEN NextToken(held, limit) ELSE <<>>,
                              !.got = got \o page]
  BY <1>3, <1>5, <1>6, <1>7 DEF ListRepositories, PageByKey
<1>9. token # <<>> => IsKey(token) /\ token \in AllKeys /\ Inside(prefix, token)
  BY <1>1, <1>2, <1>5 DEF Listing, TokenDivides
<1> DEFINE refused == ~ CheckPrefix(prefix) \/ (token # <<>> /\ ~ IsPrefix(prefix, token))
<1>10. CASE refused
  <2>0. ~ CheckPrefix(prefix) \/ ~ IsRange(prefix)
    BY <1>9, <1>10 DEF IsRange
  <2>1. listing' = [listing EXCEPT !.at = "refused"]
    BY <1>8, <1>9, <1>10
  <2>2. /\ listing'.at = "refused" /\ listing'.prefix = prefix /\ listing'.token = token
        /\ listing'.asked = listing.asked /\ listing'.got = got /\ IsOn(listing', ListingFields)
    BY <1>2, <1>5, <2>1 DEF Listing, IsOn, ListingFields
  <2>3. GivenAreTrue'
    BY <1>1, <1>2, <1>5, <2>2 DEF Listing, GivenAreTrue
  <2>4. Listing'
    BY <1>1, <1>2, <1>5, <2>0, <2>2, <2>3 DEF Listing
  <2> QED  BY <1>1, <2>4 DEF ListingInv
<1>11. CASE ~ refused
  <2>1. PICK at, next :
           /\ at = IF Len(held) > limit THEN "paging" ELSE "done"
           /\ next = IF Len(held) > limit THEN held[limit] ELSE <<>>
    OBVIOUS
  <2>2. listing' = [listing EXCEPT !.at = at, !.token = next, !.got = got \o page]
    BY <1>8, <1>9, <1>11, <2>1 DEF NextToken
  <2>3. /\ listing'.at = at /\ listing'.prefix = prefix /\ listing'.token = next
        /\ listing'.asked = listing.asked /\ listing'.got = got \o page /\ IsOn(listing', ListingFields)
    BY <1>2, <1>5, <2>2 DEF Listing, IsOn, ListingFields
  <2>4. /\ keys \in SUBSET Strings /\ keys \in SUBSET AllKeys /\ IsFiniteSet(keys)
        /\ \A k \in keys : IsKey(k)
    BY KeysAreLists
  <2>5. S \in SUBSET Strings /\ S \in SUBSET keys /\ IsFiniteSet(S)
    <3>1. S \in SUBSET keys
      BY <1>5
    <3> QED  BY <2>4, <3>1, FS_Subset
  <2>6. /\ page \in Seq(S)
        /\ \A i, j \in 1 .. Len(page) : i < j => SortsBefore(page[i], page[j])
        /\ Len(held) > limit =>
             /\ held[limit] \in S
             /\ \A i \in 1 .. Len(page) : ~ SortsBefore(held[limit], page[i])
             /\ \A x \in S : SortsBefore(held[limit], x) \/ \E i \in 1 .. Len(page) : page[i] = x
        /\ ~ (Len(held) > limit) => \A x \in S : \E i \in 1 .. Len(page) : page[i] = x
    <3>1. PageOf(page, held, limit, S)
      BY <1>4, <1>6, <1>7, <2>5, PageDivides
    <3> QED  BY <3>1 DEF PageOf
  <2>7. /\ prefix \in AskedPrefixes /\ token \in Strings /\ got \in Seq(AllKeys)
        /\ AllKeys \in SUBSET Strings
    BY <1>2, <1>5 DEF Listing, Strings
  <2>8. PICK all : all = got \o page
    OBVIOUS
  <2>9. /\ all \in Seq(AllKeys) /\ Len(got) \in Nat /\ Len(page) \in Nat
        /\ DOMAIN all = 1 .. (Len(got) + Len(page))
        /\ \A i \in 1 .. Len(got) : all[i] = got[i]
        /\ \A i \in 1 .. Len(page) : all[Len(got) + i] = page[i]
    <3>1. page \in Seq(AllKeys)
      BY <2>4, <2>5, <2>6
    <3> QED  BY <2>7, <2>8, <3>1
  <2> DEFINE g == Len(got)  n == Len(page)
  <2>10. g \in Nat /\ n \in Nat /\ DOMAIN got = 1 .. g
    BY <2>7, <2>9
  <2>11. ASSUME NEW i \in DOMAIN all
         PROVE  \/ i \in 1 .. g /\ all[i] = got[i]
                \/ i \notin 1 .. g /\ i - g \in 1 .. n /\ all[i] = page[i - g]
    <3>1. i \in 1 .. (g + n)
      BY <2>9
    <3>2. i \in 1 .. g \/ (i \notin 1 .. g /\ i - g \in 1 .. n /\ g + (i - g) = i)
      <4> HIDE DEF g, n
      <4> QED  BY <2>10, <3>1
    <3> QED  BY <2>9, <3>2
  <2>12. \A i \in 1 .. n : page[i] \in S /\ page[i] \in keys /\ SortsBefore(token, page[i]) /\ Inside(prefix, page[i])
    <3> SUFFICES ASSUME NEW i \in 1 .. n
                 PROVE  page[i] \in S /\ page[i] \in keys /\ SortsBefore(token, page[i]) /\ Inside(prefix, page[i])
      OBVIOUS
    <3>1. page[i] \in S
      BY <2>6
    <3>2. page[i] \in keys /\ page[i] \in Strings /\ SortsBefore(token, page[i]) /\ Inside(prefix, page[i])
      BY <1>5, <2>5, <3>1
    <3> QED  BY <3>1, <3>2
  <2>13. /\ \A i, j \in 1 .. g : i < j => SortsBefore(got[i], got[j])
         /\ \A i \in 1 .. g : got[i] \in ever /\ Inside(prefix, got[i]) /\ ~ SortsBefore(token, got[i])
         /\ \A k \in throughout :
              Inside(prefix, k) /\ ~ SortsBefore(token, k) => \E i \in 1 .. g : got[i] = k
         /\ throughout \subseteq keys /\ keys \subseteq ever
    BY <1>1, <1>2, <1>5, <2>10 DEF Listing, GivenAreTrue, TokenDivides, Given
  <2>14. \A i \in 1 .. g, j \in 1 .. n : SortsBefore(got[i], page[j])
    <3> SUFFICES ASSUME NEW i \in 1 .. g, NEW j \in 1 .. n PROVE SortsBefore(got[i], page[j])
      OBVIOUS
    <3>1. got[i] \in Strings /\ page[j] \in Strings
      BY <2>4, <2>7, <2>10, <2>12
    <3>2. SortsBefore(token, page[j]) /\ ~ SortsBefore(token, got[i])
      BY <2>12, <2>13
    <3>3. got[i] = token \/ SortsBefore(got[i], token)
      BY <2>7, <3>1, <3>2, OrderIsTotal
    <3> QED  BY <2>7, <3>1, <3>2, <3>3, OrderIsTransitive
  <2>15. ASSUME NEW i \in DOMAIN all, NEW j \in DOMAIN all, i < j PROVE SortsBefore(all[i], all[j])
    <3>1. CASE j \in 1 .. g
      <4>1. i \in 1 .. g
        <5>1. i \in 1 .. (g + n)
          BY <2>9
        <5> HIDE DEF g, n
        <5> QED  BY <2>10, <2>15, <3>1, <5>1
      <4> QED  BY <2>9, <2>13, <2>15, <3>1, <4>1
    <3>2. CASE j \notin 1 .. g
      <4>1. j - g \in 1 .. n /\ all[j] = page[j - g]
        BY <2>11, <3>2
      <4>2. CASE i \in 1 .. g
        BY <2>9, <2>14, <4>1, <4>2
      <4>3. CASE i \notin 1 .. g
        <5>1. i - g \in 1 .. n /\ all[i] = page[i - g]
          BY <2>11, <4>3
        <5>2. i - g < j - g
          <6>1. i \in 1 .. (g + n) /\ j \in 1 .. (g + n)
            BY <2>9
          <6> HIDE DEF g, n
          <6> QED  BY <2>10, <2>15, <6>1
        <5> QED  BY <2>6, <4>1, <5>1, <5>2
      <4> QED  BY <4>2, <4>3
    <3> QED  BY <3>1, <3>2
  <2>16. \A i \in DOMAIN all : all[i] \in ever /\ Inside(prefix, all[i])
    BY <2>11, <2>12, <2>13
  <2>17. GivenAreTrue'
    BY <1>1, <2>3, <2>8, <2>15, <2>16 DEF GivenAreTrue
  <2>18. \A i \in 1 .. g : i \in DOMAIN all /\ all[i] = got[i]
    BY <2>9, <2>10
  <2>19. \A i \in 1 .. n : g + i \in DOMAIN all /\ all[g + i] = page[i]
    BY <2>9, <2>10
  <2>20. ASSUME NEW k \in throughout, Inside(prefix, k), k \in S => \E i \in 1 .. n : page[i] = k
         PROVE  \E i \in DOMAIN all : all[i] = k
    <3>1. k \in keys /\ k \in Strings
      BY <2>4, <2>13
    <3>2. CASE SortsBefore(token, k)
      <4>2. PICK i \in 1 .. n : page[i] = k
        BY <1>5, <2>20, <3>1, <3>2
      <4> QED  BY <2>19, <4>2
    <3>3. CASE ~ SortsBefore(token, k)
      <4>1. PICK i \in 1 .. g : got[i] = k
        BY <2>13, <2>20, <3>3
      <4> QED  BY <2>18, <4>1
    <3> QED  BY <3>2, <3>3
  <2>21. CASE Len(held) > limit
    <3>1. at = "paging" /\ next = held[limit] /\ next \in S
      BY <2>1, <2>6, <2>21
    <3>2. /\ next \in keys /\ next \in Strings /\ next \in AllKeys
          /\ SortsBefore(token, next) /\ IsKey(next) /\ Inside(prefix, next)
      <4>1. next \in keys /\ next \in Strings /\ SortsBefore(token, next) /\ Inside(prefix, next)
        BY <1>5, <2>5, <3>1
      <4> QED  BY <2>4, <4>1
    <3>3. ASSUME NEW i \in DOMAIN all PROVE ~ SortsBefore(next, all[i])
      <4>1. CASE i \notin 1 .. g
        BY <2>6, <2>11, <2>21, <3>1, <4>1
      <4>2. CASE i \in 1 .. g
        <5>1. all[i] = got[i] /\ got[i] \in Strings /\ ~ SortsBefore(token, got[i])
          BY <2>7, <2>9, <2>10, <2>13, <4>2
        <5>2. ASSUME SortsBefore(next, got[i]) PROVE FALSE
          <6>1. SortsBefore(token, got[i])
            BY <2>7, <3>2, <5>1, <5>2, OrderIsTransitive
          <6> QED  BY <5>1, <6>1
        <5> QED  BY <5>1, <5>2
      <4> QED  BY <4>1, <4>2
    <3>4. ASSUME NEW k \in throughout, Inside(prefix, k), ~ SortsBefore(next, k)
          PROVE  \E i \in DOMAIN all : all[i] = k
      <4>1. k \in S => \E i \in 1 .. n : page[i] = k
        BY <2>6, <2>21, <3>1, <3>4
      <4> QED  BY <2>20, <3>4, <4>1
    <3>5. TokenDivides'
      BY <1>1, <2>3, <2>8, <3>2, <3>3, <3>4 DEF TokenDivides, Given, IsKey
    <3>6. Listing'
      BY <1>1, <1>2, <2>3, <2>7, <2>8, <2>9, <2>13, <2>17, <3>1, <3>2, <3>5 DEF Listing
    <3> QED  BY <1>1, <3>6 DEF ListingInv
  <2>22. CASE ~ (Len(held) > limit)
    <3>1. at = "done" /\ next = <<>> /\ next \in Strings
      BY <2>1, <2>22 DEF Strings
    <3>2. ASSUME NEW k \in throughout, Inside(prefix, k) PROVE \E i \in DOMAIN all : all[i] = k
      <4>1. k \in S => \E i \in 1 .. n : page[i] = k
        BY <2>6, <2>22
      <4> QED  BY <2>20, <3>2, <4>1
    <3>3. \A k \in throughout' : Inside(listing'.prefix, k) => Given(k)'
      BY <1>1, <2>3, <2>8, <3>2 DEF Given
    <3>4. Listing'
      BY <1>1, <1>2, <2>3, <2>7, <2>8, <2>9, <2>13, <2>17, <3>1, <3>3 DEF Listing
    <3> QED  BY <1>1, <3>4 DEF ListingInv
  <2> QED  BY <2>21, <2>22
<1> QED  BY <1>10, <1>11

LEMMA ListingStays ==
    ASSUME ListingInv, UNCHANGED lvars
    PROVE  ListingInv'
<1>1. keys' = keys /\ listing' = listing /\ throughout' = throughout /\ ever' = ever
  BY DEF lvars
<1> QED  BY <1>1 DEF ListingInv, Listing, GivenAreTrue, TokenDivides, Given

LEMMA AnswerLeavesListings ==
    ASSUME Answer
    PROVE  UNCHANGED lvars
  BY DEF Answer, Call

LEMMA ServiceStepKeeps ==
    ASSUME ListingInv, SNext
    PROVE  ListingInv'
<1>1. CASE \E p \in AskedPrefixes, asked \in 0 .. 2 : job = NoJob /\ StartListing(p, asked)
  BY <1>1, StartKeeps
<1>2. CASE ListRepositories
  BY <1>2, PageKeeps
<1>3. CASE \E k \in AllKeys : CreateKey(k) \/ DeleteKey(k)
  BY <1>3, CreateKeeps, DeleteKeeps
<1>4. CASE Idle /\ Answer
  BY <1>4, AnswerLeavesListings, ListingStays
<1> QED  BY <1>1, <1>2, <1>3, <1>4 DEF SNext

LEMMA ListingInvIsEnough ==
    ASSUME ListingInv
    PROVE  ListingsAreComplete
<1>1. CASE listing = NoListing
  <2>1. listing.at = "none"
    BY <1>1 DEF NoListing
  <2> QED  BY <2>1 DEF ListingsAreComplete
<1>2. CASE Listing
  <2>1. PICK got : got = {listing.got[i] : i \in DOMAIN listing.got}
    OBVIOUS
  <2>2. \A k : Given(k) => k \in got
    BY <2>1 DEF Given
  <2>3. \A k \in got : k \in ever /\ Inside(listing.prefix, k)
    BY <1>2, <2>1 DEF Listing, GivenAreTrue
  <2>4. listing.at = "done" => \A k \in throughout : Inside(listing.prefix, k) => k \in got
    BY <1>2, <2>2 DEF Listing
  <2>5. \A i, j \in DOMAIN listing.got : i < j => SortsBefore(listing.got[i], listing.got[j])
    BY <1>2 DEF Listing, GivenAreTrue
  <2>6. listing.at = "refused" => ~ CheckPrefix(listing.prefix) \/ ~ IsRange(listing.prefix)
    BY <1>2 DEF Listing
  <2> DEFINE Under(k) == IF IsRange(listing.prefix) THEN IsPrefix(listing.prefix, k) ELSE Inside(listing.prefix, k)
  <2>7. \A k \in ever : Under(k) <=> Inside(listing.prefix, k)
    BY <1>2 DEF Listing, IsRange
  <2>8. throughout \subseteq ever
    BY <1>2 DEF Listing
  <2> HIDE DEF Under
  <2>9. /\ listing.at = "done" => {k \in throughout : Under(k)} \subseteq got
        /\ got \subseteq {k \in ever : Under(k)}
    BY <2>3, <2>4, <2>7, <2>8
  <2> QED  BY <2>1, <2>5, <2>6, <2>9, Zenon DEF ListingsAreComplete, Under
<1> QED  BY <1>1, <1>2 DEF ListingInv

\* A client that follows list_repositories' tokens to the end is given, once
\* each and in the order of the database, every repository between the bounds
\* of its prefix that was there throughout, and none that never was: for any
\* collation, any keys and prefixes, any length of page and any creates and
\* deletes between its calls.  Where the collation makes the prefix a range,
\* as byte order makes every one, these are the repositories under the prefix
\* and only a prefix no key can have is refused.
THEOREM ListingsComplete == ServiceSpec => []ListingsAreComplete
<1>1. SInit => ListingInv
  BY DEF SInit, ListInit, ListingInv
<1>2. ListingInv /\ [SNext]_svars => ListingInv'
  <2>1. CASE UNCHANGED svars
    BY <2>1, ListingStays DEF svars
  <2> QED  BY <2>1, ServiceStepKeeps
<1>3. ListingInv => ListingsAreComplete
  BY ListingInvIsEnough
<1> QED  BY <1>1, <1>2, <1>3, PTL DEF ServiceSpec

-----------------------------------------------------------------------------
(* Frames, one after the other                                             *)

Words == Seq(Nat)

\* g runs through the frames fs, joining each to those before it.
RunsThrough(g, fs) ==
    /\ g \in [0 .. Len(fs) -> Words] /\ g[0] = <<>>
    /\ \A n \in 1 .. Len(fs) : g[n] = g[n - 1] \o fs[n]

LEMMA FlattenIs ==
    ASSUME NEW fs \in Seq(Words)
    PROVE  \E g : RunsThrough(g, fs) /\ FlattenSeq(fs) = g[Len(fs)]
<1> DEFINE m == Len(fs)
           F == [x \in Words \X Nat |-> IF x[2] \in 1 .. m THEN x[1] \o fs[x[2]] ELSE x[1]]
           Step(f) == [i \in 1 .. m |-> IF i = 1 THEN fs[i] ELSE f[i - 1] \o fs[i]]
           h == CHOOSE f : f = Step(f)
<1>1. m \in Nat /\ <<>> \in Words /\ \A n \in 1 .. m : fs[n] \in Words
  BY DEF Words
<1>2. F \in [Words \X Nat -> Words]
  <2>1. ASSUME NEW x \in Words \X Nat PROVE (IF x[2] \in 1 .. m THEN x[1] \o fs[x[2]] ELSE x[1]) \in Words
    <3>1. x[1] \in Words
      OBVIOUS
    <3>2. CASE x[2] \in 1 .. m
      <4>1. fs[x[2]] \in Words
        BY <3>2, <1>1
      <4> QED  BY <3>1, <3>2, <4>1 DEF Words
    <3> QED  BY <3>1, <3>2
  <2> QED  BY <2>1
<1>3. ASSUME NEW s \in Words, NEW n \in 1 .. m PROVE F[<<s, n>>] = s \o fs[n]
  <2>1. n \in Nat /\ <<s, n>> \in Words \X Nat /\ <<s, n>>[1] = s /\ <<s, n>>[2] = n
    BY <1>1
  <2> HIDE DEF m
  <2> QED  BY <2>1
<1> HIDE DEF F
<1>4. PICK g \in [0 .. m -> Words] : \A n \in 0 .. m : g[n] = IF n = 0 THEN <<>> ELSE F[<<g[n - 1], n>>]
  <2>1. PICK V, b : V = Words /\ b = <<>>
    OBVIOUS
  <2>2. b \in V /\ m \in Nat /\ F \in [V \X Nat -> V]
    BY <1>1, <1>2, <2>1
  <2> HIDE DEF m
  <2>3. \E f \in [0 .. m -> V] : Recurses(f, m, b, F)
    BY <2>2, Recursion
  <2> QED  BY <2>1, <2>3 DEF Recurses
<1>5. RunsThrough(g, fs)
  <2>1. g[0] = <<>>
    <3>1. 0 \in 0 .. m
      BY <1>1
    <3> HIDE DEF m
    <3> QED  BY <3>1, <1>4
  <2>2. ASSUME NEW n \in 1 .. m PROVE g[n] = g[n - 1] \o fs[n]
    <3>1. n \in 0 .. m /\ n # 0 /\ n - 1 \in 0 .. m
      BY <1>1
    <3>2. g[n - 1] \in Words /\ g[n] = F[<<g[n - 1], n>>]
      BY <3>1, <1>4
    <3> QED  BY <3>2, <1>3
  <2> QED  BY <2>1, <2>2, <1>4 DEF RunsThrough
<1>6. CASE m = 0
  <2>1. FlattenSeq(fs) = fs /\ fs = <<>>
    BY <1>6 DEF FlattenSeq
  <2> QED  BY <2>1, <1>5, <1>6 DEF RunsThrough
<1>7. CASE m # 0
  <2>1. FlattenSeq(fs) = h[m]
    BY <1>7 DEF FlattenSeq
  <2> DEFINE f == [i \in 1 .. m |-> g[i]]
  <2>2. f = Step(f)
    <3>1. ASSUME NEW i \in 1 .. m
          PROVE  g[i] = IF i = 1 THEN fs[i] ELSE f[i - 1] \o fs[i]
      <4>1. g[i] = g[i - 1] \o fs[i] /\ fs[i] \in Words
        BY <1>1, <1>5 DEF RunsThrough
      <4>2. CASE i = 1
        <5>1. g[i - 1] = <<>>
          BY <4>2, <1>5 DEF RunsThrough
        <5> QED  BY <4>1, <4>2, <5>1 DEF Words
      <4>3. CASE i # 1
        <5>1. i - 1 \in 1 .. m
          BY <4>3, <1>1
        <5>2. f[i - 1] = g[i - 1]
          BY <5>1
        <5> HIDE DEF f
        <5> QED  BY <4>1, <4>3, <5>2
      <4> QED  BY <4>2, <4>3
    <3> QED  BY <3>1
  <2>3. h = Step(h)
    <3> HIDE DEF f
    <3> QED  BY <2>2
  <2> HIDE DEF h, f
  <2> DEFINE T == {n \in Nat : n \in 1 .. m => h[n] = g[n]}
  <2>4. 0 \in T
    OBVIOUS
  <2>5. ASSUME NEW n \in T PROVE n + 1 \in T
    <3> SUFFICES ASSUME n + 1 \in 1 .. m PROVE h[n + 1] = g[n + 1]
      OBVIOUS
    <3>1. n \in Nat /\ (n + 1) - 1 = n
      OBVIOUS
    <3>2. h[n + 1] = IF n + 1 = 1 THEN fs[n + 1] ELSE h[n] \o fs[n + 1]
      BY <2>3, <3>1
    <3>3. g[n + 1] = g[n] \o fs[n + 1] /\ fs[n + 1] \in Words
      BY <3>1, <1>1, <1>5 DEF RunsThrough
    <3>4. CASE n = 0
      <4>1. g[n] = <<>>
        BY <3>4, <1>5 DEF RunsThrough
      <4> QED  BY <3>2, <3>3, <3>4, <4>1 DEF Words
    <3>5. CASE n # 0
      <4>1. n \in 1 .. m /\ n + 1 # 1
        BY <3>1, <3>5, <1>1
      <4>2. h[n] = g[n]
        BY <4>1
      <4> QED  BY <3>2, <3>3, <4>1, <4>2
    <3> QED  BY <3>4, <3>5
  <2>6. T = Nat
    <3>1. T \in SUBSET Nat
      OBVIOUS
    <3> HIDE DEF T
    <3> QED  BY <2>4, <2>5, <3>1, Counting
  <2>7. m \in T /\ m \in 1 .. m
    BY <2>6, <1>1, <1>7
  <2> QED  BY <2>1, <2>7, <1>5
<1> QED  BY <1>6, <1>7

LEMMA FlattenAppend ==
    ASSUME NEW fs \in Seq(Words), NEW x \in Words
    PROVE  /\ FlattenSeq(fs) \in Words
           /\ FlattenSeq(Append(fs, x)) = FlattenSeq(fs) \o x
<1>1. PICK ps : ps = Append(fs, x)
  OBVIOUS
<1>2. /\ ps \in Seq(Words) /\ Len(fs) \in Nat /\ Len(ps) = Len(fs) + 1 /\ ps[Len(fs) + 1] = x
      /\ \A n \in 1 .. Len(fs) : ps[n] = fs[n]
  BY <1>1
<1>3. PICK g : RunsThrough(g, fs) /\ FlattenSeq(fs) = g[Len(fs)]
  BY FlattenIs
<1>4. PICK k : RunsThrough(k, ps) /\ FlattenSeq(ps) = k[Len(ps)]
  BY <1>2, FlattenIs
<1> DEFINE T == {n \in Nat : n <= Len(fs) => k[n] = g[n]}
<1>5. 0 \in T
  BY <1>3, <1>4 DEF RunsThrough
<1>6. ASSUME NEW n \in T PROVE n + 1 \in T
  <2> SUFFICES ASSUME n + 1 <= Len(fs) PROVE k[n + 1] = g[n + 1]
    OBVIOUS
  <2>1. n \in Nat /\ n <= Len(fs) /\ n + 1 \in 1 .. Len(fs) /\ n + 1 \in 1 .. Len(ps) /\ (n + 1) - 1 = n
    BY <1>2
  <2>2. k[n + 1] = k[n] \o ps[n + 1] /\ g[n + 1] = g[n] \o fs[n + 1]
    BY <2>1, <1>3, <1>4 DEF RunsThrough
  <2>3. k[n] = g[n] /\ ps[n + 1] = fs[n + 1]
    BY <2>1, <1>2
  <2> QED  BY <2>2, <2>3
<1>7. T = Nat
  <2>1. T \in SUBSET Nat
    OBVIOUS
  <2> HIDE DEF T
  <2> QED  BY <1>5, <1>6, <2>1, Counting
<1>8. k[Len(fs)] = g[Len(fs)]
  <2>1. Len(fs) \in T
    BY <1>2, <1>7
  <2> QED  BY <2>1, <1>2
<1>9. k[Len(ps)] = k[Len(fs)] \o x
  <2>1. Len(fs) + 1 \in 1 .. Len(ps) /\ (Len(fs) + 1) - 1 = Len(fs)
    BY <1>2
  <2> QED  BY <2>1, <1>2, <1>4 DEF RunsThrough
<1>10. g[Len(fs)] \in Words
  BY <1>2, <1>3 DEF RunsThrough
<1> QED  BY <1>1, <1>3, <1>4, <1>8, <1>9, <1>10

-----------------------------------------------------------------------------
(* Full frames                                                             *)

LEMMA Division ==
    ASSUME NEW n \in Nat
    PROVE  /\ n \div MaxSideband \in Nat
           /\ (n \div MaxSideband) * MaxSideband \in Nat
           /\ (n \div MaxSideband) * MaxSideband <= n
           /\ n < (n \div MaxSideband) * MaxSideband + MaxSideband
BY FormatConstants

\* k frames of a size take k times as many words, one more a frame more.
LEMMA Multiples ==
    ASSUME NEW k \in Nat, NEW q \in Nat
    PROVE  /\ k * MaxSideband \in Nat /\ (k + 1) * MaxSideband = k * MaxSideband + MaxSideband
           /\ k <= q => k * MaxSideband <= q * MaxSideband
BY FormatConstants

LEMMA FullIs ==
    ASSUME NEW w \in Words
    PROVE  /\ Full(w) \in Seq(Words) /\ Len(Full(w)) = Len(w) \div MaxSideband
           /\ Len(w) \div MaxSideband \in Nat
           /\ \A i \in 1 .. Len(w) \div MaxSideband :
                /\ Full(w)[i] = SubSeq(w, (i - 1) * MaxSideband + 1, i * MaxSideband)
                /\ Len(Full(w)[i]) = MaxSideband
<1>1. PICK q : q = Len(w) \div MaxSideband
  OBVIOUS
<1>2. q \in Nat /\ q * MaxSideband \in Nat /\ q * MaxSideband <= Len(w) /\ Len(w) \in Nat /\ MaxSideband \in Nat \ {0}
  BY <1>1, Division, FormatConstants DEF Words
<1>3. ASSUME NEW i \in 1 .. q
      PROVE  /\ SubSeq(w, (i - 1) * MaxSideband + 1, i * MaxSideband) \in Words
             /\ Len(SubSeq(w, (i - 1) * MaxSideband + 1, i * MaxSideband)) = MaxSideband
  <2>1. i - 1 \in Nat /\ i \in Nat /\ i <= q /\ (i - 1) + 1 = i
    BY <1>2
  <2>2. PICK a, b : a = (i - 1) * MaxSideband /\ b = i * MaxSideband
    OBVIOUS
  <2>3. a \in Nat /\ b = a + MaxSideband
    BY <2>1, <2>2, Multiples
  <2>4. b <= q * MaxSideband
    BY <2>1, <2>2, <1>2, Multiples
  <2>5. a + 1 \in 1 .. Len(w) + 1 /\ b \in a .. Len(w) /\ a + 1 <= b /\ b - (a + 1) + 1 = MaxSideband
    BY <2>3, <2>4, <1>2
  <2>6. SubSeq(w, a + 1, b) \in Words /\ Len(SubSeq(w, a + 1, b)) = MaxSideband
    BY <2>3, <2>5, <1>2, SubSeqProperties DEF Words
  <2> QED  BY <2>2, <2>6
<1>4. Full(w) = [i \in 1 .. q |-> SubSeq(w, (i - 1) * MaxSideband + 1, i * MaxSideband)]
  BY <1>1 DEF Full
<1>5. Full(w) \in Seq(Words) /\ Len(Full(w)) = q
  <2>1. PICK f : f = Full(w)
    OBVIOUS
  <2>2. f \in [1 .. q -> Words]
    BY <2>1, <1>3, <1>4
  <2>3. f \in Seq(Words) /\ Len(f) = q
    BY <2>2, <1>2
  <2> QED  BY <2>1, <2>3
<1> QED  BY <1>1, <1>2, <1>3, <1>4, <1>5

LEMMA BeginningIs ==
    ASSUME NEW w \in Words, NEW a \in Nat, a <= Len(w)
    PROVE  SubSeq(w, 1, a) \in Words
<1>1. CASE a = 0
  BY <1>1 DEF Words
<1>2. CASE a # 0
  BY <1>2 DEF Words
<1> QED  BY <1>1, <1>2

LEMMA Associative ==
    ASSUME NEW a \in Words, NEW b \in Words, NEW c \in Words
    PROVE  (a \o b) \o c = a \o (b \o c)
BY DEF Words

\* The first k full frames hold the words up to the end of the k-th.
LEMMA FullJoins ==
    ASSUME NEW fs \in Seq(Words), NEW w \in Words
    PROVE  /\ fs \o Full(w) \in Seq(Words)
           /\ FlattenSeq(fs \o Full(w)) =
                 FlattenSeq(fs) \o SubSeq(w, 1, (Len(w) \div MaxSideband) * MaxSideband)
<1>1. PICK q, F : q = Len(w) \div MaxSideband /\ F = Full(w)
  OBVIOUS
<1>2. /\ F \in Seq(Words) /\ Len(F) = q /\ q \in Nat
      /\ \A i \in 1 .. q : F[i] = SubSeq(w, (i - 1) * MaxSideband + 1, i * MaxSideband)
  BY <1>1, FullIs
<1>3. q * MaxSideband \in Nat /\ q * MaxSideband <= Len(w) /\ Len(w) \in Nat /\ MaxSideband \in Nat \ {0}
  BY <1>1, Division, FormatConstants DEF Words
<1> DEFINE Upto(k) == /\ fs \o SubSeq(F, 1, k) \in Seq(Words)
                      /\ FlattenSeq(fs \o SubSeq(F, 1, k)) = FlattenSeq(fs) \o SubSeq(w, 1, k * MaxSideband)
           T == {k \in Nat : k <= q => Upto(k)}
<1>4. FlattenSeq(fs) \in Words
  BY FlattenAppend, EmptySeq DEF Words
<1>5. 0 \in T
  <2>1. 0 * MaxSideband = 0
    BY <1>3
  <2>2. SubSeq(F, 1, 0) = <<>> /\ SubSeq(w, 1, 0) = <<>>
    BY <1>2 DEF Words
  <2>3. fs \o <<>> = fs /\ FlattenSeq(fs) \o <<>> = FlattenSeq(fs)
    BY <1>4 DEF Words
  <2>4. Upto(0)
    BY <2>1, <2>2, <2>3
  <2> HIDE DEF Upto
  <2> QED  BY <2>4
<1>6. ASSUME NEW k \in T PROVE k + 1 \in T
  <2> HIDE DEF Upto
  <2> SUFFICES ASSUME k + 1 <= q PROVE Upto(k + 1)
    OBVIOUS
  <2>1. k \in Nat /\ k <= q /\ Upto(k)
    BY <1>2
  <2> USE DEF Upto
  <2>2. PICK a, b : a = k * MaxSideband /\ b = (k + 1) * MaxSideband
    OBVIOUS
  <2>3. a \in Nat /\ b = a + MaxSideband
    BY <2>1, <2>2, Multiples
  <2>4. b <= q * MaxSideband
    <3>1. k + 1 \in Nat
      BY <2>1
    <3> QED  BY <3>1, <2>2, <1>2, Multiples
  <2>5. k + 1 \in 1 .. q /\ (k + 1) - 1 = k
    BY <2>1, <1>2
  <2>6. PICK x : x = SubSeq(w, a + 1, b)
    OBVIOUS
  <2>7. F[k + 1] = x
    BY <2>2, <2>5, <2>6, <1>2
  <2>8. x \in Words
    BY <2>5, <2>7, <1>2
  <2>9. PICK gs : gs = SubSeq(F, 1, k)
    OBVIOUS
  <2>10. gs \in Seq(Words) /\ SubSeq(F, 1, k + 1) = Append(gs, x)
    <3>1. gs \in Seq(Words)
      BY <2>1, <2>9, <1>2
    <3>2. SubSeq(F, 1, k + 1) = gs \o <<F[k + 1]>>
      <4>1. 1 \in 1 .. Len(F) /\ k + 1 \in 1 .. Len(F) /\ (k + 1) - 1 = k
        BY <2>5, <1>2
      <4> QED  BY <4>1, <2>9, <1>2, SubSeqRecursiveSecond
    <3>3. gs \o <<x>> = Append(gs, x)
      BY <3>1, <2>8
    <3> QED  BY <3>1, <3>2, <3>3, <2>7
  <2>11. fs \o Append(gs, x) = Append(fs \o gs, x)
    BY <2>8, <2>10
  <2>12. /\ fs \o gs \in Seq(Words)
         /\ FlattenSeq(fs \o gs) = FlattenSeq(fs) \o SubSeq(w, 1, a)
    BY <2>1, <2>2, <2>9
  <2>13. FlattenSeq(Append(fs \o gs, x)) = FlattenSeq(fs \o gs) \o x
    BY <2>8, <2>12, FlattenAppend
  <2>14. SubSeq(w, 1, a) \o x = SubSeq(w, 1, b) /\ SubSeq(w, 1, a) \in Words
    <3>1. 1 \in 1 .. Len(w) + 1 /\ a \in 1 - 1 .. Len(w) /\ b \in a .. Len(w)
      BY <2>3, <2>4, <1>3
    <3>2. SubSeq(w, 1, a) \o SubSeq(w, a + 1, b) = SubSeq(w, 1, b)
      BY <3>1, ConcatAdjacentSubSeq DEF Words
    <3>3. SubSeq(w, 1, a) \in Words
      <4>1. a <= Len(w)
        BY <2>3, <2>4, <1>3
      <4> QED  BY <4>1, <2>3, BeginningIs
    <3> QED  BY <3>2, <3>3, <2>6
  <2>15. (FlattenSeq(fs) \o SubSeq(w, 1, a)) \o x = FlattenSeq(fs) \o (SubSeq(w, 1, a) \o x)
    BY <1>4, <2>8, <2>14, Associative
  <2>16. Append(fs \o gs, x) \in Seq(Words)
    BY <2>8, <2>12
  <2>17. FlattenSeq(Append(fs \o gs, x)) = FlattenSeq(fs) \o SubSeq(w, 1, b)
    BY <2>12, <2>13, <2>14, <2>15
  <2>18. fs \o SubSeq(F, 1, k + 1) = Append(fs \o gs, x)
    BY <2>10, <2>11
  <2> QED  BY <2>2, <2>16, <2>17, <2>18
<1>7. T = Nat
  <2>1. T \in SUBSET Nat
    OBVIOUS
  <2> HIDE DEF T
  <2> QED  BY <1>5, <1>6, <2>1, Counting
<1>8. Upto(q)
  <2>1. q \in T
    BY <1>2, <1>7
  <2> HIDE DEF Upto
  <2> QED  BY <2>1, <1>2
<1>9. SubSeq(F, 1, q) = F
  BY <1>2, SubSeqFull
<1> QED  BY <1>1, <1>8, <1>9

\* Writing in full frames and keeping the rest loses no word and moves none.
LEMMA FramesAndRest ==
    ASSUME NEW fs \in Seq(Words), NEW w \in Words
    PROVE  /\ fs \o Full(w) \in Seq(Words)
           /\ Remainder(w) \in Words /\ Len(Remainder(w)) < MaxSideband
           /\ FlattenSeq(fs \o Full(w)) \in Words
           /\ FlattenSeq(fs \o Full(w)) \o Remainder(w) = FlattenSeq(fs) \o w
<1>1. PICK a : a = (Len(w) \div MaxSideband) * MaxSideband
  OBVIOUS
<1>2. a \in Nat /\ a <= Len(w) /\ Len(w) < a + MaxSideband /\ Len(w) \in Nat /\ MaxSideband \in Nat \ {0}
  BY <1>1, Division, FormatConstants DEF Words
<1>3. /\ fs \o Full(w) \in Seq(Words)
      /\ FlattenSeq(fs \o Full(w)) = FlattenSeq(fs) \o SubSeq(w, 1, a)
  BY <1>1, FullJoins
<1>4. Remainder(w) = SubSeq(w, a + 1, Len(w))
  BY <1>1 DEF Remainder, From
<1>5. 1 \in 1 .. Len(w) + 1 /\ a \in 1 - 1 .. Len(w) /\ Len(w) \in a .. Len(w) /\ a + 1 \in 1 .. Len(w) + 1
  BY <1>2
<1>6. SubSeq(w, a + 1, Len(w)) \in Words /\ Len(SubSeq(w, a + 1, Len(w))) < MaxSideband
  BY <1>2, <1>5, SubSeqProperties DEF Words
<1>7. SubSeq(w, 1, a) \in Words
  BY <1>2, <1>5, SubSeqProperties DEF Words
<1>8. SubSeq(w, 1, a) \o SubSeq(w, a + 1, Len(w)) = w
  <2>1. SubSeq(w, 1, a) \o SubSeq(w, a + 1, Len(w)) = SubSeq(w, 1, Len(w))
    BY <1>5, ConcatAdjacentSubSeq DEF Words
  <2> QED  BY <2>1, SubSeqFull DEF Words
<1>9. FlattenSeq(fs) \in Words
  BY FlattenAppend, EmptySeq DEF Words
<1>10. (FlattenSeq(fs) \o SubSeq(w, 1, a)) \o SubSeq(w, a + 1, Len(w))
          = FlattenSeq(fs) \o (SubSeq(w, 1, a) \o SubSeq(w, a + 1, Len(w)))
  BY <1>6, <1>7, <1>9, Associative
<1>11. FlattenSeq(fs) \o SubSeq(w, 1, a) \in Words
  BY <1>7, <1>9 DEF Words
<1> QED  BY <1>3, <1>4, <1>6, <1>8, <1>10, <1>11

-----------------------------------------------------------------------------
(* The writer                                                              *)

StreamFields == {"framing", "at", "buf", "hashed", "frames"}

\* What the writer sent and what it still holds is what it hashed; what it
\* holds is less than a frame.
StreamInv ==
    /\ IsOn(stream, StreamFields)
    /\ stream.at \in {"open", "finished", "failed", "closed"}
    /\ stream.buf \in Words /\ stream.hashed \in Words /\ stream.frames \in Seq(Words)
    /\ Len(stream.buf) < MaxSideband
    /\ \A i \in DOMAIN stream.frames : Carries(stream.framing, stream.frames[i])
    /\ stream.at = "open" => FlattenSeq(stream.frames) \o stream.buf = stream.hashed
    /\ stream.at = "finished" => FlattenSeq(stream.frames) = stream.hashed \o DigestWords
    /\ stream.at \in {"failed", "closed"} => IsPrefix(FlattenSeq(stream.frames), stream.hashed)
    /\ stream.at = "failed" => Len(stream.hashed) - Len(FlattenSeq(stream.frames)) < MaxSideband

LEMMA FlattenNone == FlattenSeq(<<>>) = <<>>
BY DEF FlattenSeq

LEMMA StreamBegins == FInit => StreamInv
<1> SUFFICES ASSUME FInit PROVE StreamInv
  OBVIOUS
<1>1. PICK f : stream = NewStream(f)
  BY DEF FInit
<1>2. /\ IsOn(stream, StreamFields) /\ stream.at = "open"
      /\ stream.buf = <<>> /\ stream.hashed = <<>> /\ stream.frames = <<>>
  BY <1>1 DEF NewStream, IsOn, StreamFields
<1>3. <<>> \in Words /\ <<>> \in Seq(Words) /\ Len(<<>>) = 0 /\ DOMAIN <<>> = {} /\ <<>> \o <<>> = <<>>
  BY DEF Words
<1>4. 0 < MaxSideband
  BY FormatConstants
<1>5. FlattenSeq(stream.frames) \o stream.buf = stream.hashed
  BY <1>2, <1>3, FlattenNone
<1>6. \A i \in DOMAIN stream.frames : Carries(stream.framing, stream.frames[i])
  BY <1>2, <1>3
<1> QED  BY <1>2, <1>3, <1>4, <1>5, <1>6 DEF StreamInv

\* A beginning of a sequence.
LEMMA BeginningIsPrefix ==
    ASSUME NEW a \in Words, NEW b \in Words
    PROVE  IsPrefix(a, a \o b)
<1>1. Len(a) <= Len(a \o b)
  BY DEF Words
<1>2. SubSeq(a, 1, Len(a)) = SubSeq(a \o b, 1, Len(a))
  BY DEF Words
<1> QED  BY <1>1, <1>2 DEF IsPrefix

LEMMA LengthsAdd ==
    ASSUME NEW a \in Words, NEW b \in Words
    PROVE  Len(a \o b) = Len(a) + Len(b) /\ Len(a) \in Nat /\ Len(b) \in Nat
  BY DEF Words

LEMMA UpcomingIs ==
    ASSUME StreamInv, NEW n \in Nat
    PROVE  Upcoming(n) \in Words
<1>1. Len(stream.hashed) \in Nat
  BY DEF StreamInv, Words
<1>2. Upcoming(n) \in [1 .. n -> Nat]
  BY <1>1 DEF Upcoming
<1> QED  BY <1>2 DEF Words

\* Every frame of frames and of more is carried.
LEMMA CarriedTogether ==
    ASSUME NEW f, NEW fs \in Seq(Words), NEW gs \in Seq(Words),
           \A i \in DOMAIN fs : Carries(f, fs[i]), \A i \in DOMAIN gs : Carries(f, gs[i])
    PROVE  fs \o gs \in Seq(Words) /\ \A i \in DOMAIN (fs \o gs) : Carries(f, (fs \o gs)[i])
<1>1. fs \o gs \in Seq(Words) /\ Len(fs \o gs) = Len(fs) + Len(gs) /\ Len(fs) \in Nat /\ Len(gs) \in Nat
  OBVIOUS
<1>2. ASSUME NEW i \in DOMAIN (fs \o gs) PROVE Carries(f, (fs \o gs)[i])
  <2>1. i \in 1 .. Len(fs) + Len(gs)
    BY <1>1
  <2>2. CASE i <= Len(fs)
    <3>1. i \in DOMAIN fs /\ (fs \o gs)[i] = fs[i]
      BY <2>1, <2>2, <1>1
    <3> QED  BY <3>1
  <2>3. CASE i > Len(fs)
    <3>1. i - Len(fs) \in DOMAIN gs /\ (fs \o gs)[i] = gs[i - Len(fs)]
      BY <2>1, <2>3, <1>1
    <3> QED  BY <3>1
  <2> QED  BY <2>1, <2>2, <2>3, <1>1
<1> QED  BY <1>1, <1>2

LEMMA FullIsCarried ==
    ASSUME NEW f, NEW w \in Words
    PROVE  Full(w) \in Seq(Words) /\ \A i \in DOMAIN Full(w) : Carries(f, Full(w)[i])
<1>1. PICK F, q : F = Full(w) /\ q = Len(w) \div MaxSideband
  OBVIOUS
<1>2. F \in Seq(Words) /\ Len(F) = q /\ q \in Nat /\ \A i \in 1 .. q : Len(F[i]) = MaxSideband
  BY <1>1, FullIs
<1>3. MaxSideband \in 1 .. MaxSideband
  BY FormatConstants
<1>4. DOMAIN F = 1 .. q
  BY <1>2
<1> QED  BY <1>1, <1>2, <1>3, <1>4 DEF Carries

LEMMA OneCarried ==
    ASSUME NEW f, NEW x \in Words, Carries(f, x)
    PROVE  <<x>> \in Seq(Words) /\ \A i \in DOMAIN <<x>> : Carries(f, <<x>>[i])
<1>1. DOMAIN <<x>> = {1} /\ <<x>>[1] = x
  OBVIOUS
<1> QED  BY <1>1

\* What a write makes of an open writer: its new words behind what it held.
LEMMA Written ==
    ASSUME StreamInv, stream.at = "open", NEW new \in Words, NEW buf \in Words, NEW more \in Seq(Words),
           Len(buf) < MaxSideband, \A i \in DOMAIN more : Carries(stream.framing, more[i]),
           FlattenSeq(stream.frames \o more) \o buf = FlattenSeq(stream.frames) \o (stream.buf \o new),
           stream' = [stream EXCEPT !.hashed = @ \o new, !.buf = buf, !.frames = @ \o more]
    PROVE  StreamInv'
<1>1. /\ IsOn(stream, StreamFields) /\ stream.buf \in Words /\ stream.hashed \in Words /\ stream.frames \in Seq(Words)
      /\ \A i \in DOMAIN stream.frames : Carries(stream.framing, stream.frames[i])
      /\ FlattenSeq(stream.frames) \o stream.buf = stream.hashed
  BY DEF StreamInv
<1>2. /\ IsOn(stream', StreamFields) /\ stream'.at = "open" /\ stream'.framing = stream.framing
      /\ stream'.buf = buf /\ stream'.hashed = stream.hashed \o new /\ stream'.frames = stream.frames \o more
  <2>1. IsOn(stream, StreamFields) /\ stream.at = "open"
    BY <1>1
  <2> QED  BY <2>1 DEF IsOn, StreamFields
<1>3. stream.frames \o more \in Seq(Words) /\ \A i \in DOMAIN (stream.frames \o more) : Carries(stream.framing, (stream.frames \o more)[i])
  BY <1>1, CarriedTogether
<1>4. stream.hashed \o new \in Words
  BY <1>1 DEF Words
<1>5. FlattenSeq(stream.frames) \in Words
  BY <1>1, FlattenAppend, EmptySeq DEF Words
<1>6. FlattenSeq(stream.frames) \o (stream.buf \o new) = stream.hashed \o new
  <2>1. (FlattenSeq(stream.frames) \o stream.buf) \o new = FlattenSeq(stream.frames) \o (stream.buf \o new)
    BY <1>1, <1>5, Associative
  <2> QED  BY <2>1, <1>1
<1>7. FlattenSeq(stream'.frames) \o stream'.buf = stream'.hashed
  BY <1>2, <1>6
<1>8. \A i \in DOMAIN stream'.frames : Carries(stream'.framing, stream'.frames[i])
  BY <1>2, <1>3
<1> QED  BY <1>2, <1>3, <1>4, <1>7, <1>8 DEF StreamInv

LEMMA FramesAssociative ==
    ASSUME NEW a \in Seq(Words), NEW b \in Seq(Words), NEW c \in Seq(Words)
    PROVE  a \o (b \o c) = (a \o b) \o c
OBVIOUS

LEMMA WriteKeeps ==
    ASSUME StreamInv, NEW n \in Nat, StreamWrite(n)
    PROVE  StreamInv'
<1>1. PICK new, all : new = Upcoming(n) /\ all = stream.buf \o new
  OBVIOUS
<1>2. new \in Words /\ stream.buf \in Words /\ stream.frames \in Seq(Words)
  BY <1>1, UpcomingIs DEF StreamInv
<1>3. all \in Words
  BY <1>1, <1>2 DEF Words
<1>4. stream.at = "open" /\ stream' = [stream EXCEPT !.hashed = @ \o new, !.buf = Remainder(all), !.frames = @ \o Full(all)]
  BY <1>1 DEF StreamWrite
<1>5. /\ Remainder(all) \in Words /\ Len(Remainder(all)) < MaxSideband
      /\ FlattenSeq(stream.frames \o Full(all)) \o Remainder(all) = FlattenSeq(stream.frames) \o all
  BY <1>2, <1>3, FramesAndRest
<1>6. Full(all) \in Seq(Words) /\ \A i \in DOMAIN Full(all) : Carries(stream.framing, Full(all)[i])
  BY <1>3, FullIsCarried
<1> QED  BY <1>1, <1>2, <1>4, <1>5, <1>6, Written

\* What is buffered is a frame, because it is less than one and not nothing.
LEMMA WriteBytesKeeps ==
    ASSUME StreamInv, NEW n \in Nat, StreamWriteBytes(n)
    PROVE  StreamInv'
<1>1. PICK new : new = Upcoming(n)
  OBVIOUS
<1>2. new \in Words /\ stream.buf \in Words /\ stream.frames \in Seq(Words) /\ Len(stream.buf) < MaxSideband
  BY <1>1, UpcomingIs DEF StreamInv
<1>3. PICK first : first = IF stream.buf = <<>> THEN <<>> ELSE <<stream.buf>>
  OBVIOUS
<1>4. stream.at = "open" /\ stream' = [stream EXCEPT !.hashed = @ \o new, !.buf = Remainder(new), !.frames = @ \o (first \o Full(new))]
  <2>1. OwnedFrames(stream.buf, new).buf = Remainder(new) /\ OwnedFrames(stream.buf, new).frames = first \o Full(new)
    BY <1>3 DEF OwnedFrames
  <2>2. stream.at = "open" /\ stream' = [stream EXCEPT !.hashed = @ \o new, !.buf = OwnedFrames(stream.buf, new).buf, !.frames = @ \o OwnedFrames(stream.buf, new).frames]
    BY <1>1 DEF StreamWriteBytes
  <2> QED  BY <2>1, <2>2
<1>5. first \in Seq(Words) /\ \A i \in DOMAIN first : Carries(stream.framing, first[i])
  <2>1. CASE stream.buf = <<>>
    <3>1. first = <<>> /\ <<>> \in Seq(Words) /\ DOMAIN <<>> = {}
      BY <2>1, <1>3
    <3> QED  BY <3>1
  <2>2. CASE stream.buf # <<>>
    <3>1. Len(stream.buf) \in 1 .. MaxSideband
      BY <2>2, <1>2, FormatConstants DEF Words
    <3>2. Carries(stream.framing, stream.buf)
      BY <3>1 DEF Carries
    <3> QED  BY <2>2, <3>2, <1>2, <1>3, OneCarried
  <2> QED  BY <2>1, <2>2
<1>6. Full(new) \in Seq(Words) /\ \A i \in DOMAIN Full(new) : Carries(stream.framing, Full(new)[i])
  BY <1>2, FullIsCarried
<1>7. first \o Full(new) \in Seq(Words) /\ \A i \in DOMAIN (first \o Full(new)) : Carries(stream.framing, (first \o Full(new))[i])
  BY <1>5, <1>6, CarriedTogether
<1>8. stream.frames \o first \in Seq(Words) /\ FlattenSeq(stream.frames \o first) = FlattenSeq(stream.frames) \o stream.buf
  <2>1. CASE stream.buf = <<>>
    <3>1. FlattenSeq(stream.frames) \in Words
      BY <1>2, FlattenAppend
    <3>2. stream.frames \o <<>> = stream.frames /\ FlattenSeq(stream.frames) \o <<>> = FlattenSeq(stream.frames)
      BY <3>1, <1>2 DEF Words
    <3> QED  BY <2>1, <3>2, <1>2, <1>3
  <2>2. CASE stream.buf # <<>>
    <3>1. stream.frames \o <<stream.buf>> = Append(stream.frames, stream.buf) /\ Append(stream.frames, stream.buf) \in Seq(Words)
      BY <1>2
    <3> QED  BY <2>2, <3>1, <1>2, <1>3, FlattenAppend
  <2> QED  BY <2>1, <2>2
<1>9. stream.frames \o (first \o Full(new)) = (stream.frames \o first) \o Full(new)
  BY <1>2, <1>5, <1>6, FramesAssociative
<1>10. /\ Remainder(new) \in Words /\ Len(Remainder(new)) < MaxSideband
       /\ FlattenSeq((stream.frames \o first) \o Full(new)) \o Remainder(new) = FlattenSeq(stream.frames \o first) \o new
  BY <1>2, <1>8, FramesAndRest
<1>11. FlattenSeq(stream.frames) \in Words
  BY <1>2, FlattenAppend
<1>12. (FlattenSeq(stream.frames) \o stream.buf) \o new = FlattenSeq(stream.frames) \o (stream.buf \o new)
  BY <1>2, <1>11, Associative
<1>13. FlattenSeq(stream.frames \o (first \o Full(new))) \o Remainder(new) = FlattenSeq(stream.frames) \o (stream.buf \o new)
  BY <1>8, <1>9, <1>10, <1>12
<1> QED  BY <1>2, <1>4, <1>7, <1>10, <1>13, Written

LEMMA FinishKeeps ==
    ASSUME StreamInv, StreamFinish
    PROVE  StreamInv'
<1>1. PICK chunk, all : chunk = stream.buf \o DigestWords /\ all = FlattenSeq(stream.frames)
  OBVIOUS
<1>2. /\ IsOn(stream, StreamFields) /\ stream.at = "open" /\ stream.buf \in Words /\ stream.hashed \in Words
      /\ stream.frames \in Seq(Words) /\ all \o stream.buf = stream.hashed /\ Len(stream.buf) < MaxSideband
      /\ \A i \in DOMAIN stream.frames : Carries(stream.framing, stream.frames[i])
  BY <1>1 DEF StreamInv, StreamFinish
<1>3. DigestWords \in Words
  <2>1. DigestWords \in [1 .. Digest -> Nat] /\ Digest \in Nat
    BY FormatConstants DEF DigestWords
  <2> QED  BY <2>1 DEF Words
<1>4. chunk \in Words /\ all \in Words
  BY <1>1, <1>2, <1>3, FlattenAppend DEF Words
<1>5. <<>> \in Words /\ Len(<<>>) < MaxSideband
  BY FormatConstants DEF Words
<1>6. CASE Carries(stream.framing, chunk)
  <2>1. stream' = [stream EXCEPT !.at = "finished", !.buf = <<>>, !.frames = Append(@, chunk)]
    BY <1>1, <1>6 DEF StreamFinish
  <2>2. /\ IsOn(stream', StreamFields) /\ stream'.at = "finished" /\ stream'.framing = stream.framing
        /\ stream'.buf = <<>> /\ stream'.hashed = stream.hashed /\ stream'.frames = Append(stream.frames, chunk)
    BY <2>1, <1>2 DEF IsOn, StreamFields
  <2>3. Append(stream.frames, chunk) = stream.frames \o <<chunk>>
    BY <1>2, <1>4
  <2>4. /\ stream.frames \o <<chunk>> \in Seq(Words)
        /\ \A i \in DOMAIN (stream.frames \o <<chunk>>) : Carries(stream.framing, (stream.frames \o <<chunk>>)[i])
    BY <1>2, <1>4, <1>6, OneCarried, CarriedTogether
  <2>5. FlattenSeq(Append(stream.frames, chunk)) = all \o chunk
    BY <1>1, <1>2, <1>4, FlattenAppend
  <2>6. all \o chunk = stream.hashed \o DigestWords
    <3>1. (all \o stream.buf) \o DigestWords = all \o (stream.buf \o DigestWords)
      BY <1>2, <1>3, <1>4, Associative, Zenon
    <3> QED  BY <3>1, <1>1, <1>2
  <2>7. \A i \in DOMAIN stream'.frames : Carries(stream'.framing, stream'.frames[i])
    BY <2>2, <2>3, <2>4
  <2>8. FlattenSeq(stream'.frames) = stream'.hashed \o DigestWords
    BY <2>2, <2>5, <2>6
  <2>9. stream'.frames \in Seq(Words)
    BY <2>2, <2>3, <2>4
  <2> QED  BY <2>2, <2>7, <2>8, <2>9, <1>2, <1>5 DEF StreamInv, DigestWords
<1>7. CASE ~ Carries(stream.framing, chunk)
  <2>1. stream' = [stream EXCEPT !.at = "failed", !.buf = <<>>]
    BY <1>1, <1>7 DEF StreamFinish
  <2>2. /\ IsOn(stream', StreamFields) /\ stream'.at = "failed" /\ stream'.framing = stream.framing
        /\ stream'.buf = <<>> /\ stream'.hashed = stream.hashed /\ stream'.frames = stream.frames
    BY <2>1, <1>2 DEF IsOn, StreamFields
  <2>3. IsPrefix(all, stream.hashed)
    BY <1>2, <1>4, BeginningIsPrefix
  <2>4. IsPrefix(FlattenSeq(stream'.frames), stream'.hashed)
    BY <2>2, <2>3, <1>1
  <2>5. Len(stream.hashed) - Len(all) < MaxSideband
    <3>1. Len(all \o stream.buf) = Len(all) + Len(stream.buf) /\ Len(all) \in Nat /\ Len(stream.buf) \in Nat
      BY <1>2, <1>4, LengthsAdd
    <3>2. MaxSideband \in Nat
      BY FormatConstants
    <3> QED  BY <3>1, <3>2, <1>2
  <2>6. Len(stream'.hashed) - Len(FlattenSeq(stream'.frames)) < MaxSideband
    BY <2>2, <2>5, <1>1
  <2> QED  BY <2>2, <2>4, <2>6, <1>2, <1>5 DEF StreamInv
<1> QED  BY <1>6, <1>7

LEMMA ClosesKeeps ==
    ASSUME StreamInv, StreamCloses
    PROVE  StreamInv'
<1>1. /\ IsOn(stream, StreamFields) /\ stream.at = "open" /\ stream.buf \in Words /\ stream.hashed \in Words
      /\ stream.frames \in Seq(Words) /\ FlattenSeq(stream.frames) \o stream.buf = stream.hashed
      /\ \A i \in DOMAIN stream.frames : Carries(stream.framing, stream.frames[i])
  BY DEF StreamInv, StreamCloses
<1>2. FlattenSeq(stream.frames) \in Words
  BY <1>1, FlattenAppend, EmptySeq DEF Words
<1>3. <<>> \in Words /\ Len(<<>>) < MaxSideband
  BY FormatConstants DEF Words
<1>4. /\ IsOn(stream', StreamFields) /\ stream'.at = "closed" /\ stream'.framing = stream.framing
      /\ stream'.buf = <<>> /\ stream'.hashed = stream.hashed /\ stream'.frames = stream.frames
  BY <1>1 DEF IsOn, StreamFields, StreamCloses
<1>5. IsPrefix(FlattenSeq(stream'.frames), stream'.hashed)
  BY <1>1, <1>2, <1>4, BeginningIsPrefix
<1> QED  BY <1>1, <1>3, <1>4, <1>5 DEF StreamInv

LEMMA StreamStays ==
    ASSUME StreamInv, stream' = stream
    PROVE  StreamInv'
BY Zenon DEF StreamInv, DigestWords

LEMMA StreamStep == StreamInv /\ [FNext]_fvars => StreamInv'
<1> SUFFICES ASSUME StreamInv, [FNext]_fvars PROVE StreamInv'
  OBVIOUS
<1>1. 1 .. (2 * MaxSideband) \subseteq Nat
  BY FormatConstants
<1>2. CASE stream' = stream
  BY <1>2, StreamStays
<1>3. CASE \E n \in Nat : StreamWrite(n) \/ StreamWriteBytes(n)
  BY <1>3, WriteKeeps, WriteBytesKeeps
<1> QED  BY <1>1, <1>2, <1>3, FinishKeeps, ClosesKeeps DEF FNext, fvars, Probe

\* What a PackWriter sends is what it was given, in order, in frames a pkt-line
\* carries, whatever the sizes of the writes and whichever of write and
\* write_bytes (proto/src/pack.rs) they come through; a finished pack is all of
\* it and the digest, and one whose last frame failed lacks less than a frame.
THEOREM PackStreamsExact == FSpec => []PackStreamsAreExact
<1>1. FSpec => []StreamInv
  BY StreamBegins, StreamStep, PTL DEF FSpec
<1>2. StreamInv => PackStreamsAreExact
  BY DEF StreamInv, PackStreamsAreExact
<1> QED  BY <1>1, <1>2, PTL
=============================================================================
