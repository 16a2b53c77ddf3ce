------------------------------ MODULE MCGather ------------------------------
(* Small buckets: a handful of segment ids, pushes of one or two commits.  *)
EXTENDS Gather, TLC

CONSTANTS c1, c2, c3, p1, p2, p3, p4

At(c, o) == [commit |-> c, off |-> o]

\* Every commit is pushed by one client.
CommitOf == (p1 :> c1) @@ (p2 :> c2) @@ (p3 :> c3)
OncePacks == [p \in {p1, p2, p3} |-> {At(CommitOf[p], 0)}]

\* A push and its commit change their names together.
Renamings ==
    {pi @@ [p \in Pushes |-> CHOOSE q \in Pushes : CommitOf[q] = pi[CommitOf[p]]]
       : pi \in Permutations(Commits)}


\* Two clients push c1.
RacingPacks ==
    (p1 :> {At(c1, 0)}) @@ (p2 :> {At(c1, 0)}) @@ (p3 :> {At(c2, 0)}) @@ (p4 :> {At(c3, 0)})

\* Reached when all four have uploaded, and planned before any of them wrote
\* its journal; then every journal but that of p2 was written.
RacingSegs == (p1 :> 1) @@ (p3 :> 2) @@ (p2 :> 3) @@ (p4 :> 4)

RaceInit ==
    LET Landed == {p1, p3, p4}
        At1(c) == IF \E p \in Landed : At(c, 0) \in PackOf[p]
                    THEN [seg |-> RacingSegs[CHOOSE p \in Landed : At(c, 0) \in PackOf[p]], off |-> 0]
                    ELSE Nowhere
    IN
    /\ bucket = 1 .. 4
    /\ content = [s \in Segs |-> UNION {PackOf[p] : p \in {q \in Pushes : RacingSegs[q] = s}}]
    /\ row = [s \in Segs |-> IF s \in {RacingSegs[p] : p \in Landed} THEN "live" ELSE "none"]
    /\ aged = {} /\ ripe = {}
    /\ packAt = [c \in Commits |-> At1(c)]
    /\ objectAt = packAt
    /\ push = [p \in Pushes |-> IF p \in Landed THEN "over" ELSE "planned"]
    /\ seg = RacingSegs
    /\ insert = [p \in Pushes |-> {x.commit : x \in PackOf[p]}]
    /\ gather = [g \in Gatherers |-> "idle"]
    /\ sources = [g \in Gatherers |-> {}]
    /\ into = [g \in Gatherers |-> 0]
    /\ images = [g \in Gatherers |-> [c \in Commits |-> Nowhere]]
    /\ places = images
    /\ sweep = "idle" /\ listed = {}
    /\ reading = [r \in Readers |-> Nowhere]

RaceSpec == RaceInit /\ [][Next]_vars
=============================================================================
