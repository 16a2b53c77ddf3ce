----------------------------- MODULE MCWorker ------------------------------
EXTENDS Promote, Handoff, Receive, MCIngest, Numbering, TLC

CONSTANTS p1, p2, p3, c1, c2, d1, d2, main, topic, funny

\* p1: three segments, the first with an image that starts an upload and one
\* that follows it; p2 and p3: one staged object in one segment each.
MCPlan ==
    p1 :> << [base |-> 0, len |-> 2, obj |-> 1], [base |-> 2, len |-> 1, obj |-> 2],
             [base |-> 0, len |-> 1, obj |-> 3], [base |-> 0, len |-> 1, obj |-> 0] >> @@
    p2 :> << [base |-> 0, len |-> 1, obj |-> 1] >> @@
    p3 :> << [base |-> 0, len |-> 1, obj |-> 1] >>

MCDays == {{p1}, {p2, p3}}

\* c1: a pack the call cannot hold, and refs it cannot hold either; c2: an
\* inline pack for another deployment's buckets behind the same function.
MCSize == c1 :> 4 @@ c2 :> 2
MCRefsSize == c1 :> 9 @@ c2 :> 3
MCDeployment ==
    c1 :> [database |-> d1, objects |-> d1, staging |-> d1] @@
    c2 :> [database |-> d1, objects |-> d1, staging |-> d2]

\* Command lines: a move, one with its capabilities late, a create, two refs
\* at once, one ref twice, a delete, a shallow push, a probe, a bad id.
Cmd(r, o, n, c) == [kind |-> "command", ref |-> r, old |-> o, new |-> n, caps |-> c]
Word(k) == [kind |-> k, caps |-> FALSE]
MCPushed ==
    { <<Cmd(main, 1, 2, TRUE)>>, <<Cmd(main, 1, 2, FALSE), Cmd(topic, 0, 2, TRUE)>>,
      <<Cmd(main, 1, 2, TRUE), Cmd(topic, 0, 1, FALSE)>>,
      <<Cmd(main, 1, 2, FALSE), Cmd(main, 2, 1, FALSE)>>,
      <<Cmd(main, 2, 1, TRUE), Cmd(topic, 1, 0, FALSE)>>,
      <<Word("shallow"), Cmd(main, 0, 2, TRUE)>>, <<Word("shallow")>>, <<Word("bad id")>> }

MCPaths ==
    [service : {"advertise", "push", "unnamed", "none"}, segments : {<<"name">>, <<>>}] \cup
    [service : {"push"}, segments : {<<"name", "dots">>}]

\* Two commits on one tree, and a child of one with a tree of its own, whose
\* objects are deltas on the first's: one writer brings a, one a and its child
\* b, one the unrelated d with the same tree.
MCKindOf ==
    [o \in {"a", "b", "d"} |-> "commit"] @@ [o \in {"r", "s"} |-> "tree"] @@
    [o \in {"x", "y"} |-> "blob"]
MCLinks ==
    "a" :> {"r"} @@ "b" :> {"s"} @@ "d" :> {"r"} @@ "r" :> {"x"} @@ "s" :> {"x", "y"} @@
    [o \in {"x", "y"} |-> {}]
MCForebears == "b" :> {"a"} @@ [o \in {"a", "d", "r", "s", "x", "y"} |-> {}]
WholeTree == "r" :> NoBase @@ "x" :> NoBase
MCBrings ==
    "w1" :> ("a" :> WholeTree) @@
    "w2" :> ("a" :> WholeTree @@ "b" :> ("s" :> "r" @@ "y" :> "x")) @@
    "w3" :> ("d" :> WholeTree)

VARIABLE side  \* the component that moves in this behaviour

mcvars == <<pvars, hvars, rvars, vars, nvars, side>>

\* A component that does not move stays in the first of its initial states.
Still ==
    /\ side # "promote" => disk = {} /\ phase[p1] = "idle"
    /\ side # "receive" => tips[main] = 0 /\ tips[topic] = 0
    /\ side # "ingest" => history = CHOOSE h \in Histories : TRUE

MCInit ==
    /\ PInit /\ HInit /\ RInit /\ Init /\ NInit
    /\ side \in {"promote", "handoff", "receive", "ingest", "numbering"}
    /\ Still

MCNext ==
    \/ side = "promote" /\ PNext /\ UNCHANGED <<hvars, rvars, vars, nvars, side>>
    \/ side = "handoff" /\ HNext /\ UNCHANGED <<pvars, rvars, vars, nvars, side>>
    \/ side = "receive" /\ RNext /\ UNCHANGED <<pvars, hvars, vars, nvars, side>>
    \/ side = "ingest" /\ Next /\ UNCHANGED <<pvars, hvars, rvars, nvars, side>>
    \/ side = "numbering" /\ NNext /\ UNCHANGED <<pvars, hvars, rvars, vars, side>>

MCSpec == MCInit /\ [][MCNext]_mcvars
===========================================================================
