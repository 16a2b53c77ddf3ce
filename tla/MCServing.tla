------------------------------ MODULE MCServing ------------------------------
(* What a repository answers with: fetches and pushes to a remote, the walks *)
(* over the commit graph, the calls of the service, the indexes they read    *)
(* and the formats they are written in.  One component moves in a behaviour. *)
EXTENDS Remote, Ancestry, Service, Indexes, MCFormats

-----------------------------------------------------------------------------
(* Histories of four commits: a line that reverts a file, a merge either way *)
(* round, two roots, a tag of a tag.                                         *)

One == "p" :> "a"
Two == ("p" :> "b") @@ ("q" :> "a")
Three == ("p" :> "a") @@ ("q" :> "b")

Lines == { <<<<>>, <<1>>, <<2>>, <<3>>>>, <<<<>>, <<1>>, <<1>>, <<2, 3>>>>,
           <<<<>>, <<1>>, <<1>>, <<3, 2>>>>, <<<<>>, <<>>, <<2, 1>>, <<3>>>> }

Snapshots == { <<One, Two, One, Three>>, <<One, Three, Two, Two>> }

MCHistories ==
    { [parents |-> l, snapshot |-> s, tags |-> ("t" :> Commit(2)) @@ ("u" :> Tag("t")),
       refs |-> ("HEAD" :> "main") @@ ("main" :> Commit(n)) @@ ("v" :> Tag("u"))]
        : l \in Lines, s \in Snapshots, n \in 3 .. 4 }

\* No line, one, one that is refused, and two.
MCDeepens == {{}, {1}, {2}, {3}, {0}, {1, 2}}
MCFilters == {{}, {"blob:none"}, {"tree:0"}}

Public == [scheme |-> "https", credentials |-> FALSE, query |-> FALSE, host |-> TRUE,
           addresses |-> {[block |-> "public"]}]
Spec3(s, d, f) == [source |-> s, destination |-> d, force |-> f]
MCRequests ==
    { [refs |-> s, atomic |-> a, url |-> Public] : a \in BOOLEAN,
      s \in { <<Spec3("main", "", FALSE)>>, <<Spec3("main", "side", FALSE), Spec3("v", "main", FALSE)>>,
              <<Spec3("v", "", FALSE), Spec3("main", "", TRUE)>>, <<Spec3("", "main", FALSE)>>,
              <<Spec3("main", "", FALSE), Spec3("v", "main", FALSE)>> } }
    \union { [refs |-> <<>>, atomic |-> FALSE, url |-> Public],
             [refs |-> <<Spec3("gone", "side", FALSE)>>, atomic |-> FALSE, url |-> Public] }
    \union { [refs |-> <<Spec3("main", "", FALSE)>>, atomic |-> FALSE, url |-> u] :
                u \in { [Public EXCEPT !.scheme = "http"], [Public EXCEPT !.credentials = TRUE],
                        [Public EXCEPT !.addresses = {[block |-> "public"], [block |-> "loopback"]}] } }
MCForeign == {{}, {1}, {2}, {3}}

-----------------------------------------------------------------------------
(* Keys of up to three characters, prefixes of and past them; trees that     *)
(* share, swap and lose subtrees; rows of three packs that overlap and touch.*)

MCAllKeys == {<<1>>, <<1, 1>>, <<1, 0, 1>>, <<1, 0, 2>>, <<1, 1, 1>>, <<2>>}
MCPrefixes == {<<>>, <<1>>, <<1, 0>>, <<1, 0, 1>>, <<3>>, <<1, 1, 1, 1>>}

\* A linguistic collation: letters first, punctuation only between strings
\* that have the same ones.  It makes ranges of the prefixes without any.
Letters(k) == SelectSeq(k, LAMBDA c : c # 0)
MCCollation ==
    {x \in Strings \X Strings :
        \/ Less(Letters(x[1]), Letters(x[2]))
        \/ Letters(x[1]) = Letters(x[2]) /\ Less(x[1], x[2])}

File(n, o) == [name |-> n, oid |-> o, is |-> "blob"]
Dir(n, o) == [name |-> n, oid |-> o, is |-> "tree"]
Module(n, o) == [name |-> n, oid |-> o, is |-> "link"]
MCShapes == {
  << {File(1, 8), Dir(2, 3), Dir(3, 4)}, {File(1, 8), Dir(2, 4), Dir(3, 3), Module(4, 9)}, {File(1, 8), File(2, 9)}, {File(1, 9)} >>,
  << {Dir(1, 3), File(2, 8)}, {File(1, 8), Dir(2, 3)}, {Dir(1, 4), File(2, 9)}, {File(1, 8), File(2, 8)} >>,
  << {Dir(1, 3), Dir(2, 3)}, {Dir(1, 3), Module(2, 3)}, {File(1, 8), File(2, 9), Module(3, 7)}, {} >>,
  << {}, {Dir(1, 4)}, {File(1, 8)}, {} >> }
MCPlacements == SUBSET {<<1, 0, 2>>, <<1, 1, 2>>, <<1, 2, 1>>, <<1, 4, 1>>, <<1, 5, 2>>, <<1, 8, 9>>, <<2, 0, 2>>, <<2, 3, 3>>}

\* Pushes that skip a seq or not, of one or two commits, that send an old
\* object along again or not.
MCPushShapes ==
    {[skipped |-> 0, two |-> TRUE, parents |-> "all", date |-> 998, delta |-> FALSE, again |-> FALSE],
     [skipped |-> 1, two |-> FALSE, parents |-> "last", date |-> 0, delta |-> TRUE, again |-> TRUE],
     [skipped |-> 0, two |-> FALSE, parents |-> "all", date |-> 0, delta |-> TRUE, again |-> FALSE]}

-----------------------------------------------------------------------------
VARIABLE side  \* the component that moves in this behaviour

mcvars == <<vars, remoteVars, avars, svars, ivars, fvars, side>>

\* A component that does not move stays in one of its initial states.
MCInit ==
    /\ side \in {"fetch", "remote", "ancestry", "service", "indexes", "formats"}
    /\ IF side \in {"fetch", "remote"}
       THEN /\ Init /\ (side = "remote" => client.has = {})
            /\ RemoteInit /\ (side = "fetch" => remote.refs = <<>>)
       ELSE /\ repo = CHOOSE h \in Histories : TRUE
            /\ recorded = {1}
            /\ client = [has |-> {}, shallow |-> {}, partial |-> FALSE, left |-> MaxFetches]
            /\ req = NoRequest /\ plan = NoPlan /\ push = NoPush
            /\ remote = [has |-> {}, refs |-> <<>>, moves |-> OthersMove]
    /\ IF side = "ancestry" THEN AInit
       ELSE parents = [c \in Commits |-> <<>>] /\ graphed = {} /\ walk = None
    /\ SInit /\ (side # "service" => keys = {})
    /\ IInit
    /\ FInit /\ (side # "formats" => stream = NewStream("raw"))

MCNext ==
    \/ side = "fetch" /\ Next /\ UNCHANGED <<remoteVars, avars, svars, ivars, fvars, side>>
    \/ side = "remote" /\ RemoteNext /\ UNCHANGED <<vars, avars, svars, ivars, fvars, side>>
    \/ side = "ancestry" /\ ANext /\ UNCHANGED <<vars, remoteVars, svars, ivars, fvars, side>>
    \/ side = "service" /\ SNext /\ UNCHANGED <<vars, remoteVars, avars, ivars, fvars, side>>
    \/ side = "indexes" /\ INext /\ UNCHANGED <<vars, remoteVars, avars, svars, fvars, side>>
    \/ side = "formats" /\ FNext /\ UNCHANGED <<vars, remoteVars, avars, svars, ivars, side>>

MCSpec == MCInit /\ [][MCNext]_mcvars
=============================================================================
