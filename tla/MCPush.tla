------------------------------- MODULE MCPush -------------------------------
(* A fork c1 <- c2, c1 <- c3 and an annotated tag of c2, pushed to a branch *)
(* and a tag ref in every shape of update.                                  *)
EXTENDS Push, TLC

CONSTANTS c1, c2, c3, t1, main, v1, head

MCCommits == {c1, c2, c3}
MCOids == MCCommits \union {t1}
MCDeps == (c1 :> {}) @@ (c2 :> {c1}) @@ (c3 :> {c1}) @@ (t1 :> {c2})

U(r, o, n) == [ref |-> r, old |-> o, new |-> n]
Offer(us, ps) == [updates |-> us, pack |-> ps]

MCRefs == {main, v1, head}
MCBranches == {main}
MCInvalid == {}
MCShallow == {head}

\* A first push, a second one that extends or forks it, a force push back, a
\* tag with its history, and a push every update of which is refused.
MCOffers ==
    { Offer({U(main, Null, c2)}, {c1, c2}),
      Offer({U(main, c2, c3), U(v1, Null, c3)}, {c3}),
      Offer({U(main, Null, c3), U(v1, Null, t1)}, {c1, c2, c3, t1}),
      Offer({U(main, c2, c1), U(v1, t1, Null), U(head, c1, Null)}, {}),
      Offer({U(main, Null, t1), U(head, Null, c1)}, {t1, c1}) }

MCCalls == { U(main, c3, c2), U(v1, Null, t1) }

\* A push of two refs, and one that moves a tag ref from where the first put it.
TagOffers ==
    { Offer({U(main, Null, c2), U(v1, Null, c1)}, {c1, c2}),
      Offer({U(v1, c1, c3)}, {c3}) }
TagCalls == { U(v1, c1, c2), U(v1, c2, c1) }
=============================================================================
