----------------------------- MODULE MCSegments -----------------------------
(* Three writes over three keys: one that needs an object, and two that      *)
(* record the same fact, so that a merge can be smaller than its inputs; a   *)
(* fanout of two.                                                            *)
EXTENDS Segments, TLC

CONSTANTS a, b, c, w1, w2, w3

MCValue == (w1 :> {a, b, c}) @@ (w2 :> {b}) @@ (w3 :> {b})
MCKeyOf == (a :> 0) @@ (b :> 1) @@ (c :> 2)
MCRanges == {[first |-> 1, last |-> 1]}
Symmetric == Permutations(Compactors) \union Permutations({w2, w3})
=============================================================================
