----------------------------- MODULE MCRefStore -----------------------------
(* Two concurrent requests over a branch and a tag, with every             *)
(* shape of update: create, move, guarded and unguarded delete, a request  *)
(* of two refs in either order, and one ref updated twice.                 *)
EXTENDS RefStore

CONSTANTS A, B      \* object ids

head == 0
main == 1
tag == 2
shallow == 3

U(r, o, n) == [ref |-> r, old |-> o, new |-> n]

MCRefs == {head, main, tag, shallow}
MCInvalid == {head}
MCShallow == {shallow}
MCBranches == {main}
MCOids == {A, B}
MCRequests ==
    { <<U(main, Null, A), U(tag, Null, A)>>,
      <<U(tag, Null, B), U(main, Null, B), U(shallow, Null, B)>>,
      <<U(tag, A, B), U(head, Null, A), U(main, A, B)>>,
      <<U(main, A, Null), U(shallow, Null, Null), U(tag, A, Null)>>,
      <<U(main, A, B), U(main, B, A)>>,
      <<U(tag, Null, Null), U(main, B, A)>> }

=============================================================================
