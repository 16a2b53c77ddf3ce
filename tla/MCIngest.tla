------------------------------ MODULE MCIngest ------------------------------
(* Lines and forks of three commits over one or two paths: a file that is    *)
(* changed and changed back, one that is copied, branches and roots that     *)
(* meet in a blob.                                                           *)
EXTENDS Ingest

One(b) == <<b>>
MCHistories ==
    { [parents |-> <<<<>>, <<1>>, <<2>>>>, snapshot |-> <<One("a"), One("b"), One("a")>>],
      [parents |-> <<<<>>, <<1>>, <<1>>>>, snapshot |-> <<One("a"), One("b"), <<"b", "a">>>>],
      [parents |-> <<<<>>, <<>>, <<2, 1>>>>, snapshot |-> <<One("a"), One("b"), One("a")>>] }

\* Two roots that hold the same two blobs.
MCTwoRoots == { [parents |-> <<<<>>, <<>>>>, snapshot |-> <<<<"a", "b">>, <<"b", "a">>>>] }
=============================================================================
