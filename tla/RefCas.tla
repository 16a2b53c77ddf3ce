------------------------------- MODULE RefCas -------------------------------
(***************************************************************************)
(* What the ref store promises its callers, with no transactions in it.    *)
(*                                                                         *)
(* A repository's refs are one table from refname to object id.  A request *)
(* is a list of compare-and-set updates.  When a request lands, every ref  *)
(* it changes held, at that very instant, the value one of the request's   *)
(* updates expected, and ends at a value the request asked for.  Updates   *)
(* of one request land together; each is granted or refused on its own.    *)
(***************************************************************************)
EXTENDS Naturals, Sequences

CONSTANTS
    Refs,       \* refnames; naturals, so that they have the order of names
    Branches,   \* the refnames under refs/heads/
    Oids,       \* object ids
    Null,       \* the all-zero id: no such ref
    Requests    \* the update lists callers send

VARIABLES
    table,      \* the refs: refname -> object id, Null for a ref not there
    numbered    \* object ids that have a commit number (table object_seqs)

Values == Oids \union {Null}

\* An update expects the ref at u.old (Null: no such ref) and wants it at
\* u.new (Null: gone).  An unguarded delete (both Null) expects nothing.
Expects(u, value) == u.old = value \/ (u.old = Null /\ u.new = Null)

\* A branch may only be put on a commit that has been numbered.
Admissible(u) == u.ref \in Branches /\ u.new # Null => u.new \in numbered

Init ==
    /\ table = [r \in Refs |-> Null]
    /\ numbered = {}

\* A push or a call lands: every ref that changed was where it was expected.
Land ==
    /\ UNCHANGED numbered
    /\ table' \in [Refs -> Values]
    /\ \E q \in Requests : \A r \in Refs :
         table'[r] # table[r] =>
           \E i, j \in DOMAIN q :
             /\ q[i].ref = r /\ Expects(q[i], table[r])
             /\ q[j].ref = r /\ q[j].new = table'[r] /\ Admissible(q[j])

\* Numbers are only ever handed out.
Number ==
    /\ UNCHANGED table
    /\ numbered' \in SUBSET Oids
    /\ numbered \subseteq numbered'

Next == Land \/ Number

Spec == Init /\ [][Next]_<<table, numbered>>
=============================================================================
