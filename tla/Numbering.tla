------------------------------ MODULE Numbering ------------------------------
(* What a push records of its trees and blobs, and under which numbers       *)
(* (git/ingest/append.rs).  Every oid a commit, a tree or a delta names is   *)
(* written as a number, and a number says nothing of whether the object is   *)
(* held: it may belong to a push that never finished.  Most numbers are read *)
(* once, before promotion, and are stale by the time they are used.          *)
(*                                                                           *)
(* An index entry is a set of facts that only grows (Indexes, Segments), so  *)
(* the indexes are sets of facts here.  Tags have no entry and are in Push.  *)
EXTENDS Naturals, FiniteSets

CONSTANTS
    KindOf,             \* object -> "commit", "tree" or "blob"
    Links,              \* commit -> its root tree; tree -> its entries
    Forebears,          \* commit -> its parents
    Brings,             \* writer -> commit -> object in its image -> base
    NoBase,             \* no delta
    MaxAppendAttempts   \* MAX_APPEND_ATTEMPTS

Everything == DOMAIN KindOf
Writers == DOMAIN Brings

Brought(w) == DOMAIN Brings[w]
Carried(w) == UNION {DOMAIN Brings[w][c] : c \in Brought(w)}

\* Of git's objects: a commit has one root tree, a blob names nothing.
ASSUME LinksAssumption ==
    /\ IsFiniteSet(Everything) /\ KindOf \in [Everything -> {"commit", "tree", "blob"}]
    /\ Links \in [Everything -> SUBSET {o \in Everything : KindOf[o] # "commit"}]
    /\ \A o \in Everything :
          /\ KindOf[o] = "commit" => \E r \in Everything : KindOf[r] = "tree" /\ Links[o] = {r}
          /\ KindOf[o] = "blob" => Links[o] = {}
    /\ Forebears \in [Everything -> SUBSET {o \in Everything : KindOf[o] = "commit"}]
    /\ NoBase \notin Everything /\ MaxAppendAttempts \in Nat \ {0}

\* Of a push: an image holds objects its commit's tree reaches, and a delta is
\* of its base's kind.
ASSUME ImagesAssumption ==
    \A w \in Writers : \A c \in Brought(w) :
       /\ c \in Everything /\ KindOf[c] = "commit"
       /\ \A o \in DOMAIN Brings[w][c] :
             /\ o \in Everything /\ KindOf[o] # "commit"
             /\ Brings[w][c][o] \in {NoBase} \union {b \in Everything : KindOf[b] = KindOf[o]}
       /\ \A S \in SUBSET Everything :
             Links[c] \subseteq S /\ (\A o \in S : Links[o] \subseteq S) => DOMAIN Brings[w][c] \subseteq S

VARIABLES
    number,     \* object -> its number (object_seqs), 0 for none
    counter,    \* kind -> the next number to hand out (repo_object_seq)
    located,    \* object index: where an object is, and against which base
    entries,    \* object index: what a tree contains
    packed,     \* commit index: a commit, its root, its parents, its image
    append      \* writer -> its push

nvars == <<number, counter, located, entries, packed, append>>

Idle0 == [phase |-> "idle"]
Over0(how) == [phase |-> how]

\* "The pair is the number, and neither half is one alone."
Id(o, seq) == <<KindOf[o], seq>>

InGraph(seq) == \E e \in packed : e.commit = seq

\* is_stored of a tree or a blob: it has a location.
IsHeld(id) == \E l \in located : l.of = id

-----------------------------------------------------------------------------
(* Before promotion                                                        *)

\* The bases of a push's deltas, which the plan of its deltas has read.
Against(w) ==
    {b \in Everything : \E c \in Brought(w) : \E o \in DOMAIN Brings[w][c] : Brings[w][c][o] = b}

\* The trees and blobs a push names, and those of them it does not bring.
LinkedTo(w) == UNION {Links[o] : o \in Brought(w) \union Carried(w)}
Elsewhere(w) == (LinkedTo(w) \union Against(w)) \ Carried(w)

Parents(S) == UNION {Forebears[c] : c \in S}

\* What the push names and does not bring is held (check_connectivity).
Linked(w) ==
    /\ \A q \in Parents(Brought(w)) \ Brought(w) : number[q] # 0 /\ InGraph(number[q])
    /\ \A x \in Elsewhere(w) : number[x] # 0 /\ IsHeld(Id(x, number[x]))

\* Every oid the plan will ask about, except a delta's base.
Asked(w) == Brought(w) \union Parents(Brought(w)) \union LinkedTo(w)

PrefetchIdentities(w) ==
    /\ append[w] = Idle0 /\ Linked(w)
    /\ append' = [append EXCEPT ![w] =
         [phase |-> "promoted", known |-> [o \in Asked(w) |-> number[o]], attempt |-> 1]]
    /\ UNCHANGED <<number, counter, located, entries, packed>>

-----------------------------------------------------------------------------
(* One attempt                                                             *)

Covers(w, o) == o \in DOMAIN append[w].known

\* A block of new numbers of one kind; a parent's comes before its child's.
Handed(k, S) ==
    {f \in [S -> counter[k] .. counter[k] + Cardinality(S) - 1] :
        /\ \A x, y \in S : x # y => f[x] # f[y]
        /\ \A c \in S : \A q \in Forebears[c] \intersect S : f[q] < f[c]}

\* Commits that are numbered and in the graph are left out.
PlanCommits(w) ==
    LET a == append[w]
        named == Brought(w) \union Parents(Brought(w))
        seqs == [c \in named |-> IF Covers(w, c) THEN a.known[c] ELSE number[c]]
        insert == {c \in Brought(w) : seqs[c] = 0 \/ ~ InGraph(seqs[c])}
        taking == {c \in insert : seqs[c] = 0}
    IN  /\ a.phase = "promoted"
        /\ \E f \in Handed("commit", taking) :
             append' = [append EXCEPT ![w] =
                [phase |-> "planned", known |-> a.known, attempt |-> a.attempt, insert |-> insert,
                 here |-> taking, seqOf |-> [c \in named |-> IF c \in taking THEN f[c] ELSE seqs[c]]]]
        /\ counter' = [counter EXCEPT !["commit"] = @ + Cardinality(taking)]
        /\ UNCHANGED <<number, located, entries, packed>>

\* Only objects of images this push records: another's image has its own.
Relevant(w) == UNION {DOMAIN Brings[w][c] : c \in append[w].insert}
Bases(w) ==
    {b \in Everything : \E c \in append[w].insert : \E o \in DOMAIN Brings[w][c] : Brings[w][c][o] = b}
Named(w) ==
    Relevant(w) \union Bases(w) \union UNION {Links[o] : o \in Relevant(w) \union append[w].insert}

\* An absence read earlier is good enough for an object this push would
\* number, since the race is noticed then, and for no other.
Trusted(w, o) == Covers(w, o) /\ (append[w].known[o] # 0 \/ o \in Relevant(w))

ResolveObjects(w) ==
    LET a == append[w]
        found == [o \in Named(w) |-> IF Trusted(w, o) THEN a.known[o] ELSE number[o]]
    IN  /\ a.phase = "planned"
        /\ append' = [append EXCEPT ![w].phase = "resolved",
              ![w].seqOf = [o \in DOMAIN a.seqOf \union Named(w) |->
                               IF o \in Named(w) THEN found[o] ELSE a.seqOf[o]]]
        /\ UNCHANGED <<number, counter, located, entries, packed>>

\* A parent, a root, a tree's entry or a base that has no number.
Unresolved(w, seqOf, fresh) ==
    \/ \E c \in append[w].insert : \E q \in Forebears[c] \union Links[c] : seqOf[q] = 0
    \/ \E t \in fresh : \E x \in Links[t] : seqOf[x] = 0
    \/ \E b \in Bases(w) : seqOf[b] = 0

\* Mutant: a number is taken for the object being held.
FreshUnnumbered(w) == {o \in Relevant(w) : append[w].seqOf[o] = 0}

\* What the index does not hold yet, asked before anything is numbered.
Fresh(w) == {o \in Relevant(w) : ~ IsHeld(Id(o, append[w].seqOf[o]))}

AllocateObjects(w) ==
    LET a == append[w]
        missing == {o \in Relevant(w) : a.seqOf[o] = 0}
        taken(k) == {o \in missing : KindOf[o] = k}
    IN  /\ a.phase = "resolved"
        /\ \E f \in Handed("tree", taken("tree")), g \in Handed("blob", taken("blob")) :
             LET seqOf == [o \in DOMAIN a.seqOf |-> IF o \in DOMAIN f THEN f[o]
                                                    ELSE IF o \in DOMAIN g THEN g[o] ELSE a.seqOf[o]]
             IN  append' = [append EXCEPT ![w] =
                    IF Unresolved(w, seqOf, Fresh(w)) THEN Over0("stranded")
                    ELSE [phase |-> "allocated", attempt |-> a.attempt, insert |-> a.insert,
                          here |-> a.here \union missing, seqOf |-> seqOf, fresh |-> Fresh(w)]]
        /\ counter' = [k \in DOMAIN counter |-> counter[k] + Cardinality(taken(k))]
        /\ UNCHANGED <<number, located, entries, packed>>

\* ranks_of: the parents outside the push are read from the graph.
Rank(w) ==
    LET a == append[w]
        outside == Parents(a.insert) \ a.insert
    IN  /\ a.phase = "allocated"
        /\ append' = [append EXCEPT ![w] =
              IF \A q \in outside : InGraph(a.seqOf[q]) THEN [@ EXCEPT !.phase = "ranked"]
              ELSE Over0("stranded")]
        /\ UNCHANGED <<number, counter, located, entries, packed>>

\* ids.record: all the names or, if another push was first to one, none, and
\* the next attempt trusts nothing it read before.
RecordNames(w) ==
    LET a == append[w]
        raced == \E o \in a.here : number[o] # 0
        again == [phase |-> "promoted", known |-> <<>>, attempt |-> a.attempt + 1]
    IN  /\ a.phase = "ranked"
        /\ append' = [append EXCEPT ![w] =
              IF ~ raced THEN [@ EXCEPT !.phase = "numbered"]
              ELSE IF a.attempt < MaxAppendAttempts THEN again ELSE Over0("gave up")]
        /\ number' = [o \in Everything |-> IF ~ raced /\ o \in a.here THEN a.seqOf[o] ELSE number[o]]
        /\ UNCHANGED <<counter, located, entries, packed>>

-----------------------------------------------------------------------------
(* The journal                                                             *)

LocationsOf(w) ==
    LET a == append[w]
        base(b) == IF b = NoBase THEN 0 ELSE a.seqOf[b]
    IN  UNION {{[of |-> Id(o, a.seqOf[o]), pack |-> a.seqOf[c], base |-> base(Brings[w][c][o])]
                   : o \in DOMAIN Brings[w][c]} : c \in a.insert}

\* A tree that is held already gains locations and no entries.
ChildrenOf(w) ==
    LET a == append[w]
    IN  UNION {{[tree |-> a.seqOf[t], entry |-> Id(x, a.seqOf[x])] : x \in Links[t]} : t \in a.fresh}

BuildCommits(w) ==
    LET a == append[w]
    IN  {[commit |-> a.seqOf[c], parents |-> {a.seqOf[q] : q \in Forebears[c]},
          root |-> a.seqOf[CHOOSE r \in Links[c] : TRUE],
          holds |-> {Id(o, a.seqOf[o]) : o \in DOMAIN Brings[w][c]}] : c \in a.insert}

CommitJournal(w) ==
    /\ append[w].phase = "numbered"
    /\ located' = located \union LocationsOf(w)
    /\ entries' = entries \union ChildrenOf(w)
    /\ packed' = packed \union BuildCommits(w)
    /\ append' = [append EXCEPT ![w] = Over0("done")]
    /\ UNCHANGED <<number, counter>>

\* A writer whose process goes away takes no more steps: nothing here is fair,
\* so it may stop anywhere, and its numbers stay whether or not anything is
\* ever held under them.
NInit ==
    /\ number = [o \in Everything |-> 0]
    /\ counter = [k \in {"commit", "tree", "blob"} |-> 1]
    /\ located = {} /\ entries = {} /\ packed = {}
    /\ append = [w \in Writers |-> Idle0]

NNext ==
    \E w \in Writers :
        \/ PrefetchIdentities(w) \/ PlanCommits(w) \/ ResolveObjects(w) \/ AllocateObjects(w)
        \/ Rank(w) \/ RecordNames(w) \/ CommitJournal(w)

NSpec == NInit /\ [][NNext]_nvars

-----------------------------------------------------------------------------
(* Properties                                                              *)

\* Whatever pushes of the same objects do to each other, and wherever one of
\* them stops: every number in the indexes is of an object that is held and
\* is the one that was meant (a root, a parent, an entry of a tree, a base, a
\* member of an image), a tree that is held has all its entries, and no push
\* of connected objects fails for want of a number (append.rs plan_objects:
\* believing a stale absence "strands whatever named it, with nothing to
\* retry on").
NumbersResolve ==
    LET of(o) == Id(o, number[o])
    IN  /\ \A w \in Writers : append[w].phase # "stranded"
        /\ \A e \in packed : \E c \in Everything :
             /\ of(c) = <<"commit", e.commit>>
             /\ {<<"tree", e.root>>} = {of(r) : r \in Links[c]} /\ IsHeld(<<"tree", e.root>>)
             /\ e.parents = {number[q] : q \in Forebears[c]} /\ \A q \in e.parents : InGraph(q)
             /\ \A x \in e.holds : \E l \in located : l.of = x /\ l.pack = e.commit
        /\ \A t \in Everything : KindOf[t] = "tree" /\ IsHeld(of(t)) =>
             /\ {e.entry : e \in {f \in entries : f.tree = number[t]}} = {of(x) : x \in Links[t]}
             /\ \A x \in Links[t] : IsHeld(of(x))
        /\ \A l \in located : l.base # 0 => IsHeld(<<l.of[1], l.base>>)
=============================================================================
