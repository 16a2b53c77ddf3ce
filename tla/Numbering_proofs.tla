-------------------------- MODULE Numbering_proofs --------------------------
(***************************************************************************)
(* Proofs about Numbering, for any repository of objects, any pushes of    *)
(* them, any number of attempts, and pushes that stop anywhere.            *)
(*                                                                         *)
(* The invariant has four parts.  Numbers: one object of a kind has one,   *)
(* and those handed out and not yet recorded are nobody else's.  Each      *)
(* push: what it reads is stale only by being absent, and whatever it does *)
(* not bring, or brings in an image it will not record, is held.  The      *)
(* indexes: every fact in them is about numbered objects, and held trees   *)
(* and recorded commits are whole.  And no push is stranded.               *)
(***************************************************************************)
EXTENDS Numbering, FiniteSetTheorems, TLAPS

IsOn(f, S) == f = [x \in S |-> f[x]]

Knowing == {"promoted", "planned", "resolved"}
Unrecorded == {"planned", "resolved", "allocated", "ranked"}
Planned == Unrecorded \union {"numbered"}
Resolved == Planned \ {"planned"}
Allocated == Resolved \ {"resolved"}
Alive == Planned \union {"promoted"}

PlanFields == {"phase", "known", "attempt", "insert", "here", "seqOf"}
NamedFields == {"phase", "attempt", "insert", "here", "seqOf", "fresh"}

Kinds ==
    /\ IsOn(append, Writers)
    /\ \A w \in Writers :
          /\ append[w].phase \in {"planned", "resolved"} => IsOn(append[w], PlanFields)
          /\ append[w].phase \in {"allocated", "ranked"} => IsOn(append[w], NamedFields)

\* Numbers handed out that the table does not have yet.
Pending(w) == IF append[w].phase \in Unrecorded THEN append[w].here ELSE {}

NumbersOk ==
    /\ number \in [Everything -> Nat]
    /\ counter \in [{"commit", "tree", "blob"} -> Nat \ {0}]
    /\ \A x \in Everything : number[x] < counter[KindOf[x]]
    /\ \A x, y \in Everything :
          x # y /\ KindOf[x] = KindOf[y] /\ number[x] # 0 => number[x] # number[y]

ReservedOk ==
    \A w \in Writers : \A o \in Pending(w) :
       /\ o \in Everything
       /\ append[w].seqOf[o] \in Nat \ {0} /\ append[w].seqOf[o] < counter[KindOf[o]]
       /\ \A x \in Everything : KindOf[x] = KindOf[o] => number[x] # append[w].seqOf[o]
       /\ \A v \in Writers : \A x \in Pending(v) :
             KindOf[x] = KindOf[o] /\ (v # w \/ x # o) => append[v].seqOf[x] # append[w].seqOf[o]

\* An object with a number under which something is stored.
Holds(o) == number[o] # 0 /\ IsHeld(Id(o, number[o]))

Outside(w) == Parents(Brought(w)) \ Brought(w)
CommitsNamed(w) == Brought(w) \union Parents(Brought(w))

\* What was read early is true or is an absence, and no absence where the
\* plan takes the answer as it is.
KnownOk(w) ==
    append[w].phase \in Knowing =>
       \A o \in DOMAIN append[w].known :
          /\ o \in Everything /\ append[w].known[o] \in {0, number[o]}
          /\ o \in Outside(w) => append[w].known[o] # 0

\* A commit left out of the plan is in the graph; the others have a number.
PlanOk(w) ==
    append[w].phase \in Planned =>
       /\ append[w].insert \subseteq Brought(w)
       /\ \A c \in Brought(w) \ append[w].insert : number[c] # 0 /\ InGraph(number[c])
       /\ append[w].here \subseteq append[w].insert \union Relevant(w)
       /\ append[w].phase \in {"planned", "resolved"} => append[w].here \subseteq append[w].insert
       /\ \A c \in CommitsNamed(w) :
             /\ c \in DOMAIN append[w].seqOf /\ append[w].seqOf[c] # 0
             /\ append[w].seqOf[c] = number[c] \/ (c \in append[w].here /\ append[w].phase # "numbered")

\* An object named and not recorded by this push is held.
NamesOk(w) ==
    append[w].phase \in Resolved =>
       /\ \A o \in Named(w) : o \in DOMAIN append[w].seqOf
       /\ \A o \in Named(w) \ Relevant(w) : append[w].seqOf[o] = number[o] /\ Holds(o)
       /\ append[w].phase = "resolved" =>
             \A o \in Relevant(w) : append[w].seqOf[o] \in {0, number[o]}
       /\ append[w].phase \in Allocated =>
             \A o \in Relevant(w) :
                /\ append[w].seqOf[o] # 0
                /\ append[w].seqOf[o] = number[o] \/ (o \in append[w].here /\ append[w].phase # "numbered")

FreshOk(w) ==
    append[w].phase \in Allocated =>
       /\ append[w].fresh \subseteq Relevant(w)
       /\ \A o \in Relevant(w) \ append[w].fresh : Holds(o)

WriterOk(w) ==
    /\ append[w].phase # "stranded"
    /\ append[w].phase \in Alive => Linked(w)
    /\ KnownOk(w)
    /\ PlanOk(w)
    /\ NamesOk(w)
    /\ FreshOk(w)

\* What is located is a tree or a blob under its number, and so is its base.
LocatedOk ==
    \A l \in located :
       /\ \E o \in Everything : KindOf[o] # "commit" /\ number[o] # 0 /\ l.of = Id(o, number[o])
       /\ l.base # 0 => IsHeld(<<l.of[1], l.base>>)

EntriesOk ==
    \A e \in entries : \E t \in Everything : \E x \in Links[t] :
       /\ KindOf[t] = "tree" /\ number[t] # 0 /\ number[x] # 0
       /\ e.tree = number[t] /\ e.entry = Id(x, number[x])

TreesOk ==
    \A t \in Everything : KindOf[t] = "tree" /\ Holds(t) =>
       \A x \in Links[t] : Holds(x) /\ [tree |-> number[t], entry |-> Id(x, number[x])] \in entries

PackedOk ==
    \A e \in packed : \E c \in Everything :
       /\ KindOf[c] = "commit" /\ number[c] # 0 /\ e.commit = number[c]
       /\ \A r \in Links[c] : Holds(r) /\ e.root = number[r]
       /\ e.parents = {number[q] : q \in Forebears[c]}
       /\ \A q \in Forebears[c] : number[q] # 0 /\ InGraph(number[q])
       /\ \A x \in e.holds : \E l \in located : l.of = x /\ l.pack = e.commit

Facts == LocatedOk /\ EntriesOk /\ TreesOk /\ PackedOk

Inv ==
    /\ Kinds
    /\ NumbersOk
    /\ ReservedOk
    /\ Facts
    /\ \A w \in Writers : WriterOk(w)

-----------------------------------------------------------------------------
(* Objects and numbers.                                                    *)

LEMMA Objects ==
    /\ \A o \in Everything : KindOf[o] \in {"commit", "tree", "blob"}
    /\ \A o \in Everything : Links[o] \subseteq Everything /\ Forebears[o] \subseteq Everything
    /\ \A o \in Everything : \A x \in Links[o] : KindOf[x] # "commit"
    /\ \A o \in Everything : \A q \in Forebears[o] : KindOf[q] = "commit"
  BY LinksAssumption

LEMMA Pushed ==
    ASSUME NEW w \in Writers
    PROVE  /\ \A c \in Brought(w) : c \in Everything /\ KindOf[c] = "commit"
           /\ \A c \in CommitsNamed(w) : c \in Everything /\ KindOf[c] = "commit"
           /\ \A o \in Carried(w) : o \in Everything /\ KindOf[o] # "commit"
           /\ \A b \in Against(w) : b \in Everything /\ KindOf[b] # "commit"
<1>1. \A c \in Brought(w) : c \in Everything /\ KindOf[c] = "commit"
  BY ImagesAssumption
<1>2. \A c \in CommitsNamed(w) : c \in Everything /\ KindOf[c] = "commit"
  BY <1>1, Objects DEF CommitsNamed, Parents
<1>3. \A o \in Carried(w) : o \in Everything /\ KindOf[o] # "commit"
  BY ImagesAssumption DEF Carried
<1>4. ASSUME NEW b \in Against(w) PROVE b \in Everything /\ KindOf[b] # "commit"
  <2>1. PICK c \in Brought(w) : \E o \in DOMAIN Brings[w][c] : Brings[w][c][o] = b /\ b \in Everything
    BY <1>4 DEF Against
  <2>2. PICK o \in DOMAIN Brings[w][c] : Brings[w][c][o] = b /\ b \in Everything
    BY <2>1
  <2>3. /\ o \in Everything /\ KindOf[o] # "commit"
        /\ Brings[w][c][o] \in {NoBase} \union {d \in Everything : KindOf[d] = KindOf[o]}
    BY ImagesAssumption
  <2> QED  BY <2>2, <2>3, LinksAssumption
<1> QED  BY <1>1, <1>2, <1>3, <1>4

LEMMA LinkedToObjects ==
    ASSUME NEW w \in Writers
    PROVE  \A x \in LinkedTo(w) : x \in Everything /\ KindOf[x] # "commit"
<1>1. \A o \in Brought(w) \union Carried(w) : o \in Everything
  BY Pushed
<1> QED  BY <1>1, Objects DEF LinkedTo

\* What a plan names is of the push, or a link of it, or a base.
LEMMA NamedIsPushed ==
    ASSUME NEW w \in Writers, append[w].insert \subseteq Brought(w)
    PROVE  /\ Relevant(w) \subseteq Carried(w) /\ Bases(w) \subseteq Against(w)
           /\ Named(w) \subseteq Carried(w) \union Against(w) \union LinkedTo(w)
           /\ \A o \in Named(w) : o \in Everything /\ KindOf[o] # "commit"
           /\ \A c \in append[w].insert : Links[c] \subseteq Named(w)
           /\ \A o \in Relevant(w) : Links[o] \subseteq Named(w)
           /\ Relevant(w) \subseteq Named(w) /\ Bases(w) \subseteq Named(w)
<1>1. Relevant(w) \subseteq Carried(w)
  BY DEF Relevant, Carried
<1>2. Bases(w) \subseteq Against(w)
  BY DEF Bases, Against
<1>3. Named(w) \subseteq Carried(w) \union Against(w) \union LinkedTo(w)
  BY <1>1, <1>2 DEF Named, LinkedTo
<1>6. \A o \in Named(w) : o \in Everything /\ KindOf[o] # "commit"
  BY <1>3, LinkedToObjects, Pushed
<1>7. /\ \A c \in append[w].insert : Links[c] \subseteq Named(w)
      /\ \A o \in Relevant(w) : Links[o] \subseteq Named(w)
      /\ Relevant(w) \subseteq Named(w) /\ Bases(w) \subseteq Named(w)
  BY DEF Named
<1> QED  BY <1>1, <1>2, <1>3, <1>6, <1>7

\* What is held under a number is the object with that number.
LEMMA HeldIsNumbered ==
    ASSUME NumbersOk, LocatedOk, NEW t \in Everything, NEW n, IsHeld(<<KindOf[t], n>>)
    PROVE  \E o \in Everything : KindOf[o] = KindOf[t] /\ KindOf[o] # "commit" /\ n = number[o] /\ n # 0
<1>1. PICK l \in located : l.of = <<KindOf[t], n>>
  BY DEF IsHeld
<1>2. PICK o \in Everything : KindOf[o] # "commit" /\ number[o] # 0 /\ l.of = <<KindOf[o], number[o]>>
  BY <1>1 DEF LocatedOk, Id
<1> QED  BY <1>1, <1>2

\* A commit in the graph is the one with that number.
LEMMA GraphIsNumbered ==
    ASSUME NumbersOk, PackedOk, NEW c \in Everything, KindOf[c] = "commit", number[c] # 0,
           InGraph(number[c])
    PROVE  /\ \A r \in Links[c] : Holds(r)
           /\ \A q \in Forebears[c] : number[q] # 0 /\ InGraph(number[q])
<1>1. PICK e \in packed : e.commit = number[c]
  BY DEF InGraph
<1>2. PICK d \in Everything :
        /\ KindOf[d] = "commit" /\ number[d] # 0 /\ e.commit = number[d]
        /\ \A r \in Links[d] : Holds(r)
        /\ \A q \in Forebears[d] : number[q] # 0 /\ InGraph(number[q])
  BY DEF PackedOk
<1>3. d = c
  BY <1>1, <1>2 DEF NumbersOk
<1> QED  BY <1>2, <1>3

\* All that the image of a recorded commit would hold is held: the objects
\* that are held are closed under what they name.
LEMMA RecordedIsHeld ==
    ASSUME NumbersOk, Facts, NEW w \in Writers, NEW c \in Brought(w), number[c] # 0,
           InGraph(number[c])
    PROVE  \A o \in DOMAIN Brings[w][c] : Holds(o)
<1> DEFINE S == {o \in Everything : Holds(o)}
<1>1. c \in Everything /\ KindOf[c] = "commit"
  BY Pushed
<1>2. Links[c] \subseteq S
  BY <1>1, GraphIsNumbered, Objects DEF Facts
<1>3. ASSUME NEW o \in S PROVE Links[o] \subseteq S
  <2>1. o \in Everything /\ number[o] # 0 /\ IsHeld(<<KindOf[o], number[o]>>)
    BY <1>3 DEF Holds, Id
  <2>2. KindOf[o] # "commit"
    BY <2>1, HeldIsNumbered DEF Facts
  <2>3. CASE KindOf[o] = "tree"
    <3>1. \A x \in Links[o] : Holds(x)
      BY <1>3, <2>1, <2>3 DEF Facts, TreesOk
    <3> QED  BY <2>1, <3>1, Objects
  <2>4. CASE KindOf[o] = "blob"
    BY <2>1, <2>4, LinksAssumption
  <2> QED  BY <2>1, <2>2, <2>3, <2>4, Objects
<1>4. S \in SUBSET Everything
  OBVIOUS
<1> HIDE DEF S
<1>5. DOMAIN Brings[w][c] \subseteq S
  BY <1>2, <1>3, <1>4, ImagesAssumption
<1> QED  BY <1>5 DEF S

\* Whatever a plan names and does not itself record is held.
LEMMA UnrecordedIsHeld ==
    ASSUME NumbersOk, Facts, NEW w \in Writers, Linked(w), append[w].insert \subseteq Brought(w),
           \A c \in Brought(w) \ append[w].insert : number[c] # 0 /\ InGraph(number[c])
    PROVE  \A o \in Named(w) \ Relevant(w) : Holds(o)
<1> SUFFICES ASSUME NEW o \in Named(w), o \notin Relevant(w) PROVE Holds(o)
  OBVIOUS
<1>1. CASE o \in Carried(w)
  <2>1. PICK c \in Brought(w) : o \in DOMAIN Brings[w][c]
    BY <1>1 DEF Carried
  <2>2. c \notin append[w].insert
    BY <2>1 DEF Relevant
  <2>3. \A x \in DOMAIN Brings[w][c] : Holds(x)
    BY <2>2, RecordedIsHeld
  <2> QED  BY <2>1, <2>3
<1>2. CASE o \notin Carried(w)
  <2>1. o \in Elsewhere(w)
    BY <1>2, NamedIsPushed DEF Elsewhere
  <2> QED  BY <2>1 DEF Linked, Holds
<1> QED  BY <1>1, <1>2

-----------------------------------------------------------------------------
(* What a step leaves standing.                                            *)

\* Numbers stay once given and the indexes grow.
Grows ==
    /\ \A o \in Everything : number[o] # 0 => number'[o] = number[o]
    /\ located \subseteq located' /\ packed \subseteq packed'

LEMMA HeldStays ==
    ASSUME Grows
    PROVE  /\ \A o \in Everything : Holds(o) => Holds(o)'
           /\ \A o \in Everything : number[o] # 0 /\ InGraph(number[o]) =>
                 number'[o] # 0 /\ InGraph(number[o])'
<1>1. \A id : IsHeld(id) => IsHeld(id)'
  BY DEF Grows, IsHeld
<1>2. \A n : InGraph(n) => InGraph(n)'
  BY DEF Grows, InGraph
<1>3. \A o \in Everything : Holds(o) => Holds(o)'
  BY <1>1 DEF Grows, Holds, Id
<1> QED  BY <1>2, <1>3 DEF Grows, InGraph

LEMMA LinkedStays ==
    ASSUME Grows, NEW w \in Writers, Linked(w)
    PROVE  Linked(w)'
<1>1. \A x \in Elsewhere(w) : x \in Everything
  BY LinkedToObjects, Pushed DEF Elsewhere
<1>2. \A x \in Elsewhere(w) : Holds(x)
  BY DEF Linked, Holds
<1>3. \A x \in Elsewhere(w) : Holds(x)'
  BY <1>1, <1>2, HeldStays
<1>4. \A q \in Parents(Brought(w)) \ Brought(w) : number'[q] # 0 /\ InGraph(number[q])'
  <2>1. \A q \in Parents(Brought(w)) : q \in Everything
    BY Pushed DEF CommitsNamed
  <2> QED  BY <2>1, HeldStays DEF Linked
<1> QED  BY <1>3, <1>4 DEF Linked, Holds

\* A push that does not move is as well as before.
LEMMA OtherWriterStays ==
    ASSUME Grows, NEW v \in Writers, WriterOk(v), append'[v] = append[v]
    PROVE  WriterOk(v)'
<1>1. (append[v].phase \in Alive => Linked(v))'
  BY LinkedStays DEF WriterOk
<1>2. KnownOk(v)'
  BY DEF WriterOk, KnownOk, Grows
<1>3. Relevant(v)' = Relevant(v) /\ Bases(v)' = Bases(v) /\ Named(v)' = Named(v)
  BY DEF Relevant, Bases, Named
<1>4. PlanOk(v)'
  <2> SUFFICES ASSUME append[v].phase \in Planned PROVE PlanOk(v)'
    BY DEF PlanOk
  <2>1. \A c \in CommitsNamed(v) : c \in Everything
    BY Pushed
  <2>2. \A c \in Brought(v) \ append[v].insert : number'[c] # 0 /\ InGraph(number[c])'
    BY <2>1, HeldStays DEF WriterOk, PlanOk, CommitsNamed
  <2>3. \A c \in CommitsNamed(v) :
             /\ c \in DOMAIN append[v].seqOf /\ append[v].seqOf[c] # 0
             /\ append[v].seqOf[c] = number'[c] \/ (c \in append[v].here /\ append[v].phase # "numbered")
    BY <2>1 DEF WriterOk, PlanOk, Grows
  <2> QED  BY <1>3, <2>2, <2>3 DEF WriterOk, PlanOk
<1>5. ASSUME append[v].phase \in Planned
      PROVE  \A o \in Named(v) \union Relevant(v) : o \in Everything
  BY <1>5, NamedIsPushed DEF WriterOk, PlanOk
<1>6. NamesOk(v)'
  <2> SUFFICES ASSUME append[v].phase \in Resolved PROVE NamesOk(v)'
    BY DEF NamesOk
  <2>1. \A o \in Named(v) \union Relevant(v) : o \in Everything
    BY <1>5 DEF Resolved
  <2>2. \A o \in Named(v) \ Relevant(v) : append[v].seqOf[o] = number'[o] /\ Holds(o)'
    BY <2>1, HeldStays DEF WriterOk, NamesOk, Grows, Holds
  <2>3. append[v].phase = "resolved" =>
             \A o \in Relevant(v) : append[v].seqOf[o] \in {0, number'[o]}
    BY <2>1 DEF WriterOk, NamesOk, Grows
  <2>4. append[v].phase \in Allocated =>
             \A o \in Relevant(v) :
                /\ append[v].seqOf[o] # 0
                /\ append[v].seqOf[o] = number'[o] \/ (o \in append[v].here /\ append[v].phase # "numbered")
    BY <2>1 DEF WriterOk, NamesOk, Grows
  <2> QED  BY <1>3, <2>2, <2>3, <2>4 DEF WriterOk, NamesOk
<1>7. FreshOk(v)'
  <2> SUFFICES ASSUME append[v].phase \in Allocated PROVE FreshOk(v)'
    BY DEF FreshOk
  <2>1. \A o \in Relevant(v) : o \in Everything
    BY <1>5 DEF Allocated, Resolved
  <2> QED  BY <1>3, <2>1, HeldStays DEF WriterOk, FreshOk
<1> QED  BY <1>1, <1>2, <1>4, <1>6, <1>7 DEF WriterOk

\* Fewer numbers are pending, and they are the same.
LEMMA ReservedShrinks ==
    ASSUME ReservedOk, UNCHANGED <<number, counter>>,
           \A v \in Writers : Pending(v)' \subseteq Pending(v),
           \A v \in Writers : \A o \in Pending(v)' : append'[v].seqOf[o] = append[v].seqOf[o]
    PROVE  ReservedOk'
  BY DEF ReservedOk

\* New numbers are drawn from the counters, which go past them.
LEMMA ReservedGrows ==
    ASSUME NumbersOk, ReservedOk, UNCHANGED number, NEW w \in Writers, NEW N \in SUBSET Everything,
           Pending(w)' = Pending(w) \union N,
           \A v \in Writers \ {w} : append'[v] = append[v],
           \A o \in Pending(w) \ N : append'[w].seqOf[o] = append[w].seqOf[o],
           counter' \in [{"commit", "tree", "blob"} -> Nat \ {0}],
           \A k \in {"commit", "tree", "blob"} : counter[k] <= counter'[k],
           \A o \in N : /\ append'[w].seqOf[o] \in Nat
                        /\ counter[KindOf[o]] <= append'[w].seqOf[o]
                        /\ append'[w].seqOf[o] < counter'[KindOf[o]],
           \A o, x \in N : o # x /\ KindOf[o] = KindOf[x] => append'[w].seqOf[o] # append'[w].seqOf[x]
    PROVE  NumbersOk' /\ ReservedOk'
<1>1. \A x \in Everything : counter[KindOf[x]] \in Nat \ {0} /\ counter'[KindOf[x]] \in Nat \ {0}
  BY Objects DEF NumbersOk
<1>2. \A x \in Everything : counter[KindOf[x]] <= counter'[KindOf[x]]
  BY Objects
<1>3. NumbersOk'
  BY <1>1, <1>2 DEF NumbersOk
<1>4. \A v \in Writers \ {w} : Pending(v)' = Pending(v)
  BY DEF Pending
<1> DEFINE Old(v, o) == o \in Pending(v) /\ ~(v = w /\ o \in N)
<1>5. \A v \in Writers : \A o \in Pending(v)' : Old(v, o) \/ (v = w /\ o \in N)
  BY <1>4
<1>6. ASSUME NEW v \in Writers, NEW o, Old(v, o)
      PROVE  /\ append'[v].seqOf[o] = append[v].seqOf[o] /\ o \in Everything
             /\ append[v].seqOf[o] \in Nat \ {0} /\ append[v].seqOf[o] < counter[KindOf[o]]
             /\ append[v].seqOf[o] < counter'[KindOf[o]]
             /\ \A x \in Everything : KindOf[x] = KindOf[o] => number[x] # append[v].seqOf[o]
  <2>1. append'[v].seqOf[o] = append[v].seqOf[o]
    BY <1>6
  <2>2. /\ o \in Everything
        /\ append[v].seqOf[o] \in Nat \ {0} /\ append[v].seqOf[o] < counter[KindOf[o]]
        /\ \A x \in Everything : KindOf[x] = KindOf[o] => number[x] # append[v].seqOf[o]
    BY <1>6 DEF ReservedOk
  <2> QED  BY <1>1, <1>2, <2>1, <2>2
<1>7. ASSUME NEW o \in N
      PROVE  /\ append'[w].seqOf[o] \in Nat \ {0} /\ append'[w].seqOf[o] < counter'[KindOf[o]]
             /\ \A x \in Everything : KindOf[x] = KindOf[o] => number[x] # append'[w].seqOf[o]
  BY <1>1 DEF NumbersOk
<1>8. ASSUME NEW v \in Writers, NEW o \in Pending(v)', NEW u \in Writers, NEW x \in Pending(u)',
             KindOf[x] = KindOf[o], u # v \/ x # o
      PROVE  append'[u].seqOf[x] # append'[v].seqOf[o]
  <2>1. CASE Old(v, o) /\ Old(u, x)
    <3>1. append[u].seqOf[x] # append[v].seqOf[o]
      BY <1>8, <2>1 DEF ReservedOk
    <3> QED  BY <1>6, <2>1, <3>1
  <2>2. CASE Old(v, o) /\ u = w /\ x \in N
    <3>1. /\ append'[v].seqOf[o] < counter[KindOf[o]] /\ append'[v].seqOf[o] \in Nat
          /\ counter[KindOf[o]] \in Nat
      BY <1>1, <1>6, <2>2
    <3>2. counter[KindOf[o]] <= append'[u].seqOf[x] /\ append'[u].seqOf[x] \in Nat
      BY <1>8, <2>2
    <3> QED  BY <3>1, <3>2
  <2>3. CASE v = w /\ o \in N /\ Old(u, x)
    <3>1. /\ append'[u].seqOf[x] < counter[KindOf[x]] /\ append'[u].seqOf[x] \in Nat
          /\ counter[KindOf[x]] \in Nat
      BY <1>1, <1>6, <2>3
    <3>2. counter[KindOf[x]] <= append'[v].seqOf[o] /\ append'[v].seqOf[o] \in Nat
      BY <1>8, <2>3
    <3> QED  BY <3>1, <3>2
  <2>4. CASE v = w /\ o \in N /\ u = w /\ x \in N
    BY <1>8, <2>4
  <2> QED  BY <1>5, <1>8, <2>1, <2>2, <2>3, <2>4
<1>9. ASSUME NEW v \in Writers, NEW o \in Pending(v)'
      PROVE  /\ o \in Everything
             /\ append'[v].seqOf[o] \in Nat \ {0} /\ append'[v].seqOf[o] < counter'[KindOf[o]]
             /\ \A x \in Everything : KindOf[x] = KindOf[o] => number'[x] # append'[v].seqOf[o]
  <2>1. CASE Old(v, o)
    BY <1>6, <2>1
  <2>2. CASE v = w /\ o \in N
    BY <1>7, <2>2
  <2> QED  BY <1>5, <1>9, <2>1, <2>2
<1> HIDE DEF Old
<1>10. ReservedOk'
  BY <1>8, <1>9 DEF ReservedOk
<1> QED  BY <1>3, <1>10

-----------------------------------------------------------------------------
(* Each step.                                                              *)

\* Only one push moves at a time.
Moves(w) ==
    /\ IsOn(append', Writers)
    /\ \A v \in Writers \ {w} : append'[v] = append[v]

LEMMA MovesOne ==
    ASSUME Kinds, NEW w \in Writers, NEW d, append' = [append EXCEPT ![w] = d]
    PROVE  Moves(w) /\ append'[w] = d
  BY DEF Kinds, IsOn, Moves

LEMMA FactsStay ==
    ASSUME Facts, UNCHANGED <<number, located, entries, packed>>
    PROVE  Facts' /\ Grows
<1>1. Facts'
  BY DEF Facts, LocatedOk, EntriesOk, TreesOk, PackedOk, Holds, IsHeld, InGraph, Id
<1>2. Grows
  BY DEF Grows
<1> QED  BY <1>1, <1>2

\* What there is to show of a step.
LEMMA Assembled ==
    ASSUME Inv, NEW w \in Writers, Moves(w), Grows, NumbersOk', ReservedOk', Facts', WriterOk(w)',
           append'[w].phase \in {"planned", "resolved"} => IsOn(append'[w], PlanFields),
           append'[w].phase \in {"allocated", "ranked"} => IsOn(append'[w], NamedFields)
    PROVE  Inv'
<1>1. \A v \in Writers : WriterOk(v)'
  <2>1. \A v \in Writers \ {w} : WriterOk(v) /\ append'[v] = append[v]
    BY DEF Inv, Moves
  <2>2. \A v \in Writers \ {w} : WriterOk(v)'
    BY <2>1, OtherWriterStays
  <2> QED  BY <2>2
<1>2. Kinds'
  BY DEF Kinds, Inv, Moves
<1> QED  BY <1>1, <1>2 DEF Inv

\* A push with nothing pending leaves the others' numbers alone.
LEMMA NothingPending ==
    ASSUME NumbersOk, ReservedOk, NEW w \in Writers, Moves(w), UNCHANGED <<number, counter>>,
           append'[w].phase \notin Unrecorded
    PROVE  NumbersOk' /\ ReservedOk'
<1>1. NumbersOk'
  BY DEF NumbersOk
<1>2. \A v \in Writers : Pending(v)' \subseteq Pending(v)
  BY DEF Pending, Moves
<1>3. \A v \in Writers : \A o \in Pending(v)' : append'[v].seqOf[o] = append[v].seqOf[o]
  BY DEF Pending, Moves
<1> QED  BY <1>1, <1>2, <1>3, ReservedShrinks

LEMMA PrefetchKeepsInv ==
    ASSUME Inv, NEW w \in Writers, PrefetchIdentities(w)
    PROVE  Inv'
<1> DEFINE d == [phase |-> "promoted", known |-> [o \in Asked(w) |-> number[o]], attempt |-> 1]
<1>1. /\ append' = [append EXCEPT ![w] = d] /\ Linked(w)
      /\ UNCHANGED <<number, counter, located, entries, packed>>
  BY DEF PrefetchIdentities
<1>2. d.phase = "promoted" /\ d.known = [o \in Asked(w) |-> number[o]]
  OBVIOUS
<1> HIDE DEF d
<1>3. Moves(w) /\ append'[w] = d
  BY <1>1, MovesOne DEF Inv
<1>4. Facts' /\ Grows
  BY <1>1, FactsStay DEF Inv
<1>5. NumbersOk' /\ ReservedOk'
  BY <1>1, <1>2, <1>3, NothingPending DEF Inv, Unrecorded
<1>6. WriterOk(w)'
  <2>1. Linked(w)'
    BY <1>1, <1>4, LinkedStays
  <2>2. KnownOk(w)'
    <3>1. \A o \in Asked(w) : o \in Everything
      BY Pushed, LinkedToObjects DEF Asked, CommitsNamed
    <3>2. \A o \in Outside(w) : number[o] # 0
      BY <1>1 DEF Linked, Outside
    <3> QED  BY <1>1, <1>2, <1>3, <3>1, <3>2 DEF KnownOk
  <2> QED  BY <1>2, <1>3, <2>1, <2>2
           DEF WriterOk, PlanOk, NamesOk, FreshOk, Planned, Resolved, Allocated, Unrecorded
<1> QED  BY <1>2, <1>3, <1>4, <1>5, <1>6, Assembled

LEMMA HandedNumbers ==
    ASSUME NumbersOk, NEW k \in {"commit", "tree", "blob"}, NEW S \in SUBSET Everything,
           NEW f \in Handed(k, S)
    PROVE  /\ Cardinality(S) \in Nat /\ DOMAIN f = S
           /\ \A o \in S : f[o] \in Nat \ {0} /\ counter[k] <= f[o] /\ f[o] < counter[k] + Cardinality(S)
           /\ \A x, y \in S : x # y => f[x] # f[y]
<1>1. IsFiniteSet(S) /\ Cardinality(S) \in Nat
  BY LinksAssumption, FS_Subset, FS_CardinalityType
<1>2. counter[k] \in Nat \ {0}
  BY DEF NumbersOk
<1>3. /\ f \in [S -> counter[k] .. counter[k] + Cardinality(S) - 1]
      /\ \A x, y \in S : x # y => f[x] # f[y]
  BY DEF Handed
<1>4. DOMAIN f = S /\ \A o \in S : f[o] \in counter[k] .. counter[k] + Cardinality(S) - 1
  BY <1>3
<1> HIDE DEF Handed
<1> QED  BY <1>1, <1>2, <1>3, <1>4

LEMMA PlanCommitsKeepsInv ==
    ASSUME Inv, NEW w \in Writers, PlanCommits(w)
    PROVE  Inv'
<1> DEFINE a == append[w]
           seqs == [c \in CommitsNamed(w) |-> IF Covers(w, c) THEN a.known[c] ELSE number[c]]
           insert == {c \in Brought(w) : seqs[c] = 0 \/ ~ InGraph(seqs[c])}
           taking == {c \in insert : seqs[c] = 0}
           S(f) == [c \in CommitsNamed(w) |-> IF c \in taking THEN f[c] ELSE seqs[c]]
           d(f) == [phase |-> "planned", known |-> a.known, attempt |-> a.attempt, insert |-> insert,
                    here |-> taking, seqOf |-> S(f)]
<1>1. /\ append[w].phase = "promoted"
      /\ \E f \in Handed("commit", taking) : append' = [append EXCEPT ![w] = d(f)]
      /\ counter' = [counter EXCEPT !["commit"] = @ + Cardinality(taking)]
      /\ UNCHANGED <<number, located, entries, packed>>
  BY DEF PlanCommits, CommitsNamed
<1>2. PICK f \in Handed("commit", taking) : append' = [append EXCEPT ![w] = d(f)]
  BY <1>1
<1>3. /\ d(f).phase = "planned" /\ d(f).known = a.known /\ d(f).insert = insert
      /\ d(f).here = taking /\ d(f).seqOf = S(f) /\ IsOn(d(f), PlanFields)
  BY DEF IsOn, PlanFields
<1> HIDE DEF d
<1>4. Moves(w) /\ append'[w] = d(f)
  BY <1>2, MovesOne DEF Inv
<1>5. Facts' /\ Grows
  BY <1>1, FactsStay DEF Inv
<1>6. Linked(w) /\ KnownOk(w)
  BY <1>1 DEF Inv, WriterOk, Alive
<1>7. /\ \A c \in CommitsNamed(w) : seqs[c] \in {0, number[c]}
      /\ \A c \in Outside(w) : c \in CommitsNamed(w) /\ seqs[c] # 0
  <2>1. \A c \in CommitsNamed(w) : seqs[c] \in {0, number[c]}
    BY <1>1, <1>6 DEF KnownOk, Knowing, Covers
  <2>2. \A c \in Outside(w) : c \in CommitsNamed(w) /\ number[c] # 0
    BY <1>6 DEF Outside, CommitsNamed, Linked
  <2> QED  BY <1>1, <1>6, <2>1, <2>2 DEF KnownOk, Knowing, Covers
<1>8. /\ insert \subseteq Brought(w) /\ taking \subseteq insert
      /\ \A c \in Brought(w) \ insert : seqs[c] # 0 /\ InGraph(seqs[c])
      /\ \A c \in insert \ taking : seqs[c] # 0
  OBVIOUS
<1>9. /\ \A c \in taking : S(f)[c] = f[c]
      /\ \A c \in CommitsNamed(w) \ taking : S(f)[c] = seqs[c]
      /\ DOMAIN S(f) = CommitsNamed(w)
  BY <1>8 DEF CommitsNamed
<1>10. \A c \in CommitsNamed(w) : c \in Outside(w) \/ c \in Brought(w)
  BY DEF CommitsNamed, Outside
<1>11. Brought(w) \subseteq CommitsNamed(w)
  BY DEF CommitsNamed
<1> HIDE DEF seqs, insert, taking, S
<1>12. /\ Cardinality(taking) \in Nat /\ taking \in SUBSET Everything
       /\ \A c \in taking : KindOf[c] = "commit"
       /\ \A o \in taking : f[o] \in Nat \ {0} /\ counter["commit"] <= f[o]
                            /\ f[o] < counter["commit"] + Cardinality(taking)
       /\ \A x, y \in taking : x # y => f[x] # f[y]
  <2>1. taking \in SUBSET Everything /\ \A c \in taking : KindOf[c] = "commit"
    BY <1>8, Pushed
  <2> QED  BY <2>1, <1>2, HandedNumbers DEF Inv
<1>13. NumbersOk' /\ ReservedOk'
  <2>1. Pending(w) = {} /\ Pending(w)' = Pending(w) \union taking
    BY <1>1, <1>3, <1>4 DEF Pending, Unrecorded
  <2>2. /\ counter \in [{"commit", "tree", "blob"} -> Nat \ {0}]
        /\ counter' = [counter EXCEPT !["commit"] = counter["commit"] + Cardinality(taking)]
    BY <1>1 DEF Inv, NumbersOk
  <2>3. /\ counter' \in [{"commit", "tree", "blob"} -> Nat \ {0}]
        /\ \A k \in {"commit", "tree", "blob"} : counter[k] <= counter'[k]
        /\ counter'["commit"] = counter["commit"] + Cardinality(taking)
    BY <1>12, <2>2
  <2>4. \A o \in taking : append'[w].seqOf[o] = f[o]
    BY <1>3, <1>4, <1>9
  <2>5. \A o \in taking : /\ append'[w].seqOf[o] \in Nat
                          /\ counter[KindOf[o]] <= append'[w].seqOf[o]
                          /\ append'[w].seqOf[o] < counter'[KindOf[o]]
    BY <1>12, <2>3, <2>4
  <2>6. \A o, x \in taking : o # x => append'[w].seqOf[o] # append'[w].seqOf[x]
    BY <1>12, <2>4
  <2>7. \A v \in Writers \ {w} : append'[v] = append[v]
    BY <1>4 DEF Moves
  <2>8. NumbersOk /\ ReservedOk /\ UNCHANGED number /\ taking \in SUBSET Everything
    BY <1>1, <1>12 DEF Inv
  <2>9. \A o \in Pending(w) \ taking : append'[w].seqOf[o] = append[w].seqOf[o]
    BY <2>1
  <2> QED  BY <2>1, <2>3, <2>5, <2>6, <2>7, <2>8, <2>9, ReservedGrows
<1>14. PlanOk(w)'
  <2>1. \A c \in CommitsNamed(w) \ taking : S(f)[c] = number[c] /\ S(f)[c] # 0
    BY <1>7, <1>8, <1>9, <1>10
  <2>2. \A c \in taking : S(f)[c] # 0
    BY <1>9, <1>12
  <2>3. \A c \in Brought(w) \ insert : number[c] # 0 /\ InGraph(number[c])'
    BY <1>1, <1>7, <1>8, <1>11 DEF InGraph
  <2> QED  BY <1>1, <1>3, <1>4, <1>8, <1>9, <2>1, <2>2, <2>3 DEF PlanOk
<1>15. WriterOk(w)'
  <2>1. Linked(w)'
    BY <1>5, <1>6, LinkedStays
  <2>2. KnownOk(w)'
    BY <1>1, <1>3, <1>4, <1>6 DEF KnownOk, Knowing
  <2> QED  BY <1>3, <1>4, <1>14, <2>1, <2>2 DEF WriterOk, NamesOk, FreshOk, Resolved, Allocated
<1> QED  BY <1>3, <1>4, <1>5, <1>13, <1>15, Assembled

\* What is named depends on the commits the plan inserts, and on nothing else.
LEMMA NamesFollowThePlan ==
    ASSUME NEW w \in Writers, append'[w].insert = append[w].insert
    PROVE  Relevant(w)' = Relevant(w) /\ Bases(w)' = Bases(w) /\ Named(w)' = Named(w)
  BY DEF Relevant, Bases, Named

LEMMA ResolveObjectsKeepsInv ==
    ASSUME Inv, NEW w \in Writers, ResolveObjects(w)
    PROVE  Inv'
<1> DEFINE a == append[w]
           found == [o \in Named(w) |-> IF Trusted(w, o) THEN a.known[o] ELSE number[o]]
           S == [o \in DOMAIN a.seqOf \union Named(w) |->
                    IF o \in Named(w) THEN found[o] ELSE a.seqOf[o]]
<1>1. /\ a.phase = "planned"
      /\ append' = [append EXCEPT ![w].phase = "resolved", ![w].seqOf = S]
      /\ UNCHANGED <<number, counter, located, entries, packed>>
  BY DEF ResolveObjects
<1>2. /\ \A o \in Named(w) : S[o] = (IF Trusted(w, o) THEN a.known[o] ELSE number[o])
      /\ \A o \in DOMAIN a.seqOf \ Named(w) : S[o] = a.seqOf[o]
      /\ DOMAIN S = DOMAIN a.seqOf \union Named(w)
  OBVIOUS
<1> HIDE DEF S
<1>3. IsOn(a, PlanFields)
  BY <1>1 DEF Inv, Kinds
<1>4. /\ Moves(w)
      /\ append'[w] = [[a EXCEPT !.phase = "resolved"] EXCEPT !.seqOf = S]
  BY <1>1 DEF Inv, Kinds, IsOn, Moves
<1>5. /\ append'[w].phase = "resolved" /\ append'[w].seqOf = S
      /\ append'[w].known = a.known /\ append'[w].insert = a.insert /\ append'[w].here = a.here
      /\ IsOn(append'[w], PlanFields)
  BY <1>3, <1>4 DEF IsOn, PlanFields
<1>6. Facts' /\ Grows
  BY <1>1, FactsStay DEF Inv
<1>7. Linked(w) /\ KnownOk(w) /\ PlanOk(w)
  BY <1>1 DEF Inv, WriterOk, Alive, Planned, Unrecorded
<1>8. /\ a.insert \subseteq Brought(w) /\ a.here \subseteq a.insert
      /\ \A c \in Brought(w) \ a.insert : number[c] # 0 /\ InGraph(number[c])
      /\ \A c \in CommitsNamed(w) :
             /\ c \in DOMAIN a.seqOf /\ a.seqOf[c] # 0
             /\ a.seqOf[c] = number[c] \/ c \in a.here
  BY <1>1, <1>7 DEF PlanOk, Planned, Unrecorded
<1>9. Relevant(w)' = Relevant(w) /\ Named(w)' = Named(w)
  BY <1>5, NamesFollowThePlan
<1>10. \A c \in CommitsNamed(w) : c \notin Named(w) /\ S[c] = a.seqOf[c] /\ c \in DOMAIN S
  <2>1. \A c \in CommitsNamed(w) : c \notin Named(w)
    BY <1>8, NamedIsPushed, Pushed
  <2> QED  BY <1>2, <1>8, <2>1
<1>11. NumbersOk' /\ ReservedOk'
  <2>1. \A o \in a.here : append'[w].seqOf[o] = a.seqOf[o]
    BY <1>5, <1>8, <1>10 DEF CommitsNamed
  <2>2. \A v \in Writers : Pending(v)' \subseteq Pending(v)
    BY <1>1, <1>4, <1>5 DEF Pending, Moves, Unrecorded
  <2>3. \A v \in Writers : \A o \in Pending(v)' : append'[v].seqOf[o] = append[v].seqOf[o]
    BY <1>4, <1>5, <2>1 DEF Pending, Moves
  <2>4. NumbersOk'
    BY <1>1 DEF Inv, NumbersOk
  <2> QED  BY <1>1, <2>2, <2>3, <2>4, ReservedShrinks DEF Inv
<1>12. PlanOk(w)'
  BY <1>1, <1>5, <1>8, <1>9, <1>10 DEF PlanOk, InGraph
<1>13. \A o \in Named(w) : S[o] \in {0, number[o]}
  BY <1>1, <1>2, <1>7 DEF KnownOk, Knowing, Trusted, Covers
<1>14. \A o \in Named(w) \ Relevant(w) : S[o] = number[o] /\ Holds(o)
  <2>1. \A o \in Named(w) \ Relevant(w) : Holds(o)
    BY <1>7, <1>8, UnrecordedIsHeld DEF Inv
  <2>2. \A o \in Named(w) \ Relevant(w) : S[o] = number[o]
    BY <1>1, <1>2, <1>7 DEF KnownOk, Knowing, Trusted, Covers
  <2> QED  BY <2>1, <2>2
<1>15. NamesOk(w)'
  <2>1. Relevant(w) \subseteq Named(w)
    BY DEF Named
  <2>2. \A o \in Named(w) \ Relevant(w) : S[o] = number'[o] /\ Holds(o)'
    BY <1>1, <1>14 DEF Holds, IsHeld, Id
  <2>3. \A o \in Named(w) : o \in DOMAIN S
    BY <1>2
  <2> QED  BY <1>1, <1>5, <1>9, <1>13, <2>1, <2>2, <2>3 DEF NamesOk, Allocated
<1>16. WriterOk(w)'
  <2>1. Linked(w)'
    BY <1>6, <1>7, LinkedStays
  <2>2. KnownOk(w)'
    BY <1>1, <1>5, <1>7 DEF KnownOk, Knowing
  <2> QED  BY <1>5, <1>12, <1>15, <2>1, <2>2 DEF WriterOk, FreshOk, Allocated
<1> QED  BY <1>4, <1>5, <1>6, <1>11, <1>16, Assembled

LEMMA AllocateObjectsKeepsInv ==
    ASSUME Inv, NEW w \in Writers, AllocateObjects(w)
    PROVE  Inv'
<1> DEFINE a == append[w]
           missing == {o \in Relevant(w) : a.seqOf[o] = 0}
           taken(k) == {o \in missing : KindOf[o] = k}
           S(f, g) == [o \in DOMAIN a.seqOf |-> IF o \in DOMAIN f THEN f[o]
                                                ELSE IF o \in DOMAIN g THEN g[o] ELSE a.seqOf[o]]
           d(f, g) == [phase |-> "allocated", attempt |-> a.attempt, insert |-> a.insert,
                       here |-> a.here \union missing, seqOf |-> S(f, g), fresh |-> Fresh(w)]
<1>1. /\ a.phase = "resolved"
      /\ \E f \in Handed("tree", taken("tree")), g \in Handed("blob", taken("blob")) :
            append' = [append EXCEPT ![w] =
               IF Unresolved(w, S(f, g), Fresh(w)) THEN Over0("stranded") ELSE d(f, g)]
      /\ counter' = [k \in DOMAIN counter |-> counter[k] + Cardinality(taken(k))]
      /\ UNCHANGED <<number, located, entries, packed>>
  BY DEF AllocateObjects
<1>2. PICK f \in Handed("tree", taken("tree")), g \in Handed("blob", taken("blob")) :
        append' = [append EXCEPT ![w] =
           IF Unresolved(w, S(f, g), Fresh(w)) THEN Over0("stranded") ELSE d(f, g)]
  BY <1>1
<1>3. Linked(w) /\ PlanOk(w) /\ NamesOk(w)
  BY <1>1 DEF Inv, WriterOk, Alive, Planned, Unrecorded
<1>4. /\ a.insert \subseteq Brought(w) /\ a.here \subseteq a.insert
      /\ \A c \in Brought(w) \ a.insert : number[c] # 0 /\ InGraph(number[c])
      /\ \A c \in CommitsNamed(w) :
             /\ c \in DOMAIN a.seqOf /\ a.seqOf[c] # 0
             /\ a.seqOf[c] = number[c] \/ c \in a.here
  BY <1>1, <1>3 DEF PlanOk, Planned, Unrecorded
<1>5. /\ \A o \in Named(w) : o \in DOMAIN a.seqOf
      /\ \A o \in Named(w) \ Relevant(w) : a.seqOf[o] = number[o] /\ Holds(o)
      /\ \A o \in Relevant(w) : a.seqOf[o] \in {0, number[o]}
  BY <1>1, <1>3 DEF NamesOk, Resolved, Planned, Unrecorded
<1>6. /\ \A o \in Relevant(w) : o \in Named(w) /\ o \in Everything /\ KindOf[o] # "commit"
      /\ \A o \in Named(w) : o \in Everything /\ KindOf[o] # "commit"
      /\ \A c \in CommitsNamed(w) : c \in Everything /\ KindOf[c] = "commit"
  BY <1>4, NamedIsPushed, Pushed
<1>7. /\ missing \subseteq Relevant(w)
      /\ \A o \in Relevant(w) \ missing : a.seqOf[o] # 0
      /\ \A k : taken(k) \subseteq missing /\ \A o \in taken(k) : KindOf[o] = k
      /\ \A o \in missing : o \in taken("tree") \/ o \in taken("blob")
  BY <1>6, Objects
<1>8. missing \in SUBSET Everything /\ \A k : taken(k) \in SUBSET Everything
  BY <1>6, <1>7
<1> HIDE DEF missing, taken
<1>9. /\ DOMAIN f = taken("tree") /\ DOMAIN g = taken("blob")
      /\ \A o \in taken("tree") : f[o] \in Nat \ {0} /\ counter["tree"] <= f[o]
                                  /\ f[o] < counter["tree"] + Cardinality(taken("tree"))
      /\ \A x, y \in taken("tree") : x # y => f[x] # f[y]
      /\ \A o \in taken("blob") : g[o] \in Nat \ {0} /\ counter["blob"] <= g[o]
                                  /\ g[o] < counter["blob"] + Cardinality(taken("blob"))
      /\ \A x, y \in taken("blob") : x # y => g[x] # g[y]
  <2>1. taken("tree") \in SUBSET Everything /\ taken("blob") \in SUBSET Everything /\ NumbersOk
    BY <1>8 DEF Inv
  <2>2. f \in Handed("tree", taken("tree")) /\ g \in Handed("blob", taken("blob"))
    BY <1>2
  <2> QED  BY <2>1, <2>2, HandedNumbers
<1>10. \A k : Cardinality(taken(k)) \in Nat
  BY <1>8, LinksAssumption, FS_Subset, FS_CardinalityType
<1>11. /\ \A o \in taken("tree") : o \in DOMAIN a.seqOf /\ S(f, g)[o] = f[o]
       /\ \A o \in taken("blob") : o \in DOMAIN a.seqOf /\ S(f, g)[o] = g[o]
       /\ \A o \in DOMAIN a.seqOf \ missing : S(f, g)[o] = a.seqOf[o]
       /\ DOMAIN S(f, g) = DOMAIN a.seqOf
  BY <1>5, <1>6, <1>7, <1>9
<1> DEFINE T == S(f, g)
<1> HIDE DEF S, T
<1>12. /\ \A o \in missing : T[o] # 0
       /\ \A o \in Relevant(w) \ missing : T[o] = number[o] /\ T[o] # 0
       /\ \A o \in Named(w) \ Relevant(w) : T[o] = number[o] /\ T[o] # 0 /\ Holds(o)
       /\ \A c \in CommitsNamed(w) : T[c] = a.seqOf[c] /\ T[c] # 0
       /\ DOMAIN T = DOMAIN a.seqOf
  <2>1. \A o \in missing : T[o] # 0
    BY <1>7, <1>9, <1>11 DEF T
  <2>2. \A o \in Relevant(w) \ missing : T[o] = number[o] /\ T[o] # 0
    BY <1>5, <1>6, <1>7, <1>11 DEF T
  <2>3. \A o \in Named(w) \ Relevant(w) : T[o] = number[o] /\ T[o] # 0 /\ Holds(o)
    BY <1>5, <1>7, <1>11 DEF T, Holds
  <2>4. \A c \in CommitsNamed(w) : T[c] = a.seqOf[c] /\ T[c] # 0
    BY <1>4, <1>6, <1>7, <1>11 DEF T
  <2> QED  BY <1>11, <2>1, <2>2, <2>3, <2>4 DEF T
<1>13. ~ Unresolved(w, T, Fresh(w))
  <2>1. \A o \in Named(w) : T[o] # 0
    BY <1>12
  <2>2. \A c \in a.insert : \A q \in Forebears[c] \union Links[c] : T[q] # 0
    BY <1>4, <1>12, <2>1, NamedIsPushed DEF CommitsNamed, Parents
  <2>3. \A t \in Fresh(w) : \A x \in Links[t] : T[x] # 0
    BY <1>4, <2>1, NamedIsPushed DEF Fresh
  <2>4. \A b \in Bases(w) : T[b] # 0
    BY <1>4, <2>1, NamedIsPushed
  <2> QED  BY <2>2, <2>3, <2>4 DEF Unresolved
<1> DEFINE e == d(f, g)
<1>14. append' = [append EXCEPT ![w] = e]
  BY <1>2, <1>13 DEF T
<1>15. /\ e.phase = "allocated" /\ e.insert = a.insert
       /\ e.here = a.here \union missing /\ e.seqOf = T /\ e.fresh = Fresh(w) /\ IsOn(e, NamedFields)
  BY DEF IsOn, NamedFields, T
<1> HIDE DEF e
<1>16. Moves(w) /\ append'[w] = e
  BY <1>14, MovesOne DEF Inv
<1>17. Facts' /\ Grows
  BY <1>1, FactsStay DEF Inv
<1>18. Relevant(w)' = Relevant(w) /\ Named(w)' = Named(w)
  BY <1>15, <1>16, NamesFollowThePlan
<1>19. NumbersOk' /\ ReservedOk'
  <2>1. Pending(w) = a.here /\ Pending(w)' = Pending(w) \union missing
    BY <1>1, <1>15, <1>16 DEF Pending, Unrecorded
  <2>2. counter \in [{"commit", "tree", "blob"} -> Nat \ {0}]
    BY DEF Inv, NumbersOk
  <2>3. \A k \in {"commit", "tree", "blob"} : counter'[k] = counter[k] + Cardinality(taken(k))
    BY <1>1, <2>2
  <2>4. /\ counter' \in [{"commit", "tree", "blob"} -> Nat \ {0}]
        /\ \A k \in {"commit", "tree", "blob"} : counter[k] <= counter'[k]
    BY <1>1, <1>10, <2>2, <2>3
  <2>5. \A o \in missing :
          /\ append'[w].seqOf[o] \in Nat
          /\ counter[KindOf[o]] <= append'[w].seqOf[o]
          /\ append'[w].seqOf[o] < counter'[KindOf[o]]
    <3>1. \A o \in taken("tree") :
            /\ KindOf[o] = "tree" /\ append'[w].seqOf[o] \in Nat
            /\ counter["tree"] <= append'[w].seqOf[o] /\ append'[w].seqOf[o] < counter'["tree"]
      BY <1>7, <1>9, <1>11, <1>15, <1>16, <2>3 DEF T
    <3>2. \A o \in taken("blob") :
            /\ KindOf[o] = "blob" /\ append'[w].seqOf[o] \in Nat
            /\ counter["blob"] <= append'[w].seqOf[o] /\ append'[w].seqOf[o] < counter'["blob"]
      BY <1>7, <1>9, <1>11, <1>15, <1>16, <2>3 DEF T
    <3> QED  BY <1>7, <3>1, <3>2
  <2>6. \A o, x \in missing : o # x /\ KindOf[o] = KindOf[x] => append'[w].seqOf[o] # append'[w].seqOf[x]
    <3>1. \A o \in taken("tree") : append'[w].seqOf[o] = f[o] /\ KindOf[o] = "tree"
      BY <1>7, <1>11, <1>15, <1>16 DEF T
    <3>2. \A o \in taken("blob") : append'[w].seqOf[o] = g[o] /\ KindOf[o] = "blob"
      BY <1>7, <1>11, <1>15, <1>16 DEF T
    <3> QED  BY <1>7, <1>9, <3>1, <3>2
  <2>7. \A v \in Writers \ {w} : append'[v] = append[v]
    BY <1>16 DEF Moves
  <2>8. NumbersOk /\ ReservedOk /\ UNCHANGED number /\ missing \in SUBSET Everything
    BY <1>1, <1>8 DEF Inv
  <2>9. \A o \in Pending(w) \ missing : append'[w].seqOf[o] = append[w].seqOf[o]
    BY <1>4, <1>12, <1>15, <1>16, <2>1 DEF CommitsNamed
  <2> QED  BY <2>1, <2>4, <2>5, <2>6, <2>7, <2>8, <2>9, ReservedGrows
<1>20. PlanOk(w)'
  <2>1. \A c \in CommitsNamed(w) :
             /\ c \in DOMAIN T /\ T[c] # 0
             /\ T[c] = number[c] \/ c \in a.here \union missing
    BY <1>4, <1>12
  <2> QED  BY <1>1, <1>4, <1>7, <1>15, <1>16, <1>18, <2>1 DEF PlanOk, InGraph
<1>21. NamesOk(w)'
  <2>1. \A o \in Named(w) \ Relevant(w) : T[o] = number'[o] /\ Holds(o)'
    BY <1>1, <1>12 DEF Holds, IsHeld, Id
  <2>2. \A o \in Relevant(w) : T[o] # 0 /\ (T[o] = number'[o] \/ o \in a.here \union missing)
    BY <1>1, <1>12
  <2> QED  BY <1>5, <1>12, <1>15, <1>16, <1>18, <2>1, <2>2 DEF NamesOk
<1>22. FreshOk(w)'
  <2>1. Fresh(w) \subseteq Relevant(w)
    BY DEF Fresh
  <2>2. ASSUME NEW o \in Relevant(w) \ Fresh(w) PROVE Holds(o)
    <3>1. IsHeld(<<KindOf[o], a.seqOf[o]>>)
      BY DEF Fresh, Id
    <3>2. a.seqOf[o] # 0
      BY <1>6, <3>1, HeldIsNumbered DEF Inv, Facts
    <3> QED  BY <1>5, <3>1, <3>2 DEF Holds, Id
  <2>3. \A o \in Relevant(w) \ Fresh(w) : Holds(o)'
    BY <1>1, <2>2 DEF Holds, IsHeld, Id
  <2> QED  BY <1>15, <1>16, <1>18, <2>1, <2>3 DEF FreshOk
<1>23. WriterOk(w)'
  <2>1. Linked(w)'
    BY <1>3, <1>17, LinkedStays
  <2> QED  BY <1>15, <1>16, <1>20, <1>21, <1>22, <2>1 DEF WriterOk, KnownOk, Knowing
<1> QED  BY <1>15, <1>16, <1>17, <1>19, <1>23, Assembled

LEMMA ParentsGrow ==
    ASSUME NEW S, NEW T, S \subseteq T
    PROVE  Parents(S) \subseteq Parents(T)
  BY DEF Parents

LEMMA RankKeepsInv ==
    ASSUME Inv, NEW w \in Writers, Rank(w)
    PROVE  Inv'
<1> DEFINE a == append[w]
           outside == Parents(a.insert) \ a.insert
           d == [a EXCEPT !.phase = "ranked"]
<1>1. /\ a.phase = "allocated"
      /\ append' = [append EXCEPT ![w] =
            IF \A q \in outside : InGraph(a.seqOf[q]) THEN d ELSE Over0("stranded")]
      /\ UNCHANGED <<number, counter, located, entries, packed>>
  BY DEF Rank
<1>2. WriterOk(w) /\ Linked(w) /\ PlanOk(w) /\ NamesOk(w) /\ FreshOk(w)
  BY <1>1 DEF Inv, WriterOk, Alive, Planned, Unrecorded
<1>3. /\ a.insert \subseteq Brought(w) /\ a.here \subseteq a.insert \union Relevant(w)
      /\ \A c \in Brought(w) \ a.insert : number[c] # 0 /\ InGraph(number[c])
      /\ \A c \in CommitsNamed(w) : a.seqOf[c] = number[c] \/ c \in a.here
  BY <1>1, <1>2 DEF PlanOk, Planned, Unrecorded
<1>4. ASSUME NEW q \in outside PROVE InGraph(a.seqOf[q])
  <2>1. q \in Parents(Brought(w)) /\ q \notin a.insert
    BY <1>3, ParentsGrow
  <2> HIDE DEF outside
  <2>2. q \in CommitsNamed(w)
    BY <2>1 DEF CommitsNamed
  <2>3. q \notin Relevant(w)
    BY <1>3, <2>2, NamedIsPushed, Pushed
  <2>4. a.seqOf[q] = number[q]
    BY <1>3, <2>1, <2>2, <2>3
  <2> QED  BY <1>2, <1>3, <2>1, <2>4 DEF Linked
<1>5. append' = [append EXCEPT ![w] = d]
  BY <1>1, <1>4
<1>6. IsOn(a, NamedFields)
  BY <1>1 DEF Inv, Kinds
<1>7. /\ d.phase = "ranked" /\ d.insert = a.insert /\ d.here = a.here /\ d.seqOf = a.seqOf
      /\ d.fresh = a.fresh /\ IsOn(d, NamedFields)
  BY <1>6 DEF IsOn, NamedFields
<1> HIDE DEF d
<1>8. Moves(w) /\ append'[w] = d
  BY <1>5, MovesOne DEF Inv
<1>9. Facts' /\ Grows
  BY <1>1, FactsStay DEF Inv
<1>10. Relevant(w)' = Relevant(w) /\ Named(w)' = Named(w)
  BY <1>7, <1>8, NamesFollowThePlan
<1>11. NumbersOk' /\ ReservedOk'
  <2>1. \A v \in Writers : Pending(v)' \subseteq Pending(v)
    BY <1>1, <1>7, <1>8 DEF Pending, Moves, Unrecorded
  <2>2. \A v \in Writers : \A o \in Pending(v)' : append'[v].seqOf[o] = append[v].seqOf[o]
    BY <1>7, <1>8 DEF Pending, Moves
  <2>3. NumbersOk'
    BY <1>1 DEF Inv, NumbersOk
  <2> QED  BY <1>1, <2>1, <2>2, <2>3, ReservedShrinks DEF Inv
<1>12. PlanOk(w)'
  BY <1>1, <1>2, <1>7, <1>8, <1>10 DEF PlanOk, InGraph, Planned, Unrecorded
<1>13. NamesOk(w)'
  BY SMTT(30), <1>1, <1>2, <1>7, <1>8, <1>10
     DEF NamesOk, Holds, IsHeld, Id, Allocated, Resolved, Planned, Unrecorded
<1>14. FreshOk(w)'
  BY <1>1, <1>2, <1>7, <1>8, <1>10
     DEF FreshOk, Holds, IsHeld, Id, Allocated, Resolved, Planned, Unrecorded
<1>15. WriterOk(w)'
  <2>1. Linked(w)'
    BY <1>2, <1>9, LinkedStays
  <2> QED  BY <1>7, <1>8, <1>12, <1>13, <1>14, <2>1 DEF WriterOk, KnownOk, Knowing
<1> QED  BY <1>7, <1>8, <1>9, <1>11, <1>15, Assembled

\* What the new names do to the numbers and to the facts: no object had any of
\* them, so nothing comes to be held that was not.
LEMMA NamesAreRecorded ==
    ASSUME Inv, NEW w \in Writers, append[w].phase \in Unrecorded,
           \A o \in append[w].here : number[o] = 0,
           number' = [o \in Everything |-> IF o \in append[w].here THEN append[w].seqOf[o] ELSE number[o]],
           UNCHANGED <<counter, located, entries, packed>>, Moves(w), append'[w].phase \notin Unrecorded
    PROVE  Grows /\ NumbersOk' /\ ReservedOk' /\ Facts'
<1> DEFINE here == append[w].here
           new == append[w].seqOf
<1>1. Pending(w) = here /\ Pending(w)' = {} /\ \A v \in Writers \ {w} : Pending(v)' = Pending(v)
  BY DEF Pending, Moves
<1>2. \A o \in here :
        /\ o \in Everything /\ new[o] \in Nat \ {0} /\ new[o] < counter[KindOf[o]]
        /\ \A x \in Everything : KindOf[x] = KindOf[o] => number[x] # new[o]
        /\ \A x \in here : KindOf[x] = KindOf[o] /\ x # o => new[x] # new[o]
        /\ \A v \in Writers \ {w} : \A x \in Pending(v) :
              KindOf[x] = KindOf[o] => append[v].seqOf[x] # new[o]
  BY <1>1 DEF Inv, ReservedOk
<1>3. /\ \A o \in here : number'[o] = new[o] /\ number[o] = 0
      /\ \A o \in Everything \ here : number'[o] = number[o]
      /\ number' \in [Everything -> Nat]
  BY <1>2 DEF Inv, NumbersOk
<1> HIDE DEF here, new
<1>4. Grows
  BY <1>3 DEF Grows
<1>5. NumbersOk'
  <2>1. \A x \in Everything : number'[x] < counter[KindOf[x]]
    BY <1>2, <1>3 DEF Inv, NumbersOk
  <2>2. ASSUME NEW x \in Everything, NEW y \in Everything, x # y, KindOf[x] = KindOf[y], number'[x] # 0
        PROVE  number'[x] # number'[y]
    <3>1. CASE x \in here /\ y \in here
      BY <1>2, <1>3, <2>2, <3>1
    <3>2. CASE x \in here /\ y \notin here
      BY <1>2, <1>3, <2>2, <3>2
    <3>3. CASE x \notin here /\ y \in here
      BY <1>2, <1>3, <2>2, <3>3
    <3>4. CASE x \notin here /\ y \notin here
      BY <1>3, <2>2, <3>4 DEF Inv, NumbersOk
    <3> QED  BY <3>1, <3>2, <3>3, <3>4
  <2> QED  BY <1>3, <2>1, <2>2 DEF Inv, NumbersOk
<1>6. ReservedOk'
  <2> SUFFICES ASSUME NEW v \in Writers, NEW o \in Pending(v)'
      PROVE  /\ o \in Everything
             /\ append'[v].seqOf[o] \in Nat \ {0} /\ append'[v].seqOf[o] < counter'[KindOf[o]]
             /\ \A x \in Everything : KindOf[x] = KindOf[o] => number'[x] # append'[v].seqOf[o]
             /\ \A u \in Writers : \A x \in Pending(u)' :
                   KindOf[x] = KindOf[o] /\ (u # v \/ x # o) => append'[u].seqOf[x] # append'[v].seqOf[o]
    BY DEF ReservedOk
  <2>1. v # w /\ append'[v] = append[v] /\ o \in Pending(v)
    BY <1>1 DEF Moves
  <2>2. /\ o \in Everything
        /\ append[v].seqOf[o] \in Nat \ {0} /\ append[v].seqOf[o] < counter[KindOf[o]]
        /\ \A x \in Everything : KindOf[x] = KindOf[o] => number[x] # append[v].seqOf[o]
    BY <2>1 DEF Inv, ReservedOk
  <2>3. \A x \in here : KindOf[x] = KindOf[o] => new[x] # append[v].seqOf[o]
    BY <1>2, <2>1
  <2>4. \A x \in Everything : KindOf[x] = KindOf[o] => number'[x] # append'[v].seqOf[o]
    BY <1>3, <2>1, <2>2, <2>3
  <2>5. ASSUME NEW u \in Writers, NEW x \in Pending(u)', KindOf[x] = KindOf[o], u # v \/ x # o
        PROVE  append'[u].seqOf[x] # append'[v].seqOf[o]
    <3>1. u # w /\ append'[u] = append[u] /\ x \in Pending(u)
      BY <1>1, <2>5 DEF Moves
    <3> QED  BY <2>1, <2>5, <3>1 DEF Inv, ReservedOk
  <2> QED  BY <2>1, <2>2, <2>4, <2>5
<1>7. \A id : IsHeld(id)' <=> IsHeld(id)
  BY DEF IsHeld
<1>8. LocatedOk'
  <2>1. \A l \in located : \E o \in Everything :
          KindOf[o] # "commit" /\ number'[o] # 0 /\ l.of = Id(o, number'[o])
    BY <1>4 DEF Inv, Facts, LocatedOk, Grows
  <2>2. \A l \in located : l.base # 0 => IsHeld(<<l.of[1], l.base>>)'
    BY <1>7 DEF Inv, Facts, LocatedOk
  <2> QED  BY <2>1, <2>2 DEF LocatedOk
<1>9. EntriesOk'
  <2> SUFFICES ASSUME NEW e \in entries
               PROVE  \E t \in Everything : \E x \in Links[t] :
                        /\ KindOf[t] = "tree" /\ number'[t] # 0 /\ number'[x] # 0
                        /\ e.tree = number'[t] /\ e.entry = Id(x, number'[x])
    BY DEF EntriesOk
  <2>1. PICK t \in Everything : \E x \in Links[t] :
          /\ KindOf[t] = "tree" /\ number[t] # 0 /\ number[x] # 0
          /\ e.tree = number[t] /\ e.entry = Id(x, number[x])
    BY DEF Inv, Facts, EntriesOk
  <2>2. PICK x \in Links[t] :
          /\ KindOf[t] = "tree" /\ number[t] # 0 /\ number[x] # 0
          /\ e.tree = number[t] /\ e.entry = Id(x, number[x])
    BY <2>1
  <2>3. number'[t] = number[t] /\ number'[x] = number[x]
    BY <1>4, <2>2, Objects DEF Grows
  <2> QED  BY <2>2, <2>3
<1>10. ASSUME NEW t \in Everything, KindOf[t] = "tree", Holds(t)'
       PROVE  Holds(t)
  <2>1. number'[t] # 0 /\ IsHeld(<<KindOf[t], number'[t]>>)
    BY <1>7, <1>10 DEF Holds, Id
  <2>2. PICK o \in Everything : KindOf[o] = KindOf[t] /\ number'[t] = number[o] /\ number[o] # 0
    BY <2>1, HeldIsNumbered DEF Inv, Facts
  <2>3. number'[o] = number[o]
    BY <1>4, <2>2 DEF Grows
  <2>4. o = t
    BY <1>5, <2>1, <2>2, <2>3 DEF NumbersOk
  <2> QED  BY <2>1, <2>2, <2>4 DEF Holds, Id
<1>11. TreesOk'
  <2> SUFFICES ASSUME NEW t \in Everything, KindOf[t] = "tree", Holds(t)', NEW x \in Links[t]
               PROVE  Holds(x)' /\ [tree |-> number'[t], entry |-> Id(x, number'[x])] \in entries
    BY DEF TreesOk, Id
  <2>1. Holds(t) /\ Holds(x) /\ [tree |-> number[t], entry |-> Id(x, number[x])] \in entries
    BY <1>10 DEF Inv, Facts, TreesOk
  <2>2. number'[t] = number[t] /\ number'[x] = number[x] /\ Holds(x)'
    BY <1>4, <2>1, Objects, HeldStays DEF Grows, Holds
  <2> QED  BY <2>1, <2>2
<1>12. PackedOk'
  <2> SUFFICES ASSUME NEW e \in packed
               PROVE  \E c \in Everything :
                        /\ KindOf[c] = "commit" /\ number'[c] # 0 /\ e.commit = number'[c]
                        /\ \A r \in Links[c] : Holds(r)' /\ e.root = number'[r]
                        /\ e.parents = {number'[q] : q \in Forebears[c]}
                        /\ \A q \in Forebears[c] : number'[q] # 0 /\ InGraph(number[q])'
                        /\ \A x \in e.holds : \E l \in located' : l.of = x /\ l.pack = e.commit
    <3>1. packed' = packed
      OBVIOUS
    <3> QED  BY <3>1 DEF PackedOk
  <2>1. PICK c \in Everything :
          /\ KindOf[c] = "commit" /\ number[c] # 0 /\ e.commit = number[c]
          /\ \A r \in Links[c] : Holds(r) /\ e.root = number[r]
          /\ e.parents = {number[q] : q \in Forebears[c]}
          /\ \A q \in Forebears[c] : number[q] # 0 /\ InGraph(number[q])
          /\ \A x \in e.holds : \E l \in located : l.of = x /\ l.pack = e.commit
    BY DEF Inv, Facts, PackedOk
  <2>2. number'[c] = number[c]
    BY <1>4, <2>1 DEF Grows
  <2>3. \A r \in Links[c] : Holds(r)' /\ e.root = number'[r]
    BY <1>4, <2>1, Objects, HeldStays DEF Grows, Holds
  <2>4. \A q \in Forebears[c] : number'[q] = number[q] /\ number'[q] # 0 /\ InGraph(number[q])'
    BY <1>4, <2>1, Objects, HeldStays DEF Grows
  <2>5. e.parents = {number'[q] : q \in Forebears[c]}
    BY <2>1, <2>4
  <2> QED  BY <2>1, <2>2, <2>3, <2>4, <2>5
<1> QED  BY <1>4, <1>5, <1>6, <1>8, <1>9, <1>11, <1>12 DEF Facts

LEMMA RecordNamesKeepsInv ==
    ASSUME Inv, NEW w \in Writers, RecordNames(w)
    PROVE  Inv'
<1> DEFINE a == append[w]
           raced == \E o \in a.here : number[o] # 0
           again == [phase |-> "promoted", known |-> <<>>, attempt |-> a.attempt + 1]
           d == [a EXCEPT !.phase = "numbered"]
<1>1. /\ a.phase = "ranked"
      /\ append' = [append EXCEPT ![w] =
            IF ~ raced THEN d
            ELSE IF a.attempt < MaxAppendAttempts THEN again ELSE Over0("gave up")]
      /\ number' = [o \in Everything |-> IF ~ raced /\ o \in a.here THEN a.seqOf[o] ELSE number[o]]
      /\ UNCHANGED <<counter, located, entries, packed>>
  BY DEF RecordNames
<1>2. WriterOk(w) /\ Linked(w) /\ PlanOk(w) /\ NamesOk(w) /\ FreshOk(w)
  BY <1>1 DEF Inv, WriterOk, Alive, Planned, Unrecorded
<1>3. CASE raced
  <2> DEFINE b == IF a.attempt < MaxAppendAttempts THEN again ELSE Over0("gave up")
  <2>1. append' = [append EXCEPT ![w] = b] /\ number' = number
    BY <1>1, <1>3 DEF Inv, NumbersOk
  <2>2. b.phase \in {"promoted", "gave up"} /\ (b.phase = "promoted" => b.known = <<>>)
    BY DEF Over0
  <2> HIDE DEF b
  <2>3. Moves(w) /\ append'[w] = b
    BY <2>1, MovesOne DEF Inv
  <2>4. Facts' /\ Grows
    BY <1>1, <2>1, FactsStay DEF Inv
  <2>5. NumbersOk' /\ ReservedOk'
    BY <1>1, <2>1, <2>2, <2>3, NothingPending DEF Inv, Unrecorded
  <2>6. WriterOk(w)'
    <3>1. Linked(w)'
      BY <1>2, <2>4, LinkedStays
    <3>2. KnownOk(w)'
      <4>0. DOMAIN <<>> = {}
        OBVIOUS
      <4>1. append'[w].phase \in Knowing => DOMAIN append'[w].known = {}
        BY <2>2, <2>3, <4>0 DEF Knowing
      <4> QED  BY <4>1 DEF KnownOk
    <3> QED  BY <2>2, <2>3, <3>1, <3>2
             DEF WriterOk, PlanOk, NamesOk, FreshOk, Planned, Resolved, Allocated, Unrecorded
  <2> QED  BY <2>2, <2>3, <2>4, <2>5, <2>6, Assembled
<1>4. CASE ~ raced
  <2>1. /\ append' = [append EXCEPT ![w] = d]
        /\ number' = [o \in Everything |-> IF o \in a.here THEN a.seqOf[o] ELSE number[o]]
        /\ \A o \in a.here : number[o] = 0
    BY <1>1, <1>4
  <2>2. IsOn(a, NamedFields)
    BY <1>1 DEF Inv, Kinds
  <2>3. /\ d.phase = "numbered" /\ d.insert = a.insert /\ d.here = a.here /\ d.seqOf = a.seqOf
        /\ d.fresh = a.fresh
    BY <2>2 DEF IsOn, NamedFields
  <2> HIDE DEF d
  <2>4. Moves(w) /\ append'[w] = d
    BY <2>1, MovesOne DEF Inv
  <2>5. Grows /\ NumbersOk' /\ ReservedOk' /\ Facts'
    BY <1>1, <2>1, <2>3, <2>4, NamesAreRecorded DEF Unrecorded
  <2>6. Relevant(w)' = Relevant(w) /\ Named(w)' = Named(w)
    BY <2>3, <2>4, NamesFollowThePlan
  <2>7. /\ a.insert \subseteq Brought(w) /\ a.here \subseteq a.insert \union Relevant(w)
        /\ \A c \in Brought(w) \ a.insert : number[c] # 0 /\ InGraph(number[c])
        /\ \A c \in CommitsNamed(w) :
             /\ c \in DOMAIN a.seqOf /\ a.seqOf[c] # 0
             /\ a.seqOf[c] = number[c] \/ c \in a.here
    BY <1>1, <1>2 DEF PlanOk, Planned, Unrecorded
  <2>8. /\ \A c \in CommitsNamed(w) : c \in Everything
        /\ \A o \in Named(w) : o \in Everything
        /\ Relevant(w) \subseteq Named(w)
    BY <2>7, NamedIsPushed, Pushed
  <2>9. \A o \in Everything : a.seqOf[o] # 0 /\ (a.seqOf[o] = number[o] \/ o \in a.here)
                                => number'[o] = a.seqOf[o]
    BY <2>1
  <2>10. PlanOk(w)'
    <3>1. \A c \in Brought(w) \ a.insert : number'[c] # 0 /\ InGraph(number[c])'
      BY <2>5, <2>7, <2>8, HeldStays DEF CommitsNamed
    <3> QED  BY <2>3, <2>4, <2>6, <2>7, <2>8, <2>9, <3>1 DEF PlanOk
  <2>11. /\ \A o \in Named(w) : o \in DOMAIN a.seqOf
         /\ \A o \in Named(w) \ Relevant(w) : a.seqOf[o] = number[o] /\ Holds(o)
         /\ \A o \in Relevant(w) : a.seqOf[o] # 0 /\ (a.seqOf[o] = number[o] \/ o \in a.here)
    BY <1>1, <1>2 DEF NamesOk, Allocated, Resolved, Planned, Unrecorded
  <2>12. NamesOk(w)'
    <3>1. \A o \in Named(w) \ Relevant(w) : a.seqOf[o] = number'[o] /\ Holds(o)'
      BY <2>5, <2>8, <2>11, HeldStays DEF Grows, Holds
    <3>2. \A o \in Relevant(w) : a.seqOf[o] # 0 /\ a.seqOf[o] = number'[o]
      BY <2>8, <2>9, <2>11
    <3> QED  BY <2>3, <2>4, <2>6, <2>11, <3>1, <3>2 DEF NamesOk
  <2>13. FreshOk(w)'
    <3>1. a.fresh \subseteq Relevant(w) /\ \A o \in Relevant(w) \ a.fresh : Holds(o)
      BY <1>1, <1>2 DEF FreshOk, Allocated, Resolved, Planned, Unrecorded
    <3>2. \A o \in Relevant(w) \ a.fresh : Holds(o)'
      BY <2>5, <2>8, <3>1, HeldStays
    <3> QED  BY <2>3, <2>4, <2>6, <3>1, <3>2 DEF FreshOk
  <2>14. WriterOk(w)'
    <3>1. Linked(w)'
      BY <1>2, <2>5, LinkedStays
    <3> QED  BY <2>3, <2>4, <2>10, <2>12, <2>13, <3>1 DEF WriterOk, KnownOk, Knowing
  <2> QED  BY <2>3, <2>4, <2>5, <2>14, Assembled
<1> QED  BY <1>3, <1>4

\* A push that has its names writes true facts: all it names is held once the
\* journal is committed.
LEMMA JournalIsTrue ==
    ASSUME Inv, NEW w \in Writers, CommitJournal(w)
    PROVE  Grows /\ Facts'
<1> DEFINE a == append[w]
<1>1. /\ a.phase = "numbered"
      /\ located' = located \union LocationsOf(w)
      /\ entries' = entries \union ChildrenOf(w)
      /\ packed' = packed \union BuildCommits(w)
      /\ UNCHANGED <<number, counter>>
  BY DEF CommitJournal
<1>2. Linked(w) /\ PlanOk(w) /\ NamesOk(w) /\ FreshOk(w)
  BY <1>1 DEF Inv, WriterOk, Alive, Planned, Unrecorded
<1>3. /\ a.insert \subseteq Brought(w)
      /\ \A c \in Brought(w) \ a.insert : number[c] # 0 /\ InGraph(number[c])
      /\ \A c \in CommitsNamed(w) : a.seqOf[c] = number[c] /\ number[c] # 0
  BY <1>1, <1>2 DEF PlanOk, Planned, Unrecorded
<1>4. /\ \A o \in Named(w) : a.seqOf[o] = number[o] /\ number[o] # 0
      /\ \A o \in Named(w) \ Relevant(w) : Holds(o)
  BY <1>1, <1>2 DEF NamesOk, Holds, Allocated, Resolved, Planned, Unrecorded
<1>5. a.fresh \subseteq Relevant(w) /\ \A o \in Relevant(w) \ a.fresh : Holds(o)
  BY <1>1, <1>2 DEF FreshOk, Allocated, Resolved, Planned, Unrecorded
<1>6. /\ \A o \in Named(w) : o \in Everything /\ KindOf[o] # "commit"
      /\ Relevant(w) \subseteq Named(w) /\ Bases(w) \subseteq Named(w)
      /\ \A c \in a.insert : Links[c] \subseteq Named(w)
      /\ \A o \in Relevant(w) : Links[o] \subseteq Named(w)
  BY <1>3, NamedIsPushed
<1>7. Grows
  BY <1>1 DEF Grows
<1>8. ASSUME NEW c \in a.insert, NEW o \in DOMAIN Brings[w][c]
      PROVE  /\ o \in Relevant(w) /\ o \in Everything
             /\ \E l \in located' : l.of = Id(o, number[o]) /\ l.pack = a.seqOf[c]
  <2>1. o \in Relevant(w)
    BY DEF Relevant
  <2>2. a.seqOf[o] = number[o] /\ o \in Everything
    BY <1>4, <1>6, <2>1
  <2> DEFINE l == [of |-> Id(o, a.seqOf[o]), pack |-> a.seqOf[c],
                   base |-> IF Brings[w][c][o] = NoBase THEN 0 ELSE a.seqOf[Brings[w][c][o]]]
  <2>3. l \in LocationsOf(w)
    BY DEF LocationsOf
  <2>4. l.of = Id(o, number[o]) /\ l.pack = a.seqOf[c]
    BY <2>2
  <2> HIDE DEF l
  <2> QED  BY <1>1, <2>1, <2>2, <2>3, <2>4
<1>9. \A o \in Named(w) : Holds(o)'
  <2>1. \A o \in Named(w) \ Relevant(w) : Holds(o)'
    BY <1>4, <1>6, <1>7, HeldStays
  <2>2. ASSUME NEW o \in Relevant(w) PROVE Holds(o)'
    <3>1. PICK c \in a.insert : o \in DOMAIN Brings[w][c]
      BY DEF Relevant
    <3>2. \E l \in located' : l.of = Id(o, number[o])
      BY <1>8, <3>1
    <3> QED  BY <1>1, <1>4, <1>6, <3>2 DEF Holds, IsHeld, Id
  <2> QED  BY <2>1, <2>2
<1>10. ASSUME NEW l \in LocationsOf(w)
       PROVE  \E o \in Relevant(w) :
                /\ l.of = Id(o, number[o])
                /\ l.base # 0 => \E b \in Named(w) : KindOf[b] = KindOf[o] /\ l.base = number[b]
  <2>1. PICK c \in a.insert : \E o \in DOMAIN Brings[w][c] :
          l = [of |-> Id(o, a.seqOf[o]), pack |-> a.seqOf[c],
               base |-> IF Brings[w][c][o] = NoBase THEN 0 ELSE a.seqOf[Brings[w][c][o]]]
    BY <1>10 DEF LocationsOf
  <2>2. PICK o \in DOMAIN Brings[w][c] :
          l = [of |-> Id(o, a.seqOf[o]), pack |-> a.seqOf[c],
               base |-> IF Brings[w][c][o] = NoBase THEN 0 ELSE a.seqOf[Brings[w][c][o]]]
    BY <2>1
  <2> DEFINE b == Brings[w][c][o]
  <2>3. l.of = Id(o, a.seqOf[o]) /\ l.base = IF b = NoBase THEN 0 ELSE a.seqOf[b]
    BY <2>2
  <2>4. o \in Relevant(w) /\ a.seqOf[o] = number[o]
    BY <1>4, <1>6, <1>8
  <2>5. b # NoBase => b \in Everything /\ KindOf[b] = KindOf[o]
    BY <1>3, ImagesAssumption
  <2>6. b # NoBase => b \in Bases(w)
    BY <2>5 DEF Bases
  <2>7. b # NoBase => b \in Named(w) /\ a.seqOf[b] = number[b]
    BY <1>4, <1>6, <2>6
  <2> HIDE DEF b
  <2> QED  BY <2>3, <2>4, <2>5, <2>7
<1>11. LocatedOk'
  <2>1. ASSUME NEW l \in located
        PROVE  /\ \E o \in Everything : KindOf[o] # "commit" /\ number[o] # 0 /\ l.of = Id(o, number[o])
               /\ l.base # 0 => IsHeld(<<l.of[1], l.base>>)'
    <3>1. l.base # 0 => IsHeld(<<l.of[1], l.base>>)
      BY DEF Inv, Facts, LocatedOk
    <3>2. l.base # 0 => IsHeld(<<l.of[1], l.base>>)'
      BY <1>7, <3>1 DEF IsHeld, Grows
    <3> QED  BY <3>2 DEF Inv, Facts, LocatedOk
  <2>2. ASSUME NEW l \in LocationsOf(w)
        PROVE  /\ \E o \in Everything : KindOf[o] # "commit" /\ number[o] # 0 /\ l.of = Id(o, number[o])
               /\ l.base # 0 => IsHeld(<<l.of[1], l.base>>)'
    <3>1. PICK o \in Relevant(w) :
                /\ l.of = Id(o, number[o])
                /\ l.base # 0 => \E b \in Named(w) : KindOf[b] = KindOf[o] /\ l.base = number[b]
      BY <1>10
    <3>2. l.of[1] = KindOf[o]
      BY <3>1 DEF Id
    <3>3. ASSUME l.base # 0 PROVE IsHeld(<<l.of[1], l.base>>)'
      <4>1. PICK b \in Named(w) : KindOf[b] = KindOf[o] /\ l.base = number[b]
        BY <3>1, <3>3
      <4>2. IsHeld(<<KindOf[b], number[b]>>)'
        BY <1>1, <1>9 DEF Holds, Id
      <4> QED  BY <1>1, <3>2, <4>1, <4>2 DEF IsHeld
    <3> QED  BY <1>4, <1>6, <3>1, <3>3
  <2> QED  BY <1>1, <2>1, <2>2 DEF LocatedOk, Id
<1>12. ASSUME NEW t \in a.fresh, NEW x \in Links[t]
       PROVE  /\ t \in Everything /\ KindOf[t] = "tree" /\ number[t] # 0 /\ x \in Named(w)
              /\ a.seqOf[t] = number[t] /\ a.seqOf[x] = number[x] /\ number[x] # 0
  <2>1. t \in Named(w) /\ x \in Named(w) /\ t \in Everything /\ KindOf[t] # "commit"
    BY <1>5, <1>6
  <2>2. KindOf[t] = "tree"
    BY <2>1, LinksAssumption
  <2> QED  BY <1>4, <2>1, <2>2
<1>13. EntriesOk'
  <2>1. ASSUME NEW e \in entries
        PROVE  \E t \in Everything : \E x \in Links[t] :
                 /\ KindOf[t] = "tree" /\ number[t] # 0 /\ number[x] # 0
                 /\ e.tree = number[t] /\ e.entry = Id(x, number[x])
    BY DEF Inv, Facts, EntriesOk
  <2>2. ASSUME NEW e \in ChildrenOf(w)
        PROVE  \E t \in Everything : \E x \in Links[t] :
                 /\ KindOf[t] = "tree" /\ number[t] # 0 /\ number[x] # 0
                 /\ e.tree = number[t] /\ e.entry = Id(x, number[x])
    <3>1. PICK t \in a.fresh : \E x \in Links[t] : e = [tree |-> a.seqOf[t], entry |-> Id(x, a.seqOf[x])]
      BY <2>2 DEF ChildrenOf
    <3>2. PICK x \in Links[t] : e = [tree |-> a.seqOf[t], entry |-> Id(x, a.seqOf[x])]
      BY <3>1
    <3> QED  BY <1>12, <3>2
  <2> QED  BY <1>1, <2>1, <2>2 DEF EntriesOk, Id
<1>14. TreesOk'
  <2> SUFFICES ASSUME NEW t \in Everything, KindOf[t] = "tree", Holds(t)', NEW x \in Links[t]
               PROVE  Holds(x)' /\ [tree |-> number[t], entry |-> Id(x, number[x])] \in entries'
    BY <1>1 DEF TreesOk, Id
  <2>1. CASE Holds(t)
    <3>1. Holds(x) /\ [tree |-> number[t], entry |-> Id(x, number[x])] \in entries
      BY <2>1 DEF Inv, Facts, TreesOk
    <3> QED  BY <1>1, <1>7, <3>1, Objects, HeldStays
  <2>2. CASE ~ Holds(t)
    <3>1. number[t] # 0 /\ \E l \in located' : l.of = <<KindOf[t], number[t]>>
      BY <1>1 DEF Holds, IsHeld, Id
    <3>2. PICK l \in LocationsOf(w) : l.of = <<KindOf[t], number[t]>>
      BY <1>1, <2>2, <3>1 DEF Holds, IsHeld, Id
    <3>3. PICK o \in Relevant(w) : l.of = <<KindOf[o], number[o]>>
      BY <1>10 DEF Id
    <3>4. KindOf[o] = KindOf[t] /\ number[o] = number[t] /\ o \in Everything
      BY <1>6, <3>2, <3>3
    <3>5. o = t
      BY <3>1, <3>4 DEF Inv, NumbersOk
    <3>6. t \in a.fresh
      BY <1>5, <2>2, <3>5
    <3>7. [tree |-> a.seqOf[t], entry |-> Id(x, a.seqOf[x])] \in ChildrenOf(w)
      BY <3>6 DEF ChildrenOf
    <3> QED  BY <1>1, <1>9, <1>12, <3>6, <3>7
  <2> QED  BY <2>1, <2>2
<1>15. \A q \in Parents(Brought(w)) : number[q] # 0 /\ InGraph(number[q])'
  <2> SUFFICES ASSUME NEW q \in Parents(Brought(w)) PROVE number[q] # 0 /\ InGraph(number[q])'
    OBVIOUS
  <2>1. number[q] # 0 /\ a.seqOf[q] = number[q] /\ q \in Everything
    BY <1>3, Pushed DEF CommitsNamed
  <2>2. CASE q \in a.insert
    <3> DEFINE e == [commit |-> a.seqOf[q], parents |-> {a.seqOf[p] : p \in Forebears[q]},
                     root |-> a.seqOf[CHOOSE r \in Links[q] : TRUE],
                     holds |-> {Id(o, a.seqOf[o]) : o \in DOMAIN Brings[w][q]}]
    <3>1. e \in BuildCommits(w)
      BY <2>2 DEF BuildCommits
    <3>2. e.commit = number[q]
      BY <2>1
    <3> HIDE DEF e
    <3> QED  BY <1>1, <2>1, <3>1, <3>2 DEF InGraph
  <2>3. CASE q \notin a.insert
    <3>1. InGraph(number[q])
      BY <1>2, <1>3, <2>3 DEF Linked
    <3> QED  BY <1>1, <1>7, <2>1, <3>1, HeldStays
  <2> QED  BY <2>2, <2>3
<1> DEFINE True(e) == \E c \in Everything :
                        /\ KindOf[c] = "commit" /\ number[c] # 0 /\ e.commit = number[c]
                        /\ \A r \in Links[c] : Holds(r)' /\ e.root = number[r]
                        /\ e.parents = {number[q] : q \in Forebears[c]}
                        /\ \A q \in Forebears[c] : number[q] # 0 /\ InGraph(number[q])'
                        /\ \A x \in e.holds : \E l \in located' : l.of = x /\ l.pack = e.commit
<1>16. ASSUME NEW e \in packed PROVE True(e)
  <2>1. PICK c \in Everything :
          /\ KindOf[c] = "commit" /\ number[c] # 0 /\ e.commit = number[c]
          /\ \A r \in Links[c] : Holds(r) /\ e.root = number[r]
          /\ e.parents = {number[q] : q \in Forebears[c]}
          /\ \A q \in Forebears[c] : number[q] # 0 /\ InGraph(number[q])
          /\ \A x \in e.holds : \E l \in located : l.of = x /\ l.pack = e.commit
    BY DEF Inv, Facts, PackedOk
  <2>2. \A r \in Links[c] : Holds(r)'
    BY <1>7, <2>1, Objects, HeldStays
  <2>3. \A q \in Forebears[c] : InGraph(number[q])'
    BY <1>7, <2>1, Objects, HeldStays
  <2>4. \A x \in e.holds : \E l \in located' : l.of = x /\ l.pack = e.commit
    BY <1>1, <2>1
  <2> QED  BY <2>1, <2>2, <2>3, <2>4
<1>17. ASSUME NEW e \in BuildCommits(w) PROVE True(e)
  <2>1. PICK c \in a.insert :
          e = [commit |-> a.seqOf[c], parents |-> {a.seqOf[q] : q \in Forebears[c]},
               root |-> a.seqOf[CHOOSE r \in Links[c] : TRUE],
               holds |-> {Id(o, a.seqOf[o]) : o \in DOMAIN Brings[w][c]}]
    BY <1>17 DEF BuildCommits
  <2>2. /\ e.commit = a.seqOf[c] /\ e.parents = {a.seqOf[q] : q \in Forebears[c]}
        /\ e.root = a.seqOf[CHOOSE r \in Links[c] : TRUE]
        /\ e.holds = {Id(o, a.seqOf[o]) : o \in DOMAIN Brings[w][c]}
    BY <2>1
  <2>3. c \in Brought(w) /\ c \in Everything /\ KindOf[c] = "commit"
    BY <1>3, Pushed
  <2>4. number[c] # 0 /\ e.commit = number[c]
    BY <1>3, <2>2, <2>3 DEF CommitsNamed
  <2>5. \A r \in Links[c] : Holds(r)' /\ e.root = number[r]
    <3>1. PICK r \in Everything : Links[c] = {r}
      BY <2>3, LinksAssumption
    <3>2. (CHOOSE s \in Links[c] : TRUE) = r
      BY <3>1
    <3>3. r \in Named(w)
      BY <1>6, <3>1
    <3> QED  BY <1>4, <1>9, <2>2, <3>1, <3>2, <3>3
  <2>6. Forebears[c] \subseteq Parents(Brought(w))
    BY <2>3 DEF Parents
  <2>7. \A q \in Forebears[c] : a.seqOf[q] = number[q] /\ number[q] # 0 /\ InGraph(number[q])'
    BY <1>3, <1>15, <2>6 DEF CommitsNamed
  <2>8. e.parents = {number[q] : q \in Forebears[c]}
    BY <2>2, <2>7
  <2>9. ASSUME NEW x \in e.holds PROVE \E l \in located' : l.of = x /\ l.pack = e.commit
    <3>1. PICK o \in DOMAIN Brings[w][c] : x = Id(o, a.seqOf[o])
      BY <2>2, <2>9
    <3>2. a.seqOf[o] = number[o]
      BY <1>4, <1>6, <1>8
    <3> QED  BY <1>8, <2>2, <3>1, <3>2
  <2> QED  BY <2>3, <2>4, <2>5, <2>7, <2>8, <2>9
<1>18. PackedOk'
  <2>1. \A e \in packed' : True(e)
    BY <1>1, <1>16, <1>17
  <2>2. number' = number
    BY <1>1
  <2> QED  BY <2>1, <2>2 DEF PackedOk
<1> QED  BY <1>7, <1>11, <1>13, <1>14, <1>18 DEF Facts

LEMMA CommitJournalKeepsInv ==
    ASSUME Inv, NEW w \in Writers, CommitJournal(w)
    PROVE  Inv'
<1>1. append' = [append EXCEPT ![w] = Over0("done")] /\ UNCHANGED <<number, counter>>
  BY DEF CommitJournal
<1>2. Over0("done").phase = "done"
  BY DEF Over0
<1>3. Moves(w) /\ append'[w].phase = "done"
  BY <1>1, <1>2, MovesOne DEF Inv
<1>4. Grows /\ Facts'
  BY JournalIsTrue
<1>5. NumbersOk' /\ ReservedOk'
  BY <1>1, <1>3, NothingPending DEF Inv, Unrecorded
<1>6. WriterOk(w)'
  BY <1>3 DEF WriterOk, KnownOk, PlanOk, NamesOk, FreshOk, Alive, Knowing, Planned, Resolved, Allocated,
              Unrecorded
<1> QED  BY <1>3, <1>4, <1>5, <1>6, Assembled

-----------------------------------------------------------------------------
(* The theorem.                                                            *)

LEMMA InitHolds == NInit => Inv
<1> SUFFICES ASSUME NInit PROVE Inv
  OBVIOUS
<1>1. \A w \in Writers : append[w] = Idle0 /\ append[w].phase = "idle"
  BY DEF NInit, Idle0
<1>2. Kinds
  BY <1>1 DEF NInit, Kinds, IsOn
<1>3. NumbersOk
  <2>1. \A x \in Everything : number[x] = 0 /\ counter[KindOf[x]] = 1
    BY Objects DEF NInit
  <2>2. number \in [Everything -> Nat] /\ counter \in [{"commit", "tree", "blob"} -> Nat \ {0}]
    BY DEF NInit
  <2> QED  BY <2>1, <2>2 DEF NumbersOk
<1>4. ReservedOk
  BY <1>1 DEF ReservedOk, Pending, Unrecorded
<1>5. Facts
  BY DEF NInit, Facts, LocatedOk, EntriesOk, TreesOk, PackedOk, Holds, IsHeld
<1>6. \A w \in Writers : WriterOk(w)
  BY <1>1 DEF WriterOk, KnownOk, PlanOk, NamesOk, FreshOk, Alive, Knowing, Planned, Resolved, Allocated,
              Unrecorded
<1> QED  BY <1>2, <1>3, <1>4, <1>5, <1>6 DEF Inv

LEMMA StepHolds == Inv /\ [NNext]_nvars => Inv'
<1> SUFFICES ASSUME Inv, [NNext]_nvars PROVE Inv'
  OBVIOUS
<1>1. CASE UNCHANGED nvars
  <2>1. /\ UNCHANGED <<number, counter, located, entries, packed>> /\ append' = append
    BY <1>1 DEF nvars
  <2>2. Facts' /\ Grows
    BY <2>1, FactsStay DEF Inv
  <2>3. \A w \in Writers : WriterOk(w)'
    BY <2>1, <2>2, OtherWriterStays DEF Inv
  <2>4. NumbersOk' /\ ReservedOk' /\ Kinds'
    BY <2>1 DEF Inv, NumbersOk, ReservedOk, Pending, Kinds
  <2> QED  BY <2>2, <2>3, <2>4 DEF Inv
<1>2. ASSUME NEW w \in Writers, PrefetchIdentities(w) PROVE Inv'
  BY <1>2, PrefetchKeepsInv
<1>3. ASSUME NEW w \in Writers, PlanCommits(w) PROVE Inv'
  BY <1>3, PlanCommitsKeepsInv
<1>4. ASSUME NEW w \in Writers, ResolveObjects(w) PROVE Inv'
  BY <1>4, ResolveObjectsKeepsInv
<1>5. ASSUME NEW w \in Writers, AllocateObjects(w) PROVE Inv'
  BY <1>5, AllocateObjectsKeepsInv
<1>6. ASSUME NEW w \in Writers, Rank(w) PROVE Inv'
  BY <1>6, RankKeepsInv
<1>7. ASSUME NEW w \in Writers, RecordNames(w) PROVE Inv'
  BY <1>7, RecordNamesKeepsInv
<1>8. ASSUME NEW w \in Writers, CommitJournal(w) PROVE Inv'
  BY <1>8, CommitJournalKeepsInv
<1> QED  BY <1>1, <1>2, <1>3, <1>4, <1>5, <1>6, <1>7, <1>8 DEF NNext

\* The entries of a tree that is held are its links, all of them and no other:
\* the facts say so of the object with the tree's number, and that is the tree.
LEMMA EntriesAreLinks ==
    ASSUME NumbersOk, Facts, NEW t \in Everything, KindOf[t] = "tree", Holds(t)
    PROVE  {e.entry : e \in {f \in entries : f.tree = number[t]}} = {Id(x, number[x]) : x \in Links[t]}
<1>1. ASSUME NEW e \in entries, e.tree = number[t] PROVE \E x \in Links[t] : e.entry = Id(x, number[x])
  <2>1. PICK s \in Everything : \E x \in Links[s] :
          /\ KindOf[s] = "tree" /\ number[s] # 0 /\ e.tree = number[s] /\ e.entry = Id(x, number[x])
    BY DEF Facts, EntriesOk
  <2>2. s = t
    BY <1>1, <2>1 DEF NumbersOk
  <2> QED  BY <2>1, <2>2
<1>2. ASSUME NEW x \in Links[t]
      PROVE  \E e \in entries : e.tree = number[t] /\ e.entry = Id(x, number[x])
  <2> DEFINE e == [tree |-> number[t], entry |-> Id(x, number[x])]
  <2>1. e \in entries
    BY DEF Facts, TreesOk
  <2>2. e.tree = number[t] /\ e.entry = Id(x, number[x])
    OBVIOUS
  <2> HIDE DEF e
  <2> QED  BY <2>1, <2>2
<1> QED  BY <1>1, <1>2

LEMMA InvResolves == Inv => NumbersResolve
<1> SUFFICES ASSUME Inv PROVE NumbersResolve
  OBVIOUS
<1>1. \A w \in Writers : append[w].phase # "stranded"
  BY DEF Inv, WriterOk
<1>2. ASSUME NEW e \in packed
      PROVE  \E c \in Everything :
               /\ Id(c, number[c]) = <<"commit", e.commit>>
               /\ {<<"tree", e.root>>} = {Id(r, number[r]) : r \in Links[c]}
               /\ IsHeld(<<"tree", e.root>>)
               /\ e.parents = {number[q] : q \in Forebears[c]} /\ \A q \in e.parents : InGraph(q)
               /\ \A x \in e.holds : \E l \in located : l.of = x /\ l.pack = e.commit
  <2>1. PICK c \in Everything :
          /\ KindOf[c] = "commit" /\ number[c] # 0 /\ e.commit = number[c]
          /\ \A r \in Links[c] : Holds(r) /\ e.root = number[r]
          /\ e.parents = {number[q] : q \in Forebears[c]}
          /\ \A q \in Forebears[c] : number[q] # 0 /\ InGraph(number[q])
          /\ \A x \in e.holds : \E l \in located : l.of = x /\ l.pack = e.commit
    BY DEF Inv, Facts, PackedOk
  <2>2. PICK r \in Everything : KindOf[r] = "tree" /\ Links[c] = {r}
    BY <2>1, LinksAssumption
  <2>3. Id(r, number[r]) = <<"tree", e.root>> /\ IsHeld(<<"tree", e.root>>)
    BY <2>1, <2>2 DEF Holds, Id
  <2>4. {<<"tree", e.root>>} = {Id(s, number[s]) : s \in Links[c]}
    BY <2>2, <2>3
  <2>5. Id(c, number[c]) = <<"commit", e.commit>>
    BY <2>1 DEF Id
  <2>6. \A q \in e.parents : InGraph(q)
    BY <2>1
  <2> QED  BY <2>1, <2>3, <2>4, <2>5, <2>6
<1>3. ASSUME NEW t \in Everything, KindOf[t] = "tree", IsHeld(Id(t, number[t]))
      PROVE  /\ {e.entry : e \in {f \in entries : f.tree = number[t]}} = {Id(x, number[x]) : x \in Links[t]}
             /\ \A x \in Links[t] : IsHeld(Id(x, number[x]))
  <2>1. Holds(t)
    BY <1>3, HeldIsNumbered DEF Holds, Id, Inv, Facts
  <2>2. \A x \in Links[t] : IsHeld(Id(x, number[x]))
    BY <1>3, <2>1 DEF Inv, Facts, TreesOk, Holds
  <2> QED  BY <1>3, <2>1, <2>2, EntriesAreLinks DEF Inv
<1>4. \A l \in located : l.base # 0 => IsHeld(<<l.of[1], l.base>>)
  BY DEF Inv, Facts, LocatedOk
<1> QED  BY <1>1, <1>2, <1>3, <1>4 DEF NumbersResolve

\* Whatever pushes of the same objects do to each other between reading a
\* number and recording it, and wherever one of them stops, every number in
\* the indexes is of an object that is held and is the one that was meant, and
\* no push of connected objects is left without a number it needs
\* (git/ingest/append.rs).
THEOREM NumbersAlwaysResolve == NSpec => []NumbersResolve
  BY InitHolds, StepHolds, InvResolves, PTL DEF NSpec
=============================================================================
