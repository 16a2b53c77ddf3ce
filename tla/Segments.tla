------------------------------ MODULE Segments ------------------------------
(***************************************************************************)
(* One value held as segments (lattice/store/segments.rs), over a catalog  *)
(* of rows and a bucket of objects: writes that put a segment and list it, *)
(* merges that replace several rows by one, the sweep of objects no row    *)
(* names, and reads that compose whatever rows touch a range.              *)
(*                                                                         *)
(* Joining is associative, commutative and idempotent, so a segment is the *)
(* set of the facts joined in it and composing is union.  A segment's size *)
(* is the number of its facts.  Nothing coordinates two merge passes, or a *)
(* pass and a read.                                                        *)
(***************************************************************************)
EXTENDS Naturals, FiniteSets, FiniteSetsExt

CONSTANTS
    Writes,         \* what is recorded: one value a push or a gather lists
    Value,          \* write -> the facts it records
    KeyOf,          \* fact -> the key it is about
    Ranges,         \* the ranges reads ask for, [first, last]
    Readers,        \* reads
    Compactors,     \* processes that run merge passes
    MaxId,          \* bound: segments are named 1 .. MaxId
    TopTier,        \* the tier at which merging saturates (255)
    Fanout,         \* Policy.fanout
    MaxInputs,      \* Policy.max_inputs
    MaxInputBytes,  \* Policy.max_input_bytes
    Graduation,     \* Policy.graduation_bytes
    InlineCeiling   \* Policy.inline_ceiling

Ids == 1 .. MaxId
Facts == UNION {Value[w] : w \in Writes}
Tiers == 0 .. TopTier

ASSUME PolicyIsNatural ==
    {MaxId, TopTier, Fanout, MaxInputs, MaxInputBytes, Graduation, InlineCeiling} \subseteq Nat
ASSUME WritesHaveFacts ==
    /\ DOMAIN Value = Writes
    /\ \A w \in Writes : Value[w] # {} /\ IsFiniteSet(Value[w])
ASSUME FactsHaveKeys == KeyOf \in [Facts -> Nat]
ASSUME RangesAreRanges == Ranges \subseteq [first : Nat, last : Nat]

VARIABLES
    bucket,     \* segments whose object exists
    rows,       \* segments the catalog lists
    content,    \* segment -> the facts in it; {} for a name nobody has taken
    tier,       \* segment -> the generation of merge that made it
    aged,       \* segments made longer ago than the grace window
    write,      \* per write: where it is
    seg,        \* per write: its segment
    pass,       \* per compactor: where it is
    todo,       \* per compactor: merges of its plan still to run
    merge,      \* per compactor: the merge it is running
    taken,      \* per compactor: the rows it found of that merge's inputs
    out,        \* per compactor: the segment it wrote
    junk,       \* per compactor: superseded objects still to delete
    sweep,      \* the sweep: where it is
    found,      \* the sweep: what it listed, then what it will delete
    read,       \* per reader: where it is
    want,       \* per reader: the range it asked for
    listing,    \* per reader: the segments it was listed
    got         \* per reader: what it composed

writing == <<write, seg>>
merging == <<pass, todo, merge, taken, out, junk>>
sweeping == <<sweep, found>>
reads == <<read, want, listing, got>>
vars == <<bucket, rows, content, tier, aged, writing, merging, sweeping, reads>>

Merge == [inputs : SUBSET Ids, tier : Tiers, start : Nat]
NoMerge == [inputs |-> {}, tier |-> 0, start |-> 0]

TypeOK ==
    /\ bucket \subseteq Ids /\ rows \subseteq Ids /\ aged \subseteq Ids
    /\ content \in [Ids -> SUBSET Facts]
    /\ tier \in [Ids -> Tiers]
    /\ write \in [Writes -> {"idle", "put", "over"}]
    /\ seg \in [Writes -> 0 .. MaxId]
    /\ pass \in [Compactors -> {"idle", "planned", "listed", "decoded", "put", "replaced"}]
    /\ todo \in [Compactors -> SUBSET Merge]
    /\ merge \in [Compactors -> Merge]
    /\ taken \in [Compactors -> SUBSET Ids]
    /\ out \in [Compactors -> 0 .. MaxId]
    /\ junk \in [Compactors -> SUBSET Ids]
    /\ sweep \in {"idle", "listed", "read"}
    /\ found \subseteq Ids
    /\ read \in [Readers -> {"idle", "listed", "done"}]
    /\ want \in [Readers -> [first : Nat, last : Nat]]
    /\ listing \in [Readers -> SUBSET Ids]
    /\ got \in [Readers -> SUBSET Facts]

Init ==
    /\ bucket = {} /\ rows = {} /\ aged = {}
    /\ content = [i \in Ids |-> {}]
    /\ tier = [i \in Ids |-> 0]
    /\ write = [w \in Writes |-> "idle"]
    /\ seg = [w \in Writes |-> 0]
    /\ pass = [k \in Compactors |-> "idle"]
    /\ todo = [k \in Compactors |-> {}]
    /\ merge = [k \in Compactors |-> NoMerge]
    /\ taken = [k \in Compactors |-> {}]
    /\ out = [k \in Compactors |-> 0]
    /\ junk = [k \in Compactors |-> {}]
    /\ sweep = "idle" /\ found = {}
    /\ read = [r \in Readers |-> "idle"]
    /\ want = [r \in Readers |-> [first |-> 0, last |-> 0]]
    /\ listing = [r \in Readers |-> {}]
    /\ got = [r \in Readers |-> {}]

-----------------------------------------------------------------------------
(* Segments.                                                               *)

Composed(S) == UNION {content[i] : i \in S}

\* SegmentId::fresh.  Names are opaque, so the next one stands for any.
Fresh(i) == \A j \in Ids : j < i <=> content[j] # {}

\* residence_for: a large segment is an object, a small one is in its row.
Large(facts) == Cardinality(facts) >= Graduation
InBucket(S) == {i \in S : Large(content[i])}

\* The object, if it is one, is there before the row can be.
Put(i, facts, t) ==
    /\ content' = [content EXCEPT ![i] = facts]
    /\ tier' = [tier EXCEPT ![i] = t]
    /\ bucket' = IF Large(facts) THEN bucket \union {i} ELSE bucket

\* Mutant: the ends of the range asked for are left out.
CoversInside(i, K) ==
    \E f, g \in content[i] : KeyOf[f] < K.last /\ KeyOf[g] > K.first

\* covering: first_key <= last and last_key >= first.
Covers(i, K) ==
    \E f, g \in content[i] : KeyOf[f] <= K.last /\ KeyOf[g] >= K.first

InRange(facts, K) == {f \in facts : K.first <= KeyOf[f] /\ KeyOf[f] <= K.last}

-----------------------------------------------------------------------------
(* The plan of a pass (lattice/core/plan.rs).                              *)

Size(i) == Cardinality(content[i])
First(i) == Min({KeyOf[f] : f \in content[i]})
Last(i) == Max({KeyOf[f] : f \in content[i]})

\* sort_key; the sort is stable over the order of a query that gives none.
Before(i, j) ==
    \/ First(i) < First(j)
    \/ First(i) = First(j) /\ Last(i) < Last(j)
    \/ First(i) = First(j) /\ Last(i) = Last(j) /\ i < j

OfTier(S, t) == {i \in S : tier[i] = t}

\* runs: positions 1 .. n of a tier in key order are cut where the run so far
\* is full; a last run of one is dropped.
Runs(T) ==
    LET n == Cardinality(T)
        place(i) == Cardinality({j \in T : Before(j, i)}) + 1
        at == [p \in 1 .. n |-> CHOOSE i \in T : place(i) = p]
        bytes(p, q) == MapThenSumSet(LAMBDA x : Size(at[x]), p .. q)
        full(s, p) ==
            \/ p - s >= IF MaxInputs < 2 THEN 2 ELSE MaxInputs
            \/ p - s >= 2 /\ bytes(s, p) > MaxInputBytes
        start[p \in 0 .. n] ==
            IF p <= 1 THEN p ELSE IF full(start[p - 1], p) THEN p ELSE start[p - 1]
        run(s) == {i \in T : start[place(i)] = s}
    IN  {[inputs |-> run(s), start |-> s] : s \in {q \in 1 .. n : Cardinality(run(q)) >= 2}}

\* More rows are inlined than the ceiling allows, and no tier below has
\* enough of them to relieve that.
Pressured(S, t) ==
    /\ Cardinality(S \ InBucket(S)) > InlineCeiling
    /\ \A q \in Tiers : q < t => Cardinality(OfTier(S, q)) < 2

Due(S, t) ==
    LET n == Cardinality(OfTier(S, t)) IN n >= Fanout \/ (Pressured(S, t) /\ n >= 2)

\* Tier::next saturates.
NextTier(t) == IF t = TopTier THEN t ELSE t + 1

Plan(S) ==
    UNION {{[inputs |-> r.inputs, start |-> r.start, tier |-> NextTier(t)] : r \in Runs(OfTier(S, t))}
             : t \in {q \in Tiers : Due(S, q)}}

-----------------------------------------------------------------------------
(* Writes.                                                                 *)

\* prepare: the segment is put wherever its size says, and not yet listed.
Prepare(w, i) ==
    /\ write[w] = "idle"
    /\ Fresh(i)
    /\ Put(i, Value[w], 0)
    /\ seg' = [seg EXCEPT ![w] = i]
    /\ write' = [write EXCEPT ![w] = "put"]
    /\ UNCHANGED <<rows, aged, merging, sweeping, reads>>

\* The journal the segment is in commits.
Insert(w) ==
    /\ write[w] = "put"
    /\ rows' = rows \union {seg[w]}
    /\ seg' = [seg EXCEPT ![w] = 0]
    /\ write' = [write EXCEPT ![w] = "over"]
    /\ UNCHANGED <<bucket, content, tier, aged, merging, sweeping, reads>>

\* It never does.
LoseWrite(w) ==
    /\ write[w] = "put"
    /\ seg' = [seg EXCEPT ![w] = 0]
    /\ write' = [write EXCEPT ![w] = "over"]
    /\ UNCHANGED <<bucket, rows, content, tier, aged, merging, sweeping, reads>>

-----------------------------------------------------------------------------
(* Merges.                                                                 *)

\* No merge is running.
Leave(k, at) ==
    /\ pass' = [pass EXCEPT ![k] = at]
    /\ merge' = [merge EXCEPT ![k] = NoMerge]
    /\ taken' = [taken EXCEPT ![k] = {}]
    /\ out' = [out EXCEPT ![k] = 0]
    /\ junk' = [junk EXCEPT ![k] = {}]

\* compact: the rows are listed, without bytes, and a plan is made of them.
PlanPass(k) ==
    /\ pass[k] = "idle"
    /\ LET merges == Plan(rows) IN
         merges # {} /\ todo' = [todo EXCEPT ![k] = merges]
    /\ pass' = [pass EXCEPT ![k] = "planned"]
    /\ UNCHANGED <<bucket, rows, content, tier, aged, writing, merge, taken, out, junk,
                   sweeping, reads>>

\* Lowest tier first, then in key order.
IsFirst(m, M) ==
    \A o \in M : m.tier < o.tier \/ (m.tier = o.tier /\ m.start <= o.start)

\* bodies: those of the inputs that are still listed.
ListBodies(k) ==
    /\ pass[k] = "planned"
    /\ \E m \in todo[k] :
         /\ IsFirst(m, todo[k])
         /\ todo' = [todo EXCEPT ![k] = @ \ {m}]
         /\ merge' = [merge EXCEPT ![k] = m]
         /\ taken' = [taken EXCEPT ![k] = rows \intersect m.inputs]
    /\ pass' = [pass EXCEPT ![k] = "listed"]
    /\ UNCHANGED <<bucket, rows, content, tier, aged, writing, out, junk, sweeping, reads>>

\* None of them is: there is nothing to compose, and the next merge is due.
SkipMerge(k) ==
    /\ pass[k] = "listed" /\ taken[k] = {}
    /\ Leave(k, "planned")
    /\ UNCHANGED <<bucket, rows, content, tier, aged, writing, todo, sweeping, reads>>

EndPass(k) ==
    /\ pass[k] = "planned" /\ todo[k] = {}
    /\ Leave(k, "idle")
    /\ UNCHANGED <<bucket, rows, content, tier, aged, writing, todo, sweeping, reads>>

\* decode: one object that is gone fails the pass.
Decode(k) ==
    /\ pass[k] = "listed" /\ taken[k] # {}
    /\ InBucket(taken[k]) \subseteq bucket
    /\ pass' = [pass EXCEPT ![k] = "decoded"]
    /\ UNCHANGED <<bucket, rows, content, tier, aged, writing, todo, merge, taken, out, junk,
                   sweeping, reads>>

PutMerged(k, i) ==
    /\ pass[k] = "decoded"
    /\ Fresh(i)
    /\ Put(i, Composed(taken[k]), merge[k].tier)
    /\ out' = [out EXCEPT ![k] = i]
    /\ pass' = [pass EXCEPT ![k] = "put"]
    /\ UNCHANGED <<rows, aged, writing, todo, merge, taken, junk, sweeping, reads>>

\* replace: the inputs' rows go and the output's comes, both or neither,
\* whether or not the inputs are still there.
Replace(k) ==
    /\ pass[k] = "put"
    /\ rows' = (rows \ merge[k].inputs) \union {out[k]}
    /\ junk' = [junk EXCEPT ![k] = InBucket(taken[k])]
    /\ pass' = [pass EXCEPT ![k] = "replaced"]
    /\ UNCHANGED <<bucket, content, tier, aged, writing, todo, merge, taken, out, sweeping, reads>>

\* discard: superseded objects are deleted at once, or left if that fails.
Discard(k) ==
    /\ pass[k] = "replaced"
    /\ \E i \in junk[k] :
         /\ junk' = [junk EXCEPT ![k] = @ \ {i}]
         /\ bucket' \in {bucket, bucket \ {i}}
    /\ UNCHANGED <<rows, content, tier, aged, writing, pass, todo, merge, taken, out, sweeping, reads>>

NextMerge(k) ==
    /\ pass[k] = "replaced" /\ junk[k] = {}
    /\ Leave(k, "planned")
    /\ UNCHANGED <<bucket, rows, content, tier, aged, writing, todo, sweeping, reads>>

\* A store fails, an object is gone, or the process goes away.
FailPass(k) ==
    /\ pass[k] # "idle"
    /\ Leave(k, "idle")
    /\ todo' = [todo EXCEPT ![k] = {}]
    /\ UNCHANGED <<bucket, rows, content, tier, aged, writing, sweeping, reads>>

-----------------------------------------------------------------------------
(* The sweep of index segments.                                            *)

ListBucket ==
    /\ sweep = "idle"
    /\ found' = bucket
    /\ sweep' = "listed"
    /\ UNCHANGED <<bucket, rows, content, tier, aged, writing, merging, reads>>

\* Mutant: an object no row names is an orphan, whatever its age.
ReadEntriesAnyAge ==
    /\ sweep = "listed"
    /\ found' = {i \in found : i \notin rows}
    /\ sweep' = "read"
    /\ UNCHANGED <<bucket, rows, content, tier, aged, writing, merging, reads>>

\* Rows are read after the listing; orphans_of.
ReadEntries ==
    /\ sweep = "listed"
    /\ found' = {i \in found : i \notin rows /\ i \in aged}
    /\ sweep' = "read"
    /\ UNCHANGED <<bucket, rows, content, tier, aged, writing, merging, reads>>

DeleteOrphan(i) ==
    /\ sweep = "read"
    /\ i \in found
    /\ bucket' = bucket \ {i}
    /\ found' = found \ {i}
    /\ UNCHANGED <<rows, content, tier, aged, writing, merging, sweep, reads>>

\* With whatever a delete failed on left for the next pass.
EndSweep ==
    /\ sweep = "read"
    /\ sweep' = "idle"
    /\ found' = {}
    /\ UNCHANGED <<bucket, rows, content, tier, aged, writing, merging, reads>>

\* A segment put and not yet listed, or not yet replaced into the list.
InFlight(i) ==
    \/ \E w \in Writes : write[w] = "put" /\ seg[w] = i
    \/ \E k \in Compactors : pass[k] = "put" /\ out[k] = i

\* The grace window: whatever is still going began within it.
Age(i) ==
    /\ i \in bucket \ aged
    /\ ~InFlight(i)
    /\ aged' = aged \union {i}
    /\ UNCHANGED <<bucket, rows, content, tier, writing, merging, sweeping, reads>>

-----------------------------------------------------------------------------
(* Reads.                                                                  *)

\* read: the rows that touch the range, in one statement.
ListCovering(r, K) ==
    /\ read[r] = "idle"
    /\ want' = [want EXCEPT ![r] = K]
    /\ listing' = [listing EXCEPT ![r] = {i \in rows : Covers(i, K)}]
    /\ read' = [read EXCEPT ![r] = "listed"]
    /\ UNCHANGED <<bucket, rows, content, tier, aged, writing, merging, sweeping, got>>

\* Objects are fetched and narrowed to the range.
Compose(r) ==
    /\ read[r] = "listed"
    /\ InBucket(listing[r]) \subseteq bucket
    /\ got' = [got EXCEPT ![r] = InRange(Composed(listing[r]), want[r])]
    /\ read' = [read EXCEPT ![r] = "done"]
    /\ UNCHANGED <<bucket, rows, content, tier, aged, writing, merging, sweeping, want, listing>>

Return(r) ==
    /\ read' = [read EXCEPT ![r] = "idle"]
    /\ want' = [want EXCEPT ![r] = [first |-> 0, last |-> 0]]
    /\ listing' = [listing EXCEPT ![r] = {}]
    /\ got' = [got EXCEPT ![r] = {}]
    /\ UNCHANGED <<bucket, rows, content, tier, aged, writing, merging, sweeping>>

\* A merge has deleted an object the read was listed, or the bucket fails:
\* the read is an error.
FailRead(r) == read[r] = "listed" /\ Return(r)

EndRead(r) == read[r] = "done" /\ Return(r)

WriteStep(w) == (\E i \in Ids : Prepare(w, i)) \/ Insert(w) \/ LoseWrite(w)

PassStep(k) ==
    \/ PlanPass(k) \/ ListBodies(k) \/ SkipMerge(k) \/ EndPass(k) \/ Decode(k)
    \/ (\E i \in Ids : PutMerged(k, i)) \/ Replace(k) \/ Discard(k) \/ NextMerge(k) \/ FailPass(k)

SweepStep == ListBucket \/ ReadEntries \/ (\E i \in Ids : DeleteOrphan(i)) \/ EndSweep

ReadStep(r) == (\E K \in Ranges : ListCovering(r, K)) \/ Compose(r) \/ FailRead(r) \/ EndRead(r)

Next ==
    \/ \E w \in Writes : WriteStep(w)
    \/ \E k \in Compactors : PassStep(k)
    \/ SweepStep
    \/ \E i \in Ids : Age(i)
    \/ \E r \in Readers : ReadStep(r)

Spec == Init /\ [][Next]_vars

-----------------------------------------------------------------------------
(* Properties.                                                             *)

\* A row never names an object that is not there: merges delete only what
\* they have replaced, the sweep only what no row named or will name
\* (segments.rs prepare, compact, sweep_bucket).
RowsAreStored == InBucket(rows) \subseteq bucket

\* What a read has been promised.
Promise(r) ==
    CASE read[r] = "idle" -> [at |-> "idle", facts |-> {}]
      [] read[r] = "listed" -> [at |-> "asked", facts |-> InRange(Composed(listing[r]), want[r])]
      [] read[r] = "done" -> [at |-> "answered", facts |-> got[r]]
Promises == [r \in Readers |-> Promise(r)]

Abstract == INSTANCE SegmentedValue WITH value <- Composed(rows), reading <- Promises

\* Whatever the merges, the sweeps and their crashes, the catalog composes to
\* everything that was listed and a read is answered with exactly what had
\* been listed when it asked (segments.rs compact, read).
Refinement == Abstract!Spec
=============================================================================
