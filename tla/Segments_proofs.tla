--------------------------- MODULE Segments_proofs ---------------------------
(***************************************************************************)
(* Proofs about Segments, for any number of writes, merge passes and reads *)
(* and for any policy.  The inductive invariant says which names can still *)
(* come to be listed (those in flight, and no other), so that a name once  *)
(* replaced stays out of the catalog, and that what a merge has taken is   *)
(* still in the value it will be joined back into.                         *)
(***************************************************************************)
EXTENDS Segments, FiniteSetTheorems, TLAPS

Named(i) == content[i] # {}

\* Only a segment that was put is stored, listed, aged, planned or awaited.
NamesAreTaken ==
    /\ \A i \in bucket \union rows \union aged : Named(i)
    /\ \A k \in Compactors : \A i \in merge[k].inputs \union junk[k] : Named(i)
    /\ \A k \in Compactors : \A m \in todo[k] : \A i \in m.inputs : Named(i)
    /\ \A r \in Readers : \A i \in listing[r] : Named(i)

\* A segment in flight is stored, young and in no list, plan or queue.
InFlightIsPrivate ==
    \A i \in Ids : InFlight(i) =>
        /\ Named(i)
        /\ i \notin rows \union aged
        /\ Large(content[i]) => i \in bucket
        /\ \A k \in Compactors : i \notin merge[k].inputs \union junk[k]
        /\ \A k \in Compactors : \A m \in todo[k] : i \notin m.inputs

\* A segment is in flight once, and has a name.
InFlightOnce ==
    /\ \A w \in Writes : write[w] = "put" => seg[w] \in Ids
    /\ \A k \in Compactors : pass[k] = "put" => out[k] \in Ids
    /\ \A w, v \in Writes :
         write[w] = "put" /\ write[v] = "put" /\ seg[w] = seg[v] => w = v
    /\ \A k, l \in Compactors :
         pass[k] = "put" /\ pass[l] = "put" /\ out[k] = out[l] => k = l
    /\ \A w \in Writes, k \in Compactors :
         write[w] = "put" /\ pass[k] = "put" => seg[w] # out[k]

\* A merge has taken every input that is still listed, and what it has taken
\* is still in the value.
TakenIsListed ==
    \A k \in Compactors : pass[k] \in {"listed", "decoded", "put"} =>
        /\ taken[k] \subseteq merge[k].inputs
        /\ rows \intersect merge[k].inputs \subseteq taken[k]
        /\ Composed(taken[k]) \subseteq Composed(rows)

\* A write's segment is what it records, and a merge's what it took.
OutputIsComposed ==
    /\ \A w \in Writes : write[w] = "put" => content[seg[w]] = Value[w]
    /\ \A k \in Compactors :
         /\ pass[k] \in {"decoded", "put"} => taken[k] # {}
         /\ pass[k] = "put" => content[out[k]] = Composed(taken[k])

\* What is about to be deleted is in no list and never will be.
DoomedAreUnlisted ==
    /\ \A k \in Compactors : junk[k] \intersect rows = {}
    /\ sweep = "listed" => \A i \in found : Named(i)
    /\ sweep = "read" => \A i \in found : Named(i) /\ i \notin rows /\ ~InFlight(i)

IInv ==
    /\ TypeOK
    /\ NamesAreTaken
    /\ InFlightIsPrivate
    /\ InFlightOnce
    /\ TakenIsListed
    /\ OutputIsComposed
    /\ DoomedAreUnlisted
    /\ RowsAreStored

-----------------------------------------------------------------------------
(* Lemmas about the plan and about single steps.                           *)

\* A planned merge takes only listed segments, and is well formed.
LEMMA PlanTakesListed ==
    ASSUME NEW S \in SUBSET Ids, NEW m \in Plan(S)
    PROVE  m \in Merge /\ m.inputs \subseteq S
  <1>1. PICK t \in Tiers : \E r \in Runs(OfTier(S, t)) :
          m = [inputs |-> r.inputs, start |-> r.start, tier |-> NextTier(t)]
    BY DEF Plan
  <1>2. PICK r \in Runs(OfTier(S, t)) :
          m = [inputs |-> r.inputs, start |-> r.start, tier |-> NextTier(t)]
    BY <1>1
  <1>3. OfTier(S, t) \subseteq S
    BY DEF OfTier
  <1>4. IsFiniteSet(OfTier(S, t))
    <2>1. 1 \in Int /\ MaxId \in Int
      BY PolicyIsNatural
    <2>2. IsFiniteSet(Ids)
      BY <2>1, FS_Interval DEF Ids
    <2> QED
      BY <1>3, <2>2, FS_Subset
  <1>5. Cardinality(OfTier(S, t)) \in Nat
    BY <1>4, FS_CardinalityType
  <1>6. r.inputs \subseteq OfTier(S, t) /\ r.start \in Nat
    <2>1. PICK s \in 1 .. Cardinality(OfTier(S, t)), I \in SUBSET OfTier(S, t) :
            r = [inputs |-> I, start |-> s]
      BY DEF Runs
    <2> QED
      BY <1>5, <2>1
  <1>7. NextTier(t) \in Tiers
    BY PolicyIsNatural DEF NextTier, Tiers
  <1> QED
    BY <1>2, <1>3, <1>6, <1>7 DEF Merge

\* Putting a segment under a fresh name changes no segment that has one.
LEMMA PutKeepsNamed ==
    ASSUME TypeOK, NEW i \in Ids, NEW facts, NEW t, Fresh(i), Put(i, facts, t)
    PROVE  /\ content[i] = {}
           /\ \A j \in Ids : Named(j) => j # i /\ content'[j] = content[j]
           /\ \A S \in SUBSET Ids : (\A j \in S : Named(j)) =>
                 UNION {content'[j] : j \in S} = UNION {content[j] : j \in S}
  <1>1. content[i] = {}
    BY PolicyIsNatural DEF Fresh, Ids
  <1>2. \A j \in Ids : Named(j) => j # i /\ content'[j] = content[j]
    BY <1>1 DEF Put, TypeOK, Named
  <1> QED
    BY <1>1, <1>2

-----------------------------------------------------------------------------
(* The invariant.                                                          *)

\* The empty catalog satisfies it.
LEMMA InitInv == Init => IInv
  BY PolicyIsNatural
  DEF Init, IInv, TypeOK, NamesAreTaken, InFlightIsPrivate, InFlightOnce, TakenIsListed,
      OutputIsComposed, DoomedAreUnlisted, RowsAreStored, InFlight, InBucket, NoMerge, Merge, Tiers

\* Every step keeps every variable in its type.
LEMMA TypeStep ==
    ASSUME IInv, [Next]_vars
    PROVE  TypeOK'
  <1>0. TypeOK /\ InFlightOnce /\ Ids \subseteq 0 .. MaxId /\ 0 \in 0 .. MaxId /\ 0 \in Tiers
    BY PolicyIsNatural DEF IInv, Ids, Tiers
  <1> USE <1>0 DEF TypeOK, writing, merging, sweeping, reads
  <1>1. ASSUME NEW w \in Writes, WriteStep(w) PROVE TypeOK'
    <2>1. ASSUME NEW i \in Ids, Prepare(w, i) PROVE TypeOK'
      <3>1. Value[w] \subseteq Facts
        BY DEF Facts
      <3> QED
        BY <2>1, <3>1 DEF Prepare, Put
    <2>2. CASE Insert(w)
      BY <2>2 DEF Insert, InFlightOnce
    <2>3. CASE LoseWrite(w)
      BY <2>3 DEF LoseWrite
    <2> QED
      BY <1>1, <2>1, <2>2, <2>3 DEF WriteStep
  <1>2. ASSUME NEW k \in Compactors, PassStep(k) PROVE TypeOK'
    <2>0. NoMerge \in Merge
      BY DEF NoMerge, Merge
    <2>1. CASE PlanPass(k)
      <3>1. Plan(rows) \subseteq Merge
        BY PlanTakesListed
      <3> QED
        BY <2>1, <3>1 DEF PlanPass
    <2>2. CASE ListBodies(k)
      <3>1. PICK m \in todo[k] :
              /\ todo' = [todo EXCEPT ![k] = @ \ {m}]
              /\ merge' = [merge EXCEPT ![k] = m]
              /\ taken' = [taken EXCEPT ![k] = rows \intersect m.inputs]
        BY <2>2 DEF ListBodies
      <3>2. m \in Merge /\ rows \intersect m.inputs \subseteq Ids
        OBVIOUS
      <3> QED
        BY <2>2, <3>1, <3>2 DEF ListBodies
    <2>3. CASE SkipMerge(k) \/ EndPass(k) \/ NextMerge(k) \/ FailPass(k)
      <3>1. /\ Leave(k, "planned") \/ Leave(k, "idle")
            /\ UNCHANGED <<bucket, rows, content, tier, aged, writing, sweeping, reads>>
            /\ todo' = todo \/ todo' = [todo EXCEPT ![k] = {}]
        BY <2>3 DEF SkipMerge, EndPass, NextMerge, FailPass
      <3>2. /\ pass' \in [Compactors ->
                            {"idle", "planned", "listed", "decoded", "put", "replaced"}]
            /\ taken' \in [Compactors -> SUBSET Ids]
            /\ junk' \in [Compactors -> SUBSET Ids]
        BY <3>1 DEF Leave
      <3>4. merge' \in [Compactors -> Merge]
        BY <2>0, <3>1 DEF Leave
      <3>5. out' \in [Compactors -> 0 .. MaxId]
        BY <3>1 DEF Leave
      <3>3. todo' \in [Compactors -> SUBSET Merge]
        BY <3>1
      <3> QED
        BY <3>1, <3>2, <3>3, <3>4, <3>5
    <2>4. CASE Decode(k)
      BY <2>4 DEF Decode
    <2>5. ASSUME NEW i \in Ids, PutMerged(k, i) PROVE TypeOK'
      <3>1. Composed(taken[k]) \subseteq Facts /\ merge[k].tier \in Tiers
        BY DEF Composed, Merge
      <3> QED
        BY <2>5, <3>1 DEF PutMerged, Put
    <2>6. CASE Replace(k)
      <3>1. pass[k] = "put" /\ out[k] \in Ids /\ InBucket(taken[k]) \subseteq Ids
        BY <2>6 DEF Replace, InFlightOnce, InBucket
      <3> QED
        BY <2>6, <3>1 DEF Replace
    <2>7. CASE Discard(k)
      BY <2>7 DEF Discard
    <2> QED
      BY <1>2, <2>1, <2>2, <2>3, <2>4, <2>5, <2>6, <2>7 DEF PassStep
  <1>3. CASE SweepStep
    BY <1>3 DEF SweepStep, ListBucket, ReadEntries, DeleteOrphan, EndSweep
  <1>4. ASSUME NEW i \in Ids, Age(i) PROVE TypeOK'
    BY <1>4 DEF Age
  <1>5. ASSUME NEW r \in Readers, ReadStep(r) PROVE TypeOK'
    <2>1. ASSUME NEW K \in Ranges, ListCovering(r, K) PROVE TypeOK'
      BY <2>1, RangesAreRanges DEF ListCovering
    <2>2. CASE Compose(r)
      BY <2>2 DEF Compose, InRange, Composed
    <2>3. CASE FailRead(r) \/ EndRead(r)
      <3>1. [first |-> 0, last |-> 0] \in [first : Nat, last : Nat]
        OBVIOUS
      <3>2. Return(r)
        BY <2>3 DEF FailRead, EndRead
      <3>3. want' \in [Readers -> [first : Nat, last : Nat]]
        BY <3>1, <3>2 DEF Return
      <3> QED
        BY <3>2, <3>3 DEF Return
    <2> QED
      BY <1>5, <2>1, <2>2, <2>3 DEF ReadStep
  <1>6. CASE UNCHANGED vars
    BY <1>6 DEF vars
  <1> QED
    BY <1>1, <1>2, <1>3, <1>4, <1>5, <1>6 DEF Next

\* The parts of the invariant other than the types.
Parts ==
    /\ NamesAreTaken /\ InFlightIsPrivate /\ InFlightOnce /\ TakenIsListed
    /\ OutputIsComposed /\ DoomedAreUnlisted /\ RowsAreStored

\* What putting a segment under a fresh name does and does not change.
FreshEffect(i, facts) ==
    /\ ~InFlight(i)
    /\ i \notin rows \union aged \union bucket
    /\ \A k \in Compactors : i \notin merge[k].inputs \union junk[k]
    /\ \A k \in Compactors : \A m \in todo[k] : i \notin m.inputs
    /\ sweep \in {"listed", "read"} => i \notin found
    /\ \A j \in Ids : Named(j) => content'[j] = content[j]
    /\ content'[i] = facts
    /\ Large(facts) => i \in bucket'
    /\ bucket \subseteq bucket'
    /\ Composed(rows)' = Composed(rows)
    /\ \A k \in Compactors : pass[k] \in {"listed", "decoded", "put"} =>
          UNION {content'[j] : j \in taken[k]} = Composed(taken[k])

\* A fresh name is in use nowhere, so putting a segment under it disturbs
\* nothing that is listed, taken or doomed.
LEMMA PutKeepsParts ==
    ASSUME IInv, NEW i \in Ids, NEW facts, NEW t, Fresh(i), Put(i, facts, t), facts # {},
           UNCHANGED <<rows, aged, junk, todo, merge, taken, sweeping, reads>>
    PROVE  /\ NamesAreTaken'
           /\ RowsAreStored'
           /\ FreshEffect(i, facts)
  <1> USE DEF sweeping, reads
  <1>0. TypeOK /\ Parts
    BY DEF IInv, Parts
  <1>1. /\ content[i] = {}
        /\ \A j \in Ids : Named(j) => j # i /\ content'[j] = content[j]
        /\ \A S \in SUBSET Ids : (\A j \in S : Named(j)) =>
              UNION {content'[j] : j \in S} = UNION {content[j] : j \in S}
    BY <1>0, PutKeepsNamed
  <1>2. content'[i] = facts
    BY <1>0 DEF Put, TypeOK
  <1>3. NamesAreTaken'
    BY <1>0, <1>1, <1>2 DEF Parts, NamesAreTaken, Named, Put, TypeOK, Merge
  <1>4. /\ i \notin rows \union aged \union bucket
        /\ \A k \in Compactors : i \notin merge[k].inputs \union junk[k]
        /\ \A k \in Compactors : \A m \in todo[k] : i \notin m.inputs
    BY <1>0, <1>1 DEF Parts, NamesAreTaken, Named
  <1>5. ~InFlight(i)
    BY <1>0, <1>1 DEF Parts, InFlightIsPrivate, Named
  <1>6. sweep \in {"listed", "read"} => i \notin found
    BY <1>0, <1>1 DEF Parts, DoomedAreUnlisted, Named
  <1>7. (Large(facts) => i \in bucket') /\ bucket \subseteq bucket'
    BY DEF Put
  <1>8. RowsAreStored'
    BY <1>0, <1>1, <1>4, <1>7 DEF Parts, RowsAreStored, InBucket, Large, NamesAreTaken, TypeOK
  <1>9. Composed(rows)' = Composed(rows)
    BY <1>0, <1>1 DEF Parts, NamesAreTaken, Composed, TypeOK
  <1>10. ASSUME NEW k \in Compactors, pass[k] \in {"listed", "decoded", "put"}
         PROVE  UNION {content'[j] : j \in taken[k]} = Composed(taken[k])
    <2>1. taken[k] \in SUBSET Ids /\ \A j \in taken[k] : Named(j)
      BY <1>0, <1>10 DEF Parts, NamesAreTaken, TakenIsListed, TypeOK
    <2> QED
      BY <1>1, <2>1 DEF Composed
  <1> QED
    BY <1>1, <1>2, <1>3, <1>4, <1>5, <1>6, <1>7, <1>8, <1>9, <1>10 DEF FreshEffect

\* A write keeps the invariant.
LEMMA WriteKeepsParts ==
    ASSUME IInv, TypeOK', NEW w \in Writes, WriteStep(w)
    PROVE  Parts'
  <1> USE DEF sweeping, reads, merging, writing
  <1>0. TypeOK /\ Parts
    BY DEF IInv, Parts
  <1>1. ASSUME NEW i \in Ids, Prepare(w, i) PROVE Parts'
    <2>1. Value[w] # {} /\ Fresh(i) /\ Put(i, Value[w], 0)
      BY <1>1, WritesHaveFacts DEF Prepare
    <2>2. NamesAreTaken' /\ RowsAreStored' /\ FreshEffect(i, Value[w])
      BY <1>1, <2>1, PutKeepsParts DEF Prepare
    <2>3. \A j \in Ids : InFlight(j)' => InFlight(j) \/ j = i
      BY <1>0, <1>1 DEF Prepare, InFlight, TypeOK
    <2>4. InFlightIsPrivate'
      BY <1>0, <1>1, <2>1, <2>2, <2>3 DEF Parts, InFlightIsPrivate, Prepare, Named, Large, FreshEffect
    <2>5. InFlightOnce'
      BY <1>0, <1>1, <2>2 DEF Parts, InFlightOnce, InFlight, Prepare, TypeOK, FreshEffect
    <2>6. TakenIsListed'
      BY <1>0, <1>1, <2>2 DEF Parts, TakenIsListed, Prepare, Composed, FreshEffect
    <2>7. OutputIsComposed'
      BY <1>0, <1>1, <2>2 DEF Parts, OutputIsComposed, InFlightOnce, InFlightIsPrivate, InFlight,
                              Prepare, Composed, FreshEffect, TypeOK
    <2>8. DoomedAreUnlisted'
      BY <1>0, <1>1, <2>2, <2>3 DEF Parts, DoomedAreUnlisted, Prepare, Named, TypeOK, FreshEffect
    <2> QED
      BY <2>2, <2>4, <2>5, <2>6, <2>7, <2>8 DEF Parts
  <1>2. CASE Insert(w)
    <2>1. /\ write[w] = "put" /\ seg[w] \in Ids /\ InFlight(seg[w])
          /\ rows' = rows \union {seg[w]}
      BY <1>0, <1>2 DEF Insert, Parts, InFlightOnce, InFlight
    <2>2. \A j \in Ids : InFlight(j)' => InFlight(j) /\ j # seg[w]
      BY <1>0, <1>2, <2>1 DEF Insert, InFlight, InFlightOnce, Parts, TypeOK
    <2>3. NamesAreTaken' /\ RowsAreStored'
      BY <1>0, <1>2, <2>1 DEF Insert, Parts, NamesAreTaken, RowsAreStored, InFlightIsPrivate,
                              Named, InBucket, Large
    <2>4. InFlightIsPrivate'
      BY <1>0, <1>2, <2>1, <2>2 DEF Insert, Parts, InFlightIsPrivate, Named, Large
    <2>5. InFlightOnce'
      BY <1>0, <1>2 DEF Insert, Parts, InFlightOnce, TypeOK
    <2>6. TakenIsListed'
      <3>1. Composed(rows) \subseteq Composed(rows)'
        BY <1>2, <2>1 DEF Insert, Composed
      <3> QED
        BY <1>0, <1>2, <2>1, <3>1 DEF Insert, Parts, TakenIsListed, InFlightIsPrivate, Composed
    <2>7. OutputIsComposed'
      BY <1>0, <1>2 DEF Insert, Parts, OutputIsComposed, Composed, TypeOK
    <2>8. DoomedAreUnlisted'
      BY <1>0, <1>2, <2>1, <2>2 DEF Insert, Parts, DoomedAreUnlisted, InFlightIsPrivate, Named,
                                    TypeOK
    <2> QED
      BY <2>3, <2>4, <2>5, <2>6, <2>7, <2>8 DEF Parts
  <1>3. CASE LoseWrite(w)
    <2>1. \A j \in Ids : InFlight(j)' => InFlight(j)
      BY <1>0, <1>3 DEF LoseWrite, InFlight, TypeOK
    <2>2. NamesAreTaken' /\ RowsAreStored' /\ TakenIsListed'
      BY <1>0, <1>3 DEF LoseWrite, Parts, NamesAreTaken, RowsAreStored, TakenIsListed,
                        Named, InBucket, Large, Composed
    <2>5. OutputIsComposed'
      BY <1>0, <1>3 DEF LoseWrite, Parts, OutputIsComposed, Composed, TypeOK
    <2>3. InFlightIsPrivate' /\ DoomedAreUnlisted'
      BY <1>0, <1>3, <2>1 DEF LoseWrite, Parts, InFlightIsPrivate, DoomedAreUnlisted, Named, Large,
                              TypeOK
    <2>4. InFlightOnce'
      BY <1>0, <1>3 DEF LoseWrite, Parts, InFlightOnce, TypeOK
    <2> QED
      BY <2>2, <2>3, <2>4, <2>5 DEF Parts
  <1> QED
    BY <1>1, <1>2, <1>3 DEF WriteStep

\* Replacing a merge's inputs by its output leaves the value as it was.
LEMMA ReplaceKeepsValue ==
    ASSUME IInv, NEW k \in Compactors, Replace(k)
    PROVE  Composed(rows)' = Composed(rows)
  <1>1. /\ rows' = (rows \ merge[k].inputs) \union {out[k]}
        /\ rows \intersect merge[k].inputs \subseteq taken[k]
        /\ content[out[k]] = Composed(taken[k])
        /\ Composed(taken[k]) \subseteq Composed(rows)
        /\ content' = content
    BY DEF Replace, IInv, TakenIsListed, OutputIsComposed
  <1>2. Composed(rows)' = UNION {content[j] : j \in rows'}
    BY <1>1 DEF Composed
  <1>3. ASSUME NEW f \in Composed(rows) PROVE \E j \in rows' : f \in content[j]
    <2>1. PICK j \in rows : f \in content[j]
      BY DEF Composed
    <2>2. CASE j \in merge[k].inputs
      BY <1>1, <2>1, <2>2 DEF Composed
    <2>3. CASE j \notin merge[k].inputs
      BY <1>1, <2>1, <2>3
    <2> QED
      BY <2>2, <2>3
  <1>4. ASSUME NEW j \in rows' PROVE content[j] \subseteq Composed(rows)
    BY <1>1 DEF Composed
  <1> QED
    BY <1>2, <1>3, <1>4

\* A merge pass keeps the invariant.
LEMMA PassKeepsParts ==
    ASSUME IInv, TypeOK', NEW k \in Compactors, PassStep(k)
    PROVE  Parts'
  <1> USE DEF sweeping, reads, merging, writing
  <1>0. TypeOK /\ Parts
    BY DEF IInv, Parts
  <1>1. CASE PlanPass(k)
    <2>1. /\ \A m \in todo'[k] : m.inputs \subseteq rows
          /\ \A l \in Compactors : l # k => todo'[l] = todo[l]
      BY <1>0, <1>1, PlanTakesListed DEF PlanPass, TypeOK
    <2>2. \A j \in Ids : InFlight(j)' => InFlight(j)
      BY <1>0, <1>1 DEF PlanPass, InFlight, TypeOK
    <2>3. NamesAreTaken' /\ RowsAreStored'
      BY <1>0, <1>1, <2>1 DEF PlanPass, Parts, NamesAreTaken, RowsAreStored, Named, InBucket, Large
    <2>4. InFlightIsPrivate'
      BY <1>0, <1>1, <2>1, <2>2 DEF PlanPass, Parts, InFlightIsPrivate, Named, Large
    <2>5. InFlightOnce'
      BY <1>0, <1>1 DEF PlanPass, Parts, InFlightOnce, TypeOK
    <2>6. TakenIsListed' /\ OutputIsComposed'
      BY <1>0, <1>1 DEF PlanPass, Parts, TakenIsListed, OutputIsComposed, Composed, TypeOK
    <2>7. DoomedAreUnlisted'
      BY <1>0, <1>1, <2>2 DEF PlanPass, Parts, DoomedAreUnlisted, Named, TypeOK
    <2> QED
      BY <2>3, <2>4, <2>5, <2>6, <2>7 DEF Parts
  <1>2. CASE ListBodies(k)
    <2>1. PICK m \in todo[k] :
            /\ todo' = [todo EXCEPT ![k] = @ \ {m}]
            /\ merge' = [merge EXCEPT ![k] = m]
            /\ taken' = [taken EXCEPT ![k] = rows \intersect m.inputs]
      BY <1>2 DEF ListBodies
    <2>2. \A j \in Ids : InFlight(j)' => InFlight(j)
      BY <1>0, <1>2 DEF ListBodies, InFlight, TypeOK
    <2>3. NamesAreTaken' /\ RowsAreStored'
      <3>1. UNCHANGED <<bucket, rows, content, aged, junk, listing>>
        BY <1>2 DEF ListBodies, reads
      <3>2. RowsAreStored'
        BY <1>0, <3>1 DEF Parts, RowsAreStored, InBucket, Large
      <3>3. \A i \in m.inputs : Named(i)
        BY <1>0, <2>1 DEF Parts, NamesAreTaken
      <3>4. \A q \in Compactors : merge'[q].inputs \subseteq merge[q].inputs \union m.inputs
        BY <1>0, <2>1 DEF TypeOK
      <3>5. \A q \in Compactors : todo'[q] \subseteq todo[q]
        BY <1>0, <2>1 DEF TypeOK
      <3> QED
        BY <1>0, <3>1, <3>2, <3>3, <3>4, <3>5 DEF Parts, NamesAreTaken, Named
    <2>4. InFlightIsPrivate'
      BY <1>0, <1>2, <2>1, <2>2 DEF ListBodies, Parts, InFlightIsPrivate, Named, Large, TypeOK
    <2>5. InFlightOnce'
      BY <1>0, <1>2 DEF ListBodies, Parts, InFlightOnce, TypeOK
    <2>6. TakenIsListed' /\ OutputIsComposed'
      BY <1>0, <1>2, <2>1 DEF ListBodies, Parts, TakenIsListed, OutputIsComposed, Composed, TypeOK
    <2>7. DoomedAreUnlisted'
      BY <1>0, <1>2, <2>2 DEF ListBodies, Parts, DoomedAreUnlisted, Named, TypeOK
    <2> QED
      BY <2>3, <2>4, <2>5, <2>6, <2>7 DEF Parts
  <1>3. CASE SkipMerge(k) \/ EndPass(k) \/ NextMerge(k) \/ FailPass(k)
    <2>1. /\ Leave(k, "planned") \/ Leave(k, "idle")
          /\ UNCHANGED <<bucket, rows, content, tier, aged, writing, sweeping, reads>>
          /\ \A l \in Compactors : todo'[l] \subseteq todo[l]
      BY <1>0, <1>3 DEF SkipMerge, EndPass, NextMerge, FailPass, TypeOK
    <2>2. /\ \A l \in Compactors : l # k =>
                /\ pass'[l] = pass[l] /\ merge'[l] = merge[l] /\ taken'[l] = taken[l]
                /\ out'[l] = out[l] /\ junk'[l] = junk[l]
          /\ pass'[k] \in {"planned", "idle"} /\ merge'[k].inputs = {} /\ junk'[k] = {}
      BY <1>0, <2>1 DEF Leave, NoMerge, TypeOK
    <2>3. \A j \in Ids : InFlight(j)' => InFlight(j)
      BY <2>1, <2>2 DEF InFlight
    <2>4. NamesAreTaken' /\ RowsAreStored'
      BY <1>0, <2>1, <2>2 DEF Parts, NamesAreTaken, RowsAreStored, Named, InBucket, Large
    <2>5. InFlightIsPrivate'
      BY <1>0, <2>1, <2>2, <2>3 DEF Parts, InFlightIsPrivate, Named, Large
    <2>6. InFlightOnce'
      BY <1>0, <2>1, <2>2 DEF Parts, InFlightOnce
    <2>7. TakenIsListed' /\ OutputIsComposed'
      BY <1>0, <2>1, <2>2 DEF Parts, TakenIsListed, OutputIsComposed, Composed
    <2>8. DoomedAreUnlisted'
      BY <1>0, <2>1, <2>2, <2>3 DEF Parts, DoomedAreUnlisted, Named, TypeOK
    <2> QED
      BY <2>4, <2>5, <2>6, <2>7, <2>8 DEF Parts
  <1>4. CASE Decode(k)
    <2>1. \A j \in Ids : InFlight(j)' => InFlight(j)
      BY <1>0, <1>4 DEF Decode, InFlight, TypeOK
    <2>2. NamesAreTaken' /\ RowsAreStored'
      BY <1>0, <1>4 DEF Decode, Parts, NamesAreTaken, RowsAreStored, Named, InBucket, Large
    <2>3. InFlightIsPrivate' /\ DoomedAreUnlisted'
      BY <1>0, <1>4, <2>1 DEF Decode, Parts, InFlightIsPrivate, DoomedAreUnlisted, Named, Large,
                              TypeOK
    <2>4. InFlightOnce' /\ TakenIsListed' /\ OutputIsComposed'
      BY <1>0, <1>4 DEF Decode, Parts, InFlightOnce, TakenIsListed, OutputIsComposed, Composed,
                        TypeOK
    <2> QED
      BY <2>2, <2>3, <2>4 DEF Parts
  <1>5. ASSUME NEW i \in Ids, PutMerged(k, i) PROVE Parts'
    <2>1. /\ Fresh(i) /\ Put(i, Composed(taken[k]), merge[k].tier)
          /\ pass[k] = "decoded"
      BY <1>5 DEF PutMerged
    <2>2. Composed(taken[k]) # {}
      <3>1. PICK j \in taken[k] : Named(j)
        BY <1>0, <2>1 DEF Parts, OutputIsComposed, TakenIsListed, NamesAreTaken
      <3> QED
        BY <3>1 DEF Composed, Named
    <2>3. NamesAreTaken' /\ RowsAreStored' /\ FreshEffect(i, Composed(taken[k]))
      BY <1>5, <2>1, <2>2, PutKeepsParts DEF PutMerged
    <2>4. \A j \in Ids : InFlight(j)' => InFlight(j) \/ j = i
      BY <1>0, <1>5 DEF PutMerged, InFlight, TypeOK
    <2>5. InFlightIsPrivate'
      BY <1>0, <1>5, <2>2, <2>3, <2>4 DEF PutMerged, Parts, InFlightIsPrivate, Named, Large,
                                          FreshEffect
    <2>6. InFlightOnce'
      BY <1>0, <1>5, <2>3 DEF PutMerged, Parts, InFlightOnce, InFlight, FreshEffect, TypeOK
    <2>7. TakenIsListed'
      <3>1. SUFFICES ASSUME NEW l \in Compactors, pass'[l] \in {"listed", "decoded", "put"}
                     PROVE  /\ taken[l] \subseteq merge[l].inputs
                            /\ rows \intersect merge[l].inputs \subseteq taken[l]
                            /\ UNION {content'[j] : j \in taken[l]} \subseteq Composed(rows)'
        BY <1>5 DEF PutMerged, TakenIsListed, Composed
      <3>2. pass[l] \in {"listed", "decoded", "put"}
        BY <1>0, <1>5, <3>1 DEF PutMerged, TypeOK
      <3> QED
        BY <1>0, <2>3, <3>2 DEF Parts, TakenIsListed, FreshEffect
    <2>8. OutputIsComposed'
      BY <1>0, <1>5, <2>3 DEF PutMerged, Parts, OutputIsComposed, InFlightOnce, InFlightIsPrivate,
                              InFlight, FreshEffect, Composed, TypeOK
    <2>9. DoomedAreUnlisted'
      BY <1>0, <1>5, <2>3, <2>4 DEF PutMerged, Parts, DoomedAreUnlisted, Named, FreshEffect, TypeOK
    <2> QED
      BY <2>3, <2>5, <2>6, <2>7, <2>8, <2>9 DEF Parts
  <1>6. CASE Replace(k)
    <2>1. /\ pass[k] = "put" /\ out[k] \in Ids /\ InFlight(out[k])
          /\ rows' = (rows \ merge[k].inputs) \union {out[k]}
          /\ taken[k] \subseteq merge[k].inputs
          /\ junk'[k] = InBucket(taken[k])
          /\ \A l \in Compactors : l # k => junk'[l] = junk[l]
      BY <1>0, <1>6 DEF Replace, Parts, InFlightOnce, InFlight, TakenIsListed, TypeOK
    <2>2. \A j \in Ids : InFlight(j)' => InFlight(j) /\ j # out[k]
      BY <1>0, <1>6, <2>1 DEF Replace, Parts, InFlight, InFlightOnce, TypeOK
    <2>3. junk'[k] \subseteq merge[k].inputs
      BY <2>1 DEF InBucket
    <2>4. NamesAreTaken' /\ RowsAreStored'
      BY <1>0, <1>6, <2>1, <2>3 DEF Replace, Parts, NamesAreTaken, RowsAreStored,
                                    InFlightIsPrivate, Named, InBucket, Large
    <2>5. InFlightIsPrivate'
      BY <1>0, <1>6, <2>1, <2>2, <2>3 DEF Replace, Parts, InFlightIsPrivate, Named, Large
    <2>6. InFlightOnce'
      BY <1>0, <1>6 DEF Replace, Parts, InFlightOnce, TypeOK
    <2>7. TakenIsListed'
      <3>1. SUFFICES ASSUME NEW l \in Compactors, pass'[l] \in {"listed", "decoded", "put"}
                     PROVE  /\ taken[l] \subseteq merge[l].inputs
                            /\ rows' \intersect merge[l].inputs \subseteq taken[l]
                            /\ Composed(taken[l]) \subseteq Composed(rows)'
        BY <1>6 DEF Replace, TakenIsListed, Composed
      <3>2. pass[l] \in {"listed", "decoded", "put"}
        BY <1>0, <1>6, <3>1 DEF Replace, TypeOK
      <3>3. out[k] \notin merge[l].inputs
        BY <1>0, <2>1 DEF Parts, InFlightIsPrivate
      <3>4. Composed(rows)' = Composed(rows)
        BY <1>6, ReplaceKeepsValue
      <3> QED
        BY <1>0, <2>1, <3>2, <3>3, <3>4 DEF Parts, TakenIsListed
    <2>8. OutputIsComposed'
      BY <1>0, <1>6 DEF Replace, Parts, OutputIsComposed, Composed, TypeOK
    <2>9. DoomedAreUnlisted'
      BY <1>0, <1>6, <2>1, <2>2, <2>3 DEF Replace, Parts, DoomedAreUnlisted, InFlightIsPrivate,
                                          Named, TypeOK
    <2> QED
      BY <2>4, <2>5, <2>6, <2>7, <2>8, <2>9 DEF Parts
  <1>7. CASE Discard(k)
    <2>1. PICK i \in junk[k] :
            junk' = [junk EXCEPT ![k] = @ \ {i}] /\ bucket' \in {bucket, bucket \ {i}}
      BY <1>7 DEF Discard
    <2>2. \A j \in Ids : InFlight(j)' => InFlight(j)
      BY <1>7 DEF Discard, InFlight
    <2>3. NamesAreTaken' /\ RowsAreStored'
      BY <1>0, <1>7, <2>1 DEF Discard, Parts, NamesAreTaken, RowsAreStored, DoomedAreUnlisted,
                              Named, InBucket, Large, TypeOK
    <2>4. InFlightIsPrivate'
      BY <1>0, <1>7, <2>1, <2>2 DEF Discard, Parts, InFlightIsPrivate, Named, Large, TypeOK
    <2>5. InFlightOnce' /\ TakenIsListed' /\ OutputIsComposed'
      BY <1>0, <1>7 DEF Discard, Parts, InFlightOnce, TakenIsListed, OutputIsComposed, Composed
    <2>6. DoomedAreUnlisted'
      BY <1>0, <1>7, <2>1, <2>2 DEF Discard, Parts, DoomedAreUnlisted, Named, TypeOK
    <2> QED
      BY <2>3, <2>4, <2>5, <2>6 DEF Parts
  <1> QED
    BY <1>1, <1>2, <1>3, <1>4, <1>5, <1>6, <1>7 DEF PassStep

\* Sweeping, ageing and reading keep the invariant.
LEMMA OthersKeepParts ==
    ASSUME IInv, TypeOK', SweepStep \/ (\E i \in Ids : Age(i)) \/ (\E r \in Readers : ReadStep(r))
    PROVE  Parts'
  <1> USE DEF sweeping, reads, merging, writing
  <1>0. TypeOK /\ Parts
    BY DEF IInv, Parts
  <1>1. /\ UNCHANGED <<rows, content, merging, writing>>
        /\ bucket' \subseteq bucket
    BY DEF SweepStep, ListBucket, ReadEntries, DeleteOrphan, EndSweep, Age, ReadStep, ListCovering,
           Compose, FailRead, EndRead, Return
  <1>2. \A j \in Ids : InFlight(j)' <=> InFlight(j)
    BY <1>1 DEF InFlight
  <1>3. InFlightOnce' /\ TakenIsListed' /\ OutputIsComposed'
    BY <1>0, <1>1 DEF Parts, InFlightOnce, TakenIsListed, OutputIsComposed, Composed
  <1>4. CASE SweepStep
    <2>1. NamesAreTaken'
      BY <1>0, <1>1, <1>4 DEF Parts, NamesAreTaken, Named, SweepStep, ListBucket, ReadEntries,
                              DeleteOrphan, EndSweep
    <2>2. DoomedAreUnlisted'
      BY <1>0, <1>1, <1>2, <1>4 DEF Parts, DoomedAreUnlisted, NamesAreTaken, InFlightIsPrivate,
                                    Named, SweepStep, ListBucket, ReadEntries, DeleteOrphan,
                                    EndSweep, TypeOK
    <2>3. RowsAreStored' /\ InFlightIsPrivate'
      BY <1>0, <1>1, <1>2, <1>4 DEF Parts, DoomedAreUnlisted, RowsAreStored, InFlightIsPrivate,
                                    Named, SweepStep, ListBucket, ReadEntries, DeleteOrphan,
                                    EndSweep, InBucket, Large, TypeOK
    <2> QED
      BY <1>3, <2>1, <2>2, <2>3 DEF Parts
  <1>5. ASSUME NEW i \in Ids, Age(i) PROVE Parts'
    <2>1. NamesAreTaken' /\ RowsAreStored' /\ DoomedAreUnlisted'
      BY <1>0, <1>2, <1>5 DEF Age, Parts, NamesAreTaken, RowsAreStored, DoomedAreUnlisted, Named,
                              InBucket, Large, TypeOK
    <2>2. InFlightIsPrivate'
      BY <1>0, <1>2, <1>5 DEF Age, Parts, InFlightIsPrivate, Named, Large
    <2> QED
      BY <1>3, <2>1, <2>2 DEF Parts
  <1>6. ASSUME NEW r \in Readers, ReadStep(r) PROVE Parts'
    <2>1. /\ UNCHANGED <<bucket, rows, content, aged, merging, writing, sweeping>>
          /\ \A q \in Readers : listing'[q] \subseteq listing[q] \union rows
      <3>1. CASE \E K \in Ranges : ListCovering(r, K)
        <4>1. PICK K \in Ranges : ListCovering(r, K)
          BY <3>1
        <4>2. UNCHANGED <<bucket, rows, content, aged, merging, writing, sweeping>>
          BY <4>1 DEF ListCovering
        <4>3. listing' = [listing EXCEPT ![r] = {i \in rows : Covers(i, K)}]
          BY <4>1 DEF ListCovering
        <4> QED
          BY <1>0, <4>2, <4>3 DEF TypeOK
      <3>2. CASE Compose(r)
        BY <3>2 DEF Compose
      <3>3. CASE FailRead(r) \/ EndRead(r)
        <4>1. Return(r)
          BY <3>3 DEF FailRead, EndRead
        <4>2. UNCHANGED <<bucket, rows, content, aged, merging, writing, sweeping>>
          BY <4>1 DEF Return
        <4>3. listing' = [listing EXCEPT ![r] = {}]
          BY <4>1 DEF Return
        <4> QED
          BY <1>0, <4>2, <4>3 DEF TypeOK
      <3> QED
        BY <1>6, <3>1, <3>2, <3>3 DEF ReadStep
    <2>2. NamesAreTaken' /\ RowsAreStored' /\ DoomedAreUnlisted'
      BY <1>0, <1>2, <2>1 DEF Parts, NamesAreTaken, RowsAreStored, DoomedAreUnlisted, Named,
                              InBucket, Large, TypeOK
    <2>3. InFlightIsPrivate'
      BY <1>0, <1>2, <2>1 DEF Parts, InFlightIsPrivate, Named, Large
    <2> QED
      BY <1>3, <2>2, <2>3 DEF Parts
  <1> QED
    BY <1>4, <1>5, <1>6

\* Every step keeps the invariant.
LEMMA StepInv == IInv /\ [Next]_vars => IInv'
  <1> SUFFICES ASSUME IInv, [Next]_vars PROVE IInv'
    OBVIOUS
  <1>1. TypeOK'
    BY TypeStep
  <1>2. CASE UNCHANGED vars
    BY <1>2 DEF vars, writing, merging, sweeping, reads, IInv, TypeOK, NamesAreTaken,
                InFlightIsPrivate, InFlightOnce, TakenIsListed, OutputIsComposed,
                DoomedAreUnlisted, RowsAreStored, Named, InFlight, InBucket, Large, Composed
  <1>3. CASE Next
    <2>1. Parts'
      BY <1>1, <1>3, WriteKeepsParts, PassKeepsParts, OthersKeepParts DEF Next
    <2> QED
      BY <1>1, <2>1 DEF IInv, Parts
  <1> QED
    BY <1>2, <1>3

\* The invariant holds throughout, whatever the writes, passes and reads.
THEOREM InductiveInvariant == Spec => []IInv
  BY InitInv, StepInv, PTL DEF Spec

\* Every variable keeps its type (segments.rs, plan.rs Tier::next).
THEOREM TypeCorrect == Spec => []TypeOK
  <1>1. IInv => TypeOK
    BY DEF IInv
  <1> QED
    BY <1>1, InductiveInvariant, PTL

\* No catalog row ever names an object that is gone: neither a merge's own
\* deletes nor the sweep's reach one (segments.rs compact, sweep_bucket).
THEOREM ListedIsStored == Spec => []RowsAreStored
  <1>1. IInv => RowsAreStored
    BY DEF IInv
  <1> QED
    BY <1>1, InductiveInvariant, PTL

-----------------------------------------------------------------------------
(* Segments implements SegmentedValue.                                     *)

\* Every step but the insertion of a row leaves the value as it was, and
\* every step but a read's leaves what reads were promised.
LEMMA ValueAndPromises ==
    ASSUME IInv, Next
    PROVE  /\ Composed(rows)' = Composed(rows) \/ \E w \in Writes : Insert(w)
           /\ Promises' = Promises \/ \E r \in Readers : ReadStep(r)
  <1> USE DEF sweeping, reads, merging, writing
  <1>0. TypeOK /\ NamesAreTaken
    BY DEF IInv
  <1>1. ASSUME NEW i \in Ids, NEW facts, NEW t, Fresh(i), Put(i, facts, t), UNCHANGED <<rows, reads>>
        PROVE  Composed(rows)' = Composed(rows) /\ Promises' = Promises
    <2>1. \A S \in SUBSET Ids : (\A j \in S : Named(j)) =>
             UNION {content'[j] : j \in S} = UNION {content[j] : j \in S}
      BY <1>0, <1>1, PutKeepsNamed
    <2>2. Composed(rows)' = Composed(rows)
      BY <1>0, <1>1, <2>1 DEF TypeOK, NamesAreTaken, Composed
    <2>3. \A r \in Readers : UNION {content'[j] : j \in listing[r]} = Composed(listing[r])
      BY <1>0, <2>1 DEF TypeOK, NamesAreTaken, Composed
    <2> QED
      BY <1>1, <2>2, <2>3 DEF Promises, Promise, InRange, Composed
  <1>2. ASSUME UNCHANGED <<content, reads>> PROVE Promises' = Promises
    BY <1>2 DEF Promises, Promise, InRange, Composed
  <1>3. ASSUME UNCHANGED <<content, rows>> PROVE Composed(rows)' = Composed(rows)
    BY <1>3 DEF Composed
  <1>4. ASSUME NEW w \in Writes, WriteStep(w) PROVE
           /\ Composed(rows)' = Composed(rows) \/ Insert(w)
           /\ Promises' = Promises
    BY <1>1, <1>2, <1>3, <1>4 DEF WriteStep, Prepare, Insert, LoseWrite
  <1>5. ASSUME NEW k \in Compactors, PassStep(k)
        PROVE  Composed(rows)' = Composed(rows) /\ Promises' = Promises
    <2>1. ASSUME NEW i \in Ids, PutMerged(k, i)
          PROVE  Composed(rows)' = Composed(rows) /\ Promises' = Promises
      BY <1>1, <2>1 DEF PutMerged
    <2>2. CASE Replace(k)
      BY <1>2, <2>2, ReplaceKeepsValue DEF Replace
    <2>3. CASE ~Replace(k) /\ ~\E i \in Ids : PutMerged(k, i)
      BY <1>2, <1>3, <1>5, <2>3 DEF PassStep, PlanPass, ListBodies, SkipMerge, EndPass, Decode,
                                    Discard, NextMerge, FailPass
    <2> QED
      BY <2>1, <2>2, <2>3
  <1>6. ASSUME SweepStep \/ \E i \in Ids : Age(i)
        PROVE  Composed(rows)' = Composed(rows) /\ Promises' = Promises
    BY <1>2, <1>3, <1>6 DEF SweepStep, ListBucket, ReadEntries, DeleteOrphan, EndSweep, Age
  <1>7. ASSUME NEW r \in Readers, ReadStep(r) PROVE Composed(rows)' = Composed(rows)
    BY <1>3, <1>7 DEF ReadStep, ListCovering, Compose, FailRead, EndRead, Return
  <1> QED
    BY <1>4, <1>5, <1>6, <1>7 DEF Next

\* Listing a write's row adds what it records, and nothing else.
LEMMA InsertRecords ==
    ASSUME IInv, NEW w \in Writes, Insert(w)
    PROVE  Composed(rows)' = Composed(rows) \union Value[w]
  <1>1. content' = content /\ rows' = rows \union {seg[w]} /\ content[seg[w]] = Value[w]
    BY DEF Insert, IInv, OutputIsComposed
  <1> QED
    BY <1>1 DEF Composed

\* The rows that touch a range hold everything there is in it.
LEMMA CoveringIsEnough ==
    ASSUME TypeOK, NEW K \in Ranges
    PROVE  InRange(Composed({i \in rows : Covers(i, K)}), K) = InRange(Composed(rows), K)
  BY DEF TypeOK, InRange, Composed, Covers

\* A step of one read changes what that read was promised and no other's.
LEMMA OnePromise ==
    ASSUME TypeOK, content' = content, NEW r \in Readers, NEW p, Promises'[r] = p,
           \A q \in Readers : q # r =>
              /\ read'[q] = read[q] /\ want'[q] = want[q]
              /\ listing'[q] = listing[q] /\ got'[q] = got[q]
    PROVE  Promises' = [Promises EXCEPT ![r] = p]
  <1>1. ASSUME NEW q \in Readers, q # r PROVE Promise(q)' = Promise(q)
    <2>1. /\ read'[q] = read[q] /\ want'[q] = want[q]
          /\ listing'[q] = listing[q] /\ got'[q] = got[q]
      BY <1>1
    <2>2. InRange(Composed(listing[q]), want[q])' = InRange(Composed(listing[q]), want[q])
      BY <2>1 DEF InRange, Composed
    <2> QED
      BY <2>1, <2>2 DEF Promise
  <1>2. Promises' = [q \in Readers |-> Promise(q)']
    BY DEF Promises
  <1>3. Promise(r)' = p
    BY <1>2
  <1>4. \A q \in Readers : Promises'[q] = [Promises EXCEPT ![r] = p][q]
    BY <1>1, <1>2, <1>3 DEF Promises
  <1> QED
    BY <1>2, <1>4 DEF Promises

\* A read is a step of the read it implements.
LEMMA ReadImplements ==
    ASSUME IInv, NEW r \in Readers, ReadStep(r)
    PROVE  /\ Abstract!Ask(r) \/ Abstract!Answer(r) \/ Abstract!Refuse(r) \/ Abstract!Forget(r)
  <1>0. TypeOK /\ Composed(rows)' = Composed(rows) /\ content' = content
    BY DEF IInv, Composed, ReadStep, ListCovering, Compose, FailRead, EndRead, Return
  <1>1. ASSUME NEW K \in Ranges, ListCovering(r, K) PROVE Abstract!Ask(r)
    <2>1. Promises' = [Promises EXCEPT ![r] = [at |-> "asked",
                          facts |-> InRange(Composed({i \in rows : Covers(i, K)}), K)]]
      <3>1. /\ read'[r] = "listed" /\ want'[r] = K
            /\ listing'[r] = {i \in rows : Covers(i, K)}
            /\ \A q \in Readers : q # r =>
                  /\ read'[q] = read[q] /\ want'[q] = want[q]
                  /\ listing'[q] = listing[q] /\ got'[q] = got[q]
        BY <1>0, <1>1 DEF ListCovering, TypeOK
      <3>2. Promises'[r] = [at |-> "asked",
                            facts |-> InRange(Composed({i \in rows : Covers(i, K)}), K)]
        <4>1. Promises'[r] = Promise(r)'
          BY DEF Promises
        <4>2. InRange(Composed(listing[r]), want[r])'
                = InRange(Composed({i \in rows : Covers(i, K)}), K)
          BY <1>0, <3>1 DEF InRange, Composed
        <4> QED
          BY <3>1, <4>1, <4>2 DEF Promise
      <3> QED
        BY <1>0, <3>1, <3>2, OnePromise
    <2>2. Promises[r].at = "idle"
      BY <1>1 DEF ListCovering, Promises, Promise
    <2> QED
      BY <1>0, <2>1, <2>2, CoveringIsEnough DEF Abstract!Ask, Abstract!InRange, InRange
  <1>2. CASE Compose(r)
    <2>1. Promises[r].at = "asked" /\ Promises[r].facts = InRange(Composed(listing[r]), want[r])
      BY <1>2 DEF Compose, Promises, Promise
    <2>2. Promises' = [Promises EXCEPT ![r] = [at |-> "answered", facts |-> Promises[r].facts]]
      <3>1. /\ read'[r] = "done" /\ got'[r] = InRange(Composed(listing[r]), want[r])
            /\ \A q \in Readers : q # r =>
                  /\ read'[q] = read[q] /\ want'[q] = want[q]
                  /\ listing'[q] = listing[q] /\ got'[q] = got[q]
        BY <1>0, <1>2 DEF Compose, TypeOK
      <3>2. Promises'[r] = [at |-> "answered", facts |-> Promises[r].facts]
        BY <2>1, <3>1 DEF Promises, Promise
      <3> QED
        BY <1>0, <3>1, <3>2, OnePromise
    <2> QED
      BY <1>0, <2>1, <2>2 DEF Abstract!Answer
  <1>3. ASSUME Return(r), read[r] # "idle"
        PROVE  Promises' = [Promises EXCEPT ![r] = [at |-> "idle", facts |-> {}]]
    <2>1. /\ read'[r] = "idle"
          /\ \A q \in Readers : q # r =>
                /\ read'[q] = read[q] /\ want'[q] = want[q]
                /\ listing'[q] = listing[q] /\ got'[q] = got[q]
      BY <1>0, <1>3 DEF Return, TypeOK
    <2>2. Promises'[r] = [at |-> "idle", facts |-> {}]
      BY <2>1 DEF Promises, Promise
    <2> QED
      BY <1>0, <2>1, <2>2, OnePromise
  <1>4. CASE FailRead(r)
    BY <1>0, <1>3, <1>4 DEF FailRead, Promises, Promise, Abstract!Refuse
  <1>5. CASE EndRead(r)
    BY <1>0, <1>3, <1>5 DEF EndRead, Promises, Promise, Abstract!Forget
  <1> QED
    BY <1>1, <1>2, <1>4, <1>5 DEF ReadStep

\* The catalog of segments is the value it stands for: merging, sweeping and
\* failing change no answer, with any number of passes and reads at once
\* (segments.rs compact, sweep_bucket, read).
THEOREM ImplementsSegmentedValue == Spec => Refinement
  <1>1. Init => Abstract!Init
    BY DEF Init, Abstract!Init, Composed, Promises, Promise
  <1>2. IInv /\ [Next]_vars => [Abstract!Next]_<<Composed(rows), Promises>>
    <2> SUFFICES ASSUME IInv, [Next]_vars
                 PROVE  [Abstract!Next]_<<Composed(rows), Promises>>
      OBVIOUS
    <2>1. CASE UNCHANGED vars
      BY <2>1 DEF vars, reads, Composed, Promises, Promise, InRange
    <2>2. ASSUME NEW r \in Readers, ReadStep(r) PROVE Abstract!Next
      BY <2>2, ReadImplements DEF Abstract!Next
    <2>3. ASSUME NEW w \in Writes, Insert(w), Promises' = Promises PROVE Abstract!Next
      BY <2>3, InsertRecords DEF Abstract!Next, Abstract!Record
    <2> QED
      BY <2>1, <2>2, <2>3, ValueAndPromises
  <1> QED
    BY <1>1, <1>2, InductiveInvariant, PTL DEF Spec, Refinement, Abstract!Spec
=============================================================================
