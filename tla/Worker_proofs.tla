---------------------------- MODULE Worker_proofs ----------------------------
(***************************************************************************)
(* Proofs about a push on its way to the store: staging and promotion      *)
(* (Promote), the hand-over to a worker (Handoff), the front door          *)
(* (Receive) and the resolution of a pack (Ingest), for any pushes, calls, *)
(* plans, packs, sizes, limits and hooks, and any crash, kill or cut.      *)
(***************************************************************************)
EXTENDS Promote, Handoff, Receive, Ingest, SequenceTheorems, WellFoundedInduction, TLAPS

IsOn(f, S) == f = [x \in S |-> f[x]]

-----------------------------------------------------------------------------
(* Induction and recursion                                                 *)

\* A non-empty set of numbers has a least one.
LEMMA NatMin == \A T \in SUBSET Nat : T # {} => \E n \in T : \A m \in T : n <= m
<1> SUFFICES ASSUME NEW T \in SUBSET Nat, T # {}
             PROVE  \E n \in T : \A m \in T : n <= m
  OBVIOUS
<1> DEFINE R == OpToRel(<, Nat)
<1>1. IsWellFoundedOn(R, Nat)
  BY NatLessThanWellFounded, Zenon
<1>2. \A x, y \in Nat : x < y => <<x, y>> \in R
  BY DEF OpToRel
<1> HIDE DEF R
<1>3. PICK x \in T : \A y \in T : ~ (<<y, x>> \in R)
  BY <1>1, WFMin
<1>4. ASSUME NEW y \in T PROVE x <= y
  <2>1. x \in Nat /\ y \in Nat
    OBVIOUS
  <2>2. ~ (y < x)
    BY <1>2, <1>3, <2>1
  <2> QED  BY <2>1, <2>2
<1> QED  BY <1>4

\* A non-empty set of positions has a last one.
LEMMA LastIsThere ==
    ASSUME NEW n \in Nat, NEW T \in SUBSET (1..n), T # {}
    PROVE  \E i \in T : \A j \in T : i >= j
<1> DEFINE U == {n - i : i \in T}
<1>1. U \in SUBSET Nat
  OBVIOUS
<1>a. U # {}
  <2>1. PICK i \in T : TRUE
    OBVIOUS
  <2>2. n - i \in U
    BY <2>1
  <2> QED  BY <2>2
<1>2. PICK u \in U : \A v \in U : u <= v
  <2> HIDE DEF U
  <2> QED  BY <1>1, <1>a, NatMin
<1>3. PICK i \in T : u = n - i
  BY <1>2
<1>4. \A j \in T : n - i <= n - j
  BY <1>2, <1>3
<1> QED  BY <1>3, <1>4

\* Induction over a set of numbers.
LEMMA Counting ==
    ASSUME NEW T \in SUBSET Nat, 0 \in T, \A n \in T : n + 1 \in T
    PROVE  T = Nat
<1> SUFFICES ASSUME Nat \ T # {} PROVE FALSE
  OBVIOUS
<1>1. PICK n \in Nat \ T : \A m \in Nat \ T : n <= m
  BY NatMin
<1>2. n # 0 /\ n - 1 \in Nat /\ n - 1 \notin Nat \ T
  BY <1>1
<1>3. (n - 1) + 1 \in T
  BY <1>2
<1> QED  BY <1>1, <1>3

\* f is the function that starts with b and goes on by F.
Recurses(f, m, b, F) == \A n \in 0 .. m : f[n] = IF n = 0 THEN b ELSE F[<<f[n - 1], n>>]

\* A function defined by recursion over 0 .. m exists, and takes its values
\* where the steps of the recursion do.
LEMMA Recursion ==
    ASSUME NEW V, NEW b \in V, NEW m \in Nat, NEW F \in [V \X Nat -> V]
    PROVE  \E f \in [0 .. m -> V] : Recurses(f, m, b, F)
<1> DEFINE Ok(k, f) == \A n \in 0 .. k : f[n] = IF n = 0 THEN b ELSE F[<<f[n - 1], n>>]
           T == {k \in Nat : \E f \in [0 .. k -> V] : Ok(k, f)}
<1>1. 0 \in T
  <2>1. [n \in 0 .. 0 |-> b] \in [0 .. 0 -> V] /\ Ok(0, [n \in 0 .. 0 |-> b])
    OBVIOUS
  <2> QED  BY <2>1
<1>2. \A k \in T : k + 1 \in T
  <2> SUFFICES ASSUME NEW k \in T PROVE k + 1 \in T
    OBVIOUS
  <2>1. PICK f \in [0 .. k -> V] : Ok(k, f)
    OBVIOUS
  <2> DEFINE g == [n \in 0 .. k + 1 |-> IF n = k + 1 THEN F[<<f[k], k + 1>>] ELSE f[n]]
  <2>2. k \in Nat /\ k + 1 \in Nat /\ k \in 0 .. k
    OBVIOUS
  <2>3. F[<<f[k], k + 1>>] \in V
    BY <2>1, <2>2
  <2>4. g \in [0 .. k + 1 -> V]
    BY <2>2, <2>3
  <2>5. ASSUME NEW n \in 0 .. k + 1
        PROVE  g[n] = IF n = 0 THEN b ELSE F[<<g[n - 1], n>>]
    <3>1. CASE n = k + 1
      <4>1. g[n - 1] = f[k] /\ g[n] = F[<<f[k], k + 1>>] /\ n # 0
        BY <3>1, <2>2
      <4> QED  BY <4>1, <3>1
    <3>2. CASE n \in 0 .. k /\ n = 0
      <4>1. 0 \in 0 .. k
        BY <2>2
      <4>2. f[0] = b
        BY <2>1, <4>1
      <4>3. g[0] = f[0]
        BY <2>2
      <4> QED  BY <4>2, <4>3, <3>2
    <3>3. CASE n \in 0 .. k /\ n # 0
      <4>1. g[n] = f[n] /\ g[n - 1] = f[n - 1]
        BY <3>3, <2>2
      <4> QED  BY <4>1, <3>3, <2>1
    <3> QED  BY <3>1, <3>2, <3>3, <2>2
  <2>6. Ok(k + 1, g)
    BY <2>5
  <2> QED  BY <2>2, <2>4, <2>6
<1> HIDE DEF T
<1>3. T = Nat
  <2>1. T \subseteq Nat
    BY DEF T
  <2> QED  BY <1>1, <1>2, <2>1, Counting
<1> QED  BY <1>3 DEF T, Recurses

-----------------------------------------------------------------------------
(* Promote                                                                 *)
(*                                                                         *)
(* The invariant has two halves.  Of the staging area: a session's keys    *)
(* are numbered below the chunk being filled, so a flush overwrites        *)
(* nothing; a session that runs is registered, so the sweep and another    *)
(* session's cleanup pass its keys by; and of every key it is known who    *)
(* will see to it.  Of the tasks: a segment that landed is stored, and a   *)
(* push records with every segment landed.                                 *)

Phases == {"absent", "idle", "staging", "promoting", "recording", "answered", "failed", "gone"}
Before == {"absent", "idle"}
During == {"staging", "promoting", "recording"}

StagingKinds ==
    /\ phase \in [Pushes -> Phases]
    /\ chunkId \in [Pushes -> Nat]
    /\ IsOn(index, Pushes)
    /\ IsOn(current, Pushes) /\ \A p \in Pushes : current[p] \in Seq(ObjectsOf(p))
    /\ active \subseteq Pushes /\ cleaning \subseteq Pushes

\* A session is registered while its push runs, and cleaned up afterwards.
SessionsAreKnown ==
    /\ active \intersect cleaning = {}
    /\ \A p \in Pushes : phase[p] \in During => p \in active
    /\ \A p \in Pushes : phase[p] \in Before =>
         p \notin active \union cleaning /\ DOMAIN index[p] = {}

\* The chunk being filled has no key yet.
ChunksAreNumbered ==
    \A k \in disk : k.session \in Pushes => k.chunk \in 0 .. chunkId[k.session] - 1

\* Once the sweep has listed, somebody will see to every key, or has tried.
KeysAreSeenTo ==
    /\ sweep = "done" => listed = {}
    /\ sweep # "spawned" =>
         \A k \in disk : k.session \in active \union cleaning \/ k \in undeleted \union listed

Buffered(p, o) ==
    index[p][o] = chunkId[p] /\ \E i \in DOMAIN current[p] : current[p][i] = o

IndexIsTrue ==
    \A p \in active : \A o \in DOMAIN index[p] : Buffered(p, o) \/ Staged(p, o)

StagingInv ==
    /\ StagingKinds
    /\ SessionsAreKnown
    /\ ChunksAreNumbered
    /\ KeysAreSeenTo
    /\ IndexIsTrue

IsTask(t) == t = [f \in {"at", "done", "mode", "size"} |-> t[f]]

TaskKinds ==
    /\ IsOn(phase, Pushes) /\ IsOn(task, Pushes)
    /\ \A p \in Pushes : IsOn(task[p], Starts(p)) /\ \A s \in Starts(p) : IsTask(task[p][s])

\* A segment that landed is a completed object.
LandedIsStored ==
    \A p \in Pushes : \A s \in Starts(p) : task[p][s].at = "landed" => <<p, s>> \in stored

\* A push records with every segment landed.
RecordsTheLanded ==
    /\ \A p \in Pushes : phase[p] = "recording" => AllLanded(p)
    /\ recordedPushes \subseteq Pushes

TaskInv ==
    /\ TaskKinds
    /\ LandedIsStored
    /\ RecordsTheLanded
    /\ RecordedIsStored

-----------------------------------------------------------------------------
(* The staging area.                                                       *)

\* Nothing of the staging area moves.
LEMMA StagingStays ==
    ASSUME StagingInv, UNCHANGED <<phase, stagingVars, disk, active, cleaning, sweepVars, undeleted>>
    PROVE  StagingInv'
<1> USE DEF StagingInv, stagingVars, sweepVars
<1>1. StagingKinds' /\ SessionsAreKnown' /\ ChunksAreNumbered' /\ KeysAreSeenTo'
  BY DEF StagingKinds, IsOn, SessionsAreKnown, ChunksAreNumbered, KeysAreSeenTo
<1>2. IndexIsTrue'
  BY DEF IndexIsTrue, Buffered, Staged
<1> QED  BY <1>1, <1>2

\* A push that has begun goes on or ends; its session goes with it.
LEMMA EndingKeepsStaging ==
    ASSUME StagingInv, NEW p \in Pushes, NEW to \in Phases \ Before,
           phase[p] \notin Before, phase' = [phase EXCEPT ![p] = to],
           \/ DropSession(p) /\ to \notin During
           \/ UNCHANGED <<active, cleaning>> /\ (to \in During => p \in active),
           UNCHANGED <<current, chunkId, index, disk, sweep, listed, undeleted>>
    PROVE  StagingInv'
<1> USE DEF StagingInv
<1>1. /\ phase'[p] = to /\ \A q \in Pushes \ {p} : phase'[q] = phase[q]
      /\ phase' \in [Pushes -> Phases]
  BY DEF StagingKinds
<1>2. /\ active' \subseteq active /\ cleaning' \subseteq Pushes
      /\ active \union cleaning \subseteq active' \union cleaning'
      /\ \A q \in Pushes \ {p} : q \in active' <=> q \in active
      /\ \A q \in Pushes \ {p} : q \in cleaning' <=> q \in cleaning
      /\ active' \intersect cleaning' = {}
      /\ to \in During => p \in active'
  <2>1. active \intersect cleaning = {} /\ active \subseteq Pushes /\ cleaning \subseteq Pushes
    BY DEF SessionsAreKnown, StagingKinds
  <2>2. CASE DropSession(p) /\ to \notin During
    BY <2>1, <2>2 DEF DropSession
  <2>3. CASE UNCHANGED <<active, cleaning>> /\ (to \in During => p \in active)
    BY <2>1, <2>3
  <2> QED  BY <2>2, <2>3
<1>3. StagingKinds'
  BY <1>1, <1>2 DEF StagingKinds, IsOn
<1>4. SessionsAreKnown'
  BY <1>1, <1>2 DEF SessionsAreKnown
<1>5. ChunksAreNumbered'
  BY DEF ChunksAreNumbered
<1>6. KeysAreSeenTo'
  BY <1>2 DEF KeysAreSeenTo
<1>7. IndexIsTrue'
  BY <1>2 DEF IndexIsTrue, Buffered, Staged
<1> QED  BY <1>3, <1>4, <1>5, <1>6, <1>7

\* What a session staged is where it was, when nothing of it moves.
LEMMA SessionStays ==
    ASSUME IndexIsTrue, NEW q \in active,
           index'[q] = index[q], chunkId'[q] = chunkId[q], current'[q] = current[q],
           \A k \in disk : k.session = q => k \in disk'
    PROVE  \A o \in DOMAIN index'[q] : Buffered(q, o)' \/ Staged(q, o)'
<1> SUFFICES ASSUME NEW o \in DOMAIN index'[q]
             PROVE  Buffered(q, o)' \/ Staged(q, o)'
  OBVIOUS
<1>1. Buffered(q, o) \/ Staged(q, o)
  BY DEF IndexIsTrue
<1>2. Buffered(q, o) => Buffered(q, o)'
  BY DEF Buffered
<1>3. Staged(q, o) => Staged(q, o)'
  BY DEF Staged
<1> QED  BY <1>1, <1>2, <1>3

LEMMA StartPushKeepsStaging ==
    ASSUME StagingInv, NEW p \in Pushes, StartPush(p)
    PROVE  StagingInv'
<1> USE DEF StagingInv
<1>1. /\ UNCHANGED <<current, chunkId, index, disk, cleaning, sweep, listed, undeleted>>
      /\ phase[p] = "idle" /\ phase' = [phase EXCEPT ![p] = "staging"]
      /\ active' = active \union {p}
  BY DEF StartPush, Register, stagingVars, sweepVars
<1>2. p \notin cleaning /\ DOMAIN index[p] = {}
  BY <1>1 DEF SessionsAreKnown, Before
<1>3. StagingKinds'
  BY <1>1 DEF StagingKinds, IsOn, Phases
<1>4. SessionsAreKnown'
  BY <1>1, <1>2 DEF SessionsAreKnown, StagingKinds, Before
<1>5. ChunksAreNumbered' /\ KeysAreSeenTo'
  BY <1>1 DEF ChunksAreNumbered, KeysAreSeenTo
<1>6. IndexIsTrue'
  BY <1>1, <1>2 DEF IndexIsTrue, Buffered, Staged
<1> QED  BY <1>3, <1>4, <1>5, <1>6

LEMMA CleanKeepsStaging ==
    ASSUME StagingInv, NEW p \in Pushes, Clean(p)
    PROVE  StagingInv'
<1> USE DEF StagingInv
<1>1. /\ UNCHANGED <<phase, current, chunkId, index, active, sweep, listed>>
      /\ p \in cleaning /\ cleaning' = cleaning \ {p}
  BY DEF Clean, stagingVars, sweepVars
<1>2. PICK gone \in SUBSET Keys(p) :
        disk' = disk \ gone /\ undeleted' = undeleted \union (Keys(p) \ gone)
  BY DEF Clean
<1>3. p \notin active
  BY <1>1 DEF SessionsAreKnown
<1>4. StagingKinds' /\ SessionsAreKnown'
  BY <1>1 DEF StagingKinds, IsOn, SessionsAreKnown
<1>5. ChunksAreNumbered' /\ KeysAreSeenTo'
  BY <1>1, <1>2 DEF ChunksAreNumbered, KeysAreSeenTo, Keys
<1>6. IndexIsTrue'
  BY <1>1, <1>2, <1>3 DEF IndexIsTrue, Buffered, Staged, Keys
<1> QED  BY <1>4, <1>5, <1>6

LEMMA SweepKeepsStaging ==
    ASSUME StagingInv, SweepList \/ SweepDone \/ \E id \in Pushes \cup {NoSession} : SweepSession(id)
    PROVE  StagingInv'
<1> USE DEF StagingInv
<1>1. UNCHANGED <<phase, current, chunkId, index, active, cleaning>>
  BY DEF SweepList, SweepDone, SweepSession, stagingVars
<1>2. StagingKinds' /\ SessionsAreKnown'
  BY <1>1 DEF StagingKinds, IsOn, SessionsAreKnown
<1>3. CASE SweepList
  <2>1. PICK seen \in SUBSET disk : listed' = seen /\ undeleted' = undeleted \union (disk \ seen)
    BY <1>3 DEF SweepList
  <2>2. disk' = disk /\ sweep' = "deleting"
    BY <1>3 DEF SweepList
  <2>3. ChunksAreNumbered' /\ KeysAreSeenTo'
    BY <1>1, <2>1, <2>2 DEF ChunksAreNumbered, KeysAreSeenTo
  <2>4. IndexIsTrue'
    BY <1>1, <2>2 DEF IndexIsTrue, Buffered, Staged
  <2> QED  BY <1>2, <2>3, <2>4
<1>4. CASE SweepDone
  <2>1. disk' = disk /\ listed = {} /\ listed' = listed /\ undeleted' = undeleted
        /\ sweep = "deleting"
    BY <1>4 DEF SweepDone
  <2>2. ChunksAreNumbered' /\ KeysAreSeenTo'
    BY <1>1, <2>1 DEF ChunksAreNumbered, KeysAreSeenTo
  <2>3. IndexIsTrue'
    BY <1>1, <2>1 DEF IndexIsTrue, Buffered, Staged
  <2> QED  BY <1>2, <2>2, <2>3
<1>5. ASSUME NEW id \in Pushes \cup {NoSession}, SweepSession(id)
      PROVE  ChunksAreNumbered' /\ KeysAreSeenTo' /\ IndexIsTrue'
  <2> DEFINE keys == {k \in listed : k.session = id}
  <2>1. sweep = "deleting" /\ sweep' = sweep /\ listed' = listed \ keys
    BY <1>5 DEF SweepSession
  <2>2. CASE id \in active
    <3>1. disk' = disk /\ undeleted' = undeleted
      BY <1>5, <2>2 DEF SweepSession, Live
    <3>2. ChunksAreNumbered' /\ KeysAreSeenTo'
      BY <1>1, <2>1, <2>2, <3>1 DEF ChunksAreNumbered, KeysAreSeenTo
    <3>3. IndexIsTrue'
      BY <1>1, <3>1 DEF IndexIsTrue, Buffered, Staged
    <3> QED  BY <3>2, <3>3
  <2>3. CASE id \notin active
    <3>1. PICK gone \in SUBSET keys :
            disk' = disk \ gone /\ undeleted' = undeleted \union (keys \ gone)
      BY <1>5, <2>3 DEF SweepSession, Live
    <3>2. ChunksAreNumbered' /\ KeysAreSeenTo'
      BY <1>1, <2>1, <3>1 DEF ChunksAreNumbered, KeysAreSeenTo
    <3>3. \A k \in disk : k.session \in active => k \in disk'
      BY <2>3, <3>1
    <3>4. IndexIsTrue'
      BY <1>1, <3>3 DEF IndexIsTrue, Buffered, Staged
    <3> QED  BY <3>2, <3>4
  <2> QED  BY <2>2, <2>3
<1> QED  BY <1>2, <1>3, <1>4, <1>5

LEMMA CrashKeepsStaging ==
    ASSUME StagingInv, Crash
    PROVE  StagingInv'
<1> USE DEF StagingInv
<1>1. /\ UNCHANGED <<chunkId, index, disk>>
      /\ active' = {} /\ cleaning' = {} /\ sweep' = "spawned"
      /\ current' = [p \in Pushes |-> <<>>]
      /\ phase' = [p \in Pushes |->
            IF phase[p] \in {"staging", "promoting", "recording"} THEN "gone" ELSE phase[p]]
  BY DEF Crash
<1>2. StagingKinds'
  <2>1. \A p \in Pushes : current'[p] \in Seq(ObjectsOf(p))
    BY <1>1
  <2>2. phase' \in [Pushes -> Phases]
    BY <1>1 DEF StagingKinds, Phases
  <2> QED  BY <1>1, <2>1, <2>2 DEF StagingKinds, IsOn
<1>3. SessionsAreKnown'
  BY <1>1 DEF SessionsAreKnown, Before, During
<1>4. ChunksAreNumbered' /\ KeysAreSeenTo' /\ IndexIsTrue'
  BY <1>1 DEF ChunksAreNumbered, KeysAreSeenTo, IndexIsTrue
<1> QED  BY <1>2, <1>3, <1>4

\* A flush writes one key, under a number no key of the session has.
LEMMA FlushWritesOneKey ==
    ASSUME StagingKinds, ChunksAreNumbered, NEW p \in Pushes, NEW objects, objects # <<>>,
           Flush(p, objects)
    PROVE  /\ disk' = disk \union {[session |-> p, chunk |-> chunkId[p],
                                    holds |-> {objects[i] : i \in DOMAIN objects}]}
           /\ current' = [current EXCEPT ![p] = <<>>]
           /\ chunkId' = [chunkId EXCEPT ![p] = chunkId[p] + 1]
<1>1. \A k \in disk : <<k.session, k.chunk>> # <<p, chunkId[p]>>
  BY DEF ChunksAreNumbered, StagingKinds
<1>2. {k \in disk : <<k.session, k.chunk>> # <<p, chunkId[p]>>} = disk
  BY <1>1
<1> QED  BY <1>2 DEF Flush, PutChunk, StagingKinds

LEMMA FlushKeepsStaging ==
    ASSUME StagingInv, NEW p \in Pushes, phase[p] = "staging",
           NEW to \in {"staging", "promoting"}, phase' = [phase EXCEPT ![p] = to],
           NEW objects, objects # <<>>, Flush(p, objects),
           IsOn(index', Pushes), \A q \in Pushes \ {p} : index'[q] = index[q],
           \A o \in DOMAIN index'[p] :
              \/ index'[p][o] = chunkId[p] /\ \E i \in DOMAIN objects : objects[i] = o
              \/ o \in DOMAIN index[p] /\ index'[p][o] = index[p][o] /\ Staged(p, o),
           UNCHANGED <<active, cleaning, sweep, listed, undeleted>>
    PROVE  StagingInv'
<1> USE DEF StagingInv
<1> DEFINE key == [session |-> p, chunk |-> chunkId[p],
                   holds |-> {objects[i] : i \in DOMAIN objects}]
<1>1. /\ disk' = disk \union {key} /\ current' = [current EXCEPT ![p] = <<>>]
      /\ chunkId' = [chunkId EXCEPT ![p] = chunkId[p] + 1]
  BY FlushWritesOneKey
<1>2. /\ key.session = p /\ key.chunk = chunkId[p]
      /\ \A i \in DOMAIN objects : objects[i] \in key.holds
  OBVIOUS
<1> HIDE DEF key
<1>3. p \in active /\ p \notin cleaning
  BY DEF SessionsAreKnown, During
<1>4. StagingKinds'
  <2>1. \A q \in Pushes : current'[q] \in Seq(ObjectsOf(q))
    BY <1>1 DEF StagingKinds, IsOn
  <2>2. phase' \in [Pushes -> Phases] /\ chunkId' \in [Pushes -> Nat]
    BY <1>1 DEF StagingKinds, Phases
  <2>3. IsOn(current', Pushes)
    BY <1>1 DEF StagingKinds, IsOn
  <2> QED  BY <2>1, <2>2, <2>3 DEF StagingKinds
<1>5. SessionsAreKnown'
  BY <1>3 DEF SessionsAreKnown, StagingKinds, Before
<1>6. ChunksAreNumbered'
  <2> SUFFICES ASSUME NEW k \in disk', k.session \in Pushes
               PROVE  k.chunk \in 0 .. chunkId'[k.session] - 1
    BY DEF ChunksAreNumbered
  <2>1. CASE k = key
    <3>1. chunkId[p] \in Nat /\ chunkId'[p] = chunkId[p] + 1
      BY <1>1 DEF StagingKinds
    <3> QED  BY <1>2, <2>1, <3>1
  <2>2. CASE k \in disk
    <3>1. k.chunk \in 0 .. chunkId[k.session] - 1 /\ chunkId[k.session] \in Nat
      BY <2>2 DEF ChunksAreNumbered, StagingKinds
    <3>2. chunkId'[k.session] \in {chunkId[k.session], chunkId[k.session] + 1}
      BY <1>1 DEF StagingKinds
    <3> QED  BY <3>1, <3>2
  <2> QED  BY <1>1, <2>1, <2>2
<1>7. KeysAreSeenTo'
  BY <1>1, <1>2, <1>3 DEF KeysAreSeenTo
<1>8. IndexIsTrue'
  <2>1. \A o \in DOMAIN index'[p] : Staged(p, o)'
    <3> SUFFICES ASSUME NEW o \in DOMAIN index'[p] PROVE Staged(p, o)'
      OBVIOUS
    <3>1. CASE index'[p][o] = chunkId[p] /\ \E i \in DOMAIN objects : objects[i] = o
      BY <1>1, <1>2, <3>1 DEF Staged
    <3>2. CASE o \in DOMAIN index[p] /\ index'[p][o] = index[p][o] /\ Staged(p, o)
      BY <1>1, <3>2 DEF Staged
    <3> QED  BY <3>1, <3>2
  <2>2. \A q \in active \ {p} : \A o \in DOMAIN index'[q] : Buffered(q, o)' \/ Staged(q, o)'
    <3>1. \A q \in active \ {p} :
            index'[q] = index[q] /\ chunkId'[q] = chunkId[q] /\ current'[q] = current[q]
      BY <1>1 DEF StagingKinds, IsOn
    <3> QED  BY <1>1, <3>1, SessionStays
  <2> QED  BY <2>1, <2>2 DEF IndexIsTrue
<1> QED  BY <1>4, <1>5, <1>6, <1>7, <1>8

LEMMA PushCompressedKeepsStaging ==
    ASSUME StagingInv, NEW p \in Pushes, PushCompressed(p)
    PROVE  StagingInv'
<1> USE DEF StagingInv
<1>1. phase[p] = "staging" /\ UNCHANGED <<sweep, listed, undeleted>>
  BY DEF PushCompressed, sweepVars
<1>2. PICK o \in ObjectsOf(p) \ DOMAIN index[p] :
        /\ index' = [index EXCEPT ![p] = [x \in DOMAIN index[p] \cup {o} |->
                        IF x = o THEN chunkId[p] ELSE index[p][x]]]
        /\ \/ /\ current' = [current EXCEPT ![p] = Append(current[p], o)]
              /\ UNCHANGED <<phase, active, cleaning, disk, chunkId>>
           \/ Flush(p, Append(current[p], o)) /\ UNCHANGED <<phase, active, cleaning>>
           \/ Fails(p) /\ UNCHANGED <<current, disk, chunkId>>
  BY DEF PushCompressed, StagingKinds, IsOn
<1> DEFINE objects == Append(current[p], o)
<1>3. /\ IsOn(index', Pushes) /\ \A q \in Pushes \ {p} : index'[q] = index[q]
      /\ index'[p] = [x \in DOMAIN index[p] \cup {o} |->
                        IF x = o THEN chunkId[p] ELSE index[p][x]]
  BY <1>2 DEF StagingKinds, IsOn
<1>4. p \in active /\ p \notin cleaning
  BY <1>1 DEF SessionsAreKnown, During
<1>5. /\ objects \in Seq(ObjectsOf(p)) /\ objects # <<>>
      /\ \E i \in DOMAIN objects : objects[i] = o
      /\ \A i \in DOMAIN current[p] : i \in DOMAIN objects /\ objects[i] = current[p][i]
  <2>1. current[p] \in Seq(ObjectsOf(p)) /\ o \in ObjectsOf(p)
    BY DEF StagingKinds
  <2>2. /\ Len(objects) = Len(current[p]) + 1 /\ objects[Len(current[p]) + 1] = o
        /\ objects \in Seq(ObjectsOf(p)) /\ DOMAIN objects = 1 .. Len(current[p]) + 1
        /\ \A i \in 1 .. Len(current[p]) : objects[i] = current[p][i]
        /\ DOMAIN current[p] = 1 .. Len(current[p]) /\ Len(current[p]) \in Nat
    BY <2>1
  <2> HIDE DEF objects
  <2> QED  BY <2>2
<1>6. \A x \in DOMAIN index'[p] :
        \/ index'[p][x] = chunkId[p] /\ \E i \in DOMAIN objects : objects[i] = x
        \/ x \in DOMAIN index[p] /\ index'[p][x] = index[p][x] /\ Staged(p, x)
  <2> HIDE DEF objects
  <2> SUFFICES ASSUME NEW x \in DOMAIN index'[p]
        PROVE  \/ index'[p][x] = chunkId[p] /\ \E i \in DOMAIN objects : objects[i] = x
               \/ x \in DOMAIN index[p] /\ index'[p][x] = index[p][x] /\ Staged(p, x)
    OBVIOUS
  <2>1. CASE x = o
    BY <1>3, <1>5, <2>1
  <2>2. CASE x # o
    <3>1. x \in DOMAIN index[p] /\ index'[p][x] = index[p][x]
      BY <1>3, <2>2
    <3>2. Buffered(p, x) \/ Staged(p, x)
      BY <1>4, <3>1 DEF IndexIsTrue
    <3> QED  BY <1>5, <3>1, <3>2 DEF Buffered
  <2> QED  BY <2>1, <2>2
<1>7. CASE /\ current' = [current EXCEPT ![p] = objects]
           /\ UNCHANGED <<phase, active, cleaning, disk, chunkId>>
  <2> HIDE DEF objects
  <2>1. StagingKinds'
    BY <1>3, <1>5, <1>7 DEF StagingKinds, IsOn
  <2>2. SessionsAreKnown'
    BY <1>3, <1>4, <1>7 DEF SessionsAreKnown, StagingKinds
  <2>3. ChunksAreNumbered' /\ KeysAreSeenTo'
    BY <1>1, <1>7 DEF ChunksAreNumbered, KeysAreSeenTo
  <2>4. \A x \in DOMAIN index'[p] : Buffered(p, x)' \/ Staged(p, x)'
    BY <1>6, <1>7 DEF Buffered, Staged, StagingKinds, IsOn
  <2>5. \A q \in active \ {p} : \A x \in DOMAIN index'[q] : Buffered(q, x)' \/ Staged(q, x)'
    <3>1. \A q \in active \ {p} :
            index'[q] = index[q] /\ chunkId'[q] = chunkId[q] /\ current'[q] = current[q]
      BY <1>3, <1>7 DEF StagingKinds, IsOn
    <3> QED  BY <1>7, <3>1, SessionStays
  <2>6. IndexIsTrue'
    BY <1>7, <2>4, <2>5 DEF IndexIsTrue
  <2> QED  BY <2>1, <2>2, <2>3, <2>6
<1>8. CASE Flush(p, objects) /\ UNCHANGED <<phase, active, cleaning>>
  <2> HIDE DEF objects
  <2>1. phase' = [phase EXCEPT ![p] = "staging"]
    BY <1>1, <1>8 DEF StagingKinds
  <2> QED  BY <1>1, <1>3, <1>5, <1>6, <1>8, <2>1, FlushKeepsStaging
<1>9. CASE Fails(p) /\ UNCHANGED <<current, disk, chunkId>>
  <2>1. /\ phase' = [phase EXCEPT ![p] = "failed"]
        /\ active' = active \ {p} /\ cleaning' = cleaning \union {p}
    BY <1>9 DEF Fails, DropSession
  <2>2. StagingKinds'
    BY <1>3, <1>9, <2>1 DEF StagingKinds, IsOn, Phases
  <2>3. SessionsAreKnown'
    BY <1>3, <2>1 DEF SessionsAreKnown, StagingKinds, Before, During
  <2>4. ChunksAreNumbered' /\ KeysAreSeenTo'
    BY <1>1, <1>9, <2>1 DEF ChunksAreNumbered, KeysAreSeenTo
  <2>5. IndexIsTrue'
    <3>1. \A q \in active \ {p} :
            index'[q] = index[q] /\ chunkId'[q] = chunkId[q] /\ current'[q] = current[q]
      BY <1>3, <1>9 DEF StagingKinds
    <3>2. \A q \in active \ {p} : \A x \in DOMAIN index'[q] : Buffered(q, x)' \/ Staged(q, x)'
      BY <1>9, <3>1, SessionStays
    <3> QED  BY <2>1, <3>2 DEF IndexIsTrue
  <2> QED  BY <2>2, <2>3, <2>4, <2>5
<1> QED  BY <1>2, <1>7, <1>8, <1>9

LEMMA FinishStagingKeepsStaging ==
    ASSUME StagingInv, NEW p \in Pushes, FinishStaging(p)
    PROVE  StagingInv'
<1>1. phase[p] = "staging" /\ UNCHANGED <<index, sweep, listed, undeleted>>
  BY DEF FinishStaging, sweepVars
<1>2. p \in active
  BY <1>1 DEF StagingInv, SessionsAreKnown, During
<1>3. CASE Fails(p) /\ UNCHANGED <<disk, current, chunkId>>
  BY <1>1, <1>3, EndingKeepsStaging DEF Fails, Phases, Before, During
<1>4. CASE /\ Flush(p, current[p]) /\ phase' = [phase EXCEPT ![p] = "promoting"]
           /\ UNCHANGED <<active, cleaning>>
  <2>1. CASE current[p] = <<>>
    <3>1. UNCHANGED <<disk, current, chunkId>>
      BY <1>4, <2>1 DEF Flush
    <3> QED  BY <1>1, <1>2, <1>4, <3>1, EndingKeepsStaging DEF Phases, Before, During
  <2>2. CASE current[p] # <<>>
    <3>1. \A x \in DOMAIN index'[p] :
            \/ index'[p][x] = chunkId[p] /\ \E i \in DOMAIN current[p] : current[p][i] = x
            \/ x \in DOMAIN index[p] /\ index'[p][x] = index[p][x] /\ Staged(p, x)
      BY <1>1, <1>2 DEF StagingInv, IndexIsTrue, Buffered
    <3>2. IsOn(index', Pushes) /\ \A q \in Pushes \ {p} : index'[q] = index[q]
      BY <1>1 DEF StagingInv, StagingKinds
    <3> QED  BY <1>1, <1>4, <2>2, <3>1, <3>2, FlushKeepsStaging
  <2> QED  BY <2>1, <2>2
<1> QED  BY <1>3, <1>4 DEF FinishStaging

-----------------------------------------------------------------------------
(* The tasks and the record.                                               *)

\* A step of the push leaves its tasks alone.
LEMMA PhaseKeepsTasks ==
    ASSUME TaskInv, UNCHANGED <<task, stored>>, IsOn(phase', Pushes),
           \A q \in Pushes : phase'[q] = "recording" => phase[q] = "recording" \/ AllLanded(q),
           recordedPushes' \subseteq recordedPushes \union {q \in Pushes : phase[q] = "recording"}
    PROVE  TaskInv'
<1> USE DEF TaskInv
<1>1. TaskKinds' /\ LandedIsStored'
  BY DEF TaskKinds, IsOn, IsTask, LandedIsStored
<1>2. RecordsTheLanded'
  BY DEF RecordsTheLanded, AllLanded
<1>3. RecordedIsStored'
  BY DEF RecordedIsStored, RecordsTheLanded, LandedIsStored, AllLanded
<1> QED  BY <1>1, <1>2, <1>3

\* A step of a task: it lands with its object, and nothing lands otherwise.
LEMMA MoveKeepsTasks ==
    ASSUME TaskInv, NEW p \in Pushes, NEW s \in Starts(p), NEW t, IsTask(t),
           SetTask(p, s, t), phase[p] # "recording",
           t.at = "landed" => <<p, s>> \in stored', stored \subseteq stored',
           UNCHANGED <<phase, recordedPushes>>
    PROVE  TaskInv'
<1> USE DEF TaskInv
<1>1. /\ IsOn(task', Pushes) /\ IsOn(task'[p], Starts(p)) /\ task'[p][s] = t
      /\ \A r \in Starts(p) \ {s} : task'[p][r] = task[p][r]
      /\ \A q \in Pushes \ {p} : task'[q] = task[q]
  BY DEF TaskKinds, IsOn, SetTask
<1>2. TaskKinds'
  BY <1>1 DEF TaskKinds, IsTask
<1>3. LandedIsStored'
  BY <1>1 DEF LandedIsStored
<1>4. RecordsTheLanded' /\ RecordedIsStored'
  BY <1>1 DEF RecordsTheLanded, AllLanded, RecordedIsStored
<1> QED  BY <1>2, <1>3, <1>4

LEMMA TaskStepKeepsTasks ==
    ASSUME TaskInv, NEW p \in Pushes, NEW s \in Starts(p), TaskStep(p, s)
    PROVE  TaskInv'
<1> DEFINE t == task[p][s]
<1>0. IsTask(t)
  BY DEF TaskInv, TaskKinds
<1> HIDE DEF t
<1>1. \A at : IsTask([t EXCEPT !.at = at]) /\ [t EXCEPT !.at = at].at = at
  BY <1>0 DEF IsTask
<1>2. \A at, mode : /\ IsTask([t EXCEPT !.at = at, !.mode = mode])
                    /\ [t EXCEPT !.at = at, !.mode = mode].at = at
  BY <1>0 DEF IsTask
<1>3. \A done, size : /\ IsTask([t EXCEPT !.done = done, !.size = size])
                      /\ [t EXCEPT !.done = done, !.size = size].at = t.at
  BY <1>0 DEF IsTask
<1>4. \A done, size, mode :
        /\ IsTask([[t EXCEPT !.done = done, !.size = size] EXCEPT !.mode = mode])
        /\ [[t EXCEPT !.done = done, !.size = size] EXCEPT !.mode = mode].at = t.at
  BY <1>0 DEF IsTask
<1>5. CASE TaskStarts(p, s) \/ TaskAdmitted(p, s) \/ TaskFails(p, s) \/ TaskAborted(p, s)
  <2>1. /\ phase[p] # "recording" /\ UNCHANGED <<phase, recordedPushes, stored>>
        /\ \E at \in {"stood", "waiting", "writing", "failed", "aborted"} :
             SetTask(p, s, [t EXCEPT !.at = at])
    BY <1>5 DEF TaskStarts, TaskAdmitted, TakesPermit, TaskFails, TaskAborted, TaskFrame,
       uploadVars, t
  <2> QED  BY <1>1, <2>1, MoveKeepsTasks
<1>6. CASE TaskWrites(p, s)
  <2>1. /\ phase[p] # "recording" /\ UNCHANGED <<phase, recordedPushes, stored>>
        /\ t.at = "writing"
    BY <1>6 DEF TaskWrites, Writes, TaskFrame, uploadVars, t
  <2>2. \/ \E at \in {"stood", "broken"} : SetTask(p, s, [t EXCEPT !.at = at])
        \/ SetTask(p, s, [t EXCEPT !.at = "broken", !.mode = "buffered"])
        \/ \E done, size : SetTask(p, s, [t EXCEPT !.done = done, !.size = size])
        \/ \E done, size : SetTask(p, s,
              [[t EXCEPT !.done = done, !.size = size] EXCEPT !.mode = "streaming"])
    BY <1>6 DEF TaskWrites, Writes, t
  <2>3. CASE \E at \in {"stood", "broken"} : SetTask(p, s, [t EXCEPT !.at = at])
    BY <1>1, <2>1, <2>3, MoveKeepsTasks
  <2>4. CASE SetTask(p, s, [t EXCEPT !.at = "broken", !.mode = "buffered"])
    <3> DEFINE broken == [t EXCEPT !.at = "broken", !.mode = "buffered"]
    <3>1. IsTask(broken) /\ broken.at = "broken"
      BY <1>2
    <3>2. SetTask(p, s, broken)
      BY <2>4
    <3> HIDE DEF broken
    <3> QED  BY <2>1, <3>1, <3>2, MoveKeepsTasks
  <2>5. CASE \E done, size : SetTask(p, s, [t EXCEPT !.done = done, !.size = size])
    BY <1>3, <2>1, <2>5, MoveKeepsTasks
  <2>6. CASE \E done, size : SetTask(p, s,
               [[t EXCEPT !.done = done, !.size = size] EXCEPT !.mode = "streaming"])
    <3>1. PICK done, size : SetTask(p, s,
               [[t EXCEPT !.done = done, !.size = size] EXCEPT !.mode = "streaming"])
      BY <2>6
    <3> DEFINE next == [[t EXCEPT !.done = done, !.size = size] EXCEPT !.mode = "streaming"]
    <3>2. IsTask(next) /\ next.at = t.at
      BY <1>4
    <3>3. SetTask(p, s, next)
      BY <3>1
    <3> HIDE DEF next
    <3> QED  BY <2>1, <3>2, <3>3, MoveKeepsTasks
  <2> QED  BY <2>2, <2>3, <2>4, <2>5, <2>6
<1>7. CASE TaskFinishes(p, s)
  <2>1. phase[p] # "recording" /\ UNCHANGED <<phase, recordedPushes>>
    BY <1>7 DEF TaskFinishes, TaskFrame
  <2>2. \/ SetTask(p, s, [t EXCEPT !.at = "landed"]) /\ stored' = stored \union {<<p, s>>}
        \/ SetTask(p, s, [t EXCEPT !.at = "broken"]) /\ stored' = stored
    BY <1>7 DEF TaskFinishes, uploadVars, t
  <2> QED  BY <1>1, <2>1, <2>2, MoveKeepsTasks
<1> QED  BY <1>5, <1>6, <1>7 DEF TaskStep

LEMMA FinishStagingKeepsTasks ==
    ASSUME TaskInv, NEW p \in Pushes, FinishStaging(p)
    PROVE  TaskInv'
<1> USE DEF TaskInv
<1>1. /\ UNCHANGED <<stored, recordedPushes>> /\ phase[p] = "staging"
      /\ \/ /\ phase' = [phase EXCEPT ![p] = "promoting"]
            /\ task' = [task EXCEPT ![p] = [s \in Starts(p) |-> Queued]]
         \/ phase' = [phase EXCEPT ![p] = "failed"] /\ UNCHANGED task
  BY DEF FinishStaging, Fails, uploadVars
<1>2. CASE UNCHANGED task /\ phase' = [phase EXCEPT ![p] = "failed"]
  BY <1>1, <1>2, PhaseKeepsTasks DEF TaskKinds, IsOn
<1>3. CASE /\ phase' = [phase EXCEPT ![p] = "promoting"]
           /\ task' = [task EXCEPT ![p] = [s \in Starts(p) |-> Queued]]
  <2>1. IsTask(Queued) /\ Queued.at = "queued"
    BY DEF Queued, NoTask, IsTask
  <2>2. /\ IsOn(task', Pushes) /\ IsOn(phase', Pushes) /\ phase'[p] = "promoting"
        /\ task'[p] = [s \in Starts(p) |-> Queued]
        /\ \A q \in Pushes \ {p} : task'[q] = task[q] /\ phase'[q] = phase[q]
    BY <1>3 DEF TaskKinds, IsOn
  <2>3. TaskKinds'
    BY <2>1, <2>2 DEF TaskKinds, IsOn
  <2>4. LandedIsStored' /\ RecordsTheLanded' /\ RecordedIsStored'
    BY <1>1, <2>1, <2>2 DEF LandedIsStored, RecordsTheLanded, AllLanded, RecordedIsStored
  <2> QED  BY <2>3, <2>4
<1> QED  BY <1>1, <1>2, <1>3

LEMMA CrashKeepsTasks ==
    ASSUME TaskInv, Crash
    PROVE  TaskInv'
<1> USE DEF TaskInv
<1>1. /\ UNCHANGED <<stored, recordedPushes>>
      /\ phase' = [p \in Pushes |->
            IF phase[p] \in {"staging", "promoting", "recording"} THEN "gone" ELSE phase[p]]
      /\ task' = [p \in Pushes |-> [s \in Starts(p) |->
            IF task[p][s].at \in Running
            THEN [task[p][s] EXCEPT !.at = "aborted"] ELSE task[p][s]]]
  BY DEF Crash, uploadVars
<1>2. \A p \in Pushes : \A s \in Starts(p) :
        IsTask(task'[p][s]) /\ (task'[p][s].at = "landed" => task[p][s].at = "landed")
  BY <1>1 DEF TaskKinds, IsTask
<1>3. TaskKinds'
  BY <1>1, <1>2 DEF TaskKinds, IsOn
<1>4. LandedIsStored' /\ RecordsTheLanded' /\ RecordedIsStored'
  BY <1>1, <1>2 DEF LandedIsStored, RecordsTheLanded, RecordedIsStored
<1> QED  BY <1>3, <1>4

-----------------------------------------------------------------------------
(* The whole.                                                              *)

LEMMA PromoteStarts == PInit => StagingInv /\ TaskInv
<1> SUFFICES ASSUME PInit PROVE StagingInv /\ TaskInv
  OBVIOUS
<1> USE DEF PInit
<1>1. phase \in [Pushes -> {"idle", "absent"}]
  OBVIOUS
<1>2. \A p \in Pushes : current[p] \in Seq(ObjectsOf(p)) /\ DOMAIN index[p] = {}
  OBVIOUS
<1>3. StagingKinds
  BY <1>1, <1>2 DEF StagingKinds, IsOn, Phases
<1>4. \A k \in disk : k.session \notin Pushes
  BY PromoteAssumption
<1>5. SessionsAreKnown /\ ChunksAreNumbered /\ KeysAreSeenTo /\ IndexIsTrue
  BY <1>1, <1>2, <1>4 DEF SessionsAreKnown, ChunksAreNumbered, KeysAreSeenTo, IndexIsTrue,
     Before, During
<1>6. IsTask(NoTask) /\ NoTask.at = "none"
  BY DEF NoTask, IsTask
<1>7. TaskKinds
  BY <1>1, <1>6 DEF TaskKinds, IsOn
<1>8. LandedIsStored /\ RecordsTheLanded /\ RecordedIsStored
  BY <1>1, <1>6 DEF LandedIsStored, RecordsTheLanded, RecordedIsStored
<1> QED  BY <1>3, <1>5, <1>7, <1>8 DEF StagingInv, TaskInv

LEMMA StepKeepsStaging == StagingInv /\ [PNext]_pvars => StagingInv'
<1> SUFFICES ASSUME StagingInv, [PNext]_pvars PROVE StagingInv'
  OBVIOUS
<1>1. CASE UNCHANGED pvars
  BY <1>1, StagingStays DEF pvars
<1>2. ASSUME NEW p \in Pushes, NEW s \in Starts(p), TaskStep(p, s), ~TaskAborted(p, s)
      PROVE  StagingInv'
  BY <1>2, StagingStays DEF TaskStep, TaskStarts, TaskAdmitted, TaskWrites, TaskFinishes,
     TaskFails, TaskFrame
<1>3. ASSUME NEW p \in Pushes, NEW s \in Starts(p), TaskAborted(p, s) PROVE StagingInv'
  <2>1. /\ phase[p] = "gone" /\ phase' = phase
        /\ DropSession(p) \/ UNCHANGED <<active, cleaning>>
        /\ UNCHANGED <<current, chunkId, index, disk, sweep, listed, undeleted>>
    BY <1>3 DEF TaskAborted, stagingVars, sweepVars
  <2>2. phase' = [phase EXCEPT ![p] = "gone"]
    BY <2>1 DEF StagingInv, StagingKinds
  <2> QED  BY <2>1, <2>2, EndingKeepsStaging DEF Phases, Before, During
<1>4. ASSUME NEW p \in Pushes, Join(p) \/ Record(p) \/ HangUp(p) PROVE StagingInv'
  <2>1. UNCHANGED <<current, chunkId, index, disk, sweep, listed, undeleted>>
    BY <1>4 DEF Join, Record, HangUp, stagingVars, sweepVars
  <2>2. /\ phase[p] \in During
        /\ \/ \E to \in {"failed", "answered", "gone"} :
                phase' = [phase EXCEPT ![p] = to] /\ DropSession(p)
           \/ \E to \in {"recording", "gone"} :
                phase' = [phase EXCEPT ![p] = to] /\ UNCHANGED <<active, cleaning>>
    BY <1>4 DEF Join, Record, HangUp, Fails, During
  <2>3. p \in active
    BY <2>2 DEF StagingInv, SessionsAreKnown
  <2> QED  BY <2>1, <2>2, <2>3, EndingKeepsStaging DEF Phases, Before, During
<1>5. ASSUME NEW p \in Pushes, PushStep(p) PROVE StagingInv'
  BY <1>2, <1>3, <1>4, <1>5, StartPushKeepsStaging, PushCompressedKeepsStaging,
     FinishStagingKeepsStaging, CleanKeepsStaging DEF PushStep
<1> QED  BY <1>1, <1>5, SweepKeepsStaging, CrashKeepsStaging DEF PNext

LEMMA StepKeepsTasks == TaskInv /\ [PNext]_pvars => TaskInv'
<1> SUFFICES ASSUME TaskInv, [PNext]_pvars PROVE TaskInv'
  OBVIOUS
<1>1. IsOn(phase, Pushes)
  BY DEF TaskInv, TaskKinds
<1>2. CASE UNCHANGED pvars
  BY <1>1, <1>2, PhaseKeepsTasks DEF pvars, uploadVars
<1>3. CASE SweepList \/ SweepDone \/ \E id \in Pushes \cup {NoSession} : SweepSession(id)
  <2>1. UNCHANGED <<phase, task, stored, recordedPushes>>
    BY <1>3 DEF SweepList, SweepDone, SweepSession, uploadVars
  <2> QED  BY <1>1, <2>1, PhaseKeepsTasks
<1>4. ASSUME NEW p \in Pushes, StartPush(p) \/ PushCompressed(p) \/ Clean(p) PROVE TaskInv'
  <2>1. /\ UNCHANGED <<task, stored, recordedPushes>>
        /\ phase' = phase \/ \E to \in {"staging", "failed"} : phase' = [phase EXCEPT ![p] = to]
    BY <1>4 DEF StartPush, PushCompressed, Clean, Fails, uploadVars
  <2>2. IsOn(phase', Pushes) /\ \A q \in Pushes : phase'[q] = "recording" => phase[q] = "recording"
    BY <1>1, <2>1 DEF IsOn
  <2> QED  BY <2>1, <2>2, PhaseKeepsTasks
<1>5. ASSUME NEW p \in Pushes, Join(p) PROVE TaskInv'
  <2>1. /\ UNCHANGED <<task, stored, recordedPushes>>
        /\ \/ AllLanded(p) /\ phase' = [phase EXCEPT ![p] = "recording"]
           \/ phase' = [phase EXCEPT ![p] = "failed"]
    BY <1>5 DEF Join, Fails, uploadVars
  <2>2. /\ IsOn(phase', Pushes)
        /\ \A q \in Pushes : phase'[q] = "recording" => phase[q] = "recording" \/ AllLanded(q)
    BY <1>1, <2>1 DEF IsOn
  <2> QED  BY <2>1, <2>2, PhaseKeepsTasks
<1>6. ASSUME NEW p \in Pushes, Record(p) \/ HangUp(p) PROVE TaskInv'
  <2>1. /\ UNCHANGED <<task, stored>>
        /\ \E to \in {"answered", "failed", "gone"} : phase' = [phase EXCEPT ![p] = to]
        /\ \/ recordedPushes' = recordedPushes
           \/ phase[p] = "recording" /\ recordedPushes' = recordedPushes \union {p}
    BY <1>6 DEF Record, HangUp, Fails, uploadVars
  <2>2. IsOn(phase', Pushes) /\ \A q \in Pushes : phase'[q] = "recording" => phase[q] = "recording"
    BY <1>1, <2>1 DEF IsOn
  <2> QED  BY <2>1, <2>2, PhaseKeepsTasks
<1>7. ASSUME NEW p \in Pushes, PushStep(p) PROVE TaskInv'
  BY <1>4, <1>5, <1>6, <1>7, FinishStagingKeepsTasks, TaskStepKeepsTasks DEF PushStep
<1> QED  BY <1>2, <1>3, <1>7, CrashKeepsTasks DEF PNext

\* Whatever the sweep, a restart or another session's cleanup deletes, what a
\* running push staged is where its index says, and what nobody owns any more
\* is gone when the sweep is (staging/buffer.rs, staging/store.rs).
THEOREM StagingStaysExact == PSpec => []StagingIsExact
<1>1. PInit => StagingInv
  BY PromoteStarts
<1>2. StagingInv /\ [PNext]_pvars => StagingInv'
  BY StepKeepsStaging
<1>3. StagingInv => StagingIsExact
  BY DEF StagingInv, StagingIsExact, IndexIsTrue, Buffered, KeysAreSeenTo
<1> QED  BY <1>1, <1>2, <1>3, PTL DEF PSpec

\* Whichever tasks fail, stand down or are dropped, a push is recorded only
\* with every segment stored (upload.rs collect_segments).
THEOREM RecordedStaysStored == PSpec => []RecordedIsStored
<1>1. PInit => TaskInv
  BY PromoteStarts
<1>2. TaskInv /\ [PNext]_pvars => TaskInv'
  BY StepKeepsTasks
<1>3. TaskInv => RecordedIsStored
  BY DEF TaskInv
<1> QED  BY <1>1, <1>2, <1>3, PTL DEF PSpec

-----------------------------------------------------------------------------
(* Handoff                                                                 *)
(*                                                                         *)
(* The invariant has two halves.  Of the stream: whatever is on the wire   *)
(* or in the reader's buffer is a frame this call's worker wrote, an       *)
(* outcome frame among them says what the ingest established, and nothing  *)
(* is charged while the front door still reads.  Of the bucket: every      *)
(* object in it is one its call names, and the keys the worker registered  *)
(* are all of the call's, but where the push itself could not be read.     *)

DoorFields == {"at", "pack", "push", "outcome"}
WorkFields == {"at", "staged"}

Kinds ==
    /\ IsOn(door, Calls) /\ IsOn(work, Calls)
    /\ \A c \in Calls : IsOn(door[c], DoorFields)
    /\ \A c \in Calls : IsOn(work[c], WorkFields)
    /\ IsOn(stream, Calls) /\ IsOn(pending, Calls) /\ IsOn(meter, Calls)
    /\ said \in [Calls -> Verdicts \union {Nothing}]

\* Until the worker is called nothing of it exists, and from then on nothing
\* more is staged.
Outset == {"idle", "delivered", "encoded"}

WorkFollowsTheCall(c) ==
    /\ door[c].at \in Outset => work[c].at = "none"
    /\ door[c].at = "idle" => door[c].pack = "none"
    /\ door[c].at \in {"idle", "delivered"} => door[c].push = "none"

\* The verdict is established once, by the ingest.
SaidByTheIngest(c) ==
    said[c] # Nothing => work[c].at \in {"ingested", "closing", "closed", "killed"}

\* An ingest that settled has a verdict.
IngestedIsSaid(c) == work[c].at = "ingested" => said[c] # Nothing

\* What may be on the wire of a call.
Plain == {[is |-> "meta"], [is |-> "zero"], [is |-> "nl"], [is |-> "progress"],
          Failed(0), Failed(1)}
Frames(c) == Plain \union {Done(v) : v \in {said[c]} \ {Nothing}}

WireIsTrue(c) == stream[c] \in Seq(Frames(c)) /\ pending[c] \in Seq(Frames(c))

\* Nothing is charged before the outcome is read, and then once.
ChargedAtTheOutcome(c) ==
    /\ meter[c] \in {0, 1}
    /\ door[c].at \in Outset \union {"collecting"} => meter[c] = 0

\* The outcome acted on is the ingest's.
AnsweredTruly(c) ==
    door[c].at = "answered" =>
        /\ said[c] # Nothing /\ meter[c] = 1
        /\ door[c].outcome = "clear" <=> said[c] = "clear"

\* The bucket holds what the call names.
BucketIsNamed(c) == \A o \in bucket : o.call = c => o.what \in StagedFor(c)

\* The keys a worker registered: all, or the push's where it was not read.
RegisteredIsWhole(c) ==
    /\ work[c].at \in {"ingesting", "ingested"} => work[c].staged = StagedFor(c)
    /\ work[c].at \in {"failed", "closing"} =>
         \/ work[c].staged = StagedFor(c)
         \/ work[c].staged = {"push"} /\ "push" \in StagedFor(c) /\ said[c] = Nothing

\* What is left of a call once its worker closed.
Collected(c) ==
    work[c].at = "closed" =>
        \A o \in bucket : o.call = c =>
            \/ o.what \in work[c].staged
            \/ o.what = "pack" /\ "push" \in StagedFor(c) /\ said[c] = Nothing

StreamOk(c) ==
    /\ SaidByTheIngest(c)
    /\ IngestedIsSaid(c)
    /\ WireIsTrue(c)
    /\ ChargedAtTheOutcome(c)
    /\ AnsweredTruly(c)

BucketOk(c) ==
    /\ WorkFollowsTheCall(c)
    /\ BucketIsNamed(c)
    /\ RegisteredIsWhole(c)
    /\ Collected(c)

Inv == Kinds /\ \A c \in Calls : StreamOk(c) /\ BucketOk(c)

\* The environment serves a call that was made.
ServesTheCalled ==
    /\ IsOn(env, {"kept", "serving", "built"})
    /\ \A c \in Calls : env.serving = c => work[c].at # "none"

\* A step leaves another call as it was.
Same(c) ==
    /\ door'[c] = door[c] /\ work'[c] = work[c] /\ stream'[c] = stream[c]
    /\ pending'[c] = pending[c] /\ meter'[c] = meter[c] /\ said'[c] = said[c]
    /\ \A o \in bucket' : o.call = c => o \in bucket

-----------------------------------------------------------------------------
(* Sequences.                                                              *)


LEMMA FirstIsThere == \A T \in SUBSET Nat : T # {} => First(T) \in T
<1> SUFFICES ASSUME NEW T \in SUBSET Nat, T # {} PROVE First(T) \in T
  OBVIOUS
<1>1. \E n \in T : \A m \in T : n <= m
  BY NatMin
<1> QED  BY <1>1 DEF First


\* What is left of a sequence of frames is a sequence of frames.
LEMMA TailIsPart ==
    ASSUME NEW S, NEW bytes \in Seq(S), NEW i \in 1..Len(bytes) + 1
    PROVE  SubSeq(bytes, i, Len(bytes)) \in Seq(S)
  BY SubSeqProperties, LenProperties

LEMMA HeadIsPart ==
    ASSUME NEW S, NEW bytes \in Seq(S), NEW n \in 0..Len(bytes)
    PROVE  SubSeq(bytes, 1, n) \in Seq(S)
  BY SubSeqProperties, LenProperties

\* skip_prelude and drain_frames keep the bytes they do not take.
LEMMA SkipIsPart ==
    ASSUME NEW S, NEW bytes \in Seq(S)
    PROVE  SkipPrelude(bytes) \in Seq(S)
<1>1. Len(bytes) \in Nat
  BY LenProperties
<1>2. CASE Delimited(bytes) # {}
  <2> DEFINE i == First(Delimited(bytes))
  <2>a. Delimited(bytes) \in SUBSET (1..Len(bytes) - 1)
    BY DEF Delimited
  <2>b. Delimited(bytes) \in SUBSET Nat
    BY <1>1, <2>a
  <2>1. i \in 1..Len(bytes) - 1
    BY <1>2, <2>a, <2>b, FirstIsThere
  <2> HIDE DEF i
  <2>2. 2 + i \in 1..Len(bytes) + 1
    BY <1>1, <2>1
  <2>3. SubSeq(bytes, 2 + i, Len(bytes)) \in Seq(S)
    BY <2>2, TailIsPart
  <2> QED  BY <1>2, <2>3 DEF SkipPrelude, i
<1> QED  BY <1>2 DEF SkipPrelude

LEMMA PartialIsPart ==
    ASSUME NEW S, NEW bytes \in Seq(S)
    PROVE  Partial(bytes) \in Seq(S)
<1>1. Len(bytes) \in Nat
  BY LenProperties
<1>2. CASE WholeLines(bytes) # {}
  <2> DEFINE i == CHOOSE i \in WholeLines(bytes) : \A j \in WholeLines(bytes) : i >= j
  <2>1. WholeLines(bytes) \in SUBSET (1..Len(bytes))
    BY DEF WholeLines
  <2>2. \E j \in WholeLines(bytes) : \A k \in WholeLines(bytes) : j >= k
    BY <1>1, <1>2, <2>1, LastIsThere
  <2>3. i \in WholeLines(bytes)
    BY <2>2
  <2> HIDE DEF i
  <2>4. 1 + i \in 1..Len(bytes) + 1
    BY <1>1, <2>1, <2>3
  <2>5. SubSeq(bytes, 1 + i, Len(bytes)) \in Seq(S)
    BY <2>4, TailIsPart
  <2> QED  BY <1>2, <2>5 DEF Partial, i
<1> QED  BY <1>2 DEF Partial

\* The frame an outcome is read from is one of the bytes.
LEMMA OutcomeIsPart ==
    ASSUME NEW S, NEW bytes \in Seq(S), Outcomes(bytes) # {}
    PROVE  LET frame == bytes[First(Outcomes(bytes)) - 1]
           IN  frame \in S /\ frame.is \in {"done", "failed"}
<1> DEFINE i == First(Outcomes(bytes))
<1>1. Len(bytes) \in Nat
  BY LenProperties
<1>2. Outcomes(bytes) \in SUBSET Nat
  BY <1>1 DEF Outcomes, WholeLines
<1>3. i \in Outcomes(bytes)
  BY <1>2, FirstIsThere
<1> HIDE DEF i
<1>4. i - 1 \in 1..Len(bytes) /\ bytes[i - 1].is \in {"done", "failed"}
  BY <1>1, <1>3 DEF Outcomes, WholeLines
<1>5. bytes[i - 1] \in S
  BY <1>4, ElementOfSeq
<1> QED  BY <1>4, <1>5 DEF i

-----------------------------------------------------------------------------
(* Steps.                                                                  *)

\* A step of one call need be looked at for that call only.
LEMMA OneCall ==
    ASSUME Inv, NEW c \in Calls, Kinds', \A q \in Calls \ {c} : Same(q),
           StreamOk(c)', BucketOk(c)'
    PROVE  Inv'
<1>1. ASSUME NEW q \in Calls \ {c}
      PROVE  StreamOk(q)' /\ BucketOk(q)'
  <2>1. StreamOk(q) /\ BucketOk(q) /\ Same(q)
    BY DEF Inv
  <2>2. StreamOk(q)'
    BY <2>1 DEF StreamOk, Same, SaidByTheIngest, IngestedIsSaid, WireIsTrue, Frames,
       ChargedAtTheOutcome, AnsweredTruly
  <2>3. BucketOk(q)'
    BY <2>1 DEF BucketOk, Same, WorkFollowsTheCall, BucketIsNamed, RegisteredIsWhole,
       Collected, StagedFor
  <2> QED  BY <2>2, <2>3
<1> QED  BY <1>1 DEF Inv

\* What a step makes of the front door's record of a call.
DoorIs(c, at, pack, push, outcome) ==
    /\ IsOn(door', Calls) /\ \A q \in Calls : IsOn(door'[q], DoorFields)
    /\ \A q \in Calls \ {c} : door'[q] = door[q]
    /\ door'[c].at = at /\ door'[c].pack = pack /\ door'[c].push = push
    /\ door'[c].outcome = outcome

WorkIs(c, at, staged) ==
    /\ IsOn(work', Calls) /\ \A q \in Calls : IsOn(work'[q], WorkFields)
    /\ \A q \in Calls \ {c} : work'[q] = work[q]
    /\ work'[c].at = at /\ work'[c].staged = staged

LEMMA DoorSet ==
    ASSUME Kinds, NEW c \in Calls, NEW d, IsOn(d, DoorFields), door' = [door EXCEPT ![c] = d]
    PROVE  DoorIs(c, d.at, d.pack, d.push, d.outcome)
<1>1. IsOn(door, Calls) /\ \A q \in Calls : IsOn(door[q], DoorFields)
  BY DEF Kinds
<1>2. IsOn(door', Calls) /\ door'[c] = d /\ \A q \in Calls \ {c} : door'[q] = door[q]
  BY <1>1 DEF IsOn
<1>3. \A q \in Calls : IsOn(door'[q], DoorFields)
  BY <1>1, <1>2
<1> QED  BY <1>2, <1>3 DEF DoorIs

LEMMA DoorAt ==
    ASSUME Kinds, NEW c \in Calls, NEW a, door' = [door EXCEPT ![c].at = a]
    PROVE  DoorIs(c, a, door[c].pack, door[c].push, door[c].outcome)
<1> DEFINE e == door[c]
           d == [e EXCEPT !.at = a]
<1>1. IsOn(e, DoorFields) /\ door' = [door EXCEPT ![c] = d]
  BY DEF Kinds
<1> HIDE DEF e
<1>2. /\ IsOn(d, DoorFields) /\ d.at = a /\ d.pack = e.pack
      /\ d.push = e.push /\ d.outcome = e.outcome
  BY <1>1 DEF IsOn, DoorFields
<1> HIDE DEF d
<1>3. DoorIs(c, d.at, d.pack, d.push, d.outcome)
  BY <1>1, <1>2, DoorSet
<1> QED  BY <1>2, <1>3 DEF e

LEMMA DoorPack ==
    ASSUME Kinds, NEW c \in Calls, NEW a, NEW b,
           door' = [door EXCEPT ![c].at = a, ![c].pack = b]
    PROVE  DoorIs(c, a, b, door[c].push, door[c].outcome)
<1> DEFINE e == door[c]
           d == [e EXCEPT !.at = a, !.pack = b]
<1>1. IsOn(e, DoorFields) /\ door' = [door EXCEPT ![c] = d]
  BY DEF Kinds, IsOn
<1> HIDE DEF e
<1>2. /\ IsOn(d, DoorFields) /\ d.at = a /\ d.pack = b
      /\ d.push = e.push /\ d.outcome = e.outcome
  BY <1>1 DEF IsOn, DoorFields
<1> HIDE DEF d
<1>3. DoorIs(c, d.at, d.pack, d.push, d.outcome)
  BY <1>1, <1>2, DoorSet
<1> QED  BY <1>2, <1>3 DEF e

LEMMA DoorPush ==
    ASSUME Kinds, NEW c \in Calls, NEW a, NEW b,
           door' = [door EXCEPT ![c].at = a, ![c].push = b]
    PROVE  DoorIs(c, a, door[c].pack, b, door[c].outcome)
<1> DEFINE e == door[c]
           d == [e EXCEPT !.at = a, !.push = b]
<1>1. IsOn(e, DoorFields) /\ door' = [door EXCEPT ![c] = d]
  BY DEF Kinds, IsOn
<1> HIDE DEF e
<1>2. /\ IsOn(d, DoorFields) /\ d.at = a /\ d.push = b
      /\ d.pack = e.pack /\ d.outcome = e.outcome
  BY <1>1 DEF IsOn, DoorFields
<1> HIDE DEF d
<1>3. DoorIs(c, d.at, d.pack, d.push, d.outcome)
  BY <1>1, <1>2, DoorSet
<1> QED  BY <1>2, <1>3 DEF e

LEMMA DoorOutcome ==
    ASSUME Kinds, NEW c \in Calls, NEW a, NEW b,
           door' = [door EXCEPT ![c].at = a, ![c].outcome = b]
    PROVE  DoorIs(c, a, door[c].pack, door[c].push, b)
<1> DEFINE e == door[c]
           d == [e EXCEPT !.at = a, !.outcome = b]
<1>1. IsOn(e, DoorFields) /\ door' = [door EXCEPT ![c] = d]
  BY DEF Kinds, IsOn
<1> HIDE DEF e
<1>2. /\ IsOn(d, DoorFields) /\ d.at = a /\ d.outcome = b
      /\ d.pack = e.pack /\ d.push = e.push
  BY <1>1 DEF IsOn, DoorFields
<1> HIDE DEF d
<1>3. DoorIs(c, d.at, d.pack, d.push, d.outcome)
  BY <1>1, <1>2, DoorSet
<1> QED  BY <1>2, <1>3 DEF e

LEMMA WorkAt ==
    ASSUME Kinds, NEW c \in Calls, NEW a, work' = [work EXCEPT ![c].at = a]
    PROVE  WorkIs(c, a, work[c].staged)
<1> DEFINE e == work[c]
           d == [e EXCEPT !.at = a]
<1>1. /\ IsOn(work, Calls) /\ \A q \in Calls : IsOn(work[q], WorkFields)
      /\ work' = [work EXCEPT ![c] = d]
  BY DEF Kinds
<1>2. IsOn(e, WorkFields)
  BY <1>1
<1>3. IsOn(work', Calls) /\ work'[c] = d /\ \A q \in Calls \ {c} : work'[q] = work[q]
  BY <1>1 DEF IsOn
<1> HIDE DEF e
<1>4. IsOn(d, WorkFields) /\ d.at = a /\ d.staged = e.staged
  BY <1>2 DEF IsOn, WorkFields
<1> HIDE DEF d
<1> QED  BY <1>1, <1>3, <1>4 DEF WorkIs, e

LEMMA WorkSet ==
    ASSUME Kinds, NEW c \in Calls, NEW a, NEW s,
           work' = [work EXCEPT ![c] = [at |-> a, staged |-> s]]
    PROVE  WorkIs(c, a, s)
<1> DEFINE d == [at |-> a, staged |-> s]
<1>1. IsOn(work, Calls) /\ \A q \in Calls : IsOn(work[q], WorkFields)
  BY DEF Kinds
<1>2. IsOn(work', Calls) /\ work'[c] = d /\ \A q \in Calls \ {c} : work'[q] = work[q]
  BY <1>1 DEF IsOn
<1>3. IsOn(d, WorkFields) /\ d.at = a /\ d.staged = s
  BY DEF IsOn, WorkFields
<1> HIDE DEF d
<1> QED  BY <1>1, <1>2, <1>3 DEF WorkIs

\* A step that changes neither what is said nor what is on the wire.
LEMMA DoorMoves ==
    ASSUME NEW c \in Calls, StreamOk(c),
           UNCHANGED <<work, stream, pending, meter, said>>,
           door[c].at \in Outset \union {"collecting"}, door'[c].at # "answered"
    PROVE  StreamOk(c)'
  BY DEF StreamOk, SaidByTheIngest, IngestedIsSaid, WireIsTrue, Frames,
     ChargedAtTheOutcome, AnsweredTruly

LEMMA DeliverKeeps ==
    ASSUME Inv, NEW c \in Calls, Deliver(c)
    PROVE  Inv'
<1>0. Kinds /\ StreamOk(c) /\ BucketOk(c)
  BY DEF Inv
<1>1. UNCHANGED <<work, stream, pending, meter, said>> /\ door[c].at = "idle"
  BY DEF Deliver
<1>2. /\ \/ DoorIs(c, "delivered", "inline", door[c].push, door[c].outcome)
         \/ DoorIs(c, "delivered", "staged", door[c].push, door[c].outcome)
         \/ DoorIs(c, "errored", door[c].pack, door[c].push, door[c].outcome)
      /\ \A o \in bucket' : \/ o \in bucket
                            \/ o.call = c /\ o.what = "pack" /\ door'[c].pack = "staged"
  <2>1. CASE door' = [door EXCEPT ![c].at = "delivered", ![c].pack = "inline"] /\ bucket' = bucket
    BY <1>0, <2>1, DoorPack
  <2>2. CASE /\ door' = [door EXCEPT ![c].at = "delivered", ![c].pack = "staged"]
             /\ bucket' = bucket \union {Object(c, "pack", Size[c])}
    <3> DEFINE new == Object(c, "pack", Size[c])
    <3>a. new.call = c /\ new.what = "pack" /\ bucket' = bucket \union {new}
      BY <2>2 DEF Object
    <3> HIDE DEF new
    <3>1. DoorIs(c, "delivered", "staged", door[c].push, door[c].outcome)
      BY <1>0, <2>2, DoorPack
    <3>2. \A o \in bucket' : \/ o \in bucket
                             \/ o.call = c /\ o.what = "pack" /\ door'[c].pack = "staged"
      BY <3>a, <3>1 DEF DoorIs
    <3> QED  BY <3>1, <3>2
  <2>3. CASE Errs(c) /\ bucket' = bucket
    BY <1>0, <2>3, DoorAt DEF Errs
  <2> QED  BY <2>1, <2>2, <2>3 DEF Deliver
<1>3. Kinds'
  BY <1>0, <1>1, <1>2 DEF Kinds, IsOn, DoorIs
<1>4. \A q \in Calls \ {c} : Same(q)
  BY <1>1, <1>2 DEF Same, DoorIs
<1>5. StreamOk(c)'
  BY <1>0, <1>1, <1>2, DoorMoves DEF Outset, DoorIs
<1>6. BucketOk(c)'
  BY <1>0, <1>1, <1>2 DEF BucketOk, WorkFollowsTheCall, BucketIsNamed, RegisteredIsWhole,
     Collected, StagedFor, Outset, DoorIs
<1> QED  BY <1>3, <1>4, <1>5, <1>6, OneCall

LEMMA EncodeCallKeeps ==
    ASSUME Inv, NEW c \in Calls, EncodeCall(c)
    PROVE  Inv'
<1>0. Kinds /\ StreamOk(c) /\ BucketOk(c)
  BY DEF Inv
<1>1. UNCHANGED <<work, stream, pending, meter, said>> /\ door[c].at = "delivered"
  BY DEF EncodeCall
<1>2. /\ \/ DoorIs(c, "encoded", door[c].pack, "inline", door[c].outcome)
         \/ DoorIs(c, "encoded", door[c].pack, "staged", door[c].outcome)
         \/ DoorIs(c, "errored", door[c].pack, door[c].push, door[c].outcome)
      /\ \A o \in bucket' : \/ o \in bucket
                            \/ o.call = c /\ o.what = "push" /\ door'[c].push = "staged"
  <2>1. CASE door' = [door EXCEPT ![c].at = "encoded", ![c].push = "inline"] /\ bucket' = bucket
    BY <1>0, <2>1, DoorPush
  <2>2. CASE /\ door' = [door EXCEPT ![c].at = "encoded", ![c].push = "staged"]
             /\ bucket' = bucket \union {Object(c, "push", Body(c))}
    <3> DEFINE new == Object(c, "push", Body(c))
    <3>a. new.call = c /\ new.what = "push" /\ bucket' = bucket \union {new}
      BY <2>2 DEF Object
    <3> HIDE DEF new
    <3>1. DoorIs(c, "encoded", door[c].pack, "staged", door[c].outcome)
      BY <1>0, <2>2, DoorPush
    <3>2. \A o \in bucket' : \/ o \in bucket
                             \/ o.call = c /\ o.what = "push" /\ door'[c].push = "staged"
      BY <3>a, <3>1 DEF DoorIs
    <3> QED  BY <3>1, <3>2
  <2>3. CASE Errs(c) /\ bucket' = bucket
    BY <1>0, <2>3, DoorAt DEF Errs
  <2> QED  BY <2>1, <2>2, <2>3 DEF EncodeCall
<1>3. Kinds'
  BY <1>0, <1>1, <1>2 DEF Kinds, IsOn, DoorIs
<1>4. \A q \in Calls \ {c} : Same(q)
  BY <1>1, <1>2 DEF Same, DoorIs
<1>5. StreamOk(c)'
  BY <1>0, <1>1, <1>2, DoorMoves DEF Outset, DoorIs
<1>6. BucketOk(c)'
  BY <1>0, <1>1, <1>2 DEF BucketOk, WorkFollowsTheCall, BucketIsNamed, RegisteredIsWhole,
     Collected, StagedFor, Outset, DoorIs
<1> QED  BY <1>3, <1>4, <1>5, <1>6, OneCall

\* Frames only grow: a verdict said stays on the list.
LEMMA FramesGrow ==
    ASSUME NEW c \in Calls, said[c] = Nothing \/ said'[c] = said[c]
    PROVE  \A z \in Seq(Frames(c)) : z \in Seq(Frames(c)')
<1>1. Frames(c) \subseteq Frames(c)'
  BY DEF Frames
<1> HIDE DEF Frames
<1> QED  BY <1>1

\* A frame is written with its newline.
LEMMA SendIsTrue ==
    ASSUME Kinds, NEW c \in Calls, WireIsTrue(c), NEW f \in Frames(c), Send(c, f),
           UNCHANGED <<said, pending>>
    PROVE  WireIsTrue(c)' /\ IsOn(stream', Calls) /\ \A q \in Calls \ {c} : stream'[q] = stream[q]
<1>1. IsOn(stream', Calls) /\ \A q \in Calls \ {c} : stream'[q] = stream[q]
  BY DEF Kinds, IsOn, Send
<1>2. stream'[c] = stream[c] \o << f, [is |-> "nl"] >>
  BY DEF Kinds, IsOn, Send
<1>3. [is |-> "nl"] \in Frames(c)
  BY DEF Frames, Plain
<1>4. << f, [is |-> "nl"] >> \in Seq(Frames(c))
  <2> HIDE DEF Frames
  <2> QED  BY <1>3
<1>5. stream'[c] \in Seq(Frames(c))
  <2> HIDE DEF Frames
  <2> QED  BY <1>2, <1>4, ConcatProperties DEF WireIsTrue
<1>6. Frames(c)' = Frames(c)
  BY DEF Frames
<1> QED  BY <1>1, <1>5, <1>6 DEF WireIsTrue

LEMMA InvokeKeeps ==
    ASSUME Inv, NEW c \in Calls, Invoke(c)
    PROVE  Inv'
<1>0. Kinds /\ StreamOk(c) /\ BucketOk(c)
  BY DEF Inv
<1>1. UNCHANGED <<bucket, pending, meter, said>> /\ door[c].at = "encoded"
  BY DEF Invoke
<1>2. said[c] = Nothing
  BY <1>0, <1>1 DEF StreamOk, BucketOk, SaidByTheIngest, WorkFollowsTheCall, Outset
<1>3. CASE Errs(c) /\ UNCHANGED <<work, stream>>
  <2>1. DoorIs(c, "errored", door[c].pack, door[c].push, door[c].outcome)
    BY <1>0, <1>3, DoorAt DEF Errs
  <2>2. Kinds'
    BY <1>0, <1>1, <1>3, <2>1 DEF Kinds, IsOn, DoorIs
  <2>3. \A q \in Calls \ {c} : Same(q)
    BY <1>1, <1>3, <2>1 DEF Same, DoorIs
  <2>4. StreamOk(c)'
    BY <1>0, <1>1, <1>3, <2>1, DoorMoves DEF Outset, DoorIs
  <2>5. BucketOk(c)'
    BY <1>0, <1>1, <1>3, <2>1 DEF BucketOk, WorkFollowsTheCall, BucketIsNamed,
       RegisteredIsWhole, Collected, StagedFor, Outset, DoorIs
  <2> QED  BY <2>2, <2>3, <2>4, <2>5, OneCall
<1>4. CASE /\ door' = [door EXCEPT ![c].at = "collecting"]
           /\ work' = [work EXCEPT ![c].at = "booting"]
           /\ stream' = [stream EXCEPT ![c] = Prelude]
  <2>1. DoorIs(c, "collecting", door[c].pack, door[c].push, door[c].outcome)
    BY <1>0, <1>4, DoorAt
  <2>2. WorkIs(c, "booting", work[c].staged)
    BY <1>0, <1>4, WorkAt
  <2>3. /\ IsOn(stream', Calls) /\ stream'[c] = Prelude
        /\ \A q \in Calls \ {c} : stream'[q] = stream[q]
    BY <1>0, <1>4 DEF Kinds, IsOn
  <2>4. Kinds'
    BY <1>0, <1>1, <2>1, <2>2, <2>3 DEF Kinds, IsOn, DoorIs, WorkIs
  <2>5. \A q \in Calls \ {c} : Same(q)
    BY <1>1, <2>1, <2>2, <2>3 DEF Same, DoorIs, WorkIs
  <2>6. WireIsTrue(c)'
    <3>1. [is |-> "meta"] \in Frames(c)' /\ [is |-> "zero"] \in Frames(c)'
      BY DEF Frames, Plain
    <3>2. Prelude \in Seq(Frames(c)')
      <4> HIDE DEF Frames
      <4> QED  BY <3>1 DEF Prelude
    <3>3. pending'[c] \in Seq(Frames(c)')
      BY <1>0, <1>1, FramesGrow DEF StreamOk, WireIsTrue
    <3> QED  BY <2>3, <3>2, <3>3 DEF WireIsTrue
  <2>7. StreamOk(c)'
    BY <1>0, <1>1, <1>2, <2>1, <2>2, <2>6 DEF StreamOk, SaidByTheIngest, IngestedIsSaid,
       ChargedAtTheOutcome, AnsweredTruly, Outset, DoorIs, WorkIs
  <2>8. BucketOk(c)'
    BY <1>0, <1>1, <2>1, <2>2 DEF BucketOk, WorkFollowsTheCall, BucketIsNamed,
       RegisteredIsWhole, Collected, StagedFor, Outset, DoorIs, WorkIs
  <2> QED  BY <2>4, <2>5, <2>7, <2>8, OneCall
<1> QED  BY <1>3, <1>4 DEF Invoke

\* The front door stops reading without an outcome.
LEMMA LeavingKeeps ==
    ASSUME Inv, NEW c \in Calls, CollectEnd(c) \/ DoorGone(c)
    PROVE  Inv'
<1>0. Kinds /\ StreamOk(c) /\ BucketOk(c)
  BY DEF Inv
<1>1. /\ UNCHANGED <<bucket, work, stream, pending, meter, said>>
      /\ door[c].at \in {"delivered", "encoded", "collecting"}
      /\ \E a \in {"errored", "gone"} : door' = [door EXCEPT ![c].at = a]
  BY DEF CollectEnd, DoorGone, EndOfStream, Errs
<1>2. \E a \in {"errored", "gone"} : DoorIs(c, a, door[c].pack, door[c].push, door[c].outcome)
  BY <1>0, <1>1, DoorAt
<1>3. Kinds'
  BY <1>0, <1>1, <1>2 DEF Kinds, IsOn, DoorIs
<1>4. \A q \in Calls \ {c} : Same(q)
  BY <1>1, <1>2 DEF Same, DoorIs
<1>5. StreamOk(c)'
  BY <1>0, <1>1, <1>2, DoorMoves DEF Outset, DoorIs
<1>6. BucketOk(c)'
  BY <1>0, <1>1, <1>2 DEF BucketOk, WorkFollowsTheCall, BucketIsNamed, RegisteredIsWhole,
     Collected, StagedFor, Outset, DoorIs
<1> QED  BY <1>3, <1>4, <1>5, <1>6, OneCall

\* What a frame on the wire costs and says.
LEMMA FrameIsHonest ==
    ASSUME Kinds, NEW c \in Calls, NEW f \in Frames(c), f.is \in {"done", "failed"}
    PROVE  /\ f.cost \in {0, 1}
           /\ f.is = "done" => /\ f.cost = 1 /\ said[c] # Nothing
                               /\ FromWire(f.verdict) = "clear" <=> said[c] = "clear"
<1>1. CASE f \in Plain
  BY <1>1 DEF Plain, Failed
<1>2. CASE f \notin Plain
  <2>1. said[c] # Nothing /\ f = Done(said[c])
    BY <1>2 DEF Frames
  <2>2. said[c] \in {"clear", "refused", "unnamed"}
    BY <2>1 DEF Kinds, Verdicts
  <2>3. f.cost = 1 /\ f.verdict = ToWire(said[c])
    BY <2>1 DEF Done
  <2> QED  BY <2>1, <2>2, <2>3 DEF ToWire, FromWire
<1> QED  BY <1>1, <1>2

LEMMA ReceiveKeeps ==
    ASSUME Inv, NEW c \in Calls, Receive(c)
    PROVE  Inv'
<1>0. Kinds /\ StreamOk(c) /\ BucketOk(c)
  BY DEF Inv
<1>1. UNCHANGED <<bucket, work, said>> /\ door[c].at = "collecting"
  BY DEF Receive
<1>2. PICK n \in 1..Len(stream[c]) :
        LET got == pending[c] \o SubSeq(stream[c], 1, n)
            begun == past[c] \/ Delimited(got) # {}
            bytes == IF past[c] THEN got ELSE SkipPrelude(got)
        IN  /\ stream' = [stream EXCEPT ![c] = SubSeq(stream[c], n + 1, Len(stream[c]))]
            /\ pending' = [pending EXCEPT ![c] = IF begun THEN Partial(bytes) ELSE bytes]
            /\ IF begun /\ Outcomes(bytes) # {}
               THEN Settle(c, bytes[First(Outcomes(bytes)) - 1])
               ELSE UNCHANGED <<door, meter>>
  BY DEF Receive
<1> DEFINE got == pending[c] \o SubSeq(stream[c], 1, n)
           bytes == IF past[c] THEN got ELSE SkipPrelude(got)
           rest == SubSeq(stream[c], n + 1, Len(stream[c]))
<1>3. stream[c] \in Seq(Frames(c)) /\ pending[c] \in Seq(Frames(c)) /\ Len(stream[c]) \in Nat
  BY <1>0, LenProperties DEF StreamOk, WireIsTrue
<1>4. SubSeq(stream[c], 1, n) \in Seq(Frames(c)) /\ rest \in Seq(Frames(c))
  <2>1. n \in 0..Len(stream[c]) /\ n + 1 \in 1..Len(stream[c]) + 1
    BY <1>3
  <2> HIDE DEF Frames
  <2> QED  BY <1>3, <2>1, HeadIsPart, TailIsPart
<1>5. got \in Seq(Frames(c))
  <2> HIDE DEF Frames
  <2> QED  BY <1>3, <1>4, ConcatProperties
<1> HIDE DEF got, rest
<1>6. bytes \in Seq(Frames(c))
  <2> HIDE DEF Frames
  <2> QED  BY <1>5, SkipIsPart
<1> HIDE DEF bytes
<1>7. Partial(bytes) \in Seq(Frames(c))
  BY <1>6, PartialIsPart
<1>8. /\ stream' = [stream EXCEPT ![c] = rest]
      /\ \E b \in {Partial(bytes), bytes} : pending' = [pending EXCEPT ![c] = b]
      /\ \/ Outcomes(bytes) # {} /\ Settle(c, bytes[First(Outcomes(bytes)) - 1])
         \/ UNCHANGED <<door, meter>>
  BY <1>2 DEF got, bytes, rest
<1>9. /\ IsOn(stream', Calls) /\ IsOn(pending', Calls)
      /\ stream'[c] = rest /\ pending'[c] \in {Partial(bytes), bytes}
      /\ \A q \in Calls \ {c} : stream'[q] = stream[q] /\ pending'[q] = pending[q]
  BY <1>0, <1>8 DEF Kinds, IsOn
<1>10. Frames(c)' = Frames(c)
  BY <1>1 DEF Frames
<1>11. WireIsTrue(c)'
  BY <1>4, <1>6, <1>7, <1>9, <1>10 DEF WireIsTrue
<1>12. meter[c] = 0
  BY <1>0, <1>1 DEF StreamOk, ChargedAtTheOutcome
<1>13. /\ \/ DoorIs(c, "answered", door[c].pack, door[c].push, door'[c].outcome)
          \/ DoorIs(c, "errored", door[c].pack, door[c].push, door[c].outcome)
          \/ UNCHANGED door
       /\ IsOn(meter', Calls) /\ \A q \in Calls \ {c} : meter'[q] = meter[q]
       /\ meter'[c] \in {0, 1} /\ (UNCHANGED door => meter'[c] = 0)
       /\ door'[c].at = "answered" =>
            /\ said[c] # Nothing /\ meter'[c] = 1
            /\ door'[c].outcome = "clear" <=> said[c] = "clear"
  <2>1. CASE UNCHANGED <<door, meter>>
    BY <1>0, <1>1, <1>12, <2>1 DEF Kinds, IsOn
  <2>2. CASE Outcomes(bytes) # {} /\ Settle(c, bytes[First(Outcomes(bytes)) - 1])
    <3> DEFINE f == bytes[First(Outcomes(bytes)) - 1]
    <3>1. f \in Frames(c) /\ f.is \in {"done", "failed"}
      BY <1>6, <2>2, OutcomeIsPart
    <3>2. Settle(c, f)
      BY <2>2
    <3> HIDE DEF f
    <3>3. /\ f.cost \in {0, 1}
          /\ f.is = "done" => /\ f.cost = 1 /\ said[c] # Nothing
                              /\ FromWire(f.verdict) = "clear" <=> said[c] = "clear"
      BY <1>0, <3>1, FrameIsHonest
    <3>4. /\ IsOn(meter', Calls) /\ \A q \in Calls \ {c} : meter'[q] = meter[q]
          /\ meter'[c] = f.cost
      <4>1. meter' = [meter EXCEPT ![c] = meter[c] + f.cost]
        BY <3>2 DEF Settle
      <4>2. /\ IsOn(meter', Calls) /\ \A q \in Calls \ {c} : meter'[q] = meter[q]
            /\ meter'[c] = meter[c] + f.cost
        BY <1>0, <4>1 DEF Kinds, IsOn
      <4>3. 0 + f.cost = f.cost
        BY <3>3
      <4> QED  BY <1>12, <4>2, <4>3
    <3>5. CASE f.is = "done"
      <4>1. DoorIs(c, "answered", door[c].pack, door[c].push, FromWire(f.verdict))
        BY <1>0, <3>2, <3>5, DoorOutcome DEF Settle
      <4>2. door'[c].at = "answered" /\ door'[c].outcome = FromWire(f.verdict)
        BY <4>1 DEF DoorIs
      <4> QED  BY <1>1, <3>3, <3>4, <3>5, <4>1, <4>2
    <3>6. CASE f.is # "done"
      <4>1. DoorIs(c, "errored", door[c].pack, door[c].push, door[c].outcome)
        BY <1>0, <3>2, <3>6, DoorAt DEF Settle, Errs
      <4>2. door'[c].at = "errored"
        BY <4>1 DEF DoorIs
      <4> QED  BY <1>1, <3>3, <3>4, <4>1, <4>2
    <3> QED  BY <3>5, <3>6
  <2> QED  BY <1>8, <2>1, <2>2
<1>14. Kinds'
  BY <1>0, <1>1, <1>9, <1>13 DEF Kinds, IsOn, DoorIs
<1>15. \A q \in Calls \ {c} : Same(q)
  BY <1>1, <1>9, <1>13 DEF Same, DoorIs
<1>16. StreamOk(c)'
  <2>1. (SaidByTheIngest(c) /\ IngestedIsSaid(c))'
    BY <1>0, <1>1 DEF StreamOk, SaidByTheIngest, IngestedIsSaid
  <2>2. ChargedAtTheOutcome(c)'
    BY <1>13 DEF ChargedAtTheOutcome, DoorIs, Outset
  <2>3. AnsweredTruly(c)'
    BY <1>1, <1>13 DEF AnsweredTruly
  <2> QED  BY <1>11, <2>1, <2>2, <2>3 DEF StreamOk
<1>17. BucketOk(c)'
  <2>1. /\ door'[c].at \notin Outset /\ door'[c].pack = door[c].pack
        /\ door'[c].push = door[c].push
    BY <1>1, <1>13 DEF DoorIs, Outset
  <2> QED  BY <1>0, <1>1, <2>1 DEF BucketOk, WorkFollowsTheCall, BucketIsNamed,
               RegisteredIsWhole, Collected, StagedFor, Outset
<1> QED  BY <1>14, <1>15, <1>16, <1>17, OneCall

-----------------------------------------------------------------------------
(* The worker's steps.                                                     *)

\* What is common to them: the front door is past its call and stands still.
LEMMA WorkerKeeps ==
    ASSUME Inv, NEW c \in Calls, work[c].at # "none", NEW a, NEW s, WorkIs(c, a, s),
           UNCHANGED <<door, pending, meter>>, bucket' \subseteq bucket,
           \A q \in Calls \ {c} : \A o \in bucket : o.call = q => o \in bucket',
           IsOn(stream', Calls), \A q \in Calls \ {c} : stream'[q] = stream[q],
           said' \in [Calls -> Verdicts \union {Nothing}],
           \A q \in Calls \ {c} : said'[q] = said[q],
           said[c] = Nothing \/ said'[c] = said[c],
           stream'[c] \in Seq(Frames(c)'), SaidByTheIngest(c)', IngestedIsSaid(c)',
           RegisteredIsWhole(c)', Collected(c)'
    PROVE  Inv'
<1>0. Kinds /\ StreamOk(c) /\ BucketOk(c)
  BY DEF Inv
<1>1. Kinds'
  BY <1>0 DEF Kinds, IsOn, WorkIs
<1>2. \A q \in Calls \ {c} : Same(q)
  BY DEF Same, WorkIs
<1>3. WireIsTrue(c)'
  BY <1>0, FramesGrow DEF StreamOk, WireIsTrue
<1>4. ChargedAtTheOutcome(c)' /\ AnsweredTruly(c)'
  BY <1>0 DEF StreamOk, ChargedAtTheOutcome, AnsweredTruly
<1>5. WorkFollowsTheCall(c)' /\ BucketIsNamed(c)'
  BY <1>0 DEF BucketOk, WorkFollowsTheCall, BucketIsNamed, StagedFor
<1> QED  BY <1>1, <1>2, <1>3, <1>4, <1>5, OneCall DEF StreamOk, BucketOk

LEMMA BootKeeps ==
    ASSUME Inv, NEW c \in Calls, Boot(c)
    PROVE  Inv'
<1>0. Kinds /\ StreamOk(c) /\ BucketOk(c)
  BY DEF Inv
<1>1. UNCHANGED <<door, bucket, pending, meter, said>> /\ work[c].at = "booting"
  BY DEF Boot
<1>2. said[c] = Nothing /\ Frames(c)' = Frames(c) /\ WireIsTrue(c)
  BY <1>0, <1>1 DEF StreamOk, SaidByTheIngest, Frames
<1>3. PICK a \in {"reading", "refused"} :
        work' = [work EXCEPT ![c].at = a] /\ (UNCHANGED stream \/ Send(c, Failed(0)))
  BY DEF Boot
<1>4. WorkIs(c, a, work[c].staged)
  BY <1>0, <1>3, WorkAt
<1>5. /\ IsOn(stream', Calls) /\ \A q \in Calls \ {c} : stream'[q] = stream[q]
      /\ stream'[c] \in Seq(Frames(c)')
  <2>1. CASE UNCHANGED stream
    BY <1>0, <1>2, <2>1 DEF Kinds, IsOn, WireIsTrue
  <2>2. CASE Send(c, Failed(0))
    <3>1. Failed(0) \in Frames(c)
      BY DEF Frames, Plain
    <3> QED  BY <1>0, <1>1, <1>2, <2>2, <3>1, SendIsTrue DEF WireIsTrue
  <2> QED  BY <1>3, <2>1, <2>2
<1>6. SaidByTheIngest(c)' /\ IngestedIsSaid(c)' /\ RegisteredIsWhole(c)' /\ Collected(c)'
  BY <1>1, <1>2, <1>4 DEF SaidByTheIngest, IngestedIsSaid, RegisteredIsWhole, Collected, WorkIs
<1>7. said' \in [Calls -> Verdicts \union {Nothing}]
  BY <1>0, <1>1 DEF Kinds
<1> QED  BY <1>1, <1>4, <1>5, <1>6, <1>7, WorkerKeeps

LEMMA ReadStagedKeeps ==
    ASSUME Inv, NEW c \in Calls, ReadStaged(c)
    PROVE  Inv'
<1>0. Kinds /\ StreamOk(c) /\ BucketOk(c)
  BY DEF Inv
<1>1. UNCHANGED <<door, bucket, stream, pending, meter, said>> /\ work[c].at = "reading"
  BY DEF ReadStaged
<1>2. said[c] = Nothing /\ Frames(c)' = Frames(c) /\ WireIsTrue(c)
  BY <1>0, <1>1 DEF StreamOk, SaidByTheIngest, Frames
<1>3. PICK read \in SUBSET StagedFor(c) :
        work' = [work EXCEPT
          ![c] = [at |-> IF read = StagedFor(c) THEN "ingesting" ELSE "failed",
                  staged |-> Registered(c, read)]]
  BY DEF ReadStaged
<1> DEFINE a == IF read = StagedFor(c) THEN "ingesting" ELSE "failed"
<1>4. WorkIs(c, a, Registered(c, read))
  BY <1>0, <1>3, WorkSet
<1>5. /\ IsOn(stream', Calls) /\ \A q \in Calls \ {c} : stream'[q] = stream[q]
      /\ stream'[c] \in Seq(Frames(c)')
  BY <1>0, <1>1, <1>2 DEF Kinds, IsOn, WireIsTrue
<1>6. StagedFor(c)' = StagedFor(c)
  BY <1>1 DEF StagedFor
<1>7. RegisteredIsWhole(c)'
  <2>1. read = StagedFor(c) => Registered(c, read) = StagedFor(c)
    BY DEF Registered
  <2>2. \/ Registered(c, read) = StagedFor(c)
        \/ Registered(c, read) = {"push"} /\ "push" \in StagedFor(c)
    BY DEF Registered
  <2> QED  BY <1>1, <1>2, <1>4, <1>6, <2>1, <2>2 DEF RegisteredIsWhole, WorkIs
<1>8. SaidByTheIngest(c)' /\ IngestedIsSaid(c)' /\ Collected(c)'
  BY <1>1, <1>2, <1>4 DEF SaidByTheIngest, IngestedIsSaid, Collected, WorkIs
<1>9. said' \in [Calls -> Verdicts \union {Nothing}]
  BY <1>0, <1>1 DEF Kinds
<1> QED  BY <1>1, <1>4, <1>5, <1>7, <1>8, <1>9, WorkerKeeps

LEMMA ProgressKeeps ==
    ASSUME Inv, NEW c \in Calls, Progress(c)
    PROVE  Inv'
<1>0. Kinds /\ StreamOk(c) /\ BucketOk(c)
  BY DEF Inv
<1>1. /\ UNCHANGED <<door, bucket, work, pending, meter, said>> /\ work[c].at = "ingesting"
      /\ Send(c, [is |-> "progress"])
  BY DEF Progress
<1>2. WorkIs(c, work[c].at, work[c].staged)
  BY <1>0, <1>1 DEF Kinds, WorkIs
<1>3. Frames(c)' = Frames(c) /\ WireIsTrue(c) /\ [is |-> "progress"] \in Frames(c)
  BY <1>0, <1>1 DEF StreamOk, Frames, Plain
<1>4. /\ IsOn(stream', Calls) /\ \A q \in Calls \ {c} : stream'[q] = stream[q]
      /\ stream'[c] \in Seq(Frames(c)')
  BY <1>0, <1>1, <1>3, SendIsTrue DEF WireIsTrue
<1>5. SaidByTheIngest(c)' /\ IngestedIsSaid(c)' /\ RegisteredIsWhole(c)' /\ Collected(c)'
  BY <1>0, <1>1 DEF StreamOk, BucketOk, SaidByTheIngest, IngestedIsSaid, RegisteredIsWhole,
     Collected, StagedFor
<1>6. said' \in [Calls -> Verdicts \union {Nothing}]
  BY <1>0, <1>1 DEF Kinds
<1> QED  BY <1>1, <1>2, <1>4, <1>5, <1>6, WorkerKeeps

LEMMA IngestsKeeps ==
    ASSUME Inv, NEW c \in Calls, Ingests(c)
    PROVE  Inv'
<1>0. Kinds /\ StreamOk(c) /\ BucketOk(c)
  BY DEF Inv
<1>1. UNCHANGED <<door, bucket, stream, pending, meter>> /\ work[c].at = "ingesting"
  BY DEF Ingests
<1>2. said[c] = Nothing /\ work[c].staged = StagedFor(c) /\ StagedFor(c)' = StagedFor(c)
  BY <1>0, <1>1 DEF StreamOk, SaidByTheIngest, BucketOk, RegisteredIsWhole, StagedFor
<1>3. PICK a \in {"ingested", "failed"} :
        /\ work' = [work EXCEPT ![c].at = a]
        /\ \/ a = "ingested" /\ \E v \in Verdicts : said' = [said EXCEPT ![c] = v]
           \/ a = "failed" /\ UNCHANGED said
  BY DEF Ingests
<1>4. WorkIs(c, a, work[c].staged)
  BY <1>0, <1>3, WorkAt
<1>5. /\ said' \in [Calls -> Verdicts \union {Nothing}]
      /\ \A q \in Calls \ {c} : said'[q] = said[q]
      /\ a = "ingested" => said'[c] \in Verdicts
      /\ a = "failed" => said'[c] = Nothing
  BY <1>0, <1>2, <1>3 DEF Kinds
<1>6. /\ IsOn(stream', Calls) /\ \A q \in Calls \ {c} : stream'[q] = stream[q]
      /\ stream'[c] \in Seq(Frames(c)')
  BY <1>0, <1>1, <1>2, FramesGrow DEF Kinds, IsOn, StreamOk, WireIsTrue
<1>7. SaidByTheIngest(c)' /\ IngestedIsSaid(c)' /\ RegisteredIsWhole(c)' /\ Collected(c)'
  <2>1. a = "ingested" => said'[c] # Nothing
    BY <1>5, HandoffAssumption
  <2> QED  BY <1>2, <1>3, <1>4, <1>5, <2>1 DEF SaidByTheIngest, IngestedIsSaid,
               RegisteredIsWhole, Collected, WorkIs
<1> QED  BY <1>1, <1>2, <1>4, <1>5, <1>6, <1>7, WorkerKeeps

LEMMA ReportKeeps ==
    ASSUME Inv, NEW c \in Calls, Report(c)
    PROVE  Inv'
<1>0. Kinds /\ StreamOk(c) /\ BucketOk(c)
  BY DEF Inv
<1> DEFINE f == IF work[c].at = "ingested" THEN Done(said[c]) ELSE Failed(1)
<1>1. /\ UNCHANGED <<door, bucket, pending, meter, said>> /\ Send(c, f)
      /\ work[c].at \in {"ingested", "failed"} /\ work' = [work EXCEPT ![c].at = "closing"]
  BY DEF Report
<1>2. WorkIs(c, "closing", work[c].staged)
  BY <1>0, <1>1, WorkAt
<1>3. Frames(c)' = Frames(c) /\ WireIsTrue(c) /\ StagedFor(c)' = StagedFor(c)
  BY <1>0, <1>1 DEF StreamOk, Frames, StagedFor
<1>4. f \in Frames(c)
  BY <1>0, <1>1 DEF StreamOk, IngestedIsSaid, Frames, Plain
<1> HIDE DEF f
<1>5. /\ IsOn(stream', Calls) /\ \A q \in Calls \ {c} : stream'[q] = stream[q]
      /\ stream'[c] \in Seq(Frames(c)')
  BY <1>0, <1>1, <1>3, <1>4, SendIsTrue DEF WireIsTrue
<1>6. RegisteredIsWhole(c)'
  BY <1>0, <1>1, <1>2, <1>3 DEF BucketOk, RegisteredIsWhole, WorkIs
<1>7. SaidByTheIngest(c)' /\ IngestedIsSaid(c)' /\ Collected(c)'
  BY <1>1, <1>2 DEF SaidByTheIngest, IngestedIsSaid, Collected, WorkIs
<1>8. said' \in [Calls -> Verdicts \union {Nothing}]
  BY <1>0, <1>1 DEF Kinds
<1> QED  BY <1>1, <1>2, <1>5, <1>6, <1>7, <1>8, WorkerKeeps

LEMMA CloseKeeps ==
    ASSUME Inv, NEW c \in Calls, Close(c)
    PROVE  Inv'
<1>0. Kinds /\ StreamOk(c) /\ BucketOk(c)
  BY DEF Inv
<1>1. UNCHANGED <<door, stream, pending, meter, said>> /\ work[c].at \in {"closing", "refused"}
  BY DEF Close
<1> DEFINE a == IF work[c].at = "closing" THEN "closed" ELSE "turned_away"
<1>2. PICK kept \in SUBSET work[c].staged :
        /\ bucket' = {o \in bucket : ~(o.call = c /\ o.what \in work[c].staged
                                       /\ o.what \notin kept)}
        /\ work' = [work EXCEPT ![c] = [at |-> a, staged |-> kept]]
  BY DEF Close
<1>3. WorkIs(c, a, kept)
  BY <1>0, <1>2, WorkSet
<1>4. /\ bucket' \subseteq bucket
      /\ \A q \in Calls \ {c} : \A o \in bucket : o.call = q => o \in bucket'
      /\ \A o \in bucket' : o.call = c => o.what \notin work[c].staged \/ o.what \in kept
  BY <1>2
<1>5. StagedFor(c)' = StagedFor(c) /\ StagedFor(c) \subseteq {"push", "pack"}
  BY <1>1 DEF StagedFor
<1>6. Collected(c)'
  <2>1. SUFFICES ASSUME work'[c].at = "closed", NEW o \in bucket', o.call = c
                 PROVE  \/ o.what \in kept
                        \/ o.what = "pack" /\ "push" \in StagedFor(c) /\ said[c] = Nothing
    BY <1>1, <1>3, <1>5 DEF Collected, WorkIs
  <2>2. work[c].at = "closing"
    BY <1>1, <1>3, <2>1 DEF WorkIs
  <2>3. o.what \in StagedFor(c)
    BY <1>0, <1>4, <2>1 DEF BucketOk, BucketIsNamed
  <2>4. CASE work[c].staged = StagedFor(c)
    BY <1>4, <2>1, <2>3, <2>4
  <2>5. CASE work[c].staged = {"push"} /\ "push" \in StagedFor(c) /\ said[c] = Nothing
    BY <1>4, <1>5, <2>1, <2>3, <2>5
  <2> QED  BY <1>0, <2>2, <2>4, <2>5 DEF BucketOk, RegisteredIsWhole
<1>7. a \in {"closed", "turned_away"} /\ (work[c].at = "closing" => a = "closed")
  BY <1>1
<1> HIDE DEF a
<1>8. SaidByTheIngest(c)' /\ IngestedIsSaid(c)' /\ RegisteredIsWhole(c)'
  BY <1>0, <1>1, <1>3, <1>7 DEF StreamOk, SaidByTheIngest, IngestedIsSaid, RegisteredIsWhole,
     WorkIs
<1>9. /\ IsOn(stream', Calls) /\ stream'[c] \in Seq(Frames(c)')
      /\ said' \in [Calls -> Verdicts \union {Nothing}]
  BY <1>0, <1>1, FramesGrow DEF Kinds, IsOn, StreamOk, WireIsTrue
<1> QED  BY <1>1, <1>3, <1>4, <1>6, <1>8, <1>9, WorkerKeeps

LEMMA KilledKeeps ==
    ASSUME Inv, NEW c \in Calls, Killed(c), work[c].at # "none"
    PROVE  Inv'
<1>0. Kinds /\ StreamOk(c) /\ BucketOk(c)
  BY DEF Inv
<1>1. /\ UNCHANGED <<door, bucket, pending, meter, said>>
      /\ work' = [work EXCEPT ![c].at = "killed"]
  BY DEF Killed
<1>2. PICK n \in 0..Len(stream[c]) : stream' = [stream EXCEPT ![c] = SubSeq(stream[c], 1, n)]
  BY DEF Killed
<1>3. WorkIs(c, "killed", work[c].staged)
  BY <1>0, <1>1, WorkAt
<1>4. /\ IsOn(stream', Calls) /\ stream'[c] = SubSeq(stream[c], 1, n)
      /\ \A q \in Calls \ {c} : stream'[q] = stream[q]
  BY <1>0, <1>2 DEF Kinds, IsOn
<1>5. SubSeq(stream[c], 1, n) \in Seq(Frames(c))
  <2>1. stream[c] \in Seq(Frames(c))
    BY <1>0 DEF StreamOk, WireIsTrue
  <2> HIDE DEF Frames
  <2> QED  BY <2>1, HeadIsPart
<1>6. stream'[c] \in Seq(Frames(c)')
  BY <1>1, <1>4, <1>5, FramesGrow
<1>7. SaidByTheIngest(c)' /\ IngestedIsSaid(c)' /\ RegisteredIsWhole(c)' /\ Collected(c)'
  BY <1>1, <1>3 DEF SaidByTheIngest, IngestedIsSaid, RegisteredIsWhole, Collected, WorkIs
<1>8. said' \in [Calls -> Verdicts \union {Nothing}]
  BY <1>0, <1>1 DEF Kinds
<1> QED  BY <1>1, <1>3, <1>4, <1>6, <1>7, <1>8, WorkerKeeps

\* Work once begun is never as if it had not.
LEMMA WorkGoesOn ==
    ASSUME Kinds, NEW c \in Calls, HandStep(c)
    PROVE  \A q \in Calls : work[q].at # "none" => work'[q].at # "none"
<1>1. CASE UNCHANGED work
  BY <1>1
<1>2. CASE \E a \in {"booting", "reading", "refused", "ingested", "failed", "closing", "killed"} :
             work' = [work EXCEPT ![c].at = a]
  <2>1. PICK a \in {"booting", "reading", "refused", "ingested", "failed", "closing", "killed"} :
          work' = [work EXCEPT ![c].at = a]
    BY <1>2
  <2>2. WorkIs(c, a, work[c].staged)
    BY <2>1, WorkAt
  <2> QED  BY <2>2 DEF WorkIs
<1>3. CASE \E a \in {"ingesting", "failed", "closed", "turned_away"} : \E s :
             work' = [work EXCEPT ![c] = [at |-> a, staged |-> s]]
  <2>1. PICK a \in {"ingesting", "failed", "closed", "turned_away"} : \E s :
          work' = [work EXCEPT ![c] = [at |-> a, staged |-> s]]
    BY <1>3
  <2>a. PICK s : work' = [work EXCEPT ![c] = [at |-> a, staged |-> s]]
    BY <2>1
  <2>2. WorkIs(c, a, s)
    BY <2>a, WorkSet
  <2> QED  BY <2>2 DEF WorkIs
<1>4. CASE Deliver(c) \/ EncodeCall(c) \/ Receive(c) \/ CollectEnd(c) \/ DoorGone(c) \/ Progress(c)
  BY <1>1, <1>4 DEF Deliver, EncodeCall, Receive, CollectEnd, DoorGone, Progress
<1>5. CASE Invoke(c)
  BY <1>1, <1>2, <1>5 DEF Invoke
<1>6. CASE Boot(c) \/ Ingests(c)
  BY <1>2, <1>6 DEF Boot, Ingests
<1>7. CASE Report(c) \/ Killed(c)
  BY <1>2, <1>7 DEF Report, Killed
<1>8. CASE ReadStaged(c)
  BY <1>3, <1>8 DEF ReadStaged
<1>9. CASE Close(c)
  BY <1>3, <1>9 DEF Close
<1> QED  BY <1>4, <1>5, <1>6, <1>7, <1>8, <1>9 DEF HandStep

LEMMA StepServes ==
    ASSUME Kinds, ServesTheCalled, NEW c \in Calls, HandStep(c)
    PROVE  ServesTheCalled'
<1>1. \A q \in Calls : work[q].at # "none" => work'[q].at # "none"
  BY WorkGoesOn
<1>2. CASE IsOn(env', {"kept", "serving", "built"}) /\ env'.serving \in {env.serving, Nothing}
  BY <1>1, <1>2, HandoffAssumption DEF ServesTheCalled
<1>3. CASE UNCHANGED env
  BY <1>2, <1>3 DEF ServesTheCalled
<1>4. CASE Invoke(c) /\ env' = [env EXCEPT !.serving = c]
  <2>1. IsOn(env', {"kept", "serving", "built"}) /\ env'.serving = c
    BY <1>4 DEF ServesTheCalled, IsOn
  <2>2. CASE work' = [work EXCEPT ![c].at = "booting"]
    <3>1. WorkIs(c, "booting", work[c].staged)
      BY <2>2, WorkAt
    <3> QED  BY <2>1, <3>1 DEF ServesTheCalled, WorkIs
  <2> QED  BY <1>2, <1>3, <1>4, <2>2 DEF Invoke
<1>5. CASE Invoke(c)
  BY <1>3, <1>4, <1>5 DEF Invoke
<1>6. CASE Boot(c)
  <2>1. CASE env' = [env EXCEPT !.built = env.kept]
    BY <1>2, <2>1 DEF ServesTheCalled, IsOn
  <2>2. CASE env' = [env EXCEPT !.kept = Fingerprint(c), !.built = Fingerprint(c)]
    <3>1. IsOn(env', {"kept", "serving", "built"}) /\ env'.serving = env.serving
      BY <2>2 DEF ServesTheCalled, IsOn
    <3> QED  BY <1>2, <3>1
  <2> QED  BY <1>3, <1>6, <2>1, <2>2 DEF Boot
<1>7. CASE Close(c)
  <2>1. env' = [env EXCEPT !.serving = Nothing, !.built = Nothing]
    BY <1>7 DEF Close
  <2>2. IsOn(env', {"kept", "serving", "built"}) /\ env'.serving = Nothing
    BY <2>1 DEF ServesTheCalled, IsOn
  <2> QED  BY <1>2, <2>2
<1>8. CASE Killed(c)
  <2>1. env' = IdleEnv
    BY <1>8 DEF Killed
  <2>2. IsOn(env', {"kept", "serving", "built"}) /\ env'.serving = Nothing
    BY <2>1 DEF IdleEnv, IsOn
  <2> QED  BY <1>2, <2>2
<1>9. CASE \/ Deliver(c) \/ EncodeCall(c) \/ Receive(c) \/ CollectEnd(c) \/ DoorGone(c)
           \/ ReadStaged(c) \/ Progress(c) \/ Ingests(c) \/ Report(c)
  BY <1>3, <1>9 DEF Deliver, EncodeCall, Receive, CollectEnd, DoorGone, ReadStaged, Progress,
     Ingests, Report
<1> QED  BY <1>5, <1>6, <1>7, <1>8, <1>9 DEF HandStep

-----------------------------------------------------------------------------
(* The whole.                                                              *)

LEMMA HandoffStarts == HInit => Inv /\ ServesTheCalled
<1> SUFFICES ASSUME HInit PROVE Inv /\ ServesTheCalled
  OBVIOUS
<1>1. \A c \in Calls :
        /\ door[c] = [at |-> "idle", pack |-> "none", push |-> "none", outcome |-> Nothing]
        /\ work[c] = [at |-> "none", staged |-> {}]
        /\ stream[c] = <<>> /\ pending[c] = <<>> /\ meter[c] = 0 /\ said[c] = Nothing
  BY DEF HInit
<1>2. /\ IsOn(door, Calls) /\ IsOn(work, Calls) /\ IsOn(stream, Calls) /\ IsOn(pending, Calls)
      /\ IsOn(meter, Calls) /\ said \in [Calls -> Verdicts \union {Nothing}]
  BY DEF HInit, IsOn
<1>3. \A c \in Calls : IsOn(door[c], DoorFields) /\ IsOn(work[c], WorkFields)
  BY <1>1 DEF IsOn, DoorFields, WorkFields
<1>4. \A c \in Calls : WireIsTrue(c)
  <2>1. \A S : <<>> \in Seq(S)
    OBVIOUS
  <2> QED  BY <1>1, <2>1 DEF WireIsTrue
<1>5. \A c \in Calls : StreamOk(c)
  BY <1>1, <1>4 DEF StreamOk, SaidByTheIngest, IngestedIsSaid, ChargedAtTheOutcome,
     AnsweredTruly
<1>6. \A c \in Calls : BucketOk(c)
  BY <1>1 DEF HInit, BucketOk, WorkFollowsTheCall, BucketIsNamed, RegisteredIsWhole, Collected
<1>7. IsOn(env, {"kept", "serving", "built"}) /\ env.serving = Nothing
  BY DEF HInit, IdleEnv, IsOn
<1> QED  BY <1>2, <1>3, <1>5, <1>6, <1>7, HandoffAssumption DEF Inv, Kinds, ServesTheCalled

LEMMA StepHolds == Inv /\ ServesTheCalled /\ [HNext]_hvars => Inv' /\ ServesTheCalled'
<1> SUFFICES ASSUME Inv, ServesTheCalled, [HNext]_hvars PROVE Inv' /\ ServesTheCalled'
  OBVIOUS
<1>1. CASE UNCHANGED hvars
  <2>1. \A c \in Calls : StreamOk(c)'
    BY <1>1 DEF hvars, Inv, StreamOk, SaidByTheIngest, IngestedIsSaid, WireIsTrue, Frames,
       ChargedAtTheOutcome, AnsweredTruly
  <2>2. \A c \in Calls : BucketOk(c)'
    BY <1>1 DEF hvars, Inv, BucketOk, WorkFollowsTheCall, BucketIsNamed, RegisteredIsWhole,
       Collected, StagedFor
  <2>3. Kinds' /\ ServesTheCalled'
    BY <1>1 DEF hvars, Inv, Kinds, ServesTheCalled, IsOn
  <2> QED  BY <2>1, <2>2, <2>3 DEF Inv
<1>2. CASE HNext
  <2>1. PICK c \in Calls : HandStep(c)
    BY <1>2 DEF HNext
  <2>2. ServesTheCalled'
    BY <2>1, StepServes DEF Inv
  <2>3. CASE Deliver(c)
    BY <2>2, <2>3, DeliverKeeps
  <2>4. CASE EncodeCall(c)
    BY <2>2, <2>4, EncodeCallKeeps
  <2>5. CASE Invoke(c)
    BY <2>2, <2>5, InvokeKeeps
  <2>6. CASE Receive(c)
    BY <2>2, <2>6, ReceiveKeeps
  <2>7. CASE CollectEnd(c) \/ DoorGone(c)
    BY <2>2, <2>7, LeavingKeeps
  <2>8. CASE Boot(c)
    BY <2>2, <2>8, BootKeeps
  <2>9. CASE ReadStaged(c)
    BY <2>2, <2>9, ReadStagedKeeps
  <2>10. CASE Progress(c)
    BY <2>2, <2>10, ProgressKeeps
  <2>11. CASE Ingests(c)
    BY <2>2, <2>11, IngestsKeeps
  <2>12. CASE Report(c)
    BY <2>2, <2>12, ReportKeeps
  <2>13. CASE Close(c)
    BY <2>2, <2>13, CloseKeeps
  <2>14. CASE Killed(c)
    <3>1. work[c].at # "none"
      BY <2>14 DEF Killed, Serving, ServesTheCalled
    <3> QED  BY <2>2, <2>14, <3>1, KilledKeeps
  <2> QED  BY <2>1, <2>2, <2>3, <2>4, <2>5, <2>6, <2>7, <2>8, <2>9, <2>10, <2>11, <2>12,
               <2>13, <2>14 DEF HandStep
<1> QED  BY <1>1, <1>2

LEMMA InvAlways == HSpec => [](Inv /\ ServesTheCalled)
<1> QED  BY HandoffStarts, StepHolds, PTL DEF HSpec

\* The outcome the front door acts on is the one this push's ingest
\* established, whatever the cuts of the stream and the deaths of workers; it
\* is charged at most once, and exactly once where a verdict is claimed
\* (client.rs collect, drain_frames, charge).
THEOREM OutcomesAreTheWorkers == HSpec => []OutcomeIsTheWorkers
<1>1. Inv => OutcomeIsTheWorkers
  BY DEF Inv, StreamOk, AnsweredTruly, ChargedAtTheOutcome, OutcomeIsTheWorkers
<1> QED  BY <1>1, InvAlways, PTL

\* What was staged for a call is gone once its worker closed, but for what
\* could not be deleted and for the pack of a push that could not be read
\* (server.rs serve, run).
THEOREM StagedStaysCollected == HSpec => []StagedIsCollected
<1>1. Inv => StagedIsCollected
  BY DEF Inv, BucketOk, Collected, StagedIsCollected
<1> QED  BY <1>1, InvAlways, PTL

-----------------------------------------------------------------------------
(* Receive                                                                 *)
(*                                                                         *)
(* Once the hook has judged a push, what is left to land is what it let    *)
(* through, and a report repeats what the landing made of each command.    *)

\* The equation of Picked's recursion.
LEMMA PickedRecursion ==
    ASSUME NEW X, NEW xs \in Seq(X), NEW places
    PROVE  \E f \in [0 .. Len(xs) -> Seq(X)] :
              /\ Picked(xs, places) = f[Len(xs)]
              /\ f[0] = <<>>
              /\ \A n \in 1 .. Len(xs) :
                    f[n] = IF n \in places THEN Append(f[n - 1], xs[n]) ELSE f[n - 1]
<1> DEFINE m == Len(xs)
           F == [x \in Seq(X) \X Nat |->
                   IF x[2] \in places /\ x[2] \in 1 .. m THEN Append(x[1], xs[x[2]]) ELSE x[1]]
           Step(f) == [n \in 0 .. m |->
                         IF n = 0 THEN <<>>
                         ELSE IF n \in places THEN Append(f[n - 1], xs[n]) ELSE f[n - 1]]
           g == CHOOSE f : f = Step(f)
<1>1. m \in Nat /\ <<>> \in Seq(X) /\ \A n \in 1 .. m : xs[n] \in X
  OBVIOUS
<1>2. F \in [Seq(X) \X Nat -> Seq(X)]
  BY <1>1
<1>3. \A s \in Seq(X), n \in 1 .. m :
         F[<<s, n>>] = IF n \in places THEN Append(s, xs[n]) ELSE s
  BY <1>1
<1> HIDE DEF F
<1>4. PICK f \in [0 .. m -> Seq(X)] :
         \A n \in 0 .. m : f[n] = IF n = 0 THEN <<>> ELSE F[<<f[n - 1], n>>]
  <2>1. PICK V, b : V = Seq(X) /\ b = <<>>
    OBVIOUS
  <2>2. b \in V /\ m \in Nat /\ F \in [V \X Nat -> V]
    BY <1>1, <1>2, <2>1
  <2> HIDE DEF m
  <2>3. \E f \in [0 .. m -> V] : Recurses(f, m, b, F)
    BY <2>2, Recursion
  <2> QED  BY <2>1, <2>3 DEF Recurses
<1>5. ASSUME NEW n \in 0 .. m
      PROVE  f[n] = IF n = 0 THEN <<>>
                    ELSE IF n \in places THEN Append(f[n - 1], xs[n]) ELSE f[n - 1]
  <2>1. CASE n = 0
    BY <2>1, <1>4
  <2>2. CASE n # 0
    <3>1. n \in 1 .. m /\ n - 1 \in 0 .. m
      BY <2>2, <1>1
    <3>2. f[n - 1] \in Seq(X)
      BY <3>1, <1>4
    <3> QED  BY <2>2, <3>1, <3>2, <1>3, <1>4
  <2> QED  BY <2>1, <2>2
<1>6. f = Step(f)
  <2>1. DOMAIN f = 0 .. m /\ DOMAIN Step(f) = 0 .. m /\ f = [n \in 0 .. m |-> f[n]]
    BY <1>4
  <2>2. ASSUME NEW n \in 0 .. m PROVE f[n] = Step(f)[n]
    BY <1>5
  <2>3. Step(f) = [n \in 0 .. m |-> Step(f)[n]]
    OBVIOUS
  <2> HIDE DEF Step, m
  <2> QED  BY <2>1, <2>2, <2>3
<1>7. g = Step(g)
  BY <1>6
<1>8. Picked(xs, places) = g[m]
  BY DEF Picked
<1> HIDE DEF g
<1>9. ASSUME NEW n \in 0 .. m
      PROVE  g[n] = IF n = 0 THEN <<>>
                    ELSE IF n \in places THEN Append(g[n - 1], xs[n]) ELSE g[n - 1]
  BY <1>7
<1> DEFINE T == {k \in Nat : k <= m => g[k] \in Seq(X)}
<1>17. g[0] = <<>>
  <2>1. 0 \in 0 .. m
    BY <1>1
  <2> QED  BY <2>1, <1>9
<1>10. 0 \in T
  BY <1>1, <1>17
<1>11. \A k \in T : k + 1 \in T
  <2> SUFFICES ASSUME NEW k \in T, k + 1 <= m PROVE g[k + 1] \in Seq(X)
    OBVIOUS
  <2>1. k + 1 \in 1 .. m /\ k + 1 # 0 /\ (k + 1) - 1 = k /\ k <= m
    BY <1>1
  <2>2. g[k + 1] = IF k + 1 \in places THEN Append(g[k], xs[k + 1]) ELSE g[k]
    BY <1>9, <2>1
  <2> QED  BY <2>1, <2>2, <1>1
<1>12. T \subseteq Nat
  OBVIOUS
<1> HIDE DEF T
<1>13. T = Nat
  BY <1>10, <1>11, <1>12, Counting
<1>14. ASSUME NEW n \in 0 .. m PROVE g[n] \in Seq(X)
  <2>1. n \in T /\ n <= m
    BY <1>13, <1>1
  <2> QED  BY <2>1 DEF T
<1>15. DOMAIN g = 0 .. m
  BY <1>7
<1>16. g \in [0 .. m -> Seq(X)]
  BY <1>7, <1>14, <1>15
<1>18. ASSUME NEW n \in 1 .. m
       PROVE  g[n] = IF n \in places THEN Append(g[n - 1], xs[n]) ELSE g[n - 1]
  <2>1. n \in 0 .. m /\ n # 0
    BY <1>1
  <2> QED  BY <2>1, <1>9
<1> QED  BY <1>8, <1>18, <1>16, <1>17

\* s has what xs has at the places up to n, in order.
Picks(s, xs, places, n) ==
    /\ \A k \in 1 .. Len(s) : \E i \in 1 .. n : i \in places /\ s[k] = xs[i]
    /\ \A i \in 1 .. n : i \in places => \E k \in 1 .. Len(s) : s[k] = xs[i]
    /\ \A i, j \in 1 .. n : i \in places /\ j \in places /\ i < j =>
         \E k, l \in 1 .. Len(s) : k < l /\ s[k] = xs[i] /\ s[l] = xs[j]

LEMMA PickedPicks ==
    ASSUME NEW X, NEW xs \in Seq(X), NEW places
    PROVE  /\ Picked(xs, places) \in Seq(X)
           /\ Picks(Picked(xs, places), xs, places, Len(xs))
<1>1. PICK f \in [0 .. Len(xs) -> Seq(X)] :
         /\ Picked(xs, places) = f[Len(xs)]
         /\ f[0] = <<>>
         /\ \A n \in 1 .. Len(xs) :
               f[n] = IF n \in places THEN Append(f[n - 1], xs[n]) ELSE f[n - 1]
  BY PickedRecursion
<1> DEFINE m == Len(xs)
           T == {n \in Nat : n <= m => Picks(f[n], xs, places, n)}
<1>2. m \in Nat /\ \A n \in 1 .. m : xs[n] \in X
  OBVIOUS
<1>3. 0 \in T
  <2>1. Len(f[0]) = 0 /\ 1 .. 0 = {}
    BY <1>1
  <2> QED  BY <2>1 DEF Picks
<1>4. ASSUME NEW n \in T PROVE n + 1 \in T
  <2> SUFFICES ASSUME n + 1 <= m PROVE Picks(f[n + 1], xs, places, n + 1)
    OBVIOUS
  <2>1. n \in Nat /\ n \in 0 .. m /\ n + 1 \in 1 .. m /\ (n + 1) - 1 = n /\ Picks(f[n], xs, places, n)
    BY <1>2
  <2>2. PICK s : s = f[n]
    OBVIOUS
  <2>3. s \in Seq(X) /\ Picks(s, xs, places, n)
    BY <2>1, <2>2, <1>1
  <2>4. CASE n + 1 \notin places
    <3>1. f[n + 1] = s
      BY <2>1, <2>2, <2>4, <1>1
    <3>2. \A i \in 1 .. n + 1 : i \in places => i \in 1 .. n
      BY <2>1, <2>4
    <3>3. n \in Nat /\ \A i \in 1 .. n : i \in 1 .. n + 1
      BY <2>1
    <3>4. Picks(s, xs, places, n + 1)
      <4>0. /\ \A k \in 1 .. Len(s) : \E i \in 1 .. n : i \in places /\ s[k] = xs[i]
            /\ \A i \in 1 .. n : i \in places => \E k \in 1 .. Len(s) : s[k] = xs[i]
            /\ \A i, j \in 1 .. n : i \in places /\ j \in places /\ i < j =>
                 \E k, l \in 1 .. Len(s) : k < l /\ s[k] = xs[i] /\ s[l] = xs[j]
        BY <2>3, Zenon DEF Picks
      <4>1. ASSUME NEW k \in 1 .. Len(s) PROVE \E i \in 1 .. n + 1 : i \in places /\ s[k] = xs[i]
        <5>1. PICK i \in 1 .. n : i \in places /\ s[k] = xs[i]
          BY <4>0
        <5> QED  BY <5>1, <3>3
      <4>2. ASSUME NEW i \in 1 .. n + 1, i \in places PROVE \E k \in 1 .. Len(s) : s[k] = xs[i]
        <5>1. i \in 1 .. n
          BY <3>2, <4>2
        <5> QED  BY <4>0, <4>2, <5>1
      <4>3. ASSUME NEW i \in 1 .. n + 1, NEW j \in 1 .. n + 1, i \in places, j \in places, i < j
            PROVE  \E k, l \in 1 .. Len(s) : k < l /\ s[k] = xs[i] /\ s[l] = xs[j]
        <5>1. i \in 1 .. n /\ j \in 1 .. n
          BY <3>2, <4>3
        <5>2. PICK k \in 1 .. Len(s), l \in 1 .. Len(s) : k < l /\ s[k] = xs[i] /\ s[l] = xs[j]
          BY <4>0, <4>3, <5>1, Zenon
        <5> QED  BY <5>2, Zenon
      <4> QED  BY <4>1, <4>2, <4>3, Zenon DEF Picks
    <3> QED  BY <3>1, <3>4
  <2>5. CASE n + 1 \in places
    <3>1. f[n + 1] = Append(s, xs[n + 1])
      BY <2>1, <2>2, <2>5, <1>1
    <3>2. PICK r : r = f[n + 1]
      OBVIOUS
    <3>3. /\ Len(r) = Len(s) + 1 /\ Len(s) \in Nat
          /\ r[Len(s) + 1] = xs[n + 1]
          /\ \A k \in 1 .. Len(s) : r[k] = s[k]
      BY <3>1, <3>2, <2>1, <2>3, <1>2
    <3>4. ASSUME NEW k \in 1 .. Len(r)
          PROVE  \E i \in 1 .. n + 1 : i \in places /\ r[k] = xs[i]
      <4>1. CASE k = Len(s) + 1
        BY <4>1, <3>3, <2>1, <2>5
      <4>2. CASE k \in 1 .. Len(s)
        <5>1. PICK i \in 1 .. n : i \in places /\ s[k] = xs[i]
          BY <4>2, <2>3 DEF Picks
        <5> QED  BY <5>1, <4>2, <3>3, <2>1
      <4> QED  BY <4>1, <4>2, <3>3
    <3>5. ASSUME NEW i \in 1 .. n, i \in places
          PROVE  \E k \in 1 .. Len(s) : r[k] = xs[i]
      <4>1. PICK k \in 1 .. Len(s) : s[k] = xs[i]
        BY <3>5, <2>3 DEF Picks
      <4> QED  BY <4>1, <3>3
    <3>6. ASSUME NEW i \in 1 .. n + 1, i \in places
          PROVE  \E k \in 1 .. Len(r) : r[k] = xs[i]
      <4>1. CASE i = n + 1
        BY <4>1, <3>3
      <4>2. CASE i \in 1 .. n
        <5>1. PICK k \in 1 .. Len(s) : r[k] = xs[i]
          BY <4>2, <3>6, <3>5
        <5> QED  BY <5>1, <3>3
      <4> QED  BY <4>1, <4>2, <2>1
    <3>7. ASSUME NEW i \in 1 .. n + 1, NEW j \in 1 .. n + 1, i \in places, j \in places, i < j
          PROVE  \E k, l \in 1 .. Len(r) : k < l /\ r[k] = xs[i] /\ r[l] = xs[j]
      <4>0. i \in 1 .. n
        BY <3>7, <2>1
      <4>1. CASE j = n + 1
        <5>1. PICK k \in 1 .. Len(s) : r[k] = xs[i]
          BY <4>0, <3>7, <3>5
        <5>2. k \in 1 .. Len(r) /\ Len(s) + 1 \in 1 .. Len(r) /\ k < Len(s) + 1
          BY <5>1, <3>3
        <5> QED  BY <5>1, <5>2, <4>1, <3>3
      <4>2. CASE j \in 1 .. n
        <5>1. PICK k \in 1 .. Len(s), l \in 1 .. Len(s) : k < l /\ s[k] = xs[i] /\ s[l] = xs[j]
          BY <4>0, <4>2, <3>7, <2>3 DEF Picks
        <5>2. k \in 1 .. Len(r) /\ l \in 1 .. Len(r) /\ r[k] = s[k] /\ r[l] = s[l]
          <6>1. \A x \in 1 .. Len(s) : x \in 1 .. Len(r) /\ r[x] = s[x]
            <7>1. PICK a, b : a = Len(s) /\ b = Len(r)
              OBVIOUS
            <7>2. a \in Nat /\ b = a + 1
              BY <3>3, <7>1
            <7>3. \A x \in 1 .. a : x \in 1 .. b
              BY <7>2
            <7> QED  BY <7>1, <7>3, <3>3, Zenon
          <6> QED  BY <5>1, <6>1, Zenon
        <5> QED  BY <5>1, <5>2
      <4> QED  BY <4>1, <4>2, <2>1
    <3>8. Picks(r, xs, places, n + 1)
      BY <3>4, <3>6, <3>7 DEF Picks
    <3> QED  BY <3>2, <3>8
  <2> QED  BY <2>4, <2>5
<1>5. T \subseteq Nat
  OBVIOUS
<1> HIDE DEF T
<1>6. T = Nat
  BY <1>3, <1>4, <1>5, Counting
<1>7. m \in T /\ m <= m
  BY <1>2, <1>6
<1>8. Picks(f[m], xs, places, m)
  BY <1>7 DEF T
<1> QED  BY <1>1, <1>2, <1>8

\* What was applied: updates not refused, whose refname git would accept.
LEMMA AppliedIsAllowed ==
    ASSUME Len(updates) \in Nat, IsOn(tips, Refs)
    PROVE  /\ \A i \in Applied.ok : i \in 1 .. Len(updates) /\ i \in ToApply /\ updates[i].ref # Funny
           /\ IsOn(Applied.table, Refs)
<1> DEFINE m == Len(updates)
           U == {tips[r] : r \in Refs} \union {updates[i].new : i \in 1 .. m}
           V == [table : [Refs -> U], ok : SUBSET {i \in 1 .. m : i \in ToApply /\ updates[i].ref # Funny}]
           Goes(acc, n) ==
             IF n \in ToApply /\ Applies(acc.table, updates[n])
             THEN [table |-> [acc.table EXCEPT ![updates[n].ref] = updates[n].new],
                   ok |-> acc.ok \cup {n}]
             ELSE acc
           F == [x \in V \X Nat |-> IF x[2] \in 1 .. m THEN Goes(x[1], x[2]) ELSE x[1]]
           b == [table |-> tips, ok |-> {}]
           Step(f) == [n \in 0 .. m |-> IF n = 0 THEN b ELSE Goes(f[n - 1], n)]
           g == CHOOSE f : f = Step(f)
<1>1. m \in Nat /\ b \in V
  <2>1. tips \in [Refs -> U]
    BY DEF IsOn
  <2> QED  BY <2>1
<1>2. ASSUME NEW acc \in V, NEW n \in 1 .. m PROVE Goes(acc, n) \in V
  <2>1. CASE n \in ToApply /\ Applies(acc.table, updates[n])
    <3>1. updates[n].ref # Funny
      BY <2>1 DEF Applies
    <3>2. updates[n].new \in U
      OBVIOUS
    <3>3. acc.table \in [Refs -> U] /\ acc.ok \in SUBSET {i \in 1 .. m : i \in ToApply /\ updates[i].ref # Funny}
      OBVIOUS
    <3>4. [acc.table EXCEPT ![updates[n].ref] = updates[n].new] \in [Refs -> U]
      <4> HIDE DEF U
      <4> QED  BY <3>2, <3>3
    <3>5. acc.ok \cup {n} \in SUBSET {i \in 1 .. m : i \in ToApply /\ updates[i].ref # Funny}
      BY <3>1, <3>3, <2>1
    <3> QED  BY <2>1, <3>4, <3>5
  <2>2. CASE ~ (n \in ToApply /\ Applies(acc.table, updates[n]))
    BY <2>2
  <2> QED  BY <2>1, <2>2
<1>3. \A acc \in V, n \in 1 .. m : F[<<acc, n>>] = Goes(acc, n)
  <2> HIDE DEF V, Goes
  <2> QED  BY <1>1
<1>4. F \in [V \X Nat -> V]
  <2> HIDE DEF V, Goes
  <2> QED  BY <1>2
<1>5. Applied = g[m]
  BY DEF Applied
<1> HIDE DEF F, V, Goes, b, m
<1>6. PICK f \in [0 .. m -> V] : Recurses(f, m, b, F)
  BY <1>1, <1>4, Recursion
<1>7. ASSUME NEW n \in 0 .. m
      PROVE  f[n] = IF n = 0 THEN b ELSE Goes(f[n - 1], n)
  <2>1. CASE n = 0
    BY <2>1, <1>6 DEF Recurses
  <2>2. CASE n # 0
    <3>1. n \in 1 .. m /\ n - 1 \in 0 .. m
      BY <2>2, <1>1
    <3>2. f[n - 1] \in V
      BY <3>1, <1>6
    <3> QED  BY <2>2, <3>1, <3>2, <1>3, <1>6 DEF Recurses
  <2> QED  BY <2>1, <2>2
<1>8. f = Step(f)
  BY <1>7, <1>6
<1>9. g = Step(g)
  BY <1>8
<1> HIDE DEF g
<1> DEFINE T == {k \in Nat : k <= m => g[k] \in V}
<1>10. 0 \in T
  <2>1. 0 \in 0 .. m
    BY <1>1
  <2> QED  BY <2>1, <1>1, <1>9
<1>11. \A k \in T : k + 1 \in T
  <2> SUFFICES ASSUME NEW k \in T, k + 1 <= m PROVE g[k + 1] \in V
    OBVIOUS
  <2>1. k + 1 \in 1 .. m /\ k + 1 \in 0 .. m /\ k + 1 # 0 /\ (k + 1) - 1 = k /\ k <= m
    BY <1>1
  <2>2. g[k + 1] = Goes(g[k], k + 1)
    BY <1>9, <2>1
  <2> QED  BY <2>1, <2>2, <1>2
<1>12. T \subseteq Nat
  OBVIOUS
<1> HIDE DEF T
<1>13. T = Nat
  BY <1>10, <1>11, <1>12, Counting
<1>14. m \in T /\ m <= m
  BY <1>13, <1>1
<1>15. g[m] \in V
  BY <1>14 DEF T
<1> QED  BY <1>5, <1>15 DEF V, IsOn, m

\* A list, in the sense of Sequences.
IsList(s) == Len(s) \in Nat /\ s = [k \in 1 .. Len(s) |-> s[k]]

ReceiveKinds ==
    /\ IsList(updates) /\ IsList(commands)
    /\ Len(lines) \in Nat
    /\ IsOn(tips, Refs)

\* The hook has been asked, and let pass what follows: each command had a
\* judgement, and what is still alive was asked about, once, and allowed.
AllowedByTheHook ==
    /\ \A c \in DOMAIN commands :
         /\ \E j \in DOMAIN judgements : judgements[j].ref = commands[c].ref
         /\ \E i \in Positions :
              commands[c] = RefCommand(i) /\ NamedOnce(i) /\ updates[i].ref \notin screened
    /\ \A i \in StillAlive :
         /\ \E c \in DOMAIN commands : commands[c] = RefCommand(i)
         /\ \A j \in DOMAIN judgements :
              judgements[j].ref = updates[i].ref => judgements[j].verdict = "allow"

\* Only what nobody refused lands.
LandedIsAllowed ==
    \A i \in landed : i \in Positions /\ updates[i].ref \notin refused /\ updates[i].ref # Funny

Heard == {RefCommand(i) : i \in landed \cap StillAlive}
HeardIsTold ==
    /\ \A k \in DOMAIN told : told[k] \in Heard
    /\ \A h \in Heard : \E k \in DOMAIN told : told[k] = h

ReceiveInv ==
    /\ ReceiveKinds
    /\ step \in {"judged", "landed", "told"} \/ landed # {} => AllowedByTheHook
    /\ landed # {} => step \in {"landed", "told", "answered", "dropped"}
    /\ LandedIsAllowed
    /\ step \in {"landed", "told"} => outcomes = ResolveRefUpdates(landed)
    /\ step = "told" => HeardIsTold
    /\ step # "answered" => reply = NoReply
    /\ reply.kind = "report" => reply.outcomes = ResolveRefUpdates(landed) /\ HeardIsTold

LEMMA ListIsSeq ==
    ASSUME NEW s, IsList(s)
    PROVE  s \in Seq({s[k] : k \in 1 .. Len(s)}) /\ DOMAIN s = 1 .. Len(s)
  BY DEF IsList

LEMMA ParsedIsList ==
    ASSUME NEW ls, Len(ls) \in Nat
    PROVE  IsList(Parsed(ls))
<1> DEFINE at == Picked([i \in 1 .. Len(ls) |-> i],
                        {i \in DOMAIN ls : i >= FirstCommand(ls) /\ ls[i].kind = "command"})
<1>1. [i \in 1 .. Len(ls) |-> i] \in Seq(Nat)
  OBVIOUS
<1>2. at \in Seq(Nat)
  BY <1>1, PickedPicks
<1>3. Len(at) \in Nat
  BY <1>2
<1> HIDE DEF at
<1>4. PICK n : n = Len(at)
  OBVIOUS
<1>5. Parsed(ls) = [k \in 1 .. n |-> Parsed(ls)[k]]
  BY <1>4 DEF Parsed, at
<1>6. Len(Parsed(ls)) = n
  BY <1>3, <1>4, <1>5
<1> QED  BY <1>3, <1>4, <1>5, <1>6 DEF IsList

LEMMA CommandsAreAsked ==
    ASSUME IsList(updates)
    PROVE  /\ IsList(Commands)
           /\ \A c \in DOMAIN Commands : \E i \in StillAlive : Commands[c] = RefCommand(i)
           /\ \A i \in StillAlive : \E c \in DOMAIN Commands : Commands[c] = RefCommand(i)
           /\ \A i, j \in StillAlive : i < j =>
                \E k, l \in DOMAIN Commands :
                    k < l /\ Commands[k] = RefCommand(i) /\ Commands[l] = RefCommand(j)
<1> DEFINE m == Len(updates)
           xs == [i \in 1 .. m |-> RefCommand(i)]
           X == {RefCommand(i) : i \in 1 .. m}
<1>1. m \in Nat /\ Positions = 1 .. m /\ StillAlive \subseteq 1 .. m
  BY DEF IsList, Positions, StillAlive
<1>2. xs \in Seq(X) /\ Len(xs) = m /\ \A i \in 1 .. m : xs[i] = RefCommand(i)
  BY <1>1
<1>3. Commands = Picked(xs, StillAlive)
  BY DEF Commands
<1> HIDE DEF xs, X, m
<1>4. Commands \in Seq(X) /\ Picks(Commands, xs, StillAlive, m)
  BY <1>2, <1>3, PickedPicks
<1>5. DOMAIN Commands = 1 .. Len(Commands) /\ IsList(Commands)
  BY <1>4 DEF IsList
<1>6. ASSUME NEW c \in DOMAIN Commands
      PROVE  \E i \in StillAlive : Commands[c] = RefCommand(i)
  <2>1. PICK i \in 1 .. m : i \in StillAlive /\ Commands[c] = xs[i]
    BY <1>4, <1>5 DEF Picks
  <2> QED  BY <2>1, <1>2
<1>7. ASSUME NEW i \in StillAlive
      PROVE  \E c \in DOMAIN Commands : Commands[c] = RefCommand(i)
  <2>1. PICK c \in 1 .. Len(Commands) : Commands[c] = xs[i]
    BY <1>1, <1>4 DEF Picks
  <2> QED  BY <2>1, <1>1, <1>2, <1>5
<1>8. ASSUME NEW i \in StillAlive, NEW j \in StillAlive, i < j
      PROVE  \E k, l \in DOMAIN Commands :
                 k < l /\ Commands[k] = RefCommand(i) /\ Commands[l] = RefCommand(j)
  <2>1. PICK k \in 1 .. Len(Commands), l \in 1 .. Len(Commands) :
           k < l /\ Commands[k] = xs[i] /\ Commands[l] = xs[j]
    BY <1>1, <1>4, <1>8 DEF Picks
  <2>2. xs[i] = RefCommand(i) /\ xs[j] = RefCommand(j)
    BY <1>1, <1>2
  <2> QED  BY <2>1, <2>2, <1>5
<1> QED  BY <1>5, <1>6, <1>7, <1>8

LEMMA RefOfCommand == \A i : RefCommand(i).ref = updates[i].ref
  BY DEF RefCommand

\* A hook that lets the push go on has judged each command, of refs named once.
LEMMA HookAsksOnce ==
    ASSUME IsList(updates), NEW js, Unjudged(Commands, js) = {}
    PROVE  /\ \A c \in DOMAIN Commands : \E j \in DOMAIN js : js[j].ref = Commands[c].ref
           /\ \A i \in StillAlive : NamedOnce(i)
<1>1. \A c \in DOMAIN Commands : \E j \in DOMAIN js : js[j].ref = Commands[c].ref
  BY DEF Unjudged
<1>2. \A k, l \in DOMAIN Commands : k < l => Commands[k].ref # Commands[l].ref
  BY DEF Unjudged
<1>3. ASSUME NEW i \in StillAlive, NEW j \in Positions, updates[j].ref = updates[i].ref
      PROVE  j = i
  <2>1. j \in StillAlive
    BY <1>3 DEF StillAlive
  <2>2. i \in Nat /\ j \in Nat
    BY <2>1 DEF IsList, Positions, StillAlive
  <2>3. ~ (i < j)
    <3> SUFFICES ASSUME i < j PROVE FALSE
      OBVIOUS
    <3>1. PICK k \in DOMAIN Commands, l \in DOMAIN Commands :
             k < l /\ Commands[k] = RefCommand(i) /\ Commands[l] = RefCommand(j)
      BY <2>1, CommandsAreAsked
    <3> QED  BY <3>1, <1>2, <1>3, RefOfCommand
  <2>4. ~ (j < i)
    <3> SUFFICES ASSUME j < i PROVE FALSE
      OBVIOUS
    <3>1. PICK k \in DOMAIN Commands, l \in DOMAIN Commands :
             k < l /\ Commands[k] = RefCommand(j) /\ Commands[l] = RefCommand(i)
      BY <2>1, CommandsAreAsked
    <3> QED  BY <3>1, <1>2, <1>3, RefOfCommand
  <2> QED  BY <2>2, <2>3, <2>4
<1> QED  BY <1>1, <1>3 DEF NamedOnce

-----------------------------------------------------------------------------
(* Each step keeps the invariant.                                          *)

LEMMA Unjudging ==
    ASSUME ReceiveInv, step \notin {"judged", "landed", "told", "answered", "dropped"}
    PROVE  landed = {} /\ reply = NoReply
  BY DEF ReceiveInv

\* Before anything was judged a step has only kinds to keep.
LEMMA EarlyKeeps ==
    ASSUME landed' = {}, ReceiveKinds',
           step' \notin {"judged", "landed", "told"},
           \/ step' # "answered" /\ reply' = NoReply
           \/ step' = "answered" /\ reply'.kind # "report"
    PROVE  ReceiveInv'
<1>1. LandedIsAllowed'
  BY DEF LandedIsAllowed
<1>2. NoReply.kind # "report"
  BY DEF NoReply
<1>3. reply'.kind # "report"
  BY <1>2
<1> QED  BY <1>1, <1>3 DEF ReceiveInv

LEMMA KindsStay ==
    ASSUME ReceiveKinds, updates' = updates, commands' = commands, lines' = lines, tips' = tips
    PROVE  ReceiveKinds'
  BY DEF ReceiveKinds, IsList, IsOn, Refs

LEMMA AnswersNoReport ==
    ASSUME NEW code PROVE Status(code).kind # "report"
  BY DEF Status

LEMMA ErrorIsNoReport ==
    ASSUME AnswersError PROVE step' = "answered" /\ reply'.kind # "report"
<1>1. step' = "answered" /\ reply' = IF sideband THEN [kind |-> "frame"] ELSE Status(500)
  BY DEF AnswersError, Answer
<1>2. CASE sideband
  BY <1>1, <1>2
<1>3. CASE ~ sideband
  BY <1>1, <1>3 DEF Status
<1> QED  BY <1>1, <1>2, <1>3

LEMMA RouteKeeps ==
    ASSUME ReceiveInv, NEW p \in Paths, NEW ls \in Pushed, Route(p, ls)
    PROVE  ReceiveInv'
<1>1. landed = {} /\ reply = NoReply
  BY Unjudging DEF Route
<1>2. landed' = landed /\ updates' = updates /\ commands' = commands /\ tips' = tips /\ lines' = ls
  BY DEF Route, parsed, judged, world
<1>3. ReceiveKinds'
  BY <1>2, ReceiveAssumption DEF ReceiveInv, ReceiveKinds, IsList, IsOn, Refs
<1>4. \/ step' = "routed" /\ reply' = reply
      \/ step' = "answered" /\ reply' = Status(404)
  BY DEF Route, Answer
<1>5. CASE step' = "routed" /\ reply' = reply
  BY <1>1, <1>2, <1>3, <1>5, EarlyKeeps
<1>6. CASE step' = "answered" /\ reply' = Status(404)
  BY <1>1, <1>2, <1>3, <1>6, EarlyKeeps, AnswersNoReport
<1> QED  BY <1>4, <1>5, <1>6

\* The steps up to the commands change neither them nor what is in the store.
LEMMA OnTheWayKeeps ==
    ASSUME ReceiveInv,
           \/ \E c \in Clearances : Authorize(c)
           \/ Resolve \/ UnknownService
           \/ \E access \in {"read", "write"}, visible \in SUBSET Refs : Advertise(access, visible)
    PROVE  ReceiveInv'
<1>1. step \in {"routed", "cleared", "resolved"}
  BY DEF Authorize, Resolve, UnknownService, Advertise
<1>2. landed = {} /\ reply = NoReply
  BY <1>1, Unjudging
<1>3. landed' = landed /\ updates' = updates /\ commands' = commands /\ lines' = lines /\ tips' = tips
  BY DEF Authorize, Resolve, UnknownService, Advertise, request, parsed, judged, world
<1>4. ReceiveKinds'
  BY <1>3, KindsStay DEF ReceiveInv
<1>5. \/ step' \in {"cleared", "resolved"} /\ reply' = reply
      \/ step' = "answered" /\ reply'.kind # "report"
  <2>1. ASSUME NEW c \in Clearances, Authorize(c)
        PROVE  \/ step' = "cleared" /\ reply' = reply
               \/ step' = "answered" /\ \E code : reply' = Status(code)
    BY <2>1 DEF Authorize, Answer
  <2>2. ASSUME Resolve
        PROVE  \/ step' = "resolved" /\ reply' = reply
               \/ step' = "answered" /\ \E code : reply' = Status(code)
    BY <2>2 DEF Resolve, Answer
  <2>3. ASSUME UnknownService
        PROVE  step' = "answered" /\ reply' = Status(400)
    BY <2>3 DEF UnknownService, Answer
  <2>4. ASSUME NEW access, NEW visible, Advertise(access, visible)
        PROVE  step' = "answered" /\ reply'.kind # "report"
    BY <2>4 DEF Advertise, Answer, Status
  <2> QED  BY <2>1, <2>2, <2>3, <2>4, AnswersNoReport
<1> QED  BY <1>2, <1>3, <1>4, <1>5, EarlyKeeps

LEMMA ReadCommandsKeeps ==
    ASSUME ReceiveInv, ReadCommands
    PROVE  ReceiveInv'
<1>1. landed = {} /\ reply = NoReply
  BY Unjudging DEF ReadCommands
<1>2. landed' = landed /\ commands' = commands /\ lines' = lines /\ tips' = tips
  BY DEF ReadCommands, request, judged, world
<1>3. Len(lines) \in Nat
  BY DEF ReceiveInv, ReceiveKinds
<1>4. \/ updates' = updates /\ step' = "answered" /\ reply' = Status(400)
      \/ updates' = Parsed(lines) /\ step' = "answered" /\ reply' = [kind |-> "empty"]
      \/ updates' = Parsed(lines) /\ step' = "read" /\ reply' = reply
  BY DEF ReadCommands, Answer, parsed
<1>5. IsList(updates')
  BY <1>3, <1>4, ParsedIsList DEF ReceiveInv, ReceiveKinds
<1>6. ReceiveKinds'
  BY <1>2, <1>5 DEF ReceiveInv, ReceiveKinds, IsList, IsOn, Refs
<1>7. \/ step' = "answered" /\ reply'.kind # "report"
      \/ step' = "read" /\ reply' = NoReply
  BY <1>1, <1>4, AnswersNoReport
<1> QED  BY <1>1, <1>2, <1>6, <1>7, EarlyKeeps

LEMMA HandToWorkerKeeps ==
    ASSUME ReceiveInv, HandToWorker
    PROVE  ReceiveInv'
<1>1. landed = {} /\ reply = NoReply
  BY Unjudging DEF HandToWorker
<1>2. landed' = landed /\ updates' = updates /\ commands' = commands /\ lines' = lines /\ tips' = tips
  BY DEF HandToWorker, request, parsed, judged
<1>3. ReceiveKinds'
  BY <1>2, KindsStay DEF ReceiveInv
<1>4. \/ AnswersError
      \/ step' = "stored" /\ reply' = reply
  BY DEF HandToWorker
<1>5. CASE AnswersError
  BY <1>1, <1>2, <1>3, <1>5, ErrorIsNoReport, EarlyKeeps
<1>6. CASE step' = "stored" /\ reply' = reply
  BY <1>1, <1>2, <1>3, <1>6, EarlyKeeps
<1> QED  BY <1>4, <1>5, <1>6


\* The hook lets the push go on.
LEMMA JudgedKeeps ==
    ASSUME ReceiveInv, step = "stored", NEW js \in Judgements,
           updates' = updates, screened' = screened, commands' = Commands, judgements' = js,
           \/ Commands = <<>> /\ refused' = refused
           \/ /\ \A j \in DOMAIN js : js[j].verdict # "neither"
              /\ Unjudged(Commands, js) = {}
              /\ refused' = refused \cup ({Commands[i].ref : i \in DOMAIN Commands} \cap RefusedBy(js))
    PROVE  AllowedByTheHook'
<1>1. IsList(updates)
  BY DEF ReceiveInv, ReceiveKinds
<1>2. /\ Positions' = Positions
      /\ \A i : RefCommand(i)' = RefCommand(i)
      /\ \A i : NamedOnce(i)' <=> NamedOnce(i)
  BY DEF Positions, RefCommand, NamedOnce
<1>3. StillAlive' = {i \in Positions : updates[i].ref \notin screened \cup refused'}
  BY <1>2 DEF StillAlive
<1>4. CASE Commands = <<>> /\ refused' = refused
  <2>1. DOMAIN Commands = {}
    BY <1>4
  <2>2. StillAlive = {}
    BY <1>1, <2>1, CommandsAreAsked
  <2>3. StillAlive' = {}
    BY <1>3, <1>4, <2>2 DEF StillAlive
  <2> QED  BY <2>1, <2>3 DEF AllowedByTheHook
<1>5. CASE /\ \A j \in DOMAIN js : js[j].verdict # "neither"
           /\ Unjudged(Commands, js) = {}
           /\ refused' = refused \cup ({Commands[i].ref : i \in DOMAIN Commands} \cap RefusedBy(js))
  <2>1. ASSUME NEW c \in DOMAIN Commands
        PROVE  /\ \E j \in DOMAIN js : js[j].ref = Commands[c].ref
               /\ \E i \in Positions :
                    Commands[c] = RefCommand(i) /\ NamedOnce(i) /\ updates[i].ref \notin screened
    <3>1. PICK i \in StillAlive : Commands[c] = RefCommand(i)
      BY <1>1, CommandsAreAsked
    <3>2. NamedOnce(i)
      BY <1>1, <1>5, HookAsksOnce
    <3>3. i \in Positions /\ updates[i].ref \notin screened
      BY DEF StillAlive
    <3>4. \E j \in DOMAIN js : js[j].ref = Commands[c].ref
      BY <1>1, <1>5, HookAsksOnce
    <3> QED  BY <3>1, <3>2, <3>3, <3>4
  <2>2. ASSUME NEW i \in StillAlive'
        PROVE  /\ \E c \in DOMAIN Commands : Commands[c] = RefCommand(i)
               /\ \A j \in DOMAIN js : js[j].ref = updates[i].ref => js[j].verdict = "allow"
    <3>1. i \in StillAlive /\ updates[i].ref \notin refused'
      BY <1>3, <1>5 DEF StillAlive
    <3>2. PICK c \in DOMAIN Commands : Commands[c] = RefCommand(i)
      BY <1>1, <3>1, CommandsAreAsked
    <3>3. Commands[c].ref = updates[i].ref
      BY <3>2, RefOfCommand
    <3>4. updates[i].ref \notin RefusedBy(js)
      BY <1>5, <3>1, <3>2, <3>3
    <3>5. ASSUME NEW j \in DOMAIN js, js[j].ref = updates[i].ref
          PROVE  js[j].verdict = "allow"
      <4>1. js[j].verdict # "refuse"
        BY <3>4, <3>5 DEF RefusedBy
      <4>2. js[j].verdict \in {"allow", "refuse", "neither"}
        BY DEF Judgements
      <4> QED  BY <1>5, <4>1, <4>2
    <3> QED  BY <3>2, <3>5
  <2> QED  BY <1>2, <2>1, <2>2 DEF AllowedByTheHook
<1> QED  BY <1>4, <1>5

LEMMA PreReceiveKeeps ==
    ASSUME ReceiveInv, NEW js \in Judgements, PreReceive(js)
    PROVE  ReceiveInv'
<1>1. step = "stored" /\ landed = {} /\ reply = NoReply
  BY Unjudging DEF PreReceive
<1>2. /\ landed' = landed /\ updates' = updates /\ lines' = lines /\ tips' = tips
      /\ screened' = screened /\ commands' = Commands
  BY DEF PreReceive, request, parsed, world
<1>3. IsList(updates)
  BY DEF ReceiveInv, ReceiveKinds
<1>4. ReceiveKinds'
  <2>1. IsList(Commands)
    BY <1>3, CommandsAreAsked
  <2> QED  BY <1>2, <2>1 DEF ReceiveInv, ReceiveKinds, IsList, IsOn, Refs
<1>5. <<>> \in Judgements
  <2>1. <<>> \in [1 .. 0 -> [ref : Names, verdict : {"allow", "refuse", "neither"}]]
    OBVIOUS
  <2>2. 0 \in 0 .. MaxJudgements
    BY ReceiveAssumption
  <2> QED  BY <2>1, <2>2 DEF Judgements
<1>6. \/ AnswersError
      \/ step' = "judged" /\ reply' = reply /\ judgements' = <<>> /\ Commands = <<>> /\ refused' = refused
      \/ /\ step' = "judged" /\ reply' = reply /\ judgements' = js
         /\ \A j \in DOMAIN js : js[j].verdict # "neither"
         /\ Unjudged(Commands, js) = {}
         /\ refused' = refused \cup ({Commands[i].ref : i \in DOMAIN Commands} \cap RefusedBy(js))
  BY DEF PreReceive
<1>7. CASE AnswersError
  BY <1>1, <1>2, <1>4, <1>7, ErrorIsNoReport, EarlyKeeps
<1>8. CASE step' = "judged" /\ reply' = reply /\ AllowedByTheHook'
  <2>1. LandedIsAllowed'
    BY <1>1, <1>2 DEF LandedIsAllowed
  <2>2. reply'.kind # "report"
    BY <1>1, <1>8 DEF NoReply
  <2> QED  BY <1>1, <1>2, <1>4, <1>8, <2>1, <2>2 DEF ReceiveInv
<1>9. ASSUME step' = "judged", Commands = <<>>, judgements' = <<>>, refused' = refused
      PROVE  AllowedByTheHook'
  BY <1>1, <1>2, <1>5, <1>9, JudgedKeeps
<1>10. ASSUME step' = "judged", judgements' = js,
              \A j \in DOMAIN js : js[j].verdict # "neither",
              Unjudged(Commands, js) = {},
              refused' = refused \cup ({Commands[i].ref : i \in DOMAIN Commands} \cap RefusedBy(js))
       PROVE  AllowedByTheHook'
  BY <1>1, <1>2, <1>10, JudgedKeeps
<1> QED  BY <1>6, <1>7, <1>8, <1>9, <1>10

\* Nothing the hook's say rests on has changed.
LEMMA AllowedStays ==
    ASSUME AllowedByTheHook, updates' = updates, commands' = commands, judgements' = judgements,
           screened' = screened, refused' = refused
    PROVE  AllowedByTheHook'
  BY DEF AllowedByTheHook, Positions, RefCommand, NamedOnce, StillAlive

LEMMA ApplyRefUpdatesKeeps ==
    ASSUME ReceiveInv, ApplyRefUpdates
    PROVE  ReceiveInv'
<1>1. step = "judged" /\ landed = {} /\ reply = NoReply /\ AllowedByTheHook
  BY DEF ReceiveInv, ApplyRefUpdates
<1>2. /\ updates' = updates /\ lines' = lines /\ commands' = commands /\ judgements' = judgements
      /\ screened' = screened /\ refused' = refused
  BY DEF ApplyRefUpdates, request, parsed, judged
<1>3. Len(updates) \in Nat /\ IsOn(tips, Refs) /\ Positions = 1 .. Len(updates)
  BY DEF ReceiveInv, ReceiveKinds, IsList, Positions
<1>4. AllowedByTheHook'
  BY <1>1, <1>2, AllowedStays
<1>5. CASE /\ tips' = Applied.table /\ landed' = Applied.ok
           /\ outcomes' = ResolveRefUpdates(Applied.ok) /\ step' = "landed" /\ reply' = reply
  <2>1. IsOn(tips', Refs) /\ LandedIsAllowed'
    <3>1. \A i \in Applied.ok : i \in Positions /\ updates[i].ref \notin refused /\ updates[i].ref # Funny
      BY <1>3, AppliedIsAllowed DEF ToApply
    <3> QED  BY <1>2, <1>3, <1>5, <3>1, AppliedIsAllowed DEF LandedIsAllowed, Positions
  <2>2. ReceiveKinds'
    BY <1>2, <2>1 DEF ReceiveInv, ReceiveKinds, IsList, IsOn, Refs
  <2>3. outcomes' = ResolveRefUpdates(landed)'
    BY <1>2, <1>5 DEF ResolveRefUpdates, Positions
  <2>4. reply'.kind # "report"
    BY <1>1, <1>5 DEF NoReply
  <2> QED  BY <1>1, <1>4, <1>5, <2>1, <2>2, <2>3, <2>4 DEF ReceiveInv
<1>6. CASE AnswersError /\ tips' = tips /\ landed' = landed
  <2>1. ReceiveKinds'
    BY <1>2, <1>6, KindsStay DEF ReceiveInv
  <2> QED  BY <1>1, <1>6, <2>1, ErrorIsNoReport, EarlyKeeps
<1> QED  BY <1>5, <1>6 DEF ApplyRefUpdates

\* A ref named once is reported ok exactly when it landed.
LEMMA OutcomeOfOne ==
    ASSUME LandedIsAllowed, IsList(updates), NEW i \in Positions, NamedOnce(i)
    PROVE  ResolveRefUpdates(landed)[i] = "ok" <=> i \in landed
<1> DEFINE same == {j \in Positions : updates[j].ref = updates[i].ref}
           last == CHOOSE j \in same : \A k \in same : k <= j
<1>1. same = {i} /\ i \in Nat
  BY DEF NamedOnce, IsList, Positions
<1>2. last = i
  <2>1. \E j \in same : \A k \in same : k <= j
    BY <1>1
  <2> QED  BY <1>1, <2>1
<1>3. ResolveRefUpdates(landed)[i] =
         CASE \E k \in same : k < i -> "internal"
           [] updates[i].ref \in refused -> "refused"
           [] last \in landed -> "ok"
           [] OTHER -> "rejected"
  BY DEF ResolveRefUpdates
<1>4. ~ \E k \in same : k < i
  BY <1>1
<1> HIDE DEF last, same
<1>5. CASE updates[i].ref \in refused
  <2>1. i \notin landed
    BY <1>5 DEF LandedIsAllowed
  <2>2. ResolveRefUpdates(landed)[i] # "ok"
    BY <1>2, <1>3, <1>4, <1>5, <2>1
  <2> QED  BY <2>1, <2>2
<1>6. CASE updates[i].ref \notin refused
  BY <1>2, <1>3, <1>4, <1>6
<1> QED  BY <1>5, <1>6

\* A ref reported ok was moved by one of its updates.
LEMMA OutcomeOfMany ==
    ASSUME IsList(updates), NEW i \in Positions, ResolveRefUpdates(landed)[i] = "ok"
    PROVE  \E j \in landed : updates[j].ref = updates[i].ref
<1> DEFINE same == {j \in Positions : updates[j].ref = updates[i].ref}
           last == CHOOSE j \in same : \A k \in same : k <= j
<1>1. same \in SUBSET (1 .. Len(updates)) /\ Len(updates) \in Nat /\ same # {}
  BY DEF IsList, Positions
<1>2. \E j \in same : \A k \in same : k <= j
  <2> HIDE DEF same
  <2>1. PICK j \in same : \A k \in same : j >= k
    BY <1>1, LastIsThere
  <2> QED  BY <1>1, <2>1
<1>3. last \in same
  BY <1>2
<1>4. ResolveRefUpdates(landed)[i] =
         CASE \E k \in same : k < i -> "internal"
           [] updates[i].ref \in refused -> "refused"
           [] last \in landed -> "ok"
           [] OTHER -> "rejected"
  BY DEF ResolveRefUpdates
<1>5. last \in landed
  <2> HIDE DEF last, same
  <2> QED  BY <1>4
<1> QED  BY <1>3, <1>5

LEMMA PostReceiveTells ==
    ASSUME ReceiveInv, step = "landed",
           NEW ts, ts = Picked(commands, {k \in DOMAIN commands : Landed(commands[k])})
    PROVE  /\ \A k \in DOMAIN ts : ts[k] \in Heard
           /\ \A h \in Heard : \E k \in DOMAIN ts : ts[k] = h
<1> DEFINE places == {k \in DOMAIN commands : Landed(commands[k])}
           X == {commands[k] : k \in 1 .. Len(commands)}
<1>1. IsList(updates) /\ IsList(commands) /\ AllowedByTheHook /\ LandedIsAllowed
      /\ outcomes = ResolveRefUpdates(landed)
  BY DEF ReceiveInv, ReceiveKinds
<1>2. commands \in Seq(X) /\ DOMAIN commands = 1 .. Len(commands) /\ Len(commands) \in Nat
  BY <1>1, ListIsSeq DEF IsList
<1>3. ts \in Seq(X) /\ Picks(ts, commands, places, Len(commands))
  <2> HIDE DEF X
  <2> QED  BY <1>2, PickedPicks
<1>4. DOMAIN ts = 1 .. Len(ts)
  BY <1>3
<1>5. ASSUME NEW k \in DOMAIN ts PROVE ts[k] \in Heard
  <2>0. PICK c \in 1 .. Len(commands) : c \in places /\ ts[k] = commands[c]
    <3> HIDE DEF places, X
    <3>1. k \in 1 .. Len(ts)
      BY <1>4
    <3>2. \A j \in 1 .. Len(ts) : \E i \in 1 .. Len(commands) : i \in places /\ ts[j] = commands[i]
      BY <1>3, Zenon DEF Picks
    <3> QED  BY <3>1, <3>2, Zenon
  <2>1. c \in DOMAIN commands /\ Landed(commands[c]) /\ ts[k] = commands[c]
    BY <1>2, <2>0
  <2>2. PICK i \in Positions : commands[c] = RefCommand(i) /\ NamedOnce(i) /\ updates[i].ref \notin screened
    BY <1>1 DEF AllowedByTheHook
  <2>3. commands[c].ref = updates[i].ref
    BY <2>2, RefOfCommand
  <2>4. outcomes[i] = "ok"
    BY <2>1, <2>2, <2>3 DEF Landed, NamedOnce
  <2>5. i \in landed
    BY <1>1, <2>2, <2>4, OutcomeOfOne
  <2>6. i \in StillAlive
    BY <1>1, <2>2, <2>5 DEF LandedIsAllowed, StillAlive
  <2> QED  BY <2>1, <2>2, <2>5, <2>6 DEF Heard
<1>6. ASSUME NEW i \in landed \cap StillAlive
      PROVE  \E k \in DOMAIN ts : ts[k] = RefCommand(i)
  <2>1. PICK c \in DOMAIN commands : commands[c] = RefCommand(i)
    BY <1>1 DEF AllowedByTheHook
  <2>2. PICK j \in Positions : commands[c] = RefCommand(j) /\ NamedOnce(j)
    BY <1>1 DEF AllowedByTheHook
  <2>3. updates[i].ref = updates[j].ref /\ commands[c].ref = updates[i].ref
    BY <2>1, <2>2, RefOfCommand
  <2>4. i \in Positions /\ i = j
    BY <2>2, <2>3 DEF NamedOnce, StillAlive
  <2>5. outcomes[i] = "ok"
    BY <1>1, <2>2, <2>4, OutcomeOfOne
  <2>6. c \in places
    BY <2>3, <2>4, <2>5 DEF Landed
  <2>7. PICK k \in 1 .. Len(ts) : ts[k] = commands[c]
    BY <1>2, <1>3, <2>6 DEF Picks
  <2> QED  BY <1>4, <2>1, <2>7
<1> QED  BY <1>5, <1>6 DEF Heard

\* What was told stays true while nothing lands.
LEMMA TellingStays ==
    ASSUME updates' = updates, landed' = landed, screened' = screened, refused' = refused
    PROVE  /\ Heard' = Heard
           /\ (LandedIsAllowed => LandedIsAllowed')
           /\ ResolveRefUpdates(landed)' = ResolveRefUpdates(landed)
  BY DEF Heard, LandedIsAllowed, ResolveRefUpdates, RefCommand, StillAlive, Positions

LEMMA PostReceiveKeeps ==
    ASSUME ReceiveInv, PostReceive
    PROVE  ReceiveInv'
<1>1. /\ step = "landed" /\ reply = NoReply /\ AllowedByTheHook /\ LandedIsAllowed
      /\ outcomes = ResolveRefUpdates(landed) /\ ReceiveKinds
  BY DEF ReceiveInv, PostReceive
<1>2. /\ updates' = updates /\ lines' = lines /\ commands' = commands /\ judgements' = judgements
      /\ screened' = screened /\ refused' = refused /\ landed' = landed /\ tips' = tips
      /\ outcomes' = outcomes /\ reply' = reply /\ step' = "told"
      /\ told' = Picked(commands, {k \in DOMAIN commands : Landed(commands[k])})
  BY DEF PostReceive, request, parsed, judged, world
<1>3. ReceiveKinds' /\ AllowedByTheHook'
  BY <1>1, <1>2, KindsStay, AllowedStays
<1>4. Heard' = Heard /\ LandedIsAllowed' /\ outcomes' = ResolveRefUpdates(landed)'
  BY <1>1, <1>2, TellingStays
<1>5. HeardIsTold'
  <2>1. PICK ts : ts = told'
    OBVIOUS
  <2>2. /\ \A k \in DOMAIN ts : ts[k] \in Heard
        /\ \A h \in Heard : \E k \in DOMAIN ts : ts[k] = h
    BY <1>1, <1>2, <2>1, PostReceiveTells
  <2> QED  BY <1>4, <2>1, <2>2 DEF HeardIsTold
<1>6. reply'.kind # "report"
  BY <1>1, <1>2 DEF NoReply
<1> QED  BY <1>1, <1>2, <1>3, <1>4, <1>5, <1>6 DEF ReceiveInv

LEMMA ReportStatusKeeps ==
    ASSUME ReceiveInv, ReportStatus
    PROVE  ReceiveInv'
<1>1. /\ step = "told" /\ AllowedByTheHook /\ LandedIsAllowed /\ HeardIsTold
      /\ outcomes = ResolveRefUpdates(landed) /\ ReceiveKinds
  BY DEF ReceiveInv, ReportStatus
<1>2. /\ updates' = updates /\ lines' = lines /\ commands' = commands /\ judgements' = judgements
      /\ screened' = screened /\ refused' = refused /\ landed' = landed /\ tips' = tips
      /\ told' = told /\ step' = "answered" /\ reply'.outcomes = outcomes
  BY DEF ReportStatus, Answer, request, parsed, judged, answered, world
<1>3. ReceiveKinds' /\ AllowedByTheHook'
  BY <1>1, <1>2, KindsStay, AllowedStays
<1>4. Heard' = Heard /\ LandedIsAllowed' /\ reply'.outcomes = ResolveRefUpdates(landed)'
  BY <1>1, <1>2, TellingStays
<1>5. HeardIsTold'
  BY <1>1, <1>2, <1>4 DEF HeardIsTold
<1> QED  BY <1>2, <1>3, <1>4, <1>5 DEF ReceiveInv

LEMMA LeaveKeeps ==
    ASSUME ReceiveInv, Leave
    PROVE  ReceiveInv'
<1>1. /\ step \in {"read", "stored", "judged", "landed", "told"} /\ step' = "dropped"
      /\ updates' = updates /\ lines' = lines /\ commands' = commands /\ judgements' = judgements
      /\ screened' = screened /\ refused' = refused /\ reply' = reply
  BY DEF Leave, request, parsed, judged
<1>2. reply = NoReply /\ reply'.kind # "report"
  BY <1>1 DEF ReceiveInv, NoReply
<1>3. CASE tips' = tips /\ landed' = landed
  <2>1. ReceiveKinds' /\ LandedIsAllowed'
    BY <1>1, <1>3, KindsStay, TellingStays DEF ReceiveInv
  <2>2. landed # {} => AllowedByTheHook'
    BY <1>1, AllowedStays DEF ReceiveInv
  <2> QED  BY <1>1, <1>2, <1>3, <2>1, <2>2 DEF ReceiveInv
<1>4. CASE step = "judged" /\ tips' = Applied.table /\ landed' = Applied.ok
  <2>1. Len(updates) \in Nat /\ IsOn(tips, Refs) /\ Positions = 1 .. Len(updates)
    BY DEF ReceiveInv, ReceiveKinds, IsList, Positions
  <2>2. \A i \in Applied.ok : i \in Positions /\ updates[i].ref \notin refused /\ updates[i].ref # Funny
    BY <2>1, AppliedIsAllowed DEF ToApply
  <2>3. LandedIsAllowed'
    BY <1>1, <1>4, <2>2 DEF LandedIsAllowed, Positions
  <2>4. IsOn(tips', Refs)
    BY <1>4, <2>1, AppliedIsAllowed
  <2>5. ReceiveKinds'
    BY <1>1, <2>4 DEF ReceiveInv, ReceiveKinds, IsList, IsOn, Refs
  <2>6. AllowedByTheHook'
    BY <1>1, <1>4, AllowedStays DEF ReceiveInv
  <2> QED  BY <1>1, <1>2, <2>3, <2>5, <2>6 DEF ReceiveInv
<1> QED  BY <1>1, <1>3, <1>4 DEF Leave

\* A step of another client's, and a stutter.
LEMMA ElsewhereKeeps ==
    ASSUME ReceiveInv,
           (\E r \in Names, v \in 0 .. 2 : Rival(r, v)) \/ DeleteRow \/ UNCHANGED rvars
    PROVE  ReceiveInv'
<1>1. /\ updates' = updates /\ lines' = lines /\ commands' = commands /\ judgements' = judgements
      /\ screened' = screened /\ refused' = refused /\ landed' = landed /\ told' = told
      /\ outcomes' = outcomes /\ reply' = reply /\ step' = step
  BY DEF Rival, DeleteRow, rvars, request, parsed, judged, answered, world
<1>2. IsOn(tips', Refs)
  BY DEF Rival, DeleteRow, rvars, world, ReceiveInv, ReceiveKinds, IsOn
<1>3. ReceiveKinds'
  BY <1>1, <1>2 DEF ReceiveInv, ReceiveKinds, IsList, IsOn, Refs
<1>4. Heard' = Heard /\ LandedIsAllowed' /\ ResolveRefUpdates(landed)' = ResolveRefUpdates(landed)
  BY <1>1, TellingStays DEF ReceiveInv
<1>5. HeardIsTold => HeardIsTold'
  BY <1>1, <1>4 DEF HeardIsTold
<1>6. AllowedByTheHook => AllowedByTheHook'
  BY <1>1, AllowedStays
<1> QED  BY <1>1, <1>3, <1>4, <1>5, <1>6 DEF ReceiveInv

LEMMA ReceiveInitHolds == RInit => ReceiveInv
<1> SUFFICES ASSUME RInit PROVE ReceiveInv
  OBVIOUS
<1>1. updates = <<>> /\ commands = <<>> /\ lines = <<>> /\ landed = {} /\ step = "idle" /\ reply = NoReply
  BY DEF RInit
<1>2. IsOn(tips, Refs)
  BY DEF RInit, IsOn
<1>3. ReceiveKinds
  BY <1>1, <1>2 DEF ReceiveKinds, IsList
<1>4. reply.kind # "report"
  BY <1>1 DEF NoReply
<1> QED  BY <1>1, <1>3, <1>4 DEF ReceiveInv, LandedIsAllowed

LEMMA ReceiveStepHolds == ReceiveInv /\ [RNext]_rvars => ReceiveInv'
<1> SUFFICES ASSUME ReceiveInv, [RNext]_rvars PROVE ReceiveInv'
  OBVIOUS
<1>1. CASE \E p \in Paths, ls \in Pushed : Route(p, ls)
  BY <1>1, RouteKeeps
<1>2. CASE \/ \E c \in Clearances : Authorize(c)
           \/ Resolve \/ UnknownService
           \/ \E access \in {"read", "write"}, visible \in SUBSET Refs : Advertise(access, visible)
  BY <1>2, OnTheWayKeeps
<1>3. CASE ReadCommands
  BY <1>3, ReadCommandsKeeps
<1>4. CASE HandToWorker
  BY <1>4, HandToWorkerKeeps
<1>5. CASE \E js \in Judgements : PreReceive(js)
  BY <1>5, PreReceiveKeeps
<1>6. CASE ApplyRefUpdates
  BY <1>6, ApplyRefUpdatesKeeps
<1>7. CASE PostReceive
  BY <1>7, PostReceiveKeeps
<1>8. CASE ReportStatus
  BY <1>8, ReportStatusKeeps
<1>9. CASE Leave
  BY <1>9, LeaveKeeps
<1>10. CASE (\E r \in Names, v \in 0 .. 2 : Rival(r, v)) \/ DeleteRow \/ UNCHANGED rvars
  BY <1>10, ElsewhereKeeps
<1> QED  BY <1>1, <1>2, <1>3, <1>4, <1>5, <1>6, <1>7, <1>8, <1>9, <1>10 DEF RNext

LEMMA ReceiveInvAlways == RSpec => []ReceiveInv
<1>1. RInit => ReceiveInv
  BY ReceiveInitHolds
<1>2. ReceiveInv /\ [RNext]_rvars => ReceiveInv'
  BY ReceiveStepHolds
<1> QED  BY <1>1, <1>2, PTL DEF RSpec

\* For any refnames, command lists, paths and answers of the hook, with other
\* clients moving refs and the client leaving anywhere: no ref pre_receive was
\* asked about moves unless every command had a judgement and none refused it.
THEOREM TheHookDecides == RSpec => []HookDecides
<1>1. ReceiveInv => HookDecides
  <2> SUFFICES ASSUME ReceiveInv, NEW i \in landed
               PROVE  /\ updates[i].ref # Funny
                      /\ updates[i].ref \notin screened =>
                           /\ \E j \in DOMAIN judgements : judgements[j].ref = updates[i].ref
                           /\ \A j \in DOMAIN judgements :
                                judgements[j].ref = updates[i].ref => judgements[j].verdict = "allow"
                           /\ \A c \in DOMAIN commands :
                                \E j \in DOMAIN judgements : judgements[j].ref = commands[c].ref
    BY DEF HookDecides
  <2>1. AllowedByTheHook /\ i \in Positions /\ updates[i].ref \notin refused /\ updates[i].ref # Funny
    BY DEF ReceiveInv, LandedIsAllowed
  <2> SUFFICES ASSUME updates[i].ref \notin screened
               PROVE  /\ \E j \in DOMAIN judgements : judgements[j].ref = updates[i].ref
                      /\ \A j \in DOMAIN judgements :
                           judgements[j].ref = updates[i].ref => judgements[j].verdict = "allow"
                      /\ \A c \in DOMAIN commands :
                           \E j \in DOMAIN judgements : judgements[j].ref = commands[c].ref
    BY <2>1
  <2>2. i \in StillAlive
    BY <2>1 DEF StillAlive
  <2>3. PICK c \in DOMAIN commands : commands[c] = RefCommand(i)
    BY <2>1, <2>2 DEF AllowedByTheHook
  <2>4. commands[c].ref = updates[i].ref
    BY <2>3, RefOfCommand
  <2> QED  BY <2>1, <2>2, <2>3, <2>4 DEF AllowedByTheHook
<1> QED  BY <1>1, ReceiveInvAlways, PTL

\* The report says ok of exactly what landed, for a ref named once, and of
\* nothing that did not move; post_receive hears of exactly what landed of
\* that pre_receive was asked about.
THEOREM ReportsAreTrue == RSpec => []ReportIsTrue
<1>1. ReceiveInv => ReportIsTrue
  <2> SUFFICES ASSUME ReceiveInv, reply.kind = "report"
               PROVE  /\ \A i \in Positions :
                           /\ NamedOnce(i) => (reply.outcomes[i] = "ok" <=> i \in landed)
                           /\ reply.outcomes[i] = "ok" => \E j \in landed : updates[j].ref = updates[i].ref
                      /\ {told[k] : k \in DOMAIN told} = {RefCommand(i) : i \in landed \cap StillAlive}
    BY DEF ReportIsTrue
  <2>1. reply.outcomes = ResolveRefUpdates(landed) /\ HeardIsTold /\ LandedIsAllowed /\ IsList(updates)
    BY DEF ReceiveInv, ReceiveKinds
  <2>2. {told[k] : k \in DOMAIN told} = Heard
    BY <2>1 DEF HeardIsTold
  <2>3. ASSUME NEW i \in Positions
        PROVE  /\ NamedOnce(i) => (reply.outcomes[i] = "ok" <=> i \in landed)
               /\ reply.outcomes[i] = "ok" => \E j \in landed : updates[j].ref = updates[i].ref
    BY <2>1, OutcomeOfOne, OutcomeOfMany
  <2> QED  BY <2>2, <2>3 DEF Heard
<1> QED  BY <1>1, ReceiveInvAlways, PTL

-----------------------------------------------------------------------------
(* Ingest                                                                  *)
(*                                                                         *)
(* An entry waits for its base only while the base is sent and not yet     *)
(* resolved, so that with nothing flying or ready a base is missing from   *)
(* the pack, and from the store when it was looked up.                     *)

HasFields(f, S) == DOMAIN f = S /\ f = [x \in S |-> f[x]]

PushFields == {"phase", "new", "wire", "bases", "ready", "waiting", "flying", "got", "plan", "staged"}

\* What a client may send: whole entries, deltas on a place in the pack, deltas
\* on an id; among any of the deltas is one whose base is not one of them.
WireOk(w) ==
    /\ \A o \in DOMAIN w : w[o].form \in {"whole", "ofs", "ref"}
    /\ \A o \in DOMAIN w : w[o].form = "ofs" => w[o].base \in DOMAIN w
    /\ \A d \in SUBSET {o \in DOMAIN w : w[o].form # "whole"} :
          d # {} => \E o \in d : w[o].base \notin d

\* What is reached: everything whole, what hangs by its place off what has
\* landed, and what names its base by id, unless it still waits for it.
Begun(push) == push.got \union push.ready \union push.flying

Flow(push) ==
    /\ \A o \in Sent(push) : push.wire[o].form = "whole" => o \in Begun(push)
    /\ \A o \in Sent(push) : push.wire[o].form = "ofs" /\ push.wire[o].base \in push.got => o \in Begun(push)
    /\ \A o \in Sent(push) : push.wire[o].form = "ref" =>
          o \in Begun(push) \/ (o \in push.waiting /\ push.wire[o].base \notin push.bases)
    /\ \A o \in push.waiting : push.wire[o].base \notin push.got

PushOk(push) ==
    \/ push = Idle
    \/ /\ HasFields(push, PushFields)
       /\ push.phase \in {"scanned", "resolving", "invalid"} => WireOk(push.wire)
       /\ push.phase = "scanned" => push.got = {} /\ push.flying = {}
       /\ push.phase \in {"resolving", "invalid"} => Flow(push)
       /\ push.phase = "invalid" => push.ready = {} /\ push.flying = {} /\ push.got # Sent(push) /\ push.got \subseteq Sent(push)
       /\ push.phase = "resolving" => Begun(push) \union push.waiting \subseteq Sent(push)

ResolveInv ==
    /\ HasFields(pushes, Pushers)
    /\ \A p \in Pushers : PushOk(pushes[p])

\* Every wire a client may send is well formed.
LEMMA WiresAreOk ==
    ASSUME NEW pack, NEW w \in Wires(pack)
    PROVE  DOMAIN w = pack /\ WireOk(w)
<1> DEFINE likes(o) == {b \in AllObjects : b[1] = o[1] /\ b # o}
           forms(o) == {Ofs(b) : b \in likes(o) \intersect pack} \union {Ref(b) : b \in likes(o)}
           deltas(d) == {f \in [d -> UNION {forms(o) : o \in d}] : \A o \in d : f[o] \in forms(o)}
           drawn == UNION {{[o \in pack |-> IF o \in d THEN f[o] ELSE Whole] : f \in deltas(d)}
                               : d \in {x \in SUBSET pack : Cardinality(x) <= MaxDeltas}}
<1>1. /\ w \in drawn
      /\ \A d \in SUBSET {o \in pack : w[o].form # "whole"} : d # {} => \E o \in d : w[o].base \notin d
  BY DEF Wires
<1>2. PICK d \in SUBSET pack : \E f \in deltas(d) : w = [o \in pack |-> IF o \in d THEN f[o] ELSE Whole]
  <2> HIDE DEF deltas
  <2> QED  BY <1>1
<1>3. PICK f \in deltas(d) : w = [o \in pack |-> IF o \in d THEN f[o] ELSE Whole]
  BY <1>2
<1>4. DOMAIN f = d /\ \A o \in d : f[o] \in forms(o)
  <2> HIDE DEF forms
  <2> QED  BY <1>3
<1>5. DOMAIN w = pack /\ \A o \in pack : w[o] = IF o \in d THEN f[o] ELSE Whole
  <2> HIDE DEF deltas
  <2> QED  BY <1>3, <1>4
<1>6. ASSUME NEW o \in d
      PROVE  f[o].form = "ref" \/ (f[o].form = "ofs" /\ f[o].base \in pack)
  <2> HIDE DEF likes
  <2>1. (\E b \in pack : f[o] = Ofs(b)) \/ (\E b \in likes(o) : f[o] = Ref(b))
    BY <1>4
  <2> QED  BY <2>1 DEF Ofs, Ref
<1>7. ASSUME NEW o \in pack
      PROVE  w[o].form \in {"whole", "ofs", "ref"} /\ (w[o].form = "ofs" => w[o].base \in pack)
  <2> HIDE DEF deltas
  <2>1. CASE o \in d
    BY <2>1, <1>5, <1>6
  <2>2. CASE o \notin d
    BY <2>2, <1>5 DEF Whole
  <2> QED  BY <2>1, <2>2
<1> HIDE DEF deltas, drawn
<1> QED  BY <1>1, <1>5, <1>7 DEF WireOk

-----------------------------------------------------------------------------
LEMMA ResolveBegins == Init => ResolveInv
BY DEF Init, ResolveInv, PushOk, HasFields

\* An action of p replaces p's push and leaves the others alone.
LEMMA OneMoves ==
    ASSUME ResolveInv, NEW p \in Pushers, NEW push,
           pushes' = [q \in Pushers |-> IF q = p THEN push ELSE pushes[q]], PushOk(push)
    PROVE  ResolveInv'
BY DEF ResolveInv, HasFields

LEMMA ArriveKeeps ==
    ASSUME ResolveInv, NEW p \in Pushers, Arrive(p)
    PROVE  ResolveInv'
<1>1. PICK new, pack, wire :
         wire \in Wires(pack) /\ pushes' = [pushes EXCEPT ![p] =
            [phase |-> "scanned", new |-> new, wire |-> wire, bases |-> {}, ready |-> {},
             waiting |-> {}, flying |-> {}, got |-> {}, plan |-> <<>>, staged |-> {}]]
  BY DEF Arrive
<1> DEFINE push == [phase |-> "scanned", new |-> new, wire |-> wire, bases |-> {}, ready |-> {},
                    waiting |-> {}, flying |-> {}, got |-> {}, plan |-> <<>>, staged |-> {}]
<1>2. pushes' = [q \in Pushers |-> IF q = p THEN push ELSE pushes[q]]
  BY <1>1 DEF ResolveInv, HasFields
<1>3. WireOk(wire)
  BY <1>1, WiresAreOk
<1>4. PushOk(push)
  BY <1>3 DEF PushOk, HasFields, PushFields
<1> HIDE DEF push
<1> QED  BY <1>2, <1>4, OneMoves

\* A push of phase ph, and what the action makes of it.
LEMMA Busy ==
    ASSUME ResolveInv, NEW p \in Pushers, pushes[p].phase # "idle"
    PROVE  HasFields(pushes[p], PushFields) /\ PushOk(pushes[p])
BY DEF ResolveInv, PushOk, Idle

LEMMA SeedKeeps ==
    ASSUME ResolveInv, NEW p \in Pushers, Seed(p)
    PROVE  ResolveInv'
<1>1. PICK push : push = pushes[p]
  OBVIOUS
<1>2. push.phase = "scanned" /\ HasFields(push, PushFields) /\ PushOk(push)
  BY <1>1, Busy DEF Seed
<1>3. WireOk(push.wire) /\ push.got = {} /\ push.flying = {}
  <2>1. push # Idle
    <3>1. push.phase = "scanned" /\ Idle.phase = "idle"
      BY <1>2 DEF Idle
    <3> QED  BY <3>1
  <2> QED  BY <1>2, <2>1 DEF PushOk
<1>4. PICK refs, bases, held, ready :
         /\ refs = {o \in Sent(push) : push.wire[o].form = "ref"}
         /\ bases = {b \in {push.wire[o].base : o \in refs} : Stored(b)}
         /\ held = {o \in refs : push.wire[o].base \in bases}
         /\ ready = {o \in Sent(push) : push.wire[o].form = "whole"} \union held
         /\ pushes' = [pushes EXCEPT ![p].phase = "resolving", ![p].bases = bases,
                           ![p].ready = ready, ![p].waiting = refs \ held]
  <2> DEFINE r == {o \in Sent(pushes[p]) : pushes[p].wire[o].form = "ref"}
             b == {x \in {pushes[p].wire[o].base : o \in r} : Stored(x)}
             h == {o \in r : pushes[p].wire[o].base \in b}
             w == {o \in Sent(pushes[p]) : pushes[p].wire[o].form = "whole"}
  <2>1. pushes' = [pushes EXCEPT ![p].phase = "resolving", ![p].bases = b,
                       ![p].ready = w \union h, ![p].waiting = r \ h]
    BY DEF Seed
  <2>2. PICK refs, bases, held, ready : refs = r /\ bases = b /\ held = h /\ ready = w \union h
    OBVIOUS
  <2>3. /\ refs = {o \in Sent(push) : push.wire[o].form = "ref"}
        /\ bases = {x \in {push.wire[o].base : o \in refs} : Stored(x)}
        /\ held = {o \in refs : push.wire[o].base \in bases}
        /\ ready = {o \in Sent(push) : push.wire[o].form = "whole"} \union held
    BY <2>2, <1>1
  <2>4. pushes' = [pushes EXCEPT ![p].phase = "resolving", ![p].bases = bases,
                       ![p].ready = ready, ![p].waiting = refs \ held]
    BY <2>1, <2>2
  <2> HIDE DEF r, b, h, w
  <2> QED  BY <2>3, <2>4, ZenonT(30)
<1> DEFINE next == [push EXCEPT !.phase = "resolving", !.bases = bases, !.ready = ready, !.waiting = refs \ held]
<1>5. pushes' = [q \in Pushers |-> IF q = p THEN next ELSE pushes[q]]
  <2>1. pushes' = [pushes EXCEPT ![p].phase = "resolving", ![p].bases = bases,
                       ![p].ready = ready, ![p].waiting = refs \ held]
    BY <1>4
  <2> QED  BY <2>1, <1>1 DEF ResolveInv, HasFields
<1>6. /\ HasFields(next, PushFields)
      /\ next.phase = "resolving" /\ next.wire = push.wire /\ next.bases = bases /\ next.ready = ready
      /\ next.waiting = refs \ held /\ next.got = {} /\ next.flying = {}
  BY <1>2, <1>3 DEF HasFields, PushFields
<1> HIDE DEF next
<1>7. Sent(next) = Sent(push) /\ Begun(next) = ready
  BY <1>6 DEF Sent, Begun
<1>8. Flow(next) /\ Begun(next) \union next.waiting \subseteq Sent(next)
  <2>1. /\ \A o \in Sent(push) : push.wire[o].form = "whole" => o \in ready
        /\ \A o \in Sent(push) : push.wire[o].form = "ref" =>
              o \in ready \/ (o \in refs \ held /\ push.wire[o].base \notin bases)
        /\ ready \union (refs \ held) \subseteq Sent(push)
    BY <1>4
  <2> QED  BY <2>1, <1>6, <1>7 DEF Flow
<1>9. PushOk(next)
  BY <1>3, <1>6, <1>8 DEF PushOk
<1> QED  BY <1>5, <1>9, OneMoves

LEMMA TakeKeeps ==
    ASSUME ResolveInv, NEW p \in Pushers, Take(p)
    PROVE  ResolveInv'
<1> DEFINE push == pushes[p]
<1>1. push.phase = "resolving" /\ HasFields(push, PushFields) /\ PushOk(push)
  BY Busy DEF Take
<1>2. WireOk(push.wire) /\ Flow(push) /\ Begun(push) \union push.waiting \subseteq Sent(push)
  BY <1>1 DEF PushOk, Idle
<1>3. PICK o \in push.ready :
         pushes' = [pushes EXCEPT ![p].ready = @ \ {o}, ![p].flying = @ \union {o}]
  BY DEF Take
<1> DEFINE next == [push EXCEPT !.ready = @ \ {o}, !.flying = @ \union {o}]
<1>4. pushes' = [q \in Pushers |-> IF q = p THEN next ELSE pushes[q]]
  BY <1>3 DEF ResolveInv, HasFields
<1>5. /\ HasFields(next, PushFields)
      /\ next.phase = "resolving" /\ next.wire = push.wire /\ next.bases = push.bases
      /\ next.ready = push.ready \ {o} /\ next.flying = push.flying \union {o}
      /\ next.waiting = push.waiting /\ next.got = push.got
  BY <1>1 DEF HasFields, PushFields
<1> HIDE DEF next
<1>6. Sent(next) = Sent(push) /\ Begun(next) = Begun(push)
  BY <1>5 DEF Sent, Begun
<1>7. Flow(next)
  BY <1>2, <1>5, <1>6 DEF Flow
<1>8. PushOk(next)
  BY <1>2, <1>5, <1>6, <1>7 DEF PushOk
<1> QED  BY <1>4, <1>8, OneMoves

\* What lands unblocks all that names it: nothing is left to wait for it.
LEMMA LandKeeps ==
    ASSUME ResolveInv, NEW p \in Pushers, Land(p)
    PROVE  ResolveInv'
<1> DEFINE push == pushes[p]
<1>1. push.phase = "resolving" /\ HasFields(push, PushFields) /\ PushOk(push)
  BY Busy DEF Land
<1>2. WireOk(push.wire) /\ Flow(push) /\ Begun(push) \union push.waiting \subseteq Sent(push)
  BY <1>1 DEF PushOk, Idle
<1>3. PICK o \in push.flying :
         pushes' = [pushes EXCEPT ![p].flying = @ \ {o}, ![p].got = @ \union {o},
                        ![p].ready = @ \union Unblocked(push, o),
                        ![p].waiting = @ \ Unblocked(push, o)]
  BY DEF Land
<1> DEFINE next == [push EXCEPT !.flying = @ \ {o}, !.got = @ \union {o},
                        !.ready = @ \union Unblocked(push, o),
                        !.waiting = @ \ Unblocked(push, o)]
<1>4. pushes' = [q \in Pushers |-> IF q = p THEN next ELSE pushes[q]]
  BY <1>3 DEF ResolveInv, HasFields
<1>5. /\ HasFields(next, PushFields)
      /\ next.phase = "resolving" /\ next.wire = push.wire /\ next.bases = push.bases
      /\ next.ready = push.ready \union Unblocked(push, o) /\ next.flying = push.flying \ {o}
      /\ next.waiting = push.waiting \ Unblocked(push, o) /\ next.got = push.got \union {o}
  BY <1>1 DEF HasFields, PushFields
<1> HIDE DEF next
<1>6. Sent(next) = Sent(push) /\ Begun(next) = Begun(push) \union Unblocked(push, o)
  BY <1>5, <1>3 DEF Sent, Begun
<1>7. /\ \A e \in Sent(push) : push.wire[e].form = "ofs" /\ push.wire[e].base = o => e \in Unblocked(push, o)
      /\ \A e \in push.waiting : push.wire[e].base = o => e \in Unblocked(push, o)
      /\ Unblocked(push, o) \subseteq Sent(push)
  BY <1>2 DEF Unblocked
<1>8. Flow(next)
  BY <1>2, <1>5, <1>6, <1>7 DEF Flow
<1>9. PushOk(next)
  BY <1>2, <1>3, <1>5, <1>6, <1>7, <1>8 DEF PushOk
<1> QED  BY <1>4, <1>9, OneMoves

LEMMA IdentifiedKeeps ==
    ASSUME ResolveInv, NEW p \in Pushers, Identified(p)
    PROVE  ResolveInv'
<1> DEFINE push == pushes[p]
           outcome == IF push.got = Sent(push) THEN "identified" ELSE "invalid"
           next == [push EXCEPT !.phase = outcome]
<1>1. push.phase = "resolving" /\ HasFields(push, PushFields) /\ PushOk(push)
  BY Busy DEF Identified
<1>2. WireOk(push.wire) /\ Flow(push) /\ Begun(push) \union push.waiting \subseteq Sent(push)
  BY <1>1 DEF PushOk, Idle
<1>3. push.ready = {} /\ push.flying = {} /\ pushes' = [q \in Pushers |-> IF q = p THEN next ELSE pushes[q]]
  BY DEF Identified, ResolveInv, HasFields
<1>4. /\ HasFields(next, PushFields)
      /\ next.phase = outcome /\ next.wire = push.wire /\ next.bases = push.bases
      /\ next.ready = push.ready /\ next.flying = push.flying
      /\ next.waiting = push.waiting /\ next.got = push.got
  BY <1>1 DEF HasFields, PushFields
<1> HIDE DEF next
<1>5. Sent(next) = Sent(push) /\ Begun(next) = Begun(push)
  BY <1>4 DEF Sent, Begun
<1>6. Flow(next)
  BY <1>2, <1>4, <1>5 DEF Flow
<1>7. PushOk(next)
  <2>1. CASE push.got = Sent(push)
    BY <2>1, <1>4 DEF PushOk
  <2>2. CASE push.got # Sent(push)
    <3>1. next.phase = "invalid" /\ next.got # Sent(next) /\ next.got \subseteq Sent(next)
      BY <2>2, <1>2, <1>4, <1>5 DEF Begun
    <3> QED  BY <3>1, <1>2, <1>3, <1>4, <1>6 DEF PushOk
  <2> QED  BY <2>1, <2>2
<1> QED  BY <1>3, <1>7, OneMoves

\* A push that is past identification.
LEMMA PastIsOk ==
    ASSUME NEW push, HasFields(push, PushFields), push.phase \notin {"scanned", "resolving", "invalid"}
    PROVE  PushOk(push)
BY DEF PushOk

LEMMA PlanPushKeeps ==
    ASSUME ResolveInv, NEW p \in Pushers, PlanPush(p)
    PROVE  ResolveInv'
<1>1. HasFields(pushes[p], PushFields)
  BY Busy DEF PlanPush
<1>2. PICK plan : pushes' = [pushes EXCEPT ![p].phase = "planned", ![p].plan = plan]
  BY DEF PlanPush
<1> DEFINE next == [pushes[p] EXCEPT !.phase = "planned", !.plan = plan]
<1>3. pushes' = [q \in Pushers |-> IF q = p THEN next ELSE pushes[q]]
  BY <1>2 DEF ResolveInv, HasFields
<1>4. HasFields(next, PushFields) /\ next.phase = "planned"
  BY <1>1 DEF HasFields, PushFields
<1> HIDE DEF next
<1> QED  BY <1>3, <1>4, PastIsOk, OneMoves

LEMMA ClassifyKeeps ==
    ASSUME ResolveInv, NEW p \in Pushers, Classify(p)
    PROVE  ResolveInv'
<1>1. HasFields(pushes[p], PushFields)
  BY Busy DEF Classify
<1>2. PICK plan : pushes' = [pushes EXCEPT ![p].phase = "classified", ![p].plan = plan]
  BY Zenon DEF Classify
<1> DEFINE next == [pushes[p] EXCEPT !.phase = "classified", !.plan = plan]
<1>3. pushes' = [q \in Pushers |-> IF q = p THEN next ELSE pushes[q]]
  BY <1>2 DEF ResolveInv, HasFields
<1>4. HasFields(next, PushFields) /\ next.phase = "classified"
  BY <1>1 DEF HasFields, PushFields
<1> HIDE DEF next
<1> QED  BY <1>3, <1>4, PastIsOk, OneMoves

LEMMA BoundChainsKeeps ==
    ASSUME ResolveInv, NEW p \in Pushers, BoundChains(p)
    PROVE  ResolveInv'
<1>1. HasFields(pushes[p], PushFields)
  BY Busy DEF BoundChains
<1>2. PICK plan : pushes' = [pushes EXCEPT ![p].phase = "bounded", ![p].plan = plan]
  BY Zenon DEF BoundChains
<1> DEFINE next == [pushes[p] EXCEPT !.phase = "bounded", !.plan = plan]
<1>3. pushes' = [q \in Pushers |-> IF q = p THEN next ELSE pushes[q]]
  BY <1>2 DEF ResolveInv, HasFields
<1>4. HasFields(next, PushFields) /\ next.phase = "bounded"
  BY <1>1 DEF HasFields, PushFields
<1> HIDE DEF next
<1> QED  BY <1>3, <1>4, PastIsOk, OneMoves

LEMMA MaterialiseKeeps ==
    ASSUME ResolveInv, NEW p \in Pushers, Materialise(p)
    PROVE  ResolveInv'
<1>1. HasFields(pushes[p], PushFields)
  BY Busy DEF Materialise
<1>2. PICK outcome, staged :
         /\ outcome \in {"staged", "failed"}
         /\ \/ pushes' = [pushes EXCEPT ![p].phase = outcome, ![p].staged = staged]
            \/ pushes' = [pushes EXCEPT ![p].phase = outcome]
  <2>1. \/ \E staged : pushes' = [pushes EXCEPT ![p].phase = "staged", ![p].staged = staged]
        \/ pushes' = [pushes EXCEPT ![p].phase = "failed"]
    BY Zenon DEF Materialise
  <2> QED  BY <2>1
<1>3. PICK next :
         /\ pushes' = [q \in Pushers |-> IF q = p THEN next ELSE pushes[q]]
         /\ HasFields(next, PushFields) /\ next.phase = outcome
  <2>1. CASE pushes' = [pushes EXCEPT ![p].phase = outcome, ![p].staged = staged]
    <3> DEFINE next == [pushes[p] EXCEPT !.phase = outcome, !.staged = staged]
    <3>1. pushes' = [q \in Pushers |-> IF q = p THEN next ELSE pushes[q]]
      BY <2>1 DEF ResolveInv, HasFields
    <3>2. HasFields(next, PushFields) /\ next.phase = outcome
      BY <1>1 DEF HasFields, PushFields
    <3> HIDE DEF next
    <3> QED  BY <3>1, <3>2
  <2>2. CASE pushes' = [pushes EXCEPT ![p].phase = outcome]
    <3> DEFINE next == [pushes[p] EXCEPT !.phase = outcome]
    <3>1. pushes' = [q \in Pushers |-> IF q = p THEN next ELSE pushes[q]]
      BY <2>2 DEF ResolveInv, HasFields
    <3>2. HasFields(next, PushFields) /\ next.phase = outcome
      BY <1>1 DEF HasFields, PushFields
    <3> HIDE DEF next
    <3> QED  BY <3>1, <3>2
  <2> QED  BY <1>2, <2>1, <2>2
<1>4. PushOk(next)
  BY <1>2, <1>3, PastIsOk
<1> QED  BY <1>3, <1>4, OneMoves

\* A push that is over.
LEMMA EndedKeeps ==
    ASSUME ResolveInv, NEW p \in Pushers, pushes' = [pushes EXCEPT ![p] = Idle]
    PROVE  ResolveInv'
<1>1. pushes' = [q \in Pushers |-> IF q = p THEN Idle ELSE pushes[q]]
  BY DEF ResolveInv, HasFields
<1>2. PushOk(Idle)
  BY DEF PushOk
<1> QED  BY <1>1, <1>2, OneMoves

LEMMA PromoteKeeps ==
    ASSUME ResolveInv, NEW p \in Pushers, Promote(p)
    PROVE  ResolveInv'
<1>1. HasFields(pushes[p], PushFields)
  BY Busy DEF Promote
<1>2. CASE pushes' = [pushes EXCEPT ![p] = Idle]
  BY <1>2, EndedKeeps
<1>3. CASE pushes' = [pushes EXCEPT ![p].phase = "failed"]
  <2> DEFINE next == [pushes[p] EXCEPT !.phase = "failed"]
  <2>1. pushes' = [q \in Pushers |-> IF q = p THEN next ELSE pushes[q]]
    BY <1>3 DEF ResolveInv, HasFields
  <2>2. HasFields(next, PushFields) /\ next.phase = "failed"
    BY <1>1 DEF HasFields, PushFields
  <2> HIDE DEF next
  <2> QED  BY <2>1, <2>2, PastIsOk, OneMoves
<1> QED  BY <1>2, <1>3, Zenon DEF Promote

LEMMA ResolveStep == ResolveInv /\ [Next]_vars => ResolveInv'
<1> SUFFICES ASSUME ResolveInv, [Next]_vars PROVE ResolveInv'
  OBVIOUS
<1>1. CASE UNCHANGED vars
  BY <1>1, Zenon DEF vars, ResolveInv
<1>2. CASE Next
  <2>1. PICK p \in Pushers :
          Arrive(p) \/ Seed(p) \/ Take(p) \/ Land(p) \/ Identified(p) \/ PlanPush(p) \/ Classify(p)
            \/ BoundChains(p) \/ Materialise(p) \/ Promote(p) \/ Strand(p) \/ Reject(p) \/ Drop(p)
    BY <1>2 DEF Next
  <2>2. CASE Strand(p) \/ Reject(p) \/ Drop(p)
    BY <2>2, EndedKeeps DEF Strand, Reject, Drop
  <2> QED  BY <2>1, <2>2, ArriveKeeps, SeedKeeps, TakeKeeps, LandKeeps, IdentifiedKeeps,
              PlanPushKeeps, ClassifyKeeps, BoundChainsKeeps, MaterialiseKeeps, PromoteKeeps
<1> QED  BY <1>1, <1>2

\* Of the entries that were not identified one hangs off none of the others;
\* its base is not in the pack, or it would have been unblocked.
LEMMA ResolveSays == ResolveInv => ResolveIsComplete
<1> SUFFICES ASSUME ResolveInv, NEW p \in Pushers, pushes[p].phase = "invalid"
             PROVE  \E o \in Sent(pushes[p]) :
                       /\ pushes[p].wire[o].form = "ref"
                       /\ pushes[p].wire[o].base \notin Sent(pushes[p]) \union pushes[p].bases
  BY DEF ResolveIsComplete
<1> DEFINE push == pushes[p]
           rest == Sent(push) \ push.got
<1>1. /\ WireOk(push.wire) /\ Flow(push)
      /\ push.ready = {} /\ push.flying = {} /\ push.got # Sent(push) /\ push.got \subseteq Sent(push)
  BY DEF ResolveInv, PushOk, Idle
<1>2. Begun(push) = push.got
  BY <1>1 DEF Begun
<1>3. rest # {} /\ rest \in SUBSET {o \in DOMAIN push.wire : push.wire[o].form # "whole"}
  BY <1>1, <1>2 DEF Flow, Sent
<1>4. PICK o \in rest : push.wire[o].base \notin rest
  BY <1>1, <1>3 DEF WireOk
<1>5. CASE push.wire[o].form = "ofs"
  <2>1. push.wire[o].base \in push.got
    BY <1>1, <1>4, <1>5 DEF WireOk, Sent
  <2> QED  BY <2>1, <1>1, <1>2, <1>4, <1>5 DEF Flow
<1>6. CASE push.wire[o].form = "ref"
  <2>1. o \in push.waiting /\ push.wire[o].base \notin push.bases
    BY <1>1, <1>2, <1>4, <1>6 DEF Flow
  <2>2. push.wire[o].base \notin push.got
    BY <2>1, <1>1 DEF Flow
  <2> QED  BY <2>1, <2>2, <1>4, <1>6
<1>7. push.wire[o].form \in {"ofs", "ref"}
  BY <1>1, <1>3 DEF WireOk, Sent
<1> QED  BY <1>5, <1>6, <1>7

\* A pack is refused only for a base that nobody has: whatever the order in
\* which the pool of drain (resolve.rs) takes and lands its entries, and
\* whatever other pushes record meanwhile.
THEOREM ResolutionIsComplete == Spec => []ResolveIsComplete
<1>1. Spec => []ResolveInv
  BY ResolveBegins, ResolveStep, PTL DEF Spec
<1> QED  BY <1>1, ResolveSays, PTL
=============================================================================
