------------------------------ MODULE RefStore ------------------------------
(***************************************************************************)
(* The Postgres ref store: concurrent update_refs transactions over the    *)
(* branches and refs tables (server/postgres/src/refs.rs).                 *)
(*                                                                         *)
(* One transaction applies a whole request, one statement per update, in   *)
(* refname order, and holds the row lock of every row it changed until it  *)
(* commits.  Statements run at READ COMMITTED: each sees what had been     *)
(* committed when it started, and its own writes.  A statement whose WHERE *)
(* clause does not match affects no row, takes no lock and waits for       *)
(* nobody; one that matches a row another transaction has changed waits    *)
(* for that transaction and looks again.                                   *)
(***************************************************************************)
EXTENDS Naturals, Sequences, FiniteSets

CONSTANTS
    Txns,       \* callers of update_refs, one transaction each
    Refs,       \* refnames; naturals, so that they have the order of names
    Branches,   \* the refnames under refs/heads/ (table branches)
    Oids,       \* object ids
    Invalid,    \* refnames is_funny_refname refuses, HEAD among them
    Shallow,    \* refnames it refuses unless they are deleted, as refs/foo
    Null,       \* ObjectId::null: no such ref
    Free,       \* the lock of a row nobody has changed
    Requests    \* the update lists a caller may send

Values == Oids \union {Null}
Update == [ref : Refs, old : Values, new : Values]

ASSUME RefsAreOrdered == Refs \subseteq Nat
ASSUME BranchesAreRefs == Branches \subseteq Refs
ASSUME NullIsNoOid == Null \notin Oids
ASSUME FreeIsNoTxn == Free \notin Txns
\* update_refs answers an empty request without opening a transaction.
ASSUME RequestsAreUpdates == Requests \subseteq Seq(Update) \ {<<>>}

\* "pending" and "failed" are not answers: one is not yet given, the other
\* is the error the whole call returns.
Answers == {"pending", "infer", "ok", "non-fast-forward", "already exists",
            "unknown commit", "invalid refname"}

VARIABLES
    table,      \* committed rows: refname -> oid, Null for no row
    numbered,   \* oids with a committed commit row in object_seqs
    lock,       \* refname -> transaction that has changed its row, or Free
    base,       \* per transaction: what each row held when it took the lock
    write,      \* per transaction: what each row it has locked will hold
    req,        \* per transaction: the request, <<>> before it begins
    answer,     \* per transaction: one answer per update, in request order
    pc          \* per transaction: "idle", "open", "done" or "failed"

vars == <<table, numbered, lock, base, write, req, answer, pc>>

TypeOK ==
    /\ table \in [Refs -> Values]
    /\ numbered \in SUBSET Oids
    /\ lock \in [Refs -> Txns \union {Free}]
    /\ base \in [Txns -> [Refs -> Values]]
    /\ write \in [Txns -> [Refs -> Values]]
    /\ req \in [Txns -> Requests \union {<<>>}]
    /\ pc \in [Txns -> {"idle", "open", "done", "failed"}]
    /\ answer \in [Txns -> Seq(Answers)]
    /\ \A t \in Txns : DOMAIN answer[t] = DOMAIN req[t]

Init ==
    /\ table = [r \in Refs |-> Null]
    /\ numbered = {}
    /\ lock = [r \in Refs |-> Free]
    /\ base = [t \in Txns |-> [r \in Refs |-> Null]]
    /\ write = [t \in Txns |-> [r \in Refs |-> Null]]
    /\ req = [t \in Txns |-> <<>>]
    /\ answer = [t \in Txns |-> <<>>]
    /\ pc = [t \in Txns |-> "idle"]

-----------------------------------------------------------------------------
(* One statement.                                                          *)

\* Whether the name is refused before any statement runs.
Funny(u) == u.ref \in Invalid \/ (u.ref \in Shallow /\ u.new # Null)

\* What transaction t sees in the row of r.
Seen(t, r) == IF lock[r] = t THEN write[t][r] ELSE table[r]

IsDelete(u) == u.new = Null
IsCreate(u) == u.new # Null /\ u.old = Null

\* Mutant: the EXISTS clause is left out of the branch statements.
CommitExistsUnchecked(u) == TRUE

\* The branch-only condition: new_id has a commit row in object_seqs.
CommitExists(u) == u.ref \in Branches => u.new \in numbered

\* Mutant: a move that is not guarded by the id its sender saw.
RowMatchesAnyOld(u, value) ==
    IF IsDelete(u) THEN value # Null ELSE (value = Null) = IsCreate(u)

\* The row condition of the statement's WHERE (or ON CONFLICT) clause.
RowMatches(u, value) ==
    IF IsDelete(u) THEN value # Null /\ (u.old = Null \/ u.old = value)
    ELSE IF IsCreate(u) THEN value = Null
    ELSE u.old = value

\* Mutant: a check and a write with nothing locked between them.
MustWaitNever(t, u) == FALSE

\* Another transaction has changed the row and the statement needs to know
\* how that ends: an update or a delete whose clause matches the committed
\* row, or an insert whatever the row, since the unique index is what it
\* would collide with.
MustWait(t, u) ==
    /\ lock[u.ref] \notin {t, Free}
    /\ IF IsDelete(u) THEN RowMatches(u, table[u.ref])
       ELSE CommitExists(u) /\ (IsCreate(u) \/ RowMatches(u, table[u.ref]))

\* Mutant: updates are applied in the order of the request.
IsNextAsSent(t, i) ==
    /\ pc[t] = "open"
    /\ i \in DOMAIN req[t]
    /\ answer[t][i] = "pending"
    /\ \A j \in DOMAIN req[t] : answer[t][j] = "pending" => i <= j
    /\ \A j \in DOMAIN req[t] : answer[t][j] # "infer"

\* Updates are applied in refname order, and those of one ref in the order
\* they were asked for: `ordered` is a stable sort by refname.
IsNext(t, i) ==
    /\ pc[t] = "open"
    /\ i \in DOMAIN req[t]
    /\ answer[t][i] = "pending"
    /\ \A j \in DOMAIN req[t] :
         answer[t][j] = "pending" =>
           \/ req[t][i].ref < req[t][j].ref
           \/ req[t][i].ref = req[t][j].ref /\ i <= j
    /\ \A j \in DOMAIN req[t] : answer[t][j] # "infer"

Answer(t, i, a) == answer' = [answer EXCEPT ![t][i] = a]

-----------------------------------------------------------------------------
(* Actions.                                                                *)

\* pool.begin: a caller sends its request.
Begin(t, q) ==
    /\ pc[t] = "idle"
    /\ req' = [req EXCEPT ![t] = q]
    /\ answer' = [answer EXCEPT ![t] = [i \in DOMAIN q |-> "pending"]]
    /\ pc' = [pc EXCEPT ![t] = "open"]
    /\ UNCHANGED <<table, numbered, lock, base, write>>

\* A refname that is no refname is answered without a statement, for every
\* caller.
Refuse(t, i) ==
    /\ IsNext(t, i)
    /\ Funny(req[t][i])
    /\ Answer(t, i, "invalid refname")
    /\ UNCHANGED <<table, numbered, lock, base, write, req, pc>>

\* A statement that affects its row: it takes the lock and keeps it.
Hit(t, i) ==
    LET u == req[t][i] IN
    /\ IsNext(t, i)
    /\ ~Funny(u) /\ ~MustWait(t, u)
    /\ RowMatches(u, Seen(t, u.ref))
    /\ IsDelete(u) \/ CommitExists(u)
    /\ lock' = [lock EXCEPT ![u.ref] = t]
    /\ base' = IF lock[u.ref] = t THEN base
               ELSE [base EXCEPT ![t][u.ref] = table[u.ref]]
    /\ write' = [write EXCEPT ![t][u.ref] = u.new]
    /\ Answer(t, i, "ok")
    /\ UNCHANGED <<table, numbered, req, pc>>

\* A statement that affects nothing.  An unguarded delete of a missing ref
\* is a no-op; any other delete, and a move of a ref that is not a branch,
\* is answered non-fast-forward, a create that collides already exists.  A
\* refused branch update reads once more to tell its two reasons apart.
Miss(t, i) ==
    LET u == req[t][i] IN
    /\ IsNext(t, i)
    /\ ~Funny(u) /\ ~MustWait(t, u)
    /\ ~(RowMatches(u, Seen(t, u.ref)) /\ (IsDelete(u) \/ CommitExists(u)))
    /\ Answer(t, i,
         IF IsDelete(u)
           THEN IF u.old = Null THEN "ok" ELSE "non-fast-forward"
         ELSE IF u.ref \in Branches THEN "infer"
         ELSE IF IsCreate(u) THEN "already exists" ELSE "non-fast-forward")
    /\ UNCHANGED <<table, numbered, lock, base, write, req, pc>>

\* The second read of a refused branch update, a statement of its own, so
\* others may have committed since the first.
Infer(t, i) ==
    LET u == req[t][i] IN
    /\ pc[t] = "open"
    /\ i \in DOMAIN req[t]
    /\ answer[t][i] = "infer"
    /\ Answer(t, i,
         IF IsCreate(u)
           THEN IF u.new \in numbered THEN "already exists"
                ELSE "unknown commit"
         ELSE IF Seen(t, u.ref) = u.old THEN "unknown commit"
         ELSE "non-fast-forward")
    /\ UNCHANGED <<table, numbered, lock, base, write, req, pc>>

Release(t) == lock' = [r \in Refs |-> IF lock[r] = t THEN Free ELSE lock[r]]

\* tx.commit: every row changed becomes visible at once.
Commit(t) ==
    /\ pc[t] = "open"
    /\ \A i \in DOMAIN req[t] : answer[t][i] \notin {"pending", "infer"}
    /\ table' = [r \in Refs |-> Seen(t, r)]
    /\ Release(t)
    /\ pc' = [pc EXCEPT ![t] = "done"]
    /\ UNCHANGED <<numbered, base, write, req, answer>>

\* The connection or the process goes away: the database rolls back and the
\* caller has an error instead of answers.
Fail(t) ==
    /\ pc[t] = "open"
    /\ Release(t)
    /\ pc' = [pc EXCEPT ![t] = "failed"]
    /\ UNCHANGED <<table, numbered, base, write, req, answer>>

\* A push records the number of a commit (rows.rs record), at any time.
Number(o) ==
    /\ o \notin numbered
    /\ numbered' = numbered \union {o}
    /\ UNCHANGED <<table, lock, base, write, req, answer, pc>>

Step(t) ==
    \/ \E i \in DOMAIN req[t] : Refuse(t, i) \/ Hit(t, i) \/ Miss(t, i) \/ Infer(t, i)
    \/ Commit(t)

Next ==
    \/ \E t \in Txns : (\E q \in Requests : Begin(t, q)) \/ Step(t) \/ Fail(t)
    \/ \E o \in Oids : Number(o)

Spec == Init /\ [][Next]_vars

\* Postgres keeps running the transactions it has: a transaction that can
\* take its next statement does.  Nobody is obliged to call or to fail.
FairSpec == Spec /\ \A t \in Txns : WF_vars(Step(t))

-----------------------------------------------------------------------------
(* Properties.                                                             *)

\* t is waiting for the row of r, which another transaction has changed.
WaitsFor(t, r) ==
    \E i \in DOMAIN req[t] :
       /\ IsNext(t, i) /\ ~Funny(req[t][i])
       /\ req[t][i].ref = r /\ MustWait(t, req[t][i])

\* Not an unguarded delete, which may be granted without touching a row.
IsGuarded(u) == u.old # Null \/ u.new # Null

\* From the moment a compare-and-set is granted until its transaction ends,
\* the committed row stays the one it was compared against: no other request
\* commits in between and is then overwritten unseen (refs.rs update_refs,
\* apply_ref_update).
NoLostUpdate ==
    \A t \in Txns : pc[t] = "open" =>
       \A i \in DOMAIN req[t] :
          answer[t][i] = "ok" /\ IsGuarded(req[t][i]) =>
             table[req[t][i].ref] = base[t][req[t][i].ref]

\* A branch is never seen on an id that was not a numbered commit, however
\* the transactions interleave with pushes (refs.rs apply_branch_update).
BranchesNumbered ==
    \A r \in Branches : table[r] # Null => table[r] \in numbered

\* A transaction only waits for a row whose name follows every row it holds,
\* so no circle of transactions waits for itself: "overlapping pushes always
\* acquire row locks in the same order and can't deadlock" (refs.rs:98).
LocksInNameOrder ==
    \A t \in Txns, q, r \in Refs : lock[q] = t /\ WaitsFor(t, r) => q < r

\* Every transaction that has begun ends: with the row locks taken in name
\* order nobody waits for ever (refs.rs update_refs).
EveryCallReturns == \A t \in Txns : pc[t] = "open" ~> pc[t] \in {"done", "failed"}

\* The transactions implement the plain compare-and-set table.
Abstract == INSTANCE RefCas
Refinement == Abstract!Spec
=============================================================================
