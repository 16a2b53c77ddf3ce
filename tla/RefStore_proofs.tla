--------------------------- MODULE RefStore_proofs ---------------------------
(***************************************************************************)
(* Proofs about RefStore, for any number of transactions, refs and         *)
(* requests.  The inductive invariant says of every row lock who holds it, *)
(* what the row held and holds, and which updates its holder has still to  *)
(* apply.                                                                  *)
(***************************************************************************)
EXTENDS RefStore, SequenceTheorems, TLAPS

\* The committed row under a lock is the one the holder compared against,
\* and only an open transaction holds a lock.
HeldRows ==
    \A t \in Txns, r \in Refs :
       lock[r] = t => pc[t] = "open" /\ table[r] = base[t][r]

\* What an open transaction will write to a branch is a numbered commit.
HeldWrites ==
    \A t \in Txns, r \in Branches :
       lock[r] = t /\ write[t][r] # Null => write[t][r] \in numbered

\* No update still to be applied has a name before a row already held.
HeldBefore ==
    \A t \in Txns, r \in Refs : lock[r] = t =>
       \A i \in DOMAIN req[t] : answer[t][i] = "pending" => r <= req[t][i].ref

\* A held row was where one update of the request expected it, and will be
\* where one asked for it.
HeldAsAsked ==
    \A t \in Txns, r \in Refs : lock[r] = t =>
       \E i, j \in DOMAIN req[t] :
         /\ req[t][i].ref = r /\ Abstract!Expects(req[t][i], base[t][r])
         /\ req[t][j].ref = r /\ req[t][j].new = write[t][r]

\* A compare-and-set that was granted holds its row until the end.
GrantedIsHeld ==
    \A t \in Txns : pc[t] = "open" =>
       \A i \in DOMAIN req[t] :
          answer[t][i] = "ok" /\ IsGuarded(req[t][i]) => lock[req[t][i].ref] = t

\* Every transaction that was opened has a request.
OpenHasRequest == \A t \in Txns : pc[t] = "open" => req[t] \in Requests

IInv ==
    /\ TypeOK
    /\ OpenHasRequest
    /\ GrantedIsHeld
    /\ HeldRows
    /\ HeldWrites
    /\ HeldBefore
    /\ HeldAsAsked
    /\ BranchesNumbered

-----------------------------------------------------------------------------
(* Lemmas about one statement.                                             *)

\* Answering an update leaves one answer per update.
LEMMA AnswerKeepsType ==
    ASSUME TypeOK, NEW t \in Txns, NEW i \in DOMAIN req[t], NEW a \in Answers,
           Answer(t, i, a)
    PROVE  /\ answer' \in [Txns -> Seq(Answers)]
           /\ \A s \in Txns : DOMAIN (answer[s]') = DOMAIN req[s]
           /\ \A s \in Txns : \A j \in DOMAIN req[s] :
                answer'[s][j] = IF s = t /\ j = i THEN a ELSE answer[s][j]
<1>1. /\ answer[t] \in Seq(Answers)
      /\ i \in 1 .. Len(answer[t])
  BY DEF TypeOK
<1>2. [answer[t] EXCEPT ![i] = a] \in Seq(Answers)
  BY <1>1, ExceptSeq
<1>3. answer' = [answer EXCEPT ![t] = [answer[t] EXCEPT ![i] = a]]
  BY DEF Answer, TypeOK
<1> QED
  BY <1>1, <1>2, <1>3 DEF TypeOK

\* An update that may be next is one of an open request's updates, which
\* are updates of known refs.
LEMMA NextIsAnUpdate ==
    ASSUME TypeOK, NEW t \in Txns, NEW i \in DOMAIN req[t]
    PROVE  req[t][i] \in Update
<1>1. req[t] \in Seq(Update)
  BY RequestsAreUpdates DEF TypeOK
<1> QED
  BY <1>1

\* A row condition that holds of a value is an expectation of that value.
LEMMA MatchIsExpected ==
    ASSUME NEW u \in Update, NEW v \in Values, RowMatches(u, v)
    PROVE  Abstract!Expects(u, v)
  BY DEF RowMatches, IsDelete, IsCreate, Abstract!Expects

\* A statement only takes a row that nobody else has changed.
LEMMA HitIsUnlocked ==
    ASSUME TypeOK, NEW t \in Txns, NEW i \in DOMAIN req[t], Hit(t, i)
    PROVE  lock[req[t][i].ref] \in {t, Free}
<1> DEFINE u == req[t][i]
<1>1. u \in Update
  BY NextIsAnUpdate
<1>2. SUFFICES ASSUME lock[u.ref] \notin {t, Free} PROVE FALSE
  OBVIOUS
<1>3. RowMatches(u, table[u.ref]) /\ (IsDelete(u) \/ CommitExists(u))
  BY <1>2 DEF Hit, Seen
<1>4. MustWait(t, u)
  BY <1>2, <1>3 DEF MustWait
<1> QED
  BY <1>4 DEF Hit

-----------------------------------------------------------------------------
(* One lemma per kind of step.                                             *)

\* A transaction that begins holds nothing and has been granted nothing.
LEMMA BeginKeepsInv ==
    ASSUME IInv, NEW t \in Txns, NEW q \in Requests, Begin(t, q)
    PROVE  IInv'
<1> USE DEF IInv
<1>1. q \in Seq(Update)
  BY RequestsAreUpdates
<1>2. [i \in DOMAIN q |-> "pending"] \in Seq(Answers)
  <2>1. DOMAIN q = 1 .. Len(q) /\ Len(q) \in Nat
    BY <1>1
  <2>2. [i \in 1 .. Len(q) |-> "pending"] \in Seq(Answers)
    BY <2>1, IsASeq DEF Answers
  <2> QED
    BY <2>1, <2>2
<1>3. \A r \in Refs : lock[r] # t
  BY DEF Begin, HeldRows
<1>4. TypeOK'
  BY <1>2 DEF Begin, TypeOK
<1>5. \A s \in Txns : s # t => req'[s] = req[s] /\ answer'[s] = answer[s]
  BY DEF Begin, TypeOK
<1>6. HeldRows'
  BY <1>3 DEF Begin, HeldRows, TypeOK
<1>7. HeldWrites' /\ BranchesNumbered'
  BY DEF Begin, HeldWrites, BranchesNumbered
<1>8. HeldBefore'
  BY <1>3, <1>5 DEF Begin, HeldBefore, TypeOK
<1>9. HeldAsAsked'
  BY <1>3, <1>5 DEF Begin, HeldAsAsked, TypeOK, Abstract!Expects
<1>10. OpenHasRequest'
  BY DEF Begin, OpenHasRequest, TypeOK
<1>11. GrantedIsHeld'
  <2>1. \A i \in DOMAIN (req[t]') : answer'[t][i] = "pending"
    BY DEF Begin, TypeOK
  <2> QED
    BY <1>5, <2>1 DEF Begin, GrantedIsHeld, TypeOK
<1> QED
  BY <1>4, <1>6, <1>7, <1>8, <1>9, <1>10, <1>11

\* Refuse, Miss and Infer: a step that only answers an update.
LEMMA AnswerKeepsInv ==
    ASSUME IInv, NEW t \in Txns, NEW i \in DOMAIN req[t],
           NEW a \in Answers, a # "pending", a = "ok" => ~IsGuarded(req[t][i]),
           Answer(t, i, a),
           UNCHANGED <<table, numbered, lock, base, write, req, pc>>
    PROVE  IInv'
<1> USE DEF IInv
<1>1. TypeOK'
  BY AnswerKeepsType DEF TypeOK
<1>2. HeldRows' /\ HeldWrites' /\ BranchesNumbered' /\ OpenHasRequest'
  BY DEF HeldRows, HeldWrites, BranchesNumbered, OpenHasRequest
<1>3. HeldBefore'
  BY AnswerKeepsType DEF HeldBefore
<1>4. HeldAsAsked'
  BY DEF HeldAsAsked, Abstract!Expects
<1>5. GrantedIsHeld'
  BY AnswerKeepsType DEF GrantedIsHeld, IsGuarded
<1> QED
  BY <1>1, <1>2, <1>3, <1>4, <1>5

\* A statement that affects its row takes a row nobody else has.
LEMMA HitKeepsInv ==
    ASSUME IInv, NEW t \in Txns, NEW i \in DOMAIN req[t], Hit(t, i)
    PROVE  IInv'
<1> DEFINE u == req[t][i]
<1> USE DEF IInv
<1>1. /\ u \in Update
      /\ u.ref \in Refs /\ u.new \in Values
      /\ lock[u.ref] \in {t, Free}
  BY NextIsAnUpdate, HitIsUnlocked DEF Update
<1>2. /\ lock' = [lock EXCEPT ![u.ref] = t]
      /\ base' = IF lock[u.ref] = t THEN base
                 ELSE [base EXCEPT ![t][u.ref] = table[u.ref]]
      /\ write' = [write EXCEPT ![t][u.ref] = u.new]
      /\ Answer(t, i, "ok")
      /\ UNCHANGED <<table, numbered, req, pc>>
  BY DEF Hit
<1>3. "ok" \in Answers
  BY DEF Answers
<1>4. TypeOK'
  BY <1>1, <1>2, <1>3, AnswerKeepsType DEF TypeOK
<1>5. HeldRows' /\ OpenHasRequest'
  BY <1>1, <1>2 DEF HeldRows, OpenHasRequest, Hit, IsNext, TypeOK
<1>6. HeldWrites' /\ BranchesNumbered'
  <2>1. u.new # Null /\ u.ref \in Branches => u.new \in numbered
    BY DEF Hit, IsDelete, CommitExists
  <2>2. HeldWrites'
    BY <1>1, <1>2, <2>1, BranchesAreRefs DEF HeldWrites, TypeOK
  <2> QED
    BY <1>2, <2>2 DEF BranchesNumbered
<1>7. HeldBefore'
  <2>1. \A j \in DOMAIN req[t] : answer[t][j] = "pending" => u.ref <= req[t][j].ref
    BY <1>1, NextIsAnUpdate, RefsAreOrdered DEF Hit, IsNext, Update
  <2>2. \A s \in Txns : \A j \in DOMAIN req[s] :
           answer'[s][j] = "pending" => answer[s][j] = "pending"
    BY <1>2, <1>3, AnswerKeepsType
  <2> QED
    BY <1>1, <1>2, <2>1, <2>2 DEF HeldBefore, TypeOK
<1>8. HeldAsAsked'
  <2> SUFFICES ASSUME NEW s \in Txns, NEW r \in Refs, lock'[r] = s
               PROVE  \E k, j \in DOMAIN req[s] :
                        /\ req[s][k].ref = r /\ Abstract!Expects(req[s][k], base'[s][r])
                        /\ req[s][j].ref = r /\ req[s][j].new = write'[s][r]
    BY <1>2 DEF HeldAsAsked, Abstract!Expects
  <2>1. CASE s = t /\ r = u.ref /\ lock[r] = t
    <3>1. PICK k \in DOMAIN req[t] :
             req[t][k].ref = r /\ Abstract!Expects(req[t][k], base[t][r])
      BY <2>1 DEF HeldAsAsked
    <3> QED
      BY <1>1, <1>2, <2>1, <3>1 DEF TypeOK
  <2>2. CASE s = t /\ r = u.ref /\ lock[r] # t
    <3>1. table[r] \in Values /\ base'[t][r] = table[r] /\ Seen(t, r) = table[r]
      BY <1>1, <1>2, <2>2 DEF TypeOK, Seen
    <3>2. Abstract!Expects(u, base'[t][r])
      BY <1>1, <2>2, <3>1, MatchIsExpected DEF Hit
    <3> QED
      BY <1>1, <1>2, <2>2, <3>2 DEF TypeOK
  <2>3. CASE ~(s = t /\ r = u.ref)
    <3>1. lock[r] = s /\ base'[s][r] = base[s][r] /\ write'[s][r] = write[s][r]
      BY <1>1, <1>2, <2>3, FreeIsNoTxn DEF TypeOK
    <3> QED
      BY <1>2, <3>1 DEF HeldAsAsked
  <2> QED
    BY <2>1, <2>2, <2>3
<1>9. GrantedIsHeld'
  <2>1. \A s \in Txns : \A j \in DOMAIN req[s] :
           (s = t /\ j = i) \/ answer'[s][j] = answer[s][j]
    BY <1>2, <1>3, AnswerKeepsType
  <2>2. \A r \in Refs : lock[r] \in Txns => lock'[r] = lock[r]
    BY <1>1, <1>2, FreeIsNoTxn DEF TypeOK
  <2>3. lock'[u.ref] = t
    BY <1>1, <1>2 DEF TypeOK
  <2>4. \A s \in Txns : \A j \in DOMAIN req[s] : req[s][j].ref \in Refs
    BY NextIsAnUpdate DEF Update
  <2> QED
    BY <1>2, <2>1, <2>2, <2>3, <2>4 DEF GrantedIsHeld, IsGuarded
<1> QED
  BY <1>4, <1>5, <1>6, <1>7, <1>8, <1>9

\* A transaction that ends gives back what it holds and no more; one that
\* commits puts numbered commits on branches.
LEMMA EndKeepsInv ==
    ASSUME IInv, NEW t \in Txns, Commit(t) \/ Fail(t)
    PROVE  IInv'
<1> USE DEF IInv
<1>1. /\ \A r \in Refs : lock'[r] = IF lock[r] = t THEN Free ELSE lock[r]
      /\ \A s \in Txns : s # t => pc'[s] = pc[s]
      /\ UNCHANGED <<numbered, base, write, req, answer>>
  BY DEF Commit, Fail, Release, TypeOK
<1>2. \A r \in Refs :
        table'[r] = table[r] \/ (lock[r] = t /\ table'[r] = write[t][r])
  BY DEF Commit, Fail, Seen
<1>3. TypeOK'
  <2>1. lock' \in [Refs -> Txns \union {Free}]
    BY DEF Commit, Fail, Release, TypeOK
  <2>2. table' \in [Refs -> Values]
    BY DEF Commit, Fail, Seen, TypeOK
  <2>3. pc' \in [Txns -> {"idle", "open", "done", "failed"}]
    BY DEF Commit, Fail, TypeOK
  <2> QED
    BY <1>1, <2>1, <2>2, <2>3 DEF TypeOK
<1>4. HeldRows'
  BY <1>1, <1>2, FreeIsNoTxn DEF HeldRows, TypeOK
<1>5. HeldWrites' /\ HeldBefore'
  BY <1>1, BranchesAreRefs, FreeIsNoTxn DEF HeldWrites, HeldBefore
<1>6. HeldAsAsked'
  BY <1>1, FreeIsNoTxn DEF HeldAsAsked, Abstract!Expects
<1>7. BranchesNumbered'
  BY <1>1, <1>2, BranchesAreRefs DEF BranchesNumbered, HeldWrites
<1>8. OpenHasRequest'
  BY <1>1 DEF Commit, Fail, OpenHasRequest, TypeOK
<1>9. GrantedIsHeld'
  <2>1. \A s \in Txns : \A j \in DOMAIN req[s] : req[s][j].ref \in Refs
    BY NextIsAnUpdate DEF Update
  <2>2. pc'[t] # "open"
    BY DEF Commit, Fail, TypeOK
  <2> QED
    BY <1>1, <2>1, <2>2 DEF GrantedIsHeld, IsGuarded
<1> QED
  BY <1>3, <1>4, <1>5, <1>6, <1>7, <1>8, <1>9

\* Handing out a number touches no row and no lock.
LEMMA NumberKeepsInv ==
    ASSUME IInv, NEW o \in Oids, Number(o)
    PROVE  IInv'
  BY DEF IInv, Number, TypeOK, OpenHasRequest, GrantedIsHeld, IsGuarded, HeldRows, HeldWrites,
         HeldBefore, HeldAsAsked, BranchesNumbered, Abstract!Expects

-----------------------------------------------------------------------------
(* Theorems.                                                               *)

\* At the start nobody holds a row and every row is empty.
LEMMA InitImpliesInv == Init => IInv
<1> SUFFICES ASSUME Init PROVE IInv
  OBVIOUS
<1>1. <<>> \in Seq(Answers)
  OBVIOUS
<1>2. TypeOK
  BY <1>1 DEF Init, TypeOK, Values
<1> QED
  BY <1>2, FreeIsNoTxn, BranchesAreRefs
  DEF Init, IInv, OpenHasRequest, GrantedIsHeld, HeldRows, HeldWrites, HeldBefore, HeldAsAsked,
      BranchesNumbered

\* Every step of Next, and a stutter, keeps the invariant.
LEMMA NextKeepsInv == IInv /\ [Next]_vars => IInv'
<1> SUFFICES ASSUME IInv, [Next]_vars PROVE IInv'
  OBVIOUS
<1>1. ASSUME NEW t \in Txns, NEW q \in Requests, Begin(t, q) PROVE IInv'
  BY <1>1, BeginKeepsInv
<1>2. ASSUME NEW t \in Txns, NEW i \in DOMAIN req[t],
             Refuse(t, i) \/ Miss(t, i) \/ Infer(t, i)
      PROVE  IInv'
  <2>1. PICK a \in Answers \ {"pending"} :
          /\ Answer(t, i, a)
          /\ a = "ok" => ~IsGuarded(req[t][i])
          /\ UNCHANGED <<table, numbered, lock, base, write, req, pc>>
    BY <1>2 DEF Refuse, Miss, Infer, Answers, IsDelete, IsGuarded
  <2> QED
    BY <2>1, AnswerKeepsInv
<1>3. ASSUME NEW t \in Txns, NEW i \in DOMAIN req[t], Hit(t, i) PROVE IInv'
  BY <1>3, HitKeepsInv
<1>4. ASSUME NEW t \in Txns, Commit(t) \/ Fail(t) PROVE IInv'
  BY <1>4, EndKeepsInv
<1>5. ASSUME NEW o \in Oids, Number(o) PROVE IInv'
  BY <1>5, NumberKeepsInv
<1>6. CASE UNCHANGED vars
  BY <1>6 DEF vars, IInv, TypeOK, OpenHasRequest, GrantedIsHeld, IsGuarded, HeldRows, HeldWrites, HeldBefore,
              HeldAsAsked, BranchesNumbered, Abstract!Expects
<1> QED
  BY <1>1, <1>2, <1>3, <1>4, <1>5, <1>6 DEF Next, Step

\* In every behaviour of the ref store the variables keep their types and
\* every row lock is accounted for (refs.rs update_refs).
THEOREM InductiveInvariant == Spec => []IInv
  BY InitImpliesInv, NextKeepsInv, PTL DEF Spec

\* Every transaction has one answer per update, rows hold ids, and only
\* known transactions hold locks.
THEOREM TypeCorrect == Spec => []TypeOK
<1>1. IInv => TypeOK
  BY DEF IInv
<1> QED
  BY <1>1, InductiveInvariant, PTL

\* However many transactions interleave, a granted compare-and-set replaces
\* the very row it compared against (refs.rs apply_ref_update).
THEOREM LostUpdateFree == Spec => []NoLostUpdate
<1>1. ASSUME IInv PROVE NoLostUpdate
  <2>1. \A t \in Txns : \A i \in DOMAIN req[t] : req[t][i].ref \in Refs
    BY <1>1, NextIsAnUpdate DEF IInv, Update
  <2> QED
    BY <1>1, <2>1 DEF IInv, HeldRows, GrantedIsHeld, NoLostUpdate
<1> QED
  BY <1>1, InductiveInvariant, PTL

\* No interleaving of pushes and ref updates leaves a branch on an id that
\* was never numbered (refs.rs apply_branch_update).
THEOREM BranchesAlwaysNumbered == Spec => []BranchesNumbered
<1>1. IInv => BranchesNumbered
  BY DEF IInv
<1> QED
  BY <1>1, InductiveInvariant, PTL

\* A transaction waits only for rows named after every row it holds, which
\* is what rules out a circle of waiting transactions (refs.rs:97-98).
THEOREM LockOrder == Spec => []LocksInNameOrder
<1>1. ASSUME IInv PROVE LocksInNameOrder
  <2> SUFFICES ASSUME NEW t \in Txns, NEW q \in Refs, NEW r \in Refs,
                      lock[q] = t, WaitsFor(t, r)
               PROVE  q < r
    BY DEF LocksInNameOrder
  <2>1. PICK i \in DOMAIN req[t] :
          answer[t][i] = "pending" /\ req[t][i].ref = r /\ lock[r] # t
    BY DEF WaitsFor, IsNext, MustWait
  <2>2. q <= r /\ q # r
    BY <1>1, <2>1 DEF IInv, HeldBefore
  <2>3. q \in Nat /\ r \in Nat
    BY RefsAreOrdered
  <2> QED
    BY <2>2, <2>3
<1> QED
  BY <1>1, InductiveInvariant, PTL

\* The transactions implement the compare-and-set table of RefCas: whatever
\* the interleaving, a commit changes each row as one update of its request
\* asked, from where one expected it, and every other step changes no row.
THEOREM ImplementsRefCas == Spec => Refinement
<1>1. Init => Abstract!Init
  BY DEF Init, Abstract!Init
<1>2. IInv /\ [Next]_vars => [Abstract!Next]_<<table, numbered>>
  <2> SUFFICES ASSUME IInv, [Next]_vars
               PROVE  [Abstract!Next]_<<table, numbered>>
    OBVIOUS
  <2>1. ASSUME NEW t \in Txns, Commit(t) PROVE Abstract!Land
    <3>1. /\ UNCHANGED numbered
          /\ table' \in [Refs -> Abstract!Values]
      BY <2>1 DEF IInv, Commit, Seen, TypeOK, Abstract!Values, Values
    <3>2. ASSUME NEW r \in Refs, table'[r] # table[r]
          PROVE  \E i, j \in DOMAIN req[t] :
                   /\ req[t][i].ref = r /\ Abstract!Expects(req[t][i], table[r])
                   /\ req[t][j].ref = r /\ req[t][j].new = table'[r]
                   /\ Abstract!Admissible(req[t][j])
      <4>1. lock[r] = t /\ table'[r] = write[t][r] /\ table[r] = base[t][r]
        BY <2>1, <3>2 DEF IInv, Commit, Seen, HeldRows
      <4>2. PICK i, j \in DOMAIN req[t] :
              /\ req[t][i].ref = r /\ Abstract!Expects(req[t][i], base[t][r])
              /\ req[t][j].ref = r /\ req[t][j].new = write[t][r]
        BY <4>1 DEF IInv, HeldAsAsked
      <4>3. Abstract!Admissible(req[t][j])
        BY <4>1, <4>2 DEF IInv, HeldWrites, Abstract!Admissible
      <4> QED
        BY <4>1, <4>2, <4>3
    <3>3. req[t] \in Requests
      BY <2>1 DEF IInv, OpenHasRequest, Commit
    <3> QED
      BY <3>1, <3>2, <3>3 DEF Abstract!Land
  <2>2. ASSUME NEW o \in Oids, Number(o) PROVE Abstract!Number
    BY <2>2 DEF Number, Abstract!Number, IInv, TypeOK
  <2>3. ASSUME NEW t \in Txns, NEW q \in Requests, Begin(t, q)
        PROVE  UNCHANGED <<table, numbered>>
    BY <2>3 DEF Begin
  <2>4. ASSUME NEW t \in Txns, NEW i \in DOMAIN req[t],
               Refuse(t, i) \/ Hit(t, i) \/ Miss(t, i) \/ Infer(t, i)
        PROVE  UNCHANGED <<table, numbered>>
    BY <2>4 DEF Refuse, Hit, Miss, Infer
  <2>5. ASSUME NEW t \in Txns, Fail(t) PROVE UNCHANGED <<table, numbered>>
    BY <2>5 DEF Fail
  <2>6. CASE UNCHANGED vars
    BY <2>6 DEF vars
  <2> QED
    BY <2>1, <2>2, <2>3, <2>4, <2>5, <2>6 DEF Next, Step, Abstract!Next
<1> QED
  BY <1>1, <1>2, InductiveInvariant, PTL DEF Spec, Refinement, Abstract!Spec

=============================================================================
