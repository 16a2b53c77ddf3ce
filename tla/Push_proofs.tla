---------------------------- MODULE Push_proofs ----------------------------
(***************************************************************************)
(* Proofs about Push, for any number of pushes and applications, any       *)
(* graph of commits and tags, any finite packs and any number of attempts. *)
(*                                                                         *)
(* The invariant follows a push through its steps.  Numbers: what was read *)
(* is still so, because a number is given once; what was allocated and not *)
(* yet recorded is below the counters, is nobody else's, and is above the  *)
(* parents.  Entries: what a push will record is closed over what is       *)
(* recorded, and stays so however far other pushes get or wherever they    *)
(* crash.  Refs: an update that was neither screened nor rejected names a  *)
(* commit that is recorded by the time the hook is asked.                  *)
(***************************************************************************)
EXTENDS Push, FiniteSetTheorems, TLAPS

\* A counter is above every number of its kind.
NumbersAreTaken == \A o \in Oids : seq[o] < nextSeq[Kind(o)]

\* A number is given once: those read before promotion are still right, and
\* so are those an attempt has read.
ReadsStayTrue ==
    \A p \in Pushes : \A o \in Oids :
        /\ known[p][o] # 0 => seq[o] = known[p][o]
        /\ o \notin here[p] /\ seqOf[p][o] # 0 => seq[o] = seqOf[p][o]

\* A block in flight is below the counters, and nobody has its numbers.
BlocksAreFresh ==
    \A p \in Pushes : pc[p] = "allocated" => \A o \in here[p] :
        /\ seqOf[p][o] \in 1 .. nextSeq[Kind(o)] - 1
        /\ \A x \in Oids : Kind(x) = Kind(o) => seq[x] # seqOf[p][o]

\* Two blocks in flight have no number of a kind in common.
BlocksAreApart ==
    \A p, q \in Pushes : pc[p] = "allocated" /\ pc[q] = "allocated" =>
        \A o \in here[p], x \in here[q] :
            Kind(o) = Kind(x) /\ seqOf[p][o] = seqOf[q][x] => p = q /\ o = x

\* A commit in flight is above its parents, old and new.
BlocksAreTopological ==
    \A p \in Pushes : pc[p] = "allocated" => \A c \in here[p] \intersect Commits :
        \A q \in Deps[c] : seqOf[p][q] \in 1 .. seqOf[p][c] - 1

\* What an attempt gives numbers to comes from its pack.
WithinThePack ==
    \A p \in Pushes :
        /\ connected[p] \union toInsert[p] \union here[p] \subseteq offer[p].pack
        /\ pc[p] = "idle" => connected[p] = {} /\ toInsert[p] = {} /\ here[p] = {}

\* An attempt records what of the connected commits is not recorded, and has
\* a number for each or will give it one.
PlansAreWhole ==
    \A p \in Pushes :
        /\ pc[p] \in {"planned", "allocated", "numbered"} =>
             toInsert[p] \subseteq connected[p] /\ connected[p] \subseteq toInsert[p] \union recorded
        /\ pc[p] \in {"planned", "allocated"} =>
             /\ here[p] \intersect Commits \subseteq toInsert[p]
             /\ \A c \in toInsert[p] : c \in here[p] \/ seqOf[p][c] # 0
        /\ pc[p] = "numbered" => \A c \in toInsert[p] : seq[c] # 0

\* There is an attempt left to make.
AttemptsAreLeft ==
    \A p \in Pushes :
        /\ pc[p] \in {"idle", "received", "checked"} => attempt[p] = 0
        /\ pc[p] = "uploaded" => attempt[p] < MaxAttempts

\* What a push will record is closed over what is recorded.
ConnectedIsClosed ==
    \A p \in Pushes : \A c \in connected[p] : Deps[c] \subseteq connected[p] \union recorded

\* Once a push has appended, all of it is recorded.
AppendedIsRecorded ==
    \A p \in Pushes : pc[p] \in {"appended", "judged", "applied", "done"} =>
        connected[p] \subseteq recorded

\* Screening is over.
Past == {"checked", "uploaded", "planned", "allocated", "numbered", "appended",
         "judged", "applied", "done"}

\* A commit that an update still going names is recorded or will be.
LiveIsStored ==
    \A p \in Pushes : pc[p] \in Past => \A u \in Live(p) :
        u.new \in Commits => u.new \in connected[p] \union recorded

\* Updates land after everything else is decided.
LandsLast ==
    \A p \in Pushes :
        pc[p] \in {"idle", "received", "checked", "uploaded", "planned",
                   "allocated", "numbered", "appended", "judged"} => landed[p] = {}

\* The hook was shown u, and was not told it was a fast-forward unless it is.
Shown(p, u) ==
    \E c \in commands[p] :
        /\ c.update = u
        /\ IsMove(u) /\ ~c.force => u.old \in Reach(u.new, Oids)

\* What the hook has not refused it was shown for what it is.
JudgedIsShown ==
    \A p \in Pushes : pc[p] = "judged" => \A u \in Live(p) : Shown(p, u)

Inv ==
    /\ NumbersAreTaken
    /\ ReadsStayTrue
    /\ BlocksAreFresh
    /\ BlocksAreApart
    /\ BlocksAreTopological
    /\ SeqsAreTopological
    /\ WithinThePack
    /\ PlansAreWhole
    /\ AttemptsAreLeft
    /\ ConnectedIsClosed
    /\ RecordedIsClosed
    /\ AppendedIsRecorded
    /\ LiveIsStored
    /\ LandsLast
    /\ LandedIsServable
    /\ JudgedIsShown
    /\ LandedAsJudged

-----------------------------------------------------------------------------
(* The helpers.                                                            *)

\* The part of TypeOK that the arguments below use.
Kinds ==
    /\ seq \in [Oids -> Nat]
    /\ nextSeq \in [{"commit", "tag"} -> Nat \ {0}]
    /\ recorded \subseteq Commits
    /\ pc \in [Pushes -> Running \union {"idle", "done", "failed", "crashed"}]
    /\ offer \in [Pushes -> [updates : SUBSET Update, pack : SUBSET Oids]]
    /\ \A p \in Pushes : IsFiniteSet(offer[p].pack)
    /\ screened \in [Pushes -> SUBSET Refs]
    /\ rejected \in [Pushes -> SUBSET Refs]
    /\ connected \in [Pushes -> SUBSET Commits]
    /\ known \in [Pushes -> [Oids -> Nat]]
    /\ seqOf \in [Pushes -> [Oids -> Nat]]
    /\ toInsert \in [Pushes -> SUBSET Commits]
    /\ here \in [Pushes -> SUBSET Oids]
    /\ attempt \in [Pushes -> 0 .. MaxAttempts]
    /\ commands \in [Pushes -> SUBSET [update : Update, force : BOOLEAN]]
    /\ landed \in [Pushes -> SUBSET Update]

LEMMA KindFacts ==
    /\ \A o : Kind(o) \in {"commit", "tag"}
    /\ \A c \in Commits : Kind(c) = "commit"
BY DEF Kind

\* The start of a walk is on it.
LEMMA ReachStart == ASSUME NEW o \in Oids, NEW S PROVE o \in Reach(o, S)
BY DEF Reach

\* A walk follows the links of what it may follow.
LEMMA ReachStep ==
    ASSUME NEW o, NEW S, NEW x \in Reach(o, S), x \in S
    PROVE  Deps[x] \subseteq Reach(o, S)
BY DepsAreOids DEF Reach

\* A walk that may follow more links gets at least as far.
LEMMA ReachGrows ==
    ASSUME NEW o, NEW S, NEW R, S \subseteq R
    PROVE  Reach(o, S) \subseteq Reach(o, R)
<1> SUFFICES ASSUME NEW x \in Reach(o, S), NEW T \in SUBSET Oids,
                    o \in T, \A y \in T \intersect R : Deps[y] \subseteq T
             PROVE  x \in T
  BY DEF Reach
<1>1. \A y \in T \intersect S : Deps[y] \subseteq T
  OBVIOUS
<1> QED  BY <1>1 DEF Reach

\* A walk does not leave a set that its links do not leave.
LEMMA ReachStays ==
    ASSUME NEW R \in SUBSET Oids, NEW o \in R, NEW S,
           \A y \in R \intersect S : Deps[y] \subseteq R
    PROVE  Reach(o, S) \subseteq R
BY DEF Reach

-----------------------------------------------------------------------------
(* Each step keeps Inv: first what the step does, then the parts of Inv    *)
(* that it leaves alone, then one by one those that it can disturb.        *)

LEMMA ReceiveKeepsInv ==
    ASSUME Kinds, Inv, NEW p \in Pushes, NEW o \in Offers, Receive(p, o)
    PROVE  Inv'
<1>1. /\ offer' = [offer EXCEPT ![p] = o]
      /\ pc[p] = "idle"
      /\ pc' = [pc EXCEPT ![p] = "received"]
      /\ UNCHANGED <<seq, nextSeq, recorded, screened, rejected, connected,
             known, seqOf, toInsert, here, attempt, commands,
             landed>>
  BY DEF Receive, shared, decide
<1>2. /\ NumbersAreTaken' /\ ReadsStayTrue' /\ SeqsAreTopological'
      /\ ConnectedIsClosed' /\ RecordedIsClosed' /\ LandedIsServable'
      /\ LandedAsJudged'
  BY <1>1 DEF Inv, NumbersAreTaken, ReadsStayTrue, SeqsAreTopological,
     ConnectedIsClosed, RecordedIsClosed, LandedIsServable, LandedAsJudged
<1>3. BlocksAreFresh'
  BY <1>1 DEF Kinds, Inv, BlocksAreFresh
<1>4. BlocksAreApart'
  BY <1>1 DEF Kinds, Inv, BlocksAreApart
<1>5. BlocksAreTopological'
  BY <1>1 DEF Kinds, Inv, BlocksAreTopological
<1>6. WithinThePack'
  BY <1>1 DEF Kinds, Inv, WithinThePack
<1>7. PlansAreWhole'
  BY <1>1 DEF Kinds, Inv, PlansAreWhole
<1>8. AttemptsAreLeft'
  BY <1>1 DEF Kinds, Inv, AttemptsAreLeft
<1>9. AppendedIsRecorded'
  BY <1>1 DEF Kinds, Inv, AppendedIsRecorded
<1>10. LiveIsStored'
  BY <1>1 DEF Kinds, Inv, LiveIsStored, Live, Past
<1>11. LandsLast'
  BY <1>1 DEF Kinds, Inv, LandsLast
<1>12. JudgedIsShown'
  BY <1>1 DEF Kinds, Inv, JudgedIsShown, Live, Shown
<1> QED  BY <1>2, <1>3, <1>4, <1>5, <1>6, <1>7, <1>8, <1>9, <1>10, <1>11,
     <1>12 DEF Inv

LEMMA CheckKeepsInv ==
    ASSUME Kinds, Inv, NEW p \in Pushes, Check(p)
    PROVE  Inv'
<1>1. PICK C \in SUBSET Commits, S \in SUBSET Refs, R \in SUBSET Refs :
        /\ pc[p] = "received"
        /\ pc' = [pc EXCEPT ![p] = "checked"]
        /\ screened' = [screened EXCEPT ![p] = S]
        /\ rejected' = [rejected EXCEPT ![p] = R]
        /\ connected' = [connected EXCEPT ![p] = C]
        /\ C \subseteq offer[p].pack
        /\ \A c \in C : Deps[c] \subseteq C \union recorded
        /\ \A u \in offer[p].updates :
             u.ref \notin S \union R /\ u.new \in Commits => u.new \in C \union recorded
        /\ UNCHANGED <<seq, nextSeq, recorded, offer, known, seqOf, toInsert,
               here, attempt, commands, landed>>
  <2> DEFINE pack == offer[p].pack
             C == UNION {Promoted(p, u) : u \in ToCheck(p) \ Failing(p)}
             S == NffRejected(p)
             R == RefnameRejected(p) \union NonCommitRejected(p)
                    \union {u.ref : u \in Failing(p)}
  <2>1. C \in SUBSET Commits /\ C \subseteq pack
    BY DEF Promoted
  <2>2. ASSUME NEW c \in C, NEW q \in Deps[c] PROVE q \in C \union recorded
    <3>1. PICK u \in ToCheck(p) \ Failing(p) : c \in Promoted(p, u)
      OBVIOUS
    <3>2. Connected(u.new, pack)
      BY <3>1 DEF Failing
    <3>3. q \in Reach(u.new, pack)
      BY <3>1, ReachStep DEF Promoted
    <3>4. q \in Commits
      BY <2>1, DepsAreOids
    <3>5. CASE q \in pack
      BY <3>1, <3>3, <3>4, <3>5 DEF Promoted
    <3>6. CASE q \notin pack
      BY <3>2, <3>3, <3>4, <3>6 DEF Connected, Stored
    <3> QED  BY <3>5, <3>6
  <2>3. \A u \in offer[p].updates : u.ref \in Refs
    BY DEF Kinds, Update
  <2>4. S \in SUBSET Refs /\ R \in SUBSET Refs
    BY <2>3 DEF NffRejected, RefnameRejected, NonCommitRejected, Failing, ToCheck
  <2>5. ASSUME NEW u \in offer[p].updates, u.ref \notin S \union R, u.new \in Commits
        PROVE  u.new \in C \union recorded
    <3>1. u \in ToCheck(p) \ Failing(p)
      BY <2>5, NamesAreKnown DEF ToCheck, PreScreened
    <3>2. Connected(u.new, pack) /\ u.new \in Reach(u.new, pack)
      BY <2>5, <3>1, ReachStart, NamesAreKnown DEF Failing
    <3>3. CASE u.new \in pack
      BY <2>5, <3>1, <3>2, <3>3 DEF Promoted
    <3>4. CASE u.new \notin pack
      BY <2>5, <3>2, <3>4 DEF Connected, Stored
    <3> QED  BY <3>3, <3>4
  <2>6. /\ pc[p] = "received"
        /\ pc' = [pc EXCEPT ![p] = "checked"]
        /\ screened' = [screened EXCEPT ![p] = S]
        /\ rejected' = [rejected EXCEPT ![p] = R]
        /\ connected' = [connected EXCEPT ![p] = C]
        /\ UNCHANGED <<seq, nextSeq, recorded, offer, known, seqOf, toInsert, here,
                       attempt, commands, landed>>
    BY DEF Check, shared
  <2> HIDE DEF C, S, R
  <2> QED  BY <2>1, <2>2, <2>4, <2>5, <2>6
<1>2. /\ NumbersAreTaken' /\ ReadsStayTrue' /\ SeqsAreTopological'
      /\ RecordedIsClosed'
  BY <1>1 DEF Inv, NumbersAreTaken, ReadsStayTrue, SeqsAreTopological,
     RecordedIsClosed
<1>3. BlocksAreFresh'
  BY <1>1 DEF Kinds, Inv, BlocksAreFresh
<1>4. BlocksAreApart'
  BY <1>1 DEF Kinds, Inv, BlocksAreApart
<1>5. BlocksAreTopological'
  BY <1>1 DEF Kinds, Inv, BlocksAreTopological
<1>6. WithinThePack'
  BY <1>1 DEF Kinds, Inv, WithinThePack
<1>7. PlansAreWhole'
  BY <1>1 DEF Kinds, Inv, PlansAreWhole
<1>8. AttemptsAreLeft'
  BY <1>1 DEF Kinds, Inv, AttemptsAreLeft
<1>9. ConnectedIsClosed'
  BY <1>1 DEF Kinds, Inv, ConnectedIsClosed
<1>10. AppendedIsRecorded'
  BY <1>1 DEF Kinds, Inv, AppendedIsRecorded
<1>11. LiveIsStored'
  BY <1>1 DEF Kinds, Inv, LiveIsStored, Live, Past
<1>12. LandsLast'
  BY <1>1 DEF Kinds, Inv, LandsLast
<1>13. LandedIsServable'
  BY <1>1 DEF Kinds, Inv, LandedIsServable, LandsLast
<1>14. JudgedIsShown'
  BY <1>1 DEF Kinds, Inv, JudgedIsShown, Live, Shown
<1>15. LandedAsJudged'
  BY <1>1 DEF Kinds, Inv, LandedAsJudged, LandsLast
<1> QED  BY <1>2, <1>3, <1>4, <1>5, <1>6, <1>7, <1>8, <1>9, <1>10, <1>11,
     <1>12, <1>13, <1>14, <1>15 DEF Inv

LEMMA UploadKeepsInv ==
    ASSUME Kinds, Inv, NEW p \in Pushes, Upload(p)
    PROVE  Inv'
<1>1. PICK to \in {"appended", "uploaded"} :
        /\ pc[p] = "checked"
        /\ pc' = [pc EXCEPT ![p] = to]
        /\ to = "appended" => connected[p] = {}
        /\ known' = [known EXCEPT ![p] = seq]
        /\ UNCHANGED <<seq, nextSeq, recorded, offer, screened, rejected,
               connected, seqOf, toInsert, here, attempt, commands,
               landed>>
  BY DEF Upload, shared, decide
<1>2. /\ NumbersAreTaken' /\ SeqsAreTopological' /\ ConnectedIsClosed'
      /\ RecordedIsClosed' /\ LandedIsServable' /\ LandedAsJudged'
  BY <1>1 DEF Inv, NumbersAreTaken, SeqsAreTopological, ConnectedIsClosed,
     RecordedIsClosed, LandedIsServable, LandedAsJudged
<1>3. ReadsStayTrue'
  BY <1>1 DEF Kinds, Inv, ReadsStayTrue
<1>4. BlocksAreFresh'
  BY <1>1 DEF Kinds, Inv, BlocksAreFresh
<1>5. BlocksAreApart'
  BY <1>1 DEF Kinds, Inv, BlocksAreApart
<1>6. BlocksAreTopological'
  BY <1>1 DEF Kinds, Inv, BlocksAreTopological
<1>7. WithinThePack'
  BY <1>1 DEF Kinds, Inv, WithinThePack
<1>8. PlansAreWhole'
  BY <1>1 DEF Kinds, Inv, PlansAreWhole
<1>9. AttemptsAreLeft'
  BY <1>1, AttemptsArePositive DEF Kinds, Inv, AttemptsAreLeft
<1>10. AppendedIsRecorded'
  BY <1>1 DEF Kinds, Inv, AppendedIsRecorded
<1>11. LiveIsStored'
  BY <1>1 DEF Kinds, Inv, LiveIsStored, Live, Past
<1>12. LandsLast'
  BY <1>1 DEF Kinds, Inv, LandsLast
<1>13. JudgedIsShown'
  BY <1>1 DEF Kinds, Inv, JudgedIsShown, Live, Shown
<1> QED  BY <1>2, <1>3, <1>4, <1>5, <1>6, <1>7, <1>8, <1>9, <1>10, <1>11,
     <1>12, <1>13 DEF Inv

LEMMA PlanKeepsInv ==
    ASSUME Kinds, Inv, NEW p \in Pushes, Plan(p)
    PROVE  Inv'
<1>1. PICK N \in [Oids -> Nat], I \in SUBSET Commits, H \in SUBSET Oids :
        /\ pc[p] = "uploaded"
        /\ pc' = [pc EXCEPT ![p] = "planned"]
        /\ seqOf' = [seqOf EXCEPT ![p] = N]
        /\ toInsert' = [toInsert EXCEPT ![p] = I]
        /\ here' = [here EXCEPT ![p] = H]
        /\ attempt' = [attempt EXCEPT ![p] = attempt[p] + 1]
        /\ \A o \in Oids : N[o] # 0 => seq[o] = N[o]
        /\ I \subseteq connected[p] /\ connected[p] \subseteq I \union recorded
        /\ H \subseteq offer[p].pack /\ H \intersect Commits \subseteq I
        /\ \A c \in I : c \in H \/ N[c] # 0
        /\ UNCHANGED <<seq, nextSeq, recorded, offer, screened, rejected,
               connected, known, commands, landed>>
  <2> DEFINE N == Numbers(p)
             I == connected[p] \ Already(p)
             H == {o \in I \union PackTags(p) : N[o] = 0}
  <2>1. N \in [Oids -> Nat] /\ \A o \in Oids : N[o] # 0 => seq[o] = N[o]
    BY DEF Kinds, Numbers, Inv, ReadsStayTrue
  <2>2. /\ I \in SUBSET Commits /\ I \subseteq connected[p]
        /\ connected[p] \subseteq I \union recorded
    BY DEF Kinds, Already
  <2>3. H \in SUBSET Oids /\ H \subseteq offer[p].pack /\ H \intersect Commits \subseteq I
    BY <2>2, NamesAreKnown DEF Kinds, PackTags, Tags, Inv, WithinThePack
  <2>4. /\ pc[p] = "uploaded"
        /\ pc' = [pc EXCEPT ![p] = "planned"]
        /\ seqOf' = [seqOf EXCEPT ![p] = N]
        /\ toInsert' = [toInsert EXCEPT ![p] = I]
        /\ here' = [here EXCEPT ![p] = H]
        /\ attempt' = [attempt EXCEPT ![p] = attempt[p] + 1]
        /\ UNCHANGED <<seq, nextSeq, recorded, offer, screened, rejected, connected,
                       known, commands, landed>>
    BY DEF Plan, shared, decide, Kinds
  <2>5. \A c \in I : c \in H \/ N[c] # 0
    OBVIOUS
  <2> HIDE DEF N, I, H
  <2> QED  BY ZenonT(60), <2>1, <2>2, <2>3, <2>4, <2>5
<1>2. /\ NumbersAreTaken' /\ SeqsAreTopological' /\ ConnectedIsClosed'
      /\ RecordedIsClosed' /\ LandedIsServable' /\ LandedAsJudged'
  BY <1>1 DEF Inv, NumbersAreTaken, SeqsAreTopological, ConnectedIsClosed,
     RecordedIsClosed, LandedIsServable, LandedAsJudged
<1>3. ReadsStayTrue'
  BY <1>1 DEF Kinds, Inv, ReadsStayTrue
<1>4. BlocksAreFresh'
  BY <1>1 DEF Kinds, Inv, BlocksAreFresh
<1>5. BlocksAreApart'
  BY <1>1 DEF Kinds, Inv, BlocksAreApart
<1>6. BlocksAreTopological'
  BY <1>1 DEF Kinds, Inv, BlocksAreTopological
<1>7. WithinThePack'
  BY <1>1 DEF Kinds, Inv, WithinThePack
<1>8. PlansAreWhole'
  BY <1>1 DEF Kinds, Inv, PlansAreWhole
<1>9. AttemptsAreLeft'
  BY <1>1 DEF Kinds, Inv, AttemptsAreLeft
<1>10. AppendedIsRecorded'
  BY <1>1 DEF Kinds, Inv, AppendedIsRecorded
<1>11. LiveIsStored'
  BY <1>1 DEF Kinds, Inv, LiveIsStored, Live, Past
<1>12. LandsLast'
  BY <1>1 DEF Kinds, Inv, LandsLast
<1>13. JudgedIsShown'
  BY <1>1 DEF Kinds, Inv, JudgedIsShown, Live, Shown
<1> QED  BY <1>2, <1>3, <1>4, <1>5, <1>6, <1>7, <1>8, <1>9, <1>10, <1>11,
     <1>12, <1>13 DEF Inv

LEMMA AllocateKeepsInv ==
    ASSUME Kinds, Inv, NEW p \in Pushes, Allocate(p)
    PROVE  Inv'
<1>1. PICK f \in [here[p] -> Nat], to \in {"failed", "allocated"} :
        /\ pc[p] = "planned"
        /\ pc' = [pc EXCEPT ![p] = to]
        /\ seqOf' = [seqOf EXCEPT ![p] =
             [o \in Oids |-> IF o \in here[p] THEN f[o] ELSE seqOf[p][o]]]
        /\ \A k \in {"commit", "tag"} : nextSeq'[k] \in Nat /\ nextSeq[k] <= nextSeq'[k]
        /\ \A o \in here[p] : f[o] \in nextSeq[Kind(o)] .. nextSeq'[Kind(o)] - 1
        /\ \A o, x \in here[p] : Kind(o) = Kind(x) /\ f[o] = f[x] => o = x
        /\ \A c \in here[p] \intersect Commits : \A q \in Deps[c] \intersect here[p] : f[q] < f[c]
        /\ to = "allocated" => \A c \in toInsert[p] : \A q \in Deps[c] : seqOf'[p][q] # 0
        /\ UNCHANGED <<seq, recorded, offer, screened, rejected, connected,
               known, toInsert, here, attempt, commands, landed>>
  <2>1. PICK f \in Blocks(here[p]) :
          seqOf' = [seqOf EXCEPT ![p] =
             [o \in Oids |-> IF o \in here[p] THEN f[o] ELSE seqOf[p][o]]]
    BY DEF Allocate, Kinds
  <2> DEFINE Size(k) == Cardinality({o \in here[p] : Kind(o) = k})
  <2>2. \A k : Size(k) \in Nat
    <3>1. IsFiniteSet(here[p])
      BY FS_Subset DEF Kinds, Inv, WithinThePack
    <3> SUFFICES ASSUME NEW k PROVE Size(k) \in Nat
      OBVIOUS
    <3>2. IsFiniteSet({o \in here[p] : Kind(o) = k})
      BY <3>1, FS_Subset
    <3> QED  BY <3>2, FS_CardinalityType
  <2>3. nextSeq' = [k \in {"commit", "tag"} |-> nextSeq[k] + Size(k)]
    BY DEF Allocate, Kinds
  <2>4. /\ \A o \in here[p] : f[o] \in nextSeq[Kind(o)] .. nextSeq[Kind(o)] + Size(Kind(o)) - 1
        /\ \A o, x \in here[p] : o # x /\ Kind(o) = Kind(x) => f[o] # f[x]
        /\ \A c \in here[p] \intersect Commits :
             \A q \in Deps[c] \intersect here[p] : f[q] < f[c]
    BY <2>1 DEF Blocks
  <2> HIDE DEF Size
  <2>5. /\ \A k \in {"commit", "tag"} : nextSeq'[k] \in Nat /\ nextSeq[k] <= nextSeq'[k]
        /\ \A o \in here[p] : f[o] \in nextSeq[Kind(o)] .. nextSeq'[Kind(o)] - 1
    BY <2>2, <2>3, <2>4, KindFacts DEF Kinds
  <2> f \in [here[p] -> Nat]
    <3>1. DOMAIN f = here[p] /\ f = [o \in here[p] |-> f[o]]
      BY <2>1 DEF Blocks
    <3>2. ASSUME NEW o \in here[p] PROVE f[o] \in Nat
      <4>1. /\ nextSeq[Kind(o)] \in Nat /\ nextSeq'[Kind(o)] \in Nat
            /\ f[o] \in nextSeq[Kind(o)] .. nextSeq'[Kind(o)] - 1
        BY <2>5, KindFacts DEF Kinds
      <4> QED  BY <4>1
    <3> QED  BY <3>1, <3>2
  <2>6. PICK to \in {"failed", "allocated"} :
          /\ pc' = [pc EXCEPT ![p] = to]
          /\ to = "allocated" => \A c \in toInsert[p] : \A q \in Deps[c] : seqOf'[p][q] # 0
    BY DEF Allocate
  <2>7. /\ pc[p] = "planned"
        /\ UNCHANGED <<seq, recorded, offer, screened, rejected, connected, known,
                       toInsert, here, attempt, commands, landed>>
    BY DEF Allocate, decide
  <2> QED  BY <2>1, <2>4, <2>5, <2>6, <2>7
<1>2. /\ SeqsAreTopological' /\ ConnectedIsClosed' /\ RecordedIsClosed'
      /\ LandedIsServable' /\ LandedAsJudged'
  BY <1>1 DEF Inv, SeqsAreTopological, ConnectedIsClosed, RecordedIsClosed,
     LandedIsServable, LandedAsJudged
<1>3. NumbersAreTaken'
  <2> SUFFICES ASSUME NEW o \in Oids PROVE seq[o] < nextSeq'[Kind(o)]
    BY <1>1 DEF NumbersAreTaken
  <2>1. /\ seq[o] \in Nat /\ nextSeq[Kind(o)] \in Nat /\ nextSeq'[Kind(o)] \in Nat
        /\ seq[o] < nextSeq[Kind(o)] /\ nextSeq[Kind(o)] <= nextSeq'[Kind(o)]
    BY <1>1, KindFacts DEF Kinds, Inv, NumbersAreTaken
  <2> QED  BY <2>1
<1>4. ReadsStayTrue'
  BY <1>1 DEF Kinds, Inv, ReadsStayTrue
<1>5. BlocksAreFresh'
  BY SMTT(30), <1>1, KindFacts DEF Kinds, Inv, BlocksAreFresh, NumbersAreTaken
<1>6. BlocksAreApart'
  <2> SUFFICES ASSUME NEW r \in Pushes, NEW q \in Pushes,
                      pc'[r] = "allocated", pc'[q] = "allocated",
                      NEW o \in here[r], NEW x \in here[q],
                      Kind(o) = Kind(x), seqOf'[r][o] = seqOf'[q][x]
               PROVE  r = q /\ o = x
    BY SMTT(30), <1>1 DEF BlocksAreApart
  <2>1. /\ \A y \in here[p] : seqOf'[p][y] = f[y]
        /\ \A s \in Pushes \ {p} : seqOf'[s] = seqOf[s] /\ pc'[s] = pc[s]
    BY <1>1 DEF Kinds
  <2>2. ASSUME NEW s \in Pushes \ {p}, pc[s] = "allocated",
               NEW y \in here[s], NEW z \in here[p], Kind(y) = Kind(z)
        PROVE  seqOf[s][y] # f[z]
    <3>1. /\ nextSeq[Kind(z)] \in Nat /\ f[z] \in Nat /\ nextSeq[Kind(z)] <= f[z]
      BY <1>1, KindFacts DEF Kinds
    <3>2. seqOf[s][y] \in 1 .. nextSeq[Kind(y)] - 1
      BY <2>2 DEF Inv, BlocksAreFresh
    <3> QED  BY <2>2, <3>1, <3>2
  <2>3. CASE r = p /\ q = p
    BY <1>1, <2>1, <2>3
  <2>4. CASE r = p /\ q # p
    BY <2>1, <2>2, <2>4
  <2>5. CASE r # p /\ q = p
    BY <2>1, <2>2, <2>5
  <2>6. CASE r # p /\ q # p
    BY <2>1, <2>6 DEF Inv, BlocksAreApart
  <2> QED  BY <2>3, <2>4, <2>5, <2>6
<1>7. BlocksAreTopological'
  <2> SUFFICES ASSUME NEW r \in Pushes, pc'[r] = "allocated",
                      NEW c \in here[r] \intersect Commits, NEW q \in Deps[c]
               PROVE  seqOf'[r][q] \in 1 .. seqOf'[r][c] - 1
    BY <1>1 DEF BlocksAreTopological
  <2>1. CASE r # p
    BY <1>1, <2>1 DEF Kinds, Inv, BlocksAreTopological
  <2>2. CASE r = p
    <3>1. /\ q \in Commits /\ q \in Oids /\ c \in Oids
          /\ Kind(q) = "commit" /\ Kind(c) = "commit"
      BY DepsAreOids, NamesAreKnown, KindFacts
    <3>2. seqOf'[p][c] = f[c] /\ f[c] \in Nat /\ nextSeq["commit"] <= f[c]
      BY <1>1, <2>2, <3>1 DEF Kinds
    <3>3. CASE q \in here[p]
      <4>1. seqOf'[p][q] = f[q] /\ f[q] \in Nat /\ nextSeq["commit"] <= f[q] /\ f[q] < f[c]
        BY <1>1, <2>2, <3>1, <3>3 DEF Kinds
      <4> QED  BY <2>2, <3>2, <4>1 DEF Kinds
    <3>4. CASE q \notin here[p]
      <4>1. c \in toInsert[p]
        BY <1>1, <2>2 DEF Inv, PlansAreWhole
      <4>2. seqOf'[p][q] = seqOf[p][q] /\ seqOf[p][q] # 0
        BY <1>1, <2>2, <3>1, <3>4, <4>1 DEF Kinds
      <4>3. seq[q] = seqOf[p][q] /\ seq[q] < nextSeq["commit"] /\ seq[q] \in Nat
        BY <3>1, <3>4, <4>2 DEF Kinds, Inv, ReadsStayTrue, NumbersAreTaken
      <4> QED  BY <2>2, <3>2, <4>2, <4>3 DEF Kinds
    <3> QED  BY <3>3, <3>4
  <2> QED  BY <2>1, <2>2
<1>8. WithinThePack'
  BY <1>1 DEF Kinds, Inv, WithinThePack
<1>9. PlansAreWhole'
  BY <1>1, NamesAreKnown DEF Kinds, Inv, PlansAreWhole
<1>10. AttemptsAreLeft'
  BY <1>1 DEF Kinds, Inv, AttemptsAreLeft
<1>11. AppendedIsRecorded'
  BY <1>1 DEF Kinds, Inv, AppendedIsRecorded
<1>12. LiveIsStored'
  BY <1>1 DEF Kinds, Inv, LiveIsStored, Live, Past
<1>13. LandsLast'
  BY <1>1 DEF Kinds, Inv, LandsLast
<1>14. JudgedIsShown'
  BY <1>1 DEF Kinds, Inv, JudgedIsShown, Live, Shown
<1> QED  BY <1>2, <1>3, <1>4, <1>5, <1>6, <1>7, <1>8, <1>9, <1>10, <1>11,
     <1>12, <1>13, <1>14 DEF Inv

LEMMA NumberKeepsInv ==
    ASSUME Kinds, Inv, NEW p \in Pushes, Number(p)
    PROVE  Inv'
<1>1. /\ pc[p] = "allocated"
      /\ pc' = [pc EXCEPT ![p] = "numbered"]
      /\ \A o \in here[p] : seq[o] = 0
      /\ seq' = [o \in Oids |-> IF o \in here[p] THEN seqOf[p][o] ELSE seq[o]]
      /\ UNCHANGED <<nextSeq, recorded, offer, screened, rejected, connected,
             known, seqOf, toInsert, here, attempt, commands,
             landed>>
  BY DEF Number, Raced, ingest, decide
<1>2. ConnectedIsClosed' /\ LandedIsServable' /\ LandedAsJudged'
  BY <1>1 DEF Inv, ConnectedIsClosed, LandedIsServable, LandedAsJudged
<1>3. NumbersAreTaken'
  BY <1>1, KindFacts DEF Kinds, Inv, NumbersAreTaken, BlocksAreFresh
<1>4. ReadsStayTrue'
  BY <1>1 DEF Kinds, Inv, ReadsStayTrue
<1>5. BlocksAreFresh'
  BY <1>1, KindFacts DEF Kinds, Inv, BlocksAreFresh, BlocksAreApart
<1>6. BlocksAreApart'
  BY <1>1 DEF Kinds, Inv, BlocksAreApart
<1>7. BlocksAreTopological'
  BY <1>1 DEF Kinds, Inv, BlocksAreTopological
<1>8. SeqsAreTopological'
  <2> SUFFICES ASSUME NEW c \in Oids, seq'[c] # 0
               PROVE  /\ c \in Commits => \A q \in Deps[c] : seq'[q] \in 1 .. seq'[c] - 1
                      /\ \A o \in Oids \ {c} : Kind(o) = Kind(c) => seq'[o] # seq'[c]
    BY DEF SeqsAreTopological
  <2>1. ASSUME c \in Commits, NEW q \in Deps[c] PROVE seq'[q] \in 1 .. seq'[c] - 1
    <3>1. q \in Oids
      BY <2>1, DepsAreOids
    <3>2. CASE c \in here[p]
      BY <1>1, <2>1, <3>1, <3>2 DEF Kinds, Inv, BlocksAreTopological, ReadsStayTrue
    <3>3. CASE c \notin here[p]
      <4>1. seq[c] # 0 /\ seq'[c] = seq[c] /\ seq[q] \in 1 .. seq[c] - 1
        BY <1>1, <2>1, <3>3 DEF Inv, SeqsAreTopological
      <4> QED  BY <1>1, <3>1, <4>1
    <3> QED  BY <3>2, <3>3
  <2>2. ASSUME NEW o \in Oids \ {c}, Kind(o) = Kind(c) PROVE seq'[o] # seq'[c]
    BY <1>1, <2>2 DEF Inv, SeqsAreTopological, BlocksAreFresh, BlocksAreApart
  <2> QED  BY <2>1, <2>2
<1>9. WithinThePack'
  BY <1>1 DEF Kinds, Inv, WithinThePack
<1>10. PlansAreWhole'
  <2>1. \A c \in toInsert[p] : seq'[c] # 0
    BY <1>1, KindFacts, NamesAreKnown
       DEF Kinds, Inv, PlansAreWhole, BlocksAreFresh, ReadsStayTrue
  <2>2. \A o \in Oids : seq[o] # 0 => seq'[o] = seq[o]
    BY <1>1
  <2> QED  BY ZenonT(60), <1>1, <2>1, <2>2, NamesAreKnown DEF Kinds, Inv, PlansAreWhole
<1>11. AttemptsAreLeft'
  BY <1>1 DEF Kinds, Inv, AttemptsAreLeft
<1>12. RecordedIsClosed'
  BY <1>1, NamesAreKnown DEF Kinds, Inv, RecordedIsClosed
<1>13. AppendedIsRecorded'
  BY <1>1 DEF Kinds, Inv, AppendedIsRecorded
<1>14. LiveIsStored'
  BY <1>1 DEF Kinds, Inv, LiveIsStored, Live, Past
<1>15. LandsLast'
  BY <1>1 DEF Kinds, Inv, LandsLast
<1>16. JudgedIsShown'
  BY <1>1 DEF Kinds, Inv, JudgedIsShown, Live, Shown
<1> QED  BY <1>2, <1>3, <1>4, <1>5, <1>6, <1>7, <1>8, <1>9, <1>10, <1>11,
     <1>12, <1>13, <1>14, <1>15, <1>16 DEF Inv

LEMMA RetryKeepsInv ==
    ASSUME Kinds, Inv, NEW p \in Pushes, Retry(p)
    PROVE  Inv'
<1>1. PICK to \in {"uploaded", "failed"} :
        /\ pc[p] = "allocated"
        /\ pc' = [pc EXCEPT ![p] = to]
        /\ to = "uploaded" => attempt[p] < MaxAttempts
        /\ UNCHANGED <<seq, nextSeq, recorded, offer, screened, rejected,
               connected, known, seqOf, toInsert, here, attempt,
               commands, landed>>
  BY DEF Retry, shared, ingest, decide
<1>2. /\ NumbersAreTaken' /\ ReadsStayTrue' /\ SeqsAreTopological'
      /\ ConnectedIsClosed' /\ RecordedIsClosed' /\ LandedIsServable'
      /\ LandedAsJudged'
  BY <1>1 DEF Inv, NumbersAreTaken, ReadsStayTrue, SeqsAreTopological,
     ConnectedIsClosed, RecordedIsClosed, LandedIsServable, LandedAsJudged
<1>3. BlocksAreFresh'
  BY <1>1 DEF Kinds, Inv, BlocksAreFresh
<1>4. BlocksAreApart'
  BY <1>1 DEF Kinds, Inv, BlocksAreApart
<1>5. BlocksAreTopological'
  BY <1>1 DEF Kinds, Inv, BlocksAreTopological
<1>6. WithinThePack'
  BY <1>1 DEF Kinds, Inv, WithinThePack
<1>7. PlansAreWhole'
  BY <1>1 DEF Kinds, Inv, PlansAreWhole
<1>8. AttemptsAreLeft'
  BY <1>1 DEF Kinds, Inv, AttemptsAreLeft
<1>9. AppendedIsRecorded'
  BY <1>1 DEF Kinds, Inv, AppendedIsRecorded
<1>10. LiveIsStored'
  BY <1>1 DEF Kinds, Inv, LiveIsStored, Live, Past
<1>11. LandsLast'
  BY <1>1 DEF Kinds, Inv, LandsLast
<1>12. JudgedIsShown'
  BY <1>1 DEF Kinds, Inv, JudgedIsShown, Live, Shown
<1> QED  BY <1>2, <1>3, <1>4, <1>5, <1>6, <1>7, <1>8, <1>9, <1>10, <1>11,
     <1>12 DEF Inv

LEMMA JournalKeepsInv ==
    ASSUME Kinds, Inv, NEW p \in Pushes, Journal(p)
    PROVE  Inv'
<1>1. /\ pc[p] = "numbered"
      /\ pc' = [pc EXCEPT ![p] = "appended"]
      /\ recorded' = recorded \union toInsert[p]
      /\ UNCHANGED <<seq, nextSeq, offer, screened, rejected, connected,
             known, seqOf, toInsert, here, attempt, commands,
             landed>>
  BY DEF Journal, ingest, decide
<1>2. /\ NumbersAreTaken' /\ ReadsStayTrue' /\ SeqsAreTopological'
      /\ LandedAsJudged'
  BY <1>1 DEF Inv, NumbersAreTaken, ReadsStayTrue, SeqsAreTopological,
     LandedAsJudged
<1>3. BlocksAreFresh'
  BY <1>1 DEF Kinds, Inv, BlocksAreFresh
<1>4. BlocksAreApart'
  BY <1>1 DEF Kinds, Inv, BlocksAreApart
<1>5. BlocksAreTopological'
  BY <1>1 DEF Kinds, Inv, BlocksAreTopological
<1>6. WithinThePack'
  BY <1>1 DEF Kinds, Inv, WithinThePack
<1>7. PlansAreWhole'
  BY <1>1 DEF Kinds, Inv, PlansAreWhole
<1>8. AttemptsAreLeft'
  BY <1>1 DEF Kinds, Inv, AttemptsAreLeft
<1>9. ConnectedIsClosed'
  BY <1>1 DEF Kinds, Inv, ConnectedIsClosed
<1>10. RecordedIsClosed'
  BY <1>1 DEF Kinds, Inv, RecordedIsClosed, PlansAreWhole, ConnectedIsClosed
<1>11. AppendedIsRecorded'
  BY <1>1 DEF Kinds, Inv, AppendedIsRecorded, PlansAreWhole
<1>12. LiveIsStored'
  BY <1>1 DEF Kinds, Inv, LiveIsStored, Live, Past
<1>13. LandsLast'
  BY <1>1 DEF Kinds, Inv, LandsLast
<1>14. LandedIsServable'
  BY <1>1 DEF Kinds, Inv, LandedIsServable
<1>15. JudgedIsShown'
  BY <1>1 DEF Kinds, Inv, JudgedIsShown, Live, Shown
<1> QED  BY <1>2, <1>3, <1>4, <1>5, <1>6, <1>7, <1>8, <1>9, <1>10, <1>11,
     <1>12, <1>13, <1>14, <1>15 DEF Inv

LEMMA JudgeKeepsInv ==
    ASSUME Kinds, Inv, NEW p \in Pushes, Judge(p)
    PROVE  Inv'
<1>1. PICK refused \in SUBSET Refs :
        /\ pc[p] = "appended"
        /\ pc' = [pc EXCEPT ![p] = "judged"]
        /\ rejected' = [rejected EXCEPT ![p] = rejected[p] \union refused]
        /\ \A q \in Pushes \ {p} : commands'[q] = commands[q]
        /\ \A u \in Live(p) : \E c \in commands'[p] :
             /\ c.update = u
             /\ IsMove(u) /\ ~c.force => u.old \in Reach(u.new, Oids)
        /\ UNCHANGED <<seq, nextSeq, recorded, offer, screened, connected,
               known, seqOf, toInsert, here, attempt, landed>>
  <2> DEFINE D == {[update |-> u, force |-> IsMove(u) /\ ~IsAncestor(u.old, u.new)] :
                     u \in Live(p)}
  <2>1. ASSUME NEW u \in Live(p)
        PROVE  \E c \in D : /\ c.update = u
                            /\ IsMove(u) /\ ~c.force => u.old \in Reach(u.new, Oids)
    <3>1. IsAncestor(u.old, u.new) => u.old \in Reach(u.new, Oids)
      <4>1. Reach(u.new, recorded) \subseteq Reach(u.new, Oids)
        BY ReachGrows, NamesAreKnown DEF Kinds
      <4> QED  BY <4>1 DEF IsAncestor
    <3> DEFINE c == [update |-> u, force |-> IsMove(u) /\ ~IsAncestor(u.old, u.new)]
    <3>2. c \in D
      OBVIOUS
    <3>3. c.update = u /\ (IsMove(u) /\ ~c.force => IsAncestor(u.old, u.new))
      OBVIOUS
    <3> QED  BY <3>1, <3>2, <3>3
  <2>2. PICK refused \in SUBSET {u.ref : u \in Live(p)} :
          rejected' = [rejected EXCEPT ![p] = rejected[p] \union refused]
    BY DEF Judge, Kinds
  <2>3. refused \in SUBSET Refs
    BY DEF Live, Kinds, Update
  <2>4. /\ pc[p] = "appended"
        /\ pc' = [pc EXCEPT ![p] = "judged"]
        /\ commands' = [commands EXCEPT ![p] = D]
        /\ UNCHANGED <<seq, nextSeq, recorded, offer, screened, connected, known,
                       seqOf, toInsert, here, attempt, landed>>
    BY DEF Judge, shared, ingest
  <2> HIDE DEF D
  <2>5. commands'[p] = D /\ \A q \in Pushes \ {p} : commands'[q] = commands[q]
    BY <2>4 DEF Kinds
  <2> QED  BY <2>1, <2>2, <2>3, <2>4, <2>5
<1>2. /\ NumbersAreTaken' /\ ReadsStayTrue' /\ SeqsAreTopological'
      /\ ConnectedIsClosed' /\ RecordedIsClosed' /\ LandedIsServable'
  BY <1>1 DEF Inv, NumbersAreTaken, ReadsStayTrue, SeqsAreTopological,
     ConnectedIsClosed, RecordedIsClosed, LandedIsServable
<1>3. BlocksAreFresh'
  BY <1>1 DEF Kinds, Inv, BlocksAreFresh
<1>4. BlocksAreApart'
  BY <1>1 DEF Kinds, Inv, BlocksAreApart
<1>5. BlocksAreTopological'
  BY <1>1 DEF Kinds, Inv, BlocksAreTopological
<1>6. WithinThePack'
  BY <1>1 DEF Kinds, Inv, WithinThePack
<1>7. PlansAreWhole'
  BY <1>1 DEF Kinds, Inv, PlansAreWhole
<1>8. AttemptsAreLeft'
  BY <1>1 DEF Kinds, Inv, AttemptsAreLeft
<1>9. AppendedIsRecorded'
  BY <1>1 DEF Kinds, Inv, AppendedIsRecorded
<1>10. LiveIsStored'
  BY <1>1 DEF Kinds, Inv, LiveIsStored, Live, Past
<1>11. LandsLast'
  BY <1>1 DEF Kinds, Inv, LandsLast
<1>12. JudgedIsShown'
  BY ZenonT(60), <1>1 DEF Kinds, Inv, JudgedIsShown, Live, Shown
<1>13. LandedAsJudged'
  <2>1. landed[p] = {} /\ \A q \in Pushes \ {p} : rejected'[q] = rejected[q]
    BY <1>1 DEF Kinds, Inv, LandsLast
  <2> QED  BY <1>1, <2>1 DEF Inv, LandedAsJudged
<1> QED  BY <1>2, <1>3, <1>4, <1>5, <1>6, <1>7, <1>8, <1>9, <1>10, <1>11,
     <1>12, <1>13 DEF Inv

LEMMA ApplyKeepsInv ==
    ASSUME Kinds, Inv, NEW p \in Pushes, Apply(p)
    PROVE  Inv'
<1>1. PICK granted :
        /\ pc[p] = "judged"
        /\ pc' = [pc EXCEPT ![p] = "applied"]
        /\ landed' = [landed EXCEPT ![p] = granted]
        /\ \A u \in granted : u \in offer[p].updates /\ u.ref \notin rejected[p]
        /\ UNCHANGED <<seq, nextSeq, recorded, offer, screened, rejected,
               connected, known, seqOf, toInsert, here, attempt,
               commands>>
  <2> DEFINE granted == {u \in ToApply(p) : Grants(u)}
  <2>1. landed' = [landed EXCEPT ![p] = granted]
    BY DEF Apply
  <2>2. \A u \in granted : u \in offer[p].updates /\ u.ref \notin rejected[p]
    BY DEF ToApply
  <2> HIDE DEF granted
  <2> QED  BY <2>1, <2>2 DEF Apply, ingest
<1>2. /\ NumbersAreTaken' /\ ReadsStayTrue' /\ SeqsAreTopological'
      /\ ConnectedIsClosed' /\ RecordedIsClosed'
  BY <1>1 DEF Inv, NumbersAreTaken, ReadsStayTrue, SeqsAreTopological,
     ConnectedIsClosed, RecordedIsClosed
<1>3. BlocksAreFresh'
  BY <1>1 DEF Kinds, Inv, BlocksAreFresh
<1>4. BlocksAreApart'
  BY <1>1 DEF Kinds, Inv, BlocksAreApart
<1>5. BlocksAreTopological'
  BY <1>1 DEF Kinds, Inv, BlocksAreTopological
<1>6. WithinThePack'
  BY <1>1 DEF Kinds, Inv, WithinThePack
<1>7. PlansAreWhole'
  BY <1>1 DEF Kinds, Inv, PlansAreWhole
<1>8. AttemptsAreLeft'
  BY <1>1 DEF Kinds, Inv, AttemptsAreLeft
<1>9. AppendedIsRecorded'
  BY <1>1 DEF Kinds, Inv, AppendedIsRecorded
<1>10. LiveIsStored'
  BY <1>1 DEF Kinds, Inv, LiveIsStored, Live, Past
<1>11. LandsLast'
  BY <1>1 DEF Kinds, Inv, LandsLast
<1>12. LandedIsServable'
  <2> SUFFICES ASSUME NEW r \in Pushes, NEW u \in landed'[r],
                      u.ref \notin screened[r], u.new \in Commits
               PROVE  Reach(u.new, Oids) \subseteq recorded
    BY <1>1 DEF LandedIsServable
  <2>1. CASE r # p
    BY <1>1, <2>1 DEF Kinds, Inv, LandedIsServable
  <2>2. CASE r = p
    <3>1. u \in Live(p)
      BY <1>1, <2>2 DEF Kinds, Live
    <3>2. u.new \in recorded
      BY <1>1, <3>1 DEF Inv, LiveIsStored, AppendedIsRecorded, Past
    <3> QED  BY <3>2, ReachStays, NamesAreKnown DEF Kinds, Inv, RecordedIsClosed
  <2> QED  BY <2>1, <2>2
<1>13. JudgedIsShown'
  BY <1>1 DEF Kinds, Inv, JudgedIsShown, Live, Shown
<1>14. LandedAsJudged'
  <2> SUFFICES ASSUME NEW r \in Pushes, NEW u \in landed'[r], u.ref \notin screened[r]
               PROVE  u.ref \notin rejected[r] /\ Shown(r, u)
    BY <1>1 DEF LandedAsJudged, Shown
  <2>1. CASE r # p
    BY <1>1, <2>1 DEF Kinds, Inv, LandedAsJudged, Shown
  <2>2. CASE r = p
    BY <1>1, <2>2 DEF Kinds, Inv, JudgedIsShown, Live
  <2> QED  BY <2>1, <2>2
<1> QED  BY <1>2, <1>3, <1>4, <1>5, <1>6, <1>7, <1>8, <1>9, <1>10, <1>11,
     <1>12, <1>13, <1>14 DEF Inv

LEMMA TellKeepsInv ==
    ASSUME Kinds, Inv, NEW p \in Pushes, Tell(p)
    PROVE  Inv'
<1>1. /\ pc[p] = "applied"
      /\ pc' = [pc EXCEPT ![p] = "done"]
      /\ UNCHANGED <<seq, nextSeq, recorded, offer, screened, rejected,
             connected, known, seqOf, toInsert, here, attempt,
             commands, landed>>
  BY DEF Tell, shared, ingest
<1>2. /\ NumbersAreTaken' /\ ReadsStayTrue' /\ SeqsAreTopological'
      /\ ConnectedIsClosed' /\ RecordedIsClosed' /\ LandedIsServable'
      /\ LandedAsJudged'
  BY <1>1 DEF Inv, NumbersAreTaken, ReadsStayTrue, SeqsAreTopological,
     ConnectedIsClosed, RecordedIsClosed, LandedIsServable, LandedAsJudged
<1>3. BlocksAreFresh'
  BY <1>1 DEF Kinds, Inv, BlocksAreFresh
<1>4. BlocksAreApart'
  BY <1>1 DEF Kinds, Inv, BlocksAreApart
<1>5. BlocksAreTopological'
  BY <1>1 DEF Kinds, Inv, BlocksAreTopological
<1>6. WithinThePack'
  BY <1>1 DEF Kinds, Inv, WithinThePack
<1>7. PlansAreWhole'
  BY <1>1 DEF Kinds, Inv, PlansAreWhole
<1>8. AttemptsAreLeft'
  BY <1>1 DEF Kinds, Inv, AttemptsAreLeft
<1>9. AppendedIsRecorded'
  BY <1>1 DEF Kinds, Inv, AppendedIsRecorded
<1>10. LiveIsStored'
  BY <1>1 DEF Kinds, Inv, LiveIsStored, Live, Past
<1>11. LandsLast'
  BY <1>1 DEF Kinds, Inv, LandsLast
<1>12. JudgedIsShown'
  BY <1>1 DEF Kinds, Inv, JudgedIsShown, Live, Shown
<1> QED  BY <1>2, <1>3, <1>4, <1>5, <1>6, <1>7, <1>8, <1>9, <1>10, <1>11,
     <1>12 DEF Inv

LEMMA CrashKeepsInv ==
    ASSUME Kinds, Inv, NEW p \in Pushes, Crash(p)
    PROVE  Inv'
<1>1. /\ pc[p] \in Running
      /\ pc' = [pc EXCEPT ![p] = "crashed"]
      /\ UNCHANGED <<seq, nextSeq, recorded, offer, screened, rejected,
             connected, known, seqOf, toInsert, here, attempt,
             commands, landed>>
  BY DEF Crash, Running, shared, ingest, decide
<1>2. /\ NumbersAreTaken' /\ ReadsStayTrue' /\ SeqsAreTopological'
      /\ ConnectedIsClosed' /\ RecordedIsClosed' /\ LandedIsServable'
      /\ LandedAsJudged'
  BY <1>1 DEF Inv, NumbersAreTaken, ReadsStayTrue, SeqsAreTopological,
     ConnectedIsClosed, RecordedIsClosed, LandedIsServable, LandedAsJudged
<1>3. BlocksAreFresh'
  BY <1>1 DEF Kinds, Inv, BlocksAreFresh
<1>4. BlocksAreApart'
  BY <1>1 DEF Kinds, Inv, BlocksAreApart
<1>5. BlocksAreTopological'
  BY <1>1 DEF Kinds, Inv, BlocksAreTopological
<1>6. WithinThePack'
  BY <1>1 DEF Kinds, Inv, WithinThePack
<1>7. PlansAreWhole'
  BY <1>1 DEF Kinds, Inv, PlansAreWhole
<1>8. AttemptsAreLeft'
  BY <1>1 DEF Kinds, Inv, AttemptsAreLeft
<1>9. AppendedIsRecorded'
  BY <1>1 DEF Kinds, Inv, AppendedIsRecorded
<1>10. LiveIsStored'
  BY <1>1 DEF Kinds, Inv, LiveIsStored, Live, Past
<1>11. LandsLast'
  BY <1>1 DEF Kinds, Inv, LandsLast
<1>12. JudgedIsShown'
  BY <1>1 DEF Kinds, Inv, JudgedIsShown, Live, Shown
<1> QED  BY <1>2, <1>3, <1>4, <1>5, <1>6, <1>7, <1>8, <1>9, <1>10, <1>11,
     <1>12 DEF Inv

\* Moves of an application change refs only.
LEMMA StillKeepsInv ==
    ASSUME Inv, UNCHANGED <<seq, nextSeq, recorded, pc, ingest, decide>>
    PROVE  Inv'
<1> USE DEF Inv, ingest, decide
<1>1. /\ NumbersAreTaken' /\ ReadsStayTrue' /\ BlocksAreFresh' /\ BlocksAreApart'
      /\ BlocksAreTopological' /\ SeqsAreTopological'
  BY DEF NumbersAreTaken, ReadsStayTrue, BlocksAreFresh, BlocksAreApart,
     BlocksAreTopological, SeqsAreTopological
<1>2. /\ WithinThePack' /\ PlansAreWhole' /\ AttemptsAreLeft' /\ ConnectedIsClosed'
      /\ RecordedIsClosed' /\ AppendedIsRecorded'
  BY DEF WithinThePack, PlansAreWhole, AttemptsAreLeft, ConnectedIsClosed,
     RecordedIsClosed, AppendedIsRecorded
<1>3. LiveIsStored' /\ LandsLast' /\ LandedIsServable' /\ JudgedIsShown' /\ LandedAsJudged'
  BY DEF LiveIsStored, LandsLast, LandedIsServable, JudgedIsShown, LandedAsJudged,
     Live, Shown
<1> QED  BY <1>1, <1>2, <1>3

-----------------------------------------------------------------------------
(* Types, which rest on the invariant only for the number of attempts and  *)
(* for the size of a block.                                                *)

\* What update_refs makes of the refs is refs.
LEMMA MovedType ==
    ASSUME refs \in [Refs -> Values], NEW granted \in SUBSET Update
    PROVE  Moved(granted) \in [Refs -> Values]
<1> SUFFICES ASSUME NEW r \in Refs, \E u \in granted : u.ref = r
             PROVE  (CHOOSE u \in granted : u.ref = r).new \in Values
  BY DEF Moved
<1> QED  BY DEF Update

LEMMA OfferType ==
    ASSUME TypeOK, NEW p \in Pushes
    PROVE  offer[p] \in [updates : SUBSET Update, pack : SUBSET Oids] /\ IsFiniteSet(offer[p].pack)
<1>1. CASE offer[p] \in Offers
  BY <1>1, OffersAreUpdates, PacksAreFinite
<1>2. CASE offer[p] = [updates |-> {}, pack |-> {}]
  BY <1>2, FS_EmptySet
<1> QED  BY <1>1, <1>2 DEF TypeOK

LEMMA TypesGiveKinds == TypeOK => Kinds
<1> SUFFICES ASSUME TypeOK PROVE Kinds
  OBVIOUS
<1>1. offer \in [Pushes -> [updates : SUBSET Update, pack : SUBSET Oids]]
  <2>1. DOMAIN offer = Pushes /\ offer = [p \in Pushes |-> offer[p]]
    BY DEF TypeOK
  <2> QED  BY <2>1, OfferType
<1>2. \A p \in Pushes : IsFiniteSet(offer[p].pack)
  BY OfferType
<1> QED  BY <1>1, <1>2 DEF TypeOK, Kinds

LEMMA ReceiveKeepsTypes ==
    ASSUME TypeOK, NEW p \in Pushes, NEW o \in Offers, Receive(p, o)
    PROVE  TypeOK'
BY DEF TypeOK, Receive, Running, Values, shared, decide

LEMMA CheckKeepsTypes ==
    ASSUME TypeOK, NEW p \in Pushes, Check(p)
    PROVE  TypeOK'
<1>1. \A u \in offer[p].updates : u.ref \in Refs
  BY OfferType DEF Update
<1>2. /\ NffRejected(p) \subseteq Refs
      /\ RefnameRejected(p) \union NonCommitRejected(p) \union {u.ref : u \in Failing(p)}
           \subseteq Refs
  BY <1>1 DEF NffRejected, RefnameRejected, NonCommitRejected, Failing, ToCheck
<1>3. UNION {Promoted(p, u) : u \in ToCheck(p) \ Failing(p)} \subseteq Commits
  BY DEF Promoted
<1> QED  BY <1>2, <1>3 DEF TypeOK, Check, Running, shared

LEMMA PlanKeepsTypes ==
    ASSUME TypeOK, Inv, NEW p \in Pushes, Plan(p)
    PROVE  TypeOK'
<1>1. Numbers(p) \in [Oids -> Nat]
  BY DEF TypeOK, Numbers
<1>2. connected[p] \ Already(p) \subseteq Commits
  BY DEF TypeOK
<1>3. PackTags(p) \subseteq Oids
  BY DEF PackTags, Tags
<1>4. attempt[p] + 1 \in 0 .. MaxAttempts
  BY AttemptsArePositive DEF Plan, TypeOK, Inv, AttemptsAreLeft
<1>5. toInsert'[p] \subseteq Commits
  BY <1>2 DEF Plan, TypeOK
<1>6. {o \in toInsert'[p] \union PackTags(p) : Numbers(p)[o] = 0} \subseteq Oids
  BY <1>3, <1>5, NamesAreKnown
<1> QED  BY <1>1, <1>2, <1>4, <1>6 DEF TypeOK, Plan, Running, shared, decide

LEMMA AllocateKeepsTypes ==
    ASSUME TypeOK, Inv, NEW p \in Pushes, Allocate(p)
    PROVE  TypeOK'
<1> DEFINE Size(k) == Cardinality({o \in here[p] : Kind(o) = k})
<1>1. \A k : Size(k) \in Nat
  <2>1. IsFiniteSet(here[p])
    BY OfferType, FS_Subset DEF Inv, WithinThePack
  <2> SUFFICES ASSUME NEW k PROVE Size(k) \in Nat
    OBVIOUS
  <2>2. IsFiniteSet({o \in here[p] : Kind(o) = k})
    BY <2>1, FS_Subset
  <2> QED  BY <2>2, FS_CardinalityType
<1>2. nextSeq' = [k \in {"commit", "tag"} |-> nextSeq[k] + Size(k)]
  BY DEF Allocate, TypeOK
<1>3. PICK f \in Blocks(here[p]) :
        seqOf' = [seqOf EXCEPT ![p] =
           [o \in Oids |-> IF o \in here[p] THEN f[o] ELSE seqOf[p][o]]]
  BY DEF Allocate, TypeOK
<1>4. \A o \in here[p] : f[o] \in nextSeq[Kind(o)] .. nextSeq[Kind(o)] + Size(Kind(o)) - 1
  BY <1>3 DEF Blocks
<1> HIDE DEF Size
<1>5. nextSeq' \in [{"commit", "tag"} -> Nat \ {0}]
  BY <1>1, <1>2 DEF TypeOK
<1>6. \A o \in here[p] : f[o] \in Nat
  <2> SUFFICES ASSUME NEW o \in here[p] PROVE f[o] \in Nat
    OBVIOUS
  <2>1. nextSeq[Kind(o)] \in Nat /\ Size(Kind(o)) \in Nat
    BY <1>1, KindFacts DEF TypeOK
  <2> QED  BY <1>4, <2>1
<1>7. seqOf' \in [Pushes -> [Oids -> Nat]]
  BY <1>3, <1>6 DEF TypeOK
<1> QED  BY <1>5, <1>7 DEF TypeOK, Allocate, Running, decide

LEMMA JudgeKeepsTypes ==
    ASSUME TypeOK, NEW p \in Pushes, Judge(p)
    PROVE  TypeOK'
<1> DEFINE D == {[update |-> u, force |-> IsMove(u) /\ ~IsAncestor(u.old, u.new)] :
                   u \in Live(p)}
<1>1. \A u \in Live(p) : u \in Update /\ u.ref \in Refs
  BY OfferType DEF Live, Update
<1>2. \A u : (IsMove(u) /\ ~IsAncestor(u.old, u.new)) \in BOOLEAN
  BY Zenon
<1>3. D \subseteq [update : Update, force : BOOLEAN]
  <2>1. \A u \in Update : \A b \in BOOLEAN :
          [update |-> u, force |-> b] \in [update : Update, force : BOOLEAN]
    OBVIOUS
  <2>2. \A u \in Live(p) : [update |-> u, force |-> IsMove(u) /\ ~IsAncestor(u.old, u.new)]
                             \in [update : Update, force : BOOLEAN]
    BY <1>1, <1>2, <2>1, Zenon
  <2> QED  BY <2>2, Zenon
<1>4. commands' = [commands EXCEPT ![p] = D]
  BY DEF Judge
<1>5. commands' \in [Pushes -> SUBSET [update : Update, force : BOOLEAN]]
  <2> HIDE DEF D
  <2> QED  BY <1>3, <1>4 DEF TypeOK
<1>6. rejected' \in [Pushes -> SUBSET Refs]
  <2>1. PICK refused \in SUBSET {u.ref : u \in Live(p)} :
          rejected' = [rejected EXCEPT ![p] = rejected[p] \union refused]
    BY DEF Judge, TypeOK
  <2>2. refused \subseteq Refs
    BY <1>1
  <2> QED  BY <2>1, <2>2 DEF TypeOK
<1> QED  BY <1>5, <1>6 DEF TypeOK, Judge, Running, shared, ingest

LEMMA ApplyKeepsTypes ==
    ASSUME TypeOK, NEW p \in Pushes, Apply(p)
    PROVE  TypeOK'
<1> DEFINE granted == {u \in ToApply(p) : Grants(u)}
<1>1. granted \in SUBSET Update
  BY OfferType DEF ToApply
<1>2. refs' = Moved(granted) /\ landed' = [landed EXCEPT ![p] = granted]
  BY DEF Apply
<1>3. refs' \in [Refs -> Values]
  BY <1>1, <1>2, MovedType DEF TypeOK
<1>4. landed' \in [Pushes -> SUBSET Update]
  BY <1>1, <1>2 DEF TypeOK
<1> QED  BY <1>3, <1>4 DEF TypeOK, Apply, Running, ingest

LEMMA TellKeepsTypes ==
    ASSUME TypeOK, NEW p \in Pushes, Tell(p)
    PROVE  TypeOK'
<1>1. {c.update.ref : c \in {d \in commands[p] : d.update \in landed[p]}} \subseteq Refs
  <2>1. \A c \in commands[p] : c.update.ref \in Refs
    BY DEF TypeOK, Update
  <2> QED  BY <2>1
<1>2. told' \in [Pushes -> SUBSET Refs]
  BY <1>1 DEF TypeOK, Tell
<1> QED  BY <1>2 DEF TypeOK, Tell, shared, ingest

LEMMA MoveRefsKeepsTypes ==
    ASSUME TypeOK, NEW u \in Calls, MoveRefs(u)
    PROVE  TypeOK'
<1>1. {u} \in SUBSET Update
  BY CallsAreUpdates
<1>2. refs' \in [Refs -> Values]
  BY <1>1, MovedType DEF TypeOK, MoveRefs
<1> QED  BY <1>2 DEF TypeOK, MoveRefs, ingest, decide

LEMMA NextKeepsTypes == ASSUME TypeOK, Inv, [Next]_vars PROVE TypeOK'
<1>1. ASSUME NEW p \in Pushes, Upload(p) PROVE TypeOK'
  BY <1>1 DEF TypeOK, Upload, Running, shared, decide
<1>2. ASSUME NEW p \in Pushes, Number(p) PROVE TypeOK'
  BY <1>2 DEF TypeOK, Number, Running, ingest, decide
<1>3. ASSUME NEW p \in Pushes, Retry(p) PROVE TypeOK'
  BY <1>3 DEF TypeOK, Retry, Running, shared, ingest, decide
<1>4. ASSUME NEW p \in Pushes, Journal(p) PROVE TypeOK'
  BY <1>4 DEF TypeOK, Journal, Running, ingest, decide
<1>5. ASSUME NEW p \in Pushes, Crash(p) PROVE TypeOK'
  BY <1>5 DEF TypeOK, Crash, shared, ingest, decide
<1>6. CASE UNCHANGED vars
  BY <1>6 DEF TypeOK, vars, shared, ingest, decide
<1> QED
  BY <1>1, <1>2, <1>3, <1>4, <1>5, <1>6, ReceiveKeepsTypes, CheckKeepsTypes,
     PlanKeepsTypes, AllocateKeepsTypes, JudgeKeepsTypes, ApplyKeepsTypes,
     TellKeepsTypes, MoveRefsKeepsTypes DEF Next, Step

-----------------------------------------------------------------------------
LEMMA InitInv == Init => TypeOK /\ Inv
<1> SUFFICES ASSUME Init PROVE TypeOK /\ Inv
  OBVIOUS
<1>1. TypeOK
  BY AttemptsArePositive DEF Init, TypeOK, Values
<1>2. /\ NumbersAreTaken /\ ReadsStayTrue /\ BlocksAreFresh /\ BlocksAreApart
      /\ BlocksAreTopological /\ SeqsAreTopological
  BY KindFacts DEF Init, NumbersAreTaken, ReadsStayTrue, BlocksAreFresh,
     BlocksAreApart, BlocksAreTopological, SeqsAreTopological
<1>3. /\ WithinThePack /\ PlansAreWhole /\ AttemptsAreLeft /\ ConnectedIsClosed
      /\ RecordedIsClosed /\ AppendedIsRecorded
  BY DEF Init, WithinThePack, PlansAreWhole, AttemptsAreLeft, ConnectedIsClosed,
     RecordedIsClosed, AppendedIsRecorded
<1>4. LiveIsStored /\ LandsLast /\ LandedIsServable /\ JudgedIsShown /\ LandedAsJudged
  BY DEF Init, LiveIsStored, LandsLast, LandedIsServable, JudgedIsShown,
     LandedAsJudged, Past
<1> QED  BY <1>1, <1>2, <1>3, <1>4 DEF Inv

LEMMA NextKeepsInv == ASSUME TypeOK, Inv, [Next]_vars PROVE Inv'
<1>1. Kinds
  BY TypesGiveKinds
<1>2. ASSUME NEW u \in Calls, MoveRefs(u) PROVE Inv'
  BY <1>2, StillKeepsInv DEF MoveRefs
<1>3. CASE UNCHANGED vars
  BY <1>3, StillKeepsInv DEF vars, shared
<1> QED
  BY <1>1, <1>2, <1>3, ReceiveKeepsInv, CheckKeepsInv, UploadKeepsInv, PlanKeepsInv,
     AllocateKeepsInv, NumberKeepsInv, RetryKeepsInv, JournalKeepsInv, JudgeKeepsInv,
     ApplyKeepsInv, TellKeepsInv, CrashKeepsInv DEF Next, Step

LEMMA Invariance == Spec => [](TypeOK /\ Inv)
<1>1. TypeOK /\ Inv /\ [Next]_vars => (TypeOK /\ Inv)'
  BY NextKeepsTypes, NextKeepsInv
<1> QED  BY <1>1, InitInv, PTL DEF Spec

\* Every variable of the store and of the pushes keeps its type; above all no
\* push makes more attempts than MAX_APPEND_ATTEMPTS.
THEOREM TypeCorrect == Spec => []TypeOK
BY Invariance, PTL

\* Seq order is topological order and a number has one owner of its kind,
\* however many pushes number the same or related commits at once.
THEOREM NumbersAreTopological == Spec => []SeqsAreTopological
<1>1. Inv => SeqsAreTopological
  BY DEF Inv
<1> QED  BY <1>1, Invariance, PTL

\* No walk from a recorded commit meets a gap: whichever pushes crashed, lost
\* a race or ran side by side, an entry's parents have entries.
THEOREM IndexIsClosed == Spec => []RecordedIsClosed
<1>1. Inv => RecordedIsClosed
  BY DEF Inv
<1> QED  BY <1>1, Invariance, PTL

\* A commit that a push lands a ref on has its whole history recorded.
THEOREM LandingsAreServable == Spec => []LandedIsServable
<1>1. Inv => LandedIsServable
  BY DEF Inv
<1> QED  BY <1>1, Invariance, PTL

\* What lands unscreened is what the hook was shown and did not refuse, and
\* a move it was not told was forced is a move forward.
THEOREM LandingsAreJudged == Spec => []LandedAsJudged
<1>1. Inv => LandedAsJudged
  BY DEF Inv
<1> QED  BY <1>1, Invariance, PTL

=============================================================================
