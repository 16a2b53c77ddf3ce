-------------------------------- MODULE Push --------------------------------
(***************************************************************************)
(* Concurrent pushes to one repository, from the first read of the refs to *)
(* the last hook (git/proto/receive_pack.rs, git/ingest).                  *)
(*                                                                         *)
(* A push screens its updates against refs it read when it arrived, checks *)
(* that each tip is connected, uploads pack images, numbers its objects,   *)
(* records its commits in the index with one journal, asks the application *)
(* what may land, moves refs, and tells the application what landed.       *)
(* Nothing is locked between those steps: other pushes run in every gap,   *)
(* the process may go away in every gap, and the numbering step is the     *)
(* only one at which two pushes of one commit notice each other.           *)
(*                                                                         *)
(* Trees and blobs travel with the commit whose image holds them and are   *)
(* recorded by the same journal, so a commit stands for its whole image.   *)
(* Annotated tags are kept apart because they are stored by their number   *)
(* alone.  Moving refs is one atomic step here, as RefStore shows it is.   *)
(***************************************************************************)
EXTENDS Naturals, FiniteSets

CONSTANTS
    Pushes,     \* pushes, each with a process of its own
    Refs,       \* refnames
    Branches,   \* the refnames under refs/heads/
    Invalid,    \* refnames is_funny_refname refuses
    Shallow,    \* refnames it refuses unless they are deleted
    Oids,       \* object ids of commits and annotated tags
    Commits,    \* those that are commits; the others are tags
    Deps,       \* oid -> a commit's parents, or what a tag points at
    Null,       \* ObjectId::null
    Offers,     \* what a client may push: a set of updates, a pack of oids
    Calls,      \* updates an application may ask for with UpdateRefs
    MaxAttempts \* MAX_APPEND_ATTEMPTS

Tags == Oids \ Commits
Values == Oids \union {Null}
Update == [ref : Refs, old : Values, new : Values]

ASSUME NamesAreKnown ==
    Branches \subseteq Refs /\ Commits \subseteq Oids /\ Null \notin Oids
ASSUME DepsAreOids ==
    Deps \in [Oids -> SUBSET Oids] /\ \A c \in Commits : Deps[c] \subseteq Commits
\* A client names each ref once; a push always has an update (an empty
\* request is a probe and is answered with an empty body).
ASSUME OffersAreUpdates ==
    /\ Offers \subseteq [updates : SUBSET Update \ {{}}, pack : SUBSET Oids]
    /\ \A o \in Offers : \A u, v \in o.updates : u.ref = v.ref => u = v
ASSUME PacksAreFinite == \A o \in Offers : IsFiniteSet(o.pack)
ASSUME CallsAreUpdates == Calls \subseteq Update
ASSUME AttemptsArePositive == MaxAttempts \in Nat \ {0}

VARIABLES
    refs,       \* refname -> oid, Null for a ref not there
    seq,        \* oid -> its number (table object_seqs), 0 for none
    nextSeq,    \* per kind, the next number to hand out (repo_object_seq)
    recorded,   \* commits with an entry in the index: the journals that landed
    pc,         \* per push: where it is
    offer,      \* per push: what the client sent
    existing,   \* per push: the refs as read when the push arrived
    screened,   \* per push: refs screened out as non-fast-forward
    rejected,   \* per push: refs refused, by ingestion or by the hook
    connected,  \* per push: the commits of its pack that will be recorded
    known,      \* per push: the numbers read before promotion, for all attempts
    seqOf,      \* per push: the numbers of this attempt, read or to be given
    toInsert,   \* per push: the commits this attempt will record
    here,       \* per push: the oids this attempt gives a number
    attempt,    \* per push: attempts at append so far
    commands,   \* per push: what the pre-receive hook was shown
    landed,     \* per push: the updates that moved a ref
    told        \* per push: the refs post-receive was told of

shared == <<refs, seq, nextSeq, recorded>>
ingest == <<offer, existing, screened, connected, known, seqOf, toInsert, here, attempt>>
decide == <<rejected, commands, landed, told>>
vars == <<shared, pc, ingest, decide>>

Kind(o) == IF o \in Commits THEN "commit" ELSE "tag"

Running == {"received", "checked", "uploaded", "planned", "allocated",
            "numbered", "appended", "judged", "applied"}

TypeOK ==
    /\ refs \in [Refs -> Values]
    /\ seq \in [Oids -> Nat]
    /\ nextSeq \in [{"commit", "tag"} -> Nat \ {0}]
    /\ recorded \in SUBSET Commits
    /\ pc \in [Pushes -> Running \union {"idle", "done", "failed", "crashed"}]
    /\ offer \in [Pushes -> Offers \union {[updates |-> {}, pack |-> {}]}]
    /\ existing \in [Pushes -> [Refs -> Values]]
    /\ screened \in [Pushes -> SUBSET Refs]
    /\ rejected \in [Pushes -> SUBSET Refs]
    /\ connected \in [Pushes -> SUBSET Commits]
    /\ known \in [Pushes -> [Oids -> Nat]]
    /\ seqOf \in [Pushes -> [Oids -> Nat]]
    /\ toInsert \in [Pushes -> SUBSET Commits]
    /\ here \in [Pushes -> SUBSET Oids]
    /\ attempt \in [Pushes -> 0 .. MaxAttempts]
    /\ commands \in [Pushes -> SUBSET [update : Update, force : BOOLEAN]]
    /\ landed \in [Pushes -> SUBSET Update]
    /\ told \in [Pushes -> SUBSET Refs]

Init ==
    /\ refs = [r \in Refs |-> Null]
    /\ seq = [o \in Oids |-> 0]
    /\ nextSeq = [k \in {"commit", "tag"} |-> 1]
    /\ recorded = {}
    /\ pc = [p \in Pushes |-> "idle"]
    /\ offer = [p \in Pushes |-> [updates |-> {}, pack |-> {}]]
    /\ existing = [p \in Pushes |-> [r \in Refs |-> Null]]
    /\ screened = [p \in Pushes |-> {}]
    /\ rejected = [p \in Pushes |-> {}]
    /\ connected = [p \in Pushes |-> {}]
    /\ known = [p \in Pushes |-> [o \in Oids |-> 0]]
    /\ seqOf = [p \in Pushes |-> [o \in Oids |-> 0]]
    /\ toInsert = [p \in Pushes |-> {}]
    /\ here = [p \in Pushes |-> {}]
    /\ attempt = [p \in Pushes |-> 0]
    /\ commands = [p \in Pushes |-> {}]
    /\ landed = [p \in Pushes |-> {}]
    /\ told = [p \in Pushes |-> {}]

-----------------------------------------------------------------------------
(* What the index answers.                                                 *)

\* is_stored: a commit once its entry landed, a tag once it has a number.
Stored(o) == IF o \in Commits THEN o \in recorded ELSE seq[o] # 0

\* Everything reached from o by following the links of the members of S.
Reach(o, S) ==
    {x \in Oids : \A T \in SUBSET Oids :
        (o \in T /\ \A y \in T \intersect S : Deps[y] \subseteq T) => x \in T}

\* Mutant: a number is taken for an entry.
ConnectedByNumber(tip, pack) == \A x \in Reach(tip, pack) \ pack : seq[x] # 0

\* check_connectivity: links are followed inside the pack, and whatever lies
\* outside it must be stored.
Connected(tip, pack) == \A x \in Reach(tip, pack) \ pack : Stored(x)

\* Mutant: numbers are compared instead of walking the graph.
IsAncestorByNumber(old, new) ==
    {old, new} \subseteq Commits /\ seq[old] \in 1 .. seq[new]

\* is_ancestor, answered by walking what the graph holds; an oid with no
\* commit number is nobody's ancestor.
IsAncestor(old, new) ==
    /\ {old, new} \subseteq Commits
    /\ seq[old] # 0 /\ seq[new] # 0
    /\ old \in Reach(new, recorded)

-----------------------------------------------------------------------------
(* Ingestion.                                                              *)

\* receive_pack: the updates are parsed and the refs they name are read.
Receive(p, o) ==
    /\ pc[p] = "idle"
    /\ offer' = [offer EXCEPT ![p] = o]
    /\ existing' = [existing EXCEPT ![p] =
         [r \in Refs |-> IF \E u \in o.updates : u.ref = r THEN refs[r] ELSE Null]]
    /\ pc' = [pc EXCEPT ![p] = "received"]
    /\ UNCHANGED <<shared, screened, connected, known, seqOf, toInsert, here, attempt, decide>>

\* nff_rejected_refs: moves whose old id is not what the ref was read at.
NffRejected(p) ==
    {u.ref : u \in {v \in offer[p].updates :
        v.old # Null /\ v.new # Null /\ v.old # existing[p][v.ref]}}

\* is_funny_refname: one level under refs/ is enough only to be deleted.
Funny(u) == u.ref \in Invalid \/ (u.ref \in Shallow /\ u.new # Null)

RefnameRejected(p) == {u.ref : u \in {v \in offer[p].updates : Funny(v)}}

\* non_commit_branch_updates: only what this pack itself shows to be a tag.
NonCommitRejected(p) ==
    {u.ref : u \in {v \in offer[p].updates :
        v.ref \in Branches /\ v.new \in offer[p].pack \intersect Tags}}

PreScreened(p) == NffRejected(p) \union RefnameRejected(p) \union NonCommitRejected(p)

ToCheck(p) == {u \in offer[p].updates : u.new # Null /\ u.ref \notin PreScreened(p)}

\* Mutant: the outcome of the connectivity walk is not looked at.
FailingNone(p) == {}

Failing(p) == {u \in ToCheck(p) : ~Connected(u.new, offer[p].pack)}

\* The commits of the pack that a connected tip reaches.
Promoted(p, u) == Reach(u.new, offer[p].pack) \intersect offer[p].pack \intersect Commits

\* finalize, up to promotion: updates are screened and tips checked for
\* connectivity.  A screened ref is not rejected: only skipped.
Check(p) ==
    /\ pc[p] = "received"
    /\ screened' = [screened EXCEPT ![p] = NffRejected(p)]
    /\ rejected' = [rejected EXCEPT ![p] =
         RefnameRejected(p) \union NonCommitRejected(p) \union {u.ref : u \in Failing(p)}]
    /\ connected' = [connected EXCEPT ![p] =
         UNION {Promoted(p, u) : u \in ToCheck(p) \ Failing(p)}]
    /\ pc' = [pc EXCEPT ![p] = "checked"]
    /\ UNCHANGED <<shared, offer, existing, known, seqOf, toInsert, here, attempt, commands, landed, told>>

\* Every tag of the pack is put and numbered, connected or not.
PackTags(p) == offer[p].pack \intersect Tags

\* upload_staged_ordered: identities are read once for the whole push, images
\* and tags are put.  A push with nothing to record goes straight on.
Upload(p) ==
    /\ pc[p] = "checked"
    /\ known' = [known EXCEPT ![p] = seq]
    /\ pc' = [pc EXCEPT ![p] =
         IF connected[p] \union PackTags(p) = {} THEN "appended" ELSE "uploaded"]
    /\ UNCHANGED <<shared, offer, existing, screened, connected, seqOf, toInsert, here, attempt, decide>>

\* The numbers an attempt starts from: what was read before the first, what
\* is there now for every retry.
Numbers(p) == IF attempt[p] = 0 THEN known[p] ELSE seq

\* Commits that need no entry: "Recorded, not merely numbered".
Already(p) == {c \in connected[p] : Numbers(p)[c] # 0 /\ c \in recorded}

\* plan_commits, plan_objects, the reads: commits that are numbered and have
\* an entry are left out, commits and tags without a number will take one.
Plan(p) ==
    /\ pc[p] = "uploaded"
    /\ seqOf' = [seqOf EXCEPT ![p] = Numbers(p)]
    /\ toInsert' = [toInsert EXCEPT ![p] = connected[p] \ Already(p)]
    /\ here' = [here EXCEPT ![p] =
         {o \in toInsert'[p] \union PackTags(p) : Numbers(p)[o] = 0}]
    /\ attempt' = [attempt EXCEPT ![p] = @ + 1]
    /\ pc' = [pc EXCEPT ![p] = "planned"]
    /\ UNCHANGED <<shared, offer, existing, screened, connected, known, decide>>

\* The new numbers of a batch: one block per kind, children after parents.
Blocks(S) ==
    LET last(k) == nextSeq[k] + Cardinality({o \in S : Kind(o) = k}) - 1 IN
    {f \in [S -> 1 .. last("commit") + last("tag")] :
        /\ \A o \in S : f[o] \in nextSeq[Kind(o)] .. last(Kind(o))
        /\ \A o, q \in S : o # q /\ Kind(o) = Kind(q) => f[o] # f[q]
        /\ \A c \in S \intersect Commits : \A q \in Deps[c] \intersect S : f[q] < f[c]}

\* ids.allocate, and build_commit, which fails on a parent with no number.
Allocate(p) ==
    /\ pc[p] = "planned"
    /\ \E f \in Blocks(here[p]) :
         seqOf' = [seqOf EXCEPT ![p] = [o \in Oids |-> IF o \in here[p] THEN f[o] ELSE @[o]]]
    /\ nextSeq' = [k \in DOMAIN nextSeq |->
         nextSeq[k] + Cardinality({o \in here[p] : Kind(o) = k})]
    /\ pc' = [pc EXCEPT ![p] =
         IF \E c \in toInsert[p] : \E q \in Deps[c] : seqOf'[p][q] = 0
           THEN "failed" ELSE "allocated"]
    /\ UNCHANGED <<refs, seq, recorded, offer, existing, screened, connected, known,
                   toInsert, here, attempt, decide>>

\* Mutant: nothing makes an identity unique.
RacedNever(p) == FALSE

\* ids.record: all of the batch or, if any of it has a number by now, none.
Raced(p) == \E o \in here[p] : seq[o] # 0

Number(p) ==
    /\ pc[p] = "allocated"
    /\ ~Raced(p)
    /\ seq' = [o \in Oids |-> IF o \in here[p] THEN seqOf[p][o] ELSE seq[o]]
    /\ pc' = [pc EXCEPT ![p] = "numbered"]
    /\ UNCHANGED <<refs, nextSeq, recorded, ingest, decide>>

\* Mutant: only the record is tried again, under the numbers that lost.
RetryRecordOnly(p) ==
    /\ pc[p] = "allocated"
    /\ Raced(p)
    /\ UNCHANGED vars

\* append: a lost race is tried again from a fresh read, a bounded number of
\* times, after which the push fails.
Retry(p) ==
    /\ pc[p] = "allocated"
    /\ Raced(p)
    /\ pc' = [pc EXCEPT ![p] = IF attempt[p] < MaxAttempts THEN "uploaded" ELSE "failed"]
    /\ UNCHANGED <<shared, ingest, decide>>

\* ledger.commit: everything this attempt records lands in one transaction.
Journal(p) ==
    /\ pc[p] = "numbered"
    /\ recorded' = recorded \union toInsert[p]
    /\ pc' = [pc EXCEPT ![p] = "appended"]
    /\ UNCHANGED <<refs, seq, nextSeq, ingest, decide>>

-----------------------------------------------------------------------------
(* Deciding and landing.                                                   *)

\* Updates neither screened nor rejected: what the hook is shown.
Live(p) == {u \in offer[p].updates : u.ref \notin screened[p] \union rejected[p]}

IsMove(u) == u.old # Null /\ u.new # Null

\* pre_receive: the application refuses any of the commands it is shown.
Judge(p) ==
    /\ pc[p] = "appended"
    /\ commands' = [commands EXCEPT ![p] =
         {[update |-> u, force |-> IsMove(u) /\ ~IsAncestor(u.old, u.new)] : u \in Live(p)}]
    /\ \E refused \in SUBSET {u.ref : u \in Live(p)} :
         rejected' = [rejected EXCEPT ![p] = @ \union refused]
    /\ pc' = [pc EXCEPT ![p] = "judged"]
    /\ UNCHANGED <<shared, ingest, landed, told>>

\* What update_refs grants (RefStore), judged against the refs of now.
Grants(u) ==
    /\ ~Funny(u)
    /\ u.old = refs[u.ref] \/ (u.old = Null /\ u.new = Null)
    /\ u.ref \in Branches /\ u.new # Null => u.new \in Commits /\ seq[u.new] # 0

\* A set of granted updates, no two of one ref, changes the refs.
Moved(granted) ==
    [r \in Refs |-> IF \E u \in granted : u.ref = r
                      THEN (CHOOSE u \in granted : u.ref = r).new ELSE refs[r]]

\* resolve_ref_updates: what is not rejected goes to update_refs.
ToApply(p) == {u \in offer[p].updates : u.ref \notin rejected[p]}

Apply(p) ==
    LET granted == {u \in ToApply(p) : Grants(u)} IN
    /\ pc[p] = "judged"
    /\ refs' = Moved(granted)
    /\ landed' = [landed EXCEPT ![p] = granted]
    /\ pc' = [pc EXCEPT ![p] = "applied"]
    /\ UNCHANGED <<seq, nextSeq, recorded, ingest, rejected, commands, told>>

\* post_receive: the commands that landed, if the application can be reached.
Tell(p) ==
    /\ pc[p] = "applied"
    /\ told' = [told EXCEPT ![p] =
         {c.update.ref : c \in {d \in commands[p] : d.update \in landed[p]}}]
    /\ pc' = [pc EXCEPT ![p] = "done"]
    /\ UNCHANGED <<shared, ingest, rejected, commands, landed>>

\* The process, or a store it needs, goes away; a hook does not answer for
\* every command.  Whatever has landed stays.
Crash(p) ==
    /\ pc[p] \in Running
    /\ pc' = [pc EXCEPT ![p] = "crashed"]
    /\ UNCHANGED <<shared, ingest, decide>>

\* move_refs: an application moves a ref to something already stored.
MoveRefs(u) ==
    /\ u.new # Null => Stored(u.new)
    /\ Grants(u)
    /\ refs' = Moved({u})
    /\ UNCHANGED <<seq, nextSeq, recorded, pc, ingest, decide>>

Step(p) ==
    \/ Check(p) \/ Upload(p) \/ Plan(p) \/ Allocate(p) \/ Number(p) \/ Retry(p)
    \/ Journal(p) \/ Judge(p) \/ Apply(p) \/ Tell(p)

Next ==
    \/ \E p \in Pushes : (\E o \in Offers : Receive(p, o)) \/ Step(p) \/ Crash(p)
    \/ \E u \in Calls : MoveRefs(u)

Spec == Init /\ [][Next]_vars

\* A push that is running keeps running until it ends or crashes.
FairSpec == Spec /\ \A p \in Pushes : WF_vars(Step(p))

-----------------------------------------------------------------------------
(* Properties.                                                             *)

\* Seq order is topological order: a numbered commit's parents are numbered,
\* lower, and no two oids of a kind share a number, whichever pushes gave
\* them (graph-store/write.rs:321, append.rs plan_commits).
SeqsAreTopological ==
    \A c \in Oids : seq[c] # 0 =>
       /\ c \in Commits => \A q \in Deps[c] : seq[q] \in 1 .. seq[c] - 1
       /\ \A o \in Oids \ {c} : Kind(o) = Kind(c) => seq[o] # seq[c]

\* The index is closed: an entry's parents have entries, so no walk from a
\* recorded commit meets a gap, whichever pushes crashed (append.rs).
RecordedIsClosed == \A c \in recorded : Deps[c] \subseteq recorded /\ seq[c] # 0

\* A commit that a push lands a ref on, other than through a screened update,
\* has its whole history recorded (connectivity.rs check_connectivity).
LandedIsServable ==
    \A p \in Pushes : \A u \in landed[p] :
       u.ref \notin screened[p] /\ u.new \in Commits => Reach(u.new, Oids) \subseteq recorded

\* An update that lands unscreened was shown to the hook and not refused, and
\* was called a force unless the ref really moved forward, although the refs
\* and the graph changed between the screening, the hook and the landing
\* (hooks.rs pre_receive, ref_updates.rs apply_ref_updates).
LandedAsJudged ==
    \A p \in Pushes : \A u \in landed[p] : u.ref \notin screened[p] =>
       /\ u.ref \notin rejected[p]
       /\ \E c \in commands[p] :
            /\ c.update = u
            /\ IsMove(u) /\ ~c.force => u.old \in Reach(u.new, Oids)

\* A push that nothing stops ends with its refs decided: neither a race nor
\* what a crashed push left behind makes it fail (append.rs append).
EveryPushIsAnswered ==
    \A p \in Pushes : pc[p] = "received" ~> pc[p] \in {"done", "crashed"}

-----------------------------------------------------------------------------
(* What comments of the code say and the model does not bear out.          *)

\* "Pre-screened updates never reach the ref store" (session.rs:171), so
\* whatever lands was shown to pre-receive.
EveryLandingWasJudged ==
    \A p \in Pushes : \A u \in landed[p] : \E c \in commands[p] : c.update = u

\* "a ref this repository cannot serve from is the one thing this function
\* exists to refuse" (retrieve/src/lib.rs move_refs).
RefsAreServable ==
    \A r \in Refs : refs[r] # Null => \A o \in Reach(refs[r], Oids) : Stored(o)
=============================================================================
