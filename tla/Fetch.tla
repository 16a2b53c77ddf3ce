-------------------------------- MODULE Fetch --------------------------------
(* Serving a fetch: the advertisement, the rounds of negotiation, the plan   *)
(* of what to send, and the stream of it, to a client that keeps what it is  *)
(* sent and fetches again, with shallow boundaries, depths and filters.      *)
(*                                                                           *)
(* A commit is its seq.  A snapshot maps paths to blobs; the tree object of  *)
(* a commit is its snapshot.  A commit's pack image holds the commit, its    *)
(* root tree unless the first parent has the same one, and the blobs whose   *)
(* path the first parent has otherwise or not at all.  Every commit of the   *)
(* history has a number; those of `recorded' have an entry in the graph and  *)
(* an image, the others belong to pushes that are under way or went away.    *)
EXTENDS Bands, TLC

CONSTANTS
    Histories,      \* the histories a repository may hold
    Deepens,        \* the sets of `deepen' lines a request may carry
    Filters,        \* the sets of `filter' lines
    MaxFetches      \* fetches a client makes

\* Commits are numbered from one, a parent before its children.
ASSUME HistoriesAssumption ==
    \A h \in Histories :
        /\ Len(h.parents) \in Nat /\ DOMAIN h.parents = 1 .. Len(h.parents)
        /\ \A c \in DOMAIN h.parents : Range(h.parents[c]) \subseteq 1 .. c - 1

VARIABLES
    repo,           \* [parents, snapshot, tags, refs]
    recorded,       \* commits the graph store holds
    client,         \* what the client has: [has, shallow, partial, left]
    req,            \* the request being served, or NoRequest
    plan            \* what it will be answered with, or NoPlan

vars == <<repo, recorded, client, req, plan>>

NoRequest == [phase |-> "none"]
NoPlan == [needed |-> {}]

History == DOMAIN repo.parents
Commit(c) == <<"commit", c>>
Tree(s) == <<"tree", s>>
Blob(b) == <<"blob", b>>
Tag(t) == <<"tag", t>>

-----------------------------------------------------------------------------
(* What the repository holds                                               *)

Index == [c \in recorded |-> repo.parents[c]]

Whole(snapshot) == {Tree(snapshot)} \union {Blob(snapshot[p]) : p \in DOMAIN snapshot}

BaseSnapshot(c) == IF repo.parents[c] = <<>> THEN <<>> ELSE repo.snapshot[Head(repo.parents[c])]

PackTrees(c) ==
    IF repo.snapshot[c] = BaseSnapshot(c) /\ repo.parents[c] # <<>> THEN {} ELSE {Tree(repo.snapshot[c])}

PackBlobs(c) ==
    LET new == repo.snapshot[c]
        old == BaseSnapshot(c)
    IN  {Blob(new[p]) : p \in {q \in DOMAIN new : q \notin DOMAIN old \/ old[q] # new[q]}}

Trees(S) == UNION {PackTrees(c) : c \in S}
Blobs(S) == UNION {PackBlobs(c) : c \in S}

\* Where the index says an object is: the image of the first commit with it.
Holders(o) == {c \in recorded : o \in PackTrees(c) \union PackBlobs(c)}
Stored(o) == CASE o[1] = "commit" -> o[2] \in recorded
               [] o[1] = "tag" -> o[2] \in DOMAIN repo.tags
               [] OTHER -> Holders(o) # {}

AncestorsIn(parents, S) == Walked(S, [c \in DOMAIN parents |-> Range(parents[c])], Cardinality(DOMAIN parents))
Ancestors(S) == AncestorsIn(repo.parents, S)

\* The bases an entry of c's image may be stored against: what pushes keep to
\* is that the base is in the image of an ancestor, and introduced earlier.
BasesIn(c, o) ==
    {b \in Trees(Ancestors({c})) \union Blobs(Ancestors({c})) :
        b[1] = o[1] /\ b # o /\ Min(Holders(b)) <= Min(Holders(o))}

-----------------------------------------------------------------------------
(* The advertisement                                                       *)

HEAD == "HEAD"
Direct(refs) == {r \in DOMAIN refs : r # HEAD}

\* HEAD goes with the branch it names; one that names no branch yet stays.
HideRefs(refs, visible) ==
    LET hidden(r) == IF r = HEAD THEN refs[HEAD] \in DOMAIN refs /\ refs[HEAD] \notin visible
                     ELSE r \notin visible
    IN  IF Direct(refs) = {} THEN refs
        ELSE [r \in {s \in DOMAIN refs : ~ hidden(s)} |-> refs[r]]

\* The lines of an ls-refs answer; an unborn HEAD names no object.
LsRefs(refs) ==
    {refs[r] : r \in Direct(refs)} \union
    (IF HEAD \in DOMAIN refs /\ refs[HEAD] \in DOMAIN refs THEN {refs[refs[HEAD]]} ELSE {})

-----------------------------------------------------------------------------
(* A request                                                               *)

\* parse_fetch_args refuses a second filter or depth, a depth of zero and every
\* filter but one.
Parsed(r) ==
    /\ r.filters \subseteq {"blob:none"}
    /\ Cardinality(r.deepen) <= 1 /\ 0 \notin r.deepen

Depth(r) == CHOOSE d \in r.deepen : TRUE

Ask ==
    /\ req = NoRequest /\ client.left > 0
    /\ \E visible \in SUBSET Direct(repo.refs),
          haves \in SUBSET {c \in History : Commit(c) \in client.has},
          deepen \in Deepens, filters \in Filters, done \in BOOLEAN,
          loose \in SUBSET {o \in Blobs(recorded) : client.partial /\ o \notin client.has} :
         LET tips == LsRefs(HideRefs(repo.refs, visible))
         IN  \E tip \in tips \union {Commit(0)} :
             LET wants == ({tip} \ {Commit(0)}) \union loose
             IN  /\ client.partial => filters # {}
                 /\ Cardinality(loose) <= 1 /\ Cardinality(haves) <= 2
                 /\ req' = [phase |-> "asked", wants |-> wants, haves |-> haves, done |-> done,
                            deepen |-> deepen, filters |-> filters, shallow |-> client.shallow]
    /\ client' = [client EXCEPT !.left = @ - 1]
    /\ UNCHANGED <<repo, recorded, plan>>

Refuse ==
    /\ req.phase = "asked" /\ (req.wants = {} \/ ~ Parsed(req))
    /\ req' = NoRequest
    /\ UNCHANGED <<repo, recorded, client, plan>>

\* A round without `done' is answered with the haves this side can serve from;
\* the client comes back with those.
Negotiate ==
    /\ req.phase = "asked" /\ req.wants # {} /\ Parsed(req) /\ ~ req.done
    /\ req' = [req EXCEPT !.haves = @ \intersect recorded, !.done = TRUE]
    /\ UNCHANGED <<repo, recorded, client, plan>>

-----------------------------------------------------------------------------
(* The plan                                                                *)

\* Tags are peeled round by round; every object met must be stored.
Peeled(wants) ==
    Walked(wants, [o \in {Tag(t) : t \in DOMAIN repo.tags} |-> {repo.tags[o[2]]}], Cardinality(DOMAIN repo.tags) + 1)

Resolves(wants) == \A o \in Peeled(wants) : Stored(o) /\ o[1] # "tree"

OfKind(S, kind) == {o \in S : o[1] = kind}
Seqs(S) == {o[2] : o \in OfKind(S, "commit")}

\* Mutant: the deltas pass whenever the client sends no haves.
MayPassDeltasShallow(r) == r.haves = {}

MayPassDeltas(r) == r.haves = {} /\ r.shallow = {} /\ r.deepen = {}

\* The commits of a plain fetch: a graft stops both colours.
NeededCommits(wants, r) ==
    LET Told(w) ==
          [needed |-> w.needed, boundary |-> {}, shallow |-> {}, unshallow |-> {}, covered |-> w.covered]
    IN  Told(PaintedDown(Index, PaintWalk(wants, r.haves, r.shallow, r.shallow)))

\* The commits of a fetch with a depth: within it all are classified; what
\* the client lacks of them is painted, below its old grafts only through the
\* parents of those it may now drop.
NeededCommitsShallow(wants, r) ==
    LET Told(w, covered, boundary, unshallow) ==
          [ needed |-> w.needed, boundary |-> boundary, shallow |-> boundary \ r.shallow,
            unshallow |-> unshallow, covered |-> covered /\ w.covered ]
        Within(sent) ==
          LET commits == {x[1] : x \in sent.sent}
              boundary == {x[1] : x \in {y \in sent.sent : y[2] = Depth(r)}}
              unshallow == (r.shallow \intersect commits) \ boundary
              below == UNION {Range(repo.parents[c]) : c \in unshallow}
          IN  Told(IF r.haves = {} THEN [needed |-> commits, covered |-> TRUE]
                   ELSE PaintedDown(Index, PaintWalk(wants \union below, r.haves,
                                                     boundary \union r.shallow, r.shallow)),
                   sent.covered, boundary, unshallow)
    IN  Within(ClassifiedByDepth(Index, DepthWalk(wants, Depth(r))))

Needed(wants, r) ==
    IF wants = {} THEN [needed |-> {}, boundary |-> {}, shallow |-> {}, unshallow |-> {}, covered |-> TRUE]
    ELSE IF r.deepen = {} THEN NeededCommits(wants, r) ELSE NeededCommitsShallow(wants, r)

\* tree_closure of the boundary's root trees.
TreeClosure(boundary) == UNION {Whole(repo.snapshot[c]) : c \in boundary}

Kept(S, r) == IF "blob:none" \in r.filters THEN S \ OfKind(S, "blob") ELSE S

\* Mutant: of a boundary's snapshot only the trees are backfilled.
BackfillTrees(walked) ==
    OfKind(TreeClosure(walked.boundary), "tree") \ Trees(walked.needed)

Backfill(walked) ==
    TreeClosure(walked.boundary) \ (Trees(walked.needed) \union Blobs(walked.needed))

\* A blob wanted by its id goes out unfiltered, unless the walk has it.
LooseWants(wants, walked) ==
    OfKind(wants, "blob") \ (Blobs(walked.needed) \union TreeClosure(walked.boundary))

ObjectCount(needed, r) ==
    Cardinality(needed) + Cardinality(Trees(needed)) + Cardinality(Kept(Blobs(needed), r))

PlanFetch(r) ==
    LET Planned(all, walked, loose, backfill) ==
          [ ok |-> walked.covered, needed |-> walked.needed,
            tags |-> OfKind(all, "tag"), loose |-> loose \union backfill,
            shallow |-> walked.shallow, unshallow |-> walked.unshallow,
            count |-> ObjectCount(walked.needed, r) + Cardinality(OfKind(all, "tag"))
                          + Cardinality(loose) + Cardinality(backfill),
            deltas |-> MayPassDeltas(r), filters |-> r.filters ]
        Walk(all, walked) == Planned(all, walked, LooseWants(all, walked), Kept(Backfill(walked), r))
        From(all) == Walk(all, Needed(Seqs(all), r))
    IN  IF Resolves(r.wants) THEN From(Peeled(r.wants)) ELSE [ok |-> FALSE]

Plan ==
    /\ req.phase = "asked" /\ req.wants # {} /\ Parsed(req) /\ req.done
    /\ \E p \in {PlanFetch(req)} :
         IF p.ok THEN plan' = p /\ req' = [req EXCEPT !.phase = "streaming"]
         ELSE plan' = NoPlan /\ req' = NoRequest
    /\ UNCHANGED <<repo, recorded, client>>

-----------------------------------------------------------------------------
(* The stream                                                              *)

\* What one image yields under the filter: it is read only up to its blobs.
ImageEntries(c, p) == {Commit(c)} \union PackTrees(c) \union Kept(PackBlobs(c), p)

\* Every source's entries, each object once.
Entries(p) == p.tags \union p.loose \union UNION {ImageEntries(c, p) : c \in p.needed}

\* The bases that go out by name, whichever image an object is taken from.
PassedBases(p) ==
    IF ~ p.deltas THEN {}
    ELSE UNION {UNION {BasesIn(c, o) : o \in ImageEntries(c, p) \ {Commit(c)}} : c \in p.needed}

\* The client moves its boundary and keeps the pack, once it is complete.
Stream ==
    /\ req.phase = "streaming"
    /\ client' = [client EXCEPT !.has = @ \union Entries(plan),
                                !.shallow = (@ \union plan.shallow) \ plan.unshallow,
                                !.partial = @ \/ plan.filters # {}]
    /\ req' = NoRequest /\ plan' = NoPlan
    /\ UNCHANGED <<repo, recorded>>

\* A read fails halfway: an error on the sideband, and the client keeps none.
StreamFails ==
    /\ req.phase = "streaming"
    /\ req' = NoRequest /\ plan' = NoPlan
    /\ UNCHANGED <<repo, recorded, client>>

-----------------------------------------------------------------------------
(* A push by someone else records the next commit.                         *)
Record ==
    /\ \E c \in History \ recorded :
          Range(repo.parents[c]) \subseteq recorded /\ recorded' = recorded \union {c}
    /\ UNCHANGED <<repo, client, req, plan>>

\* The client starts empty, or with the history of a commit it made itself.
Init ==
    /\ repo \in Histories
    /\ recorded \in {1 .. m : m \in 1 .. Cardinality(History)}
    /\ \E own \in {{}} \union {Ancestors({c}) : c \in History} :
          client = [ has |-> UNION {{Commit(c)} \union Whole(repo.snapshot[c]) : c \in own},
                     shallow |-> {}, partial |-> FALSE, left |-> MaxFetches ]
    /\ \A r \in Direct(repo.refs) : Resolves({repo.refs[r]})
    /\ req = NoRequest /\ plan = NoPlan

Next == Ask \/ Refuse \/ Negotiate \/ Plan \/ Stream \/ StreamFails \/ Record

Spec == Init /\ [][Next]_vars

-----------------------------------------------------------------------------
(* Properties                                                              *)

\* Whatever sequence of fetches the client made, clones, deepenings, blobless
\* and shallow ones, and whatever it left out of its haves, each commit it
\* holds has its parents or is on its shallow boundary, and each snapshot is
\* complete, the blobs of a partial clone aside: images cut against a first
\* parent, grafts, paints and backfill together leave no hole.
ClientIsWhole ==
    \A c \in Seqs(client.has) :
        /\ c \in client.shallow \/ \A p \in Range(repo.parents[c]) : Commit(p) \in client.has
        /\ LET whole == Whole(repo.snapshot[c])
           IN  (IF client.partial THEN OfKind(whole, "tree") ELSE whole) \subseteq client.has

\* A delta that goes out as it is stored names a base that goes out too,
\* whichever of an object's images is read first.
PassedBasesAreSent == req.phase = "streaming" => PassedBases(plan) \subseteq Entries(plan)
=============================================================================
