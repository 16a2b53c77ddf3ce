------------------------------ MODULE Service ------------------------------
(***************************************************************************)
(* What the gRPC services answer: a listing of repositories taken page by  *)
(* page while others create and delete, a tree listed under a budget, the  *)
(* files two commits differ in, a history in pages, an object in chunks,   *)
(* and the requests that read a batch of entries.                          *)
(*                                                                         *)
(* A listing is a conversation, one page a step.  The other calls compute  *)
(* from immutable objects, so each is one step from a job to its answer.   *)
(*                                                                         *)
(* Sources: server/app/src/{grpc,repo_key}.rs, retrieve/src/{trees,fetch}, *)
(* graph/src/diff.rs, server/postgres/src/repos.rs.                        *)
(***************************************************************************)
EXTENDS Naturals, Sequences, FiniteSets, FiniteSetsExt, SequencesExt

CONSTANTS
    AllKeys,      \* the keys repositories may have: sequences of characters
    AskedPrefixes,     \* the prefixes a listing may ask for
    Collation,    \* the order of the database: <<a, b>> when a sorts before b
    MaxKeyBytes,  \* MAX_REPO_KEY_BYTES
    RepositoryLimit,  \* REPOSITORY_LIMIT
    MaxChanges,   \* bound: creates and deletes during a listing
    Shapes,       \* sets of trees: tree -> its entries
    EntryLimits,  \* TREE_ENTRY_LIMIT, DIFF_CHANGE_LIMIT
    ReadLimits,   \* DIFF_TREE_READ_LIMIT
    BatchChanges, \* DIFF_BATCH_CHANGES
    CommitLimit,  \* COMMIT_LIMIT
    ChunkBytes,   \* OBJECT_CHUNK_BYTES
    MaxDeltaChain,\* MAX_DELTA_CHAIN
    Gap, Span,    \* RUN_GAP_BYTES, RUN_SPAN_BYTES
    Placements    \* the batches of entries to read: sets of <<segment, offset, length>>

ASSUME ListingAssumption ==
    /\ IsFiniteSet(AllKeys) /\ AllKeys \subseteq Seq(Nat) /\ AskedPrefixes \subseteq Seq(Nat)
    /\ RepositoryLimit \in Nat \ {0}

\* prefix_upper_bound: the last character, one up; none for an empty prefix.
UpperBound(p) == [p EXCEPT ![Len(p)] = @ + 1]

\* What the database compares: keys, prefixes, their bounds, and no key yet.
Strings == AllKeys \cup AskedPrefixes \cup {UpperBound(p) : p \in AskedPrefixes \ {<<>>}} \cup {<<>>}

\* A total order in which nothing comes before the empty string.
IsCollation(C) ==
    /\ \A a \in Strings : <<a, a>> \notin C
    /\ \A a, b, c \in Strings : <<a, b>> \in C /\ <<b, c>> \in C => <<a, c>> \in C
    /\ \A a, b \in Strings : a = b \/ <<a, b>> \in C \/ <<b, a>> \in C
    /\ \A a \in Strings : <<a, <<>>>> \notin C

\* It is chosen when the database is created, and not by this code.
ASSUME CollationAssumption == IsCollation(Collation)

VARIABLES
    keys,         \* keys of live repositories
    listing,      \* the listing under way
    throughout,   \* keys that were live from its first page on
    ever,         \* keys that were live at some time
    changes,      \* creates and deletes so far
    job           \* a call, then its answer

lvars == <<keys, listing, throughout, ever, changes>>
svars == <<lvars, job>>

---------------------------------------------------------------------------
(* Keys *)

\* Characters 0: punctuation, 1 and 2: letters, 3: outside the alphabet.
KeyChar(c) == c # 3
Letter(c) == c \in {1, 2}

IsKey(k) ==
    /\ k # <<>> /\ Len(k) <= MaxKeyBytes /\ \A i \in DOMAIN k : KeyChar(k[i])
    /\ Letter(k[1]) /\ Letter(k[Len(k)])

CheckPrefix(p) == Len(p) <= MaxKeyBytes /\ \A i \in DOMAIN p : KeyChar(p[i])

\* Byte order.
Less(a, b) ==
    \/ \E n \in DOMAIN a \cap DOMAIN b :
         a[n] < b[n] /\ \A m \in 1 .. (n - 1) : a[m] = b[m]
    \/ Len(a) < Len(b) /\ \A m \in DOMAIN a : a[m] = b[m]

\* The element with i - 1 before it stands at place i.
Sorted(S, Op(_, _)) ==
    [i \in 1 .. Cardinality(S) |-> CHOOSE x \in S : Cardinality({y \in S : Op(y, x)}) = i - 1]

SortsBefore(a, b) == <<a, b>> \in Collation

InOrder(S) == Sorted(S, SortsBefore)

Inside(p, k) ==
    /\ ~ SortsBefore(k, p)
    /\ p # <<>> => SortsBefore(k, UpperBound(p))

Take(s, n) == IF n < Len(s) THEN SubSeq(s, 1, n) ELSE s

\* page_by_key: live keys past the token and inside the prefix, in order.
PageByKey(p, after, limit) ==
    Take(InOrder({k \in keys : SortsBefore(after, k) /\ Inside(p, k)}), limit)

PageLimit(asked, max) == IF asked = 0 \/ max < asked THEN max ELSE asked

NoListing == [at |-> "none"]

ListInit ==
    /\ keys \in SUBSET {k \in AllKeys : IsKey(k)}
    /\ listing = NoListing /\ throughout = {} /\ ever = {} /\ changes = 0

\* The client's first call.
StartListing(p, asked) ==
    /\ listing = NoListing
    /\ listing' = [at |-> "paging", prefix |-> p, token |-> <<>>, asked |-> asked, got |-> <<>>]
    /\ throughout' = keys /\ ever' = keys
    /\ UNCHANGED <<keys, changes, job>>

\* Mutant: the token is the first key the page left out, and is skipped.
NextTokenPast(held, limit) == held[limit + 1]

\* The token is the last key given out.
NextToken(held, limit) == held[limit]

\* list_repositories: one more than the page is read, to know if there is
\* more; a token outside the prefix, or a prefix no key has, is refused.
ListRepositories ==
    /\ listing.at = "paging"
    /\ LET limit == PageLimit(listing.asked, RepositoryLimit)
           held == PageByKey(listing.prefix, listing.token, limit + 1)
           more == Len(held) > limit
       IN  listing' =
             IF \/ ~ CheckPrefix(listing.prefix)
                \/ listing.token # <<>> /\ ~ (IsKey(listing.token) /\ IsPrefix(listing.prefix, listing.token))
             THEN [listing EXCEPT !.at = "refused"]
             ELSE [listing EXCEPT !.at = IF more THEN "paging" ELSE "done",
                                  !.token = IF more THEN NextToken(held, limit) ELSE <<>>,
                                  !.got = @ \o Take(held, limit)]
    /\ UNCHANGED <<keys, throughout, ever, changes, job>>

\* create_repository: a key already taken is answered with what holds it.
CreateKey(k) ==
    /\ listing.at = "paging" /\ changes < MaxChanges /\ IsKey(k)
    /\ keys' = keys \cup {k} /\ ever' = ever \cup {k} /\ changes' = changes + 1
    /\ UNCHANGED <<listing, throughout, job>>

\* delete_repository: nothing to delete is answered alike.
DeleteKey(k) ==
    /\ listing.at = "paging" /\ changes < MaxChanges /\ IsKey(k)
    /\ keys' = keys \ {k} /\ throughout' = throughout \ {k} /\ changes' = changes + 1
    /\ UNCHANGED <<listing, ever, job>>

---------------------------------------------------------------------------
(* Trees *)

\* An entry is [name, oid, is]; a gitlink is no entry of a walk.
ListedEntries(shape, t) == {e \in shape[t] : e.is # "link"}
ByName(S) == Sorted(S, LAMBDA a, b : a.name < b.name)
SubTrees(shape, t) == {e.oid : e \in {x \in shape[t] : x.is = "tree"}}

\* A level is read whole, and the budget looked at after it.
Reads(found, limit, level) == found \cup level

\* trees_under: breadth first by the object index, each tree once, until more
\* trees are found than entries may be listed.
TreesUnder(shape, root, limit) ==
    LET round[n \in 0 .. Cardinality(DOMAIN shape)] ==
          IF n = 0 THEN [found |-> {root}, frontier |-> {root}]
          ELSE LET last == round[n - 1]
                   level == UNION {SubTrees(shape, t) : t \in last.frontier} \ last.found
               IN  IF Cardinality(last.found) > limit \/ level = {} THEN [last EXCEPT !.frontier = {}]
                   ELSE [found |-> Reads(last.found, limit, level), frontier |-> level]
    IN  round[Cardinality(DOMAIN shape)].found

\* levels, one depth: the entries under every tree of the one above that was
\* read, in order, each with its path and object.
Below(shape, read, level) ==
    FlattenSeq([i \in DOMAIN level |->
        IF level[i].is # "tree" \/ level[i].oid \notin read THEN <<>>
        ELSE LET es == ByName(ListedEntries(shape, level[i].oid))
             IN  [j \in DOMAIN es |-> [path |-> level[i].path \o <<es[j].name>>,
                                       oid |-> es[j].oid, is |-> es[j].is]]])

Levels(shape, read, root, limit) ==
    LET top == <<[path |-> <<>>, oid |-> root, is |-> "tree"]>>
        deep == Cardinality(DOMAIN shape) + 1
        walk[n \in 0 .. deep] ==
          IF n = 0 THEN [level |-> top, named |-> 0, levels |-> <<>>, truncated |-> FALSE]
          ELSE LET last == walk[n - 1]
                   found == Below(shape, read, last.level)
               IN  IF last.truncated \/ found = <<>> THEN [last EXCEPT !.level = <<>>]
                   ELSE IF last.named + Len(found) > limit
                   THEN [level |-> <<>>, named |-> limit, truncated |-> TRUE,
                         levels |-> Append(last.levels, Take(found, limit - last.named))]
                   ELSE [level |-> found, named |-> last.named + Len(found), truncated |-> FALSE,
                         levels |-> Append(last.levels, found)]
    IN  walk[deep]

\* list_tree: one batch per level, the last one saying what is missing.
ListTree(q) ==
    LET walk == Levels(q.shape, TreesUnder(q.shape, 1, q.limit), 1, q.limit)
    IN  [i \in DOMAIN walk.levels |->
            [entries |-> walk.levels[i],
             truncated |-> walk.truncated /\ i = Len(walk.levels)]]

---------------------------------------------------------------------------
(* Diffs *)

Gone == [name |-> 0, oid |-> 0, is |-> "gone"]
Named(shape, t, name) ==
    LET at == {e \in (IF t = 0 THEN {} ELSE ListedEntries(shape, t)) : e.name = name}
    IN  IF at = {} THEN Gone ELSE CHOOSE e \in at : TRUE

\* Mutant: a path that changed type is a change and no removal.
FramesBelowKept(shape, f, name) ==
    LET was == Named(shape, f.old, name)
        now == Named(shape, f.new, name)
    IN  [old |-> IF was.is = "tree" /\ now.is \in {"tree", "gone"} THEN was.oid ELSE 0,
         new |-> IF now.is = "tree" THEN now.oid ELSE 0]

\* The trees to compare under one name: a path that changed type has its old
\* side gone and its new side new.
FramesBelow(shape, f, name) ==
    LET was == Named(shape, f.old, name)
        now == Named(shape, f.new, name)
    IN  [old |-> IF was.is = "tree" THEN was.oid ELSE 0,
         new |-> IF now.is = "tree" THEN now.oid ELSE 0]

NamesIn(shape, f) == {e.name : e \in UNION {ListedEntries(shape, t) : t \in {f.old, f.new} \ {0}}}
FrameRead(f, read) == {f.old, f.new} \ {0} \subseteq read

\* diff_trees_with: frames of two trees at one path, both in hand or named as
\* unreadable; identical entries are pruned.
Frames(shape, read, old, new) ==
    LET deep == Cardinality(DOMAIN shape)
        frames[n \in 0 .. deep] ==
          IF n = 0 THEN {f \in {[path |-> <<>>, old |-> old, new |-> new]} : old # new}
          ELSE UNION {{[path |-> f.path \o <<name>>, old |-> FramesBelow(shape, f, name).old,
                        new |-> FramesBelow(shape, f, name).new] :
                         name \in {m \in NamesIn(shape, f) :
                            LET g == FramesBelow(shape, f, m) IN g.old # g.new}} :
                      f \in {x \in frames[n - 1] : FrameRead(x, read)}}
    IN  UNION {frames[n] : n \in 0 .. deep}

Unreadable(shape, read, frames) == UNION {{f.old, f.new} \ {0} : f \in frames} \ read

\* The blobs a frame's names changed, old and new side, 0 for none.
BlobAt(e) == IF e.is = "blob" THEN e.oid ELSE 0
FileChanges(shape, read, frames) ==
    UNION {{c \in {[path |-> f.path \o <<name>>,
                    old |-> BlobAt(Named(shape, f.old, name)),
                    new |-> BlobAt(Named(shape, f.new, name))] : name \in NamesIn(shape, f)} :
              c.old # c.new} : f \in {x \in frames : FrameRead(x, read)}}

\* diff_trees: fetch what a pass could not read and diff again, until nothing
\* is missing or the budget of trees is spent.
DiffTreesRead(shape, old, new, readLimit) ==
    LET round[n \in 0 .. Cardinality(DOMAIN shape)] ==
          IF n = 0 THEN {}
          ELSE LET read == round[n - 1]
                   missing == Unreadable(shape, read, Frames(shape, read, old, new))
               IN  IF missing = {} \/ Cardinality(read) >= readLimit THEN read ELSE read \cup missing
    IN  round[Cardinality(DOMAIN shape)]

\* changed_files: in path order, cut at the limit, in batches, the last one
\* saying that there is more; a batch of its own when there is no other.
ChangedFiles(found, complete, limit) ==
    LET sorted == Sorted(found, LAMBDA a, b : Less(a.path, b.path))
        kept == Take(sorted, limit)
        truncated == Len(sorted) > limit \/ ~complete
        count == (Len(kept) + BatchChanges - 1) \div BatchChanges
        Batch(i) == SubSeq(kept, (i - 1) * BatchChanges + 1, Min({Len(kept), i * BatchChanges}))
    IN  IF count = 0 /\ truncated THEN <<[changes |-> <<>>, truncated |-> TRUE]>>
        ELSE [i \in 1 .. count |-> [changes |-> Batch(i), truncated |-> truncated /\ i = count]]

\* diff_commit, of two commits' root trees (0: a commit without a parent).
DiffCommit(q) ==
    LET Of(read, frames) == ChangedFiles(FileChanges(q.shape, read, frames),
                                         Unreadable(q.shape, read, frames) = {}, q.limit)
        Once(read) == Of(read, Frames(q.shape, read, q.old, q.new))
    IN  Once(DiffTreesRead(q.shape, q.old, q.new, q.reads))

---------------------------------------------------------------------------
(* Reading a batch of entries *)

\* An entry joins the open run of its segment when it starts at or after the
\* run's end, within the gap, and the run stays within its span.
Joins(run, p) ==
    /\ run.segment = p[1] /\ p[2] >= run.end
    /\ p[2] - run.end <= Gap /\ p[2] + p[3] - run.start <= Span

\* runs_of and plan_runs over the sorted, deduplicated placements.
RunsOf(sorted) ==
    FoldLeft(LAMBDA runs, i :
                LET p == sorted[i]
                    open == [segment |-> p[1], start |-> p[2], end |-> p[2] + p[3], covers |-> {i}]
                IN  IF runs # <<>> /\ Joins(Last(runs), p)
                    THEN [runs EXCEPT ![Len(runs)].end = p[2] + p[3],
                                      ![Len(runs)].covers = @ \cup {i}]
                    ELSE Append(runs, open),
             <<>>, [i \in DOMAIN sorted |-> i])

\* read_entries: each run is one request; an entry is its slice.
ReadEntries(q) ==
    LET sorted == Sorted(q.placements, Less)
        runs == RunsOf(sorted)
    IN  [runs |-> runs,
         got |-> UNION {{[place |-> sorted[i], from |-> sorted[i][2] - runs[r].start,
                          start |-> runs[r].start,
                          short |-> sorted[i][2] + sorted[i][3] > runs[r].end] :
                             i \in runs[r].covers} : r \in DOMAIN runs}]

---------------------------------------------------------------------------
(* Objects *)

\* Mutant: whatever is innermost is taken for whole.
RebuildUnbased(chain, hops) == [ok |-> TRUE, content |-> Reverse(chain)]

\* known, and rebuild: a whole entry needs no walk; a delta's chain is walked
\* and must start at the entry it was asked for, stay within its bound and
\* end in a whole entry.  The object's own chain is entries 1 .. q.hops, the
\* last one whole; a walk returned the first q.walked of them.
Rebuild(chain, hops) ==
    IF chain = <<>> \/ Last(chain) # hops THEN [ok |-> FALSE, content |-> <<>>]
    ELSE [ok |-> TRUE, content |-> Reverse(chain)]

ReadObject(q) ==
    IF q.hops = 1 THEN Rebuild(<<1>>, 1)
    ELSE IF q.walked > MaxDeltaChain \/ q.moved \/ q.walked = 0 THEN [ok |-> FALSE, content |-> <<>>]
    ELSE Rebuild([i \in 1 .. q.walked |-> i], q.hops)

\* chunks: split_to, until nothing is left.
Chunks(size) ==
    LET count == (size + ChunkBytes - 1) \div ChunkBytes
    IN  [i \in 1 .. count |-> Min({ChunkBytes, size - (i - 1) * ChunkBytes})]

\* get_object: the header, then the chunks.
GetObject(size) == [size |-> size, chunks |-> Chunks(size)]

\* list_commits: a page walks one commit past itself, and that commit is
\* where the next page resumes; commits are 1 (the root) to the tip.
FirstParentPage(tip, n) == [i \in 1 .. Min({tip, n}) |-> tip - i + 1]

CommitPage(tip, asked) ==
    LET limit == PageLimit(asked, CommitLimit)
        walked == FirstParentPage(tip, limit + 1)
    IN  [commits |-> Take(walked, limit),
         token |-> IF Len(walked) > limit THEN walked[limit + 1] ELSE 0]

ListCommits(q) ==
    LET pages[n \in 0 .. q.tip] ==
          IF n = 0 THEN [said |-> <<>>, token |-> q.tip, most |-> 0]
          ELSE LET last == pages[n - 1]
                   page == CommitPage(last.token, q.asked)
               IN  IF last.token = 0 THEN last
                   ELSE [said |-> last.said \o page.commits, token |-> page.token,
                         most |-> Max({last.most, Len(page.commits)})]
    IN  pages[q.tip]

---------------------------------------------------------------------------
(* What a call that names a repository and an object is refused with *)

\* meta: what the indexes say of an id.  An object is numbered before it is
\* placed (for a tag: before its loose object is written), and may stay so.
HasNumber(o) == o.kind # "none"
IsPlaced(o) == HasNumber(o) /\ o.placed
IsStored(o) == HasNumber(o) /\ (o.placed \/ o.kind = "tag")

\* not_a_commit, when the commit graph knows nothing of an id.
NotACommit(o) ==
    IF ~ IsStored(o) THEN "not_found"
    ELSE IF o.kind = "commit" THEN "internal" ELSE "invalid_argument"

\* object_failed over object: a tag reads by the loose path, where a missing
\* object is a storage fault.
ObjectStatus(o) ==
    IF IsPlaced(o) THEN "ok"
    ELSE IF o.kind = "tag" THEN "internal" ELSE "not_found"

\* tree_failed over root_tree.
TreeStatus(o) ==
    IF ~ IsStored(o) THEN "not_found"
    ELSE IF o.kind \in {"commit", "tree"} THEN "ok" ELSE "invalid_argument"

\* first_parent_page and follow: an id without a commit's number is no commit;
\* a number the graph does not have fails the walk.
WalkStatus(o) ==
    IF o.kind # "commit" THEN NotACommit(o)
    ELSE IF IsPlaced(o) THEN "ok" ELSE "internal"

\* list_commits, and diff_commit when it has to find the parent, walk the
\* graph; diff_commit with a base looks both commits' root trees up.
CommitStatus(o) == IF o.kind = "commit" /\ IsPlaced(o) THEN "ok" ELSE NotACommit(o)

\* resolve: a key that parses and names a live repository.  What is deleted
\* after it keeps its rows until it is purged, and is read all the same.
Resolve(q) ==
    CASE q.repo = "malformed" -> "invalid_argument"
      [] q.repo = "unknown" -> "not_found"
      [] q.repo \in {"held", "going"} -> "ok"

\* describe reads the live rows once more, and finds none of one just deleted.
Described(q) == IF q.repo = "going" THEN "not_found" ELSE "ok"

\* resolve, then require_oid, then the call itself; diff_against is
\* diff_commit with a base, of which the object is either side.
NamedStatus(q) ==
    CASE Resolve(q) # "ok" -> Resolve(q)
      [] Resolve(q) = "ok" /\ q.rpc = "get_repository" -> Described(q)
      [] Resolve(q) = "ok" /\ q.rpc # "get_repository" /\ q.id # "given" -> "invalid_argument"
      [] OTHER -> CASE q.rpc = "get_object" -> ObjectStatus(q.object)
                    [] q.rpc = "list_tree" -> TreeStatus(q.object)
                    [] q.rpc \in {"list_commits", "diff_commit"} -> WalkStatus(q.object)
                    [] q.rpc = "diff_against" -> CommitStatus(q.object)

---------------------------------------------------------------------------
(* Refs *)

\* No prefix is every ref.
Matches(prefixes, name) == prefixes = {} \/ \E p \in prefixes : IsPrefix(p, name)

\* In no order.  HEAD is not among them: the default branch says it.
ListRefs(q) == {n \in q.names : Matches(q.prefixes, n)}

\* One id that does not parse refuses every update of the call.
Malformed == 9
ParseUpdates(q) == \A i \in DOMAIN q.updates : q.updates[i].tip # Malformed

\* move_refs: updates whose tip is not stored are answered here, the others
\* by the ref store, and the answers zipped back by position.  A result also
\* says which of the updates it was made for.
MoveRefs(q) ==
    LET missing == {i \in DOMAIN q.updates : q.updates[i].tip \notin {0} \cup q.stored}
        present == SelectSeq([i \in DOMAIN q.updates |-> i], LAMBDA i : i \notin missing)
        \* The ref store's answer to the k-th update it was given.
        Applied(k) == [refname |-> q.updates[present[k]].refname, result |-> q.verdict, from |-> present[k]]
    IN  [i \in DOMAIN q.updates |->
            IF i \in missing THEN [refname |-> q.updates[i].refname, result |-> "UnknownCommit", from |-> i]
            ELSE Applied(Cardinality({j \in 1 .. i : j \notin missing}))]

\* A rejection is data, and each kind has a reason of its own.
ToWireOutcome(o) ==
    LET reason == [NonFastForward |-> "NON_FAST_FORWARD", AlreadyExists |-> "ALREADY_EXISTS",
                   UnknownCommit |-> "MISSING_OBJECTS", InvalidRefname |-> "INVALID_REFNAME"]
    IN  [refname |-> o.refname, from |-> o.from,
         rejection |-> IF o.result = "Ok" THEN {} ELSE {reason[o.result]}]

UpdateRefs(q) ==
    IF ~ ParseUpdates(q) THEN [status |-> "invalid_argument", outcomes |-> <<>>]
    ELSE [status |-> "ok", outcomes |-> [i \in DOMAIN q.updates |-> ToWireOutcome(MoveRefs(q)[i])]]

---------------------------------------------------------------------------

NoJob == [call |-> "none", q |-> <<>>, answer |-> <<>>]

SInit == ListInit /\ job = NoJob

Idle == job = NoJob /\ listing = NoListing /\ keys = {}

Call(call, q, answer) ==
    /\ job' = [call |-> call, q |-> q, answer |-> answer]
    /\ UNCHANGED lvars

NamedObjects == [kind : {"none", "commit", "tree", "blob", "tag"}, placed : BOOLEAN]

\* The calls that are one step, while no listing is under way.
Answer ==
    \/ \E q \in [shape : Shapes, limit : EntryLimits] : Call("list_tree", q, ListTree(q))
    \/ \E q \in [shape : Shapes, old : 0 .. 2, new : 1 .. 2, limit : EntryLimits, reads : ReadLimits] :
          Call("diff_commit", q, DiffCommit(q))
    \/ \E q \in [placements : Placements] : Call("read_entries", q, ReadEntries(q))
    \/ \E q \in [hops : 1 .. (MaxDeltaChain + 1), walked : 0 .. (MaxDeltaChain + 1), moved : BOOLEAN] :
          q.walked <= q.hops /\ Call("object", q, ReadObject(q))
    \/ \E size \in 0 .. (3 * ChunkBytes) : Call("get_object", [size |-> size], GetObject(size))
    \/ \E q \in [tip : 1 .. (3 * CommitLimit), asked : 0 .. (CommitLimit + 1)] :
          Call("list_commits", q, ListCommits(q))
    \/ \E q \in [rpc : {"get_repository", "get_object", "list_tree", "list_commits", "diff_commit", "diff_against"},
                 repo : {"malformed", "unknown", "held", "going"}, id : {"unset", "malformed", "given"},
                 object : NamedObjects] : Call("named", q, NamedStatus(q))
    \/ \E names \in SUBSET AllKeys, p1, p2 \in AskedPrefixes, some \in BOOLEAN :
          LET q == [names |-> names, prefixes |-> IF some THEN {p1, p2} ELSE {}]
          IN  Call("list_refs", q, ListRefs(q))
    \/ \E q \in [updates : [1 .. 3 -> [refname : 1 .. 2, tip : {0, 1, Malformed}]], stored : SUBSET {1},
                 verdict : {"Ok", "NonFastForward", "AlreadyExists", "InvalidRefname"}] :
          Call("update_refs", q, UpdateRefs(q))

SNext ==
    \/ \E p \in AskedPrefixes, asked \in 0 .. 2 : job = NoJob /\ StartListing(p, asked)
    \/ ListRepositories
    \/ \E k \in AllKeys : CreateKey(k) \/ DeleteKey(k)
    \/ Idle /\ Answer

ServiceSpec == SInit /\ [][SNext]_svars

---------------------------------------------------------------------------

\* The keys between the bounds of a prefix are those that start with it: so
\* for every prefix where the database collates in byte order, and for the
\* empty one whatever it does.
IsRange(p) == \A k \in AllKeys : IsKey(k) => (Inside(p, k) <=> IsPrefix(p, k))

\* A client that follows list_repositories' tokens to the end is given, once
\* each and in the order of the database, whichever that is, every repository
\* between the bounds of its prefix that was there throughout, and none that
\* never was, whatever is created and deleted between its calls.  Where the
\* collation makes the prefix a range these are the repositories under the
\* prefix, and only a prefix no key can have is refused.
ListingsAreComplete ==
    LET got == {listing.got[i] : i \in DOMAIN listing.got}
        Under(k) == IF IsRange(listing.prefix) THEN IsPrefix(listing.prefix, k) ELSE Inside(listing.prefix, k)
    IN
    /\ listing.at = "done" =>
         /\ {k \in throughout : Under(k)} \subseteq got
         /\ got \subseteq {k \in ever : Under(k)}
         /\ \A i, j \in DOMAIN listing.got : i < j => SortsBefore(listing.got[i], listing.got[j])
    /\ listing.at = "refused" => ~ CheckPrefix(listing.prefix) \/ ~ IsRange(listing.prefix)

\* The whole of what a tree lists, in the order of a walk of every tree.
WholeListing(shape) ==
    FlattenSeq(Levels(shape, DOMAIN shape, 1, 1000).levels)

\* What is under a tree and the tree itself, by path.
EntriesUnder(shape, t) ==
    IF t = 0 THEN {}
    ELSE {[path |-> <<>>, is |-> "tree", oid |-> t]} \cup
         {[path |-> e.path, is |-> e.is, oid |-> e.oid] : e \in Range(FlattenSeq(Levels(shape, DOMAIN shape, t, 1000).levels))}

\* list_tree gives a beginning of the whole listing, and says so exactly when
\* it is not the whole.  diff_commit gives true changes in path order, all of
\* them unless it says otherwise; if it was allowed to read as many trees as
\* the two sides differ in, a beginning of them, cut at the limit exactly when
\* it says so.  (Cut by its reads it may leave gaps.)  And every entry
\* read_entries was asked for is cut, whole, from exactly one request, no
\* request of several being longer than its span.
AnswersAreHonest ==
    /\ job.call = "list_tree" =>
         LET parts == [i \in DOMAIN job.answer |-> job.answer[i].entries]
             whole == WholeListing(job.q.shape)
         IN  /\ IsPrefix(FlattenSeq(parts), whole)
             /\ (\E i \in DOMAIN job.answer : job.answer[i].truncated) <=> FlattenSeq(parts) # whole
             /\ \A i \in DOMAIN job.answer : job.answer[i].truncated => i = Len(parts)
    /\ job.call = "diff_commit" =>
         \A was \in {EntriesUnder(job.q.shape, job.q.old)}, now \in {EntriesUnder(job.q.shape, job.q.new)},
            said \in {FlattenSeq([i \in DOMAIN job.answer |-> job.answer[i].changes])} :
         \A changed \in {(was \ now) \cup (now \ was)} :
         \A paths \in {[i \in DOMAIN said |-> said[i].path]},
            truth \in {Sorted({x.path : x \in {y \in changed : y.is = "blob"}}, Less)} :
         LET truncated == \E i \in DOMAIN job.answer : job.answer[i].truncated
             Blob(p, o) == [path |-> p, is |-> "blob", oid |-> o]
         IN  /\ \A c \in Range(said) :
                  /\ c.path \in Range(truth)
                  /\ c.old # 0 <=> Blob(c.path, c.old) \in was
                  /\ c.new # 0 <=> Blob(c.path, c.new) \in now
             /\ \A i, j \in DOMAIN paths : i < j => Less(paths[i], paths[j])
             /\ ~truncated => paths = truth
             /\ Cardinality({x.oid : x \in {y \in changed : y.is = "tree"}}) <= job.q.reads =>
                  /\ paths = Take(truth, job.q.limit)
                  /\ truncated <=> Len(truth) > job.q.limit
    /\ job.call = "read_entries" =>
         /\ {g.place : g \in job.answer.got} = job.q.placements
         /\ Cardinality(job.answer.got) = Cardinality(job.q.placements)
         /\ \A g \in job.answer.got : ~g.short /\ g.start + g.from = g.place[2]
         /\ \A i \in DOMAIN job.answer.runs :
              LET run == job.answer.runs[i]
              IN  Cardinality(run.covers) > 1 => run.end - run.start <= Span

\* A read is an object's own content or an error, never part of it or
\* another's, and no error where the chain is whole, in bounds and unmoved;
\* a history's pages join to the whole of it; an id is refused when its object
\* is of the wrong kind and is "not found" when it is not stored, except where
\* a push has numbered it and died: a tag read by its loose path and a commit
\* whose first parents are walked answer "internal", and no other call does;
\* a listing of refs has what is under its prefixes; and update_refs answers its
\* i-th update in its i-th place, or refuses them all, having moved none.
ReadsAreTrue ==
    /\ job.call = "object" =>
         /\ job.answer.ok => job.answer.content = Reverse([i \in 1 .. job.q.hops |-> i])
         /\ ~job.q.moved /\ job.q.walked = job.q.hops /\ job.q.hops <= MaxDeltaChain => job.answer.ok
    /\ job.call = "get_object" =>
         /\ FoldLeft(LAMBDA a, b : a + b, 0, job.answer.chunks) = job.q.size
         /\ \A i \in DOMAIN job.answer.chunks : job.answer.chunks[i] \in 1 .. ChunkBytes
    /\ job.call = "list_commits" =>
         /\ job.answer.said = [i \in 1 .. job.q.tip |-> job.q.tip - i + 1]
         /\ job.answer.token = 0 /\ job.answer.most <= CommitLimit
    /\ job.call = "named" /\ job.q.rpc = "get_repository" => (job.answer = "ok" <=> job.q.repo = "held")
    /\ job.call = "named" /\ job.q.repo \in {"held", "going"} /\ job.q.id = "given" /\ job.q.rpc # "get_repository" =>
         LET o == job.q.object
             takes == [get_object |-> {"commit", "tree", "blob", "tag"}, list_tree |-> {"commit", "tree"},
                       list_commits |-> {"commit"}, diff_commit |-> {"commit"}, diff_against |-> {"commit"}]
             stranded == \/ o.kind = "tag" /\ job.q.rpc = "get_object"
                         \/ o.kind = "commit" /\ job.q.rpc \in {"list_commits", "diff_commit"}
         IN  /\ IsPlaced(o) => job.answer = IF o.kind \in takes[job.q.rpc] THEN "ok" ELSE "invalid_argument"
             /\ ~IsPlaced(o) /\ o.kind # "tag" /\ ~stranded => job.answer = "not_found"
             /\ job.answer = "internal" <=> ~IsPlaced(o) /\ stranded
    /\ job.call = "list_refs" =>
         job.answer = IF job.q.prefixes = {} THEN job.q.names
                      ELSE UNION {{n \in job.q.names : IsPrefix(p, n)} : p \in job.q.prefixes}
    /\ job.call = "update_refs" =>
         LET said == job.answer.outcomes
             updates == job.q.updates
         IN  IF \E i \in DOMAIN updates : updates[i].tip = Malformed
             THEN job.answer.status = "invalid_argument" /\ said = <<>>
             ELSE /\ DOMAIN said = DOMAIN updates
                  /\ \A i \in DOMAIN said :
                       /\ said[i].from = i /\ said[i].refname = updates[i].refname
                       /\ said[i].rejection = {"MISSING_OBJECTS"} <=> updates[i].tip \notin {0} \cup job.q.stored
                       /\ said[i].rejection = {} => job.q.verdict = "Ok"
===========================================================================
