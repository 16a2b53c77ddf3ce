# A TLA+ development of enroute

enroute is a git server whose objects live in an object store and whose
metadata lives in Postgres. Many stateless processes serve one repository, and
nothing but Postgres transactions and the names of objects coordinates them.
This directory models the parts of it where that is hard, checks them with TLC
on small instances and proves the central results with TLAPS.
`docs/internals/quality-assurance.md` of the repository says what its tests do
not reach: "The ref-update protocol is not formally specified or model checked"
and "No read-during-maintenance differential test". Those two are where this
development begins.

## 1. Inventory

| Part | State | Operations | Interacts with |
|---|---|---|---|
| Ref store (`server/postgres/src/refs.rs`) | tables `branches`, `refs` | `update_refs`: one transaction, one statement per ref | identity rows (a branch must name a numbered commit) |
| Identity rows (`rows.rs`) | `object_seqs`, one counter per kind | `allocate`, `record`, `identify` | push, ref store |
| Push (`git/proto`, `git/ingest`) | one session per push | parse, screen, check connectivity, upload, `append`, hooks, land | all of the others |
| Front door (`git/http`, `server/app/src/hooks.rs`) | one request | route, authorize, resolve, advertise, hand over, ask the hooks, report | the application's hooks, push, ref store |
| Pack ingestion (`git/ingest`: resolve, classify, delta_plan, rebuild) | one session | identify entries, plan images, keep or drop deltas, bound chains, encode | object index, pack images |
| Staging area and promotion (`git/ingest/staging`, `upload.rs`) | chunks per session, upload tasks | put, read, drop, startup sweep, pump, join | push, bucket |
| Ingest worker in a Lambda (`server/ingest-lambda`) | staged objects, a kept worker, an answer stream | deliver, invoke, serve, collect | front door, ingestion |
| Graph and object indexes (`git/graph-store`, `git/objects`) | one lattice value per scope | record, relocate, read a range | lattice store, journal |
| Lattice store (`lattice/core`, `lattice/store`) | catalog rows and bucket objects | `write`, `prepare`, `compact`, `sweep_bucket`, `read`, `purge_bucket` | journal, maintenance |
| Journal and ledger (`git/journal`, `postgres/src/ledger.rs`) | what one transaction lands | `commit`, `commit_held`, `erase` | indexes, segment rows |
| Pack images (`git/retrieve/coalesce.rs`, `git/store`) | segment objects, `commit_segments` rows | upload, gather, retire, read a slice | indexes, sweep |
| Maintenance (`server/app/src/maintenance.rs`) | nothing | compact, gather, sweep, purge | everything above, from any number of processes |
| Repository lifecycle (`postgres/src/repos.rs`) | `repositories` | create, mark deleted, purge | maintenance |
| Commit graph (`git/graph`, `git/proto/src/walk.rs`) | none; a walk's frontier | ancestry, merge bases, pages, painting, depth, a push's proofs | graph index |
| Fetch (`git/proto/upload_pack.rs`, `git/retrieve`) | one request | negotiate, select, stream | graph, pack images |
| Push to a remote (`git/remote`) | one request | discover, choose commands, send, report | fetch, a server elsewhere |
| gRPC service (`server/app/src/grpc.rs`) | page tokens | list, read, diff, update refs | all stores |
| Formats (`git/packfile`, `git/store/commit_pack.rs`, `pktline.rs`) | a writer's buffer | encode, decode, frame | fetch, ingestion |
| Signatures, configuration, schema, cost | none over time | | |

What is hard:

* **Concurrency without locks.** A push reads refs, screens, checks
  connectivity, uploads, numbers, records, asks a hook and moves refs, and
  every other process runs in the gaps.
* **Crashes between two stores.** Bucket and database never commit together:
  objects come before rows, numbers before index entries.
* **Numbers without objects.** An oid is numbered before it is held, sometimes
  by a push that never finishes. Everything that asks "do we have it" must not
  take a number for an answer.
* **Maintenance under readers.** Gather and merge move and delete what a fetch
  may have been promised. Pack images have a grace window for this; index
  segments have none, and a read that loses the race is an error.
* **Retries.** A push that loses the numbering race starts again from a fresh
  read, a bounded number of times.
* **Deltas across packs.** A client's delta is stored as it came when its base
  will reach every reader of the image, which is a question about the graph,
  about other pushes and about cycles.
* **Clocks.** Segment names are ULIDs stamped by many hosts, and two joins and
  two sweeps depend on their order.
* **Parties outside.** A hook answers too much or too little, a client hangs
  up, a worker is killed inside a frame, a remote's report is lost.

What makes each part correct is stated in section 4. `PROJECT.json` lists the
hazards by source line with the properties aimed at each.

## 2. Modules

| Module | Models | Checked by | Proved in |
|---|---|---|---|
| `RefCas` | what the ref store promises: a compare-and-set table (the in-memory store's behaviour under its one lock) | as the abstraction of `RefStore` | |
| `RefStore` | `update_refs` in Postgres, statement by statement | `refstore` | `RefStore_proofs` |
| `Push` | a push from `receive_pack` to `post_receive` in commits and tags, and `move_refs` | `push`, `push_*` | `Push_proofs` |
| `Numbering` | `append` in trees, blobs, bases and images | `worker` | `Numbering_proofs` |
| `Receive` | one git request over HTTP, with the hooks | `worker` | `Worker_proofs` |
| `Promote` | the staging area and the promotion pump | `worker` | `Worker_proofs` |
| `Ingest` | what of a pack is stored, in which image, against which base | `worker`, `ingest_overlap` | `Worker_proofs` |
| `Handoff` | a push handed to a worker in a Lambda | `worker` | `Worker_proofs` |
| `Gather` | pack images: upload, gather, retirement, sweep, reads | `gather`, `gather_race` | `Gather_proofs` |
| `SegmentedValue` | what a lattice index promises: a value that only grows | as the abstraction of `Segments` | |
| `Segments` | the lattice store: write, merge, sweep, read | `segments` | `Segments_proofs` |
| `Lifecycle` | a repository from create to erase: calls, keys, the grace window, the purge, the two loops of a pass | `lifecycle` | `Lifecycle_proofs` |
| `Bands`, `Ancestry` | the walks of the commit graph, and the questions asked with them | `serving` | `Serving_proofs` |
| `Fetch` | negotiation, plan and stream, to a client that comes back | `serving` | `Serving_proofs` |
| `Remote` | pushing to a server elsewhere | `serving` | `Serving_proofs` |
| `Service` | the gRPC calls and the object reads under them | `serving` | `Serving_proofs` |
| `Indexes` | the four indexes, down to the words of a segment | `serving` | |
| `Formats` | varints, deltas, pack and image entries, pkt-lines, the framing writer | `serving`, `pack_trailer` | `Serving_proofs` |

`MC*` modules give the constants their values. How the modules compose:

* `Push` takes the result of `RefStore` as its abstraction: moving refs is one
  atomic step of `Push`, which is what `RefStore!Refinement` shows of the
  transactions.
* `Gather`, `Numbering` and `Indexes` treat an index as one joined value that a
  journal adds to and a read sees whole, which `Segments!Refinement` shows of
  the segments. `Indexes` in turn shows that what is written in a segment's
  words is what that value is decoded to, in any grouping of the merges.
* `Receive` has the worker as one step with any verdict; `Handoff` is that step
  taken apart when the worker is remote, and has the ingestion as one step;
  `Promote`, `Ingest` and `Numbering` are the ingestion, by what is stored,
  what is chosen and what is numbered.
* `Remote` extends `Fetch`: its pack is the plan of a fetch. Both walk with
  `Bands`, as `Ancestry` does.
* `MCWorker` and `MCServing` put components side by side that share no state
  at this level of abstraction. One of them moves in a behaviour: interleaving
  them would multiply states and show nothing new.

### RefStore

`table` is the committed rows; `lock`, `write` and `base` are the row locks, the
uncommitted values and, for the properties, what a row held when it was locked.
One statement is one action (`Hit`, `Miss`), and the second read with which a
refused branch update finds its reason is another (`Infer`), since it sees what
was committed since. `IsNext` is the stable sort by refname. `MustWait` is
Postgres: a statement whose clause matches a row another transaction has changed
waits for it; an insert waits on the unique index. Numbers are recorded by
pushes at any time (`Number`); a transaction may fail anywhere (`Fail`).

One abstraction is coarser than the database: a statement that waited for a
transaction that deleted and created the row again finds, in Postgres, the row
version it waited for deleted and matches nothing, where the model lets it look
at the row that is there. The model can therefore grant where Postgres answers
non-fast-forward; what is proved holds of the larger set of behaviours.

### Push

One variable per thing a push carries from one step to the next, indexed by
push. `existing` is read by `Receive` and used by `Check`; `known` is read by
`Upload` and used by the first attempt at `append`, while retries read again
(`Numbers`); `Plan`, `Allocate`, `Number` or `Retry`, and `Journal` are the four
places at which `append_once` touches shared state. `Judge` is `pre_receive` with an
application that may refuse anything, `Apply` is `update_refs`, `Tell` is
`post_receive`. `Crash` stands for the loss of the process, of a store, or of
the hook.

Data that is abstracted: trees and blobs travel with the commit whose image
holds them and are recorded by the same journal, so a commit stands for all of
them, and `Numbering` looks inside; tags are kept apart because `is_stored`
treats them apart. The two reads
of one planning step (numbers, then entries) are one action: an entry that lands
between them is planned again under its number, or collides in `Number`. A push
names each ref once; `Receive` has one that names a ref twice.

### Gather

Commits have images of size one and a segment is a set of images at offsets, so
offsets really shift when segments are concatenated. `packAt` and `objectAt` are
the two indexes; `Join` keeps the place in the segment with the greatest id.
`row` is `commit_segments` with its retired mark. The gather's steps are the
moments at which it reads or writes something shared: the listing and the plan,
`images_in`, `moved_locations`, the copy, the commit. `Shift` is how far a
segment's images move when it is copied behind others. A reader remembers, for
the property, whether the segment it was sent to was live then. `LoseGather` needs another
gather at its own commit, since the lock lives for one transaction.

Time appears as two actions, `Age` and `Ripen`, which say that an object or a
retirement has become older than the grace window. Their guards are the one
assumption the design makes about time: a push, a gather or a fetch that is
still running began within the window (six hours by default). The shelves for
trees and for blobs behave alike and are one index here; the banded scan of
`images_in` is one read.

### Segments

A segment is the set of facts joined in it, so composing is union and size is
cardinality; joining being associative, commutative and idempotent is what the
repository's own law tests establish for each index. Residence follows size, as
in `residence_for`, and only large segments have an object. `Plan` is the whole
planner: tiers, runs cut by count and by bytes, pressure of inlined rows,
saturation. A pass runs its merges one after the other, each against whatever
rows are still there. A read is one listing followed by fetches; decoding is one
step because an object never comes back once it is gone, so a fetch that
succeeds late would have succeeded early. `Age` assumes, as in Gather, that
whoever puts an object lists it within the grace window.

### Lifecycle

`status` is a row of `repositories` and where it is in its life: live, deleted,
lapsed (deleted longer than `deleted_grace_secs`), erased. `graves` is the order
of `deleted_at`, in which the purge goes. A push is what it leaves in each of the
places the purge must empty: under the prefix (`packs`), in the index scopes of
the bucket (`indexed`), and in the tables (`seqs`, `segments`, `listed`, `refs`);
`listed` holds the catalog rows that name an object. Each push puts one of each,
so the place is named by the push. Creating a repository inserts its counters in the
same transaction; `Erase` is the one transaction that empties the tables. A pass is
`at` one of five points, works on one `repo` (the one deleted longest ago) and
has `todo` left: `PurgeObjects`, `PurgeIndexes` or `Defer`, `Erase`, and then `Tend` for
what is live. `FailObjects` is the `?` that ends a pass, `FailPass` any other
failure. `Tend` is `run_repo` with only its sweeps, in one step; `Gather` and
`Segments` take it apart.

`Restore` is the operator of `docs/operate/maintenance.md`. `StoreReportsAbsent` says what
kind of bucket there is: S3 takes the deletion of an absent key for done, other
stores answer NotFound. `Lapse` assumes that a push resolved before the deletion
has ended when the window, a day by default, has passed; a dry run changes
nothing and is left out.

### Numbering

The inside of one `append`. `number` and `counter` are `object_seqs`; `located`,
`entries` and `packed` are what the indexes hold, as sets of facts. A writer
goes through `PrefetchIdentities` (the numbers known before promotion, stale when used),
`PlanCommits`, `ResolveObjects`, `AllocateObjects`, `Rank`, `RecordNames` and
`CommitJournal`, and may stop for good at any of them; a retry forgets what it
knew. What is interesting is that a tree names entries this push does not bring
and a delta names a base that may only be numbered, so that one push writes
down numbers another one drew. `Identify` is one read of rows and index, as in
the code, so a named object that is absent when it is planned stays absent for
this push; the second look that `plan_objects` takes at it is defensive.

`Linked` is what has been established when `append` begins: what the push names
and does not bring is held, by `check_connectivity`, and so is a delta's base
that it does not bring, which the plan of its deltas has read as an entry of a
held tree. The assumptions are git's (a commit has one root tree, a blob names
nothing) and the planner's: an image holds objects that its commit's tree
reaches, and a base is of its object's kind (`diff_trees` pairs no tree with a
blob).

### Receive

One request from its path to its answer: `Route`, `Authorize`, `Resolve`, then
`Advertise`, or `ReadCommands`, `HandToWorker`, `PreReceive`, `ApplyRefUpdates`,
`PostReceive` and `ReportStatus`. Between any two of them `Rival` moves a ref,
`DeleteRow` deletes the repository and `Leave` is the client hanging up, which
drops the push where it stands. A hook answers with any list of up to
`MaxJudgements` judgements: about refs it was not asked of, twice, contradicting
itself, or none. Command lines are as `MCPushed` gives them, one of which names
a ref twice.

### Promote

A session flushes what it buffered in numbered chunks and reads it back from
the buffer or from a chunk. The pump has a task per segment object, permits for
the open writers, a flag by which the first failure stands the others down, and
a join. Around it: a crash, a restart with its startup sweep (which lists, then
deletes, while sessions of the new process come and go), the deferred cleanup
of a dropped session, a pusher that hangs up. Lengths are halves of a part.

### Ingest

A commit is a number above its parents', a snapshot maps paths to blobs, an
image maps each object it stores to its delta base or none. `Arrive`, `Seed`,
`Take` and `Land` are the window of entries being identified, in every order in
which they may land; `PlanPush`, `Classify`, `BoundChains` and `Materialise` decide which
of the client's deltas are kept and what is encoded instead; `Promote` numbers, stores
and records. The client chooses what it leaves out of the pack and what it
sends as a delta against what. `numbered` is the commits in the order of their
seqs and `recorded` in the order in which they were journalled. They differ
after `Strand`, a push that dies between the two: whoever brings its commits
again records them under the seqs they have, below what was recorded in between. An
object's canonical entry is the one under the lowest seq, as `introducing` has it.

### Handoff

`Deliver` puts the pack into the call or into the bucket, under the limits of
each; the function boots, or keeps what an earlier call of another deployment
built; it reads back, ingests, answers in frames and collects what was staged.
The stream is cut into pieces anywhere and may end anywhere, the worker may be
killed anywhere, a delete may fail, and a verdict may be one an older reader has no name for.

### Bands and Ancestry

`Bands` is the walk itself: a frontier, a band of seqs below it, one round per
band, widths on a schedule. `Ancestry` lets it loose on every history of four
commits with up to three parents, of which a part is recorded and the others
merely have numbers, one round a step. A push's proofs remember closures and
boundaries, with their evictions and budgets. The reference definitions are
transitive closures over the whole history.

### Fetch and Remote

A fetch is `Ask`, `Refuse` or `Negotiate`, `Plan`, `Stream` or `StreamFails`,
`Record`. The client keeps what it is sent and fetches again: a clone, then a
deepening, then a filter. Histories revert files, so an image leaves out what an
ancestor's holds, and have commits that are numbered and not recorded, below
wants and among haves.

`Remote` adds `Begin`, `Discover`, `PlanCommands`, `Send`, `Report` and every
way of failing: both answers of the remote go through `check_status`
(`StatusErrors`) before they are read, the second one when refs may have moved
already, and what this side reads of its own store may fail. The remote is
external and modelled by what the code relies on: it compares and sets each ref,
refuses what it likes, and moves (`OtherPush`) between its advertisement and the
pack's arrival.

### Service

A listing is a conversation of several calls, with keys created and deleted
between them. The database compares keys, bounds and tokens, by a collation
chosen when it was created (`Collation`, any total order that puts nothing
before the empty string); `CheckPrefix` and the names of refs and files go by
bytes (`Less`). The other calls compute from immutable objects, so each is one
step from a job to its answer, and the properties compare the answer with a
definition that knows no budget, page, chunk or run. A commit that was numbered
and not recorded has two answers: the calls that walk its first parents fail
(`WalkStatus`), the others take it for absent (`CommitStatus`).

### Indexes

`Push`, `GatherImages` and `Merge` write segments as words: a header, strided
records, a tail, tables by reference. A reader decodes the ranges its clusters
touch and joins them. The two shelves of objects, for trees and for blobs, have
one layout and one magic, so the bytes of one read as the other's; the catalog
keeps them apart. `told` is everything that was ever handed to an index, and the
properties compare reads with it. A field is one word whatever its width, but
the values start just under `NoWord`, so that the last seq a slot can hold is
reached.

### Formats

A byte carries two bits, an integer five, an oid is one word, a compressed body
is a length and a content that ends itself. Within that, varints, copy and
insert instructions, block matching, entry headers, OFS distances, trailers and pkt-lines are
as in the code, readers refuse what they refuse (an object over `MaxObject`, a pack of
more than `MaxPackObjects`, a distance to no entry), and the pack writer is a
machine that cuts frames while it hashes. What git writes and only this code reads
(`ClientDelta`, `ClientPack`, `WriteDistance`) is external.

## 3. Runs

| Run | Instance | Shows |
|---|---|---|
| `refstore` | 2 transactions, a branch, a tag, a refused and a shallow name, 6 requests | 22,020 states; all of section 4 for the ref store, with liveness |
| `push` | 2 pushes out of 5 offers over a fork and a tag, 2 UpdateRefs calls, cap 2 | 160,821 states; the properties of section 4 for pushes, with liveness |
| `gather` | 3 pushes of 3 commits, 2 gathers, a sweep, 1 reader, 5 segment ids | 994,688 states; images read back, for a reader too, while gathers race for the lock |
| `segments` | 3 writes, 2 compactors, a sweep, 1 reader, 4 segment ids | 930,584 states; implements `SegmentedValue` |
| `lifecycle` | 1 key, 2 repositories, 1 delete caller, 1 push, 2 maintainers | 35,893 states; safety and the purge of what has lapsed; deadlock is checked |
| `worker` | `Promote`: 3 pushes over two lives of a process. `Handoff`: 2 calls of 2 deployments. `Receive`: 8 command lists over 2 names. `Ingest`: 3 pushes over lines, forks and roots of 3 commits, any of which may die numbered. `Numbering`: 3 overlapping pushes | 1,076,757 states |
| `serving` | `Fetch`/`Remote`: 16 histories of 4 commits, 2 fetches, 1 push against 1 rival move. `Ancestry`: every history of 4 commits. `Service`: 6 keys in a linguistic collation, 4 shapes of trees, every placement of 8 rows. `Indexes`: 3 writes, 2 merges. `Formats`: every content of up to 4 words, packs of up to 5 entries | 1,612,786 states |
| `push_screened`, `push_tags`, `gather_race`, `ingest_overlap`, `pack_trailer` | | violated: see section 6 |

Why the bounds are enough. In `refstore`, two transactions meet in every way two
can, a request can hold a lock and wait for another, and one ref may be updated
twice. In `push`, two pushes bring the same commits, and a crashed one leaves
numbers without entries for the other; the cap of two attempts is the one that
two pushes can reach without failing. In `gather`, a copy is itself small enough
to be copied again and there are ids on both sides of every source, so every
clock skew between hosts occurs; two gathers plan over the same segments and one
of them may find the lock taken. In `segments`, one write needs an object and
two record the same fact inline, so a merge may grow or shrink and change its
residence, runs are cut by bytes as well as by count, and two passes plan over
the same rows. In `lifecycle`, the key is created again while its first holder
is deleted, lapsed or being purged, and two passes purge it side by side.

In `worker`, `Promote` has three segments and one permit, so tasks queue, fail
and stand down in every order, and a chunk is left by a crash for the sweep to
meet a new session; `Receive` hears up to two judgements (`MaxJudgements`),
enough for one ref to be judged twice and the other not at all; `Handoff`
reaches each size limit and a kept worker that belongs to somebody else;
`Ingest` has chains longer than the bounds (1 for trees, 2 for blobs), which
stand for 32, and a file that changes back, so that an object has several homes;
`Numbering` has three pushes of which any may leave numbers behind, so three
attempts are the most one of them can need. In `serving`, a band is one seq and
then two, so that four commits take several rounds; page, chunk, budget and
candidate limits are all at, under and over the size of what is asked. The
collation there puts letters before punctuation, so that some prefixes are
ranges of keys and others are not; byte order is covered by proof (section 5).

Fairness is weak fairness of each transaction's and each push's own next step:
Postgres runs the statements it has and a server task runs until it ends. No
fairness is asked of callers, failures, crashes or of time. A pass is different:
it is run again every `interval_secs` by a loop that nothing ends, so a step
that is possible in pass after pass is assumed to succeed in one of them (strong
fairness of `PurgeObjects`, `PurgeIndexes`, `Erase` and `ListLive`). The
liveness results are `EveryCallReturns`, `EveryPushIsAnswered` and
`LapsedIsErased`. Deadlock is checked in `lifecycle`, whose passes come again
for ever; elsewhere every caller may stop for good, and that transactions never
wait for each other in a ring is `EveryCallReturns`.

Every property has a mutant in `PROJECT.json`: a plausible mistake in one
definition, kept beside it under the heading "Mutant:", with which TLC finds the
property violated.

## 4. Properties

* Ref store: `NoLostUpdate` (a granted compare-and-set is not overtaken before
  its transaction ends), `BranchesNumbered`, `LocksInNameOrder` (the reason there
  is no deadlock), `EveryCallReturns`, and `Refinement` of `RefCas`.
* Push: `SeqsAreTopological` and `RecordedIsClosed` (what every walk relies on),
  `LandedIsServable`, `LandedAsJudged`, `EveryPushIsAnswered`.
* Numbering: `NumbersResolve`. Every number in the indexes is of an object that
  is held and is the one meant, a held tree has all its entries, and no push of
  connected objects fails for want of a number.
* Front door: `HookDecides` (whatever a hook answers, a ref moves only if every
  command was judged and none of its judgements refused), `ReportIsTrue` (ok is said
  exactly of what landed, and `post_receive` hears exactly that).
* Staging and promotion: `StagingIsExact` (what is staged and may still be read
  is where the index says, under sweeps, cleanups and restarts; what a previous
  process left goes), `RecordedIsStored` (rows name completed objects only).
* Hand-off: `OutcomeIsTheWorkers` (the verdict acted on is the one this push's
  ingest reached, charged once, and a broken stream is never a verdict),
  `StagedIsCollected`.
* Ingestion: `ResolveIsComplete` (a pack is refused as inconsistent only for a
  base that was neither sent nor stored when the bases were looked up, whatever the order in
  which entries land and whatever other pushes record meanwhile),
  `ImagesAreServable` (a clone that is sent the images of a history can resolve
  every entry), `ConnectedPushesLand`, `DeltasLeadBack` (from a stored object the
  canonical entries lead to a whole one, also when a push took up the seqs of one
  that died; and while none has, no copies of objects delta against each other in a
  ring). The last three are stated of pushes that come one after another; section 6
  has what two at once can do, and what a dead push does to the copies.
* Pack images: `ImagesReadBack` (wherever the pack index places an image, it is
  there, in a segment that is not on its way out), `ReadersFindTheirBytes` (a
  fetch sent to a live segment finds the bytes however it is gathered and swept
  while it reads).
* Lattice store: `RowsAreStored`, and `Refinement` of `SegmentedValue`: a read is
  answered with exactly what had been listed when it asked, or with an error.
* Repository lifecycle: `RestorableIsWhole`, `EraseStrandsNothingNamed` and
  `ErasedPrefixIsEmpty` (the order of the purge, past any failure), `LapsedIsErased`.
* Commit graph: `WalksAgreeWithTheGraph` (six walks answer as the whole history
  would, or say that they stopped), `ProofsAreSound` (a push never proves a reach
  that is not there, and misses one only when a bound was met: a closure that was
  still needed was evicted, a boundary was not walked, or the home lies deeper
  than `WALK_CAP`).
* Fetch and remote: `ReceiversAreWhole` (a client over several fetches, and a
  remote whose advertisement was stale), `PassedBasesAreSent`, `OutcomesAreTrue`
  (what is reported as moved was, an atomic push moved all or nothing, no commit is
  dropped without force, and of the statuses a push fails with, invalid_argument,
  aborted and internal say that nothing landed; the others leave it open).
* Service: `ListingsAreComplete` (what lies between the bounds of a prefix in the
  database's order, which is what is under the prefix where the collation makes it
  a range), `AnswersAreHonest` (`list_tree`: a beginning, said to be one exactly
  when it is; `diff_commit`: true changes in path order, all of them unless it says
  otherwise, and a beginning when its reads sufficed), `ReadsAreTrue`.
* Indexes and formats: `IndexesReadBack`, `FormatsReadBack` (what is written is
  read back; what lost its end, was changed, met a base of another length or is over a limit is
  refused), `PackStreamsAreExact`.

## 5. Proofs

Each proof module follows one scheme. An inductive invariant (`Inv` or `IInv`) is
a conjunction of named parts; TLC checked it before it was proved. There is one
lemma or step per action, and under it one step per part the action can disturb;
theorems draw the properties from the invariant; a refinement maps each step to a
step or a stutter. The theorems hold for every value of the constants that meets
the assumptions named in the module, which TLC evaluates on the runs.

Where a process is a record, its parts are stated for one process, and a lemma
says that the others keep theirs (`OtherWriterStays`, `Moves` and the like), so
that a step is argued about the process that takes it.

**`RefStore_proofs`**, for every set of transactions, refs, ids and requests.
`NoLostUpdate` is not inductive: it needs that whoever was granted an update
holds the row's lock, that a locked row is not committed over by anybody else,
and that what a transaction will write is admissible and was asked for by its
own request. `IInv` is the type invariant with those facts about locks, `base`
and `write`. From it follow `TypeCorrect`, `LostUpdateFree`,
`BranchesAlwaysNumbered`, `LockOrder` and `ImplementsRefCas` (a commit is a `Land`
step of the abstract table, everything else stutters or numbers).

**`Segments_proofs`**, for every set of writes, readers and compactors and every
policy. `IInv` adds to `TypeOK` and `RowsAreStored` that names in use are taken
(`NamesAreTaken`), that a segment in flight belongs to one writer and is in no
list (`InFlightIsPrivate`, `InFlightOnce`), that what a pass found is what it
planned (`TakenIsListed`), that its output composes what it took
(`OutputIsComposed`), and that whatever is about to be deleted, by a pass or by
the sweep, is listed nowhere and can never be again (`DoomedAreUnlisted`). The
last is the argument for deleting superseded objects with no grace window. From
it follow `TypeCorrect`, `ListedIsStored` and `ImplementsSegmentedValue`; the
interesting step of the refinement is that `Replace` changes no answer even when
some of the merge's inputs were replaced by another pass before it.

**`Push_proofs`**, for any pushes, applications, graphs of commits and tags and
numbers of attempts: `TypeCorrect`, `NumbersAreTopological`, `IndexIsClosed`,
`LandingsAreServable`, `LandingsAreJudged`. A push works with numbers it read
some steps ago, so the invariant says what staleness can do: a number is given
once, so one that was read is still right and only an absence may be wrong
(`ReadsStayTrue`); a block that was allocated and not recorded is below the
counters, nobody else's, and above the parents (`BlocksAreFresh`, `BlocksAreApart`,
`BlocksAreTopological`); what a plan will record is closed over what is recorded
(`PlansAreWhole`, `ConnectedIsClosed`), which no other push can undo; and an
update that was neither screened nor rejected names a recorded commit by the time
the hook is asked (`LiveIsStored`, `JudgedIsShown`). `PacksAreFinite` is assumed,
since a block is as long as what it numbers.

**`Numbering_proofs`**, for any objects and overlapping pushes of them:
`NumbersAlwaysResolve`. Its invariant has four parts. Of numbers, one object of a
kind has one, and those handed out and not yet recorded are nobody else's
(`NumbersOk`, `ReservedOk`). Of a push, what it read early is true or an absence
(`KnownOk`), and whatever its plan names and does not itself record is held
(`NamesOk`, `FreshOk`). Of the indexes, each fact is about numbered objects, and
held trees and recorded commits are whole (`LocatedOk`, `EntriesOk`, `TreesOk`,
`PackedOk`). And no push is stranded. The argument turns on two facts. A plan
leaves out the image of a commit that is in the graph, and everything such an
image would hold is held, because the objects that are held are closed under
what they name and the image lies within what its commit's tree reaches
(`RecordedIsHeld`). And recording new names cannot make an object held that was
not, because nothing was stored under a number nobody had (`NamesAreRecorded`).
With an absence trusted for any object, and not only for those the push would
number, the proof fails at `ResolveObjects`, where the comment in `plan_objects`
says it would.

**`Gather_proofs`**, for any commits, packs, pushes, gatherers, readers and
bounds: `PackIndexReadsBack`, `ReadersAreServed`, `ObjectIndexReadsBack`. A
segment goes one way: its id is taken, its bytes are put once, its row is made
live by whoever put them, retired by a gather, dropped, deleted. The invariant
says so of whoever holds a segment at each stage, and that what a gather has read
of the pack index stays enough (`EveryImageIsMoved`): a segment that has a row
receives no entry any more. Offsets are whatever sum `Bytes` gives, as long as
relocating and copying agree on it.

`ObjectIndexReadsBack` says of the second index what `PackIndexReadsBack` says of
the first, under two hypotheses that are no assumptions of the module: each
commit comes in one push (`OncePushed`) and one process gathers at a time
(`OneGatherer`). TLC has a counterexample without either; section 6 tells them.
The attempt to prove the reader property for any reader also failed, with reason:
one that composes the object index after a gather has retired the segment it
names may find the bytes gone. With few segment ids the schedule does not fit,
which is how the property had passed; it now speaks of readers that were sent to
a live segment.

**`Lifecycle_proofs`**, for any repositories, pushes, delete calls and
maintainers and both kinds of bucket: `TypeCorrect`, `RestorableStaysWhole`,
`ErasedStaysEmpty`, and the action property `EraseStrandsNothing`. The properties
speak of objects and rows; the reasons are in the pushes and passes. No push
still runs in a repository whose window is over (`RunningIsWithin`), a pass works
only on such repositories (`PurgesTheCondemned`), and each phase of a purge finds
what the phase before left, whatever other passes do (`PrefixGoesFirst`,
`IndexesGoBeforeRows`).

**`Worker_proofs`** has the four components a push goes through.

*Promote*, for any plans, chunk sizes, permits and crashes: `StagingStaysExact`
and `RecordedStaysStored`. Of the staging area: a session's keys are numbered
below the chunk it is filling, so a flush overwrites nothing; a session that runs
is registered, so the sweep and another's cleanup pass its keys by; and every key
has somebody who will see to it. Of the tasks: a segment that landed is stored,
and a push records with all of them landed.

*Handoff*, for any calls, sizes, deployments, cuts of the stream and deaths of the
worker: `OutcomesAreTheWorkers` and `StagedStaysCollected`. Of the stream: whatever
is on the wire or in the reader's buffer is a frame this call's worker wrote, an
outcome frame says what the ingest established, and nothing is charged while the
front door still reads. Of the bucket: every object in it is one its call names,
and the worker registered all of them, but where the push itself could not be read.

*Receive*, for any command lists, also such as name a ref several times, any refs
and any answers of the hook: `TheHookDecides` and `ReportsAreTrue`. The
properties speak of the end of a request; `ReceiveInv` carries their reasons
from step to step. Once the hook has been asked, what is still to be applied is
what its answer allowed (`AllowedByTheHook`); what landed is among that
(`LandedIsAllowed`); the outcomes are what `resolve_ref_updates` makes of what
landed; and what `post_receive` heard is what will be told (`HeardIsTold`).
`ReceiveAssumption` says that command lists are lists and that the refused name is
not one of the names.

*Ingest*, for any histories, packs, windows and overlapping pushes:
`ResolutionIsComplete`. `ResolveInv` says of each push that its pack is well formed
(`WireOk`: among any of its deltas is one whose base is not one of them) and
how entries flow: what is sent whole, hangs off something that landed, or has a
base in the store is ready, being identified or done, and one that waits does so
for a base that is not done (`Flow`). When nothing is ready or being identified,
what is left are deltas; one of them has its base outside what is left, and that
base was neither sent nor stored. That deltas form no cycle is what the model lets
clients send; section 6 has the pack that does.

**`Serving_proofs`** has what is read.

*Fetch*, for any histories whose parents come before them and any widths of
bands: `BasesAreSent`. Deltas go out as they are stored only to a client that has
nothing and asks for no boundary, and then the walk must have found
every ancestor of what it found, because a base is in the image of an ancestor.
`Painting` and `Turns` say how far a banded walk has come after so many
rounds, with what it has found above its floor closed under parents; a walk that
ends covered has found a closed set (`PaintedDownIsClosed`).

*Ancestry*, for histories of any length, any number of parents, budgets, bands and
caps, with any number of the oldest commits recorded: `AncestryIsTrue` and
`PushProofsAreSound`. `AncestryAssumption` says only that the bounds are natural
numbers. The reference definitions are shown to be least closed sets (`ReachIs`,
`PathsAre`), and a round of a walk to decide everything at or above its floor
and to leave below it what may still matter (`BandIs`, `BandGoesOn`). On this rest
an invariant for each kind of walk (`IsAncestorInv`, `MergeBasesInv`, `PageInv`,
`NeededInv`, `DepthsInv`, `ProveInv`). Merge bases need that the common ancestors no
other one reaches are those the newest-first sifting keeps (`MaximalIsBest`), and
pages that there is one line of first parents from a tip (`LinesAgree`). For a
push's proofs, every closure that is kept says only what is true
(`SoundClosure`); and while nothing that was needed has been dropped and every
boundary is walked, the closure of a commit whose children are still to come
(`ChildrenFrom`) says all of it (`WholeClosure`).

*Remote*, for any refs, commands, rivals and failures: `RemoteOutcomesAreTrue`.
`RemoteInv` says of the steps of a push that a ref is one step's and that what
moved was allowed to (`StepsAreSound`), that of an atomic push all moved or nothing
(`AtomicMoves`), and what a step's status means before the report is read and after
(`Unreported`, `Reported`). That a status after landing is none of the three which
say that nothing landed is argued from where each error can still arise: once refs may have
moved, only the answer is left to be looked at.

*Service*, for any keys, prefixes, page limits, collations and changes between
the calls: `ListingsComplete`. What was given out is in order, between the
bounds and was there at some time (`GivenAreTrue`), and the token divides it
from what is to come (`TokenDivides`), for which a page is shown to divide the
keys behind a token in the order of the database (`PageDivides`).
`ListingAssumption`: keys are strings, finitely many, and a page holds one at
least. `CollationAssumption`: the database's order is total and has the empty
string first. `ByteOrderMakesRanges` adds that where that order is the order of
bytes, the keys between the bounds of any prefix are those under it, so that the
listing is of the prefix, as the repository's documentation says of `C` and
`POSIX`.

*Formats*, for any contents and sizes of frames: `PackStreamsExact`. What was framed and what is
buffered is what was hashed, a buffer is shorter than a frame, and a
frame carries what its framing allows (`StreamInv`); a stream that failed holds back less
than a frame.

Recursive functions turned out to be within reach where the induction is over
numbers: a set of naturals that is not empty has a least member, so a
statement that fails somewhere fails at a least place, and the definition says
what follows there (`NatMin`, `Counting`, `Recursion`); or the solution is exhibited and
shown to satisfy the definition. `Ancestry` was rewritten for this: the parents a push
names and the boundaries it met are sets and functions, where they were
folds with `@@`, and TLC found the two forms equal on every history of four commits.

Only model-checked, and why:

* liveness (`EveryCallReturns`, `EveryPushIsAnswered`, `LapsedIsErased`), which needs
  fairness and `ENABLED`;
* `AnswersAreHonest`, `ReadsAreTrue`, `IndexesReadBack`, `FormatsReadBack` and
  `ReceiversAreWhole`. They say what folds, selections and encodings compute for
  every input. Operators with operator parameters (`FoldLeft`, `SelectSeq`,
  `MapThenSumSet`) cannot be unfolded by these provers, and the library's theorems
  of induction take such a parameter themselves;
* `ImagesAreServable`, `ConnectedPushesLand` and `DeltasLeadBack`, which are
  true of one push at a time only and rest on the folds of the planner;
* the type invariant of `Gather`, for which a sum of sizes would have to be shown a
  natural number.

## 6. Where the code and its words part

* `push_screened`: `session.rs:171` says screened updates never reach the ref
  store. They do (`resolve_ref_updates` leaves out only rejected ones), as
  `Ingested`'s own comment says, and one lands unseen by
  `pre-receive` when the ref has moved back to what the client saw.
* `push_tags`: a numbered tag is taken for stored, whether or not its target is,
  so `move_refs` can put a ref on a tag the repository cannot serve.
* `gather_race`: a push of a commit that is already recorded, whose journal lands between
  a gather's two index reads, leaves object locations behind in its own segment,
  which a later gather retires. The run starts from a state reached when the
  second push lost the numbering race, planned again before the first one's
  journal, and so records the same commits under the same numbers. A second
  gather in the place of the second push does the same, since `commit_held` does
  not look whether the segments it copied from are still live.
* `ingest_overlap`: `delta_plan.rs:300` takes an object that is absent from the store for
  one that nothing older reaches. Two pushes that overlap each find the other's
  object absent and store deltas that name each other.
* `pack_trailer`: `PackWriter::finish` sends what is left and the digest as one
  frame. When what is left fills that frame to within a digest's length, the
  frame is refused and the fetch fails at its end.

Smaller disagreements met on the way, without a run of their own:

* Two pushes that overlap can also store an image without all it needs. Of two
  commits with the same tree, one push leaves the tree out of its pack; it is left
  out of the plan too, the other push records it before connectivity is
  checked, and the image lands without a tree that no ancestor's image holds.
  So `ImagesAreServable` and `ConnectedPushesLand`, like `DeltasLeadBack`,
  are stated of pushes that come one after the other.
* `delta_plan.rs:272` says that cutting a base that does not precede its object
  "keeps the delta graph acyclic". One push at a time that is so while seqs follow
  recording. With four commits, a push that dies after it was numbered and comes
  again when later ones have landed records the same object under a lower seq
  with another base, and TLC finds two objects whose copies delta against each
  other (`PassedDeltasAreAcyclic` fails; four pushes of two roots and a child of each,
  which revert each other's file). Each image still resolves within its own
  history and a point read follows canonical entries only, which is what
  `ImagesAreServable` and `DeltasLeadBack` check.
* `purge_bucket` (`segments.rs:187`) counts NotFound as a failed delete, so on a
  bucket that answers it (`StoreReportsAbsent`) a purge that was interrupted
  before `erase`, or that missed one object, is deferred for ever, against
  `maintenance.rs:206` "Every step is safe to repeat and safe to interrupt". S3 does not answer
  it, and `LapsedIsErased` is checked for such a bucket.
* `append.rs:629` calls the cap "generous headroom over the one retry it actually
  needs"; each retry may lose to another push, so with enough of them more are
  needed.
* `ledger.rs:102` says of the lock that "two gathers at once would copy the same
  images twice". It is taken after the copying, so they do, and both copies are
  committed; that wastes space and loses nothing (`gather`).
* `maintenance.rs:217` says that a repository "in a bad state must not stop the
  rest of a deployment being kept tidy". An object of a deleted repository that can
  never be deleted does: the purge comes first and its error ends the pass.
* Index objects that no row names, such as those a crashed push prepared, are
  outside the purge, and once the repository is erased outside every sweep:
  `EraseStrandsNothingNamed` speaks of named ones for that reason.
* A push that names a ref twice is answered "internal" for the second mention,
  landed or not, and when one mention was screened the ref is not put to
  `pre-receive`. `ReportIsTrue` says of such refs only what holds.
* `ObjectWriter::write` takes its mode out before it waits for capacity, so a
  part that fails there leaves `abort` nothing to abort, and the multipart upload stays
  for the bucket's own expiry.
* Chains are meant to be cut at 32 (`delta_plan.rs:54`), but what the bound measures
  is the canonical entry of a stored base as it is then; a push planned at the same time can
  lengthen it. Readers follow 64, so there is room.
* A pack whose entries close a cycle of REF_DELTAs through a stored object is
  accepted by `resolve.rs`, which starts from the stored one, and refused when it
  is rebuilt.
* A commit a client names as a have that is numbered and not recorded fails the
  walk of a fetch (`proto/src/walk.rs:106`) while the other push is under way.
* `get_object` of a tag that was numbered by a push that never stored it answers
  "internal", and so do `list_commits` and `diff_commit` without a base for such a
  commit, since the walk finds its seq and no entry (`source.rs:248`), where
  `grpc.rs:856` has "Numbered and never recorded is an answer rather than a fault"
  (`ReadsAreTrue` says which calls).
* `grpc.rs:893` says of a diff that was cut that it is "a prefix of the answer
  rather than an arbitrary part of it". So it is when the limit on changes cut it; cut by its
  reads, the deeper trees are the ones left out, and what it gives has gaps.
* `read_varint` promises to refuse a value that "overruns a `u64`" (`varint.rs:15`),
  and refuses an eleventh byte; bits of the tenth past the sixty-fourth are dropped.
  Entry sizes and OFS distances lose theirs the same way. `FormatsReadBack`
  speaks of numbers that fit, also when written with zeros to spare.
* A prefix is compared byte for byte, its bounds by the database
  (`configuration-keys.md:24`). Under a linguistic collation a listing loses keys
  that are under the prefix, and refuses its own token when the key a page
  ended with does not start with the prefix. `ListingsAreComplete` is stated of
  any collation, and says "under the prefix" only where that is what the bounds enclose.
* With `blob:none`, a blob that is itself wanted beside a commit is left out,
  though the comment near `upload_pack.rs:329` has it sent.
* `Client::push` says of any error that nothing landed. A transport error after
  the pack was sent leaves that open, as does an answer with a status that is no
  success (`lib.rs:362`), which is reported
  like a refusal before the push, as failed_precondition or permission_denied
  (`OutcomesAreTrue` names the statuses that do mean it).
* `delete_repository` answers success on a database error, deliberately. A gather between the
  reads of `metas` and `chain` makes `retrieve::known` fail once.

## 7. Not modelled, and the plan

Not modelled: request signatures (cryptography over one request),
configuration, schema and process start (read once), cost metering (nothing
decides on it; that a worker's cost is charged once is in `Handoff`). Left out
inside modelled parts: SHA-1, zlib, zstd and
gzip, JSON and protobuf encodings, telemetry, dry runs, byte budgets of the
resolution pool. None of them keeps state that another step depends on.

Three hazards have no property because none holds: the gather that picks the
same empty segments again (`coalesce.rs:208`), index objects a crashed push
leaves outside the purge (`segments.rs:181`), and a push that outlives the grace
window of its repository (`maintenance.rs:322`, an assumption of `Lifecycle`).

What is left is the last list of section 5. Of its invariants, `IndexesReadBack` and
`ReceiversAreWhole` are the likeliest to yield to proof, once the joins of the
one and the plans of the other are stated without folds; the others stay with TLC.
