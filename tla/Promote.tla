------------------------------ MODULE Promote ------------------------------
(***************************************************************************)
(* The worker's half of a push: its staging area and the promotion pump.   *)
(*                                                                         *)
(* A push registers a staging session, buffers what it produced and        *)
(* flushes it in chunks, then promotes: one task per segment object, a     *)
(* semaphore over the open writers, a flag by which the first failure      *)
(* stands the others down, a join of every task, and the record.  Around   *)
(* it: the process crashes and restarts, the startup sweep deletes what no *)
(* live session owns, a session's drop deletes its chunks in the           *)
(* background, a pusher hangs up and its future is dropped where it stands.*)
(*                                                                         *)
(* Sources: ingest/src/{upload,worker}.rs, ingest/src/staging/*,           *)
(* git/store/src/lib.rs.  Bytes are abstracted to lengths in units of half *)
(* a multipart part.                                                       *)
(***************************************************************************)
EXTENDS Integers, Sequences, FiniteSets

CONSTANTS Pushes,        \* pushes, each with one staging session
          Days,          \* the sets of pushes that may come in one behaviour
          Plan,          \* Plan[p]: the images of push p, in plan order
          ChunkObjects,  \* objects a staging chunk holds (STAGING_CHUNK_BYTES)
          Part,          \* MULTIPART_CHUNK_BYTES, in the units of the lengths
          Permits,       \* MAX_CONCURRENT_SEGMENTS
          MaxCrashes,    \* bound: process restarts
          NoSession      \* what an unparseable staging key belongs to

ASSUME PromoteAssumption ==
    /\ ChunkObjects \in Nat \ {0} /\ Part \in Nat \ {0} /\ Permits \in Nat \ {0}
    /\ MaxCrashes \in Nat /\ NoSession \notin Pushes

VARIABLES
    phase,      \* where each push is
    current,    \* its unflushed objects, in order
    chunkId,    \* the chunk the buffer will become
    index,      \* staged object -> the chunk it is in
    disk,       \* staging keys: [session, chunk, holds]
    active,     \* registered sessions
    cleaning,   \* sessions whose delete was spawned
    sweep,      \* the startup sweep: "spawned", "deleting", "done"
    listed,     \* what the sweep listed and has not judged
    undeleted,  \* keys a listing or a delete failed on
    task,       \* segment tasks of each push
    cancel,     \* the push's cancel flag
    uploads,    \* multipart uploads begun and neither completed nor aborted
    stored,     \* segment objects completed
    unaborted,  \* uploads whose abort request failed
    recordedPushes,   \* pushes whose append named their segments
    crashes

stagingVars == <<current, chunkId, index>>
sweepVars == <<sweep, listed>>
uploadVars == <<uploads, stored, unaborted>>
pvars == <<phase, stagingVars, disk, active, cleaning, sweepVars, undeleted,
           task, cancel, uploadVars, recordedPushes, crashes>>

Keys(p) == {k \in disk : k.session = p}

\* The staged objects of a push, in the order they are produced.
ObjectsOf(p) == {Plan[p][i].obj : i \in DOMAIN Plan[p]} \ {0}

\* split_segments: every image at base offset zero starts a segment.
Starts(p) == {i \in DOMAIN Plan[p] : i = 1 \/ Plan[p][i].base = 0}

Run(p, i) ==
    LET ends == {j \in Starts(p) : j > i} \cup {Len(Plan[p]) + 1}
        stop == CHOOSE j \in ends : \A k \in ends : j <= k
    IN  SubSeq(Plan[p], i, stop - 1)

NoTask == [at |-> "none", done |-> 0, mode |-> "buffered", size |-> 0]
Queued == [NoTask EXCEPT !.at = "queued"]

Running == {"queued", "waiting", "writing", "broken"}
Over(p) == \A s \in Starts(p) : task[p][s].at \notin Running

PInit ==
    /\ \E day \in Days :
         phase = [p \in Pushes |-> IF p \in day THEN "idle" ELSE "absent"]
    /\ current = [p \in Pushes |-> <<>>]
    /\ chunkId = [p \in Pushes |-> 0]
    /\ index = [p \in Pushes |-> <<>>]
    /\ disk \in SUBSET {[session |-> NoSession, chunk |-> 0, holds |-> {}]}
    /\ active = {} /\ cleaning = {}
    /\ sweep = "spawned" /\ listed = {} /\ undeleted = {}
    /\ task = [p \in Pushes |-> [s \in Starts(p) |-> NoTask]]
    /\ cancel = [p \in Pushes |-> FALSE]
    /\ uploads = {} /\ stored = {} /\ unaborted = {}
    /\ recordedPushes = {} /\ crashes = 0

---------------------------------------------------------------------------
(* The staging area *)

Register(p) == active' = active \cup {p}

\* Staging::new, from ingest: a fresh session, registered before anything
\* is written under it.
StartPush(p) ==
    /\ phase[p] = "idle"
    /\ phase' = [phase EXCEPT ![p] = "staging"]
    /\ Register(p)
    /\ UNCHANGED <<stagingVars, disk, cleaning, sweepVars, undeleted, task,
                   cancel, uploadVars, recordedPushes, crashes>>

\* Dropping the last handle on a session deregisters it and spawns the
\* delete of its chunks.
DropSession(p) ==
    /\ active' = active \ {p}
    /\ cleaning' = cleaning \cup {p}

\* A push that ends in an error answers after its session is gone.
Fails(p) ==
    /\ phase' = [phase EXCEPT ![p] = "failed"]
    /\ DropSession(p)

\* chunk_key and put_chunk: the key is overwritten, whatever it held.
PutChunk(p, objects) ==
    disk' = {k \in disk : <<k.session, k.chunk>> # <<p, chunkId[p]>>} \cup
            {[session |-> p, chunk |-> chunkId[p],
              holds |-> {objects[i] : i \in DOMAIN objects}]}

\* Mutant: the chunk number stays, so the next chunk overwrites this one.
FlushInPlace(p, objects) ==
    IF objects = <<>>
    THEN UNCHANGED <<disk, current, chunkId>>
    ELSE /\ PutChunk(p, objects)
         /\ current' = [current EXCEPT ![p] = <<>>]
         /\ UNCHANGED chunkId

\* StagingBuffer::flush: the buffer becomes the chunk, under the number its
\* objects were indexed with.  An empty buffer writes nothing.
Flush(p, objects) ==
    IF objects = <<>>
    THEN UNCHANGED <<disk, current, chunkId>>
    ELSE /\ PutChunk(p, objects)
         /\ current' = [current EXCEPT ![p] = <<>>]
         /\ chunkId' = [chunkId EXCEPT ![p] = @ + 1]

\* StagingBuffer::push_compressed: place one object, flush a full buffer.
PushCompressed(p) ==
    /\ phase[p] = "staging"
    /\ \E o \in ObjectsOf(p) \ DOMAIN index[p] :
         /\ \A x \in ObjectsOf(p) \ DOMAIN index[p] : o <= x
         /\ index' = [index EXCEPT ![p] =
                        [x \in DOMAIN @ \cup {o} |->
                            IF x = o THEN chunkId[p] ELSE @[x]]]
         /\ LET objects == Append(current[p], o) IN
            \/ /\ Len(objects) < ChunkObjects
               /\ current' = [current EXCEPT ![p] = objects]
               /\ UNCHANGED <<phase, active, cleaning, disk, chunkId>>
            \/ /\ Len(objects) >= ChunkObjects
               /\ \/ Flush(p, objects) /\ UNCHANGED <<phase, active, cleaning>>
                  \/ Fails(p) /\ UNCHANGED <<current, disk, chunkId>>
    /\ UNCHANGED <<sweepVars, undeleted, task, cancel, uploadVars, recordedPushes,
                   crashes>>

\* Staging::finish, then pump_images: flush what is left and spawn one task
\* per segment.  A pack that fails to resolve ends the push here.
FinishStaging(p) ==
    /\ phase[p] = "staging"
    /\ DOMAIN index[p] = ObjectsOf(p)
    /\ \/ /\ Flush(p, current[p])
          /\ phase' = [phase EXCEPT ![p] = "promoting"]
          /\ task' = [task EXCEPT ![p] = [s \in Starts(p) |-> Queued]]
          /\ UNCHANGED <<active, cleaning>>
       \/ /\ Fails(p)
          /\ UNCHANGED <<disk, current, chunkId, task>>
    /\ UNCHANGED <<index, sweepVars, undeleted, cancel, uploadVars, recordedPushes,
                   crashes>>

\* delete_session_prefix: every key of the session, errors logged per key.
Clean(p) ==
    /\ p \in cleaning
    /\ cleaning' = cleaning \ {p}
    /\ \E gone \in SUBSET Keys(p) :
         /\ disk' = disk \ gone
         /\ undeleted' = undeleted \cup (Keys(p) \ gone)
    /\ UNCHANGED <<phase, stagingVars, active, sweepVars, task, cancel,
                   uploadVars, recordedPushes, crashes>>

\* list_sessions: everything in the store in one pass, an entry whose
\* listing fails passed over.
SweepList ==
    /\ sweep = "spawned"
    /\ sweep' = "deleting"
    /\ \E seen \in SUBSET disk :
         /\ listed' = seen
         /\ undeleted' = undeleted \cup (disk \ seen)
    /\ UNCHANGED <<phase, stagingVars, disk, active, cleaning, task, cancel,
                   uploadVars, recordedPushes, crashes>>

\* What the sweep keeps: a registered session's keys; an unparseable key
\* is by definition owned by no live session.
Live(id) == id \in active

\* sweep_orphaned_sessions: judge one listed session against the sessions
\* registered now, and delete it unless it is live.
SweepSession(id) ==
    /\ sweep = "deleting"
    /\ LET keys == {k \in listed : k.session = id} IN
       /\ keys # {}
       /\ listed' = listed \ keys
       /\ IF Live(id)
          THEN UNCHANGED <<disk, undeleted>>
          ELSE \E gone \in SUBSET keys :
                 /\ disk' = disk \ gone
                 /\ undeleted' = undeleted \cup (keys \ gone)
    /\ UNCHANGED <<phase, stagingVars, active, cleaning, sweep, task, cancel,
                   uploadVars, recordedPushes, crashes>>

SweepDone ==
    /\ sweep = "deleting" /\ listed = {}
    /\ sweep' = "done"
    /\ UNCHANGED <<phase, stagingVars, disk, active, cleaning, listed,
                   undeleted, task, cancel, uploadVars, recordedPushes, crashes>>

---------------------------------------------------------------------------
(* One segment task *)

SetTask(p, s, t) == task' = [task EXCEPT ![p][s] = t]

TaskFrame == UNCHANGED <<phase, stagingVars, disk, active, cleaning,
                         sweepVars, undeleted, recordedPushes, crashes>>

Holding(p) == {s \in Starts(p) : task[p][s].at \in {"writing", "broken"}}

\* Segment::upload, before the permit: a cancelled push costs a branch.
TaskStarts(p, s) ==
    /\ task[p][s].at = "queued" /\ phase[p] = "promoting"
    /\ SetTask(p, s, [task[p][s] EXCEPT
                        !.at = IF cancel[p] THEN "stood" ELSE "waiting"])
    /\ UNCHANGED <<cancel, uploadVars>> /\ TaskFrame

\* The permit is held; the flag is read again before the writer opens.
TakesPermit(p, s) ==
    SetTask(p, s, [task[p][s] EXCEPT
                     !.at = IF cancel[p] THEN "stood" ELSE "writing"])

TaskAdmitted(p, s) ==
    /\ task[p][s].at = "waiting" /\ phase[p] = "promoting"
    /\ Cardinality(Holding(p)) < Permits
    /\ TakesPermit(p, s)
    /\ UNCHANGED <<cancel, uploadVars>> /\ TaskFrame

\* ObjectWriter::abort: nothing to abort while the object is buffered; the
\* request to abort a multipart upload may itself fail, which is logged.
Abort(p, s, mode) ==
    \/ /\ mode = "buffered"
       /\ UNCHANGED <<uploads, unaborted>>
    \/ /\ mode = "streaming"
       /\ uploads' = uploads \ {<<p, s>>}
       /\ UNCHANGED unaborted
    \/ /\ mode = "streaming"
       /\ unaborted' = unaborted \cup {<<p, s>>}
       /\ UNCHANGED uploads

\* get_chunk_range: the object, read back from the chunk it is indexed in.
Staged(p, o) ==
    \E k \in disk :
        k.session = p /\ k.chunk = index[p][o] /\ o \in k.holds

\* prefetch_payload: resident in the client's pack, in a staging
\* chunk of this session, or in a stored segment.
PayloadReadable(p, image) ==
    image.obj # 0 => Staged(p, image.obj)

\* ObjectWriter::write, the four ways it goes.  The writer's mode is taken
\* out before the wait for capacity and put back after it, so a part that
\* failed leaves a writer that is buffered and empty.
Writes(p, s, len) ==
    LET t == task[p][s]
        next == [t EXCEPT !.done = @ + 1, !.size = @ + len]
    IN  \/ /\ t.mode = "buffered" /\ t.size + len < Part
           /\ SetTask(p, s, next)
           /\ UNCHANGED uploadVars
        \/ /\ t.mode = "buffered" /\ t.size + len >= Part
           /\ \/ /\ SetTask(p, s, [next EXCEPT !.mode = "streaming"])
                 /\ uploads' = uploads \cup {<<p, s>>}
                 /\ UNCHANGED <<stored, unaborted>>
              \/ /\ SetTask(p, s, [t EXCEPT !.at = "broken"])
                 /\ UNCHANGED uploadVars
        \/ /\ t.mode = "streaming"
           /\ \/ /\ SetTask(p, s, next)
                 /\ UNCHANGED uploadVars
              \/ /\ SetTask(p, s, [t EXCEPT !.at = "broken",
                                            !.mode = "buffered"])
                 /\ Abort(p, s, "buffered")
                 /\ UNCHANGED stored

\* write_window, one image: stand down if the push is cancelled, read the
\* payload, write it.  An incomplete object is aborted.
TaskWrites(p, s) ==
    LET t == task[p][s]
        run == Run(p, s)
    IN  /\ t.at = "writing" /\ phase[p] = "promoting"
        /\ t.done < Len(run)
        /\ \/ /\ cancel[p]
              /\ SetTask(p, s, [t EXCEPT !.at = "stood"])
              /\ Abort(p, s, t.mode)
              /\ UNCHANGED stored
           \/ /\ ~cancel[p]
              /\ PayloadReadable(p, run[t.done + 1])
              /\ Writes(p, s, run[t.done + 1].len)
           \/ /\ ~cancel[p]
              /\ SetTask(p, s, [t EXCEPT !.at = "broken"])
              /\ Abort(p, s, t.mode)
              /\ UNCHANGED stored
        /\ UNCHANGED cancel /\ TaskFrame

\* ObjectWriter::finish: one put, or the completion of the upload.  A part
\* that failed ends it with the upload open; a completion that failed
\* aborts.
TaskFinishes(p, s) ==
    LET t == task[p][s]
        landed == SetTask(p, s, [t EXCEPT !.at = "landed"])
        broken == SetTask(p, s, [t EXCEPT !.at = "broken"])
    IN  /\ t.at = "writing" /\ phase[p] = "promoting"
        /\ t.done = Len(Run(p, s))
        /\ \/ /\ landed
              /\ stored' = stored \cup {<<p, s>>}
              /\ uploads' = uploads \ {<<p, s>>}
              /\ UNCHANGED unaborted
           \/ /\ broken
              /\ UNCHANGED uploadVars
           \/ /\ t.mode = "streaming" /\ broken
              /\ Abort(p, s, t.mode)
              /\ UNCHANGED stored
        /\ UNCHANGED cancel /\ TaskFrame

SetsCancel(p) == cancel' = [cancel EXCEPT ![p] = TRUE]

\* Segment::upload after an error: the flag is set before the permit drops.
TaskFails(p, s) ==
    /\ task[p][s].at = "broken" /\ phase[p] = "promoting"
    /\ SetTask(p, s, [task[p][s] EXCEPT !.at = "failed"])
    /\ SetsCancel(p)
    /\ UNCHANGED uploadVars /\ TaskFrame

\* A dropped JoinSet aborts its tasks: the writer is dropped where it
\* stands, and the last task to go takes the session with it.
TaskAborted(p, s) ==
    /\ phase[p] = "gone" /\ task[p][s].at \in Running
    /\ SetTask(p, s, [task[p][s] EXCEPT !.at = "aborted"])
    /\ IF \A r \in Starts(p) \ {s} : task[p][r].at \notin Running
       THEN DropSession(p) ELSE UNCHANGED <<active, cleaning>>
    /\ UNCHANGED <<phase, stagingVars, disk, sweepVars, undeleted, cancel,
                   uploadVars, recordedPushes, crashes>>

---------------------------------------------------------------------------
(* The push around its tasks *)

\* Mutant: the images of the segments that landed are enough.
AllLandedSome(p) == \E s \in Starts(p) : task[p][s].at = "landed"

\* collect_segments, once every task is joined: the first failure, or a slot
\* no task filled, is the push's failure.
AllLanded(p) == \A s \in Starts(p) : task[p][s].at = "landed"

Join(p) ==
    /\ phase[p] = "promoting" /\ Over(p)
    /\ IF AllLanded(p)
       THEN phase' = [phase EXCEPT ![p] = "recording"]
            /\ UNCHANGED <<active, cleaning>>
       ELSE Fails(p)
    /\ UNCHANGED <<stagingVars, disk, sweepVars, undeleted, task, cancel,
                   uploadVars, recordedPushes, crashes>>

\* The append that names the segments, and the answer.
Record(p) ==
    /\ phase[p] = "recording"
    /\ \/ /\ recordedPushes' = recordedPushes \cup {p}
          /\ phase' = [phase EXCEPT ![p] = "answered"]
          /\ DropSession(p)
       \/ Fails(p) /\ UNCHANGED recordedPushes
    /\ UNCHANGED <<stagingVars, disk, sweepVars, undeleted, task, cancel,
                   uploadVars, crashes>>

\* The pusher hangs up and the future is dropped where it stands.  A drop
\* during the append leaves its transaction either way.
HangUp(p) ==
    /\ phase[p] \in {"staging", "promoting", "recording"}
    /\ phase' = [phase EXCEPT ![p] = "gone"]
    /\ IF Over(p) THEN DropSession(p) ELSE UNCHANGED <<active, cleaning>>
    /\ recordedPushes' \in {recordedPushes} \cup
         (IF phase[p] = "recording" THEN {recordedPushes \cup {p}} ELSE {})
    /\ UNCHANGED <<stagingVars, disk, sweepVars, undeleted, task, cancel,
                   uploadVars, crashes>>

\* The process dies and another takes its place: its memory is gone, its
\* staging keys and uploads are not, and the sweep is spawned again.
Crash ==
    /\ crashes < MaxCrashes
    /\ crashes' = crashes + 1
    /\ phase' = [p \in Pushes |->
                    IF phase[p] \in {"staging", "promoting", "recording"}
                    THEN "gone" ELSE phase[p]]
    /\ task' = [p \in Pushes |-> [s \in Starts(p) |->
                    IF task[p][s].at \in Running
                    THEN [task[p][s] EXCEPT !.at = "aborted"] ELSE task[p][s]]]
    /\ current' = [p \in Pushes |-> <<>>]
    /\ active' = {} /\ cleaning' = {}
    /\ sweep' = "spawned" /\ listed' = {} /\ undeleted' = {}
    /\ UNCHANGED <<chunkId, index, disk, cancel, uploadVars, recordedPushes>>

TaskStep(p, s) ==
    \/ TaskStarts(p, s) \/ TaskAdmitted(p, s) \/ TaskWrites(p, s)
    \/ TaskFinishes(p, s) \/ TaskFails(p, s) \/ TaskAborted(p, s)

PushStep(p) ==
    \/ StartPush(p) \/ PushCompressed(p) \/ FinishStaging(p)
    \/ Join(p) \/ Record(p) \/ Clean(p) \/ HangUp(p)
    \/ \E s \in Starts(p) : TaskStep(p, s)

PNext ==
    \/ \E p \in Pushes : PushStep(p)
    \/ SweepList
    \/ \E id \in Pushes \cup {NoSession} : SweepSession(id)
    \/ SweepDone
    \/ Crash

PSpec == PInit /\ [][PNext]_pvars

---------------------------------------------------------------------------
(* Properties *)

\* Whatever a push has staged and may still read is where its index says:
\* in the unflushed buffer when the object's chunk is the one being filled,
\* in the chunk of that number otherwise, whatever the startup sweep, the
\* cleanup of another session or a restart deleted meanwhile
\* (staging/buffer.rs get, staging/store.rs sweep_orphaned_sessions).  And
\* once the sweep is done, what a previous process left is gone, keys that
\* parse to no session included, but for keys the store failed on.
StagingIsExact ==
    /\ \A p \in active : \A o \in DOMAIN index[p] :
         \/ index[p][o] = chunkId[p]
            /\ \E i \in DOMAIN current[p] : current[p][i] = o
         \/ Staged(p, o)
    /\ sweep = "done" =>
         \A k \in disk :
            k.session \in active \cup cleaning \/ k \in undeleted

\* A push is recorded only when every segment its rows will name is a
\* completed object, whichever tasks failed, stood down or were dropped
\* (upload.rs collect_segments, "the caller must not record a location
\* naming a segment whose bytes are not all there").
RecordedIsStored ==
    \A p \in recordedPushes : \A s \in Starts(p) : <<p, s>> \in stored

===========================================================================
