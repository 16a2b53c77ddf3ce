------------------------------ MODULE Handoff ------------------------------
(***************************************************************************)
(* A push handed to an ingest worker in a Lambda: the front door delivers  *)
(* the pack, inside the call or through the staging bucket, invokes the    *)
(* worker, and reads its answer as a byte stream of frames; the worker     *)
(* builds its stores from the call, or keeps what an earlier call built,   *)
(* reads back what was staged, ingests, reports, and collects the staged   *)
(* objects.  The worker may be killed at any point, its stream may end     *)
(* anywhere, and the network cuts the stream wherever it likes.            *)
(*                                                                         *)
(* Sources: server/ingest-lambda/src/{client,server,boot,main,wire,        *)
(* convert}.rs.  The ingestion itself is Promote's and Ingest's; here it   *)
(* is one step that records and yields a verdict.  Lengths are units.      *)
(***************************************************************************)
EXTENDS Integers, Sequences, FiniteSets

CONSTANTS Calls,         \* pushes handed over, one invocation each
          Size,          \* Size[c]: the pack's length
          RefsSize,      \* RefsSize[c]: the rest of the encoded call
          Deployment,    \* Deployment[c]: [database, objects, staging]
          InlineMax,     \* INLINE_MAX
          MaxPackBytes,  \* max_pack_bytes
          PayloadMax,    \* PAYLOAD_MAX
          Nothing        \* no verdict, no deployment, no call

\* What an ingest establishes of a ref: nothing against it, a refusal, or a
\* refusal of a kind only a newer build has a name for.
Verdicts == {"clear", "refused", "unnamed"}

ASSUME HandoffAssumption ==
    /\ InlineMax \in Nat /\ MaxPackBytes \in Nat /\ PayloadMax \in Nat
    /\ Nothing \notin Calls \cup Verdicts

VARIABLES
    door,       \* the front door, per call
    bucket,     \* staged objects: [call, what, len, deployment]
    env,        \* the execution environment: kept build, call being served
    work,       \* the worker's progress on each call
    stream,     \* bytes the worker wrote that the front door has not read
    ended,      \* how each call's stream ended: "open", "closed", "error"
    pending,    \* bytes read and not yet taken as frames
    past,       \* the prelude has gone by
    meter,      \* what was charged for each call
    said        \* the verdict the worker's ingest established

hvars == <<door, bucket, env, work, stream, ended, pending, past, meter, said>>

\* ingested_to_wire, and Rejection's fallback: a kind this build cannot name
\* arrives as unknown.
ToWire(v) == IF v = "unnamed" THEN "unknown" ELSE v

\* Mutant: a refusal that cannot be named is passed over.
FromWireNamed(w) == IF w = "unknown" THEN "clear" ELSE w

\* rejection_from_wire: what cannot be named is still a refusal.
FromWire(w) == IF w = "unknown" THEN "refused" ELSE w

\* The frames that settle a push, each with what it cost.
Done(v) == [is |-> "done", verdict |-> ToWire(v), cost |-> 1]
Failed(cost) == [is |-> "failed", cost |-> cost]

IdleEnv == [kept |-> Nothing, serving |-> Nothing, built |-> Nothing]

HInit ==
    /\ door = [c \in Calls |-> [at |-> "idle", pack |-> "none", push |-> "none",
                                outcome |-> Nothing]]
    /\ bucket = {}
    /\ env = IdleEnv
    /\ work = [c \in Calls |-> [at |-> "none", staged |-> {}]]
    /\ stream = [c \in Calls |-> <<>>]
    /\ ended = [c \in Calls |-> "open"]
    /\ pending = [c \in Calls |-> <<>>]
    /\ past = [c \in Calls |-> FALSE]
    /\ meter = [c \in Calls |-> 0]
    /\ said = [c \in Calls |-> Nothing]

Object(c, what, len) ==
    [call |-> c, what |-> what, len |-> len,
     store |-> Deployment[c].staging]

Errs(c) == door' = [door EXCEPT ![c].at = "errored"]

---------------------------------------------------------------------------
(* The front door *)

\* deliver: one fill reads past the threshold or to the end of the pack, and
\* its size decides.  A cap below the threshold lowers it.
InlineLimit == IF MaxPackBytes < InlineMax THEN MaxPackBytes ELSE InlineMax

\* deliver and stage: the pack goes in the call, or into the bucket, or is
\* refused past the cap with nothing left behind.
Deliver(c) ==
    /\ door[c].at = "idle"
    /\ \/ /\ Size[c] <= InlineLimit
          /\ door' = [door EXCEPT ![c].at = "delivered", ![c].pack = "inline"]
          /\ UNCHANGED bucket
       \/ /\ Size[c] > InlineLimit /\ Size[c] <= MaxPackBytes
          /\ door' = [door EXCEPT ![c].at = "delivered", ![c].pack = "staged"]
          /\ bucket' = bucket \cup {Object(c, "pack", Size[c])}
       \/ /\ Size[c] > InlineLimit
          /\ Errs(c) /\ UNCHANGED bucket
    /\ UNCHANGED <<env, work, stream, ended, pending, past, meter, said>>

\* What the call weighs as sent: base64 takes four bytes for three.
Body(c) ==
    RefsSize[c] + (IF door[c].pack = "inline"
                   THEN ((Size[c] + 2) \div 3) * 4 ELSE 0)

\* encode_call and stage_push: the push rides in the call while it fits the
\* quota, and goes into the bucket under its own key when it does not.
EncodeCall(c) ==
    /\ door[c].at = "delivered"
    /\ \/ /\ Body(c) < PayloadMax
          /\ door' = [door EXCEPT ![c].at = "encoded", ![c].push = "inline"]
          /\ UNCHANGED bucket
       \/ /\ Body(c) >= PayloadMax
          /\ door' = [door EXCEPT ![c].at = "encoded", ![c].push = "staged"]
          /\ bucket' = bucket \cup {Object(c, "push", Body(c))}
       \/ /\ Body(c) >= PayloadMax
          /\ Errs(c) /\ UNCHANGED bucket
    /\ UNCHANGED <<env, work, stream, ended, pending, past, meter, said>>

\* The prelude Lambda writes before the payload, and the delimiter after it.
Prelude == << [is |-> "meta"], [is |-> "zero"], [is |-> "zero"] >>

\* invoke: refused outright, or the one idle environment takes the call.
Invoke(c) ==
    /\ door[c].at = "encoded"
    /\ \/ Errs(c) /\ UNCHANGED <<env, work, stream>>
       \/ /\ env.serving = Nothing
          /\ door' = [door EXCEPT ![c].at = "collecting"]
          /\ env' = [env EXCEPT !.serving = c]
          /\ work' = [work EXCEPT ![c].at = "booting"]
          /\ stream' = [stream EXCEPT ![c] = Prelude]
    /\ UNCHANGED <<bucket, ended, pending, past, meter, said>>

First(places) == CHOOSE i \in places : \A j \in places : i <= j

\* skip_prelude: where the payload starts, once the delimiter is in.
Delimited(bytes) ==
    {i \in 1..(Len(bytes) - 1) :
        bytes[i].is = "zero" /\ bytes[i + 1].is = "zero"}

SkipPrelude(bytes) ==
    IF Delimited(bytes) = {} THEN bytes
    ELSE SubSeq(bytes, 2 + First(Delimited(bytes)), Len(bytes))

WholeLines(bytes) == {i \in 1..Len(bytes) : bytes[i].is = "nl"}

\* drain_frames over the whole lines there are: progress is relayed, blank
\* and unknown lines are skipped, the first outcome ends the reading.
Outcomes(bytes) ==
    {i \in WholeLines(bytes) : i > 1 /\ bytes[i - 1].is \in {"done", "failed"}}

\* An outcome is charged and returned; a failure is charged and raised.
Settle(c, frame) ==
    /\ meter' = [meter EXCEPT ![c] = @ + frame.cost]
    /\ IF frame.is = "done"
       THEN door' = [door EXCEPT ![c].at = "answered",
                                 ![c].outcome = FromWire(frame.verdict)]
       ELSE Errs(c)

\* The bytes after the last whole line, which stay buffered.
Partial(bytes) ==
    IF WholeLines(bytes) = {} THEN bytes
    ELSE SubSeq(bytes, 1 + (CHOOSE i \in WholeLines(bytes) :
                               \A j \in WholeLines(bytes) : i >= j), Len(bytes))

\* absorb, one payload chunk: the network cuts anywhere, so what arrives is
\* any prefix of what was written.
Receive(c) ==
    /\ door[c].at = "collecting" /\ stream[c] # <<>>
    /\ \E n \in 1..Len(stream[c]) :
         LET got == pending[c] \o SubSeq(stream[c], 1, n)
             begun == past[c] \/ Delimited(got) # {}
             bytes == IF past[c] THEN got ELSE SkipPrelude(got)
         IN  /\ stream' = [stream EXCEPT ![c] = SubSeq(@, n + 1, Len(@))]
             /\ past' = [past EXCEPT ![c] = begun]
             /\ pending' = [pending EXCEPT ![c] =
                               IF begun THEN Partial(bytes) ELSE bytes]
             /\ IF begun /\ Outcomes(bytes) # {}
                THEN Settle(c, bytes[First(Outcomes(bytes)) - 1])
                ELSE UNCHANGED <<door, meter>>
    /\ UNCHANGED <<bucket, env, work, ended, said>>

\* collect, at the end of the stream or an InvokeComplete with an error
\* code: no outcome was reported, so none is claimed.
EndOfStream(c) == Errs(c)

CollectEnd(c) ==
    /\ door[c].at = "collecting"
    /\ stream[c] = <<>> /\ ended[c] # "open"
    /\ EndOfStream(c)
    /\ UNCHANGED <<bucket, env, work, stream, ended, pending, past, meter, said>>

\* The pusher hangs up: the future is dropped, the worker runs on.
DoorGone(c) ==
    /\ door[c].at \in {"delivered", "encoded", "collecting"}
    /\ door' = [door EXCEPT ![c].at = "gone"]
    /\ UNCHANGED <<bucket, env, work, stream, ended, pending, past, meter, said>>

---------------------------------------------------------------------------
(* The worker *)

Serving(c) == env.serving = c

\* send: one frame and its newline, best effort.
Send(c, frame) == stream' = [stream EXCEPT ![c] = @ \o << frame, [is |-> "nl"] >>]

\* Call::fingerprint: the credentials and both stores, everything a worker
\* is built from.
Fingerprint(c) == <<Deployment[c].database, Deployment[c].objects,
                    Deployment[c].staging>>

\* boot::kept: what the last call built, if this one names the same.
KeptWorker(c) == env.kept # Nothing /\ env.kept = Fingerprint(c)

\* boot::ready: reuse what the last call built if this one names the same,
\* or build, or refuse the push in the stream at no cost.
Boot(c) ==
    /\ Serving(c) /\ work[c].at = "booting"
    /\ \/ /\ KeptWorker(c)
          /\ env' = [env EXCEPT !.built = env.kept]
          /\ work' = [work EXCEPT ![c].at = "reading"]
          /\ UNCHANGED stream
       \/ /\ ~KeptWorker(c)
          /\ env' = [env EXCEPT !.kept = Fingerprint(c),
                               !.built = Fingerprint(c)]
          /\ work' = [work EXCEPT ![c].at = "reading"]
          /\ UNCHANGED stream
       \/ /\ ~KeptWorker(c)
          /\ Send(c, Failed(0))
          /\ work' = [work EXCEPT ![c].at = "refused"]
          /\ UNCHANGED env
    /\ UNCHANGED <<door, bucket, ended, pending, past, meter, said>>

StagedFor(c) ==
    (IF door[c].push = "staged" THEN {"push"} ELSE {}) \cup
    (IF door[c].pack = "staged" THEN {"pack"} ELSE {})

\* get_staged: the object of the length the call claims, in the bucket the
\* worker was built over.
GetStaged(c, what) ==
    \E o \in bucket : o.call = c /\ o.what = what /\ o.store = env.built[3]

\* Mutant: a key is registered once it has been read.
RegisteredOnceRead(c, read) == read

\* run: each key is registered before it is read; the pack's is inside the
\* push, so a push that fails to read or parse leaves the pack's unknown.
Registered(c, read) ==
    IF "push" \in StagedFor(c) \ read THEN {"push"} ELSE StagedFor(c)

\* run up to the ingest: read what was staged, each read may fail.
ReadStaged(c) ==
    /\ Serving(c) /\ work[c].at = "reading"
    /\ \E read \in SUBSET StagedFor(c) :
         /\ \A w \in read : GetStaged(c, w)
         /\ "push" \in StagedFor(c) \ read => read = {}
         /\ work' = [work EXCEPT
              ![c] = [at |-> IF read = StagedFor(c) THEN "ingesting" ELSE "failed",
                      staged |-> Registered(c, read)]]
    /\ UNCHANGED <<door, bucket, env, stream, ended, pending, past, meter, said>>

\* ingest_reporting: the latest stage, every interval.  Bound: the
\* last one has been read.
Progress(c) ==
    /\ Serving(c) /\ work[c].at = "ingesting"
    /\ stream[c] = <<>>
    /\ Send(c, [is |-> "progress"])
    /\ UNCHANGED <<door, bucket, env, work, ended, pending, past, meter, said>>

\* The ingest settles: what it established, or an error.
Ingests(c) ==
    /\ Serving(c) /\ work[c].at = "ingesting"
    /\ \/ \E v \in Verdicts :
            /\ said' = [said EXCEPT ![c] = v]
            /\ work' = [work EXCEPT ![c].at = "ingested"]
       \/ /\ work' = [work EXCEPT ![c].at = "failed"]
          /\ UNCHANGED said
    /\ UNCHANGED <<door, bucket, env, stream, ended, pending, past, meter>>

\* serve: one outcome frame with what the push spent, either way.
Report(c) ==
    /\ Serving(c) /\ work[c].at \in {"ingested", "failed"}
    /\ Send(c, IF work[c].at = "ingested" THEN Done(said[c]) ELSE Failed(1))
    /\ work' = [work EXCEPT ![c].at = "closing"]
    /\ UNCHANGED <<door, bucket, env, ended, pending, past, meter, said>>

\* serve, after the report: every registered key is deleted, a failure left
\* for the lifecycle rule; the stream closes and the environment is warm.
\* A refused call has registered nothing.
Close(c) ==
    /\ Serving(c) /\ work[c].at \in {"closing", "refused"}
    /\ \E kept \in SUBSET work[c].staged :
         /\ bucket' = {o \in bucket : ~(o.call = c /\ o.what \in work[c].staged
                                        /\ o.what \notin kept)}
         /\ work' = [work EXCEPT ![c] = 
              [at |-> IF work[c].at = "closing" THEN "closed" ELSE "turned_away",
               staged |-> kept]]
    /\ ended' = [ended EXCEPT ![c] = "closed"]
    /\ env' = [env EXCEPT !.serving = Nothing, !.built = Nothing]
    /\ UNCHANGED <<door, stream, pending, past, meter, said>>

\* The invocation is killed: a timeout, no memory.  What was written may be
\* read or lost from any point on, and the environment is cold again.
Killed(c) ==
    /\ Serving(c)
    /\ \E n \in 0..Len(stream[c]) :
         stream' = [stream EXCEPT ![c] = SubSeq(@, 1, n)]
    /\ ended' = [ended EXCEPT ![c] = "error"]
    /\ work' = [work EXCEPT ![c].at = "killed"]
    /\ env' = IdleEnv
    /\ UNCHANGED <<door, bucket, pending, past, meter, said>>

HandStep(c) ==
    \/ Deliver(c) \/ EncodeCall(c) \/ Invoke(c) \/ Receive(c)
    \/ CollectEnd(c) \/ DoorGone(c)
    \/ Boot(c) \/ ReadStaged(c) \/ Progress(c) \/ Ingests(c) \/ Report(c)
    \/ Close(c) \/ Killed(c)

HNext == \E c \in Calls : HandStep(c)

HSpec == HInit /\ [][HNext]_hvars

---------------------------------------------------------------------------
(* Properties *)

\* The outcome the front door acts on is the one this push's ingest
\* established, read whole, however the stream was cut, and a refusal only
\* a newer worker can name is a refusal still; it is charged once,
\* and a stream that ends without one is an error and never a verdict
\* (client.rs collect, drain_frames, charge).
OutcomeIsTheWorkers ==
    \A c \in Calls :
        /\ door[c].at = "answered" =>
             /\ said[c] # Nothing /\ meter[c] = 1
             /\ door[c].outcome = "clear" <=> said[c] = "clear"
        /\ meter[c] <= 1

\* What the front door staged is gone once the worker that read it has
\* closed, but for keys whose delete failed and for the pack of a push the
\* worker could not read: the key of that pack was inside it (server.rs
\* serve, "Unconditional, including after a failure").
StagedIsCollected ==
    \A c \in Calls : work[c].at = "closed" =>
        \A o \in bucket : o.call = c =>
            \/ o.what \in work[c].staged
            \/ o.what = "pack" /\ "push" \in StagedFor(c) /\ said[c] = Nothing
===========================================================================
