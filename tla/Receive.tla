------------------------------ MODULE Receive ------------------------------
(***************************************************************************)
(* The front door: one git request over HTTP, from its path to its answer. *)
(*                                                                         *)
(* A request is routed by its path, cleared by the application's authorize *)
(* hook and resolved to a repository.  A ref advertisement is answered     *)
(* after the visible-refs hook.  A push has its command lines parsed, is   *)
(* handed to the ingest worker, put to the pre-receive hook, landed in the *)
(* ref store, told to the post-receive hook and reported.  Between any two *)
(* of these another client may move a ref, the repository may be deleted,  *)
(* and the client may hang up, which drops the push where it stands.       *)
(*                                                                         *)
(* Sources: git/http/src, proto/src/{receive_pack,visibility,capabilities},*)
(* ingest/src/{hooks,ref_updates}.rs, server/app/src/hooks.rs.             *)
(***************************************************************************)
EXTENDS Naturals, Sequences, FiniteSets

CONSTANTS
    Names,          \* refnames
    Funny,          \* one git would not accept (is_funny_refname)
    DefaultBranch,  \* what HEAD points at
    Pushed,         \* the command lists a push may send
    Paths,          \* paths of requests: the classes of their segments
    MaxMoves,       \* bound: moves of refs by other clients
    MaxJudgements   \* bound: judgements in an answer of the hook

ASSUME ReceiveAssumption ==
    /\ Funny \notin Names /\ DefaultBranch \in Names
    /\ MaxMoves \in Nat /\ MaxJudgements \in Nat
    /\ \A ls \in Pushed : Len(ls) \in Nat /\ DOMAIN ls = 1 .. Len(ls)

VARIABLES
    step,       \* where the request is
    path,       \* its path
    lines,      \* its pkt-lines
    updates,    \* the updates parsed from them
    sideband,   \* whether the answer is streamed
    existing,   \* the refs as the push read them
    screened,   \* refnames screened as non-fast-forward
    refused,    \* refnames refused, by the worker or the hook
    commands,   \* what pre-receive was asked about
    judgements, \* what it answered
    outcomes,   \* one per update
    told,       \* what post-receive was told
    reply,      \* the answer
    tips,       \* the repository's refs, 0 for one that is absent
    known,      \* commits the repository numbers
    landed,     \* positions of the updates this push landed
    row,        \* the repository's row: "live" or "deleted"
    moves

request == <<path, lines>>
parsed == <<updates, sideband, existing>>
judged == <<screened, refused, commands, judgements>>
answered == <<outcomes, told>>
world == <<tips, known, landed, row, moves>>
rvars == <<step, request, parsed, judged, answered, reply, world>>

Refs == Names \cup {Funny}

\* Commit 1 is the parent of commit 2.
IsAncestor(a, b) == a <= b

NoReply == [kind |-> "none"]
Status(code) == [kind |-> "status", code |-> code]

RInit ==
    /\ step = "idle" /\ path = <<>> /\ lines = <<>>
    /\ updates = <<>> /\ sideband = FALSE /\ existing = [r \in Refs |-> 0]
    /\ screened = {} /\ refused = {} /\ commands = <<>> /\ judgements = <<>>
    /\ outcomes = <<>> /\ told = <<>> /\ reply = NoReply
    /\ tips \in {f \in [Refs -> 0 .. 1] : f[Funny] = 0}
    /\ known = {1} /\ landed = {} /\ row = "live" /\ moves = 0

Answer(r) == step' = "answered" /\ reply' = r

\* The elements of a list at the given places, in order.
Picked(xs, places) ==
    LET upto[n \in 0 .. Len(xs)] ==
          IF n = 0 THEN <<>>
          ELSE IF n \in places THEN Append(upto[n - 1], xs[n]) ELSE upto[n - 1]
    IN  upto[Len(xs)]

---------------------------------------------------------------------------
(* Routing and clearing *)

\* split and repo_path: a service at the end, and before it at least one
\* segment, none empty, relative, control-bearing or undecodable.
Routed(p) ==
    /\ p.service \in {"advertise", "push", "unnamed"}
    /\ p.segments # <<>>
    /\ \A i \in DOMAIN p.segments : p.segments[i] = "name"

\* path::resolve, before any handler.
Route(p, ls) ==
    /\ step = "idle"
    /\ path' = p /\ lines' = ls
    /\ IF Routed(p) THEN step' = "routed" /\ UNCHANGED reply ELSE Answer(Status(404))
    /\ UNCHANGED <<parsed, judged, answered, world>>

\* What the authorize hook may say: nothing that can be used, a denial, or a
\* grant whose key may be unparseable and whose context may be too long.
Clearances ==
    {[says |-> "nothing"], [says |-> "neither"]} \cup
    [says : {"denied"}, denial : {"forbidden", "not found", "unauthorized", "unspecified"}] \cup
    [says : {"granted"}, key : {"ours", "unknown", "malformed", "none"}, fits : BOOLEAN]

\* granted_by and refused, as the HTTP status they become.
Clears(c) ==
    CASE c.says \in {"nothing", "neither"} -> 500
      [] c.says = "denied" ->
           CASE c.denial = "forbidden" -> 403
             [] c.denial = "not found" -> 404
             [] OTHER -> 401
      [] c.says = "granted" ->
           CASE c.key = "none" -> 500
             [] c.key = "malformed" -> 404
             [] ~c.fits -> 500
             [] c.key = "unknown" -> 404
             [] OTHER -> 200

\* Hooks::authorize: the call, then the row of the key it granted.
Authorize(c) ==
    /\ step = "routed"
    /\ LET code == IF Clears(c) = 200 /\ row = "deleted" THEN 404 ELSE Clears(c)
       IN  IF code = 200 THEN step' = "cleared" /\ UNCHANGED reply
                         ELSE Answer(Status(code))
    /\ UNCHANGED <<request, parsed, judged, answered, world>>

\* auth::authorize: the repository by its id, which may be gone by now.
Resolve ==
    /\ step = "cleared"
    /\ IF row = "live" THEN step' = "resolved" /\ UNCHANGED reply
                       ELSE Answer(Status(404))
    /\ UNCHANGED <<request, parsed, judged, answered, world>>

---------------------------------------------------------------------------
(* The ref advertisement *)

Present == {r \in Refs : tips[r] # 0}

\* hide_refs: what the hook left in, and HEAD unless it names a hidden ref.
HideRefs(visible) ==
    {r \in Present : r \in visible} \cup
    (IF DefaultBranch \in Present /\ DefaultBranch \notin visible THEN {} ELSE {"HEAD"})

\* advertisement: the line that carries the capabilities leads.  It is HEAD
\* for a fetch when the default branch is there, the first ref for a push,
\* and a pseudo-ref when there is nothing to carry them.
Carrier(refs, access) ==
    CASE access = "read" /\ DefaultBranch \in refs -> <<"HEAD", tips[DefaultBranch]>>
      [] access = "write" /\ refs \ {"HEAD"} # {} ->
           LET first == CHOOSE r \in refs \ {"HEAD"} : TRUE IN <<first, tips[first]>>
      [] OTHER -> <<"capabilities", 0>>

\* info_refs for a service it does not know, which it finds out last.
UnknownService ==
    /\ step = "resolved" /\ path.service = "unnamed"
    /\ Answer(Status(400))
    /\ UNCHANGED <<request, parsed, judged, answered, world>>

\* info_refs: HEAD itself is never a line of its own.  A repository without
\* refs asks no hook; a hook that fails is an error; a fetch that speaks
\* protocol 2 is sent capabilities only.
Advertise(access, visible) ==
    /\ step = "resolved" /\ path.service = "advertise"
    /\ LET refs == IF Present = {} THEN {"HEAD"} ELSE HideRefs(visible)
       IN  \/ Answer([kind |-> "refs", carrier |-> Carrier(refs, access),
                      rest |-> [r \in refs \ {"HEAD"} |-> tips[r]], visible |-> visible])
           \/ Present # {} /\ Answer(Status(500))
           \/ access = "read" /\ Answer([kind |-> "capabilities"])
    /\ UNCHANGED <<request, parsed, judged, answered, world>>

---------------------------------------------------------------------------
(* A push: what it asks for *)

\* parse_ref_updates.  Leading shallow lines are passed over; the first other
\* line may carry capabilities, and on any later one they are part of the
\* refname; a line of fewer than three words is no command.
FirstCommand(ls) ==
    LET at == {i \in DOMAIN ls : ls[i].kind # "shallow"}
    IN  IF at = {} THEN Len(ls) + 1 ELSE CHOOSE i \in at : \A j \in at : i <= j

Parsed(ls) ==
    LET first == FirstCommand(ls)
        At(i) == [ref |-> IF ls[i].caps /\ i # first THEN Funny ELSE ls[i].ref,
                  old |-> ls[i].old, new |-> ls[i].new]
        commandsAt == Picked([i \in 1 .. Len(ls) |-> i],
                             {i \in DOMAIN ls : i >= first /\ ls[i].kind = "command"})
    IN  [k \in 1 .. Len(commandsAt) |-> At(commandsAt[k])]

Malformed(ls) == \E i \in DOMAIN ls : i >= FirstCommand(ls) /\ ls[i].kind = "bad id"
Streams(ls) == FirstCommand(ls) \in DOMAIN ls /\ ls[FirstCommand(ls)].caps

\* receive_pack, up to the worker: a bad id ends it, no command is the probe
\* before a real push, and the refs it names are read as they are now.
ReadCommands ==
    /\ step = "resolved" /\ path.service = "push"
    /\ IF Malformed(lines) THEN Answer(Status(400)) /\ UNCHANGED parsed
       ELSE /\ updates' = Parsed(lines)
            /\ sideband' = Streams(lines)
            /\ existing' = tips
            /\ IF Parsed(lines) = <<>>
               THEN Answer([kind |-> "empty"])
               ELSE step' = "read" /\ UNCHANGED reply
    /\ UNCHANGED <<request, judged, answered, world>>

Positions == DOMAIN updates
NamedOnce(i) == \A j \in Positions : updates[j].ref = updates[i].ref => j = i

\* An error: the status of a plain answer, a frame of a streamed one.
AnswersError == Answer(IF sideband THEN [kind |-> "frame"] ELSE Status(500))

\* nff_rejected_refs: a guarded move whose guard is not what was read.
NffRejected ==
    {updates[i].ref : i \in {k \in Positions :
        /\ updates[k].old # 0 /\ updates[k].new # 0
        /\ updates[k].old # existing[updates[k].ref]}}

RefnameRejected == {updates[i].ref : i \in Positions} \cap {Funny}

\* IngestWorker::ingest, as the front door sees it: it fails, or stores what
\* the unscreened updates bring and names those it refused.
HandToWorker ==
    /\ step = "read"
    /\ \/ AnswersError /\ UNCHANGED <<judged, known>>
       \/ \E missing \in SUBSET ({updates[i].ref : i \in Positions} \ (NffRejected \cup RefnameRejected)) :
            /\ screened' = NffRejected
            /\ refused' = missing \cup RefnameRejected
            /\ known' = known \cup
                 ({updates[i].new : i \in {k \in Positions :
                     updates[k].ref \notin missing \cup NffRejected \cup RefnameRejected}} \ {0})
            /\ step' = "stored"
            /\ UNCHANGED <<commands, judgements, reply>>
    /\ UNCHANGED <<request, parsed, answered, tips, landed, row, moves>>

---------------------------------------------------------------------------
(* What lands *)

StillAlive == {i \in Positions : updates[i].ref \notin screened \cup refused}

\* The command the hook sees: force is a move that does not fast-forward.
RefCommand(i) ==
    LET u == updates[i] IN
    [ref |-> u.ref, old |-> u.old, new |-> u.new,
     force |-> u.old # 0 /\ u.new # 0 /\ ~IsAncestor(u.old, u.new)]

Commands == Picked([i \in 1 .. Len(updates) |-> RefCommand(i)], StillAlive)

\* What the hook may answer: judgements of refs it was asked about or not,
\* some more than once, some neither way.
Judgements ==
    UNION {[1 .. n -> [ref : Names, verdict : {"allow", "refuse", "neither"}]] : n \in 0 .. MaxJudgements}

\* Mutant: a later judgement of a ref replaces an earlier one.
RefusedByLast(js) ==
    {r \in Names : \E i \in DOMAIN js :
        /\ js[i].ref = r /\ js[i].verdict = "refuse"
        /\ \A j \in DOMAIN js : j > i => js[j].ref # r}

\* Of several judgements of one ref, a refusal stands.
RefusedBy(js) == {js[i].ref : i \in {k \in DOMAIN js : js[k].verdict = "refuse"}}

\* Every command takes a judgement out of the answer, so a ref the push names
\* twice leaves its second command without one.
Unjudged(cs, js) ==
    {i \in DOMAIN cs : \/ \A j \in DOMAIN js : js[j].ref # cs[i].ref
                       \/ \E k \in DOMAIN cs : k < i /\ cs[k].ref = cs[i].ref}

\* hooks::pre_receive over what is still alive.  A hook that cannot be
\* reached, that judges a ref neither way or passes over a command fails the
\* push before a ref moves.
PreReceive(js) ==
    /\ step = "stored"
    /\ commands' = Commands
    /\ IF Commands = <<>>
       THEN step' = "judged" /\ judgements' = <<>> /\ UNCHANGED <<refused, reply>>
       ELSE \/ /\ judgements' = js
               /\ IF \/ \E j \in DOMAIN js : js[j].verdict = "neither"
                     \/ Unjudged(Commands, js) # {}
                  THEN AnswersError /\ UNCHANGED refused
                  ELSE /\ refused' = refused \cup
                            ({Commands[i].ref : i \in DOMAIN Commands} \cap RefusedBy(js))
                       /\ step' = "judged" /\ UNCHANGED reply
            \/ AnswersError /\ judgements' = <<>> /\ UNCHANGED refused
    /\ UNCHANGED <<request, parsed, screened, answered, world>>

\* One update of update_refs (see RefStore): the guard, then the number a
\* branch's tip must have, then whether it is there to create.
Applies(table, u) ==
    /\ u.ref # Funny
    /\ \/ u.new = 0 /\ u.old \in {0, table[u.ref]}
       \/ u.new # 0 /\ u.old = table[u.ref] /\ u.new \in known

\* update_refs over the updates not refused: one transaction, in order.
ToApply == {i \in Positions : updates[i].ref \notin refused}

Applied ==
    LET upto[n \in 0 .. Len(updates)] ==
          IF n = 0 THEN [table |-> tips, ok |-> {}]
          ELSE LET acc == upto[n - 1]
               IN  IF n \in ToApply /\ Applies(acc.table, updates[n])
                   THEN [table |-> [acc.table EXCEPT ![updates[n].ref] = updates[n].new],
                         ok |-> acc.ok \cup {n}]
                   ELSE acc
    IN  upto[Len(updates)]

\* Mutant: what was not refused beforehand is taken to have landed.
OutcomesUnasked(ok) ==
    [i \in Positions |-> IF updates[i].ref \in refused THEN "refused" ELSE "ok"]

\* resolve_ref_updates: the answers are kept by refname, a later one over an
\* earlier, and each is given out once; who asks again is told "internal".
ResolveRefUpdates(ok) ==
    [i \in Positions |->
        LET r == updates[i].ref
            same == {j \in Positions : updates[j].ref = r}
            last == CHOOSE j \in same : \A k \in same : k <= j
        IN  CASE \E k \in same : k < i -> "internal"
              [] r \in refused -> "refused"
              [] last \in ok -> "ok"
              [] OTHER -> "rejected"]

ApplyRefUpdates ==
    /\ step = "judged"
    /\ \/ /\ tips' = Applied.table
          /\ landed' = Applied.ok
          /\ outcomes' = ResolveRefUpdates(Applied.ok)
          /\ step' = "landed" /\ UNCHANGED reply
       \/ /\ ToApply # {} /\ AnswersError
          /\ UNCHANGED <<tips, landed, outcomes>>
    /\ UNCHANGED <<request, parsed, judged, told, known, row, moves>>

\* hooks::post_receive: the commands whose ref came out ok, if there is one.
\* What it says is dropped when it cannot be reached.
Landed(c) == \E i \in Positions : updates[i].ref = c.ref /\ outcomes[i] = "ok"

PostReceive ==
    /\ step = "landed"
    /\ told' = Picked(commands, {k \in DOMAIN commands : Landed(commands[k])})
    /\ step' = "told"
    /\ UNCHANGED <<request, parsed, judged, outcomes, reply, world>>

\* build_report_status; only a streamed answer has room for the messages.
ReportStatus ==
    /\ step = "told"
    /\ Answer([kind |-> "report", outcomes |-> outcomes, streamed |-> sideband])
    /\ UNCHANGED <<request, parsed, judged, answered, world>>

\* race_keepalive: a frame that cannot be sent drops the push where it is, as
\* does a client that leaves before a plain answer.  A drop inside update_refs
\* leaves the refs either way.
Leave ==
    /\ step \in {"read", "stored", "judged", "landed", "told"}
    /\ step' = "dropped"
    /\ \/ UNCHANGED <<tips, landed>>
       \/ step = "judged" /\ tips' = Applied.table /\ landed' = Applied.ok
    /\ UNCHANGED <<request, parsed, judged, answered, reply, known, row, moves>>

---------------------------------------------------------------------------
(* Everyone else *)

Rival(r, v) ==
    /\ moves < MaxMoves /\ step \notin {"answered", "dropped"}
    /\ tips[r] # v /\ v \in known \cup {0}
    /\ moves' = moves + 1
    /\ tips' = [tips EXCEPT ![r] = v]
    /\ UNCHANGED <<step, request, parsed, judged, answered, reply, known, landed, row>>

DeleteRow ==
    /\ row = "live" /\ step \in {"routed", "cleared"}
    /\ row' = "deleted"
    /\ UNCHANGED <<step, request, parsed, judged, answered, reply, tips, known, landed, moves>>

RNext ==
    \/ \E p \in Paths, ls \in Pushed : Route(p, ls)
    \/ \E c \in Clearances : Authorize(c)
    \/ Resolve \/ UnknownService \/ ReadCommands \/ HandToWorker
    \/ \E access \in {"read", "write"}, visible \in SUBSET Refs : Advertise(access, visible)
    \/ \E js \in Judgements : PreReceive(js)
    \/ ApplyRefUpdates \/ PostReceive \/ ReportStatus \/ Leave
    \/ \E r \in Names, v \in 0 .. 2 : Rival(r, v)
    \/ DeleteRow

RSpec == RInit /\ [][RNext]_rvars

---------------------------------------------------------------------------

\* Whatever pre_receive is asked and however it answers (strays, repeats,
\* silence), no ref it was asked about moves unless every command had a
\* judgement and none of that ref's judgements refused it; and the refs the
\* worker refused never move.
HookDecides ==
    \A i \in landed :
        /\ updates[i].ref # Funny
        /\ updates[i].ref \notin screened =>
             /\ \E j \in DOMAIN judgements : judgements[j].ref = updates[i].ref
             /\ \A j \in DOMAIN judgements :
                  judgements[j].ref = updates[i].ref => judgements[j].verdict = "allow"
             /\ \A c \in DOMAIN commands :
                  \E j \in DOMAIN judgements : judgements[j].ref = commands[c].ref

\* For a ref the push names once, build_report_status says ok exactly when
\* its update landed, across rival moves; a ref named twice is never reported
\* ok without having moved; and post_receive is told exactly what was asked
\* of pre_receive and landed.
ReportIsTrue ==
    reply.kind = "report" =>
        /\ \A i \in Positions :
             /\ NamedOnce(i) => (reply.outcomes[i] = "ok" <=> i \in landed)
             /\ reply.outcomes[i] = "ok" => \E j \in landed : updates[j].ref = updates[i].ref
        /\ {told[k] : k \in DOMAIN told} = {RefCommand(i) : i \in landed \cap StillAlive}

===========================================================================
