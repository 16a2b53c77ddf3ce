------------------------------- MODULE Remote -------------------------------
(* Pushing this repository's refs to a git server somewhere else: the one    *)
(* place where it is a client.  The commands are worked out from what the    *)
(* remote advertises, the pack is the plan of a fetch whose haves are all    *)
(* that was advertised, and the answer is read from the remote's report,     *)
(* which may be lost.  The remote is external: it compares and sets each     *)
(* ref, refuses what it likes, and others push to it meanwhile.              *)
EXTENDS Fetch

CONSTANTS
    Requests,       \* the pushes a caller may ask for: [refs, atomic, url]
    Foreign,        \* the histories the remote may start with: sets of commits
    OthersMove      \* how often someone else moves a ref of the remote

VARIABLES
    remote,         \* [has, refs, moves]
    push            \* the push under way: [phase, ...]

remoteVars == <<remote, push>>

Null == Commit(0)
NoPush == [phase |-> "none"]

RefAt(refs, r) == IF r \in DOMAIN refs THEN refs[r] ELSE Null

\* An outcome without a report: which of the errors the caller is given.
Failed(error) == push' = [push EXCEPT !.phase = "answered", !.error = error]

-----------------------------------------------------------------------------
(* Which remote may be dialed                                              *)

\* An address the public internet does not route to, however it is written.
IsPublic(address) == address.block = "public"

\* A name is resolved, and every address it has must be a public one; one
\* that does not resolve has none.
Dialable(url, private) ==
    /\ url.scheme \in (IF private THEN {"https", "http"} ELSE {"https"})
    /\ ~ url.credentials /\ ~ url.query /\ url.host
    /\ private \/ (url.addresses # {} /\ \A a \in url.addresses : IsPublic(a))

-----------------------------------------------------------------------------
(* What each refspec asks for                                              *)

Destination(spec) == IF spec.destination = "" THEN spec.source ELSE spec.destination

\* A spec becomes a command or, when there is nothing to ask, an outcome.
StepOf(spec, local, refs) ==
    LET d == Destination(spec)
        old == RefAt(refs, d)
        new == IF spec.source = "" THEN Null ELSE RefAt(local, spec.source)
    IN  [ ref |-> d, old |-> old, new |-> new, force |-> spec.force,
          status |-> IF spec.source # "" /\ spec.source \notin DOMAIN local THEN "rejected"
                     ELSE IF old = new THEN "up_to_date" ELSE "send" ]

\* Refused as a whole: a spec without a ref, an unqualified one, one ref twice.
WellNamed(specs, local) ==
    /\ \A i \in DOMAIN specs : Destination(specs[i]) \in DOMAIN local \union {"side"}
    /\ \A i, j \in DOMAIN specs : Destination(specs[i]) = Destination(specs[j]) => i = j

IsAncestor(old, new) ==
    /\ old[1] = "commit" /\ new[1] = "commit" /\ old[2] \in recorded
    /\ old[2] \in Ancestors({new[2]})

\* The protocol carries no force bit: this side is what refuses.
FastForwardOnly(s) ==
    IF s.status = "send" /\ ~ (s.force \/ s.old = Null \/ s.new = Null \/ IsAncestor(s.old, s.new))
      THEN [s EXCEPT !.status = "rejected"] ELSE s

\* Mutant: a ref refused on this side leaves the others to the remote.
HoldBackNone(steps) == steps

\* An atomic push with a ref refused here sends nothing.
HoldBack(steps) ==
    IF \E i \in DOMAIN steps : steps[i].status = "rejected"
      THEN [i \in DOMAIN steps |-> IF steps[i].status = "send"
                                     THEN [steps[i] EXCEPT !.status = "rejected"] ELSE steps[i]]
      ELSE steps

Commands(steps) == {s \in Range(steps) : s.status = "send"}

-----------------------------------------------------------------------------
(* The push                                                                *)

\* The request is looked at first: its refs, then whether its credentials fit
\* in a header.
Begin ==
    /\ push = NoPush
    /\ \E request \in Requests, private \in BOOLEAN, sendable \in BOOLEAN :
         LET stated == request.refs # <<>> /\ sendable
         IN  push' = [ phase |-> IF stated /\ Dialable(request.url, private)
                                   THEN "dialing" ELSE "answered",
                       request |-> request, seen |-> <<>>, steps |-> <<>>, report |-> <<>>,
                       landed |-> {}, error |-> IF stated THEN "remote" ELSE "request" ]
    /\ UNCHANGED remote

\* check_status: what an answer that is no success is made of.
StatusErrors == {"unauthorized", "remote"}

\* The advertisement: the refs, and every object named, peeled tags included.
\* A redirect or another status that is no success, an answer that stops or is
\* too large, and a remote without what the push needs end here.
Discover ==
    /\ push.phase = "dialing"
    /\ \/ push' = [push EXCEPT !.phase = "discovered", !.seen = remote.refs]
       \/ \E error \in StatusErrors \union {"unsupported", "protocol", "transport"} : Failed(error)
    /\ UNCHANGED remote

Tips(refs) == Peeled(Range(refs))

\* The refs and the history of this side are read from the store, or are not.
PlanCommands ==
    /\ push.phase = "discovered"
    /\ Failed("storage") \/
       LET local == [r \in Direct(repo.refs) |-> repo.refs[r]]
           specs == push.request.refs
           all == [i \in DOMAIN specs |-> FastForwardOnly(StepOf(specs[i], local, push.seen))]
           steps == IF push.request.atomic THEN HoldBack(all) ELSE all
       IN  IF ~ WellNamed(specs, local) THEN Failed("request")
           ELSE push' = [push EXCEPT !.steps = steps, !.error = "none",
                             !.phase = IF Commands(steps) = {} THEN "answered" ELSE "planned"]
    /\ UNCHANGED remote

\* The haves are all the remote advertised; what this repository has no number
\* for is dropped by the walk.
RawFetch ==
    [ wants |-> {s.new : s \in {t \in Commands(push.steps) : t.new # Null}},
      haves |-> Seqs(Tips(push.seen)) \intersect History,
      shallow |-> {}, deepen |-> {}, filters |-> {} ]

Send ==
    /\ push.phase = "planned"
    /\ IF RawFetch.wants = {} THEN push' = [push EXCEPT !.phase = "sent", !.report = {}]
       ELSE \E p \in {PlanFetch(RawFetch)} :
              IF p.ok THEN push' = [push EXCEPT !.phase = "sent", !.report = Entries(p)]
              ELSE Failed("pack")
    /\ UNCHANGED remote

\* The pack cannot be read to its end, or the connection goes away before the
\* remote has the whole request.
SendFails == push.phase = "sent" /\ Failed("transport") /\ UNCHANGED remote

-----------------------------------------------------------------------------
(* The remote                                                              *)

\* Someone else moves a ref of the remote to a commit it has.
OtherPush ==
    /\ remote.moves > 0
    /\ \E c \in Seqs(remote.has), r \in DOMAIN remote.refs :
          remote' = [remote EXCEPT !.refs[r] = Commit(c), !.moves = @ - 1]
    /\ UNCHANGED push

\* It stores the pack and moves the refs it will: those still where the
\* command says, all of them or none when the push is atomic.
RemoteLands ==
    /\ push.phase = "sent"
    /\ LET cmds == Commands(push.steps)
           able == {s \in cmds : RefAt(remote.refs, s.ref) = s.old}
       IN  \E taken \in SUBSET able :
             /\ push.request.atomic => taken \in {{}, cmds}
             /\ LET refs == [r \in (DOMAIN remote.refs \union {s.ref : s \in taken}) |->
                               IF \E s \in taken : s.ref = r
                                 THEN (CHOOSE s \in taken : s.ref = r).new ELSE remote.refs[r]]
                IN  remote' = [remote EXCEPT
                        !.has = @ \union push.report,
                        !.refs = [r \in {x \in DOMAIN refs : refs[x] # Null} |-> refs[r]]]
             /\ push' = [push EXCEPT !.phase = "landed", !.landed = {s.ref : s \in taken}]

RemoteRefusesPack ==
    /\ push.phase = "sent"
    /\ push' = [push EXCEPT !.phase = "refused"]
    /\ UNCHANGED remote

\* What came of one step, by the report: nothing said is no success.
Status(s, said) ==
    CASE s.status # "send" -> s.status
      [] s.status = "send" /\ s.ref \in said /\ s.new = Null -> "deleted"
      [] s.status = "send" /\ s.ref \in said /\ s.new # Null -> "updated"
      [] OTHER -> "rejected"

\* The report arrives, perhaps without a line for some ref; or the status did
\* and the body did not; or the status is no success, whatever has landed.
Report ==
    /\ push.phase \in {"landed", "refused"}
    /\ \/ \E said \in SUBSET push.landed :
             push' = [push EXCEPT !.phase = "answered", !.error = IF push.phase = "refused" THEN "pack_refused" ELSE "none",
                          !.steps = [i \in DOMAIN push.steps |->
                                        [push.steps[i] EXCEPT !.status = Status(push.steps[i], said)]]]
       \/ Failed("report_unread")
       \/ \E error \in StatusErrors : Failed(error)
    /\ UNCHANGED remote

\* The answer is lost before its status, or PUSH_TIMEOUT passes.
AnswerLost ==
    /\ push.phase \in {"landed", "refused"}
    /\ Failed("transport")
    /\ UNCHANGED remote

\* push_failed: the status a call ends with when there are no outcomes.
PushFailed(error) ==
    CASE error = "request" -> "invalid_argument"
      [] error \in {"remote", "protocol", "unsupported"} -> "failed_precondition"
      [] error = "unauthorized" -> "permission_denied"
      [] error = "pack_refused" -> "aborted"
      [] error = "report_unread" -> "unknown"
      [] error = "transport" -> "unavailable"
      [] error \in {"pack", "storage"} -> "internal"

RemoteInit ==
    /\ push = NoPush
    /\ \E S \in Foreign :
         LET own == Ancestors(S \intersect History)
         IN  remote = [ has |-> UNION {{Commit(c)} \union Whole(repo.snapshot[c]) : c \in own},
                        refs |-> IF own = {} THEN <<>> ELSE "main" :> Commit(Max(own)),
                        moves |-> OthersMove ]

RemoteNext ==
    \/ Begin \/ Discover \/ PlanCommands \/ Send \/ SendFails \/ OtherPush
    \/ RemoteLands \/ RemoteRefusesPack \/ Report \/ AnswerLost

\* A push takes what the repository holds as it finds it.
RemoteSpec == RemoteInit /\ [][RemoteNext /\ UNCHANGED vars]_<<vars, remoteVars>>

-----------------------------------------------------------------------------
(* Properties                                                              *)

RemoteIsWhole ==
    \A o \in Peeled(Range(remote.refs)) :
        IF o[1] = "commit"
          THEN \A c \in Ancestors({o[2]}) : {Commit(c)} \union Whole(repo.snapshot[c]) \subseteq remote.has
          ELSE o \in remote.has

\* Whoever takes a pack from here is left whole: a client that fetched, over
\* any sequence of clones, deepenings and filters (ClientIsWhole), and a remote
\* pushed to, whose refs name nothing but complete histories, although the pack
\* was cut against an advertisement that was stale when it landed.
ReceiversAreWhole == ClientIsWhole /\ RemoteIsWhole

\* What Client::push answers is what happened: a ref reported as moved was
\* moved, an atomic push moved all it was asked to or, with one refusal on
\* either side, nothing, and without force no commit of the remote's is
\* dropped, though others push to it meanwhile.  Of the statuses
\* push_to_remote fails with, invalid_argument, aborted and internal say that
\* nothing landed; any of the others may follow a push that did,
\* failed_precondition and permission_denied too, since the status of the
\* remote's answer is looked at before its report.
OutcomesAreTrue ==
    push.phase \in {"landed", "answered"} =>
        LET steps == Range(push.steps)
            moved == {s \in steps : s.ref \in push.landed}
        IN  /\ push.phase = "answered" /\ push.error = "none" =>
                 \A s \in steps : s.status \in {"updated", "deleted"} => s \in moved
            /\ push.request.atomic /\ moved # {} =>
                 \A s \in steps : s \in moved \/ s.status = "up_to_date"
            /\ \A s \in moved : s.force \/ s.new = Null \/ s.old = Null \/ IsAncestor(s.old, s.new)
            /\ push.phase = "answered" /\ push.error # "none" /\ moved # {} =>
                 PushFailed(push.error) \notin {"invalid_argument", "aborted", "internal"}
=============================================================================
