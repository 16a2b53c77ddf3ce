----------------------------- MODULE Lifecycle -----------------------------
(***************************************************************************)
(* A repository from its creation to its erasure: create and delete calls  *)
(* (server/app/grpc.rs), the row and its key (server/postgres/repos.rs),   *)
(* pushes that fill it, the operator who takes a deletion back, and the    *)
(* maintenance passes that erase what was deleted and then tend what is    *)
(* live (server/app/maintenance.rs).                                       *)
(*                                                                         *)
(* What a push leaves is told apart by how the purge finds it: objects     *)
(* under the repository's own prefix, which are listed; index objects,     *)
(* which only a catalog row names; and rows.  A push puts one object of    *)
(* each kind, named by the push.  How a push numbers and lands is in Push, *)
(* what gathers, merges and sweeps do step by step in Gather and Segments. *)
(***************************************************************************)
EXTENDS Naturals, FiniteSets, SequencesExt

CONSTANTS
    Keys,               \* names the application gives to repositories
    MaxRepo,            \* bound: repositories ever created
    Callers,            \* concurrent delete calls
    Pushes,             \* pushes
    Maintainers,        \* processes that run maintenance passes
    StoreReportsAbsent  \* deleting an object that is not there is an error

Repos == 1 .. MaxRepo

ASSUME RepoBoundIsNatural == MaxRepo \in Nat
ASSUME StoreAnswers == StoreReportsAbsent \in BOOLEAN

VARIABLES
    status,     \* repository -> its row; lapsed is deleted and past the window
    key,        \* repository -> its external_key, or "" before there is one
    graves,     \* repositories by deleted_at, oldest first
    counters,   \* repositories with rows in repo_object_seq
    call,       \* per caller: the repository its key resolved to, or 0
    work,       \* per push: where it is
    home,       \* per push: the repository it resolved, or 0
    packs,      \* pushes whose objects lie under the prefix of the repository
    indexed,    \* pushes whose index object is in the bucket
    seqs,       \* pushes with rows in object_seqs
    segments,   \* pushes with rows in commit_segments
    listed,     \* pushes with a catalog row that names an object in the bucket
    refs,       \* pushes with rows in branches or refs
    at,         \* per maintainer: where its pass is
    repo,       \* per maintainer: the repository being purged, or 0
    todo        \* per maintainer: repositories the present loop has left

rows == <<status, key, graves, counters>>
objects == <<packs, indexed>>
recorded == <<seqs, segments, listed, refs>>
passes == <<at, repo, todo>>
vars == <<rows, call, work, home, objects, recorded, passes>>

InFlight == {"resolved", "stored", "numbered", "prepared", "journaled"}

TypeOK ==
    /\ status \in [Repos -> {"none", "live", "deleted", "lapsed", "erased"}]
    /\ key \in [Repos -> Keys \union {""}]
    /\ graves \in Seq(Repos)
    /\ counters \subseteq Repos
    /\ call \in [Callers -> 0 .. MaxRepo]
    /\ work \in [Pushes -> InFlight \union {"idle", "over"}]
    /\ home \in [Pushes -> 0 .. MaxRepo]
    /\ packs \subseteq Pushes /\ indexed \subseteq Pushes
    /\ seqs \subseteq Pushes /\ segments \subseteq Pushes
    /\ listed \subseteq Pushes /\ refs \subseteq Pushes
    /\ at \in [Maintainers -> {"idle", "objects", "indexes", "rows", "tending"}]
    /\ repo \in [Maintainers -> 0 .. MaxRepo]
    /\ todo \in [Maintainers -> SUBSET Repos]

Init ==
    /\ status = [r \in Repos |-> "none"]
    /\ key = [r \in Repos |-> ""]
    /\ graves = <<>>
    /\ counters = {}
    /\ call = [c \in Callers |-> 0]
    /\ work = [p \in Pushes |-> "idle"]
    /\ home = [p \in Pushes |-> 0]
    /\ packs = {} /\ indexed = {}
    /\ seqs = {} /\ segments = {} /\ listed = {} /\ refs = {}
    /\ at = [m \in Maintainers |-> "idle"]
    /\ repo = [m \in Maintainers |-> 0]
    /\ todo = [m \in Maintainers |-> {}]

-----------------------------------------------------------------------------
(* Rows.                                                                   *)

HasRow(r) == status[r] \in {"live", "deleted", "lapsed"}

\* The live repositories called k: by_key, and what the insert's conflict
\* target compares with.
Holders(k) == {r \in Repos : status[r] = "live" /\ key[r] = k}

\* What bigserial gives out next.
NextId == {r \in Repos : \A q \in Repos : q < r <=> status[q] # "none"}

\* What of S belongs to r.
Of(S, r) == {p \in S : home[p] = r}

-----------------------------------------------------------------------------
(* Calls.                                                                  *)

\* Counters that are not there yet: a repeat adds none.
InsertCounters(r) == counters' = counters \union {r}

\* create_repository: one transaction inserts the row, or finds the holder
\* of the key, and its counters.  Describing it to the
\* caller changes nothing.
Create(k) ==
    \E r \in IF Holders(k) = {} THEN NextId ELSE Holders(k) :
        /\ status' = [status EXCEPT ![r] = "live"]
        /\ key' = [key EXCEPT ![r] = k]
        /\ InsertCounters(r)
        /\ UNCHANGED <<graves, call, work, home, objects, recorded, passes>>

\* delete_repository resolves the key; a key nobody holds ends the call.
Held(c, k) ==
    /\ call[c] = 0
    /\ \E r \in Holders(k) : call' = [call EXCEPT ![c] = r]
    /\ UNCHANGED <<rows, work, home, objects, recorded, passes>>

Bury(r) ==
    /\ status' = [status EXCEPT ![r] = "deleted"]
    /\ graves' = Append(graves, r)

\* ... and marks the repository it found, unless it is marked already.
MarkDeleted(c) ==
    /\ call[c] # 0
    /\ IF status[call[c]] = "live" THEN Bury(call[c]) ELSE UNCHANGED <<status, graves>>
    /\ call' = [call EXCEPT ![c] = 0]
    /\ UNCHANGED <<key, counters, work, home, objects, recorded, passes>>

\* The update fails, and the caller is told of an internal error.
LoseDelete(c) ==
    /\ call[c] # 0
    /\ call' = [call EXCEPT ![c] = 0]
    /\ UNCHANGED <<rows, work, home, objects, recorded, passes>>

\* The operator clears deleted_at, within the window; the unique index
\* refuses a key that is in use again.
Restore(r) ==
    /\ status[r] = "deleted" /\ Holders(key[r]) = {}
    /\ status' = [status EXCEPT ![r] = "live"]
    /\ \E i \in DOMAIN graves : graves[i] = r /\ graves' = RemoveAt(graves, i)
    /\ UNCHANGED <<key, counters, call, work, home, objects, recorded, passes>>

\* deleted_grace_secs have passed.  Pushes end within the window: it is a
\* day, and a push that resolved the repository did so before the deletion.
Lapse(r) ==
    /\ status[r] = "deleted"
    /\ \A p \in Pushes : home[p] = r => work[p] \notin InFlight
    /\ \A i, j \in DOMAIN graves : i < j /\ graves[j] = r => status[graves[i]] # "deleted"
    /\ status' = [status EXCEPT ![r] = "lapsed"]
    /\ UNCHANGED <<key, graves, counters, call, work, home, objects, recorded, passes>>

-----------------------------------------------------------------------------
(* Pushes.                                                                 *)

Resolve(p, k) ==
    /\ work[p] = "idle"
    /\ \E r \in Holders(k) : home' = [home EXCEPT ![p] = r]
    /\ work' = [work EXCEPT ![p] = "resolved"]
    /\ UNCHANGED <<rows, call, objects, recorded, passes>>

Advance(p, from, to) ==
    /\ work[p] = from
    /\ work' = [work EXCEPT ![p] = to]
    /\ UNCHANGED <<rows, call, home, passes>>

\* Pack images and tags, under repos/{storage_key}.
PutObjects(p) ==
    /\ Advance(p, "resolved", "stored")
    /\ packs' = packs \union {p}
    /\ UNCHANGED <<indexed, recorded>>

\* allocate needs the counters, record needs nothing.
Number(p) ==
    /\ Advance(p, "stored", "numbered")
    /\ home[p] \in counters
    /\ seqs' = seqs \union {p}
    /\ UNCHANGED <<objects, segments, listed, refs>>

\* The index segment is put before the row that names it; a small one is
\* kept in its row instead.
Prepare(p, large) ==
    /\ Advance(p, "numbered", "prepared")
    /\ indexed' = IF large THEN indexed \union {p} ELSE indexed
    /\ UNCHANGED <<packs, recorded>>

\* The journal's transaction; commit_segments references repositories.
Journal(p) ==
    /\ Advance(p, "prepared", "journaled")
    /\ HasRow(home[p])
    /\ segments' = segments \union {p}
    /\ listed' = listed \union ({p} \intersect indexed)
    /\ UNCHANGED <<objects, seqs, refs>>

MoveRefs(p) ==
    /\ Advance(p, "journaled", "over")
    /\ HasRow(home[p])
    /\ refs' = refs \union {p}
    /\ UNCHANGED <<objects, seqs, segments, listed>>

\* A push that fails or whose process goes away leaves what it did.
Fail(p) ==
    /\ work[p] \in InFlight
    /\ work' = [work EXCEPT ![p] = "over"]
    /\ UNCHANGED <<rows, call, home, objects, recorded, passes>>

-----------------------------------------------------------------------------
(* The purge, the first loop of a pass.                                    *)

Goto(m, where, r, left) ==
    /\ at' = [at EXCEPT ![m] = where]
    /\ repo' = [repo EXCEPT ![m] = r]
    /\ todo' = [todo EXCEPT ![m] = left]

Place(r) == CHOOSE i \in DOMAIN graves : graves[i] = r

\* What the loop takes next: the repository deleted longest ago.
Oldest(S) == {r \in S : \A q \in S : Place(r) <= Place(q)}

ListDeleted(m) ==
    /\ at[m] = "idle"
    /\ Goto(m, "objects", 0, {r \in Repos : status[r] = "lapsed"})
    /\ UNCHANGED <<rows, call, work, home, objects, recorded>>

\* delete_repo_objects: list the prefix and delete what is there.
PurgeObjects(m) ==
    /\ at[m] = "objects"
    /\ \E r \in Oldest(todo[m]) :
        /\ packs' = packs \ Of(packs, r)
        /\ Goto(m, "indexes", r, todo[m] \ {r})
    /\ UNCHANGED <<rows, call, work, home, indexed, recorded>>

\* Mutant: the failure is counted and the repository goes on.
FailObjectsAndGoOn(m) ==
    /\ at[m] = "objects"
    /\ \E r \in Oldest(todo[m]) :
        /\ \E gone \in SUBSET Of(packs, r) : packs' = packs \ gone
        /\ Goto(m, "indexes", r, todo[m] \ {r})
    /\ UNCHANGED <<rows, call, work, home, indexed, recorded>>

\* A listing or a delete fails after some deletes: the error ends the pass.
FailObjects(m) ==
    /\ at[m] = "objects"
    /\ \E r \in Oldest(todo[m]) :
        \E gone \in SUBSET Of(packs, r) : packs' = packs \ gone
    /\ Goto(m, "idle", 0, {})
    /\ UNCHANGED <<rows, call, work, home, indexed, recorded>>

\* What purge_bucket can fail to delete of the objects that rows name.
Orphaned(r) ==
    {S \in SUBSET Of(listed, r) : StoreReportsAbsent => Of(listed, r) \ indexed \subseteq S}

\* Mutant: one object that goes is as good as all.
PurgeIndexesSome(m) ==
    /\ at[m] = "indexes"
    /\ \E gone \in SUBSET Of(listed, repo[m]) : indexed' = indexed \ gone
    /\ Goto(m, "rows", repo[m], todo[m])
    /\ UNCHANGED <<rows, call, work, home, packs, recorded>>

\* Mutant: a repository with index objects is deferred, whatever went.
PurgeIndexesNever(m) ==
    /\ at[m] = "indexes" /\ Of(listed, repo[m]) = {}
    /\ Goto(m, "rows", repo[m], todo[m])
    /\ UNCHANGED <<rows, call, work, home, objects, recorded>>

\* purge_bucket of the graph and of the object index: every object that a
\* row names goes ...
PurgeIndexes(m) ==
    /\ at[m] = "indexes" /\ {} \in Orphaned(repo[m])
    /\ indexed' = indexed \ Of(listed, repo[m])
    /\ Goto(m, "rows", repo[m], todo[m])
    /\ UNCHANGED <<rows, call, work, home, packs, recorded>>

\* ... or some do not, and the repository waits for another pass.
Defer(m) ==
    /\ at[m] = "indexes"
    /\ \E orphaned \in Orphaned(repo[m]) \ {{}} :
        indexed' = indexed \ (Of(listed, repo[m]) \ orphaned)
    /\ Goto(m, "objects", 0, todo[m])
    /\ UNCHANGED <<rows, call, work, home, packs, recorded>>

\* Every row of r's but the one that names it: REPO_TABLES.
PurgeRows(r) ==
    /\ refs' = refs \ Of(refs, r)
    /\ segments' = segments \ Of(segments, r)
    /\ seqs' = seqs \ Of(seqs, r)
    /\ counters' = counters \ {r}

\* The lists of index segments, one for each index.
PurgeLists(r) == listed' = listed \ Of(listed, r)

\* ledger.erase: the rows, the lists and last the row itself, in one
\* transaction.
Erase(m) ==
    /\ at[m] = "rows"
    /\ LET r == repo[m] IN
        /\ status' = [status EXCEPT ![r] = "erased"]
        /\ PurgeRows(r) /\ PurgeLists(r)
    /\ Goto(m, "objects", 0, todo[m])
    /\ UNCHANGED <<key, graves, call, work, home, objects>>

\* The database fails, or the process goes away.
FailPass(m) ==
    /\ at[m] # "idle"
    /\ Goto(m, "idle", 0, {})
    /\ UNCHANGED <<rows, call, work, home, objects, recorded>>

-----------------------------------------------------------------------------
(* The second loop, over what was live when it began.                      *)

ListLive(m) ==
    /\ at[m] = "objects" /\ todo[m] = {}
    /\ Goto(m, "tending", 0, {r \in Repos : status[r] = "live"})
    /\ UNCHANGED <<rows, call, work, home, objects, recorded>>

\* Mutant: what a push still running has put is swept too.
StrayAnyAge(r, S, named) == Of(S, r) \ named

Stray(r, S, named) == {p \in Of(S, r) \ named : work[p] \notin InFlight}

\* run_repo, of which only the sweeps matter here: objects that no row names
\* and that are older than any push go, those whose deletion fails stay.
Tend(m) ==
    /\ at[m] = "tending"
    /\ \E r \in todo[m] :
        /\ \E gone \in SUBSET Stray(r, indexed, listed) : indexed' = indexed \ gone
        /\ \E gone \in SUBSET Stray(r, packs, segments) : packs' = packs \ gone
        /\ Goto(m, "tending", 0, todo[m] \ {r})
    /\ UNCHANGED <<rows, call, work, home, recorded>>

EndPass(m) ==
    /\ at[m] = "tending" /\ todo[m] = {}
    /\ Goto(m, "idle", 0, {})
    /\ UNCHANGED <<rows, call, work, home, objects, recorded>>

-----------------------------------------------------------------------------
Calling ==
    \/ \E k \in Keys : Create(k)
    \/ \E c \in Callers, k \in Keys : Held(c, k)
    \/ \E c \in Callers : MarkDeleted(c) \/ LoseDelete(c)

Aging == \E r \in Repos : Restore(r) \/ Lapse(r)

Pushing ==
    \/ \E p \in Pushes, k \in Keys : Resolve(p, k)
    \/ \E p \in Pushes : PutObjects(p) \/ Number(p) \/ Journal(p) \/ MoveRefs(p) \/ Fail(p)
    \/ \E p \in Pushes, large \in BOOLEAN : Prepare(p, large)

Purging(m) ==
    \/ ListDeleted(m) \/ PurgeObjects(m) \/ FailObjects(m)
    \/ PurgeIndexes(m) \/ Defer(m) \/ Erase(m) \/ FailPass(m)

Tending(m) == ListLive(m) \/ Tend(m) \/ EndPass(m)

Next == Calling \/ Aging \/ Pushing \/ \E m \in Maintainers : Purging(m) \/ Tending(m)

Spec == Init /\ [][Next]_vars

\* Passes follow one another for as long as the process serves, and a step
\* that can be tried in pass after pass does not fail in every one.
PassesGoOn ==
    \A m \in Maintainers :
        /\ WF_vars(ListDeleted(m) \/ Tend(m) \/ EndPass(m))
        /\ WF_vars(FailObjects(m) \/ Defer(m))
        /\ SF_vars(PurgeObjects(m)) /\ SF_vars(PurgeIndexes(m)) /\ SF_vars(Erase(m))
        /\ SF_vars(ListLive(m))

LiveSpec == Spec /\ PassesGoOn

-----------------------------------------------------------------------------
(* What holds.                                                             *)

\* A repository that is live, or can still be restored, has every object its
\* rows name: neither the purge nor the sweeps have touched it.
RestorableIsWhole ==
    \A r \in Repos : status[r] \in {"live", "deleted"} =>
        Of(segments, r) \subseteq packs /\ Of(listed, r) \subseteq indexed

\* Rows go only when no object in the bucket needs them to be found, which is
\* what purge_deleted_repos defers repositories for.
EraseStrandsNothingNamed ==
    [][\A r \in Repos :
        status[r] = "lapsed" /\ status'[r] = "erased" =>
            Of(listed, r) \intersect indexed = {}]_vars

\* Nothing is left under the prefix of an erased repository, crashed pushes
\* and interrupted purges included.
ErasedPrefixIsEmpty == \A r \in Repos : status[r] = "erased" => Of(packs, r) = {}

\* A repository deleted longer than the window is erased in the end, through
\* failed deletes, failed transactions and passes that stop anywhere.
LapsedIsErased == \A r \in Repos : status[r] = "lapsed" ~> status[r] = "erased"

=============================================================================
