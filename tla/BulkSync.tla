------------------------------ MODULE BulkSync ------------------------------
(***************************************************************************)
(* Fetch all and Try pull all (bulkSyncRepositories in git/bulk-sync.ts,   *)
(* its locks and refreshes in git/bulk-sync-handlers.ts, mapLimit in       *)
(* util/map-limit.ts).                                                     *)
(*                                                                         *)
(* Workers take repositories in order.  Under the repository's lock one    *)
(* fetches and then has a bounded number of its checkouts inspected twice  *)
(* and fast-forwarded, each under its own lock.  The run can be canceled   *)
(* at any time; users hold locks (User), and outsiders that take none      *)
(* commit, edit and fetch between any two Git commands.                    *)
(*                                                                         *)
(* A repository has one remote.  A checkout's branch and its upstream are  *)
(* numbers: how many of the remote's commits they have; `local` commits    *)
(* are on top.                                                             *)
(***************************************************************************)
EXTENDS Integers, Sequences, FiniteSets

CONSTANTS Repos,        \* 1 .. n, in the order of the run
          Trees,        \* worktrees
          RepoOf,
          Workers,
          TreeLimit,    \* BULK_WORKTREE_CONCURRENCY
          Idle,         \* worktrees with nothing to pull: detached, or without upstream
          Users,
          MaxCommits,   \* bound: commits the remotes have
          MaxOutside,   \* bound: what outsiders do
          None

ASSUME BulkAssumption ==
  /\ Repos = 1 .. Cardinality(Repos)
  /\ RepoOf \in [Trees -> Repos]
  /\ TreeLimit \in Nat \ {0}
  /\ Idle \subseteq Trees
  /\ MaxCommits \in Nat /\ MaxOutside \in Nat
  /\ Repos \cap Trees = {}
  /\ Workers \cap Trees = {} /\ Workers \cap Users = {}

VARIABLES mode,      \* "fetch" or "soft-pull"
          aborted,   \* the signal
          next,      \* nextIndex, counting from 1
          worker,    \* what each worker does, and on which repository
          tree,      \* each worktree's task: its step, the facts reviewed, the result
          remote,    \* the fetch's outcome for each repository
          result,    \* results: each repository's outcome
          listed,    \* the worktrees whose results are in the repository's
          finished,  \* the summary has been returned
          line,      \* the locks of repositories and worktrees (FifoLock)
          head,      \* each branch
          upstream,  \* each upstream ref, as fetched
          dirty,     \* whether there are uncommitted changes
          outside,   \* how often outsiders acted
          moved,     \* worktrees whose branch the run has moved, ...
          unseen,    \* ... those of them that no refresh has shown since, ...
          unread     \* ... and those that a refresh since then could not read

run == <<mode, aborted, next, worker, tree, remote, result, listed, finished>>
git == <<head, upstream, dirty>>
shown == <<moved, unseen, unread>>
vars == <<run, line, git, outside, shown>>

Lock == INSTANCE FifoLock WITH Keys <- Repos \cup Trees, Actors <- Workers \cup Trees \cup Users

TreesOf(r) == {t \in Trees : RepoOf[t] = r}
Working(w) == worker[w].repo

NoFacts == [head |-> [n |-> -1, local |-> FALSE], up |-> -1, dirty |-> FALSE]
NewTask == [at |-> "waiting", facts |-> NoFacts, now |-> NoFacts, result |-> "none"]

Init ==
  /\ mode \in {"fetch", "soft-pull"}
  /\ aborted = FALSE
  /\ next = 1
  /\ worker = [w \in Workers |-> [at |-> "free", repo |-> 0]]
  /\ tree = [t \in Trees |-> NewTask]
  /\ remote = [r \in Repos |-> "none"]
  /\ result = [r \in Repos |-> "none"]
  /\ listed = [r \in Repos |-> {}]
  /\ finished = FALSE
  /\ Lock!LockInit
  /\ head = [t \in Trees |-> [n |-> 0, local |-> FALSE]]
  /\ upstream = [t \in Trees |-> 0]
  /\ dirty = [t \in Trees |-> FALSE]
  /\ outside = 0
  /\ moved = {} /\ unseen = {} /\ unread = {}

-----------------------------------------------------------------------------
(* Outcomes *)

OnlyUntracked == {"nothing"}  \* bug: a branch that is only ahead holds its repository back

NothingToPull == {"nothing", "ahead"}

Skips == {"nothing", "ahead", "dirty", "diverged", "not fetched", "changed", "unfinished"}

(* repoOutcome, of the outcome of the remote and those of the worktrees.           *)
RepoOutcome(fetch, trees) ==
  LET canceled == "cancelled" \in {fetch} \cup trees
      failed == "failed" \in {fetch} \cup trees
      skipped == fetch = "skipped" \/ trees \cap (Skips \ NothingToPull) # {}
      succeeded == IF mode = "fetch" THEN fetch = "fetched"
                                     ELSE trees \cap {"updated", "up to date"} # {}
      idle == mode = "soft-pull" /\ trees # {} /\ trees \subseteq NothingToPull
  IN CASE (canceled \/ failed \/ skipped) /\ succeeded -> "partial"
       [] canceled /\ ~ succeeded -> "cancelled"
       [] failed /\ ~ canceled /\ ~ succeeded -> "failed"
       [] ~ canceled /\ ~ failed /\ (skipped \/ ~ (succeeded \/ idle)) -> "skipped"
       [] OTHER -> "success"

Results(r) == {tree[t].result : t \in listed[r]}

-----------------------------------------------------------------------------
(* Workers *)

Moves(w, at) == worker' = [worker EXCEPT ![w].at = at]

ClaimsLater(n) == n  \* bug: the index is advanced only when the repository is done

Claim(n) == n + 1

Take(w) ==
  /\ worker[w].at = "free"
  /\ IF aborted \/ next \notin Repos
     THEN /\ Moves(w, "done")
          /\ next' = IF aborted THEN next ELSE next + 1
          /\ UNCHANGED line
     ELSE /\ worker' = [worker EXCEPT ![w] = [at |-> "queued", repo |-> next]]
          /\ next' = Claim(next)
          /\ Lock!Enter(w, next)
  /\ UNCHANGED <<mode, aborted, tree, remote, result, listed, finished, git, outside, shown>>

SetResults(r, ts, value) ==
  tree' = [t \in Trees |-> IF t \in ts THEN [tree[t] EXCEPT !.at = "done", !.result = value]
                           ELSE tree[t]]

(* syncRepo, once the repository's lock is there.                                  *)
SyncRepo(w) ==
  LET r == Working(w) IN
  /\ worker[w].at = "queued"
  /\ IF aborted
     THEN /\ Lock!Leave(w, r)
          /\ Moves(w, "completing")
          /\ SetResults(r, TreesOf(r), "cancelled")
          /\ listed' = [listed EXCEPT ![r] = TreesOf(r)]
          /\ result' = [result EXCEPT ![r] = "cancelled"]
     ELSE /\ Lock!Holds(w, r)
          /\ Moves(w, "fetching")
          /\ UNCHANGED <<line, tree, listed, result>>
  /\ UNCHANGED <<mode, aborted, next, remote, finished, git, outside, shown>>

Fetched(r, up) ==
  /\ \A t \in Trees : up[t] \in IF RepoOf[t] = r THEN upstream[t] .. MaxCommits ELSE {upstream[t]}
  /\ upstream' = up

(* fetchConfiguredRemotes.  A fetch that an abort meets counts as canceled even if *)
(* Git had got the commits.                                                       *)
Fetch(w) ==
  LET r == Working(w) IN
  /\ worker[w].at = "fetching"
  /\ \E outcome \in {"fetched", "failed", "skipped", "cancelled", "unreadable"} :
       /\ outcome = "fetched" => ~ aborted
       /\ outcome = "cancelled" => aborted
       /\ remote' = [remote EXCEPT ![r] = outcome]
       /\ IF outcome \in {"fetched", "cancelled"}
          THEN \E up \in [Trees -> 0 .. MaxCommits] : Fetched(r, up)
          ELSE UNCHANGED upstream
       /\ IF outcome = "unreadable"
          THEN Moves(w, "completing") /\ Lock!Leave(w, r) /\ result' = [result EXCEPT ![r] = "failed"]
          ELSE IF mode = "fetch"
          THEN /\ Moves(w, "completing") /\ Lock!Leave(w, r)
               /\ result' = [result EXCEPT ![r] = RepoOutcome(outcome, {})]
          ELSE Moves(w, "worktrees") /\ UNCHANGED <<line, result>>
  /\ UNCHANGED <<mode, aborted, next, tree, listed, finished, head, dirty, outside, shown>>

EndsAtFirstError(r) ==  \* bug: as Promise.all would, leaving tasks behind
  \/ \A t \in TreesOf(r) : tree[t].at = "done"
  \/ \E t \in TreesOf(r) : tree[t].result = "threw"

WaitsForResults(r) ==  \* bug: a task that threw never has a result
  \A t \in TreesOf(r) : tree[t].at = "done" /\ tree[t].result # "threw"

(* mapLimit waits for every task, and only then throws.                           *)
Drained(r) == \A t \in TreesOf(r) : tree[t].at = "done"

(* A task that threw takes the results of the others with it.                     *)
SyncEnds(w) ==
  LET r == Working(w)
      threw == \E t \in TreesOf(r) : tree[t].result = "threw"
  IN
  /\ worker[w].at = "worktrees"
  /\ Drained(r)
  /\ Lock!Leave(w, r)
  /\ Moves(w, "completing")
  /\ listed' = [listed EXCEPT ![r] = IF threw THEN {} ELSE TreesOf(r)]
  /\ result' = [result EXCEPT ![r] =
       IF threw THEN "failed" ELSE RepoOutcome(remote[r], {tree[t].result : t \in TreesOf(r)})]
  /\ UNCHANGED <<mode, aborted, next, tree, remote, finished, git, outside, shown>>

HasFetched(r) == remote[r] = "fetched" /\ (mode = "soft-pull" => listed[r] = TreesOf(r))

IfUpdated(r) == "updated" \in Results(r)  \* bug: an update that could not be verified is missed

NeedsRefresh(r) == HasFetched(r) \/ "updated" \in Results(r)

(* onRepoCompleted: the branch index under the repository's lock, then the states. *)
(* An index that fails is a warning.                                              *)
Completes(w) ==
  LET r == Working(w) IN
  /\ worker[w].at = "completing"
  /\ IF HasFetched(r)
     THEN Lock!Enter(w, r) /\ Moves(w, "indexing")
     ELSE UNCHANGED line /\ Moves(w, IF NeedsRefresh(r) THEN "refreshing" ELSE "free")
  /\ UNCHANGED <<mode, aborted, next, tree, remote, result, listed, finished, git, outside, shown>>

Indexes(w) ==
  /\ worker[w].at = "indexing"
  /\ Lock!Leave(w, Working(w))
  /\ Moves(w, IF NeedsRefresh(Working(w)) THEN "refreshing" ELSE "free")
  /\ UNCHANGED <<mode, aborted, next, tree, remote, result, listed, finished, git, outside, shown>>

(* refreshRepoWorktrees, after the lock.  A state that Git could not report, or    *)
(* that a removal keeps from being read, is answered from what was stored; what    *)
(* throws ends up in a warning.  Either way the worker goes on.                   *)
Refreshes(w) ==
  LET pendingHere == unseen \cap TreesOf(Working(w)) IN
  /\ worker[w].at = "refreshing"
  /\ Moves(w, "free")
  /\ \E failed \in SUBSET pendingHere :
       /\ unseen' = unseen \ (pendingHere \ failed)
       /\ unread' = unread \cup failed
  /\ UNCHANGED <<mode, aborted, next, tree, remote, result, listed, finished, line, git,
                 outside, moved>>

(* All workers have returned: the repositories nobody took are canceled.          *)
Finish ==
  LET left == {r \in Repos : result[r] = "none"} IN
  /\ ~ finished
  /\ \A w \in Workers : worker[w].at = "done"
  /\ finished' = TRUE
  /\ result' = [r \in Repos |-> IF r \in left THEN "cancelled" ELSE result[r]]
  /\ listed' = [r \in Repos |-> IF r \in left THEN TreesOf(r) ELSE listed[r]]
  /\ tree' = [t \in Trees |-> IF RepoOf[t] \in left
                              THEN [tree[t] EXCEPT !.at = "done", !.result = "cancelled"]
                              ELSE tree[t]]
  /\ UNCHANGED <<mode, aborted, next, worker, remote, line, git, outside, shown>>

-----------------------------------------------------------------------------
(* Worktrees: softPullWorktree *)

Ends(t, value) == tree' = [tree EXCEPT ![t] = [NewTask EXCEPT !.at = "done", !.result = value]]

TreeUnchanged == UNCHANGED <<mode, aborted, next, worker, remote, result, listed, finished, outside>>

Busy(r) == {t \in TreesOf(r) : tree[t].at \notin {"waiting", "done"}}

Accept(t) ==
  /\ tree[t].at = "waiting"
  /\ \E w \in Workers : worker[w].at = "worktrees" /\ Working(w) = RepoOf[t]
  /\ Cardinality(Busy(RepoOf[t])) < TreeLimit
  /\ IF aborted
     THEN Ends(t, "cancelled") /\ UNCHANGED line
     ELSE tree' = [tree EXCEPT ![t].at = "queued"] /\ Lock!Enter(t, t)
  /\ TreeUnchanged /\ UNCHANGED <<git, shown>>

NotAgain(t) == FALSE  \* bug: what was canceled while it waited for its lock is still done

CanceledNow(t) == aborted

(* The lock is there. *)
Begin(t) ==
  /\ tree[t].at = "queued"
  /\ IF CanceledNow(t)
     THEN Lock!Leave(t, t) /\ Ends(t, "cancelled")
     ELSE Lock!Holds(t, t) /\ tree' = [tree EXCEPT ![t].at = "status"] /\ UNCHANGED line
  /\ TreeUnchanged /\ UNCHANGED <<git, shown>>

(* The first half of inspectWorktree, ... *)
ReadStatus(t) ==
  /\ tree[t].at \in {"status", "status again"}
  /\ tree' = [tree EXCEPT ![t].now = [NoFacts EXCEPT !.dirty = dirty[t]],
                          ![t].at = IF @ = "status" THEN "refs" ELSE "refs again"]
  /\ TreeUnchanged /\ UNCHANGED <<line, git, shown>>

Facts(t) == [tree[t].now EXCEPT !.head = head[t], !.up = upstream[t]]

Reviewed(t) == [tree[t].facts EXCEPT !.dirty = Facts(t).dirty]

(* ... and what the second makes of both, "ready" if the branch may be moved.      *)
Inspected(t) ==
  LET f == Facts(t) IN
  CASE t \in Idle -> "nothing"
    [] t \notin Idle /\ remote[RepoOf[t]] # "fetched" -> "not fetched"
    [] OTHER ->
       IF tree[t].at = "refs again" /\ f # Reviewed(t) THEN "changed"
       ELSE IF ~ f.head.local /\ f.head.n = f.up THEN "up to date"
       ELSE IF ~ f.head.local THEN IF f.dirty THEN "dirty" ELSE "ready"
       ELSE IF f.head.n = f.up THEN "ahead" ELSE "diverged"

ReadRefs(t) ==
  /\ tree[t].at \in {"refs", "refs again"}
  /\ LET verdict == Inspected(t) IN
     IF verdict # "ready"
     THEN Lock!Leave(t, t) /\ Ends(t, verdict)
     ELSE IF aborted
     THEN Lock!Leave(t, t) /\ Ends(t, "cancelled")
     ELSE /\ tree' = [tree EXCEPT ![t].facts = Facts(t),
                        ![t].at = IF @ = "refs" THEN "status again" ELSE "merge"]
          /\ UNCHANGED line
  /\ TreeUnchanged /\ UNCHANGED <<git, shown>>

(* A command of the inspection fails, or something throws; or there are conflicts, *)
(* or an operation that an outsider has not finished.                             *)
InspectionFails(t) ==
  /\ tree[t].at \in {"status", "refs", "status again", "refs again"}
  /\ Lock!Leave(t, t)
  /\ \/ \E value \in {"failed", "threw"} : Ends(t, value)
     \/ tree[t].at \in {"status", "status again"} /\ Ends(t, "unfinished")
  /\ TreeUnchanged /\ UNCHANGED <<git, shown>>

MovedRef(t) == upstream[t]  \* bug: the upstream ref, wherever it points by now

Target(t) == tree[t].facts.up

(* git merge --ff-only of the commit reviewed.                                    *)
Merge(t) ==
  /\ tree[t].at = "merge"
  /\ \/ /\ ~ head[t].local \/ head[t].n >= Target(t)
        /\ head' = [head EXCEPT ![t].n = IF @ < Target(t) THEN Target(t) ELSE @]
        /\ tree' = [tree EXCEPT ![t].at = "verify"]
        /\ IF head[t].n < Target(t)
           THEN moved' = moved \cup {t} /\ unseen' = unseen \cup {t} /\ unread' = unread \ {t}
           ELSE UNCHANGED shown
        /\ UNCHANGED line
     \/ /\ Lock!Leave(t, t)
        /\ Ends(t, "failed")
        /\ UNCHANGED <<head, shown>>
  /\ TreeUnchanged /\ UNCHANGED <<upstream, dirty>>

CanceledAfterAll(t) == IF aborted THEN "cancelled" ELSE "updated"  \* bug: whatever was done

Verdict(t) == IF head[t] = [n |-> tree[t].facts.up, local |-> FALSE] THEN "updated" ELSE "failed"

(* HEAD is read once more, which may fail. *)
Verify(t) ==
  /\ tree[t].at = "verify"
  /\ Lock!Leave(t, t)
  /\ \E value \in {Verdict(t), "failed"} : Ends(t, value)
  /\ TreeUnchanged /\ UNCHANGED <<git, shown>>

-----------------------------------------------------------------------------
(* Everyone else *)

Cancel ==
  /\ ~ aborted /\ ~ finished
  /\ aborted' = TRUE
  /\ UNCHANGED <<mode, next, worker, tree, remote, result, listed, finished, line, git, outside, shown>>

UserEnters(u, k) ==
  /\ \A q \in Repos \cup Trees : ~ Lock!Waits(u, q)
  /\ ~ finished
  /\ Lock!Enter(u, k)
  /\ UNCHANGED <<run, git, outside, shown>>

UserLeaves(u, k) ==
  /\ Lock!Leave(u, k)
  /\ UNCHANGED <<run, git, outside, shown>>

Outsider(t) ==
  /\ outside < MaxOutside /\ ~ finished
  /\ outside' = outside + 1
  /\ \/ ~ dirty[t] /\ dirty' = [dirty EXCEPT ![t] = TRUE] /\ UNCHANGED <<head, upstream>>
     \/ /\ ~ head[t].local /\ head' = [head EXCEPT ![t].local = TRUE]
        /\ dirty' = [dirty EXCEPT ![t] = FALSE] /\ UNCHANGED upstream
     \/ /\ upstream[t] < MaxCommits /\ upstream' = [upstream EXCEPT ![t] = @ + 1]
        /\ UNCHANGED <<head, dirty>>
  /\ UNCHANGED <<run, line, shown>>

WorkerStep(w) ==
  \/ Take(w) \/ SyncRepo(w) \/ Fetch(w) \/ SyncEnds(w)
  \/ Completes(w) \/ Indexes(w) \/ Refreshes(w)

TreeStep(t) ==
  \/ Accept(t) \/ Begin(t) \/ ReadStatus(t) \/ ReadRefs(t) \/ InspectionFails(t)
  \/ Merge(t) \/ Verify(t)

Next ==
  \/ \E w \in Workers : WorkerStep(w)
  \/ \E t \in Trees : TreeStep(t) \/ Outsider(t)
  \/ Finish
  \/ Cancel
  \/ \E u \in Users, k \in Repos \cup Trees : UserEnters(u, k) \/ UserLeaves(u, k)

(* Git's commands end, promises settle, and users' operations end.                 *)
Fairness ==
  /\ \A w \in Workers : WF_vars(WorkerStep(w))
  /\ \A t \in Trees : WF_vars(TreeStep(t))
  /\ WF_vars(Finish)
  /\ \A u \in Users : WF_vars(\E k \in Repos \cup Trees : UserLeaves(u, k))

Spec == Init /\ [][Next]_vars /\ Fairness

-----------------------------------------------------------------------------
(* Properties *)

(* "A caller's lock covers every accepted task even when a worker fails": a task  *)
(* runs only while its worker has the repository's lock.                          *)
LocksCoverTasks ==
  \A t \in Trees :
    tree[t].at \notin {"waiting", "done"} =>
      \E w \in Workers : Working(w) = RepoOf[t] /\ Lock!Holds(w, RepoOf[t])

(* "Dirty, diverged ... branches" are left alone, and "the exact upstream commit    *)
(* is passed to merge, so this never follows a ref that changed after review": the *)
(* run moves a branch only to the commit that two inspections have seen, and not   *)
(* over commits of others, whatever is fetched or committed meanwhile.            *)
MovesOnlyToReviewed ==
  [][\A t \in Trees : head'[t].n # head[t].n =>
       /\ tree[t].at = "merge" /\ head'[t].n = tree[t].facts.up
       /\ ~ head[t].local /\ ~ tree[t].facts.dirty]_vars

(* Once canceled, a run starts nothing: what waits for a lock then is not done     *)
(* when the lock comes, and no further fast-forward begins.                       *)
CancelStopsWork ==
  [][aborted =>
       /\ \A t \in Trees : tree'[t].at \in {"status", "merge"} => tree[t].at = tree'[t].at
       /\ \A w \in Workers : worker'[w].at = "fetching" => worker[w].at = "fetching"]_vars

(* A worktree reported as canceled, skipped or up to date has not been touched, and *)
(* "nothing-to-pull worktrees are neutral: they don't make a failed or blocked      *)
(* repository partial", nor a good one.                                           *)
ReportedUntouched ==
  /\ \A t \in moved : tree[t].at = "done" => tree[t].result \in {"updated", "failed"}
  /\ \A r \in Repos :
       LET others == {tree[t].result : t \in {u \in listed[r] : tree[u].result \notin {"nothing", "ahead"}}}
       IN mode = "soft-pull" /\ others # {}
            => RepoOutcome(remote[r], Results(r)) = RepoOutcome(remote[r], others)

(* No branch that the run moved is forgotten, the unverified ones included: when    *)
(* the run ends, each has been shown by a refresh after its move, or such a refresh *)
(* was tried and could not read it, or a task of its repository threw and took the *)
(* results with it.                                                               *)
MovedIsFollowedUp ==
  finished => \A t \in unseen \ unread :
                \E u \in TreesOf(RepoOf[t]) : tree[u].result = "threw"

(* No two workers are at one repository, although they take the next one from a      *)
(* shared index, and every run ends with a summary, canceled or not.              *)
RunEnds ==
  /\ [](\A v, w \in Workers :
          v # w /\ Working(v) # 0 /\ Working(v) = Working(w)
            => {worker[v].at, worker[w].at} \cap {"free", "done"} # {})
  /\ <>finished
=============================================================================
