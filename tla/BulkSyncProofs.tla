--------------------------- MODULE BulkSyncProofs ---------------------------
(***************************************************************************)
(* That a bulk run's tasks are covered by their repository's lock, that it *)
(* moves a branch only to the commit reviewed, that it reports and looks   *)
(* again at what it moved, and that a canceled one starts nothing, for     *)
(* any number of repositories, worktrees, workers, users and commits, and  *)
(* any limits.                                                             *)
(***************************************************************************)
EXTENDS BulkSync, TLAPS

Places == Repos \cup Trees
Actors == Workers \cup Trees \cup Users
Active(t) == tree[t].at \notin {"waiting", "done"}

Shapes ==
  /\ line \in [Places -> Seq(Actors)]
  /\ DOMAIN worker = Workers
  /\ \A w \in Workers :
       /\ DOMAIN worker[w] = {"at", "repo"}
       /\ worker[w].at \notin {"free", "done"} => worker[w].repo \in Repos
  /\ DOMAIN tree = Trees
  /\ \A t \in Trees : DOMAIN tree[t] = {"at", "facts", "now", "result"}
  /\ DOMAIN head = Trees
  /\ \A t \in Trees : DOMAIN head[t] = {"n", "local"}

(* A worker that fetches or has worktrees synced holds its repository's lock. *)
WorkersHold ==
  \A w \in Workers :
    worker[w].at \in {"fetching", "worktrees"} => Lock!Holds(w, worker[w].repo)

(* A task under way is one of a worker that waits for its worktrees. *)
TasksHaveWorkers ==
  \A t \in Trees : Active(t) =>
    \E w \in Workers : worker[w].at = "worktrees" /\ worker[w].repo = RepoOf[t]

(* Nothing dirty goes past the first inspection. *)
ReviewedClean ==
  \A t \in Trees : tree[t].at \in {"status again", "refs again", "merge"} => ~ tree[t].facts.dirty

CoverInv == Shapes /\ WorkersHold /\ TasksHaveWorkers /\ ReviewedClean

(* No worker and no task has begun. *)
LEMMA CoverInvInit == Init => CoverInv
<1> SUFFICES ASSUME Init
             PROVE  CoverInv
  OBVIOUS
<1>1. \A w \in Workers : worker[w] = [at |-> "free", repo |-> 0]
  BY DEF Init
<1>2. \A t \in Trees : tree[t] = NewTask /\ tree[t].at = "waiting"
  BY DEF Init, NewTask
<1>3. line \in [Places -> Seq(Actors)]
  BY DEF Init, Lock!LockInit, Places
<1>4. Shapes
  BY <1>1, <1>2, <1>3 DEF Init, Shapes, NewTask
<1>5. WorkersHold
  BY <1>1 DEF WorkersHold
<1>6. TasksHaveWorkers /\ ReviewedClean
  BY <1>2 DEF TasksHaveWorkers, ReviewedClean, Active
<1> QED BY <1>4, <1>5, <1>6 DEF CoverInv

-----------------------------------------------------------------------------
(* Locks *)

(* Whoever is at the head of the line l[q]. *)
Has(l, v, q) == l[q] # <<>> /\ Head(l[q]) = v

LineInv(l) == l \in [Places -> Seq(Actors)]

(* Whoever joins a line takes a key from nobody. *)
LEMMA EnteringKeepsHolders ==
  ASSUME LineInv(line), NEW a \in Actors, NEW k, Lock!Enter(a, k)
  PROVE  /\ LineInv(line')
         /\ \A v, q : q \in Places /\ Has(line, v, q) => Has(line', v, q)
<1>1. line' = [line EXCEPT ![k] = Append(line[k], a)]
  BY DEF Lock!Enter
<1>2. LineInv(line')
  <2>1. CASE k \in Places
    <3>1. line[k] \in Seq(Actors)
      BY <2>1 DEF LineInv
    <3>2. Append(line[k], a) \in Seq(Actors)
      BY <3>1
    <3> QED BY <1>1, <3>2 DEF LineInv
  <2>2. CASE k \notin Places
    BY <1>1, <2>2 DEF LineInv
  <2> QED BY <2>1, <2>2
<1>3. ASSUME NEW v, NEW q \in Places, Has(line, v, q)
      PROVE  Has(line', v, q)
  <2>1. CASE q # k
    BY <1>1, <1>3, <2>1 DEF Has, LineInv
  <2>2. CASE q = k
    <3>1. line'[q] = Append(line[q], a) /\ line[q] \in Seq(Actors) /\ line[q] # <<>>
      BY <1>1, <1>3, <2>2 DEF Has, LineInv
    <3>2. line'[q] # <<>> /\ Head(line'[q]) = Head(line[q])
      BY <3>1
    <3> QED BY <1>3, <3>2 DEF Has
  <2> QED BY <2>1, <2>2
<1> QED BY <1>2, <1>3

(* Whoever leaves a line takes a key only from itself. *)
LEMMA LeavingKeepsHolders ==
  ASSUME LineInv(line), NEW a \in Actors, NEW k, Lock!Leave(a, k)
  PROVE  /\ LineInv(line')
         /\ \A v, q : q \in Places /\ Has(line, v, q) /\ ~ (v = a /\ q = k) => Has(line', v, q)
<1>1. line' = [line EXCEPT ![k] = Tail(line[k])] /\ Has(line, a, k)
  BY DEF Lock!Leave, Lock!Holds, Has
<1>2. LineInv(line')
  <2>1. CASE k \in Places
    <3>1. line[k] \in Seq(Actors) /\ line[k] # <<>>
      BY <1>1, <2>1 DEF LineInv, Has
    <3>2. Tail(line[k]) \in Seq(Actors)
      BY <3>1
    <3> QED BY <1>1, <3>2 DEF LineInv
  <2>2. CASE k \notin Places
    BY <1>1, <2>2 DEF LineInv
  <2> QED BY <2>1, <2>2
<1>3. ASSUME NEW v, NEW q \in Places, Has(line, v, q), ~ (v = a /\ q = k)
      PROVE  Has(line', v, q)
  <2>1. q # k
    BY <1>1, <1>3 DEF Has
  <2> QED BY <1>1, <1>3, <2>1 DEF Has, LineInv
<1> QED BY <1>2, <1>3

(* What an actor does to a line: it joins it, leaves it, or neither. *)
Queues(a, k) == UNCHANGED line \/ Lock!Enter(a, k) \/ Lock!Leave(a, k)

(* In each case everybody else keeps what it holds. *)
LEMMA QueuesKeepsHolders ==
  ASSUME LineInv(line), NEW a \in Actors, NEW k, Queues(a, k)
  PROVE  /\ LineInv(line')
         /\ \A v, q : q \in Places /\ Has(line, v, q) /\ ~ (v = a /\ q = k) => Has(line', v, q)
<1>1. CASE UNCHANGED line
  BY <1>1
<1>2. CASE Lock!Enter(a, k)
  BY <1>2, EnteringKeepsHolders, Zenon
<1>3. CASE Lock!Leave(a, k)
  BY <1>3, LeavingKeepsHolders, Zenon
<1> QED BY <1>1, <1>2, <1>3 DEF Queues

-----------------------------------------------------------------------------
(* Frames: what a step of a task, of another actor and of a worker keeps. *)

(* A step that leaves the workers, of a task or a user, with one task's record. *)
LEMMA TaskStep ==
  ASSUME CoverInv, BulkAssumption, UNCHANGED worker,
         NEW a \in Trees \cup Users, NEW k, Queues(a, k),
         DOMAIN head' = Trees, \A t \in Trees : DOMAIN head'[t] = {"n", "local"},
         DOMAIN tree' = Trees,
         \A t \in Trees :
           \/ tree'[t] = tree[t]
           \/ /\ DOMAIN tree'[t] = {"at", "facts", "now", "result"}
              /\ Active(t)' => \E w \in Workers : worker[w].at = "worktrees" /\ worker[w].repo = RepoOf[t]
              /\ tree'[t].at \in {"status again", "refs again", "merge"} => ~ tree'[t].facts.dirty
  PROVE  CoverInv'
<1>1. a \in Actors /\ LineInv(line)
  BY DEF CoverInv, Shapes, Actors, LineInv
<1>2. /\ LineInv(line')
      /\ \A v, q : q \in Places /\ Has(line, v, q) /\ ~ (v = a /\ q = k) => Has(line', v, q)
  BY <1>1, QueuesKeepsHolders, Zenon
<1>6. Shapes'
  BY <1>2 DEF CoverInv, Shapes, LineInv
<1>3. WorkersHold'
  <2>1. SUFFICES ASSUME NEW w \in Workers, worker[w].at \in {"fetching", "worktrees"}
                 PROVE  Has(line', w, worker[w].repo)
    BY DEF WorkersHold, Lock!Holds, Has
  <2>2. w # a
    BY DEF BulkAssumption
  <2>3. worker[w].repo \in Places /\ Has(line, w, worker[w].repo)
    BY <2>1 DEF CoverInv, Shapes, WorkersHold, Places, Lock!Holds, Has
  <2> QED BY <1>2, <2>2, <2>3
<1>4. TasksHaveWorkers'
  BY DEF CoverInv, TasksHaveWorkers, Active
<1>5. ReviewedClean'
  BY DEF CoverInv, ReviewedClean
<1> QED BY <1>3, <1>4, <1>5, <1>6 DEF CoverInv

(* A step of one worker: it has what it needs of its lock, it ends tasks but starts *)
(* none, and it leaves its repository's worktrees only when they are all done.     *)
LEMMA WorkerFrame ==
  ASSUME CoverInv, NEW w \in Workers, NEW k, Queues(w, k), UNCHANGED head,
         DOMAIN worker' = Workers, \A v \in Workers : v # w => worker'[v] = worker[v],
         DOMAIN worker'[w] = {"at", "repo"},
         worker'[w].at \notin {"free", "done"} => worker'[w].repo \in Repos,
         worker'[w].at \in {"fetching", "worktrees"} => Has(line', w, worker'[w].repo),
         DOMAIN tree' = Trees,
         \A t \in Trees :
           \/ tree'[t] = tree[t]
           \/ DOMAIN tree'[t] = {"at", "facts", "now", "result"} /\ tree'[t].at = "done",
         worker[w].at = "worktrees" => \A t \in Trees : RepoOf[t] = worker[w].repo => ~ Active(t)'
  PROVE  CoverInv'
<1>1. w \in Actors /\ LineInv(line)
  BY DEF CoverInv, Shapes, Actors, LineInv
<1>2. /\ LineInv(line')
      /\ \A v, q : q \in Places /\ Has(line, v, q) /\ ~ (v = w /\ q = k) => Has(line', v, q)
  BY <1>1, QueuesKeepsHolders, Zenon
<1>3. Shapes'
  BY <1>2 DEF CoverInv, Shapes, LineInv
<1>4. WorkersHold'
  <2>1. SUFFICES ASSUME NEW v \in Workers, worker'[v].at \in {"fetching", "worktrees"}
                 PROVE  Has(line', v, worker'[v].repo)
    BY DEF WorkersHold, Lock!Holds, Has
  <2>2. CASE v = w
    BY <2>1, <2>2
  <2>3. CASE v # w
    <3>1. worker'[v] = worker[v]
      BY <2>3
    <3>2. worker[v].repo \in Places /\ Has(line, v, worker[v].repo)
      BY <2>1, <3>1 DEF CoverInv, Shapes, WorkersHold, Places, Lock!Holds, Has
    <3> QED BY <1>2, <2>3, <3>1, <3>2
  <2> QED BY <2>2, <2>3
<1>5. TasksHaveWorkers'
  <2>1. SUFFICES ASSUME NEW t \in Trees, tree'[t].at \notin {"waiting", "done"}
                 PROVE  \E v \in Workers : worker'[v].at = "worktrees" /\ worker'[v].repo = RepoOf[t]
    BY DEF TasksHaveWorkers, Active
  <2>2. tree'[t] = tree[t]
    BY <2>1
  <2>3. PICK v \in Workers : worker[v].at = "worktrees" /\ worker[v].repo = RepoOf[t]
    BY <2>1, <2>2 DEF CoverInv, TasksHaveWorkers, Active
  <2>4. v # w
    BY <2>1, <2>3 DEF Active
  <2> QED BY <2>3, <2>4
<1>6. ReviewedClean'
  BY DEF CoverInv, ReviewedClean
<1> QED BY <1>3, <1>4, <1>5, <1>6 DEF CoverInv

-----------------------------------------------------------------------------
(* Workers *)

(* A worker takes the next repository and joins its line, or is done. *)
LEMMA TakeStep ==
  ASSUME CoverInv, NEW w \in Workers, Take(w)
  PROVE  CoverInv'
<1>1. UNCHANGED <<head, tree>> /\ worker[w].at = "free"
  BY DEF Take, git
<1>2. CASE aborted \/ next \notin Repos
  <2>1. worker' = [worker EXCEPT ![w].at = "done"] /\ UNCHANGED line
    BY <1>2, Zenon DEF Take, Moves
  <2>2. worker'[w].at = "done" /\ Queues(w, w)
    BY <2>1 DEF CoverInv, Shapes, Queues
  <2> QED BY <1>1, <2>1, <2>2, WorkerFrame DEF CoverInv, Shapes
<1>3. CASE ~ (aborted \/ next \notin Repos)
  <2>1. worker' = [worker EXCEPT ![w] = [at |-> "queued", repo |-> next]] /\ Lock!Enter(w, next)
    BY <1>3, Zenon DEF Take
  <2>2. worker'[w] = [at |-> "queued", repo |-> next] /\ Queues(w, next)
    BY <2>1 DEF CoverInv, Shapes, Queues
  <2> QED BY <1>1, <1>3, <2>1, <2>2, WorkerFrame DEF CoverInv, Shapes
<1> QED BY <1>2, <1>3

(* A worker that goes on at another stage of its repository. *)
LEMMA Moving ==
  ASSUME CoverInv, NEW w \in Workers, NEW at, Moves(w, at)
  PROVE  /\ DOMAIN worker' = Workers /\ \A v \in Workers : v # w => worker'[v] = worker[v]
         /\ DOMAIN worker'[w] = {"at", "repo"}
         /\ worker'[w].at = at /\ worker'[w].repo = worker[w].repo
BY DEF Moves, CoverInv, Shapes

(* The results that end a repository's tasks. *)
LEMMA Ending ==
  ASSUME CoverInv, NEW r, NEW value, SetResults(r, TreesOf(r), value)
  PROVE  /\ DOMAIN tree' = Trees
         /\ \A t \in Trees :
              \/ tree'[t] = tree[t]
              \/ DOMAIN tree'[t] = {"at", "facts", "now", "result"} /\ tree'[t].at = "done"
BY DEF SetResults, CoverInv, Shapes

(* The lock comes: the worker fetches with it, or gives it back. *)
LEMMA SyncRepoStep ==
  ASSUME CoverInv, NEW w \in Workers, SyncRepo(w)
  PROVE  CoverInv'
<1> DEFINE r == worker[w].repo
<1>1. UNCHANGED head /\ worker[w].at = "queued" /\ r \in Repos
  BY DEF SyncRepo, git, CoverInv, Shapes
<1>2. CASE aborted
  <2>1. Lock!Leave(w, r) /\ Moves(w, "completing") /\ SetResults(r, TreesOf(r), "cancelled")
    BY <1>2, Zenon DEF SyncRepo, Working
  <2>2. Queues(w, r)
    BY <2>1 DEF Queues
  <2>3. /\ DOMAIN tree' = Trees
        /\ \A t \in Trees :
             \/ tree'[t] = tree[t]
             \/ DOMAIN tree'[t] = {"at", "facts", "now", "result"} /\ tree'[t].at = "done"
    BY <2>1, Ending
  <2>4. /\ DOMAIN worker' = Workers /\ \A v \in Workers : v # w => worker'[v] = worker[v]
        /\ DOMAIN worker'[w] = {"at", "repo"}
        /\ worker'[w].at = "completing" /\ worker'[w].repo = r
    BY <2>1, Moving
  <2> HIDE DEF r
  <2> QED BY <1>1, <2>2, <2>3, <2>4, WorkerFrame
<1>3. CASE ~ aborted
  <2>1. Lock!Holds(w, r) /\ Moves(w, "fetching") /\ UNCHANGED <<line, tree>>
    BY <1>3, Zenon DEF SyncRepo, Working
  <2>2. Queues(w, r) /\ Has(line', w, r)
    BY <2>1 DEF Queues, Lock!Holds, Has
  <2>4. /\ DOMAIN worker' = Workers /\ \A v \in Workers : v # w => worker'[v] = worker[v]
        /\ DOMAIN worker'[w] = {"at", "repo"}
        /\ worker'[w].at = "fetching" /\ worker'[w].repo = r
    BY <2>1, Moving
  <2> HIDE DEF r
  <2> QED BY <1>1, <2>1, <2>2, <2>4, WorkerFrame DEF CoverInv, Shapes
<1> QED BY <1>2, <1>3

(* A worker that goes on at a stage at which it needs no lock. *)
LEMMA GoesOnWithout ==
  ASSUME CoverInv, NEW w \in Workers, NEW at, Moves(w, at), at \notin {"fetching", "worktrees"},
         worker[w].at \notin {"free", "done"},
         Queues(w, worker[w].repo), UNCHANGED <<tree, head>>,
         worker[w].at = "worktrees" => \A t \in TreesOf(worker[w].repo) : ~ Active(t)
  PROVE  CoverInv'
<1> DEFINE r == worker[w].repo
<1>1. /\ DOMAIN worker' = Workers /\ \A v \in Workers : v # w => worker'[v] = worker[v]
      /\ DOMAIN worker'[w] = {"at", "repo"}
      /\ worker'[w].at = at /\ worker'[w].repo = r
  BY Moving
<1>2. r \in Repos
  BY DEF CoverInv, Shapes
<1>3. worker[w].at = "worktrees" => \A t \in Trees : RepoOf[t] = r => ~ Active(t)'
  BY DEF TreesOf, Active
<1>4. DOMAIN tree' = Trees /\ \A t \in Trees : tree'[t] = tree[t]
  BY DEF CoverInv, Shapes
<1> QED BY <1>1, <1>2, <1>3, <1>4, WorkerFrame

(* The fetch ends: the worker keeps the lock for the worktrees, or gives it back. *)
LEMMA FetchStep ==
  ASSUME CoverInv, NEW w \in Workers, Fetch(w)
  PROVE  CoverInv'
<1> DEFINE r == worker[w].repo
<1>1. UNCHANGED <<tree, head>> /\ worker[w].at = "fetching" /\ r \in Repos
  BY DEF Fetch, CoverInv, Shapes
<1>2. \/ Moves(w, "completing") /\ Lock!Leave(w, r)
      \/ Moves(w, "worktrees") /\ UNCHANGED line
  BY Zenon DEF Fetch, Working
<1>3. CASE Moves(w, "completing") /\ Lock!Leave(w, r)
  BY <1>1, <1>3, GoesOnWithout DEF Queues
<1>4. CASE Moves(w, "worktrees") /\ UNCHANGED line
  <2>1. /\ DOMAIN worker' = Workers /\ \A v \in Workers : v # w => worker'[v] = worker[v]
        /\ DOMAIN worker'[w] = {"at", "repo"}
        /\ worker'[w].at = "worktrees" /\ worker'[w].repo = r
    BY <1>4, Moving
  <2>2. Queues(w, r) /\ Has(line', w, r)
    BY <1>1, <1>4 DEF Queues, CoverInv, WorkersHold, Lock!Holds, Has
  <2>3. DOMAIN tree' = Trees /\ \A t \in Trees : tree'[t] = tree[t]
    BY <1>1 DEF CoverInv, Shapes
  <2> HIDE DEF r
  <2> QED BY <1>1, <2>1, <2>2, <2>3, WorkerFrame
<1> QED BY <1>2, <1>3, <1>4

(* The remaining stages: the worktrees' tasks have drained, or are of no concern. *)
LEMMA LaterSteps ==
  ASSUME CoverInv, NEW w \in Workers, SyncEnds(w) \/ Completes(w) \/ Indexes(w) \/ Refreshes(w)
  PROVE  CoverInv'
<1> DEFINE r == worker[w].repo
<1>1. CASE SyncEnds(w)
  <2>1. /\ UNCHANGED <<tree, head>> /\ worker[w].at = "worktrees"
        /\ Lock!Leave(w, r) /\ Moves(w, "completing") /\ Drained(r)
    BY <1>1, Zenon DEF SyncEnds, git, Working
  <2>2. \A t \in TreesOf(r) : ~ Active(t)
    BY <2>1 DEF Drained, Active
  <2> QED BY <2>1, <2>2, GoesOnWithout DEF Queues
<1>2. CASE Completes(w)
  <2>1. UNCHANGED <<tree, head>> /\ worker[w].at = "completing"
    BY <1>2 DEF Completes, git
  <2>2. \/ Lock!Enter(w, r) /\ Moves(w, "indexing")
        \/ UNCHANGED line /\ (Moves(w, "refreshing") \/ Moves(w, "free"))
    <3>1. CASE HasFetched(r)
      BY <1>2, <3>1, Zenon DEF Completes, Working
    <3>2. CASE ~ HasFetched(r)
      <4>1. UNCHANGED line /\ Moves(w, IF NeedsRefresh(r) THEN "refreshing" ELSE "free")
        BY <1>2, <3>2, Zenon DEF Completes, Working
      <4> QED BY <4>1, Zenon
    <3> QED BY <3>1, <3>2
  <2> QED BY <2>1, <2>2, GoesOnWithout DEF Queues
<1>3. CASE Indexes(w)
  <2>1. UNCHANGED <<tree, head>> /\ worker[w].at = "indexing"
    BY <1>3 DEF Indexes, git
  <2>2. Lock!Leave(w, r) /\ Moves(w, IF NeedsRefresh(r) THEN "refreshing" ELSE "free")
    BY <1>3, Zenon DEF Indexes, Working
  <2>3. Moves(w, "refreshing") \/ Moves(w, "free")
    BY <2>2, Zenon
  <2> QED BY <2>1, <2>2, <2>3, GoesOnWithout DEF Queues
<1>4. CASE Refreshes(w)
  BY <1>4, GoesOnWithout DEF Refreshes, git, Queues
<1> QED BY <1>1, <1>2, <1>3, <1>4

(* The end of the run: all workers are done, so no task is under way. *)
LEMMA FinishStep ==
  ASSUME CoverInv, Finish
  PROVE  CoverInv'
<1>1. UNCHANGED <<worker, line, head>> /\ \A w \in Workers : worker[w].at = "done"
  BY DEF Finish, git
<1>2. \A t \in Trees : tree[t].at \in {"waiting", "done"}
  BY <1>1 DEF CoverInv, TasksHaveWorkers, Active
<1>3. PICK left : tree' = [t \in Trees |-> IF RepoOf[t] \in left
                             THEN [tree[t] EXCEPT !.at = "done", !.result = "cancelled"]
                             ELSE tree[t]]
  BY Zenon DEF Finish
<1>4. \A t \in Trees : /\ DOMAIN tree'[t] = {"at", "facts", "now", "result"}
                       /\ tree'[t].at \in {"waiting", "done"}
  BY <1>2, <1>3 DEF CoverInv, Shapes
<1>5. Shapes'
  BY <1>1, <1>3, <1>4 DEF CoverInv, Shapes
<1>6. WorkersHold'
  BY <1>1 DEF WorkersHold
<1>7. TasksHaveWorkers' /\ ReviewedClean'
  BY <1>4 DEF TasksHaveWorkers, Active, ReviewedClean
<1> QED BY <1>5, <1>6, <1>7 DEF CoverInv

-----------------------------------------------------------------------------
(* Tasks *)

(* A task that has its verdict gives its lock back and is done. *)
LEMMA TaskEnds ==
  ASSUME CoverInv, BulkAssumption, UNCHANGED worker, NEW t \in Trees, NEW value, Ends(t, value),
         Queues(t, t), DOMAIN head' = Trees, \A u \in Trees : DOMAIN head'[u] = {"n", "local"}
  PROVE  CoverInv'
<1>1. DOMAIN tree' = Trees /\ \A u \in Trees : u # t => tree'[u] = tree[u]
  BY DEF Ends, CoverInv, Shapes
<1>2. tree'[t] = [NewTask EXCEPT !.at = "done", !.result = value]
  BY DEF Ends, CoverInv, Shapes
<1>3. DOMAIN tree'[t] = {"at", "facts", "now", "result"} /\ tree'[t].at = "done"
  BY <1>2 DEF NewTask
<1>4. \A u \in Trees :
        \/ tree'[u] = tree[u]
        \/ /\ DOMAIN tree'[u] = {"at", "facts", "now", "result"}
           /\ Active(u)' => \E w \in Workers : worker[w].at = "worktrees" /\ worker[w].repo = RepoOf[u]
           /\ tree'[u].at \in {"status again", "refs again", "merge"} => ~ tree'[u].facts.dirty
  BY <1>1, <1>3 DEF Active
<1> QED BY <1>1, <1>4, TaskStep

(* A task that goes on: it is under way already, or its worker has accepted it. *)
LEMMA TaskGoesOn ==
  ASSUME CoverInv, BulkAssumption, UNCHANGED worker, NEW t \in Trees,
         Queues(t, t), DOMAIN head' = Trees, \A u \in Trees : DOMAIN head'[u] = {"n", "local"},
         DOMAIN tree' = Trees, \A u \in Trees : u # t => tree'[u] = tree[u],
         DOMAIN tree'[t] = {"at", "facts", "now", "result"},
         Active(t) \/ \E w \in Workers : worker[w].at = "worktrees" /\ worker[w].repo = RepoOf[t],
         tree'[t].at \in {"status again", "refs again", "merge"} => ~ tree'[t].facts.dirty
  PROVE  CoverInv'
<1>1. \E w \in Workers : worker[w].at = "worktrees" /\ worker[w].repo = RepoOf[t]
  BY DEF CoverInv, TasksHaveWorkers
<1>2. \A u \in Trees :
        \/ tree'[u] = tree[u]
        \/ /\ DOMAIN tree'[u] = {"at", "facts", "now", "result"}
           /\ Active(u)' => \E w \in Workers : worker[w].at = "worktrees" /\ worker[w].repo = RepoOf[u]
           /\ tree'[u].at \in {"status again", "refs again", "merge"} => ~ tree'[u].facts.dirty
  BY <1>1
<1> QED BY <1>2, TaskStep

HeadShape == DOMAIN head = Trees /\ \A t \in Trees : DOMAIN head[t] = {"n", "local"}

(* A task is accepted, its lock comes, and its first facts are read. *)
LEMMA EarlySteps ==
  ASSUME CoverInv, BulkAssumption, NEW t \in Trees, Accept(t) \/ Begin(t) \/ ReadStatus(t)
  PROVE  CoverInv'
<1>1. UNCHANGED <<worker, head>>
  BY DEF Accept, Begin, ReadStatus, TreeUnchanged, git
<1>2. HeadShape'
  BY <1>1 DEF CoverInv, Shapes, HeadShape
<1>3. CASE Accept(t)
  <2>1. \E w \in Workers : worker[w].at = "worktrees" /\ worker[w].repo = RepoOf[t]
    BY <1>3 DEF Accept, Working
  <2>2. \/ Ends(t, "cancelled") /\ UNCHANGED line
        \/ tree' = [tree EXCEPT ![t].at = "queued"] /\ Lock!Enter(t, t)
    BY <1>3, Zenon DEF Accept
  <2>3. CASE Ends(t, "cancelled") /\ UNCHANGED line
    BY <1>1, <1>2, <2>3, TaskEnds DEF Queues, HeadShape
  <2>4. CASE tree' = [tree EXCEPT ![t].at = "queued"] /\ Lock!Enter(t, t)
    <3>1. /\ DOMAIN tree' = Trees /\ \A u \in Trees : u # t => tree'[u] = tree[u]
          /\ DOMAIN tree'[t] = {"at", "facts", "now", "result"} /\ tree'[t].at = "queued"
      BY <2>4 DEF CoverInv, Shapes
    <3> QED BY <1>1, <1>2, <2>1, <2>4, <3>1, TaskGoesOn DEF Queues, HeadShape
  <2> QED BY <2>2, <2>3, <2>4
<1>4. CASE Begin(t)
  <2>1. Active(t)
    BY <1>4 DEF Begin, Active
  <2>2. \/ Lock!Leave(t, t) /\ Ends(t, "cancelled")
        \/ tree' = [tree EXCEPT ![t].at = "status"] /\ UNCHANGED line
    BY <1>4, Zenon DEF Begin
  <2>3. CASE Lock!Leave(t, t) /\ Ends(t, "cancelled")
    BY <1>1, <1>2, <2>3, TaskEnds DEF Queues, HeadShape
  <2>4. CASE tree' = [tree EXCEPT ![t].at = "status"] /\ UNCHANGED line
    <3>1. /\ DOMAIN tree' = Trees /\ \A u \in Trees : u # t => tree'[u] = tree[u]
          /\ DOMAIN tree'[t] = {"at", "facts", "now", "result"} /\ tree'[t].at = "status"
      BY <2>4 DEF CoverInv, Shapes
    <3> QED BY <1>1, <1>2, <2>1, <2>4, <3>1, TaskGoesOn DEF Queues, HeadShape
  <2> QED BY <2>2, <2>3, <2>4
<1>5. CASE ReadStatus(t)
  <2>1. Active(t) /\ tree[t].at \in {"status", "status again"}
    BY <1>5 DEF ReadStatus, Active
  <2>2. /\ tree' = [tree EXCEPT ![t].now = [NoFacts EXCEPT !.dirty = dirty[t]],
                                ![t].at = IF @ = "status" THEN "refs" ELSE "refs again"]
        /\ UNCHANGED line
    BY <1>5 DEF ReadStatus
  <2>3. /\ DOMAIN tree' = Trees /\ \A u \in Trees : u # t => tree'[u] = tree[u]
        /\ DOMAIN tree'[t] = {"at", "facts", "now", "result"}
        /\ tree'[t].at = IF tree[t].at = "status" THEN "refs" ELSE "refs again"
        /\ tree'[t].facts = tree[t].facts
    BY <2>2 DEF CoverInv, Shapes
  <2>4. tree'[t].at \in {"status again", "refs again", "merge"} => ~ tree'[t].facts.dirty
    BY <2>1, <2>3 DEF CoverInv, ReviewedClean
  <2> QED BY <1>1, <1>2, <2>1, <2>2, <2>3, <2>4, TaskGoesOn DEF Queues, HeadShape
<1> QED BY <1>3, <1>4, <1>5

(* A branch that may be moved has nothing uncommitted. *)
LEMMA ReadyIsClean ==
  ASSUME NEW t, Inspected(t) = "ready"
  PROVE  ~ Facts(t).dirty
<1> DEFINE f == Facts(t)
<1>1. t \notin Idle /\ remote[RepoOf[t]] = "fetched"
  BY DEF Inspected
<1>2. Inspected(t) = IF tree[t].at = "refs again" /\ f # Reviewed(t) THEN "changed"
        ELSE IF ~ f.head.local /\ f.head.n = f.up THEN "up to date"
        ELSE IF ~ f.head.local THEN IF f.dirty THEN "dirty" ELSE "ready"
        ELSE IF f.head.n = f.up THEN "ahead" ELSE "diverged"
  BY <1>1 DEF Inspected
<1> QED BY <1>2

(* The second half of an inspection, and its failures. *)
LEMMA InspectionSteps ==
  ASSUME CoverInv, BulkAssumption, NEW t \in Trees, ReadRefs(t) \/ InspectionFails(t)
  PROVE  CoverInv'
<1>1. UNCHANGED <<worker, head>>
  BY DEF ReadRefs, InspectionFails, TreeUnchanged, git
<1>2. HeadShape'
  BY <1>1 DEF CoverInv, Shapes, HeadShape
<1>3. CASE InspectionFails(t)
  <2>1. Lock!Leave(t, t) /\ \E value : Ends(t, value)
    BY <1>3, Zenon DEF InspectionFails
  <2> QED BY <1>1, <1>2, <2>1, TaskEnds DEF Queues, HeadShape
<1>4. CASE ReadRefs(t) /\ (Inspected(t) # "ready" \/ aborted)
  <2>1. Lock!Leave(t, t) /\ \E value : Ends(t, value)
    BY <1>4, Zenon DEF ReadRefs
  <2> QED BY <1>1, <1>2, <2>1, TaskEnds DEF Queues, HeadShape
<1>5. CASE ReadRefs(t) /\ Inspected(t) = "ready" /\ ~ aborted
  <2>1. /\ tree' = [tree EXCEPT ![t].facts = Facts(t),
                                ![t].at = IF @ = "refs" THEN "status again" ELSE "merge"]
        /\ UNCHANGED line
    BY <1>5, Zenon DEF ReadRefs
  <2>2. /\ DOMAIN tree' = Trees /\ \A u \in Trees : u # t => tree'[u] = tree[u]
        /\ DOMAIN tree'[t] = {"at", "facts", "now", "result"}
        /\ tree'[t].facts = Facts(t)
    BY <2>1 DEF CoverInv, Shapes
  <2>3. Active(t)
    BY <1>5 DEF ReadRefs, Active
  <2>4. ~ tree'[t].facts.dirty
    BY <1>5, <2>2, ReadyIsClean
  <2> QED BY <1>1, <1>2, <2>1, <2>2, <2>3, <2>4, TaskGoesOn DEF Queues, HeadShape
<1> QED BY <1>3, <1>4, <1>5

(* Git moves the branch, and the worktree is looked at again. *)
LEMMA MergeSteps ==
  ASSUME CoverInv, BulkAssumption, NEW t \in Trees, Merge(t) \/ Verify(t)
  PROVE  CoverInv'
<1>1. UNCHANGED worker
  BY DEF Merge, Verify, TreeUnchanged
<1>2. CASE Verify(t)
  <2>1. Lock!Leave(t, t) /\ (\E value : Ends(t, value)) /\ UNCHANGED head
    BY <1>2, Zenon DEF Verify, git
  <2>2. HeadShape'
    BY <2>1 DEF CoverInv, Shapes, HeadShape
  <2> QED BY <1>1, <2>1, <2>2, TaskEnds DEF Queues, HeadShape
<1>3. CASE Merge(t)
  <2>1. \/ /\ head' = [head EXCEPT ![t].n = IF @ < Target(t) THEN Target(t) ELSE @]
           /\ tree' = [tree EXCEPT ![t].at = "verify"]
           /\ UNCHANGED line
        \/ Lock!Leave(t, t) /\ Ends(t, "failed") /\ UNCHANGED head
    BY <1>3, Zenon DEF Merge
  <2>2. HeadShape'
    BY <2>1 DEF CoverInv, Shapes, HeadShape
  <2>3. CASE Lock!Leave(t, t) /\ Ends(t, "failed")
    BY <1>1, <2>2, <2>3, TaskEnds DEF Queues, HeadShape
  <2>4. CASE tree' = [tree EXCEPT ![t].at = "verify"] /\ UNCHANGED line
    <3>1. /\ DOMAIN tree' = Trees /\ \A u \in Trees : u # t => tree'[u] = tree[u]
          /\ DOMAIN tree'[t] = {"at", "facts", "now", "result"} /\ tree'[t].at = "verify"
      BY <2>4 DEF CoverInv, Shapes
    <3>2. Active(t)
      BY <1>3 DEF Merge, Active
    <3> QED BY <1>1, <2>2, <2>4, <3>1, <3>2, TaskGoesOn DEF Queues, HeadShape
  <2> QED BY <2>1, <2>3, <2>4
<1> QED BY <1>2, <1>3

-----------------------------------------------------------------------------
(* Everyone else *)

(* Users hold locks of their own; outsiders change what Git shows. *)
LEMMA OthersSteps ==
  ASSUME CoverInv, BulkAssumption,
         \/ Cancel
         \/ \E t \in Trees : Outsider(t)
         \/ \E u \in Users, k \in Places : UserEnters(u, k) \/ UserLeaves(u, k)
  PROVE  CoverInv'
<1>1. CASE \E u \in Users, k \in Places : UserEnters(u, k) \/ UserLeaves(u, k)
  <2>1. PICK u \in Users, k \in Places : UserEnters(u, k) \/ UserLeaves(u, k)
    BY <1>1
  <2>2. UNCHANGED <<worker, tree, head>> /\ Queues(u, k)
    BY <2>1 DEF UserEnters, UserLeaves, run, git, Queues
  <2>3. HeadShape'
    BY <2>2 DEF CoverInv, Shapes, HeadShape
  <2>4. DOMAIN tree' = Trees /\ \A t \in Trees : tree'[t] = tree[t]
    BY <2>2 DEF CoverInv, Shapes
  <2> QED BY <2>2, <2>3, <2>4, TaskStep DEF HeadShape
<1>2. CASE Cancel \/ \E t \in Trees : Outsider(t)
  <2>1. UNCHANGED <<worker, tree, line>>
    BY <1>2 DEF Cancel, Outsider, run
  <2>2. HeadShape'
    BY <1>2 DEF Cancel, Outsider, git, CoverInv, Shapes, HeadShape
  <2>3. Shapes'
    BY <2>1, <2>2 DEF CoverInv, Shapes, HeadShape
  <2>4. WorkersHold'
    BY <2>1 DEF CoverInv, WorkersHold, Lock!Holds
  <2>5. TasksHaveWorkers' /\ ReviewedClean'
    BY <2>1 DEF CoverInv, TasksHaveWorkers, Active, ReviewedClean
  <2> QED BY <2>3, <2>4, <2>5 DEF CoverInv
<1> QED BY <1>1, <1>2

(* Every step keeps the invariant. *)
LEMMA CoverInvNext ==
  ASSUME CoverInv, BulkAssumption, [Next]_vars
  PROVE  CoverInv'
<1>1. CASE UNCHANGED vars
  BY <1>1 DEF vars, run, git, CoverInv, Shapes, WorkersHold, TasksHaveWorkers, Active,
              ReviewedClean, Lock!Holds
<1>2. ASSUME NEW w \in Workers, WorkerStep(w)
      PROVE  CoverInv'
  BY <1>2, TakeStep, SyncRepoStep, FetchStep, LaterSteps DEF WorkerStep
<1>3. ASSUME NEW t \in Trees, TreeStep(t)
      PROVE  CoverInv'
  BY <1>3, EarlySteps, InspectionSteps, MergeSteps DEF TreeStep
<1> QED BY <1>1, <1>2, <1>3, FinishStep, OthersSteps DEF Next, Places

-----------------------------------------------------------------------------
(* A worker that fetches or waits for worktrees holds its repository, and every task *)
(* under way has such a worker.                                                      *)
THEOREM CoverInvariant == Spec => []CoverInv
<1>1. Init => CoverInv
  BY CoverInvInit
<1>2. CoverInv /\ [Next]_vars => CoverInv'
  BY CoverInvNext, BulkAssumption
<1> QED BY <1>1, <1>2, PTL DEF Spec

(* No task of a bulk run is outside the lock of its repository, although mapLimit's *)
(* workers, cancels and failures end tasks in any order.                            *)
THEOREM TasksCovered == Spec => []LocksCoverTasks
<1>1. CoverInv => LocksCoverTasks
  <2> SUFFICES ASSUME CoverInv, NEW t \in Trees, Active(t)
               PROVE  \E w \in Workers : Working(w) = RepoOf[t] /\ Lock!Holds(w, RepoOf[t])
    BY DEF LocksCoverTasks, Active
  <2>1. PICK w \in Workers : worker[w].at = "worktrees" /\ worker[w].repo = RepoOf[t]
    BY DEF CoverInv, TasksHaveWorkers
  <2>2. Lock!Holds(w, RepoOf[t])
    BY <2>1 DEF CoverInv, WorkersHold, Lock!Holds
  <2> QED BY <2>1, <2>2 DEF Working
<1> QED BY <1>1, CoverInvariant, PTL

-----------------------------------------------------------------------------
(* Commits are numbers, so that a branch is either behind its target or is not. *)
TaskNumbers(x) == x.facts.up \in Int /\ DOMAIN x.now = {"head", "up", "dirty"}

Numbers ==
  /\ upstream \in [Trees -> Int]
  /\ \A t \in Trees : head[t].n \in Int /\ TaskNumbers(tree[t])

(* They are at the start. *)
LEMMA NumbersInit == Init => Numbers
<1> SUFFICES ASSUME Init
             PROVE  Numbers
  OBVIOUS
<1>1. \A t \in Trees : tree[t] = NewTask
  BY DEF Init
<1>2. TaskNumbers(NewTask)
  BY DEF TaskNumbers, NewTask, NoFacts
<1> QED BY <1>1, <1>2 DEF Init, Numbers

(* Ending a task, or all of a repository, leaves numbers. *)
LEMMA EndedNumbers ==
  ASSUME CoverInv, Numbers, NEW t \in Trees, NEW value, Ends(t, value)
  PROVE  \A u \in Trees : TaskNumbers(tree'[u])
<1>1. tree'[t] = [NewTask EXCEPT !.at = "done", !.result = value]
  BY DEF Ends, CoverInv, Shapes
<1>2. TaskNumbers(tree'[t])
  BY <1>1 DEF TaskNumbers, NewTask, NoFacts
<1>3. \A u \in Trees : u # t => tree'[u] = tree[u]
  BY DEF Ends, CoverInv, Shapes
<1> QED BY <1>2, <1>3 DEF Numbers

(* Every step keeps them. *)
LEMMA NumbersNext ==
  ASSUME CoverInv, Numbers, BulkAssumption, [Next]_vars
  PROVE  Numbers'
<1>1. CASE UNCHANGED vars
  BY <1>1 DEF vars, run, git, Numbers, TaskNumbers
<1>2. ASSUME NEW w \in Workers, WorkerStep(w)
      PROVE  Numbers'
  <2>1. UNCHANGED head
    BY <1>2 DEF WorkerStep, Take, SyncRepo, Fetch, SyncEnds, Completes, Indexes, Refreshes, git
  <2>2. upstream' \in [Trees -> Int]
    <3>1. CASE UNCHANGED upstream
      BY <3>1 DEF Numbers
    <3>2. CASE \E up \in [Trees -> 0 .. MaxCommits] : Fetched(Working(w), up)
      BY <3>2 DEF Fetched, BulkAssumption
    <3>3. CASE Fetch(w)
      BY <3>1, <3>2, <3>3, Zenon DEF Fetch
    <3> QED BY <1>2, <3>1, <3>3
            DEF WorkerStep, Take, SyncRepo, SyncEnds, Completes, Indexes, Refreshes, git
  <2>3. \/ UNCHANGED tree
        \/ \E ts, value : SetResults(Working(w), ts, value)
    <3>1. CASE SyncRepo(w)
      BY <3>1, Zenon DEF SyncRepo
    <3> QED BY <1>2, <3>1 DEF WorkerStep, Take, Fetch, SyncEnds, Completes, Indexes, Refreshes
  <2>4. \A t \in Trees : TaskNumbers(tree'[t])
    <3>1. CASE UNCHANGED tree
      BY <3>1 DEF Numbers
    <3>2. ASSUME NEW ts, NEW value, SetResults(Working(w), ts, value)
          PROVE  \A t \in Trees : TaskNumbers(tree'[t])
      <4>1. \A t \in Trees : /\ tree'[t].facts = tree[t].facts
                              /\ tree'[t].now = tree[t].now
        BY <3>2 DEF SetResults, CoverInv, Shapes
      <4> QED BY <4>1 DEF Numbers, TaskNumbers
    <3> QED BY <2>3, <3>1, <3>2
  <2> QED BY <2>1, <2>2, <2>4 DEF Numbers
<1>3. ASSUME NEW t \in Trees, TreeStep(t)
      PROVE  Numbers'
  <2>1. UNCHANGED upstream
    BY <1>3 DEF TreeStep, Accept, Begin, ReadStatus, ReadRefs, InspectionFails, Merge, Verify, git
  <2>2. \A u \in Trees : head'[u].n \in Int
    <3>1. CASE Merge(t)
      <4>1. UNCHANGED head \/ head' = [head EXCEPT ![t].n = IF @ < Target(t) THEN Target(t) ELSE @]
        BY <3>1, Zenon DEF Merge
      <4>2. Target(t) \in Int
        BY DEF Target, Numbers, TaskNumbers
      <4>3. CASE head' = [head EXCEPT ![t].n = IF @ < Target(t) THEN Target(t) ELSE @]
        <5>1. \A u \in Trees : u # t => head'[u] = head[u]
          BY <4>3 DEF CoverInv, Shapes
        <5>2. head'[t].n = IF head[t].n < Target(t) THEN Target(t) ELSE head[t].n
          BY <4>3 DEF CoverInv, Shapes
        <5>3. head'[t].n \in Int
          BY <4>2, <5>2 DEF Numbers
        <5> QED BY <5>1, <5>3 DEF Numbers
      <4> QED BY <4>1, <4>3 DEF Numbers
    <3>2. CASE UNCHANGED head
      BY <3>2 DEF Numbers
    <3> QED BY <1>3, <3>1, <3>2
            DEF TreeStep, Accept, Begin, ReadStatus, ReadRefs, InspectionFails, Verify, git
  <2>3. \/ \E value : Ends(t, value)
        \/ \E at : tree' = [tree EXCEPT ![t].at = at]
        \/ tree' = [tree EXCEPT ![t].now = [NoFacts EXCEPT !.dirty = dirty[t]],
                                ![t].at = IF @ = "status" THEN "refs" ELSE "refs again"]
        \/ tree' = [tree EXCEPT ![t].facts = Facts(t),
                                ![t].at = IF @ = "refs" THEN "status again" ELSE "merge"]
    <3>1. CASE Accept(t) \/ Begin(t) \/ InspectionFails(t) \/ Merge(t) \/ Verify(t)
      BY <3>1, Zenon DEF Accept, Begin, InspectionFails, Merge, Verify
    <3>2. CASE ReadStatus(t)
      BY <3>2 DEF ReadStatus
    <3>3. CASE ReadRefs(t)
      BY <3>3, Zenon DEF ReadRefs
    <3> QED BY <1>3, <3>1, <3>2, <3>3 DEF TreeStep
  <2>4. \A u \in Trees : TaskNumbers(tree'[u])
    <3>1. CASE \E value : Ends(t, value)
      BY <3>1, EndedNumbers
    <3>2. CASE \E at : tree' = [tree EXCEPT ![t].at = at]
      BY <3>2 DEF Numbers, TaskNumbers, CoverInv, Shapes
    <3>3. CASE tree' = [tree EXCEPT ![t].now = [NoFacts EXCEPT !.dirty = dirty[t]],
                                    ![t].at = IF @ = "status" THEN "refs" ELSE "refs again"]
      <4>1. DOMAIN [NoFacts EXCEPT !.dirty = dirty[t]] = {"head", "up", "dirty"}
        BY DEF NoFacts
      <4> QED BY <3>3, <4>1 DEF Numbers, TaskNumbers, CoverInv, Shapes
    <3>4. CASE tree' = [tree EXCEPT ![t].facts = Facts(t),
                                    ![t].at = IF @ = "refs" THEN "status again" ELSE "merge"]
      <4>1. Facts(t).up \in Int
        BY DEF Facts, Numbers, TaskNumbers
      <4> QED BY <3>4, <4>1 DEF Numbers, TaskNumbers, CoverInv, Shapes
    <3> QED BY <2>3, <3>1, <3>2, <3>3, <3>4
  <2> QED BY <2>1, <2>2, <2>4 DEF Numbers
<1>4. CASE Finish
  <2>1. PICK left : tree' = [t \in Trees |-> IF RepoOf[t] \in left
                               THEN [tree[t] EXCEPT !.at = "done", !.result = "cancelled"]
                               ELSE tree[t]]
    BY <1>4, Zenon DEF Finish
  <2>2. UNCHANGED <<head, upstream>>
    BY <1>4 DEF Finish, git
  <2> QED BY <2>1, <2>2 DEF Numbers, TaskNumbers, CoverInv, Shapes
<1>5. ASSUME NEW t \in Trees, Outsider(t)
      PROVE  Numbers'
  <2>1. UNCHANGED tree /\ \A u \in Trees : head'[u].n = head[u].n
    BY <1>5 DEF Outsider, run, CoverInv, Shapes
  <2>2. upstream' \in [Trees -> Int]
    BY <1>5 DEF Outsider, Numbers
  <2> QED BY <2>1, <2>2 DEF Numbers, TaskNumbers
<1>6. CASE Cancel \/ \E u \in Users, k \in Places : UserEnters(u, k) \/ UserLeaves(u, k)
  BY <1>6 DEF Cancel, UserEnters, UserLeaves, run, git, Numbers, TaskNumbers
<1> QED BY <1>1, <1>2, <1>3, <1>4, <1>5, <1>6 DEF Next, Places

-----------------------------------------------------------------------------
(* A branch moved is one reviewed: what a step may change of the branches. *)
MovedAsReviewed ==
  \A t \in Trees : head'[t].n # head[t].n =>
    /\ tree[t].at = "merge" /\ head'[t].n = tree[t].facts.up
    /\ ~ head[t].local /\ ~ tree[t].facts.dirty

(* Only a merge, by its own guard and after clean inspections, moves a branch. *)
LEMMA BranchMoves ==
  ASSUME CoverInv, Numbers, [Next]_vars
  PROVE  MovedAsReviewed
<1>1. CASE UNCHANGED head
  BY <1>1 DEF MovedAsReviewed
<1>2. ASSUME NEW t \in Trees, Merge(t)
      PROVE  MovedAsReviewed
  <2>1. CASE UNCHANGED head
    BY <2>1 DEF MovedAsReviewed
  <2>2. CASE /\ ~ head[t].local \/ head[t].n >= Target(t)
             /\ head' = [head EXCEPT ![t].n = IF @ < Target(t) THEN Target(t) ELSE @]
    <3>1. \A u \in Trees : u # t => head'[u] = head[u]
      BY <2>2 DEF CoverInv, Shapes
    <3>2. head'[t].n = IF head[t].n < Target(t) THEN Target(t) ELSE head[t].n
      BY <2>2 DEF CoverInv, Shapes
    <3>3. tree[t].at = "merge" /\ ~ tree[t].facts.dirty
      BY <1>2 DEF Merge, CoverInv, ReviewedClean
    <3>4. head'[t].n # head[t].n => ~ head[t].local /\ head'[t].n = tree[t].facts.up
      BY <2>2, <3>2 DEF Target, Numbers, TaskNumbers
    <3> QED BY <3>1, <3>3, <3>4 DEF MovedAsReviewed
  <2> QED BY <1>2, <2>1, <2>2, Zenon DEF Merge
<1>3. ASSUME NEW t \in Trees, Outsider(t)
      PROVE  MovedAsReviewed
  <2>1. \A u \in Trees : head'[u].n = head[u].n
    BY <1>3 DEF Outsider, CoverInv, Shapes
  <2> QED BY <2>1 DEF MovedAsReviewed
<1>4. ASSUME NEW w \in Workers, WorkerStep(w)
      PROVE  UNCHANGED head
  BY <1>4 DEF WorkerStep, Take, SyncRepo, Fetch, SyncEnds, Completes, Indexes, Refreshes, git
<1>5. ASSUME NEW t \in Trees, TreeStep(t), ~ Merge(t)
      PROVE  UNCHANGED head
  BY <1>5 DEF TreeStep, Accept, Begin, ReadStatus, ReadRefs, InspectionFails, Verify, git
<1>6. ASSUME Finish \/ Cancel \/ \E u \in Users, k \in Places : UserEnters(u, k) \/ UserLeaves(u, k)
      PROVE  UNCHANGED head
  BY <1>6 DEF Finish, Cancel, UserEnters, UserLeaves, git
<1>7. CASE UNCHANGED vars
  BY <1>1, <1>7 DEF vars, git
<1> QED BY <1>1, <1>2, <1>3, <1>4, <1>5, <1>6, <1>7 DEF Next, Places

(* Whatever is fetched, committed or edited meanwhile, and however many tasks run, *)
(* a bulk run moves a branch only to the commit that clean inspections have seen.  *)
THEOREM OnlyToReviewed == Spec => MovesOnlyToReviewed
<1>1. CoverInv /\ Numbers /\ [Next]_vars => Numbers'
  BY NumbersNext, BulkAssumption
<1>2. CoverInv /\ Numbers /\ [Next]_vars => [MovedAsReviewed]_vars
  BY BranchMoves
<1>3. MovesOnlyToReviewed <=> [][MovedAsReviewed]_vars
  BY PTL DEF MovesOnlyToReviewed, MovedAsReviewed
<1> QED BY <1>1, <1>2, <1>3, NumbersInit, CoverInvariant, PTL DEF Spec

-----------------------------------------------------------------------------
(* Repositories are taken once, in order, and what is moved is followed to its refresh. *)

Engaged(w) == worker[w].at \notin {"free", "done"}

(* The refresh of worktree t is still to come, or its repository lost its results. *)
Followed(t) ==
  LET r == RepoOf[t] IN
  \/ \E w \in Workers :
       /\ worker[w].repo = r
       /\ \/ worker[w].at = "worktrees"
          \/ worker[w].at \in {"completing", "indexing", "refreshing"} /\ listed[r] = TreesOf(r)
  \/ \E u \in TreesOf(r) : tree[u].at = "done" /\ tree[u].result = "threw"

RunShapes ==
  /\ next \in Int
  /\ DOMAIN remote = Repos /\ DOMAIN result = Repos /\ DOMAIN listed = Repos
  /\ unseen \subseteq moved /\ moved \subseteq Trees

OneWorkerEach ==
  \A v, w \in Workers : Engaged(v) /\ Engaged(w) /\ worker[v].repo = worker[w].repo => v = w

TakenInOrder == \A w \in Workers : Engaged(w) => worker[w].repo < next

(* A repository that was taken has an outcome, or a worker that will give it one. *)
TakenIsHandled ==
  \A r \in Repos : r < next =>
    \/ result[r] # "none"
    \/ \E w \in Workers : worker[w].at \in {"queued", "fetching", "worktrees"} /\ worker[w].repo = r

(* No worktree's task begins before its repository has been fetched. *)
UntouchedWait ==
  /\ ~ finished => \A t \in Trees : RepoOf[t] >= next => tree[t].at = "waiting"
  /\ \A w \in Workers : worker[w].at \in {"queued", "fetching"} =>
       \A t \in TreesOf(worker[w].repo) : tree[t].at = "waiting"

FinishedIsDone == finished => \A w \in Workers : worker[w].at = "done"

(* Only what could be fetched is reviewed and moved. *)
ReadyIsFetched ==
  \A t \in Trees :
    t \in moved \/ tree[t].at \in {"status again", "refs again", "merge", "verify"}
      => remote[RepoOf[t]] = "fetched"

MovedLate ==
  \A t \in moved :
    \/ tree[t].at = "verify"
    \/ tree[t].at = "done" /\ tree[t].result \in {"updated", "failed"}

UnseenFollowed == \A t \in unseen \ unread : Followed(t)

ProgressInv ==
  /\ RunShapes /\ OneWorkerEach /\ TakenInOrder /\ TakenIsHandled /\ UntouchedWait
  /\ FinishedIsDone /\ ReadyIsFetched /\ MovedLate /\ UnseenFollowed

(* Repositories are numbers from 1 on. *)
LEMMA RepoNumbers ==
  ASSUME BulkAssumption
  PROVE  /\ \A r \in Repos : r \in Int /\ 1 <= r
         /\ \A t \in Trees : RepoOf[t] \in Repos
<1> DEFINE n == Cardinality(Repos)
<1>1. Repos = 1 .. n /\ RepoOf \in [Trees -> Repos]
  BY DEF BulkAssumption
<1> HIDE DEF n
<1> QED BY <1>1

(* What is less is not more. *)
LEMMA NotBoth ==
  ASSUME NEW a \in Int, NEW b \in Int, a < b
  PROVE  ~ (a >= b)
OBVIOUS

(* Nothing has been taken or moved. *)
LEMMA ProgressInit ==
  ASSUME Init, BulkAssumption
  PROVE  ProgressInv
<1>1. \A w \in Workers : worker[w] = [at |-> "free", repo |-> 0] /\ ~ Engaged(w)
  BY DEF Init, Engaged
<1>2. \A t \in Trees : tree[t].at = "waiting"
  BY DEF Init, NewTask
<1>3. RunShapes
  BY DEF Init, RunShapes
<1>4. OneWorkerEach /\ TakenInOrder /\ FinishedIsDone
  BY <1>1 DEF OneWorkerEach, TakenInOrder, FinishedIsDone, Init
<1>5. TakenIsHandled
  <2>1. next = 1
    BY DEF Init
  <2>2. \A r \in Repos : ~ (r < next)
    BY <2>1, RepoNumbers
  <2> QED BY <2>2 DEF TakenIsHandled
<1>6. UntouchedWait
  BY <1>2 DEF UntouchedWait, TreesOf
<1>7. ReadyIsFetched /\ MovedLate /\ UnseenFollowed
  BY <1>2 DEF Init, ReadyIsFetched, MovedLate, UnseenFollowed
<1> QED BY <1>3, <1>4, <1>5, <1>6, <1>7 DEF ProgressInv

-----------------------------------------------------------------------------
(* Tasks *)

(* A step of a task whose worker waits for it, and that is not done.  Whatever it *)
(* moves it has reviewed, of what was fetched, and it says so in its result.      *)
LEMMA TaskProgress ==
  ASSUME ProgressInv, BulkAssumption, NEW t \in Trees,
         UNCHANGED <<next, worker, remote, result, listed, finished>>,
         \A u \in Trees : u # t => tree'[u] = tree[u],
         \E w \in Workers : worker[w].at = "worktrees" /\ worker[w].repo = RepoOf[t],
         tree[t].at # "done",
         tree'[t].at \in {"status again", "refs again", "merge", "verify"} => remote[RepoOf[t]] = "fetched",
         \/ UNCHANGED <<moved, unseen, unread>>
         \/ moved' = moved \cup {t} /\ unseen' = unseen \cup {t} /\ unread' = unread \ {t},
         t \in moved' =>
           /\ remote[RepoOf[t]] = "fetched"
           /\ \/ tree'[t].at = "verify"
              \/ tree'[t].at = "done" /\ tree'[t].result \in {"updated", "failed"}
  PROVE  ProgressInv'
<1>1. PICK w \in Workers : worker[w].at = "worktrees" /\ worker[w].repo = RepoOf[t]
  OBVIOUS
<1>2. Engaged(w) /\ RepoOf[t] < next /\ ~ finished /\ RepoOf[t] \in Int /\ next \in Int
  <2>1. Engaged(w)
    BY <1>1 DEF Engaged
  <2>2. RepoOf[t] < next /\ next \in Int
    BY <1>1, <2>1 DEF ProgressInv, TakenInOrder, RunShapes
  <2>3. ~ finished
    BY <1>1 DEF ProgressInv, FinishedIsDone
  <2>4. RepoOf[t] \in Int
    BY RepoNumbers
  <2> QED BY <2>1, <2>2, <2>3, <2>4
<1>3. RunShapes' /\ OneWorkerEach' /\ TakenInOrder' /\ TakenIsHandled' /\ FinishedIsDone'
  <2>1. RunShapes'
    BY DEF ProgressInv, RunShapes
  <2>2. OneWorkerEach' /\ TakenInOrder' /\ FinishedIsDone'
    BY DEF ProgressInv, OneWorkerEach, TakenInOrder, FinishedIsDone, Engaged
  <2>3. TakenIsHandled'
    BY DEF ProgressInv, TakenIsHandled
  <2> QED BY <2>1, <2>2, <2>3
<1>4. UntouchedWait'
  <2>0. ~ (RepoOf[t] >= next)
    BY <1>2, NotBoth, Zenon
  <2>1. \A u \in Trees : RepoOf[u] >= next => u # t
    BY <2>0, Zenon
  <2>2. ~ finished' => \A u \in Trees : RepoOf[u] >= next' => tree'[u].at = "waiting"
    BY <2>1 DEF ProgressInv, UntouchedWait
  <2>3. ASSUME NEW v \in Workers, worker[v].at \in {"queued", "fetching"}, NEW u \in TreesOf(worker[v].repo)
        PROVE  tree'[u].at = "waiting"
    <3>1. Engaged(v) /\ v # w
      BY <1>1, <2>3 DEF Engaged
    <3>2. u \in Trees /\ RepoOf[u] = worker[v].repo
      BY <2>3 DEF TreesOf
    <3>3. u # t
      BY <1>1, <1>2, <3>1, <3>2 DEF ProgressInv, OneWorkerEach
    <3> QED BY <2>3, <3>2, <3>3 DEF ProgressInv, UntouchedWait
  <2> QED BY <2>2, <2>3 DEF UntouchedWait, TreesOf
<1>5. \A u : u # t => /\ (u \in moved' <=> u \in moved)
                    /\ (u \in unseen' <=> u \in unseen)
                    /\ (u \in unread' <=> u \in unread)
  OBVIOUS
<1>6. ReadyIsFetched' /\ MovedLate'
  <2>1. ASSUME NEW u \in Trees, u # t
        PROVE  tree'[u] = tree[u] /\ (u \in moved' <=> u \in moved)
    BY <1>5, <2>1
  <2>2. moved' \subseteq Trees
    BY <1>3 DEF RunShapes
  <2>3. ReadyIsFetched /\ MovedLate
    BY DEF ProgressInv
  <2>4. ASSUME NEW u \in Trees, u # t
        PROVE  /\ u \in moved' \/ tree'[u].at \in {"status again", "refs again", "merge", "verify"}
                    => remote'[RepoOf[u]] = "fetched"
               /\ u \in moved' => \/ tree'[u].at = "verify"
                                  \/ tree'[u].at = "done" /\ tree'[u].result \in {"updated", "failed"}
    BY <2>1, <2>3, <2>4 DEF ReadyIsFetched, MovedLate
  <2>5. /\ t \in moved' \/ tree'[t].at \in {"status again", "refs again", "merge", "verify"}
             => remote'[RepoOf[t]] = "fetched"
        /\ t \in moved' => \/ tree'[t].at = "verify"
                           \/ tree'[t].at = "done" /\ tree'[t].result \in {"updated", "failed"}
    OBVIOUS
  <2> QED BY <2>2, <2>4, <2>5 DEF ReadyIsFetched, MovedLate
<1>7. UnseenFollowed'
  <2>1. SUFFICES ASSUME NEW u \in unseen' \ unread'
                 PROVE  Followed(u)'
    BY DEF UnseenFollowed
  <2>2. CASE RepoOf[u] = RepoOf[t]
    BY <1>1, <2>2 DEF Followed
  <2>3. CASE RepoOf[u] # RepoOf[t]
    <3>1. Followed(u)
      BY <1>5, <2>3 DEF ProgressInv, UnseenFollowed
    <3>2. \A x \in TreesOf(RepoOf[u]) : tree'[x] = tree[x]
      BY <2>3 DEF TreesOf
    <3> QED BY <3>1, <3>2 DEF Followed, TreesOf
  <2> QED BY <2>2, <2>3
<1> QED BY <1>3, <1>4, <1>6, <1>7 DEF ProgressInv

(* A task that has its verdict: the branch was not moved, or the verdict says it may be. *)
LEMMA TaskEndsProgress ==
  ASSUME ProgressInv, CoverInv, BulkAssumption, NEW t \in Trees, NEW value, Ends(t, value),
         TreeUnchanged, UNCHANGED <<moved, unseen, unread>>,
         \E w \in Workers : worker[w].at = "worktrees" /\ worker[w].repo = RepoOf[t],
         tree[t].at # "done", tree[t].at = "verify" => value \in {"updated", "failed"}
  PROVE  ProgressInv'
<1>1. \A u \in Trees : u # t => tree'[u] = tree[u]
  BY DEF Ends, CoverInv, Shapes
<1>2. tree'[t] = [NewTask EXCEPT !.at = "done", !.result = value]
  BY DEF Ends, CoverInv, Shapes
<1>3. tree'[t].at = "done" /\ tree'[t].result = value
  BY <1>2 DEF NewTask
<1>4. t \in moved' => tree[t].at = "verify" /\ remote[RepoOf[t]] = "fetched"
  BY DEF ProgressInv, MovedLate, ReadyIsFetched
<1>5. UNCHANGED <<next, worker, remote, result, listed, finished>>
  BY DEF TreeUnchanged
<1> QED BY <1>1, <1>3, <1>4, <1>5, TaskProgress

(* A task that goes on, and moves nothing. *)
LEMMA TaskGoesOnProgress ==
  ASSUME ProgressInv, CoverInv, BulkAssumption, NEW t \in Trees,
         \A u \in Trees : u # t => tree'[u] = tree[u],
         TreeUnchanged, UNCHANGED <<moved, unseen, unread>>,
         \E w \in Workers : worker[w].at = "worktrees" /\ worker[w].repo = RepoOf[t],
         tree[t].at \notin {"verify", "done"},
         tree'[t].at \in {"status again", "refs again", "merge", "verify"} => remote[RepoOf[t]] = "fetched"
  PROVE  ProgressInv'
<1>1. t \notin moved'
  BY DEF ProgressInv, MovedLate
<1>2. UNCHANGED <<next, worker, remote, result, listed, finished>>
  BY DEF TreeUnchanged
<1> QED BY <1>1, <1>2, TaskProgress

(* A branch is found ready only when its remote could be fetched. *)
LEMMA ReadyWasFetched ==
  ASSUME NEW t, Inspected(t) = "ready"
  PROVE  remote[RepoOf[t]] = "fetched"
BY DEF Inspected

(* Every step of a task keeps the invariant. *)
LEMMA TaskStepProgress ==
  ASSUME ProgressInv, CoverInv, BulkAssumption, NEW t \in Trees, TreeStep(t)
  PROVE  ProgressInv'
<1>1. TreeUnchanged
  BY DEF TreeStep, Accept, Begin, ReadStatus, ReadRefs, InspectionFails, Merge, Verify
<1>2. \E w \in Workers : worker[w].at = "worktrees" /\ worker[w].repo = RepoOf[t]
  <2>1. CASE Accept(t)
    BY <2>1 DEF Accept, Working
  <2>2. CASE ~ Accept(t)
    <3>1. Active(t)
      BY <2>2 DEF TreeStep, Begin, ReadStatus, ReadRefs, InspectionFails, Merge, Verify, Active
    <3> QED BY <3>1 DEF CoverInv, TasksHaveWorkers
  <2> QED BY <2>1, <2>2
<1>3. CASE Accept(t) \/ Begin(t)
  <2>1. tree[t].at \in {"waiting", "queued"} /\ UNCHANGED <<moved, unseen, unread>>
    BY <1>3 DEF Accept, Begin, shown
  <2>2. \/ Ends(t, "cancelled")
        \/ tree' = [tree EXCEPT ![t].at = "queued"]
        \/ tree' = [tree EXCEPT ![t].at = "status"]
    BY <1>3, Zenon DEF Accept, Begin
  <2>3. CASE Ends(t, "cancelled")
    BY <1>1, <1>2, <2>1, <2>3, TaskEndsProgress
  <2>4. ASSUME NEW at \in {"queued", "status"}, tree' = [tree EXCEPT ![t].at = at]
        PROVE  ProgressInv'
    <3>1. (\A u \in Trees : u # t => tree'[u] = tree[u]) /\ tree'[t].at = at
      BY <2>4 DEF CoverInv, Shapes
    <3> QED BY <1>1, <1>2, <2>1, <3>1, TaskGoesOnProgress
  <2> QED BY <2>2, <2>3, <2>4
<1>4. CASE ReadStatus(t)
  <2>1. /\ tree[t].at \in {"status", "status again"} /\ UNCHANGED <<moved, unseen, unread>>
        /\ tree' = [tree EXCEPT ![t].now = [NoFacts EXCEPT !.dirty = dirty[t]],
                                ![t].at = IF @ = "status" THEN "refs" ELSE "refs again"]
    BY <1>4 DEF ReadStatus, shown
  <2>2. /\ \A u \in Trees : u # t => tree'[u] = tree[u]
        /\ tree'[t].at = IF tree[t].at = "status" THEN "refs" ELSE "refs again"
    BY <2>1 DEF CoverInv, Shapes
  <2>3. tree'[t].at = "refs again" => remote[RepoOf[t]] = "fetched"
    <3>1. tree'[t].at = "refs again" => tree[t].at = "status again"
      <4>1. tree[t].at \in {"status", "status again"}
        BY <2>1
      <4> QED BY <2>2, <4>1
    <3> QED BY <3>1 DEF ProgressInv, ReadyIsFetched
  <2>4. tree'[t].at \in {"refs", "refs again"}
    BY <2>1, <2>2
  <2> QED BY <1>1, <1>2, <2>1, <2>2, <2>3, <2>4, TaskGoesOnProgress
<1>5. CASE ReadRefs(t) /\ (Inspected(t) # "ready" \/ aborted)
  <2>1. tree[t].at \in {"refs", "refs again"} /\ UNCHANGED <<moved, unseen, unread>>
    BY <1>5 DEF ReadRefs, shown
  <2>2. \E value : Ends(t, value)
    BY <1>5, Zenon DEF ReadRefs
  <2> QED BY <1>1, <1>2, <2>1, <2>2, TaskEndsProgress
<1>6. CASE ReadRefs(t) /\ Inspected(t) = "ready" /\ ~ aborted
  <2>1. tree[t].at \in {"refs", "refs again"} /\ UNCHANGED <<moved, unseen, unread>>
    BY <1>6 DEF ReadRefs, shown
  <2>2. tree' = [tree EXCEPT ![t].facts = Facts(t),
                             ![t].at = IF @ = "refs" THEN "status again" ELSE "merge"]
    BY <1>6, Zenon DEF ReadRefs
  <2>3. \A u \in Trees : u # t => tree'[u] = tree[u]
    BY <2>2 DEF CoverInv, Shapes
  <2>4. remote[RepoOf[t]] = "fetched"
    BY <1>6, ReadyWasFetched
  <2> QED BY <1>1, <1>2, <2>1, <2>3, <2>4, TaskGoesOnProgress
<1>7. CASE InspectionFails(t)
  <2>1. /\ tree[t].at \in {"status", "refs", "status again", "refs again"}
        /\ UNCHANGED <<moved, unseen, unread>> /\ \E value : Ends(t, value)
    BY <1>7, Zenon DEF InspectionFails, shown
  <2> QED BY <1>1, <1>2, <2>1, TaskEndsProgress
<1>8. CASE Merge(t)
  <2>1. tree[t].at = "merge"
    BY <1>8 DEF Merge
  <2>2. \/ /\ tree' = [tree EXCEPT ![t].at = "verify"]
           /\ \/ moved' = moved \cup {t} /\ unseen' = unseen \cup {t} /\ unread' = unread \ {t}
              \/ UNCHANGED <<moved, unseen, unread>>
        \/ Ends(t, "failed") /\ UNCHANGED <<moved, unseen, unread>>
    BY <1>8, Zenon DEF Merge, shown
  <2>3. CASE Ends(t, "failed") /\ UNCHANGED <<moved, unseen, unread>>
    BY <1>1, <1>2, <2>1, <2>3, TaskEndsProgress
  <2>4. CASE /\ tree' = [tree EXCEPT ![t].at = "verify"]
             /\ \/ moved' = moved \cup {t} /\ unseen' = unseen \cup {t} /\ unread' = unread \ {t}
                \/ UNCHANGED <<moved, unseen, unread>>
    <3>1. (\A u \in Trees : u # t => tree'[u] = tree[u]) /\ tree'[t].at = "verify"
      BY <2>4 DEF CoverInv, Shapes
    <3>2. remote[RepoOf[t]] = "fetched"
      BY <2>1 DEF ProgressInv, ReadyIsFetched
    <3>3. UNCHANGED <<next, worker, remote, result, listed, finished>>
      BY <1>1 DEF TreeUnchanged
    <3> QED BY <1>2, <2>1, <2>4, <3>1, <3>2, <3>3, TaskProgress
  <2> QED BY <2>2, <2>3, <2>4
<1>9. CASE Verify(t)
  <2>1. tree[t].at = "verify" /\ UNCHANGED <<moved, unseen, unread>>
    BY <1>9 DEF Verify, shown
  <2>2. \E value \in {"updated", "failed"} : Ends(t, value)
    <3>1. Verdict(t) \in {"updated", "failed"}
      BY DEF Verdict
    <3> QED BY <1>9, <3>1, Zenon DEF Verify
  <2> QED BY <1>1, <1>2, <2>1, <2>2, TaskEndsProgress
<1> QED BY <1>3, <1>4, <1>5, <1>6, <1>7, <1>8, <1>9 DEF TreeStep

-----------------------------------------------------------------------------
(* Workers *)

(* A step of a worker with its repository: it leaves other repositories and moved *)
(* worktrees alone, gives an outcome when it leaves the worktrees, and whatever it *)
(* has moved there remains followed.                                              *)
LEMMA WorkerProgress ==
  ASSUME ProgressInv, BulkAssumption, NEW w \in Workers, Engaged(w), NEW r \in Repos, r = worker[w].repo,
         UNCHANGED <<next, finished, moved>>, unseen' \subseteq unseen, unread \subseteq unread',
         \A v \in Workers : v # w => worker'[v] = worker[v],
         worker'[w].repo = r, worker'[w].at # "queued",
         worker'[w].at = "fetching" => worker[w].at = "queued" /\ UNCHANGED tree,
         DOMAIN remote' = Repos, DOMAIN result' = Repos, DOMAIN listed' = Repos,
         \A q \in Repos : q # r => remote'[q] = remote[q] /\ result'[q] = result[q] /\ listed'[q] = listed[q],
         \A t \in Trees : RepoOf[t] # r \/ t \in moved => tree'[t] = tree[t],
         result'[r] # "none" \/ worker'[w].at \in {"fetching", "worktrees"},
         \/ UNCHANGED <<remote, tree>>
         \/ \A t \in TreesOf(r) : t \notin moved /\ tree'[t].at \in {"waiting", "done"},
         \A t \in unseen' \ unread' : RepoOf[t] = r => Followed(t)'
  PROVE  ProgressInv'
<1>1. r < next /\ ~ finished /\ next \in Int
  BY DEF ProgressInv, TakenInOrder, FinishedIsDone, RunShapes, Engaged
<1>2. \A v \in Workers : v # w /\ Engaged(v) => worker[v].repo # r
  BY DEF ProgressInv, OneWorkerEach
<1>3. RunShapes' /\ FinishedIsDone'
  BY <1>1 DEF ProgressInv, RunShapes, FinishedIsDone
<1>4. OneWorkerEach' /\ TakenInOrder'
  <2>1. \A v \in Workers : Engaged(v)' => Engaged(v) /\ worker'[v].repo = worker[v].repo
    BY DEF Engaged
  <2> QED BY <2>1 DEF ProgressInv, OneWorkerEach, TakenInOrder
<1>5. TakenIsHandled'
  <2>1. SUFFICES ASSUME NEW q \in Repos, q < next
                 PROVE  \/ result'[q] # "none"
                        \/ \E v \in Workers : /\ worker'[v].at \in {"queued", "fetching", "worktrees"}
                                              /\ worker'[v].repo = q
    BY DEF TakenIsHandled
  <2>2. CASE q = r
    BY <2>2
  <2>3. CASE q # r
    <3>1. CASE result[q] # "none"
      BY <2>3, <3>1
    <3>2. CASE result[q] = "none"
      <4>1. PICK v \in Workers : /\ worker[v].at \in {"queued", "fetching", "worktrees"}
                                 /\ worker[v].repo = q
        BY <2>1, <3>2 DEF ProgressInv, TakenIsHandled
      <4> QED BY <2>3, <4>1
    <3> QED BY <3>1, <3>2
  <2> QED BY <2>2, <2>3
<1>6. UntouchedWait'
  <2>0. ~ (r >= next)
    <3>1. r \in Int
      BY RepoNumbers
    <3> QED BY <1>1, <3>1, NotBoth, Zenon
  <2>1. ASSUME NEW t \in Trees, RepoOf[t] >= next
        PROVE  tree'[t].at = "waiting"
    <3>1. RepoOf[t] # r
      BY <2>0, <2>1, Zenon
    <3> QED BY <1>1, <2>1, <3>1 DEF ProgressInv, UntouchedWait
  <2>2. ASSUME NEW v \in Workers, worker'[v].at \in {"queued", "fetching"},
               NEW t \in TreesOf(worker'[v].repo)
        PROVE  tree'[t].at = "waiting"
    <3>0. t \in Trees /\ RepoOf[t] = worker'[v].repo
      BY <2>2 DEF TreesOf
    <3>1. CASE v = w
      BY <2>2, <3>1 DEF ProgressInv, UntouchedWait
    <3>2. CASE v # w
      <4>1. worker'[v] = worker[v] /\ Engaged(v) /\ RepoOf[t] # r
        BY <1>2, <2>2, <3>0, <3>2 DEF Engaged
      <4> QED BY <2>2, <3>0, <4>1 DEF ProgressInv, UntouchedWait
    <3> QED BY <3>1, <3>2
  <2> QED BY <2>1, <2>2 DEF UntouchedWait, TreesOf
<1>7. ReadyIsFetched'
  <2>1. SUFFICES ASSUME NEW t \in Trees,
                        t \in moved \/ tree'[t].at \in {"status again", "refs again", "merge", "verify"}
                 PROVE  remote'[RepoOf[t]] = "fetched"
    BY DEF ReadyIsFetched
  <2>2. RepoOf[t] \in Repos
    BY RepoNumbers
  <2>3. CASE RepoOf[t] # r
    BY <2>1, <2>2, <2>3 DEF ProgressInv, ReadyIsFetched
  <2>4. CASE RepoOf[t] = r
    <3>1. t \in TreesOf(r)
      BY <2>4 DEF TreesOf
    <3> QED BY <2>1, <3>1 DEF ProgressInv, ReadyIsFetched
  <2> QED BY <2>3, <2>4
<1>8. MovedLate'
  BY DEF ProgressInv, MovedLate, RunShapes
<1>9. UnseenFollowed'
  <2>1. SUFFICES ASSUME NEW t \in unseen' \ unread', RepoOf[t] # r
                 PROVE  Followed(t)'
    BY DEF UnseenFollowed
  <2>2. Followed(t) /\ t \in Trees /\ RepoOf[t] \in Repos
    BY RepoNumbers DEF ProgressInv, UnseenFollowed, RunShapes
  <2>3. \A u \in TreesOf(RepoOf[t]) : tree'[u] = tree[u]
    BY <2>1 DEF TreesOf
  <2>4. listed'[RepoOf[t]] = listed[RepoOf[t]]
    BY <2>1, <2>2
  <2>5. \A v \in Workers : worker[v].repo = RepoOf[t] => worker'[v] = worker[v]
    BY <2>1
  <2> QED BY <2>2, <2>3, <2>4, <2>5 DEF Followed, TreesOf
<1> QED BY <1>3, <1>4, <1>5, <1>6, <1>7, <1>8, <1>9 DEF ProgressInv

(* An outcome is never "none". *)
LEMMA OutcomeIsGiven ==
  ASSUME NEW fetch, NEW trees
  PROVE  RepoOutcome(fetch, trees) # "none"
<1> DEFINE canceled == "cancelled" \in {fetch} \cup trees
           failed == "failed" \in {fetch} \cup trees
           skipped == fetch = "skipped" \/ trees \cap (Skips \ NothingToPull) # {}
           succeeded == IF mode = "fetch" THEN fetch = "fetched"
                                          ELSE trees \cap {"updated", "up to date"} # {}
           idle == mode = "soft-pull" /\ trees # {} /\ trees \subseteq NothingToPull
<1>1. RepoOutcome(fetch, trees) =
        CASE (canceled \/ failed \/ skipped) /\ succeeded -> "partial"
          [] canceled /\ ~ succeeded -> "cancelled"
          [] failed /\ ~ canceled /\ ~ succeeded -> "failed"
          [] ~ canceled /\ ~ failed /\ (skipped \/ ~ (succeeded \/ idle)) -> "skipped"
          [] OTHER -> "success"
  BY DEF RepoOutcome
<1> HIDE DEF canceled, failed, skipped, succeeded, idle
<1> QED BY <1>1

(* What a worker past the worktrees knows of its repository. *)
LEMMA LaterKnows ==
  ASSUME ProgressInv, CoverInv, NEW w \in Workers,
         worker[w].at \in {"completing", "indexing", "refreshing"}
  PROVE  /\ result[worker[w].repo] # "none"
         /\ \A t \in unseen \ unread : RepoOf[t] = worker[w].repo =>
              \/ /\ listed[RepoOf[t]] = TreesOf(RepoOf[t])
                 /\ NeedsRefresh(RepoOf[t]) /\ HasFetched(RepoOf[t])
              \/ \E u \in TreesOf(RepoOf[t]) : tree[u].at = "done" /\ tree[u].result = "threw"
<1> DEFINE r == worker[w].repo
<1>1. Engaged(w) /\ r \in Repos
  BY DEF Engaged, CoverInv, Shapes
<1>2. \A v \in Workers : Engaged(v) /\ worker[v].repo = r => v = w
  BY <1>1 DEF ProgressInv, OneWorkerEach
<1>3. result[r] # "none"
  <2>1. r < next
    BY <1>1 DEF ProgressInv, TakenInOrder
  <2>2. \A v \in Workers : worker[v].at \in {"queued", "fetching", "worktrees"} => worker[v].repo # r
    BY <1>2 DEF Engaged
  <2> QED BY <1>1, <2>1, <2>2 DEF ProgressInv, TakenIsHandled
<1>4. ASSUME NEW t \in unseen \ unread, RepoOf[t] = r,
             ~ \E u \in TreesOf(r) : tree[u].at = "done" /\ tree[u].result = "threw"
      PROVE  listed[r] = TreesOf(r) /\ NeedsRefresh(r) /\ HasFetched(r)
  <2>1. t \in moved /\ t \in Trees /\ Followed(t)
    BY DEF ProgressInv, RunShapes, UnseenFollowed
  <2>2. remote[r] = "fetched"
    BY <1>4, <2>1 DEF ProgressInv, ReadyIsFetched
  <2>3. PICK v \in Workers :
          /\ worker[v].repo = r
          /\ \/ worker[v].at = "worktrees"
             \/ worker[v].at \in {"completing", "indexing", "refreshing"} /\ listed[r] = TreesOf(r)
    BY <1>4, <2>1 DEF Followed
  <2>4. v = w
    BY <1>2, <2>3 DEF Engaged
  <2> QED BY <2>2, <2>3, <2>4 DEF HasFetched, NeedsRefresh
<1> QED BY <1>3, <1>4

(* The remaining worktrees of a worker that has begun no task are untouched. *)
LEMMA WaitingUntouched ==
  ASSUME ProgressInv, NEW w \in Workers, worker[w].at \in {"queued", "fetching"},
         NEW t \in TreesOf(worker[w].repo)
  PROVE  tree[t].at = "waiting" /\ t \notin moved /\ t \notin unseen
<1>1. tree[t].at = "waiting"
  BY DEF ProgressInv, UntouchedWait
<1> QED BY <1>1 DEF ProgressInv, MovedLate, RunShapes

(* The lock comes, to a run that goes on or is canceled. *)
LEMMA SyncRepoProgress ==
  ASSUME ProgressInv, CoverInv, BulkAssumption, NEW w \in Workers, SyncRepo(w)
  PROVE  ProgressInv'
<1> DEFINE r == worker[w].repo
<1>1. worker[w].at = "queued" /\ Engaged(w) /\ r \in Repos
  BY DEF SyncRepo, Engaged, CoverInv, Shapes
<1>2. \A t \in TreesOf(r) : tree[t].at = "waiting" /\ t \notin moved /\ t \notin unseen
  BY <1>1, WaitingUntouched
<1>3. \A t \in unseen : RepoOf[t] # r
  BY <1>2 DEF ProgressInv, RunShapes, TreesOf
<1>4. UNCHANGED <<next, finished, moved, unseen, unread, remote>>
  BY DEF SyncRepo, shown
<1>5. DOMAIN remote = Repos /\ DOMAIN result = Repos /\ DOMAIN listed = Repos
  BY DEF ProgressInv, RunShapes
<1>6. CASE aborted
  <2>1. /\ Moves(w, "completing") /\ SetResults(r, TreesOf(r), "cancelled")
        /\ listed' = [listed EXCEPT ![r] = TreesOf(r)]
        /\ result' = [result EXCEPT ![r] = "cancelled"]
    BY <1>6, Zenon DEF SyncRepo, Working
  <2>2. /\ \A v \in Workers : v # w => worker'[v] = worker[v]
        /\ worker'[w].at = "completing" /\ worker'[w].repo = r
    BY <2>1, Moving
  <2>3. /\ \A t \in Trees : t \notin TreesOf(r) => tree'[t] = tree[t]
        /\ \A t \in TreesOf(r) : tree'[t].at = "done"
    BY <2>1 DEF SetResults, CoverInv, Shapes, TreesOf
  <2>4. \A t \in Trees : RepoOf[t] # r \/ t \in moved => tree'[t] = tree[t]
    BY <1>2, <2>3 DEF TreesOf
  <2>5. /\ DOMAIN result' = Repos /\ DOMAIN listed' = Repos /\ result'[r] = "cancelled"
        /\ \A q \in Repos : q # r => result'[q] = result[q] /\ listed'[q] = listed[q]
    BY <1>1, <1>5, <2>1
  <2> HIDE DEF r
  <2> QED BY <1>1, <1>2, <1>3, <1>4, <1>5, <2>2, <2>3, <2>4, <2>5, WorkerProgress DEF r
<1>7. CASE ~ aborted
  <2>1. Moves(w, "fetching") /\ UNCHANGED <<tree, listed, result>>
    BY <1>7, Zenon DEF SyncRepo, Working
  <2>2. /\ \A v \in Workers : v # w => worker'[v] = worker[v]
        /\ worker'[w].at = "fetching" /\ worker'[w].repo = r
    BY <2>1, Moving
  <2> HIDE DEF r
  <2> QED BY <1>1, <1>3, <1>4, <1>5, <2>1, <2>2, WorkerProgress DEF r
<1> QED BY <1>6, <1>7

(* The fetch ends. *)
LEMMA FetchProgress ==
  ASSUME ProgressInv, CoverInv, BulkAssumption, NEW w \in Workers, Fetch(w)
  PROVE  ProgressInv'
<1> DEFINE r == worker[w].repo
<1>1. worker[w].at = "fetching" /\ Engaged(w) /\ r \in Repos
  BY DEF Fetch, Engaged, CoverInv, Shapes
<1>2. \A t \in TreesOf(r) : tree[t].at = "waiting" /\ t \notin moved /\ t \notin unseen
  BY <1>1, WaitingUntouched
<1>3. \A t \in unseen : RepoOf[t] # r
  BY <1>2 DEF ProgressInv, RunShapes, TreesOf
<1>4. UNCHANGED <<next, finished, moved, unseen, unread, tree, listed>>
  BY DEF Fetch, shown
<1>5. DOMAIN remote = Repos /\ DOMAIN result = Repos /\ DOMAIN listed = Repos
  BY DEF ProgressInv, RunShapes
<1>6. PICK outcome : remote' = [remote EXCEPT ![r] = outcome]
  BY Zenon DEF Fetch, Working
<1>7. \/ Moves(w, "completing") /\ \E value : value # "none" /\ result' = [result EXCEPT ![r] = value]
      \/ Moves(w, "worktrees") /\ UNCHANGED result
  <2>1. \/ Moves(w, "completing") /\ result' = [result EXCEPT ![r] = "failed"]
        \/ \E o : Moves(w, "completing") /\ result' = [result EXCEPT ![r] = RepoOutcome(o, {})]
        \/ Moves(w, "worktrees") /\ UNCHANGED result
    BY Zenon DEF Fetch, Working
  <2> QED BY <2>1, OutcomeIsGiven
<1>8. \A q \in Repos : q # r => remote'[q] = remote[q]
  BY <1>6
<1>9. /\ DOMAIN remote' = Repos /\ DOMAIN result' = Repos
      /\ \A q \in Repos : q # r => result'[q] = result[q]
  BY <1>5, <1>6, <1>7
<1>10. /\ \A v \in Workers : v # w => worker'[v] = worker[v]
       /\ worker'[w].at \in {"completing", "worktrees"} /\ worker'[w].repo = r
  BY <1>7, Moving
<1>11. result'[r] # "none" \/ worker'[w].at = "worktrees"
  BY <1>1, <1>5, <1>7, Moving
<1> HIDE DEF r
<1> QED BY <1>1, <1>2, <1>3, <1>4, <1>5, <1>8, <1>9, <1>10, <1>11, WorkerProgress DEF r

(* The worktrees have drained: their results are the repository's, unless one threw. *)
LEMMA SyncEndsProgress ==
  ASSUME ProgressInv, CoverInv, BulkAssumption, NEW w \in Workers, SyncEnds(w)
  PROVE  ProgressInv'
<1> DEFINE r == worker[w].repo
           threw == \E t \in TreesOf(r) : tree[t].result = "threw"
<1>1. worker[w].at = "worktrees" /\ Engaged(w) /\ r \in Repos /\ Drained(r)
  BY DEF SyncEnds, Working, Engaged, CoverInv, Shapes
<1>2. UNCHANGED <<next, finished, moved, unseen, unread, tree, remote>>
  BY DEF SyncEnds, shown
<1>3. DOMAIN remote = Repos /\ DOMAIN result = Repos /\ DOMAIN listed = Repos
  BY DEF ProgressInv, RunShapes
<1>4. /\ Moves(w, "completing")
      /\ listed' = [listed EXCEPT ![r] = IF threw THEN {} ELSE TreesOf(r)]
      /\ result' = [result EXCEPT ![r] =
           IF threw THEN "failed" ELSE RepoOutcome(remote[r], {tree[t].result : t \in TreesOf(r)})]
  BY Zenon DEF SyncEnds, Working
<1>5. /\ \A v \in Workers : v # w => worker'[v] = worker[v]
      /\ worker'[w].at = "completing" /\ worker'[w].repo = r
  BY <1>4, Moving
<1>6. /\ DOMAIN result' = Repos /\ DOMAIN listed' = Repos
      /\ \A q \in Repos : q # r => result'[q] = result[q] /\ listed'[q] = listed[q]
  BY <1>3, <1>4
<1>7. result'[r] # "none"
  <2> DEFINE all == {tree[t].result : t \in TreesOf(r)}
  <2>1. result'[r] = IF threw THEN "failed" ELSE RepoOutcome(remote[r], all)
    BY <1>1, <1>3, <1>4
  <2> HIDE DEF all, threw
  <2> QED BY <2>1, OutcomeIsGiven
<1>8. ASSUME NEW t \in unseen' \ unread', RepoOf[t] = r
      PROVE  Followed(t)'
  <2>1. CASE threw
    <3>1. PICK u \in TreesOf(r) : tree[u].result = "threw"
      BY <2>1
    <3>2. tree'[u].at = "done" /\ tree'[u].result = "threw" /\ u \in TreesOf(RepoOf[t])
      BY <1>1, <1>2, <1>8, <3>1 DEF Drained
    <3> QED BY <3>2 DEF Followed, TreesOf
  <2>2. CASE ~ threw
    <3>1. listed'[r] = TreesOf(r)
      BY <1>1, <1>3, <1>4, <2>2
    <3> QED BY <1>5, <1>8, <3>1 DEF Followed, TreesOf
  <2> QED BY <2>1, <2>2
<1> HIDE DEF r, threw
<1> QED BY <1>1, <1>2, <1>3, <1>5, <1>6, <1>7, <1>8, WorkerProgress DEF r

(* A repository's worktrees are refreshed, or need it not. *)
LEMMA RefreshProgress ==
  ASSUME ProgressInv, CoverInv, BulkAssumption, NEW w \in Workers,
         Completes(w) \/ Indexes(w) \/ Refreshes(w)
  PROVE  ProgressInv'
<1> DEFINE r == worker[w].repo
<1>1. worker[w].at \in {"completing", "indexing", "refreshing"} /\ Engaged(w) /\ r \in Repos
  BY DEF Completes, Indexes, Refreshes, Engaged, CoverInv, Shapes
<1>2. UNCHANGED <<next, finished, moved, tree, remote, result, listed>>
  BY DEF Completes, Indexes, Refreshes, shown
<1>3. DOMAIN remote = Repos /\ DOMAIN result = Repos /\ DOMAIN listed = Repos
  BY DEF ProgressInv, RunShapes
<1>4. result[r] # "none"
  BY <1>1, LaterKnows
<1>5. unseen' \subseteq unseen /\ unread \subseteq unread'
  BY DEF Completes, Indexes, Refreshes, shown
<1>6. PICK at \in {"indexing", "refreshing", "free"} : Moves(w, at)
  <2>1. CASE Completes(w)
    BY <2>1, Zenon DEF Completes
  <2>2. CASE Indexes(w)
    BY <2>2, Zenon DEF Indexes
  <2>3. CASE Refreshes(w)
    BY <2>3, Zenon DEF Refreshes
  <2> QED BY <2>1, <2>2, <2>3
<1>7. /\ \A v \in Workers : v # w => worker'[v] = worker[v]
      /\ worker'[w].at = at /\ worker'[w].repo = r
  BY <1>6, Moving
<1>8. ASSUME NEW t \in unseen' \ unread', RepoOf[t] = r
      PROVE  Followed(t)'
  <2>1. t \in unseen \ unread /\ t \in Trees
    BY <1>5 DEF ProgressInv, RunShapes
  <2>2. ~ Refreshes(w)
    BY <1>8, <2>1 DEF Refreshes, Working, TreesOf
  <2>3. CASE \E u \in TreesOf(RepoOf[t]) : tree[u].at = "done" /\ tree[u].result = "threw"
    BY <1>2, <2>3 DEF Followed, TreesOf
  <2>4. CASE listed[r] = TreesOf(r) /\ NeedsRefresh(r) /\ HasFetched(r)
    <3>1. Moves(w, "indexing") \/ Moves(w, "refreshing")
      <4>1. CASE Completes(w)
        BY <2>4, <4>1, Zenon DEF Completes, Working
      <4>2. CASE Indexes(w)
        BY <2>4, <4>2, Zenon DEF Indexes, Working
      <4> QED BY <2>2, <4>1, <4>2
    <3>2. worker'[w].at \in {"indexing", "refreshing"}
      BY <3>1, Moving
    <3> QED BY <1>2, <1>7, <1>8, <2>4, <3>2 DEF Followed, TreesOf
  <2> QED BY <1>1, <1>8, <2>1, <2>3, <2>4, LaterKnows
<1> HIDE DEF r
<1> QED BY <1>1, <1>2, <1>3, <1>4, <1>5, <1>7, <1>8, WorkerProgress DEF r

(* A worker takes the next repository, which nobody has, or is done. *)
LEMMA TakeProgress ==
  ASSUME ProgressInv, CoverInv, BulkAssumption, NEW w \in Workers, Take(w)
  PROVE  ProgressInv'
<1>1. /\ worker[w].at = "free"
      /\ UNCHANGED <<tree, remote, result, listed, finished, moved, unseen, unread>>
  BY DEF Take, shown
<1>2. ~ finished /\ next \in Int
  BY <1>1 DEF ProgressInv, FinishedIsDone, RunShapes
<1>3. \A v \in Workers : v # w => worker'[v] = worker[v]
  BY DEF Take, Moves, CoverInv, Shapes
<1>4. \A t \in unseen \ unread : Followed(t)'
  <2>1. SUFFICES ASSUME NEW t \in unseen \ unread
                 PROVE  Followed(t)'
    OBVIOUS
  <2>2. Followed(t)
    BY DEF ProgressInv, UnseenFollowed
  <2>3. \A v \in Workers :
          worker[v].at \in {"worktrees", "completing", "indexing", "refreshing"} => worker'[v] = worker[v]
    BY <1>1, <1>3
  <2> QED BY <1>1, <2>2, <2>3 DEF Followed, TreesOf
<1>5. MovedLate' /\ ReadyIsFetched' /\ UnseenFollowed'
  BY <1>1, <1>4 DEF ProgressInv, MovedLate, ReadyIsFetched, UnseenFollowed
<1>6. next' \in Int /\ next <= next'
  BY <1>2 DEF Take, Claim
<1>7. RunShapes' /\ FinishedIsDone'
  BY <1>1, <1>2, <1>6 DEF ProgressInv, RunShapes, FinishedIsDone
<1>8. \A t \in Trees : RepoOf[t] >= next' => tree'[t].at = "waiting"
  <2>1. ASSUME NEW t \in Trees, RepoOf[t] >= next'
        PROVE  RepoOf[t] >= next
    <3>1. RepoOf[t] \in Int
      BY RepoNumbers
    <3> QED BY <1>2, <1>6, <2>1, <3>1
  <2> QED BY <1>1, <1>2, <2>1 DEF ProgressInv, UntouchedWait
<1>9. CASE aborted \/ next \notin Repos
  <2>1. worker' = [worker EXCEPT ![w].at = "done"] /\ next' \in {next, next + 1}
    BY <1>9, Zenon DEF Take, Moves
  <2>2. ~ Engaged(w)' /\ \A v \in Workers : Engaged(v)' => v # w /\ Engaged(v)
    BY <1>3, <2>1 DEF Engaged, CoverInv, Shapes
  <2>3. OneWorkerEach'
    BY <1>3, <2>2 DEF ProgressInv, OneWorkerEach
  <2>4. TakenInOrder'
    <3>1. ASSUME NEW v \in Workers, Engaged(v)'
          PROVE  worker'[v].repo < next'
      <4>1. worker'[v] = worker[v] /\ worker[v].repo < next /\ worker[v].repo \in Repos
        BY <1>3, <2>2, <3>1 DEF ProgressInv, TakenInOrder, CoverInv, Shapes, Engaged
      <4> QED BY <1>2, <1>6, <4>1, RepoNumbers
    <3> QED BY <3>1 DEF TakenInOrder
  <2>5. TakenIsHandled'
    <3>1. ASSUME NEW r \in Repos, r < next'
          PROVE  r < next
      <4>1. CASE next' = next
        BY <3>1, <4>1
      <4>2. CASE next' = next + 1 /\ next \notin Repos
        BY <1>2, <3>1, <4>2, RepoNumbers
      <4>3. aborted => next' = next
        BY <1>9, Zenon DEF Take
      <4> QED BY <1>9, <2>1, <4>1, <4>2, <4>3
    <3>2. \A v \in Workers :
            worker[v].at \in {"queued", "fetching", "worktrees"} => worker'[v] = worker[v]
      BY <1>1, <1>3
    <3> QED BY <1>1, <3>1, <3>2 DEF ProgressInv, TakenIsHandled
  <2>6. UntouchedWait'
    <3>1. ASSUME NEW v \in Workers, worker'[v].at \in {"queued", "fetching"}
          PROVE  worker'[v] = worker[v]
      BY <1>3, <2>2, <3>1 DEF Engaged
    <3> QED BY <1>1, <1>8, <3>1 DEF ProgressInv, UntouchedWait, TreesOf
  <2> QED BY <1>5, <1>7, <2>3, <2>4, <2>5, <2>6 DEF ProgressInv
<1>10. CASE ~ (aborted \/ next \notin Repos)
  <2>1. worker' = [worker EXCEPT ![w] = [at |-> "queued", repo |-> next]] /\ next' = next + 1
    BY <1>10, Zenon DEF Take, Claim
  <2>2. worker'[w] = [at |-> "queued", repo |-> next] /\ next \in Repos
    BY <1>10, <2>1 DEF CoverInv, Shapes
  <2>3. \A v \in Workers : Engaged(v)' /\ v # w =>
          /\ Engaged(v) /\ worker'[v] = worker[v]
          /\ worker[v].repo \in Int /\ worker[v].repo < next /\ worker[v].repo # next
    BY <1>2, <1>3, RepoNumbers DEF ProgressInv, TakenInOrder, CoverInv, Shapes, Engaged
  <2>4. OneWorkerEach'
    BY <2>2, <2>3 DEF ProgressInv, OneWorkerEach
  <2>5. TakenInOrder'
    BY <1>2, <2>1, <2>2, <2>3 DEF TakenInOrder
  <2>6. TakenIsHandled'
    <3>1. ASSUME NEW r \in Repos, r < next'
          PROVE  r < next \/ r = next
      BY <1>2, <2>1, <3>1, RepoNumbers
    <3>2. \A v \in Workers :
            worker[v].at \in {"queued", "fetching", "worktrees"} => worker'[v] = worker[v]
      BY <1>1, <1>3
    <3> QED BY <1>1, <2>2, <3>1, <3>2 DEF ProgressInv, TakenIsHandled
  <2>7. UntouchedWait'
    <3>1. ASSUME NEW v \in Workers, worker'[v].at \in {"queued", "fetching"}, NEW t \in TreesOf(worker'[v].repo)
          PROVE  tree'[t].at = "waiting"
      <4>1. CASE v = w
        <5>1. t \in Trees /\ RepoOf[t] = next
          BY <2>2, <3>1, <4>1 DEF TreesOf
        <5>2. RepoOf[t] >= next
          BY <1>2, <5>1
        <5> QED BY <1>1, <1>2, <5>1, <5>2 DEF ProgressInv, UntouchedWait
      <4>2. CASE v # w
        BY <1>1, <1>3, <3>1, <4>2 DEF ProgressInv, UntouchedWait
      <4> QED BY <4>1, <4>2
    <3> QED BY <1>8, <3>1 DEF UntouchedWait, TreesOf
  <2> QED BY <1>5, <1>7, <2>4, <2>5, <2>6, <2>7 DEF ProgressInv
<1> QED BY <1>9, <1>10

-----------------------------------------------------------------------------
(* The end, and everyone else *)

(* What nobody took has no outcome, and nothing of it has been touched. *)
LEMMA FinishProgress ==
  ASSUME ProgressInv, CoverInv, BulkAssumption, Finish
  PROVE  ProgressInv'
<1> DEFINE left == {r \in Repos : result[r] = "none"}
<1>1. /\ \A w \in Workers : worker[w].at = "done"
      /\ ~ finished /\ finished'
      /\ UNCHANGED <<worker, next, remote, moved, unseen, unread>>
  BY DEF Finish, shown
<1>2. /\ result' = [r \in Repos |-> IF r \in left THEN "cancelled" ELSE result[r]]
      /\ listed' = [r \in Repos |-> IF r \in left THEN TreesOf(r) ELSE listed[r]]
      /\ tree' = [t \in Trees |-> IF RepoOf[t] \in left
                                  THEN [tree[t] EXCEPT !.at = "done", !.result = "cancelled"]
                                  ELSE tree[t]]
  BY Zenon DEF Finish
<1>3. \A t \in Trees : RepoOf[t] \in left => tree[t].at = "waiting"
  <2>1. SUFFICES ASSUME NEW t \in Trees, RepoOf[t] \in left
                 PROVE  tree[t].at = "waiting"
    OBVIOUS
  <2>2. ~ (RepoOf[t] < next)
    BY <1>1, <2>1 DEF ProgressInv, TakenIsHandled
  <2>3. RepoOf[t] \in Int /\ next \in Int
    BY RepoNumbers DEF ProgressInv, RunShapes
  <2>4. RepoOf[t] >= next
    BY <2>2, <2>3
  <2> QED BY <1>1, <2>4 DEF ProgressInv, UntouchedWait
<1>4. \A t \in Trees : tree[t].at # "waiting" => tree'[t] = tree[t]
  BY <1>2, <1>3
<1>5. \A t \in Trees : tree'[t] = tree[t] \/ tree'[t].at = "done"
  BY <1>2 DEF CoverInv, Shapes
<1> HIDE DEF left
<1>6. RunShapes' /\ OneWorkerEach' /\ TakenInOrder' /\ FinishedIsDone' /\ UntouchedWait'
  <2>1. RunShapes'
    BY <1>1, <1>2 DEF ProgressInv, RunShapes
  <2> QED BY <1>1, <2>1
       DEF ProgressInv, OneWorkerEach, TakenInOrder, FinishedIsDone, UntouchedWait, Engaged
<1>7. TakenIsHandled'
  <2>1. \A r \in Repos : result'[r] # "none"
    BY <1>2 DEF left
  <2> QED BY <2>1 DEF TakenIsHandled
<1>8. ReadyIsFetched' /\ MovedLate'
  <2>1. \A t \in moved : t \in Trees /\ tree'[t] = tree[t]
    BY <1>4 DEF ProgressInv, MovedLate, RunShapes
  <2> QED BY <1>1, <1>5, <2>1 DEF ProgressInv, ReadyIsFetched, MovedLate
<1>9. UnseenFollowed'
  <2>1. SUFFICES ASSUME NEW t \in unseen \ unread
                 PROVE  Followed(t)'
    BY <1>1 DEF UnseenFollowed
  <2>2. PICK u \in TreesOf(RepoOf[t]) : tree[u].at = "done" /\ tree[u].result = "threw"
    BY <1>1 DEF ProgressInv, UnseenFollowed, Followed
  <2>3. tree'[u] = tree[u]
    BY <1>4, <2>2 DEF TreesOf
  <2> QED BY <2>2, <2>3 DEF Followed, TreesOf
<1> QED BY <1>6, <1>7, <1>8, <1>9 DEF ProgressInv

(* A step that leaves the run and its record of moves keeps the invariant. *)
LEMMA OtherProgress ==
  ASSUME ProgressInv,
         UNCHANGED <<next, worker, tree, remote, result, listed, finished, moved, unseen, unread>>
  PROVE  ProgressInv'
<1>1. RunShapes' /\ OneWorkerEach' /\ TakenInOrder' /\ TakenIsHandled' /\ UntouchedWait'
  BY DEF ProgressInv, RunShapes, OneWorkerEach, TakenInOrder, TakenIsHandled, UntouchedWait, Engaged, TreesOf
<1>2. FinishedIsDone' /\ ReadyIsFetched' /\ MovedLate'
  BY DEF ProgressInv, FinishedIsDone, ReadyIsFetched, MovedLate
<1>3. UnseenFollowed'
  BY DEF ProgressInv, UnseenFollowed, Followed, TreesOf
<1> QED BY <1>1, <1>2, <1>3 DEF ProgressInv

(* Every step keeps the invariant. *)
LEMMA ProgressNext ==
  ASSUME ProgressInv, CoverInv, BulkAssumption, [Next]_vars
  PROVE  ProgressInv'
<1>1. CASE UNCHANGED vars
  BY <1>1, OtherProgress DEF vars, run, shown
<1>2. ASSUME NEW w \in Workers, WorkerStep(w)
      PROVE  ProgressInv'
  BY <1>2, TakeProgress, SyncRepoProgress, FetchProgress, SyncEndsProgress, RefreshProgress DEF WorkerStep
<1>3. ASSUME NEW t \in Trees, Outsider(t)
      PROVE  ProgressInv'
  BY <1>3, OtherProgress DEF Outsider, run, shown
<1>4. CASE Cancel \/ \E u \in Users, k \in Places : UserEnters(u, k) \/ UserLeaves(u, k)
  BY <1>4, OtherProgress DEF Cancel, UserEnters, UserLeaves, run, shown
<1> QED BY <1>1, <1>2, <1>3, <1>4, TaskStepProgress, FinishProgress DEF Next, Places

(* The invariant of a run's progress. *)
LEMMA ProgressInvariant == Spec => []ProgressInv
<1>1. Init => ProgressInv
  BY ProgressInit, BulkAssumption
<1>2. CoverInv /\ ProgressInv /\ [Next]_vars => ProgressInv'
  BY ProgressNext, BulkAssumption
<1> QED BY <1>1, <1>2, CoverInvariant, PTL DEF Spec

-----------------------------------------------------------------------------
(* What the run reports *)

(* Worktrees with nothing to pull do not decide a repository's outcome, if there is *)
(* any other.                                                                       *)
LEMMA IdleIsNeutral ==
  ASSUME NEW fetch, NEW trees, mode = "soft-pull", trees \ NothingToPull # {}
  PROVE  RepoOutcome(fetch, trees) = RepoOutcome(fetch, trees \ NothingToPull)
<1> DEFINE rest == trees \ NothingToPull
<1>1. "cancelled" \in {fetch} \cup trees <=> "cancelled" \in {fetch} \cup rest
  BY DEF NothingToPull
<1>2. "failed" \in {fetch} \cup trees <=> "failed" \in {fetch} \cup rest
  BY DEF NothingToPull
<1>3. trees \cap (Skips \ NothingToPull) # {} <=> rest \cap (Skips \ NothingToPull) # {}
  OBVIOUS
<1>4. trees \cap {"updated", "up to date"} # {} <=> rest \cap {"updated", "up to date"} # {}
  BY DEF NothingToPull
<1>5. ~ (trees \subseteq NothingToPull) /\ ~ (rest \subseteq NothingToPull)
  OBVIOUS
<1> HIDE DEF rest
<1>6. RepoOutcome(fetch, trees) = RepoOutcome(fetch, rest)
  BY <1>1, <1>2, <1>3, <1>4, <1>5 DEF RepoOutcome
<1> QED BY <1>6 DEF rest

(* Whatever is canceled or fails, and whenever: a worktree reported as canceled,     *)
(* skipped or up to date has not been moved, and worktrees with nothing to pull turn *)
(* no repository's outcome.                                                         *)
THEOREM ReportsOnlyWhatItDid == Spec => []ReportedUntouched
<1>1. ASSUME ProgressInv
      PROVE  ReportedUntouched
  <2>1. \A t \in moved : tree[t].at = "done" => tree[t].result \in {"updated", "failed"}
    BY <1>1 DEF ProgressInv, MovedLate
  <2>2. ASSUME NEW r \in Repos
        PROVE  LET others == {tree[t].result : t \in {u \in listed[r] : tree[u].result \notin {"nothing", "ahead"}}}
               IN mode = "soft-pull" /\ others # {}
                    => RepoOutcome(remote[r], Results(r)) = RepoOutcome(remote[r], others)
    <3> DEFINE others == {tree[t].result : t \in {u \in listed[r] : tree[u].result \notin {"nothing", "ahead"}}}
               all == Results(r)
    <3>1. others = all \ NothingToPull
      BY DEF Results, NothingToPull
    <3> HIDE DEF others, all
    <3>2. mode = "soft-pull" /\ others # {} => RepoOutcome(remote[r], all) = RepoOutcome(remote[r], others)
      BY <3>1, IdleIsNeutral
    <3> QED BY <3>2 DEF others, all
  <2> QED BY <2>1, <2>2 DEF ReportedUntouched
<1> QED BY <1>1, ProgressInvariant, PTL

(* However the run ends, each branch it moved was looked at again since, verified or *)
(* not, unless its repository lost its results to a task that threw: what that look *)
(* could not read is all that may still show the old commit.                        *)
THEOREM FollowsUpWhatItMoved == Spec => []MovedIsFollowedUp
<1>1. ASSUME ProgressInv
      PROVE  MovedIsFollowedUp
  <2>1. SUFFICES ASSUME finished, NEW t \in unseen \ unread
                 PROVE  \E u \in TreesOf(RepoOf[t]) : tree[u].result = "threw"
    BY DEF MovedIsFollowedUp
  <2>2. \A w \in Workers : worker[w].at = "done"
    BY <1>1, <2>1 DEF ProgressInv, FinishedIsDone
  <2> QED BY <1>1, <2>2 DEF ProgressInv, UnseenFollowed, Followed
<1> QED BY <1>1, ProgressInvariant, PTL

-----------------------------------------------------------------------------
(* What a canceled run may still do in a step. *)
StartsNothing ==
  aborted =>
    /\ \A t \in Trees : tree'[t].at \in {"status", "merge"} => tree[t].at = tree'[t].at
    /\ \A w \in Workers : worker'[w].at = "fetching" => worker[w].at = "fetching"

(* A canceled run's steps end tasks, or take those on that have begun. *)
LEMMA CanceledSteps ==
  ASSUME CoverInv, [Next]_vars
  PROVE  StartsNothing
<1>1. CASE UNCHANGED <<tree, worker>>
  BY <1>1 DEF StartsNothing
<1>2. ASSUME NEW t \in Trees, TreeStep(t), aborted
      PROVE  StartsNothing
  <2>1. UNCHANGED worker
    BY <1>2 DEF TreeStep, Accept, Begin, ReadStatus, ReadRefs, InspectionFails, Merge, Verify, TreeUnchanged
  <2>2. \/ \E value : Ends(t, value)
        \/ tree' = [tree EXCEPT ![t].now = [NoFacts EXCEPT !.dirty = dirty[t]],
                                ![t].at = IF @ = "status" THEN "refs" ELSE "refs again"]
        \/ tree' = [tree EXCEPT ![t].at = "verify"]
    BY <1>2, Zenon DEF TreeStep, Accept, Begin, CanceledNow, ReadStatus, ReadRefs, InspectionFails, Merge, Verify
  <2>3. \A u \in Trees : u # t => tree'[u] = tree[u]
    BY <2>2 DEF Ends, CoverInv, Shapes
  <2>4. CASE \E value : Ends(t, value)
    <3>1. PICK value : tree'[t] = [NewTask EXCEPT !.at = "done", !.result = value]
      BY <2>4 DEF Ends, CoverInv, Shapes
    <3>2. tree'[t].at = "done"
      BY <3>1 DEF NewTask
    <3> QED BY <2>1, <2>3, <3>2 DEF StartsNothing
  <2>5. CASE tree' = [tree EXCEPT ![t].now = [NoFacts EXCEPT !.dirty = dirty[t]],
                                  ![t].at = IF @ = "status" THEN "refs" ELSE "refs again"]
    <3>1. tree'[t].at = IF tree[t].at = "status" THEN "refs" ELSE "refs again"
      BY <2>5 DEF CoverInv, Shapes
    <3> QED BY <2>1, <2>3, <3>1 DEF StartsNothing
  <2>6. CASE tree' = [tree EXCEPT ![t].at = "verify"]
    <3>1. tree'[t].at = "verify"
      BY <2>6 DEF CoverInv, Shapes
    <3> QED BY <2>1, <2>3, <3>1 DEF StartsNothing
  <2> QED BY <2>2, <2>4, <2>5, <2>6
<1>3. ASSUME NEW w \in Workers, WorkerStep(w), aborted
      PROVE  StartsNothing
  <2>1. \A t \in Trees : tree'[t] = tree[t] \/ tree'[t].at = "done"
    <3>1. UNCHANGED tree \/ \E r, value : SetResults(r, TreesOf(r), value)
      BY <1>3, Zenon DEF WorkerStep, Take, SyncRepo, Fetch, SyncEnds, Completes, Indexes, Refreshes
    <3> QED BY <3>1, Ending
  <2>2. \/ worker' = [worker EXCEPT ![w].at = "done"]
        \/ \E at \in {"completing", "worktrees", "indexing", "refreshing", "free"} : Moves(w, at)
    <3>1. CASE Take(w)
      BY <1>3, <3>1, Zenon DEF Take, Moves
    <3>2. CASE SyncRepo(w)
      BY <1>3, <3>2, Zenon DEF SyncRepo
    <3>3. CASE Fetch(w)
      BY <3>3, Zenon DEF Fetch
    <3>4. CASE SyncEnds(w)
      BY <3>4, Zenon DEF SyncEnds
    <3>5. CASE Completes(w)
      BY <3>5, Zenon DEF Completes
    <3>6. CASE Indexes(w)
      BY <3>6, Zenon DEF Indexes
    <3>7. CASE Refreshes(w)
      BY <3>7, Zenon DEF Refreshes
    <3> QED BY <1>3, <3>1, <3>2, <3>3, <3>4, <3>5, <3>6, <3>7 DEF WorkerStep
  <2>3. \A v \in Workers : worker'[v] = worker[v] \/ worker'[v].at # "fetching"
    BY <2>2 DEF Moves, CoverInv, Shapes
  <2> QED BY <2>1, <2>3 DEF StartsNothing
<1>4. CASE Finish
  <2>1. UNCHANGED worker
    BY <1>4 DEF Finish
  <2>2. PICK left : tree' = [t \in Trees |-> IF RepoOf[t] \in left
                               THEN [tree[t] EXCEPT !.at = "done", !.result = "cancelled"]
                               ELSE tree[t]]
    BY <1>4, Zenon DEF Finish
  <2>3. \A t \in Trees : tree'[t] = tree[t] \/ tree'[t].at = "done"
    BY <2>2 DEF CoverInv, Shapes
  <2> QED BY <2>1, <2>3 DEF StartsNothing
<1>5. ASSUME NEW t \in Trees, Outsider(t)
      PROVE  UNCHANGED <<tree, worker>>
  BY <1>5 DEF Outsider, run
<1>6. ASSUME Cancel \/ \E u \in Users, k \in Places : UserEnters(u, k) \/ UserLeaves(u, k)
      PROVE  UNCHANGED <<tree, worker>>
  BY <1>6 DEF Cancel, UserEnters, UserLeaves, run
<1>7. CASE UNCHANGED vars
  BY <1>1, <1>7 DEF vars, run
<1>8. CASE ~ aborted
  BY <1>8 DEF StartsNothing
<1> QED BY <1>1, <1>2, <1>3, <1>4, <1>5, <1>6, <1>7, <1>8 DEF Next, Places

(* From the cancel on, no inspection, merge or fetch begins, although tasks wait for *)
(* locks then and go on when these come.                                            *)
THEOREM StopsWhenCanceled == Spec => CancelStopsWork
<1>1. CoverInv /\ [Next]_vars => [StartsNothing]_vars
  BY CanceledSteps
<1>2. CancelStopsWork <=> [][StartsNothing]_vars
  BY PTL DEF CancelStopsWork, StartsNothing
<1> QED BY <1>1, <1>2, CoverInvariant, PTL DEF Spec
=============================================================================
