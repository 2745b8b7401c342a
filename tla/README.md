# Specifications of PwrGit

PwrGit is an Electron client for Git: it shows many repositories and their
worktrees at once, to one user whose coding agents, editors and terminals work
in the same folders. These TLA+ modules model the part of its main process where
that is hard: operations, reads and background work that meet in one repository,
with failures, cancellation and outsiders at any point, changes of many steps that
act on what the user saw a while ago, and an application that may quit or update
in the middle.

The reference is the source under `src/apps/desktop/src/main/`; file names below
are relative to it. `PROJECT.json` maps every definition that models code to its
lines. Contents:

1. The system: components, state, operations, interactions, what is hard
2. Modules and how they correspond to the code
3. Runs: what is checked, within which bounds, and what it shows
4. Fairness
5. Proofs
6. Findings
7. What is not modelled, and the plan

## 1. The system

The main process is one JavaScript thread. Between two `await`s nothing else of
it runs; at every `await` anything may. Git runs in child processes, which
overlap. Windows (renderers) call handlers over a command bus. Nobody can lock
out the outsiders: a terminal or an agent may commit, edit, stash, fetch or
`git worktree lock` between any two commands that PwrGit runs.

| Component | State it keeps | Operations | Correct when |
|---|---|---|---|
| Operation queue (`git/worktree-operation-queue.ts`) | `tails`: the last promise of each scope key; the scopes of the running code, in AsyncLocalStorage | `run`, `runRepository`, `runRepositoryWorktree` | one operation per key at a time, in order of calling; no cycle of waits; nobody refused because of a scope already released; no entry left behind |
| Worktree states (`git/worktree-state.ts`) | snapshots in SQLite; `pendingComputes`, `inFlight`, `removalLocks` | refresh after an operation, poll, lock for removal | a refresh that Git answers shows the state after its operation though probes are shared, and one that Git fails what was stored when it was asked, or newer; no probe's Git process is in a folder being removed; removals end |
| Worktree lifecycle (`git/worktree-lifecycle-handlers.ts`) | the batch being removed | `worktree:remove` and others | the folder removed is one the user may remove, now |
| Automatic remote checks (`git/remote-tip-checker.ts`) | batches, owners of keys, running check, generations, fresh rounds and answers | request for a selection or hover, report of what is visible, yield to an operation, stop | one check per repository; nothing learnt before an operation is used after it; every request settles, with an answer about the branch checked out |
| Pull (`pullFastForward` in `git/git-service.ts`, `runPull` in `git/remote-handlers.ts`, `git/pull-watchdog.ts`) | the step of the pull, its stash's commit, two abort signals | fetch, stash, merge, reapply, roll back | uncommitted work is never lost, nobody else's stash is applied, the outcome reported is so, it ends although any command may wedge |
| Fetch all, Try pull all (`git/bulk-sync.ts`, `git/bulk-sync-handlers.ts`, `util/map-limit.ts`) | the index of the next repository, results, the signal | sync a repository, inspect and move its checkouts, cancel | a branch moves only to the commit that was reviewed; a lock outlives every task under it; what moved is refreshed, or its refresh tried; reports are so |
| Quit (`bounded-shutdown.ts`, `quit-retry.ts`, `system-shutdown.ts`, wired in `index.ts`; the install in `auto-updater.ts`) | the drain: flush, budget, who owns the quit; Electron's `is_quitting_` | before-quit, hurry, flush for an update, resume, OS shutdown | every quit is Electron's own (`will-quit`, `quit`), after the flush, in time |
| Stashes (`git/stash-removal.ts`, `git/stash-service.ts`, `git/stash-handlers.ts`) | Git's files: `refs/stash`, `packed-refs`, the stash reflog, and their lock files | drop and pop by commit | nothing but the entry asked for goes, whatever fails or dies between two files; no lock of another process is deleted |
| History edits (`git/rebase-assistant.ts`, `git/rebase-handlers.ts`) | one-shot approvals | check in a copy, apply, roll back | the branch has the program that was checked or is as it was; one rewrite per check |
| Branches and maintenance (`git/repository-maintenance.ts`, `git/branch-lifecycle.ts`, `git/maintenance-handlers.ts`) | the batch, its receipt | review, delete finished branches in chunks, cancel, restore | a branch goes only at the tip that was reviewed and while the reason holds; the receipt is what happened |
| Removing repositories (`git/repo-removal.ts`, `packages/shared/src/repo-removal.ts`) | the user's answers, the steps | review, judge again, remove worktree by worktree, then the main checkout | only what the answers give up is lost; the main checkout does not go before what needs it |
| Updates (`auto-updater.ts`) | the status; the held, the active and the superseding download; Squirrel.Mac's stage; install on quit | check, download, replace, cancel, stage, restart | an offer names a build that can be installed; a failed replacement gives the older offer back |
| Repository index, visible refresh, prune, reclaim, deletion of trees | rows in SQLite, rounds under way, previews | rescan, poll, preview and apply | stale previews and rows of vanished folders do no harm |
| Interrupted operations, staging | Git's own state | continue, abort, stage hunks | what the user confirmed is what is acted on, though the repository moved meanwhile |
| Managed Git, clone and fork | staging folders | download, activate, cancel | a canceled or failed step leaves nothing half-made in use |
| Forges, pull requests, people, local agents, agent access, MCP server, profiles, diagnostics, renderer | caches, sessions, settings, windows | queries and presentation mostly | — |

How they interact: handlers take the operation queue's locks, repository before
worktree; status probes take the worktree's lock as well, so that they read
before or after an operation, never during it; a removal drains the probes
*before* it queues for the lock, since a probe queued behind it could not end;
bulk runs hold the repository's lock and take the checkouts' locks inside it;
automatic checks take the repository's lock as a tracked operation would and
give way to tracked operations; Pull holds the repository's and the worktree's.

What is hard to test in all this is listed in `PROJECT.json` under `hazards`,
each with its line and the properties that would catch it. In short: order and
nesting of locks; work shared between callers of different age; continuations
that use what was read before an `await`; freshness that outlives what it was
about; failures, cancellation and timeouts in each of a pull's steps, the
recovery's own among them; tasks that outlive the worker or the lock they run
under; microtasks that run inside a native call; two files that must change
together; approvals, reviews and answers that are older than what they are used
on; a receipt that must tell what happened when an answer was lost; a cache that
another release has emptied.

## 2. Modules

| Module | Models | Used by |
|---|---|---|
| `FifoLock` | abstract: a line of actors per key, the head holds it | `OperationQueue` (refines it), `StatusProbes`, `BulkSync` (built on it) |
| `OperationQueue` | `runScoped` in detail | `MCOperationQueue`, `OperationQueueProofs` |
| `StatusProbes` | probes, refreshing callers and polls, removal batches | `MCStatusProbes`, `StatusProbesProofs` |
| `RemoteTipChecker` | automatic checks in two lanes, with the operations that supersede them | `MCRemoteTipChecker`, `RemoteTipCheckerProofs` |
| `PullFastForward` | Pull with stash, rollback and watchdogs | `MCPullFastForward`, `PullFastForwardProofs` |
| `BulkSync` | Fetch all and Try pull all | `MCBulkSync`, `BulkSyncProofs` |
| `Quit` | the drain, the retry, the OS shutdown, the install's quit, Electron's quit machine | `MCQuit`, `QuitProofs` |
| `StashRemoval` | dropping and popping a stash on Git's ref files | `MCChanges`, `ChangesProofs` |
| `HistoryEdit` | checking and applying a rewrite of the newest commits | `MCChanges`, `ChangesProofs` |
| `BranchCleanup` | deleting finished branches in a batch, restoring them | `MCChanges`, `ChangesProofs` |
| `RepoRemoval` | the removal of a repository with its worktrees | `MCChanges`, `RepoRemovalProofs` |
| `Updates` | checking, downloading, replacing, staging and installing | `MCChanges`, `ChangesProofs` |

Composition goes through `FifoLock`. The components that take locks do not see
the promise chain; they see a line per key, and the proof and the check that
the chain refines that line (`ImplementsFifoLock`, `FifoOrder`) make it
legitimate. `ChangesProofs` is four modules' proofs in one file, a part for each.

Each module's operators carry the names of the functions and fields they model
where TLA+ allows it. An operator marked `bug:` is not used by the module: it is
a plausible mistake in the code, against which the properties are tested
(`PROJECT.json`, `mutants`).

**OperationQueue.** One member of `Calls` is one call of `runScoped`. `Enqueue`
and `Refuse` are its synchronous beginning: the live scopes of the calling
context are looked up, reentry and worktree-then-repository refused, and
otherwise the call becomes the tail of its key. `Start` is the continuation
after `await previous`, `Finish` the end of the operation and the `finally`
block, which deletes the map's entry if it is still the call's own. A call may
be made by a handler, awaited by the operation it is made in, or by code that
outlives that operation (`awaited = FALSE`): that is what the `released` flag is
for. `line` is a history variable for the refinement. `Asks` says what code
running under a key asks for; `ScopeAssumption` excludes only what no caller in
the repository does and the queue would not refuse (repository under another
repository, worktree under another worktree).

**StatusProbes.** `caller` goes from an operation under the worktree's lock
(`Operate`, which changes `version`) or from a poll to a refresh, which joins
`pendingComputes` or starts a probe. `probe` queues for the lock and reads; then it
stores what Git reported and answers with it (`ProbeStores`), or, when `git status`
or `rev-list` fails or there is no row or folder, leaves the store as it is and
answers from it (`ProbeFails`); both end with the cleanup of the maps. `cached` is
the store; a caller notes what it held when it asked (`known`) and whether its
answer was read from Git (`read`). `removal` takes `removalLocks` on its whole
batch, drains `inFlight` of the next worktree, queues, lists, decides, deletes;
whether the folder goes, whether Git then unregisters it, and whether the closing
refresh succeeds are three choices. The lines of `FifoLock` are the locks.

**RemoteTipChecker.** `Select` is a request in the direct lane, `Report` the set
of visible worktrees in the background lane. An entry belongs to a batch; the
batch debounces, queues for a slot of its lane, waits for the repository's
running check, checks, answers. `TrackedOperation` is `yieldAutoChecks`; `Pull`
is what `runPull` does instead. `Expires` stands for both 60-second limits.

**PullFastForward.** One action per Git command and outcome. `pull.at` is the
command about to run; `SignalOf` says which of the two abort signals it listens
to; `Killed` is a command stopped by its signal after all, some or none of its
effect. Work is a set of edits, told apart by what a rollback does to them:
tracked or new, in the way of the upstream's changes or not. Outsiders edit,
commit, switch branches, and push or drop stashes on the stack that all
worktrees of a repository share.

**BulkSync.** `Take` claims the next index; `SyncRepo`, `Fetch`, `SyncEnds`,
`Completes`, `Indexes`, `Refreshes` are a worker's steps under the repository's
lock and after it; `Accept` … `Verify` those of one checkout: status and refs,
twice, the merge of the reviewed commit, and the verification, which may fail
though the branch has moved. A checkout with conflicts or midway in an operation is
skipped as "unfinished". `unseen` is what has moved since it was last shown. The
refresh of it may fail for any part, which the handler only logs: that part is
`unread`. `mapLimit` is `Claim`, `Busy` and `Drained`.

**Quit.** Microtasks, immediates, timers and native events are told apart,
because the defect that `quit-retry.ts` describes is one of their order. `micro`
must be empty before a task starts (`Idle`); `frame` is `Browser::Quit` called
natively, with its before-quit event emitted and `is_quitting_` not yet
assigned. `drain` is the closure of `createQuitDrain`. Electron's part
(`AppQuit`, `EnterFrame`, `FrameReturns`, `Proceed`, `WindowsClosed`) is external
and follows what `quit-retry.ts` and `test-support/electron-quit-model.ts` state
of it.

**StashRemoval.** The state is files: the log (a set of entries in order of
pushing), the loose ref, the packed line, and who created each lock file.
`removal.at` is the file operation of `removeStashByHash` that is next, and each
of them may fail; `AppCrashes` may come between any two. Others push, store, drop
and pack with Git's own protocol of locks, step by step, and delete lock files
that nobody owns any more. `torn` remembers the few moments after which ref and
log cannot be expected to agree (see `RefFollowsLog`): a crash between two files,
a rollback that fails, and `git pack-refs` unlinking the loose ref when the line
it packed is no longer there or no longer the ref's. With two Git processes
beside the removal the last needs no rollback; the run has one such process, and it
was the attempt to prove `RefFollowsLog` that showed it.

**HistoryEdit.** A request goes through the reads of `preflightRebase` one by one
(status, source, source again), in `rebase:check` without a lock, in
`rebase:apply` under the worktree's line; then `rewriteHistory`: reset, one
commit at a time, the comparison of trees, or the rollback. A commit is the set
of changes it makes, so the tree of a tip is their union. Outsiders edit, commit,
switch and undo at any moment; `meddled` is set when one acts where the program
does not look any more before its reset.

**BranchCleanup.** A branch's tip is the reviewed one, another, or none.
`cleanup.at` follows the batch: the review again, ancestry once more, who holds
which branch, the sections, and per chunk the listing, the transaction, the
retries and the sections' removal. A transaction may be refused, fail, or land
with its answer lost. `late` holds what changed behind the last look at it.

**RepoRemoval.** The decision rules of `packages/shared` are operators on views
(what a review found of one checkout, and when: `upTo`); `Judges` applies them to
the fresh review with the dialog's answers. Then one action per step and outcome
of `executeRepoRemoval`, while agents work, publish, lock, add worktrees, and
volumes come and go. The review lists once and then looks at each of what it listed;
`todo` is what it still has to look at, and later what is still to go.

**Updates.** One action per event of electron-updater or Squirrel.Mac and per
`await` of `auto-updater.ts`. `native` is what those two have: the file in the
cache, the installer electron-updater names, what Squirrel.Mac fetches and has
staged. `held`, `superseding`, `stage`, `check` (with its `activeDownload`) and
`channelOf` are the module's variables. The quit that an install asks for is
`Quit`'s `InstallUpdate`.

**MCChanges** checks these five in one run. They share no state and are used
one at a time by a user, so a behaviour is one of them, named by `part`; the
others' variables keep their initial values.

## 3. Runs

| Run | Properties | Bounds | States |
|---|---|---|---|
| `operation_queue` | `MutualExclusion` `NoWaitCycle` `TailsAreLive` `RefusedOnlyByRunning` `FifoOrder` | 1 repository, 1 worktree, 4 calls | 282 209 |
| `status_probes` | `NoProbeInRemoval` `RefreshIsFresh` | 2 worktrees, 2 callers, 2 probes, 2 removals of both worktrees in opposite orders, 1 change per checkout | 1 696 197 |
| `status_probes_live` | `NobodyWaitsForEver` | the same with 1 caller that polls, one worktree that may be locked | 178 363 |
| `remote_tip_checker` | `OneCheckPerRepository` `NothingStaleReused` `OnlySupersededForCause` `AnsweredForTheBranch` `EveryRequestSettles` | 1 repository, 2 worktrees, 2 requests, 1 operation, 1 pull, 1 branch switch | 75 496 |
| `pull` | `SavedWorkSurvives` `NoForeignWork` `OutcomeIsTrue` `PullEnds` | 3 kinds of work, 1 sibling, 2 branches, 2 acts of outsiders | 530 136 |
| `bulk_sync` | `LocksCoverTasks` `ReportedUntouched` `MovedIsFollowedUp` `MovesOnlyToReviewed` `CancelStopsWork` | 1 repository with 2 worktrees at a time, 1 user, 2 upstream commits, 2 acts of outsiders | 738 557 |
| `bulk_sync_workers` | `RunEnds` | 2 workers, 2 repositories, 1 user, an idle worktree | 545 928 |
| `quit` | `NoOrphan` `NeverForced` `FlushedFirst` `YieldsToUpdater` `QuitEnds` | 3 platforms; the program's own delays in half seconds; any number of requests | 48 044 |
| `changes` | `HarmsNoOther` `RefFollowsLog` `AnswerIsTrue` (stashes); `EditedAsChecked` `OutsideWorkSurvives` `OneRewritePerCheck` (history); `DeletesOnlyReviewed` `ReceiptIsTrue` (branches); `RemovedAsAnswered` `ProbesStayOut` (repository); `OfferedIsInstalled` `DownloadsSettle` (updates) | see below | 1 827 818 |
| `status_probes_listing` | `ListingNoOlderThanTheWait`, violated | finding 1 | |
| `remote_tip_checker_pull` | `OperationsSupersede`, violated | finding 2 | |
| `pull_reset` | `NeverResetsUnsavedWork`, violated | finding 3 | |

Every run but `quit` is bounded by a number of actors or acts, all of them
CONSTANTS: a behaviour then simply stops, so deadlock is not an error in these
models (`CHECK_DEADLOCK FALSE`); that nobody is stuck before is what the
liveness properties say.

Every safety and action property of these runs is also proved for every value of
the constants (section 5); what the bounds must be enough for is the liveness, and
that the model is exercised. Why they are enough:

- *Queue.* A wait cycle needs two nested calls and two outer ones: four calls.
  Keys interact only through nesting, repository over worktree; a second
  worktree (799 000 states, also without error) adds no new wait, since nothing
  nests worktrees.
- *Probes.* Two removals are the smallest number that can meet in opposite
  orders; two callers the smallest that can share a probe and differ in what
  they must see. Liveness is checked with one caller, as two only repeat it.
- *Remote checks.* All state is per repository, so one is enough. Two requests
  are the ones that join, replace or overtake each other across the two lanes;
  three (251 696 states, without a branch switch) show nothing more. A branch
  once left is not returned to: the program keys on the branch's name, and an
  answer about a branch returned to is again about it.
- *Pull.* One pull; each of its commands may succeed, fail, wedge or be killed.
  The kinds of work are those a rollback treats differently. Two acts of
  outsiders are enough to stash and drop, or to commit and edit, between any
  two commands.
- *Bulk.* One repository with two worktrees at work together covers tasks that
  outlive one that fails; two repositories and workers cover claims, results
  and the end. The two questions share no state but the worker's step, so they
  are asked separately.
- *Quit.* Unbounded but for the delays, which are those of the program: 10 s,
  2 s, 3 s and 0.5 s as 20, 4, 6 and 1 ticks.
- *Stashes* (`changes`). 2 entries pushed (one removed and one that may be
  harmed, or the same commit twice), 2 removals, 1 other Git process besides
  `git stash drop`, 1 crash. The module alone passes with 3 entries, too
  (835 000 states).
- *History* (`changes`). 2 requests, which are what it takes to use an approval
  twice; 2 branches at the same commit; 2 commits to edit, the smallest selection
  the program accepts; 2 approvals; 1 act of an outsider, at any moment.
- *Branches* (`changes`). 3 branches in chunks of 2, so that there is a later
  chunk and one with company; 2 acts of outsiders, of six kinds.
- *Repository* (`changes`). 2 linked worktrees and the main checkout, 2 acts of
  agents or volumes, any answers, 1 removal. The module alone passes with 3 acts
  (1.2 million states).
- *Updates* (`changes`). 3 platforms, 2 tracks, 2 releases (the replaced one and
  its replacement), 3 checks, 2 changes of the track.

`changes` treats two values of each of the sets of interchangeable entries,
requests, branches and worktrees as symmetric (`Swap`); none of its properties is
a liveness property, for which that would be unsound.

What the passing runs show, beyond single steps:

- *Queue*: with calls nested, detached or both, nobody waits in a circle; a
  refusal always has a running operation of one's own ancestry to blame; the
  promise chain is a fair FIFO lock.
- *Probes*: although callers share probes and a batch locks several worktrees
  before it queues for any, no Git process is left in a folder that a removal
  has drained, and no removal and poll wait for each other. An answer that Git gave
  is never older than the question, whoever began the probe; one from the store,
  given when Git fails, is never older than the store was at the question.
- *Remote checks*: neither a cached answer, nor the freshness of a round, nor a
  batch under way carries anything across an operation; a selection loses its
  check only for an operation, a branch switch or the end of the application.
- *Pull*: whatever fails, wedges or is killed, in the rollback too, and whatever
  is stashed or dropped by others meanwhile, the work that Pull saw is in the
  checkout or in a stash (unless somebody else committed or dropped it), and a
  pull nobody interfered with reports what happened.
- *Bulk*: between review and merge the upstream may be fetched again, the
  branch committed to, the checkout edited: the branch moves to the commit
  reviewed, or not at all. A canceled run starts nothing more, even what was
  waiting for a lock. Every branch that moved is shown by a later refresh, or that
  refresh was tried and failed, also when the checkout beside it fails or the move
  could not be verified.
- *Quit*: a resumed quit never runs inside the one it resumes; a shutdown of
  the operating system at any moment of another quit's or an update's flush
  leaves it the time to end properly; nothing overtakes an update that took
  over, and no flush keeps the application open.

- *Stashes*: with Git storing, dropping and packing beside it, any file
  operation failing and the application dying between two, a removal takes no
  entry but its own along, deletes no foreign lock, and says what it did.
- *History*: what is applied is what was checked, on the branch on which it was
  checked, once; whatever fails before the end puts the branch back.
- *Branches*: neither a branch that moved, nor one checked out meanwhile, nor
  one that only a HEAD of the past contained is deleted, unless after the last
  look; the receipt stays right when a whole chunk is refused because of one.
- *Repository*: the answers of an old dialog never remove what the fresh review
  would not let them remove, and the main checkout outlasts what failed or stays.
- *Updates*: on three platforms, through replacements, failures, cancels and
  changes of the track, an offer names what is there to be installed, and a
  quit installs nothing else.

For every property at least one mutant of a mapped definition, a plausible bug,
is known to break it under the same configuration.

## 4. Fairness

Weak fairness of each actor's steps: promises that settle resume their
awaiters, queues and timers of Node move on, and a Git command that is not
wedged ends. Nothing makes a user, an outsider or a cancel act.

- `PullFastForward`: a wedged command has no fair step; only the watchdogs'
  timers (`Timeout`) do. That `PullEnds` holds shows that they suffice.
- `RemoteTipChecker`: a check ends, as its signal aborts it after 12 s.
- `FifoLock`: every holder leaves. `BulkSync` assumes it of users' operations;
  for `OperationQueue` it is shown (`FifoOrder`).
- `Quit`: weak fairness for the rest of a running task and its microtasks,
  strong fairness for tasks that are due. Every event's task disables the others
  for its while, and a user may press ⌘Q for ever; libuv's loop comes round to
  each phase between native events. Nothing makes `stop` settle: the deadline
  alone must end the flush.

The five modules of `changes` state safety only, under no fairness: their
operations are user commands, each a bounded sequence of awaited steps without a
lock that anybody else could hold for ever (the locks they take are the operation
queue's, whose progress `FifoOrder` states), so nothing would be learnt from
liveness but that a sequence ends. That a canceled or failed download leaves no
status that is never settled is the state predicate `StatusSettles` within
`DownloadsSettle`.

## 5. Proofs

Checked by TLAPS, for every value of the constants: every invariant and every
action property of the passing runs, and what a prover without rules for fairness
can say of the others. Each proof goes by an inductive invariant, a conjunction of
the named parts below; several were checked by TLC before they were proved.

The assumptions are those of the modules (`ASSUME`), which TLC evaluates in every
run. Most only name a bound or a type; a few are there for the proofs alone, and say
what the program takes for granted: that callers, probes and removals are
different things (`StatusProbes`), that there are finitely many worktrees
(`RemoteTipChecker`), that the value for "none" is not a commit, a stash or a build
(`PullFastForward`, `StashRemoval`, `Updates`), and that the changes of the commits
to be edited are finitely many and numbered (`HistoryEdit`).

### Operation queue (`OperationQueueProofs`)

`MutualExclusion` is not inductive: that two calls of a key do not run together
depends on what each of them waited for. The invariant `IInv` says that the chain
of promises *is* the line of unfinished calls:

- `LineExact`, `LineDistinct`: the line holds exactly the key's unfinished
  calls, each once;
- `ChainLinked`: the `previous` of each call is the one before it in the line,
  and that of the first is settled;
- `TailIsLast`: the map's entry is the last of the line, and absent when the
  line is empty;
- `RunningResolved`: a running call's `previous` is settled.

`RunningIsFirst` follows: a running call heads its line. Enqueueing appends to
the line and becomes its tail; finishing removes the head, so the next call's
`previous` is settled, and deletes the map's entry only when the line gets
empty. From it follow `TypeCorrect`, `Exclusion`, `TailsExact` (a key has an
entry exactly while a call of it is unfinished) and `ImplementsFifoLock` (every
step is a step of `FifoLock`, or none): the safety part of `FifoOrder`.

`ContextInv` is about the contexts in which calls are made: a context holds only
calls that have begun and that its holder descends from (`HeldAreAncestors`,
`ParentsRan`), and whoever waits inside an operation waits in a repository's for a
worktree's (`AwaitedBelow`; this is where the queue's refusals and
`ScopeAssumption` come in). `Ancestors` is the least set closed under `parent`, of
any depth. From it follows `RefusesOnlyForTheRunning`, at any depth of nesting, and
`NobodyWaitsInACircle`: of any set of unfinished calls, take a worktree's if there is one, a repository's
otherwise, and of the set's calls on that key the first in line (`FirstOfLine`). If
it is queued, who is before it is not in the set; if it is running, it waits for
nobody or, as a repository's, for a worktree's, and there is none.

### Worktree states (`StatusProbesProofs`)

`RemovalInv` and `SharingInv` are independent.

- `NoProbeInRemoval` must survive a second removal of the same worktree, which
  takes the lock while the first one still has it. So `LocksCounted`: the count in
  `removalLocks` is at least the number of removals that keep probes out. And
  `DrainsAll`: a removal that drains a worktree waits for every probe that is
  there; what it drains only shrinks, as no probe begins. From it `ProbesKeptOut`.
- `RefreshIsFresh`: a caller waits only for a probe that is under way, of a worktree
  that is not older than its question and whose stored snapshot is not older than it
  was then (`CallerGood`); the store itself is never ahead of the checkout
  (`StoreGood`), so storing what was read never sets it back; a probe that reads holds
  the worktree's line, in which no operation can be meanwhile, so that what it has
  read is what the checkout is (`ProbeGood`); and the probe that new callers share
  is one under way, of their worktree (`PendingGood`). So an answer from Git is at
  least the question's state, and an answer from the store at least what was stored
  at the question: `SharedProbesFresh`.

### Remote checks (`RemoteTipCheckerProofs`)

`OneCheckPerRepository` is a statement about all pairs of batches, while the code
looks at the map `running` alone; `CheckInv` says that the map is exact
(`CheckIsRunning`): a batch that checks is the one the map names. From it
`RunningIsExact` and `ChecksOneAtATime`.

`CheckerInv` is the checker's bookkeeping, which its freshness rests on:
entries are used in order and belong to a batch of their repository and lane that
is where they think it is (`EntriesGood`, `InItsBatch`); the entries that a check
starts have one generation (`OneGeneration`); an owner of a key is an unsettled
entry of that key (`OwnersGood`); an open batch is not over (`OpenGood`); what a
window's report may cancel is a background entry (`VisibleGood`); kept answers and
rounds have their repository's generation (`FreshAnswers`). From it follow
`ReusesNothingStale`, `SupersededForCause` and `AnswersAreForTheBranch`. New
entries take numbers chosen for a whole report at once; that they are different
and fill the next numbers is `PlacesFill`.

### Pull (`PullFastForwardProofs`)

`WorkInv` says where the work is. Before the push nothing on the stash list is
this pull's; after it, all that Pull saw is *safe*: on the stash list, or taken
from it or committed by somebody else (`SavedInv`). The steps that apply a stash
have its commit, and that commit holds nobody else's work (`OwnInv`): that is why
Pull looks a stash up by its hash, since positions on the shared stack shift. The
lemmas on the stack (what a push, a drop or a shift leaves listed) come first in
the module. From it `WorkSurvives` and `OnlyOwnWork`.

`QuietInv` says, while nobody interferes, what each step of a pull has found and
done (`Progress`): the branch as it was until the merge, the stash known or nothing
seen from the merge on, the branch forward and the stash known while it is
reapplied, and at the end an outcome that is so (`Truthful`). A command that a
signal kills may have done all, some or none of its work, and goes on in one of the
recovery steps. From it `ReportsTrue`.

### Bulk runs (`BulkSyncProofs`)

The locks are `FifoLock`'s, whose `Enter` and `Leave` take a key from nobody but who
leaves (`QueuesKeepsHolders`). `CoverInv`:

- `WorkersHold`: a worker that fetches or waits for its worktrees holds its
  repository's lock, which nobody else's step can end;
- `TasksHaveWorkers`: a task under way is one of a worker that waits for it. It is
  here that `mapLimit` must drain its tasks before it throws;
- `ReviewedClean`: past the first inspection the reviewed facts are clean.

From it follow `CoverInvariant`, `TasksCovered` (`LocksCoverTasks`) and, with
`Numbers` (commits compare as numbers), `OnlyToReviewed` (`MovesOnlyToReviewed`).

`ProgressInv` follows the run: repositories are taken in order, each by one worker
(`OneWorkerEach`, `TakenInOrder`), and one that was taken has an outcome or a worker
that will give it one (`TakenIsHandled`); worktrees of a repository that was not
fetched wait (`UntouchedWait`), only what was fetched moves (`ReadyIsFetched`), and
what moved is being verified, or done as updated or failed (`MovedLate`); what was
moved since it was shown, and whose refresh was not tried and failed, belongs to a
repository whose refresh is to come, or whose task threw (`UnseenFollowed`). From it
`ReportsOnlyWhatItDid` and `FollowsUpWhatItMoved` (`MovedIsFollowedUp`). `StopsWhenCanceled`
needs no more than `CoverInv`: each step that starts something looks at the signal.

### Quit (`QuitProofs`)

`NoOrphan` is not inductive either: one must know that nothing quits *inside*
the frame of a native quit. The invariant says that Electron is not quitting
while a frame is open (`FrameIsBefore`), that an update waiting for the flush
has started it in an earlier task (`UpdateFlushes`), so that no microtask of a
frame is the install's or leads to it (`NoInstallInFrame`), and that a frame
lets a quit through only when the flush is complete or there is nothing to wait
for (`AllowedIsFlushed`). From it follow `NeverOrphaned` and `FlushesFirst`.

The second part is about the delays, for every choice of them with
`SYSTEM_SHUTDOWN_FLUSH_MS < SYSTEM_SHUTDOWN_EXIT_MS` (`TicksAssumption`). Time
passes in the model only when no task is due, so the proof has to show that a
quit nothing holds any more is a task that is due: a deferred quit waits for a
flush that runs, for its own retry, or for an updater that owns the quit
(`ResumeGoesOn`), such an updater waits for the flush or for its own quit
(`UpdateGoesOn`), whoever waits for the flush goes on only when it is complete
(`AfterFlush`), and a shutdown's quit is under way or deferred
(`ShutdownQuits`). While it is deferred, the flush's deadline comes before the
exit (`FlushBeforeExit`, which `hurry` establishes and `Tick` keeps); once it is
under way, the windows close in no time (`QuittingCloses`), and with a
fail-safe that has all of its time (`FailSafeBehindQuit`). From it follow
`TypesKept` and `ExitsBehindNeverFire` (`NeverForced`). That the windows close in
no time is the model's assumption about Electron, as in the run.

The third part is the time bound behind `QuitEnds`: `NobodyWaitsPastTheDeadline`.
Whoever has asked to quit has a quit under way, or its task due, or a flush running
whose clock is not behind theirs (`AskedGoesOn`). A later request, a hurry or an
update that takes over never sets that clock back; so they wait
`QUIT_FLUSH_DEADLINE_MS` at most, counted from the first request. With `QuitEnds`
of the run (time passes) it says that the application ends. `UpdaterHasTheQuit`
is `YieldsToUpdater`.

### Stashes (`ChangesProofs`)

`HarmsNoOther` says that the entries nobody asked for stay listed; what must be
known to keep it is that the staged files are not older than the log. `StashInv`:

- `OwnsItsLocks`: `removal.owned` is exactly the set of lock files whose creator
  is the app, and `OthersStayListed`: the other half of `HarmsNoOther`;
- `GitHasLocks`: a Git process midway in a command has the lock of it;
- `LocksInOrder`: each step of the removal tells which locks it owns: all three
  from the check until the log is replaced, that of the ref to the end;
- `StagedIsCurrent`: the entries that the staged log drops have been asked for,
  and nothing was pushed since it was read, because that takes the ref's lock.

From it follow `StashInvariant` and `RemovalHarmsNoOther`. `RefInv` is about the two
files together: the staged log is the whole log without the commit, and the log is
the one or the other, by the step (`StagedLog`); until the ref is committed it names
the newest entry there was (`StagedRef`); a Git process that has appended to the log
and not yet moved the ref has appended the newest entry (`NewestStored`); otherwise
the two agree, unless a command was torn (`RefAgrees`). From it `RefNamesTheNewest`
(`RefFollowsLog`). `AnswersTruly` (`AnswerIsTrue`) needs `StagedLog` and
`AppliedFirst`: a pop applies the work before the log is replaced, a drop never.

### History (`ChangesProofs`)

`OneRewritePerCheck` is about the tokens spent, and a refused signature gives a
token back, so the proof follows every token. `TokenInv`:

- `TokensNumbered`: tokens are numbered in the order they were given, so no two
  checks have the same one;
- `HeldIsUnspent` and `WaitingIsUnspent`: a token that a request holds, or that
  waits among the approvals, has carried no rewrite; `SpentWasGiven`: what has
  carried one was given by a check, so no later check gives it again;
- `OneHolder`: a token is with one request or among the approvals, never both.

From it follow `TokenInvariant` and `NoApprovalTwice`.

`EditInv` says what a rewrite has made of the branch, as long as no outsider has
acted behind its last look (`meddled`). Only the first in line acts (`TakesTurns`),
on a clean checkout (`CleanInTurn`), with an approval for the source it found
(`AllApproved`); the branch then is the old one, its base with the first commits of
the program, or, on the way back, something that has no change the old one has not
(`AllDoing`); and what outsiders did is in the checkout or on a branch
(`WorkKept`). A filter or merge driver may make something else of a commit than it
was, which the model writes as the change 0; that no branch has it below the
selection (`ZeroNotBelow`) is why the comparison of trees finds it. From it follow
`EditInvariant`, `OthersWorkSurvives` (`OutsideWorkSurvives`) and `AllOrNothing`
(`EditedAsChecked`): whoever ends with "applied" has compared the trees, and then
the branch has the program's commits, exactly; any other end has it as it was.

### Branches (`ChangesProofs`)

`DeletesOnlyReviewed` speaks of one step, yet whether that step is right depends on
looks several steps back. `CleanupInv` says what each look has left behind: from
the question about HEAD on, every branch still to go that was chosen as merged is
in HEAD, or HEAD has moved since (`Proven`); until the first chunk is taken, every
branch still to go is in no worktree, or was checked out since the holders were
read (`FirstIsFree`), and the same holds of the chunk at work after its own look
(`ChunkIsFree`). An outsider's act keeps this by what it adds to `late`.
`CleanupInvNext` is its preservation, action by action; `DeletionIsReviewed`
derives the property of a step from it, for the transaction, the one whose answer is
lost, and the retries: `OnlyReviewedDeleted`.

`ReceiptInv` says that every branch is still under way or has its answer, one that
was not reached because the batch was canceled (`Answered`); that a branch was
deleted exactly if its answer says so or its section is to go next (`TakenTold`);
and that a branch which nobody touched is as it was chosen or was deleted here, and
is never kept (`UntouchedStay`, `KeptForCause`). From it `ReceiptTells` (`ReceiptIsTrue`).

### Removing a repository (`RepoRemovalProofs`)

`RemovedAsAnswered` compares what goes with a folder to what the review saw there a
while ago. `RepoInv`: every piece of work has a number and is in one place
(`OnePlace`); what is in a place was found there, or made since it was reviewed
(`FoundOrNewer`); every checkout listed is one the review has looked at or will, but
for those added since (`ListedAreLookedAt`); the worktrees still to go, and all places if the main checkout is
to go, are given up by review and answers (`OnlyGivenUp`); as long as none has
failed, a listed worktree is still to go or new (`NoneLeft`). From it
`OnlyTheAnsweredGoes`. `ProbesKeptFromTheGone` (`ProbesStayOut`) uses `TakenAreLocked`: a
folder that was seen and is gone is one this removal took, and its lock is held.

### Updates (`ChangesProofs`)

`UpdatesInv` relates what the program believes to what electron-updater and
Squirrel.Mac have: on Windows and Linux the held build is the file in the cache,
and while another is downloaded over it nothing is held, but what is replaced is
remembered (`HeldIsOnDisk`); on macOS the held build is the one Squirrel.Mac has
staged or fetches (`HeldIsStaged`, but for what `excused` marks); a replacement is
remembered only while a download or a stage is under way (`ReplacesWhileChecking`,
`StagesWhatLanded`); the switch for installing on quit follows what is held and
selected (`ArmedRightly`); an offer names the held build (`ShownIsHeld`), and a status of
a check that is over is shown only behind an offer of another track
(`StatusIsOver`). From it `UpdatesInvariant`, `OffersAreThere` (`OfferedIsInstalled`)
and `DownloadsEndWell` (`DownloadsSettle`).

### Only model-checked

The liveness properties, as TLAPS has no rules for fairness within reach here:
`FifoOrder` (its safety part is `ImplementsFifoLock`), `NobodyWaitsForEver`,
`EveryRequestSettles`, `PullEnds`, `RunEnds` and `QuitEnds` (its time bound is
proved). And the three statements that the code violates, section 6.

## 6. Findings

1. **A batch removal goes by an old listing** (`status_probes_listing`).
   `worktree-lifecycle-handlers.ts:153` lists a repository's worktrees once per
   batch, while each worktree waits for its own lock; the comment above it says
   that the listing is no older than the wait. A worktree that somebody locked
   with `git worktree lock` after the first listing is removed as unlocked.
2. **Pull does not supersede automatic checks** (`remote_tip_checker_pull`).
   `runPull` (`remote-handlers.ts:933`) does not go through `tracked()`, so
   checks queued before it run before it and the freshness they leave remains,
   contrary to `remote-handlers.ts:416` and `remote-tip-checker.ts:116`.
3. **A rollback may reset what it has not saved** (`pull_reset`). With a clean
   checkout nothing is stashed; an edit made before the merge makes Git refuse
   it, and the rollback's `reset --hard` (`git-service.ts:3254`) discards that
   edit, contrary to the comment at `git-service.ts:3244`.

Reached by the models of `changes`, each stated by an operator that no run checks,
since the code breaks it (to see it, check the operator as an invariant or
property of `MCChanges`):

4. **A dropped stash may come back** (`PackedLineStaysGone`).
   `stash-removal.ts:117` renames `packed-refs.lock` onto `packed-refs` and with
   that gives the lock up before the loose ref is unlinked (line 120); a
   `git pack-refs` in between packs the dropped stash again. The comment at line 22
   says that the lock keeps a concurrent pack out.
5. **Restart may run another build, or none** (`RestartRunsWhatItNames`).
   `auto-updater.ts:1608` installs after a flush, without looking again at what is
   held; a check in flight may meanwhile start the download of a newer release,
   which empties the cache. `auto-updater.held-update.property.test.ts:23` states
   the contrary as I3, and tests it without a flush that takes time.
6. **A failed rollback is reported as a success** (`RestoredAsSaid`).
   `rebase-assistant.ts:542` ignores the result of its `reset --hard`, and lines
   868 and 874 answer that the worktree was restored unchanged.
7. **Answers outlive the state they were given on** (`AnswersAreAboutTheStateShown`).
   `choiceOf` (`packages/shared/src/repo-removal.ts:219`) keeps an answer if it may
   be given to the verdict found now: a discard answered on one untracked file also
   discards the commits made since. Lines 208-211 say that a checkout that changed
   comes back undecided.

Met while modelling, without a run of their own: on macOS a held build of another
track is replaced without waiting for Squirrel.Mac (`auto-updater.ts:698`, 1512;
compare 142-148), and a stage that timed out may be staged later; `excused` in
`Updates` marks both. A status "downloading" stays when the track is changed during
the download (`auto-updater.ts:1494`). A worktree that was missing at the review and
whose volume is back when its record is forgotten is deleted outright, not moved to
the Trash (`repo-removal.ts:529`). `bulk-sync.ts:744` says that
worktrees are inspected serially, where line 688 inspects up to four at a time
(nothing depends on it); and when an install fails after its flush on macOS or
Windows (`auto-updater.ts:1608`), the quits that the updater had taken over are
resumed by nobody (`Quit` counts them as dropped, and `NeverForced` and
`QuitEnds` except them).

## 7. Not modelled, and the plan

Out of the models by choice: texts, formatting, parsing of Git's output, SQLite
itself (single synchronous statements), presentation, requests to forges and
models, and everything that only queries. How long a renderer takes to close its
window is not bounded by the program; `Quit` lets it take less than a tick.

Hazards that the models contain or touch, and that no property covers:

- the queue refuses no nesting of two repositories or two worktrees
  (`worktree-operation-queue.ts:45`); no caller nests them (`ScopeAssumption`);
- a refresh during which Git fails shows the stored, older snapshot on purpose
  (`worktree-state.ts:537`), and a failed refresh after a bulk run is only logged
  (`bulk-sync-handlers.ts:182`): either way the row is stale until a later poll, and
  `RefreshIsFresh` and `MovedIsFollowedUp` claim no more;
- a refresh after a change made outside the worktree's lock may share an older
  probe (`worktree-state.ts:461`), and the indexer may delete a row while its probe
  runs (`worktree-state.ts:660`); the next poll repairs both;
- the 12 s of a remote check run while it waits for the lock
  (`remote-handlers.ts:477`); the model has no clock there;
- Pull's rollback also drops a commit made on the branch meanwhile
  (`git-service.ts:3254`), and a branch switched before the merge is the one that is
  merged (`git-service.ts:3146`); nothing in the repository promises more;
- a bulk task that throws discards its repository's results (`bulk-sync.ts:824`), and
  a fetch canceled after it moved refs leaves the branch index stale
  (`bulk-sync.ts:183`);
- a receipt that says "kept" of a branch whose deletion landed with its answer lost
  (`branch-lifecycle.ts:579`): `ReceiptIsTrue` excepts it (`trouble`);
- quits that a failed install had taken over are resumed by nobody
  (`auto-updater.ts:1608`); a renderer slower than 500 ms meets the fail-safe
  (`index.ts:1507`);
- what outsiders do between a last look and the act: `meddled` in `HistoryEdit`
  (`rebase-assistant.ts:546`), `late` in `BranchCleanup` (`branch-lifecycle.ts:545`),
  work newer than `upTo` and worktrees added since in `RepoRemoval`. Git has no
  lock that would keep them out, and the properties except exactly these;
- two rows of the index that share an object store (`maintenance-handlers.ts:600`):
  the models have one repository.

Left out of the five modules of `changes`: `stash:apply` and `stash:push` (single
commands of Git), a history edit whose program an agent proposes (the path is the
same), the other jobs of maintenance, the push that the renderer does before a
removal and two removals at once, the release cache, the hourly budget and packages
that Linux users install themselves.

Where a model takes several steps of the code as one, or assumes something of a
library:

- an inspection of `BulkSync` reads a checkout's head and its upstream together
  (`bulk-sync.ts:326` and 361 are two commands);
- `RepoRemoval` reads whether a worktree is locked or missing when it looks at the
  worktree, where the code has part of that from the one listing before
  (`git/repo-removal.ts:287`); which worktrees there are is read once, as in the code;
- `Updates` lets a download land on macOS only when Squirrel.Mac fetches nothing,
  while `awaitSquirrelStage` (`auto-updater.ts:451`) would take the end of an
  earlier fetch for its own. What Squirrel.Mac does with a second build while it
  fetches the first is not in the repository; the model leaves that case out, so
  `OfferedIsInstalled` says nothing of it.

The models cover the parts of the main process where order, failure and outsiders
matter; by lines that is a few per cent of the repository, most of which is
user interface, protocol types, queries and parsing.

Components not modelled yet, in the order of the plan:

1. **Repository index** (`git/repo-indexer.ts`, vanished and returning worktrees,
   prune and reclaim): rescans that race with deletions, previews stale when
   applied. Composed over `FifoLock` with the removals of `StatusProbes` and
   `RepoRemoval`.
2. **Interrupted operations** (`git/operation-service.ts`): continue, skip and abort
   against a repository that moved; **staging** (`git/partial-staging.ts`): the
   fingerprint of a partial selection.
3. **Bounded fan-out** (`limitConcurrency`), the **activity registry** and the
   **refresh of visible worktrees**: overlapping rounds, owners that disappear.
4. **Clone and fork**, **managed Git**, **agent sessions**: cancellation at each
   step, and what is left behind.

Abstract specifications worth stating next: what a removal promises (a folder is
removed only if it was removable when its turn came), refined by `StatusProbes`
and `RepoRemoval`; an all-or-nothing edit, refined by `HistoryEdit`; what an update
promises (one version at a time, the newest eligible one), refined by `Updates`.

Theorems worth proving next: those refinements, and the operators they need
(`Program` as a list of commits with the selection's changes, `Verdict` against
a definition by what is lost); that `Swap` is a symmetry of `MCChanges`; the
time bound of a pull, as `NobodyWaitsPastTheDeadline` is that of a quit.
