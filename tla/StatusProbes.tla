---------------------------- MODULE StatusProbes ----------------------------
(***************************************************************************)
(* Status probes of worktrees (WorktreeStateService.compute), the callers  *)
(* that share them, and the removals that must keep them out of a folder   *)
(* being deleted (lockForRemoval, worktree:remove), all of one repository. *)
(*                                                                         *)
(* A caller is a handler that changes a checkout under its worktree lock   *)
(* and then refreshes it, or a poll that only refreshes.  Git's view of a  *)
(* checkout is a version number.  The end of a probe and the two maps'     *)
(* cleanup are one step: only microtasks lie between them, and no Git      *)
(* process answers in a microtask.  A probe whose Git fails, or that finds *)
(* nothing to read, answers with the snapshot stored before.               *)
(***************************************************************************)
EXTENDS Integers, Sequences, FiniteSets

CONSTANTS Worktrees, Callers, Probes, Removals,
          Lockable,    \* worktrees that someone may `git worktree lock`
          Batch,       \* Batch[r]: the worktrees removal r was asked to remove, in order
          MaxVersion,  \* bound: checkout changes in a behaviour, per worktree
          None

ASSUME ProbeAssumption ==
  /\ None \notin Probes \cup Worktrees
  /\ Callers \cap Probes = {} /\ Callers \cap Removals = {} /\ Probes \cap Removals = {}
  /\ Batch \in [Removals -> Seq(Worktrees)]
  /\ Lockable \subseteq Worktrees
  /\ Cardinality(Probes) >= Cardinality(Worktrees)
  /\ MaxVersion \in Nat

VARIABLES line,          \* the worktree locks (FifoLock)
          pending,       \* pendingComputes: the probe new callers share, or None
          inFlight,      \* inFlight: the probes a removal drains
          removalLocks,  \* removalLocks: how many removals keep probes out
          probe,         \* each probe: its worktree, how far it is, what it has read
          caller,        \* each caller: its worktree, what it does, the probe it awaits
          removal,       \* each removal: how far it is and what it still drains
          version,       \* the state of each checkout, as Git would report it
          folder,        \* "present", "deleting", "gone"
          locked,        \* the worktrees locked with git worktree lock
          row,           \* whether the database has the worktree's row
          cached         \* the version of the stored snapshot, -1 for none or a blank one

Lock == INSTANCE FifoLock
          WITH Keys <- Worktrees, Actors <- Callers \cup Probes \cup Removals

vars == <<line, pending, inFlight, removalLocks, probe, caller, removal,
          version, folder, locked, row, cached>>

IdleProbe == [wt |-> None, at |-> "idle", seen |-> -1]

(* While a caller waits: what the checkout and the stored snapshot were when it     *)
(* asked.  Then: what it was answered, and whether Git was read for it.           *)
IdleCaller == [wt |-> None, at |-> "idle", on |-> None,
               asked |-> -1, known |-> -1, got |-> -1, read |-> FALSE]

Init ==
  /\ Lock!LockInit
  /\ pending = [w \in Worktrees |-> None]
  /\ inFlight = [w \in Worktrees |-> {}]
  /\ removalLocks = [w \in Worktrees |-> 0]
  /\ probe = [p \in Probes |-> IdleProbe]
  /\ caller = [c \in Callers |-> IdleCaller]
  /\ removal = [r \in Removals |-> [at |-> "idle", i |-> 1, drain |-> {}, locks |-> {},
                                 listed |-> FALSE, listing |-> {}, removed |-> FALSE]]
  /\ version = [w \in Worktrees |-> 0]
  /\ folder = [w \in Worktrees |-> "present"]
  /\ locked = {}
  /\ row = [w \in Worktrees |-> TRUE]
  /\ cached = [w \in Worktrees |-> -1]

world == <<version, folder, locked, row, cached>>
maps == <<pending, inFlight, removalLocks>>

-----------------------------------------------------------------------------
(* Callers *)

(* A handler queues an operation that changes checkout w. *)
Operate(c, w) ==
  /\ caller[c].at = "idle" /\ row[w]
  /\ version[w] < MaxVersion
  /\ Lock!Enter(c, w)
  /\ caller' = [caller EXCEPT ![c] = [IdleCaller EXCEPT !.wt = w, !.at = "queued"]]
  /\ UNCHANGED <<maps, probe, removal, world>>

(* The operation has the lock and ends; Git changes nothing in a folder that is   *)
(* gone.  The handler refreshes next.                                             *)
Operated(c) ==
  /\ caller[c].at = "queued"
  /\ Lock!Leave(c, caller[c].wt)
  /\ caller' = [caller EXCEPT ![c].at = "refresh"]
  /\ version' = [version EXCEPT ![caller[c].wt] =
                   IF folder[caller[c].wt] = "present" /\ @ < MaxVersion THEN @ + 1 ELSE @]
  /\ UNCHANGED <<maps, probe, removal, folder, locked, row, cached>>

Poll(c, w) ==
  /\ caller[c].at = "idle" /\ row[w]
  /\ caller' = [caller EXCEPT ![c] = [IdleCaller EXCEPT !.wt = w, !.at = "refresh"]]
  /\ UNCHANGED <<line, maps, probe, removal, world>>

(* getCached: the stored snapshot, which goes with its row. *)
Stored(w) == IF row[w] THEN cached[w] ELSE -1

Answered(v, fromGit) == [IdleCaller EXCEPT !.got = v, !.read = fromGit]

Asks(c, p) ==
  LET w == caller[c].wt IN
  caller' = [caller EXCEPT ![c].at = "waiting", ![c].on = p,
                           ![c].asked = version[w], ![c].known = Stored(w)]

ProbesAllowed(w) == removalLocks[w] = 0

(* compute() while a removal keeps probes out: the stored snapshot. *)
ComputeDropped(c) ==
  LET w == caller[c].wt IN
  /\ caller[c].at = "refresh"
  /\ ~ ProbesAllowed(w)
  /\ caller' = [caller EXCEPT ![c] = Answered(Stored(w), FALSE)]
  /\ UNCHANGED <<line, maps, probe, removal, world>>

(* compute() shares the pending probe ... *)
ComputeJoins(c) ==
  LET w == caller[c].wt IN
  /\ caller[c].at = "refresh"
  /\ ProbesAllowed(w)
  /\ pending[w] # None
  /\ Asks(c, pending[w])
  /\ UNCHANGED <<line, maps, probe, removal, world>>

(* ... or queues one of its own on the worktree's lock. *)
ComputeStarts(c, p) ==
  LET w == caller[c].wt IN
  /\ caller[c].at = "refresh"
  /\ ProbesAllowed(w)
  /\ pending[w] = None
  /\ probe[p].at = "idle"
  /\ Lock!Enter(p, w)
  /\ probe' = [probe EXCEPT ![p] = [wt |-> w, at |-> "queued", seen |-> -1]]
  /\ pending' = [pending EXCEPT ![w] = p]
  /\ inFlight' = [inFlight EXCEPT ![w] = @ \cup {p}]
  /\ Asks(c, p)
  /\ UNCHANGED <<removalLocks, removal, world>>

-----------------------------------------------------------------------------
(* Probes *)

WithoutTurn(p) == TRUE  \* bug: probes do not queue behind operations

MayProbe(p) == Lock!Holds(p, probe[p].wt)

(* computeFresh: a row and a folder are there to be read, so Git is spawned. *)
ProbeBegins(p) ==
  LET w == probe[p].wt IN
  /\ probe[p].at = "queued"
  /\ MayProbe(p)
  /\ row[w] /\ folder[w] # "gone"
  /\ probe' = [probe EXCEPT ![p].at = "reading"]
  /\ UNCHANGED <<line, maps, caller, removal, world>>

(* git status, with Git's processes in the folder before and after it. *)
ProbeReads(p) ==
  /\ probe[p].at = "reading" /\ probe[p].seen = -1
  /\ probe' = [probe EXCEPT ![p].seen = version[probe[p].wt]]
  /\ UNCHANGED <<line, maps, caller, removal, world>>

PendingKept(p, w) == pending  \* bug: a settled probe stays shared

PendingAfter(p, w) == IF pending[w] = p THEN [pending EXCEPT ![w] = None] ELSE pending

(* The probe settles and answers everyone who shares it. *)
Settles(p, v, fromGit) ==
  LET w == probe[p].wt IN
  /\ Lock!Leave(p, w)
  /\ pending' = PendingAfter(p, w)
  /\ inFlight' = [inFlight EXCEPT ![w] = @ \ {p}]
  /\ caller' = [c \in Callers |-> IF caller[c].on = p THEN Answered(v, fromGit) ELSE caller[c]]
  /\ probe' = [probe EXCEPT ![p] = IdleProbe]
  /\ UNCHANGED <<removalLocks, removal, version, folder, locked, row>>

(* What Git reported is stored, and is the answer. *)
ProbeStores(p) ==
  LET w == probe[p].wt IN
  /\ probe[p].at = "reading" /\ probe[p].seen # -1
  /\ folder[w] # "gone"
  /\ cached' = [cached EXCEPT ![w] = probe[p].seen]
  /\ Settles(p, probe[p].seen, TRUE)

(* cachedUnlessMissing, markMissing: there was no row or no folder to read, git    *)
(* status failed, or rev-list after it, or the folder went meanwhile.  The stored  *)
(* snapshot is the answer, whatever had been read.                                *)
ProbeFails(p) ==
  LET w == probe[p].wt IN
  /\ \/ probe[p].at = "queued" /\ MayProbe(p) /\ (~ row[w] \/ folder[w] = "gone")
     \/ probe[p].at = "reading"
  /\ Settles(p, Stored(w), FALSE)
  /\ UNCHANGED cached

-----------------------------------------------------------------------------
(* Removals: worktree:remove, one worktree of its batch after the other *)

Target(r) == Batch[r][removal[r].i]

More(r) == removal[r].i <= Len(Batch[r])

(* The row is gone already: reported, and the batch goes on. *)
RemovalSkips(r) ==
  /\ removal[r].at = "idle" /\ More(r)
  /\ ~ row[Target(r)]
  /\ removal' = [removal EXCEPT ![r].i = @ + 1]
  /\ UNCHANGED <<line, maps, probe, caller, world>>

NothingInFlight(w) == {}  \* bug: running probes are not waited for

Draining(w) == inFlight[w]

(* bug: it drains inside its turn in the queue, which it then waits for once more *)
RemovalLocksInQueue(r) ==
  /\ removal[r].at = "idle" /\ More(r)
  /\ row[Target(r)]
  /\ Lock!Enter(r, Target(r))
  /\ removalLocks' = [removalLocks EXCEPT ![Target(r)] = @ + 1]
  /\ removal' = [removal EXCEPT ![r].at = "draining", ![r].drain = Draining(Target(r)),
                                ![r].locks = @ \cup {Target(r)}]
  /\ UNCHANGED <<pending, inFlight, probe, caller, world>>

(* lockForRemoval: new probes are kept out at once, those under way awaited. *)
RemovalLocks(r) ==
  /\ removal[r].at = "idle" /\ More(r)
  /\ row[Target(r)]
  /\ removalLocks' = [removalLocks EXCEPT ![Target(r)] = @ + 1]
  /\ removal' = [removal EXCEPT ![r].at = "draining", ![r].drain = Draining(Target(r)),
                                ![r].locks = @ \cup {Target(r)}]
  /\ UNCHANGED <<line, pending, inFlight, probe, caller, world>>

Drained(r) == removal[r].drain \cap inFlight[Target(r)] = {}

(* Then the removal joins the worktree's queue. *)
RemovalQueues(r) ==
  /\ removal[r].at = "draining"
  /\ Drained(r)
  /\ Lock!Enter(r, Target(r))
  /\ removal' = [removal EXCEPT ![r].at = "queued", ![r].drain = {}]
  /\ UNCHANGED <<maps, probe, caller, world>>

(* Its turn has come; the repository's worktrees are listed once for the batch,   *)
(* with the locks they have then.                                                 *)
RemovalTurns(r) ==
  /\ removal[r].at = "queued"
  /\ Lock!Holds(r, Target(r))
  /\ removal' = [removal EXCEPT ![r].at = "turn", ![r].listed = TRUE,
                   ![r].listing = IF removal[r].listed THEN @ ELSE locked]
  /\ UNCHANGED <<line, maps, probe, caller, world>>

(* deleteTree, unless the worktree was locked. *)
RemovalDeletes(r) ==
  /\ removal[r].at = "turn"
  /\ folder[Target(r)] = "present"
  /\ Target(r) \notin removal[r].listing
  /\ folder' = [folder EXCEPT ![Target(r)] = "deleting"]
  /\ removal' = [removal EXCEPT ![r].at = "deleting"]
  /\ UNCHANGED <<line, maps, probe, caller, version, locked, row, cached>>

(* The folder is gone, or some of it could not be deleted; or nothing was tried:   *)
(* another removal deleted it, the checkout has changes or is locked, or Git does  *)
(* not know the path and the row is forgotten.  With the folder gone it still      *)
(* takes `git worktree remove` to count as removed.                               *)
RemovalEnds(r) ==
  LET w == Target(r) IN
  /\ removal[r].at \in {"turn", "deleting"}
  /\ Lock!Leave(r, w)
  /\ \/ /\ removal[r].at = "deleting"
        /\ \E left \in {"gone", "present"} : folder' = [folder EXCEPT ![w] = left]
        /\ UNCHANGED row
     \/ /\ removal[r].at = "turn"
        /\ UNCHANGED <<row, folder>>
     \/ /\ removal[r].at = "turn" /\ folder[w] = "present"
        /\ row' = [row EXCEPT ![w] = FALSE]
        /\ UNCHANGED folder
  /\ \E unregistered \in BOOLEAN :
       removal' = [removal EXCEPT ![r].at = "idle", ![r].i = @ + 1,
                     ![r].removed = @ \/ (folder'[w] = "gone" /\ unregistered)]
  /\ UNCHANGED <<maps, probe, caller, version, locked, cached>>

(* If any was removed, refreshRepoWorktrees drops the rows of all folders gone,     *)
(* unless it fails; only then does the finally block let probes back in.          *)
RemovalReleases(r) ==
  /\ removal[r].at = "idle" /\ ~ More(r)
  /\ \E relisted \in BOOLEAN :
       row' = [w \in Worktrees |->
                 row[w] /\ ~ (removal[r].removed /\ relisted /\ folder[w] = "gone")]
  /\ removalLocks' = [w \in Worktrees |->
                        removalLocks[w] - (IF w \in removal[r].locks THEN 1 ELSE 0)]
  /\ removal' = [removal EXCEPT ![r].at = "done", ![r].locks = {}]
  /\ UNCHANGED <<line, pending, inFlight, probe, caller, version, folder, locked, cached>>

-----------------------------------------------------------------------------
(* git worktree lock, in a terminal *)
LockWorktree(w) ==
  /\ w \in Lockable \ locked
  /\ folder[w] = "present"
  /\ locked' = locked \cup {w}
  /\ UNCHANGED <<line, maps, probe, caller, removal, version, folder, row, cached>>

CallerStep(c) ==
  \/ Operated(c) \/ ComputeDropped(c) \/ ComputeJoins(c)
  \/ \E p \in Probes : ComputeStarts(c, p)

ProbeStep(p) == ProbeBegins(p) \/ ProbeReads(p) \/ ProbeStores(p) \/ ProbeFails(p)

RemovalStep(r) ==
  \/ RemovalSkips(r) \/ RemovalLocks(r) \/ RemovalQueues(r) \/ RemovalTurns(r)
  \/ RemovalDeletes(r) \/ RemovalEnds(r) \/ RemovalReleases(r)

Next ==
  \/ \E c \in Callers, w \in Worktrees : Operate(c, w) \/ Poll(c, w)
  \/ \E w \in Worktrees : LockWorktree(w)
  \/ \E c \in Callers : CallerStep(c)
  \/ \E p \in Probes : ProbeStep(p)
  \/ \E r \in Removals : RemovalStep(r)

(* Promises settle and Git processes end; a removal asked for goes on. *)
Fairness ==
  /\ \A c \in Callers : WF_vars(CallerStep(c))
  /\ \A p \in Probes : WF_vars(ProbeStep(p))
  /\ \A r \in Removals : WF_vars(RemovalStep(r))

Spec == Init /\ [][Next]_vars /\ Fairness

-----------------------------------------------------------------------------
(* Properties *)

(* "once no git process has its cwd inside the worktree": while a removal keeps     *)
(* probes out of a worktree it has drained, none is queued or running there, so   *)
(* none can come between two of its steps or into what it leaves behind.          *)
NoProbeInRemoval ==
  \A r \in Removals : \A w \in removal[r].locks :
    ~ (removal[r].at = "draining" /\ w = Target(r)) => inFlight[w] = {}

(* A refresh that Git was read for never shows what the checkout was before the     *)
(* question, thus before the operation that was refreshed after, though probes are *)
(* shared: the lock keeps a probe from reading earlier.  If Git fails the answer   *)
(* may be older, "preserve cached state for transient Git failures", but never     *)
(* older than the snapshot stored when it was asked: the store does not go back.   *)
RefreshIsFresh ==
  [][\A c \in Callers :
       caller[c].at = "waiting" /\ caller'[c].at = "idle" /\ caller'[c].got # -1 =>
         /\ caller'[c].read => caller'[c].got >= caller[c].asked
         /\ caller'[c].got >= caller[c].known]_vars

(* "a poll queued behind this removal cannot finish until we release it": draining *)
(* before queueing, every removal ends, even of batches that overlap, and whoever   *)
(* asks for a state is answered.                                                  *)
NobodyWaitsForEver ==
  /\ \A r \in Removals : removal[r].at = "draining" ~> removal[r].at = "done"
  /\ \A c \in Callers : caller[c].at = "refresh" ~> caller[c].at = "idle"

(* "The listing is read inside it too, so it is no older than the wait": a removal *)
(* goes by the locks that the worktrees have when its turn in the queue comes.    *)
ListingNoOlderThanTheWait ==
  [][\A r \in Removals : removal[r].at = "queued" /\ removal'[r].at = "turn"
       => removal'[r].listing = locked]_vars
=============================================================================
