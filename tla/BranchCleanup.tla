----------------------------- MODULE BranchCleanup -----------------------------
(* Deleting finished local branches in a batch (the delete-branches action of     *)
(* maintenance-handlers.ts, repository-maintenance.ts, branch-lifecycle.ts), and   *)
(* restoring one from the receipt.  The app runs both under the repository's lock *)
(* of OperationQueue; agents and terminals commit, switch, merge and reset beside. *)
(*                                                                             *)
(* The tip of a branch is 1, the one that was shown and chosen, 2 for any other,  *)
(* or 0 when there is no such branch.                                            *)
EXTENDS Integers, FiniteSets, FiniteSetsExt

CONSTANTS
  Finished,    \* the branches chosen
  ChunkSize,   \* DELETE_CHUNK
  MaxTouches   \* bound: acts of outsiders

ASSUME BranchCleanupAssumption ==
  /\ IsFiniteSet(Finished) /\ "HEAD" \notin Finished
  /\ ChunkSize \in Nat \ {0} /\ MaxTouches \in Nat

VARIABLES
  tips,
  sections,    \* branches with a branch.<name> section in the configuration
  occupied,    \* branches checked out in some worktree
  inHead,      \* branches whose tip 1 is in HEAD
  evidence,    \* what each was chosen on: "ancestry" or a merged "pr"
  midway,      \* some worktree is in the middle of a merge or rebase
  cleanup,     \* the delete-branches run
  receipt,     \* what it answers of each branch
  taken,       \* branches whose ref it has deleted
  late,        \* what changed behind its last look: branches checked out, HEAD
  touched,     \* branches that outsiders acted on since it began
  trouble,     \* a Git command of the run failed, or was refused as midway
  touches

refs == <<tips, sections, occupied, inHead, midway>>
cleanupGhosts == <<taken, late, touched, trouble, touches>>
cleanupVars == <<tips, sections, occupied, inHead, evidence, midway, cleanup, receipt,
                 taken, late, touched, trouble, touches>>

NoCleanup == [at |-> "idle", todo |-> {}, chunk |-> {}, wiping |-> {}, configured |-> {},
              first |-> TRUE, canceled |-> FALSE]

CleanupInit ==
  /\ tips = [b \in Finished |-> 1]
  /\ sections = Finished
  /\ occupied = {}
  /\ evidence \in [Finished -> {"ancestry", "pr"}]
  /\ inHead = {b \in Finished : evidence[b] = "ancestry"}
  /\ midway = FALSE
  /\ cleanup = NoCleanup
  /\ receipt = [b \in Finished |-> "none"]
  /\ taken = {} /\ late = {} /\ touched = {}
  /\ trouble = FALSE
  /\ touches = 0

Moves(at) == cleanup' = [cleanup EXCEPT !.at = at]

(* The receipt of some branches. *)
Receives(bs, what) ==
  receipt' = [b \in Finished |-> IF b \in bs THEN what ELSE receipt[b]]

(* The whole batch is refused. *)
RefusesAll ==
  /\ Moves("done")
  /\ Receives(Finished, "kept")
  /\ trouble' = TRUE
  /\ UNCHANGED <<refs, evidence, taken, late, touched, touches>>

-----------------------------------------------------------------------------
AsksCleanup ==
  /\ cleanup.at = "idle"
  /\ Moves("review")
  /\ UNCHANGED <<refs, evidence, receipt, cleanupGhosts>>

CancelsCleanup ==
  /\ cleanup.at \notin {"idle", "done"} /\ ~ cleanup.canceled
  /\ cleanup' = [cleanup EXCEPT !.canceled = TRUE]
  /\ UNCHANGED <<refs, evidence, receipt, cleanupGhosts>>

(* reviewStaleBranches: ancestry is looked for before a pull request. *)
IsCandidate(b) ==
  /\ tips[b] = 1
  /\ b \notin occupied
  /\ (b \in inHead) <=> (evidence[b] = "ancestry")

ReviewsAgain ==
  /\ cleanup.at = "review"
  /\ LET fresh == {b \in Finished : IsCandidate(b)} IN
     IF cleanup.canceled
     THEN Moves("done") /\ UNCHANGED receipt
     ELSE /\ cleanup' = [cleanup EXCEPT !.at = "merged", !.todo = fresh]
          /\ Receives(Finished \ fresh, "kept")
  /\ UNCHANGED <<refs, evidence, cleanupGhosts>>

ReviewFails == cleanup.at = "review" /\ ~ cleanup.canceled /\ RefusesAll

(* bug: HEAD is not asked again before the delete *)
Unproven(bs) == {}

(* for-each-ref --merged=HEAD, "asked of Git once more right before the delete". *)
StillUnproven(bs) ==
  {b \in bs : evidence[b] = "ancestry" /\ ~ (tips[b] = 1 /\ b \in inHead)}

AsksAncestry ==
  /\ cleanup.at = "merged"
  /\ LET lost == StillUnproven(cleanup.todo) IN
       /\ cleanup' = [cleanup EXCEPT !.at = "holders", !.todo = @ \ lost]
       /\ Receives(lost, "kept")
  /\ late' = {}
  /\ UNCHANGED <<refs, evidence, taken, touched, trouble, touches>>

AncestryFails ==
  /\ cleanup.at = "merged"
  /\ \E b \in cleanup.todo : evidence[b] = "ancestry"
  /\ RefusesAll

(* deleteReviewedBranches: who holds each branch, or an operation is in progress. *)
ReadsHolders ==
  /\ cleanup.at = "holders"
  /\ cleanup.canceled \/ ~ midway \/ cleanup.todo = {}
  /\ IF cleanup.canceled \/ cleanup.todo = {}
     THEN Moves("done") /\ UNCHANGED receipt
     ELSE /\ cleanup' = [cleanup EXCEPT !.at = "sections", !.todo = @ \ occupied]
          /\ Receives(cleanup.todo \cap occupied, "kept")
  /\ late' = late \ Finished
  /\ UNCHANGED <<refs, evidence, taken, touched, trouble, touches>>

(* An operation is midway, or the listing fails. *)
HoldersRefused == cleanup.at = "holders" /\ ~ cleanup.canceled
                    /\ cleanup.todo # {} /\ RefusesAll

(* branchConfigSections; when it fails, every branch is cleaned up. *)
ReadsSections ==
  /\ cleanup.at = "sections"
  /\ \E configured \in {sections, Finished} :
       cleanup' = [cleanup EXCEPT !.at = "chunk", !.configured = configured]
  /\ UNCHANGED <<refs, evidence, receipt, cleanupGhosts>>

EndsBatch ==
  /\ cleanup.at = "chunk"
  /\ cleanup.todo = {} \/ cleanup.canceled
  /\ Moves("done")
  /\ UNCHANGED <<refs, evidence, receipt, cleanupGhosts>>

(* bug: a later chunk trusts the guard of the batch *)
HeldAtFirst(chunk) == {}

(* "every later chunk looks again" *)
HeldByNow(chunk) == IF cleanup.first THEN {} ELSE chunk \cap occupied

(* A later chunk whose listing fails is refused whole. *)
StartsChunk ==
  /\ cleanup.at = "chunk" /\ ~ cleanup.canceled
  /\ \E chunk \in SUBSET cleanup.todo, listed \in BOOLEAN :
       /\ Cardinality(chunk) = Min({ChunkSize, Cardinality(cleanup.todo)})
       /\ chunk # {}
       /\ cleanup.first => listed
       /\ LET kept == IF listed THEN HeldByNow(chunk) ELSE chunk IN
            /\ cleanup' = [cleanup EXCEPT !.at = "transact", !.todo = @ \ chunk,
                             !.chunk = chunk \ kept, !.first = FALSE]
            /\ Receives(kept, "kept")
       /\ late' = IF cleanup.first THEN late ELSE late \ Finished
       /\ trouble' = (trouble \/ ~ listed)
  /\ UNCHANGED <<refs, evidence, taken, touched, touches>>

Deletes(bs) ==
  /\ tips' = [b \in Finished |-> IF b \in bs THEN 0 ELSE tips[b]]
  /\ taken' = taken \cup bs

(* "update-ref --stdin verifies every old value under the ref locks": all or nothing. *)
Transacts ==
  /\ cleanup.at = "transact"
  /\ \A b \in cleanup.chunk : tips[b] = 1
  /\ Deletes(cleanup.chunk)
  /\ cleanup' = [cleanup EXCEPT !.at = "wipe", !.wiping = cleanup.chunk, !.chunk = {}]
  /\ UNCHANGED <<sections, occupied, inHead, midway, evidence, receipt, late, touched, trouble,
                 touches>>

(* bug: the branches beside the one that moved are not tried again *)
GivesUpChunk ==
  /\ cleanup.at = "transact"
  /\ \E b \in cleanup.chunk : tips[b] # 1
  /\ Receives(cleanup.chunk, "kept")
  /\ cleanup' = [cleanup EXCEPT !.at = "wipe", !.chunk = {}]
  /\ UNCHANGED <<refs, evidence, cleanupGhosts>>

(* "a chunk refused because one branch moved is retried one ref at a time" *)
TransactionRefused ==
  /\ cleanup.at = "transact"
  /\ \E b \in cleanup.chunk : tips[b] # 1
  /\ Moves("retry")
  /\ UNCHANGED <<refs, evidence, receipt, cleanupGhosts>>

(* Another process holds a lock; or the answer of a transaction that has landed is   *)
(* lost.                                                                         *)
TransactionFails ==
  /\ cleanup.at = "transact" /\ cleanup.chunk # {}
  /\ \/ UNCHANGED <<tips, taken>>
     \/ /\ \A b \in cleanup.chunk : tips[b] = 1
        /\ Deletes(cleanup.chunk)
  /\ Moves("retry")
  /\ trouble' = TRUE
  /\ UNCHANGED <<sections, occupied, inHead, midway, evidence, receipt, late, touched, touches>>

(* bug: the tip that is deleted is not compared *)
DeletableNow(b) == tips[b] # 0

(* update-ref -d with the reviewed tip. *)
DeletableAtTip(b) == tips[b] = 1

(* forceDeleteExpectedRef, which always removes the section. *)
RetriesOne(b) ==
  /\ cleanup.at = "retry" /\ b \in cleanup.chunk /\ cleanup.wiping = {}
  /\ IF DeletableAtTip(b)
     THEN /\ Deletes({b})
          /\ cleanup' = [cleanup EXCEPT !.chunk = @ \ {b}, !.wiping = {b},
                                        !.configured = @ \cup {b}]
          /\ UNCHANGED receipt
     ELSE /\ cleanup' = [cleanup EXCEPT !.chunk = @ \ {b}]
          /\ Receives({b}, "kept")
          /\ UNCHANGED <<tips, taken>>
  /\ UNCHANGED <<sections, occupied, inHead, midway, evidence, late, touched, trouble, touches>>

RetryFails(b) ==
  /\ cleanup.at = "retry" /\ b \in cleanup.chunk /\ cleanup.wiping = {}
  /\ cleanup' = [cleanup EXCEPT !.chunk = @ \ {b}]
  /\ Receives({b}, "kept")
  /\ trouble' = TRUE
  /\ UNCHANGED <<refs, evidence, taken, late, touched, touches>>

(* removeBranchConfig; a section that is not there is fine.  A failure makes an error *)
(* of a deletion that has happened.                                               *)
WipesConfig(b) ==
  /\ b \in cleanup.wiping
  /\ cleanup' = [cleanup EXCEPT !.wiping = @ \ {b}]
  /\ \/ /\ sections' = sections \ (cleanup.configured \cap {b})
        /\ Receives({b}, "deleted")
        /\ UNCHANGED trouble
     \/ /\ b \in cleanup.configured
        /\ Receives({b}, "kept")
        /\ trouble' = TRUE
        /\ UNCHANGED sections
  /\ UNCHANGED <<tips, occupied, inHead, midway, evidence, taken, late, touched, touches>>

EndsChunk ==
  /\ cleanup.at \in {"wipe", "retry"} /\ cleanup.wiping = {}
  /\ cleanup.at = "retry" => cleanup.chunk = {}
  /\ Moves("chunk")
  /\ UNCHANGED <<refs, evidence, receipt, cleanupGhosts>>

(* maintenance:restoreBranch, of a branch the receipt says is deleted: git branch     *)
(* --no-track at the reviewed tip; it fails when the name is taken.                *)
RestoresBranch(b) ==
  /\ cleanup.at = "done" /\ receipt[b] = "deleted"
  /\ tips[b] = 0
  /\ tips' = [tips EXCEPT ![b] = 1]
  /\ taken' = taken \ {b}
  /\ receipt' = [receipt EXCEPT ![b] = "restored"]
  /\ UNCHANGED <<sections, occupied, inHead, midway, evidence, cleanup, late, touched, trouble,
                 touches>>

-----------------------------------------------------------------------------
(* Outsiders. *)

Touches(b) ==
  /\ touches < MaxTouches
  /\ touches' = touches + 1
  /\ touched' = touched \cup {b}
  /\ UNCHANGED <<evidence, cleanup, receipt, taken, trouble>>

(* A commit on the branch, or a new branch of its name. *)
OutsiderPointsElsewhere(b) ==
  /\ Touches(b)
  /\ tips' = [tips EXCEPT ![b] = 2]
  /\ sections' = sections \cup {b}
  /\ UNCHANGED <<occupied, inHead, midway, late>>

OutsiderDeletes(b) ==
  /\ Touches(b)
  /\ tips[b] # 0 /\ b \notin occupied
  /\ tips' = [tips EXCEPT ![b] = 0]
  /\ sections' = sections \ {b}
  /\ UNCHANGED <<occupied, inHead, midway, late>>

OutsiderChecksOut(b) ==
  /\ Touches(b)
  /\ tips[b] # 0 /\ b \notin occupied
  /\ occupied' = occupied \cup {b}
  /\ late' = late \cup {b}
  /\ UNCHANGED <<tips, sections, inHead, midway>>

(* HEAD is reset, switched or moves on: the tip is in it no longer, or now. *)
OutsiderMovesHead(b) ==
  /\ Touches(b)
  /\ inHead' = IF b \in inHead THEN inHead \ {b} ELSE inHead \cup {b}
  /\ late' = late \cup {"HEAD"}
  /\ UNCHANGED <<tips, sections, occupied, midway>>

(* A merge or rebase stops midway in some worktree, or is finished. *)
OutsiderStops(b) ==
  /\ Touches(b)
  /\ midway' = ~ midway
  /\ UNCHANGED <<tips, sections, occupied, inHead, late>>

CleanupStep ==
  \/ AsksCleanup \/ CancelsCleanup \/ ReviewsAgain \/ ReviewFails
  \/ AsksAncestry \/ AncestryFails \/ ReadsHolders \/ HoldersRefused \/ ReadsSections
  \/ StartsChunk \/ Transacts \/ TransactionRefused \/ TransactionFails
  \/ EndsChunk \/ EndsBatch
  \/ \E b \in Finished : RetriesOne(b) \/ RetryFails(b) \/ WipesConfig(b) \/ RestoresBranch(b)

CleanupNext ==
  \/ CleanupStep
  \/ \E b \in Finished :
       \/ OutsiderPointsElsewhere(b) \/ OutsiderDeletes(b) \/ OutsiderChecksOut(b)
       \/ OutsiderMovesHead(b) \/ OutsiderStops(b)

CleanupSpec == CleanupInit /\ [][CleanupNext]_cleanupVars

-----------------------------------------------------------------------------
(* Properties *)

(* "Each ref still goes only at its reviewed tip", whole transaction or one by one;  *)
(* never one that a worktree holds, nor one whose commits only HEAD kept and keeps no *)
(* longer, as far as the last look before its deletion could tell.                *)
DeletesOnlyReviewed ==
  [][\A b \in taken' \ taken :
       /\ tips[b] = 1
       /\ b \in occupied => b \in late
       /\ evidence[b] = "ancestry" /\ b \notin inHead => "HEAD" \in late]_cleanupVars

(* The receipt is what happened: a branch said to be deleted was deleted here, one   *)
(* said to be kept was not (unless a command failed), one that was not reached was   *)
(* canceled.  And "the moved branch fails alone and the rest still go": without a    *)
(* failure no branch stays that nobody touched and the review would still offer.   *)
ReceiptIsTrue ==
  cleanup.at = "done" =>
    /\ \A b \in Finished :
         /\ receipt[b] = "deleted" => b \in taken
         /\ receipt[b] # "deleted" /\ ~ trouble => b \notin taken
         /\ receipt[b] = "none" => cleanup.canceled
    /\ ~ trouble /\ ~ cleanup.canceled =>
         \A b \in Finished \ touched : receipt[b] # "restored" => ~ IsCandidate(b)
=============================================================================
