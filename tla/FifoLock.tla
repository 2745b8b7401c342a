------------------------------ MODULE FifoLock ------------------------------
(***************************************************************************)
(* What WorktreeOperationQueue promises its callers                        *)
(* (apps/desktop/src/main/git/worktree-operation-queue.ts): for each scope *)
(* key a line of callers, the one at the head holds the key, and nobody    *)
(* overtakes.  A caller leaves only from the head.  How the promise chain  *)
(* keeps that promise is OperationQueue, which OperationQueueProofs shows  *)
(* to implement this module; StatusProbes and BulkSync, which take the     *)
(* locks, are built on it.                                                 *)
(***************************************************************************)
EXTENDS Sequences, Naturals

CONSTANTS Keys,   \* the scope keys, repository:<id> and worktree:<id>
          Actors  \* whoever waits for or holds a key

VARIABLE line     \* line[k]: the actors holding (first) or awaiting k, in order

Waits(a, k) == \E i \in DOMAIN line[k] : line[k][i] = a

Holds(a, k) == line[k] # <<>> /\ Head(line[k]) = a

LockTypeOK == line \in [Keys -> Seq(Actors)]

LockInit == line = [k \in Keys |-> <<>>]

(* Joining the line is synchronous: the caller's place is fixed by its call *)
Enter(a, k) ==
  /\ ~ Waits(a, k)
  /\ line' = [line EXCEPT ![k] = Append(@, a)]

Leave(a, k) ==
  /\ Holds(a, k)
  /\ line' = [line EXCEPT ![k] = Tail(@)]

LockNext == \E a \in Actors, k \in Keys : Enter(a, k) \/ Leave(a, k)

(* Every holder lets go in the end, so everyone in line gets its turn. *)
LockFairness == \A k \in Keys : WF_line(\E a \in Actors : Leave(a, k))

LockSpec == LockInit /\ [][LockNext]_line /\ LockFairness
=============================================================================
