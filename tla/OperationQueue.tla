--------------------------- MODULE OperationQueue ---------------------------
(***************************************************************************)
(* WorktreeOperationQueue: the keyed promise chain behind every Git        *)
(* operation of the main process (git/worktree-operation-queue.ts).        *)
(*                                                                         *)
(* One member of Calls is one call of runScoped.  It is made by a handler  *)
(* (parent = None) or by code whose AsyncLocalStorage context is that of   *)
(* another call's operation: code the operation awaits, or a descendant    *)
(* that may outlive it.  The context lists the calls whose scopes it was   *)
(* started under; a scope's `released` flag is status = "done".            *)
(*                                                                         *)
(* The statements of runScoped between two awaits are one step:            *)
(*   - the check of the context and, unless refused, joining the chain;    *)
(*   - going on after `await previous`;                                    *)
(*   - the operation's end with the finally block.                         *)
(***************************************************************************)
EXTENDS Sequences, Naturals

CONSTANTS RepoKeys,      \* repository:<id>
          WorktreeKeys,  \* worktree:<id>
          Calls,         \* the calls of runScoped in a behaviour
          None,          \* no call: no predecessor, no parent, no tail
          Asks           \* Asks[k]: what code running under k tries to take

Keys == RepoKeys \cup WorktreeKeys

(* The repository nests repository -> worktree only.  No code running under a     *)
(* repository asks for another repository, none running under a worktree for      *)
(* another worktree: the queue would not refuse either.                           *)
ASSUME ScopeAssumption ==
  /\ RepoKeys \cap WorktreeKeys = {}
  /\ None \notin Calls
  /\ Asks \in [Keys -> SUBSET Keys]
  /\ \A k \in RepoKeys : Asks[k] \cap RepoKeys \subseteq {k}
  /\ \A k \in WorktreeKeys : Asks[k] \cap WorktreeKeys \subseteq {k}

VARIABLES status,   \* how far each call has come
          key,      \* the key it asked for
          parent,   \* the call whose context it was made in, or None
          awaited,  \* whether the parent's operation waits for it
          held,     \* its live context when it was made (`held`)
          prev,     \* the call whose tail it waits for (`previous`)
          tails,    \* the tail promise of each key, named by its call (`tails`)
          line      \* history: unfinished calls of each key, in order of calling

vars == <<status, key, parent, awaited, held, prev, tails, line>>

Statuses == {"new", "refused", "queued", "running", "done"}

Shape ==
  /\ status \in [Calls -> Statuses]
  /\ key \in [Calls -> Keys \cup {None}]
  /\ parent \in [Calls -> Calls \cup {None}]
  /\ awaited \in [Calls -> BOOLEAN]
  /\ held \in [Calls -> SUBSET Calls]
  /\ prev \in [Calls -> Calls \cup {None}]
  /\ tails \in [Keys -> Calls \cup {None}]
  /\ line \in [Keys -> Seq(Calls)]

Unfinished(a) == status[a] \in {"queued", "running"}

(* Types, with a tail always that of a call still to finish. *)
TypeOK == Shape /\ \A k \in Keys : tails[k] # None => Unfinished(tails[k])

-----------------------------------------------------------------------------
(* The store of the code running in the context of p's operation. *)
Context(p) == IF p = None THEN {} ELSE held[p] \cup {p}

(* Only live tokens represent locks. *)
StaleContext(p) == Context(p)  \* bug: released tokens still count

LiveScopes(p) == {s \in Context(p) : status[s] # "done"}

NoReentryCheck(k, p) == FALSE  \* bug: an operation may queue behind itself

Reentrant(k, p) == \E s \in LiveScopes(p) : key[s] = k

NoOrderCheck(k, p) == FALSE  \* bug: a worktree operation may ask for a repository

Inverted(k, p) == k \in RepoKeys /\ \E s \in LiveScopes(p) : key[s] \in WorktreeKeys

Refused(k, p) == Reentrant(k, p) \/ Inverted(k, p)

(* A handler may ask for any key.  Code of an operation asks for what Asks says,  *)
(* and only code that outlives its operation, which nobody awaits, runs after it. *)
MayAsk(p, k, aw) ==
  \/ p = None /\ ~ aw
  \/ /\ p # None
     /\ status[p] = "running" \/ (status[p] = "done" /\ ~ aw)
     /\ k \in Asks[key[p]]

Init ==
  /\ status = [a \in Calls |-> "new"]
  /\ key = [a \in Calls |-> None]
  /\ parent = [a \in Calls |-> None]
  /\ awaited = [a \in Calls |-> FALSE]
  /\ held = [a \in Calls |-> {}]
  /\ prev = [a \in Calls |-> None]
  /\ tails = [k \in Keys |-> None]
  /\ line = [k \in Keys |-> <<>>]

(* runScoped throws before it touches the chain. *)
Refuse(a, k, p, aw) ==
  /\ status[a] = "new"
  /\ MayAsk(p, k, aw)
  /\ Refused(k, p)
  /\ status' = [status EXCEPT ![a] = "refused"]
  /\ key' = [key EXCEPT ![a] = k]
  /\ parent' = [parent EXCEPT ![a] = p]
  /\ awaited' = [awaited EXCEPT ![a] = aw]
  /\ UNCHANGED <<held, prev, tails, line>>

(* runScoped takes the key's tail as its predecessor and becomes the tail. *)
Enqueue(a, k, p, aw) ==
  /\ status[a] = "new"
  /\ MayAsk(p, k, aw)
  /\ ~ Refused(k, p)
  /\ status' = [status EXCEPT ![a] = "queued"]
  /\ key' = [key EXCEPT ![a] = k]
  /\ parent' = [parent EXCEPT ![a] = p]
  /\ awaited' = [awaited EXCEPT ![a] = aw]
  /\ held' = [held EXCEPT ![a] = LiveScopes(p)]
  /\ prev' = [prev EXCEPT ![a] = tails[k]]
  /\ tails' = [tails EXCEPT ![k] = a]
  /\ line' = [line EXCEPT ![k] = Append(@, a)]

(* A tail resolves once its call has run release(). *)
NoWaiting(p) == TRUE  \* bug: the predecessor is not awaited

TailResolved(p) == \A b \in Calls : b = p => status[b] = "done"

(* After `await previous` the operation runs with its own scope added. *)
Start(a) ==
  /\ status[a] = "queued"
  /\ TailResolved(prev[a])
  /\ status' = [status EXCEPT ![a] = "running"]
  /\ UNCHANGED <<key, parent, awaited, held, prev, tails, line>>

TailsNeverDeleted(a) == tails  \* bug: idle keys stay in the map

TailsAlwaysDeleted(a) == [tails EXCEPT ![key[a]] = None]  \* bug: of whoever is last

(* The tail goes only while it is still this call's. *)
TailsAfter(a) == IF tails[key[a]] = a THEN [tails EXCEPT ![key[a]] = None] ELSE tails

(* History only: a call that ends leaves its line, from the head or not. *)
Without(a, l) == IF Head(l) = a THEN Tail(l) ELSE SelectSeq(l, LAMBDA b : b # a)

(* The operation settles, which it does after what it awaits, and the finally     *)
(* block releases; a throw and a return are the same here.                        *)
Finish(a) ==
  /\ status[a] = "running"
  /\ \A c \in Calls : parent[c] = a /\ awaited[c] => ~ Unfinished(c)
  /\ status' = [status EXCEPT ![a] = "done"]
  /\ tails' = TailsAfter(a)
  /\ line' = [line EXCEPT ![key[a]] = Without(a, @)]
  /\ UNCHANGED <<key, parent, awaited, held, prev>>

Next ==
  \/ \E a \in Calls, k \in Keys, p \in Calls \cup {None}, aw \in BOOLEAN :
       Refuse(a, k, p, aw) \/ Enqueue(a, k, p, aw)
  \/ \E a \in Calls : Start(a) \/ Finish(a)

(* A settled promise resumes its awaiter, and an operation ends: the Git           *)
(* processes it runs exit or are stopped.  Nothing makes a handler call.          *)
Fairness == \A a \in Calls : WF_vars(Start(a)) /\ WF_vars(Finish(a))

Spec == Init /\ [][Next]_vars /\ Fairness

-----------------------------------------------------------------------------
(* Properties *)

(* Two operations under one key never overlap: checkout mutations, status reads    *)
(* and fetches of one scope are serialised (the purpose of the queue).            *)
MutualExclusion ==
  \A a, b \in Calls :
    status[a] = "running" /\ status[b] = "running" /\ key[a] = key[b] => a = b

(* What an unfinished call cannot finish without: its predecessor while queued,   *)
(* the calls its operation awaits while running.                                  *)
WaitsFor(a) ==
  CASE status[a] = "queued"  -> {b \in Calls : prev[a] = b /\ Unfinished(b)}
    [] status[a] = "running" -> {b \in Calls : parent[b] = a /\ awaited[b] /\ Unfinished(b)}
    [] OTHER -> {}

(* The comment on the class: reversed acquisition and same-scope reentry never    *)
(* lead to "waiting on a cycle".  Every set of calls has one that waits for none  *)
(* of the others.                                                                 *)
NoWaitCycle ==
  \A S \in SUBSET {a \in Calls : Unfinished(a)} :
    S # {} => \E a \in S : WaitsFor(a) \cap S = {}

(* The map holds exactly the keys somebody holds or awaits: an idle key leaves no  *)
(* entry behind, and a busy one is never forgotten by an earlier call's cleanup.  *)
TailsAreLive ==
  \A k \in Keys : (tails[k] # None) <=> \E a \in Calls : key[a] = k /\ Unfinished(a)

(* The calls a call descends from: those that are in every set which has its parent *)
(* and the parents of its members.                                                *)
Ancestors(a) ==
  {s \in Calls : \A S \in SUBSET Calls :
     /\ parent[a] \in S \cup {None}
     /\ \A b \in S : parent[b] \in S \cup {None}
     => s \in S}

(* "stale context must not refuse a later timer/continuation's otherwise valid    *)
(* acquisition": a call is refused only if an operation it descends from is       *)
(* running right now, under its key or, for a repository, under a worktree.       *)
RefusedOnlyByRunning ==
  [][\A a \in Calls : status[a] # "refused" /\ status'[a] = "refused" =>
       \E s \in Ancestors(a)' :
         /\ status[s] = "running"
         /\ key[s] = key'[a] \/ (key'[a] \in RepoKeys /\ key[s] \in WorktreeKeys)]_vars

(* The chain of promises implements the line of FifoLock: the place is taken when *)
(* the call is made, the head alone leaves, and the line keeps moving.            *)
Lock == INSTANCE FifoLock WITH Actors <- Calls
FifoOrder == Lock!LockSpec
=============================================================================
