-------------------------- MODULE RemoteTipChecker --------------------------
(***************************************************************************)
(* Automatic checks of remote tips (git/remote-tip-checker.ts), with the   *)
(* tracked operations that supersede them (yieldAutoChecks in              *)
(* git/remote-handlers.ts).                                                *)
(*                                                                         *)
(* A request for a checkout becomes an entry of its repository's batch.    *)
(* The background lane serves what the windows show, after a debounce; the *)
(* direct lane serves a selection or a hover.  A batch asks the remotes    *)
(* once and answers all its entries.                                       *)
(*                                                                         *)
(* The 60 seconds for which a round or an answer counts end at any time    *)
(* (Expires).  The wait of a batch for the repository's running check is a *)
(* step of its own even when there is nothing to wait for.  The check      *)
(* itself is one step: when an operation aborts it, its answers are those  *)
(* of an earlier generation whatever they say.                             *)
(***************************************************************************)
EXTENDS Integers, FiniteSets, FiniteSetsExt

CONSTANTS Repos,
          Ids,           \* worktrees
          RepositoryOf,  \* repositoryFor
          Slots,         \* Slots[lane]: the concurrency of the lane's queue
          MaxEntries,    \* bound: entries in a behaviour
          MaxGeneration, \* bound: tracked operations per repository
          MaxPulls,      \* bound: pulls per repository
          MaxSwitches    \* bound: branch switches per worktree

Lanes == {"background", "direct"}

ASSUME CheckerAssumption ==
  /\ IsFiniteSet(Ids)
  /\ RepositoryOf \in [Ids -> Repos]
  /\ Slots \in [Lanes -> Nat \ {0}]
  /\ {MaxEntries, MaxGeneration, MaxPulls} \subseteq Nat
  /\ MaxSwitches \in [Ids -> Nat]

VARIABLES branch,      \* the branch each worktree is on, as a number of switches
          entry,       \* the requests made, in order
          batch,       \* the batches opened, in order
          owner,       \* direct and background: the entry of a key, 0 for none
          open,        \* directBatches and backgroundBatches: 0 for none
          running,     \* running: the batch checking a repository, 0 for none
          generation,  \* generations
          operated,    \* how many operations were asked for, pulls among them
          finished,    \* lastFinished: the generation of a round still fresh, or -1
          answers,     \* answers: the generation of a key's answer still fresh, or -1
          visible,     \* the entry a visible worktree's handle cancels, 0 for none
          focused, stopped

queues == <<entry, batch, owner, open>>
vars == <<branch, queues, running, generation, operated, finished, answers, visible,
          focused, stopped>>

Entries == 1 .. MaxEntries
Keys == UNION {{id} \X (0 .. MaxSwitches[id]) : id \in Ids}
Key(id) == <<id, branch[id]>>

NoEntry == [key |-> <<>>, lane |-> "none", batch |-> 0, at |-> "unused",
            answer |-> "none", gen |-> -1]
NoBatch == [repo |-> "none", lane |-> "none", at |-> "unused"]

Used == {e \in Entries : entry[e].at # "unused"}
Settled(e) == entry[e].at = "settled"
RepoOf(e) == RepositoryOf[entry[e].key[1]]
Members(b) == {e \in Used : entry[e].batch = b}

Init ==
  /\ branch = [id \in Ids |-> 0]
  /\ entry = [e \in Entries |-> NoEntry]
  /\ batch = [b \in Entries |-> NoBatch]
  /\ owner = [l \in Lanes |-> [k \in Keys |-> 0]]
  /\ open = [l \in Lanes |-> [r \in Repos |-> 0]]
  /\ running = [r \in Repos |-> 0]
  /\ generation = [r \in Repos |-> 0]
  /\ operated = [r \in Repos |-> 0]
  /\ finished = [r \in Repos |-> -1]
  /\ answers = [k \in Keys |-> -1]
  /\ visible = [id \in Ids |-> 0]
  /\ focused = TRUE
  /\ stopped = FALSE

-----------------------------------------------------------------------------
(* Entry.cancel for all of es: nothing happens to an entry that has started. *)
Cancelable(es) == {e \in es : entry[e].at = "waiting"}

Settle(ents, es, value) ==
  [e \in Entries |-> IF e \in es THEN [ents[e] EXCEPT !.at = "settled", !.answer = value]
                     ELSE ents[e]]

OwnersWithout(es) ==
  [l \in Lanes |-> [k \in Keys |-> IF owner[l][k] \in es THEN 0 ELSE owner[l][k]]]

JoinsStarted(l, r) == open[l][r] # 0  \* bug: also one that has looked at its entries

(* A batch that new entries of its repository and lane may still join. *)
Joinable(l, r) == open[l][r] # 0 /\ batch[open[l][r]].at \in {"debouncing", "queued"}

(* request() for every worktree of `ids`, none of which has an entry of its key   *)
(* left once `dropped` are cancelled: the new entries, and a batch for each       *)
(* repository that has none to join.                                              *)
AddEntries(l, ids, dropped) ==
  LET n == Cardinality(Used)
      place == CHOOSE f \in [ids -> n + 1 .. n + Cardinality(ids)] :
                 \A i, j \in ids : i # j => f[i] # f[j]
      opening == {r \in Repos : ~ Joinable(l, r) /\ \E i \in ids : RepositoryOf[i] = r}
      first(r) == CHOOSE e \in {place[i] : i \in {j \in ids : RepositoryOf[j] = r}} : TRUE
      batchOf(r) == IF r \in opening THEN first(r) ELSE open[l][r]
  IN
  /\ n + Cardinality(ids) <= MaxEntries
  /\ entry' = [e \in Entries |->
       IF \E i \in ids : place[i] = e
       THEN LET i == CHOOSE j \in ids : place[j] = e IN
            [key |-> Key(i), lane |-> l, batch |-> batchOf(RepositoryOf[i]),
             at |-> "waiting", answer |-> "none", gen |-> generation[RepositoryOf[i]]]
       ELSE Settle(entry, dropped, "superseded")[e]]
  /\ owner' = [OwnersWithout(dropped) EXCEPT ![l] =
       [k \in Keys |-> IF \E i \in ids : Key(i) = k
                       THEN place[CHOOSE i \in ids : Key(i) = k]
                       ELSE OwnersWithout(dropped)[l][k]]]
  /\ open' = [open EXCEPT ![l] = [r \in Repos |-> batchOf(r)]]
  /\ batch' = [b \in Entries |->
       IF \E r \in opening : first(r) = b
       THEN [repo |-> CHOOSE r \in opening : first(r) = b, lane |-> l,
             at |-> IF l = "direct" THEN "queued" ELSE "debouncing"]
       ELSE batch[b]]

(* request(id, "selected" or "hover"): it shares a direct entry or a background    *)
(* check that runs, and takes a background entry that only waits with it.         *)
Select(id) ==
  LET waiting == owner["background"][Key(id)] IN
  /\ ~ stopped
  /\ owner["direct"][Key(id)] = 0
  /\ waiting # 0 => entry[waiting].at # "started"
  /\ AddEntries("direct", {id}, {waiting} \ {0})
  /\ UNCHANGED <<branch, running, generation, operated, finished, answers, visible,
                 focused, stopped>>

Owned(id) == \E l \in Lanes : owner[l][Key(id)] # 0

HandleOfAny(o, id) ==  \* bug: a window that scrolls away cancels a selection
  IF o["direct"][Key(id)] # 0 THEN o["direct"][Key(id)] ELSE o["background"][Key(id)]

(* The entry that the handle of a viewport request cancels: none of the direct lane. *)
Handle(o, id) == IF o["direct"][Key(id)] # 0 THEN 0 ELSE o["background"][Key(id)]

(* reconcile(): handles of what is no longer visible are cancelled; if the app is  *)
(* focused, each visible worktree whose repository has no fresh round is requested *)
(* and its handle kept.                                                           *)
Reconcile(ids) ==
  LET left == {id \in Ids : visible[id] # 0 /\ id \notin ids}
      dropped == Cancelable({visible[id] : id \in left})
      asked == IF focused THEN {id \in ids : finished[RepositoryOf[id]] = -1} ELSE {}
      new == {id \in asked : ~ Owned(id)}
  IN
  /\ ~ stopped
  /\ AddEntries("background", new, dropped)
  /\ visible' = [id \in Ids |->
       IF id \in asked THEN Handle(owner', id)
       ELSE IF id \in left THEN 0
       ELSE visible[id]]

(* report(), releaseWebContents(), focus() and tick(): ids is what the windows show *)
(* together.                                                                      *)
Report(ids) ==
  /\ Reconcile(ids)
  /\ UNCHANGED <<branch, running, generation, operated, finished, answers, focused, stopped>>

KeepsCache(r) == answers  \* bug: an operation leaves the answers it made stale

CacheWithout(r) == [k \in Keys |-> IF RepositoryOf[k[1]] = r THEN -1 ELSE answers[k]]

(* tracked() calls yieldAutoChecks before it queues: checks under way are aborted  *)
(* and everything known or queued about the repository is dropped.                *)
TrackedOperation(r) ==
  LET es == Cancelable({e \in Used : RepoOf(e) = r}) IN
  /\ ~ stopped
  /\ generation[r] < MaxGeneration
  /\ generation' = [generation EXCEPT ![r] = @ + 1]
  /\ operated' = [operated EXCEPT ![r] = @ + 1]
  /\ finished' = [finished EXCEPT ![r] = -1]
  /\ answers' = CacheWithout(r)
  /\ entry' = Settle(entry, es, "superseded")
  /\ owner' = OwnersWithout(es)
  /\ UNCHANGED <<branch, batch, open, running, visible, focused, stopped>>

(* runPull is no tracked() operation: it goes to the repository's lock at once.    *)
Pull(r) ==
  /\ ~ stopped
  /\ operated[r] < generation[r] + MaxPulls
  /\ operated' = [operated EXCEPT ![r] = @ + 1]
  /\ UNCHANGED <<branch, queues, running, generation, finished, answers, visible,
                 focused, stopped>>

(* stop(): the timers of batches that still wait for their debounce are cleared. *)
Stop ==
  LET es == Cancelable(Used) IN
  /\ ~ stopped
  /\ stopped' = TRUE
  /\ entry' = Settle(entry, es, "superseded")
  /\ owner' = OwnersWithout(es)
  /\ batch' = [b \in Entries |-> IF batch[b].at = "debouncing"
                                 THEN [batch[b] EXCEPT !.at = "cleared"] ELSE batch[b]]
  /\ visible' = [id \in Ids |-> 0]
  /\ finished' = [r \in Repos |-> -1]
  /\ answers' = [k \in Keys |-> -1]
  /\ UNCHANGED <<branch, open, running, generation, operated, focused>>

-----------------------------------------------------------------------------
(* Batches *)

Debounced(b) ==
  /\ batch[b].at = "debouncing"
  /\ batch' = [batch EXCEPT ![b].at = "queued"]
  /\ UNCHANGED <<branch, entry, owner, open, running, generation, operated, finished, answers,
                 visible, focused, stopped>>

Busy(l) == Cardinality({b \in Entries : batch[b].lane = l /\ batch[b].at \in {"started", "checking"}})

(* valid(): what still holds for an entry when its batch gets to run. *)
Valid(b) ==
  {e \in Members(b) :
    /\ ~ Settled(e)
    /\ ~ stopped
    /\ Key(entry[e].key[1]) = entry[e].key
    /\ batch[b].lane = "direct" \/ focused}

KeepsOwners(o, b) == o  \* bug: the batch's keys stay taken

(* forget(): no key or repository points to the batch any more. *)
Forgotten(o, b) ==
  [l \in Lanes |-> [k \in Keys |-> IF l = batch[b].lane /\ o[l][k] \in Members(b) THEN 0
                                   ELSE o[l][k]]]

OpenWithout(b) == [l \in Lanes |-> [r \in Repos |-> IF open[l][r] = b THEN 0 ELSE open[l][r]]]

(* The queue calls run(): the batch takes no more entries. *)
RunStarts(b) ==
  LET invalid == Cancelable(Members(b) \ Valid(b))
      done == Valid(b) = {}
      o == OwnersWithout(invalid)
  IN
  /\ batch[b].at = "queued"
  /\ Busy(batch[b].lane) < Slots[batch[b].lane]
  /\ entry' = Settle(entry, invalid, "superseded")
  /\ batch' = [batch EXCEPT ![b].at = IF done THEN "done" ELSE "started"]
  /\ owner' = IF done THEN Forgotten(o, b) ELSE o
  /\ open' = IF done THEN OpenWithout(b) ELSE open
  /\ UNCHANGED <<branch, running, generation, operated, finished, answers, visible,
                 focused, stopped>>

IgnoresRunning(b) == TRUE  \* bug: direct and background batches check side by side

Alone(b) == running[batch[b].repo] = 0

(* A background batch after a fresh round, or one whose entries all have fresh    *)
(* answers, asks no remote.                                                       *)
NeedsNoCheck(b) ==
  /\ batch[b].lane = "background"
  /\ \/ finished[batch[b].repo] # -1
     \/ \A e \in Valid(b) : answers[entry[e].key] # -1

Recalled(ents, b) ==
  [e \in Entries |->
    IF e \in Valid(b)
    THEN [ents[e] EXCEPT !.at = "settled", !.answer = "answered"]
    ELSE ents[e]]

(* After the wait: what became invalid is cancelled, and the rest is answered from *)
(* what is known or goes to the remotes.                                          *)
RunGoes(b) ==
  LET invalid == Cancelable(Members(b) \ Valid(b))
      kept == Settle(entry, invalid, "superseded")
      o == OwnersWithout(invalid)
  IN
  /\ batch[b].at = "started"
  /\ Alone(b)
  /\ IF Valid(b) = {} \/ NeedsNoCheck(b)
     THEN /\ entry' = Recalled(kept, b)
          /\ batch' = [batch EXCEPT ![b].at = "done"]
          /\ owner' = Forgotten(o, b)
          /\ open' = OpenWithout(b)
          /\ UNCHANGED running
     ELSE /\ entry' = [e \in Entries |-> IF e \in Valid(b) THEN [entry[e] EXCEPT
                          !.at = "started", !.gen = generation[batch[b].repo]] ELSE kept[e]]
          /\ batch' = [batch EXCEPT ![b].at = "checking"]
          /\ running' = [running EXCEPT ![batch[b].repo] = b]
          /\ owner' = o
          /\ UNCHANGED open
  /\ UNCHANGED <<branch, generation, operated, finished, answers, visible, focused, stopped>>

Started(b) == {e \in Members(b) : entry[e].at = "started"}

SameGeneration(e) == ~ stopped /\ generation[RepoOf(e)] = entry[e].gen

IgnoresBranch(e) == SameGeneration(e)  \* bug: a check of the branch that was left counts

Current(e) == SameGeneration(e) /\ Key(entry[e].key[1]) = entry[e].key

(* The check returns, or throws, with an answer for each entry; `good` are those   *)
(* that are no errors and are kept.  Answers that are not current are superseded; *)
(* a background round that ends in its own generation is fresh.                   *)
CheckEnds(b) ==
  /\ batch[b].at = "checking"
  /\ \E good \in SUBSET Started(b) :
       LET r == batch[b].repo
           cached == {e \in good : Current(e)}
       IN
       /\ entry' = [e \in Entries |->
            IF e \in Started(b)
            THEN [entry[e] EXCEPT !.at = "settled",
                    !.answer = IF Current(e) THEN "answered" ELSE "superseded"]
            ELSE entry[e]]
       /\ answers' = [k \in Keys |-> IF \E e \in cached : entry[e].key = k
                        THEN Min({entry[e].gen : e \in {d \in cached : entry[d].key = k}})
                        ELSE answers[k]]
       /\ finished' = [finished EXCEPT ![r] =
            IF batch[b].lane = "background" /\ \E e \in Started(b) : SameGeneration(e)
            THEN Min({entry[e].gen : e \in Started(b)}) ELSE @]
       /\ batch' = [batch EXCEPT ![b].at = "done"]
       /\ running' = [running EXCEPT ![r] = IF @ = b THEN 0 ELSE @]
       /\ owner' = Forgotten(owner, b)
       /\ open' = OpenWithout(b)
  /\ UNCHANGED <<branch, generation, operated, visible, focused, stopped>>

-----------------------------------------------------------------------------
(* The world *)

(* A checkout switches branches, through the app or not. *)
SwitchBranch(id) ==
  /\ branch[id] < MaxSwitches[id]
  /\ branch' = [branch EXCEPT ![id] = @ + 1]
  /\ UNCHANGED <<queues, running, generation, operated, finished, answers, visible,
                 focused, stopped>>

FocusChanges ==
  /\ focused' = ~ focused
  /\ UNCHANGED <<branch, queues, running, generation, operated, finished, answers, visible,
                 stopped>>

(* Sixty seconds have passed since a round or since an answer. *)
Expires ==
  /\ \/ \E r \in Repos : /\ finished[r] # -1
                         /\ finished' = [finished EXCEPT ![r] = -1]
                         /\ UNCHANGED answers
     \/ \E k \in Keys : /\ answers[k] # -1
                        /\ answers' = [answers EXCEPT ![k] = -1]
                        /\ UNCHANGED finished
  /\ UNCHANGED <<branch, queues, running, generation, operated, visible, focused, stopped>>

BatchStep(b) == Debounced(b) \/ RunStarts(b) \/ RunGoes(b) \/ CheckEnds(b)

Next ==
  \/ \E id \in Ids : Select(id) \/ SwitchBranch(id)
  \/ \E ids \in SUBSET Ids : Report(ids)
  \/ \E r \in Repos : TrackedOperation(r) \/ Pull(r)
  \/ \E b \in Entries : BatchStep(b)
  \/ Stop
  \/ FocusChanges
  \/ Expires

(* Timers fire, queues move, and a check ends: its signal aborts it after 12 s. *)
Fairness == \A b \in Entries : WF_vars(BatchStep(b))

Spec == Init /\ [][Next]_vars /\ Fairness

-----------------------------------------------------------------------------
(* Properties *)

(* "A direct batch and a background batch must not advertise the same repo          *)
(* concurrently": nor may two batches of one lane.                                *)
OneCheckPerRepository ==
  \A a, b \in Entries : batch[a].at = "checking" /\ batch[b].at = "checking"
                          /\ batch[a].repo = batch[b].repo => a = b

(* Nothing learnt before the latest explicit operation on a repository is reused   *)
(* after it: neither a cached answer nor the round that postpones the next one;    *)
(* and no request is handed an entry that is settled, or a batch that has ended.   *)
NothingStaleReused ==
  /\ \A k \in Keys : answers[k] # -1 => answers[k] = generation[RepositoryOf[k[1]]]
  /\ \A r \in Repos : finished[r] # -1 => finished[r] = generation[r]
  /\ \A l \in Lanes, k \in Keys : owner[l][k] # 0 => ~ Settled(owner[l][k])
  /\ \A l \in Lanes, r \in Repos : open[l][r] # 0 => batch[open[l][r]].at # "done"

(* A selection is answered unless the repository was operated on, the branch moved *)
(* or the app stops: scrolling, losing the focus, other windows' reports and      *)
(* background rounds take nothing away from it.                                   *)
OnlySupersededForCause ==
  \A e \in Used :
    entry[e].lane = "direct" /\ entry[e].answer = "superseded"
      => \/ stopped
         \/ entry[e].gen # generation[RepoOf(e)]
         \/ Key(entry[e].key[1]) # entry[e].key

(* An answer, new or recalled, is about the branch the checkout is on when given.  *)
AnsweredForTheBranch ==
  [][\A e \in Entries :
       entry[e].answer # "answered" /\ entry'[e].answer = "answered"
         => Key(entry[e].key[1]) = entry[e].key]_vars

(* "An explicit Git operation supersedes queued checks and their freshness", and    *)
(* the checks "give way to any tracked operation on the same repository": from    *)
(* then on nothing asked or learnt before it counts.                              *)
OperationsSupersede ==
  [][\A r \in Repos : operated'[r] # operated[r] =>
       /\ generation'[r] # generation[r]
       /\ finished'[r] = -1
       /\ \A k \in Keys : RepositoryOf[k[1]] = r => answers'[k] = -1
       /\ \A e \in Used : RepoOf(e) = r => entry'[e].at # "waiting"]_vars

(* Whoever asked gets an answer. *)
EveryRequestSettles == \A e \in Entries : entry[e].at = "waiting" ~> entry[e].at = "settled"
=============================================================================
