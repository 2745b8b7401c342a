-------------------------- MODULE PullFastForward --------------------------
(***************************************************************************)
(* Pull (pullFastForward in git/git-service.ts) under runPull's watchdogs  *)
(* (git/remote-handlers.ts, git/pull-watchdog.ts): fetch, save uncommitted *)
(* work in a stash, fast-forward, put the work back; roll back if the      *)
(* merge fails.                                                            *)
(*                                                                         *)
(* The operation queue keeps PwrGit's own operations away, so whoever else *)
(* acts is an outsider: an agent or a terminal in the checkout, or in a    *)
(* sibling worktree, with which the stash list is shared.  Every Git       *)
(* command is one step with the outcomes it can have; it may fail, wedge,  *)
(* or be killed by the user's cancel or a watchdog after any part of its   *)
(* effect.                                                                 *)
(*                                                                         *)
(* Work is a set of edits.  An edit is to a tracked file or is a new file, *)
(* and clashes or not with what the upstream changes (a clashing new file  *)
(* is at a path that the upstream adds).  A commit is the branch it is of, *)
(* whether it has the upstream's commits, and the work committed on top.   *)
(***************************************************************************)
EXTENDS Integers, Sequences, FiniteSets, SequencesExt

CONSTANTS Edits,         \* work in this checkout
          Foreign,       \* work of sibling worktrees
          Tracked,       \* edits to tracked files
          Clashing,      \* edits that overlap what the upstream changes
          Branches,
          Main,          \* the branch checked out at first
          MaxOutside,    \* bound: how often outsiders act
          None

ASSUME PullAssumption ==
  /\ Tracked \subseteq Edits /\ Clashing \subseteq Edits
  /\ Edits \cap Foreign = {}
  /\ None \notin [by : {"pull", "other"}, edits : SUBSET (Edits \cup Foreign)]
  /\ Main \in Branches
  /\ MaxOutside \in Nat

VARIABLES pull,      \* the running pull: its step and what it has learnt
          signal,    \* the signal of its commands: "live", or why it aborted
          recovery,  \* that of its recovery commands, "off" before startRecovery
          wedged,    \* the running command makes no progress
          branch,    \* the branch checked out
          tip,       \* each branch's commit
          work,      \* the uncommitted work in the checkout
          unmerged,  \* whether paths are unmerged
          stashes,   \* the stash list, newest first
          outside,   \* what outsiders did: how often, and what they committed and dropped
          vanished   \* work a command of the pull took away from the checkout

world == <<branch, tip, work, unmerged, stashes>>
control == <<signal, recovery, wedged>>
vars == <<pull, control, world, outside, vanished>>

Commit(b) == [of |-> b, born |-> TRUE, ff |-> FALSE, top |-> {}]
Unborn(b) == [Commit(b) EXCEPT !.born = FALSE]
Upstream(b) == [Commit(b) EXCEPT !.ff = TRUE]

RecoverySteps == {"reapply", "fallback", "plain", "conflicts",
                  "owned again", "reset", "clean", "restore"}
PrimarySteps == {"head", "fetch", "resolve", "status", "stash", "owned", "merge"}

Init ==
  /\ pull = [at |-> "head", original |-> None, target |-> None, seen |-> {},
             stashed |-> FALSE, pushFailed |-> FALSE, sha |-> None, failure |-> "none",
             outcome |-> "none"]
  /\ signal = "live" /\ recovery = "off" /\ wedged = FALSE
  /\ branch = Main
  /\ \E first \in {Commit(Main), Unborn(Main), Upstream(Main)} :
       tip = [b \in Branches |-> IF b = Main THEN first ELSE Commit(b)]
  /\ work \in SUBSET Edits
  /\ unmerged = FALSE
  /\ stashes = <<>>
  /\ outside = [acts |-> 0, committed |-> {}, dropped |-> {}]
  /\ vanished = {}

-----------------------------------------------------------------------------
(* Commands *)

OneSignal(at) == signal  \* bug: recovery commands listen to the user's cancel too

SignalOf(at) == IF at \in RecoverySteps THEN recovery ELSE signal

(* The command of step `at` ends by itself, or is killed.                         *)
Returns(at) == pull.at = at /\ ~ wedged /\ SignalOf(at) = "live"
Killed(at) == pull.at = at /\ SignalOf(at) # "live"

Ended(outcome) == pull' = [pull EXCEPT !.at = "done", !.outcome = outcome]

Goes(at) == pull' = [pull EXCEPT !.at = at]

Unchanged == UNCHANGED <<control, world, outside, vanished>>

NoRecovery == UNCHANGED recovery  \* bug: recovery runs without signal and watchdog

(* startRecovery: a fresh signal and watchdog, and the first watchdog stops.       *)
StartRecovery == recovery' = "live"

(* rollbackFailedMerge: unless the stash's commit is known, it is looked for first. *)
RollsBack(p, failure) ==
  /\ StartRecovery
  /\ pull' = [p EXCEPT !.failure = failure,
                !.at = IF p.stashed /\ p.sha = None THEN "owned again" ELSE "reset"]

-----------------------------------------------------------------------------
(* Reading and fetching: nothing is changed, and a failure is the pull's.          *)

Reads == {"head", "fetch", "resolve", "status"}

ReadFails ==
  \E at \in Reads :
    /\ \/ Returns(at) /\ Ended("failed")
       \/ Killed(at) /\ Ended(signal)
    /\ Unchanged

ReadHead ==
  /\ Returns("head")
  /\ pull' = [pull EXCEPT !.at = "fetch", !.original = tip[branch]]
  /\ Unchanged

Fetch == Returns("fetch") /\ Goes("resolve") /\ Unchanged

(* The commit to move to, and the paths it adds.  The pull may be a fork's sync,   *)
(* which is for the branch it was asked for and stops at any other.               *)
Resolve ==
  /\ Returns("resolve")
  /\ \/ branch # Main /\ Ended("stale")
     \/ pull' = [pull EXCEPT !.at = "status", !.target = Upstream(branch)]
  /\ Unchanged

Status ==
  /\ Returns("status")
  /\ pull' = [pull EXCEPT !.seen = work, !.at = IF work = {} THEN "merge" ELSE "stash"]
  /\ Unchanged

-----------------------------------------------------------------------------
(* Saving *)

Saved == <<[by |-> "pull", edits |-> work]>> \o stashes

CanStash == work # {} /\ tip[branch].born

(* git stash push --include-untracked *)
StashPush ==
  /\ Returns("stash") /\ tip[branch].born
  /\ IF work = {}
     THEN Goes("merge") /\ UNCHANGED <<stashes, work, unmerged>>
     ELSE /\ pull' = [pull EXCEPT !.at = "owned", !.stashed = TRUE]
          /\ stashes' = Saved
          /\ work' = {} /\ unmerged' = FALSE
  /\ UNCHANGED <<control, branch, tip, outside, vanished>>

(* It fails, or is killed, before it has saved the work, before it has taken it    *)
(* from the checkout, or at the end.                                              *)
StashPushFails ==
  /\ Returns("stash") \/ Killed("stash")
  /\ RollsBack([pull EXCEPT !.stashed = TRUE, !.pushFailed = TRUE],
               IF signal = "live" THEN "failed" ELSE signal)
  /\ \/ UNCHANGED <<stashes, work>>
     \/ CanStash /\ stashes' = Saved /\ UNCHANGED work
     \/ CanStash /\ stashes' = Saved /\ work' = {}
  /\ UNCHANGED <<signal, wedged, branch, tip, unmerged, outside, vanished>>

TopOfStack == IF stashes = <<>> THEN {} ELSE {1}  \* bug: stash@{0}, whoever pushed it

(* The entries with the message that only this pull uses. *)
OwnEntries == {i \in DOMAIN stashes : stashes[i].by = "pull"}

OwnStash == stashes[CHOOSE i \in OwnEntries : TRUE]

Owned ==
  /\ Returns("owned")
  /\ IF Cardinality(OwnEntries) = 1
     THEN pull' = [pull EXCEPT !.sha = OwnStash, !.at = "merge"]
     ELSE Ended("ownership")
  /\ Unchanged

OwnedFails ==
  /\ Returns("owned") \/ Killed("owned")
  /\ RollsBack(pull, IF signal = "live" THEN "failed" ELSE signal)
  /\ UNCHANGED <<signal, wedged, world, outside, vanished>>

-----------------------------------------------------------------------------
(* Fast-forwarding *)

UpToDate == tip[branch].of = pull.target.of /\ tip[branch].ff

(* Nothing is on top of what the target grew from, and no work is in the way.     *)
CanMerge == tip[branch].top = {} /\ work \cap Clashing = {}

Merge ==
  /\ Returns("merge")
  /\ UpToDate \/ CanMerge
  /\ tip' = IF UpToDate THEN tip ELSE [tip EXCEPT ![branch] = pull.target]
  /\ IF pull.sha = None
     THEN Ended("pulled") /\ UNCHANGED recovery
     ELSE Goes("reapply") /\ StartRecovery
  /\ UNCHANGED <<signal, wedged, branch, work, unmerged, stashes, outside, vanished>>

(* Git refuses, a filter fails, or the command is killed early or late.            *)
MergeFails ==
  /\ \/ Returns("merge") /\ RollsBack(pull, "failed") /\ UNCHANGED tip
     \/ /\ Killed("merge")
        /\ RollsBack(pull, signal)
        /\ \/ UNCHANGED tip
           \/ CanMerge /\ tip' = [tip EXCEPT ![branch] = pull.target]
  /\ UNCHANGED <<signal, wedged, branch, work, unmerged, stashes, outside, vanished>>

-----------------------------------------------------------------------------
(* applyPullStash: `at` applies the saved commit, Applied when it succeeds; it may *)
(* fail without or with a trace.                                                  *)
Overlaps == tip[branch] # pull.original /\ pull.sha.edits \cap Clashing # {}

Applied(at) ==
  /\ Returns(at) /\ ~ Overlaps
  /\ work' = work \cup pull.sha.edits
  /\ UNCHANGED <<control, branch, tip, unmerged, stashes, outside, vanished>>

NotApplied(at) ==
  /\ Returns(at) \/ Killed(at)
  /\ \/ UNCHANGED <<work, unmerged>>
     \/ work' = work \cup pull.sha.edits /\ unmerged' = (unmerged \/ Overlaps)
  /\ UNCHANGED <<control, branch, tip, stashes, outside, vanished>>

(* After a fast-forward, conflicts are the user's to resolve. *)
Reapply == \E at \in {"reapply", "plain"} : Applied(at) /\ Ended("pulled")

ReapplyFails ==
  \E at \in {"reapply", "plain"} :
    /\ NotApplied(at)
    /\ \/ Killed(at) /\ Ended("timed out")
       \/ Returns(at) /\ Goes(IF at = "reapply" THEN "fallback" ELSE "conflicts")

(* Only if --index has refused before touching anything is it tried without.       *)
Fallback ==
  /\ Returns("fallback")
  /\ Goes(IF work = {} /\ ~ unmerged THEN "plain" ELSE "conflicts")
  /\ Unchanged

Conflicts ==
  /\ Returns("conflicts")
  /\ Ended(IF unmerged THEN "pulled with conflicts" ELSE "not reapplied")
  /\ Unchanged

ReapplyReadFails ==
  \E at \in {"fallback", "conflicts"} :
    /\ \/ Returns(at) /\ Ended("not reapplied")
       \/ Killed(at) /\ Ended("timed out")
    /\ Unchanged

-----------------------------------------------------------------------------
(* Rolling back *)

ResetsAnyway == Goes("reset")  \* bug: the checkout is reset though nothing was saved

(* No proven ownership: the checkout stays as it is. *)
WithoutProof == Ended(IF pull.pushFailed THEN pull.failure ELSE "ownership")

OwnedAgain ==
  /\ Returns("owned again")
  /\ IF Cardinality(OwnEntries) = 1
     THEN pull' = [pull EXCEPT !.sha = OwnStash, !.at = "reset"]
     ELSE WithoutProof
  /\ Unchanged

OwnedAgainFails ==
  /\ Returns("owned again") \/ Killed("owned again")
  /\ Ended("not restored")
  /\ Unchanged

(* git reset --hard, or update-ref -d and read-tree --empty of an unborn branch.   *)
Reset ==
  LET left == IF pull.original.born THEN work \ Tracked ELSE work IN
  /\ tip' = [tip EXCEPT ![branch] = pull.original]
  /\ work' = left
  /\ vanished' = vanished \cup (work \ left)
  /\ unmerged' = FALSE

RollbackResets ==
  /\ Returns("reset")
  /\ Goes("clean")
  /\ Reset
  /\ UNCHANGED <<control, branch, stashes, outside>>

CleansAll == work \ Tracked  \* bug: every untracked file of the checkout

(* git clean -fd of the paths the upstream adds; nothing is tracked if unborn.     *)
Cleaned == (IF pull.original.born THEN work \ Tracked ELSE work) \cap Clashing

Cleans ==
  /\ work' = work \ Cleaned
  /\ vanished' = vanished \cup Cleaned

RollbackCleans ==
  /\ Returns("clean")
  /\ IF pull.sha = None THEN Ended(pull.failure) ELSE Goes("restore")
  /\ Cleans
  /\ UNCHANGED <<control, branch, tip, unmerged, stashes, outside>>

RollbackFails ==
  /\ \E at \in {"reset", "clean"} :
       \/ Returns(at) /\ Ended("not rolled back")
       \/ Killed(at) /\ Ended("timed out")
  /\ \/ UNCHANGED <<tip, work, unmerged, vanished>>
     \/ pull.at = "reset" /\ Reset
     \/ pull.at = "clean" /\ Cleans /\ UNCHANGED <<tip, unmerged>>
  /\ UNCHANGED <<control, branch, stashes, outside>>

Restore == Applied("restore") /\ Ended(pull.failure)

RestoreFails ==
  /\ NotApplied("restore")
  /\ Ended(IF recovery = "live" THEN "not reapplied" ELSE "timed out")

-----------------------------------------------------------------------------
(* Watchdogs and cancel *)

Running == pull.at # "done"

Cancel ==
  /\ Running /\ signal = "live"
  /\ signal' = "canceled"
  /\ wedged' = (wedged /\ pull.at \in RecoverySteps)
  /\ UNCHANGED <<pull, recovery, world, outside, vanished>>

Wedges ==
  /\ Running /\ ~ wedged /\ SignalOf(pull.at) = "live"
  /\ wedged' = TRUE
  /\ UNCHANGED <<pull, signal, recovery, world, outside, vanished>>

OnlyPrimaryTimeout ==  \* bug: nothing bounds the recovery
  /\ pull.at \in PrimarySteps /\ signal = "live"
  /\ signal' = "timed out" /\ UNCHANGED recovery

(* No output for too long, or too long altogether. *)
Aborts ==
  \/ pull.at \in PrimarySteps /\ signal = "live" /\ signal' = "timed out" /\ UNCHANGED recovery
  \/ pull.at \in RecoverySteps /\ recovery = "live" /\ recovery' = "timed out" /\ UNCHANGED signal

Timeout ==
  /\ Aborts
  /\ wedged' = FALSE
  /\ UNCHANGED <<pull, world, outside, vanished>>

-----------------------------------------------------------------------------
(* Outsiders *)

Acts ==
  /\ Running
  /\ outside.acts < MaxOutside
  /\ UNCHANGED <<pull, control, vanished>>

Held == work \cup (UNION {tip[b].top : b \in Branches})
             \cup (UNION {stashes[i].edits : i \in DOMAIN stashes})

Edit(e) ==
  /\ Acts
  /\ e \notin Held \cup vanished \cup outside.dropped
  /\ work' = work \cup {e}
  /\ outside' = [outside EXCEPT !.acts = @ + 1]
  /\ UNCHANGED <<branch, tip, unmerged, stashes>>

CommitAll ==
  /\ Acts
  /\ work # {} /\ tip[branch].born
  /\ tip' = [tip EXCEPT ![branch].top = @ \cup work]
  /\ work' = {} /\ unmerged' = FALSE
  /\ outside' = [outside EXCEPT !.acts = @ + 1, !.committed = @ \cup work]
  /\ UNCHANGED <<branch, stashes>>

Switch(b) ==
  /\ Acts
  /\ b # branch /\ ~ unmerged
  /\ branch' = b
  /\ outside' = [outside EXCEPT !.acts = @ + 1]
  /\ UNCHANGED <<tip, work, unmerged, stashes>>

Stacks ==
  /\ Running
  /\ outside.acts < MaxOutside
  /\ UNCHANGED <<pull, control, branch, tip, work, unmerged, vanished>>

(* A sibling pushes an entry, or someone stores an existing one once more.         *)
SiblingStash ==
  /\ Stacks
  /\ \/ \E f \in Foreign : stashes' = <<[by |-> "other", edits |-> {f}]>> \o stashes
     \/ \E i \in DOMAIN stashes : stashes' = <<stashes[i]>> \o stashes
  /\ outside' = [outside EXCEPT !.acts = @ + 1]

SiblingDrop ==
  /\ Stacks
  /\ \E i \in DOMAIN stashes :
       /\ stashes' = RemoveAt(stashes, i)
       /\ outside' = [outside EXCEPT !.acts = @ + 1, !.dropped = @ \cup stashes[i].edits]

-----------------------------------------------------------------------------
PullStep ==
  \/ ReadFails \/ ReadHead \/ Fetch \/ Resolve \/ Status
  \/ StashPush \/ StashPushFails \/ Owned \/ OwnedFails
  \/ Merge \/ MergeFails
  \/ Reapply \/ ReapplyFails \/ Fallback \/ Conflicts \/ ReapplyReadFails
  \/ OwnedAgain \/ OwnedAgainFails \/ RollbackResets \/ RollbackCleans \/ RollbackFails
  \/ Restore \/ RestoreFails

Outsider ==
  \/ \E e \in Edits : Edit(e)
  \/ CommitAll
  \/ \E b \in Branches : Switch(b)
  \/ SiblingStash
  \/ SiblingDrop

Next == PullStep \/ Cancel \/ Wedges \/ Timeout \/ Outsider

(* Git goes on unless it is wedged, and timers fire. *)
Fairness == WF_vars(PullStep) /\ WF_vars(Timeout)

Spec == Init /\ [][Next]_vars /\ Fairness

-----------------------------------------------------------------------------
(* Properties *)

Quiet == outside.acts = 0

Restored == tip[branch] = pull.original /\ pull.seen \subseteq work /\ ~ unmerged

Recoverable == pull.seen # {} => \E i \in OwnEntries : stashes[i].edits = pull.seen

(* When nobody interferes, what Pull reports is so: after a success the branch has *)
(* the upstream's commits and the work is back; a pull that fails, times out or is *)
(* canceled, whenever that is, leaves the branch and the work as they were, unless *)
(* it says that it could not, and then the work is in its stash or in place.      *)
OutcomeIsTrue ==
  Quiet /\ ~ Running =>
    CASE pull.outcome = "pulled" -> tip[branch].ff /\ pull.seen \subseteq work /\ Recoverable
      [] pull.outcome = "pulled with conflicts" -> tip[branch].ff /\ Recoverable
      [] pull.outcome = "not reapplied" -> Recoverable
      [] pull.outcome = "ownership" -> FALSE
      [] pull.outcome \in {"not rolled back", "not restored"} \/ recovery = "timed out" ->
           pull.seen \subseteq work \/ Recoverable
      [] OTHER -> pull.original # None => Restored

(* Work that was uncommitted when Pull looked is never lost, whatever fails, is    *)
(* killed or goes on beside it: it is in the checkout or in a stash, unless        *)
(* somebody else committed it or dropped the stash meanwhile.                     *)
SavedWorkSurvives ==
  pull.seen \subseteq work \cup (UNION {stashes[i].edits : i \in DOMAIN stashes})
                       \cup outside.committed \cup outside.dropped

(* Pull "restores only its own verified saved changes": nothing of a sibling's     *)
(* stash ever gets into the checkout, however the shared stack shifts; and "files   *)
(* created concurrently elsewhere survive" a rollback.                            *)
NoForeignWork ==
  /\ work \cap Foreign = {}
  /\ vanished \subseteq Tracked \cup Clashing

(* Every pull ends, though each of its commands may wedge, in the rollback too.    *)
PullEnds == <>(pull.at = "done")

(* "Never reset the dirty checkout ... without proven ownership": what a rollback  *)
(* takes from the checkout is in the stash that Pull has verified.                *)
NeverResetsUnsavedWork ==
  [][pull.at = "reset" /\ pull'.at = "clean" =>
       work \ work' \subseteq IF pull.sha = None THEN {} ELSE pull.sha.edits]_vars
=============================================================================
