----------------------------- MODULE HistoryEdit -----------------------------
(* Editing the newest commits of a worktree (rebase-handlers.ts and               *)
(* rebase-assistant.ts): a check in an isolated copy gives a one-shot approval, and *)
(* the rewrite it approves is replayed in the worktree under the worktree's lock,  *)
(* while agents and terminals commit, edit, undo and switch branches in it.        *)
(*                                                                             *)
(* A commit is the set of the changes it makes, a branch a sequence of commits.    *)
(* Changes are numbered, those of the selection first; 0 is one that nobody made.   *)
EXTENDS Integers, FiniteSets, SequencesExt

CONSTANTS
  Requests,    \* requests to check or to apply
  Branches,    \* branches that may be checked out
  Selected,    \* the commits to edit, newest last
  MaxTokens,   \* bound: approvals given
  MaxOutside   \* bound: acts of outsiders

ASSUME HistoryEditAssumption ==
  /\ Selected \in Seq(SUBSET Nat) /\ Selected # <<>>
  /\ LET changes == UNION ToSet(Selected)
     IN  IsFiniteSet(changes) /\ changes = 1 .. Cardinality(changes)
  /\ MaxTokens \in Nat /\ MaxOutside \in Nat

VARIABLES
  branches,    \* what each branch is at
  current,     \* the branch checked out
  edits,       \* uncommitted changes
  requests,    \* what each request is doing
  approvals,   \* the handlers' map, by token
  inLine,      \* the requests in line for the worktree's lock
  proved,      \* every approval given so far
  spent,       \* the tokens whose rewrite was carried out, one after the other
  outside,     \* what outsiders have committed or edited, in order
  meddled      \* one of them acted where the rewrite no longer looks

checkout == <<branches, current, edits>>
ghosts == <<spent, outside, meddled>>
editVars == <<branches, current, edits, requests, approvals, inLine, proved, spent,
              outside, meddled>>

(* resolveProgram: all in one commit, or each on its own in another order. *)
Program(edit, commits) ==
  IF edit = "squash" THEN <<UNION ToSet(commits)>> ELSE Reverse(commits)

Files(history) == UNION ToSet(history)

(* validateSelection: the selected commits are the newest. *)
OnTop(history) == IsSuffix(Selected, history)
BaseOf(history) == SubSeq(history, 1, Len(history) - Len(Selected))

(* readSourceState *)
Source == [head |-> branches[current], ref |-> current]

NoRequest == [at |-> "none", edit |-> "squash", source |-> [head |-> <<>>, ref |-> ""],
              token |-> 0, signed |-> TRUE, next |-> 0, answer |-> "none"]

HistoryEditInit ==
  /\ branches = [b \in Branches |-> Selected]
  /\ current \in Branches
  /\ edits = {}
  /\ requests = [r \in Requests |-> NoRequest]
  /\ approvals = {} /\ proved = {}
  /\ inLine = <<>>
  /\ spent = <<>> /\ outside = <<>>
  /\ meddled = FALSE

Goes(r, at) == requests' = [requests EXCEPT ![r].at = at]
Ends(r) == requests' = [requests EXCEPT ![r] = NoRequest]

(* The operation is over: the next in line gets the lock. *)
Releases == inLine' = Tail(inLine)

EndsOperation(r) == Ends(r) /\ Releases
GoesOn(r, at) == Goes(r, at) /\ UNCHANGED inLine

-----------------------------------------------------------------------------
(* rebase:check, which takes no lock. *)

AsksCheck(r, edit) ==
  /\ requests[r].at = "none" /\ ~ meddled
  /\ approvals' = {}
  /\ requests' = [requests EXCEPT ![r].at = "status", ![r].edit = edit]
  /\ UNCHANGED <<checkout, inLine, proved, ghosts>>

(* preflightRebase: the status; then the source, the selection, the source again. *)
ReadsStatus(r) ==
  /\ requests[r].at = "status"
  /\ IF edits = {} THEN Goes(r, "source") ELSE Ends(r)
  /\ UNCHANGED <<checkout, approvals, inLine, proved, ghosts>>

ReadsSource(r) ==
  /\ requests[r].at = "source"
  /\ requests' = [requests EXCEPT ![r].at = "again", ![r].source = Source]
  /\ UNCHANGED <<checkout, approvals, inLine, proved, ghosts>>

ReadsSourceAgain(r) ==
  /\ requests[r].at = "again"
  /\ IF Source = requests[r].source /\ OnTop(Source.head)
     THEN Goes(r, "copy") ELSE Ends(r)
  /\ UNCHANGED <<checkout, approvals, inLine, proved, ghosts>>

(* The replay in the copy is clean and approved, or conflicts or fails. *)
Simulates(r) ==
  /\ requests[r].at = "copy"
  /\ \/ /\ Cardinality(proved) < MaxTokens
        /\ LET approval == [token |-> Cardinality(proved) + 1, edit |-> requests[r].edit,
                            source |-> requests[r].source]
           IN approvals' = approvals \cup {approval} /\ proved' = proved \cup {approval}
        /\ requests' = [requests EXCEPT ![r] = NoRequest]
     \/ Ends(r) /\ UNCHANGED <<approvals, proved>>
  /\ UNCHANGED <<checkout, inLine, ghosts>>

-----------------------------------------------------------------------------
(* rebase:apply *)

(* bug: an approval can be used more than once *)
AllApprovals == approvals

(* "Approvals are one-shot", and all of the worktree go with the one that is used.  *)
ApprovalsLeft == {}

AsksApply(r, approval, signed) ==
  /\ requests[r].at = "none" /\ ~ meddled
  /\ approval \in approvals
  /\ approvals' = ApprovalsLeft
  /\ inLine' = Append(inLine, r)
  /\ requests' = [requests EXCEPT ![r] =
       [NoRequest EXCEPT !.at = "queued", !.edit = approval.edit, !.token = approval.token,
                         !.source = approval.source, !.signed = signed]]
  /\ UNCHANGED <<checkout, proved, ghosts>>

(* Another selection than the one that was checked: the approval is gone all the same. *)
RefusesApply(approval) ==
  /\ approvals' = approvals \ {approval}
  /\ UNCHANGED <<checkout, requests, inLine, proved, ghosts>>

(* bug: staged and unstaged changes are not looked for *)
NoStatus == TRUE

IsClean == edits = {}

ReadsStatusToApply(r) ==
  /\ requests[r].at = "queued" /\ r = Head(inLine)
  /\ IF IsClean THEN GoesOn(r, "expected") ELSE EndsOperation(r)
  /\ UNCHANGED <<checkout, approvals, proved, ghosts>>

(* bug: only the commit is compared *)
SameHead(r) == branches[current] = requests[r].source.head

(* sameSource *)
SameSource(r) == Source = requests[r].source

ReadsSourceToApply(r) ==
  /\ requests[r].at = "expected"
  /\ IF SameSource(r) THEN GoesOn(r, "settled") ELSE EndsOperation(r)
  /\ UNCHANGED <<checkout, approvals, proved, ghosts>>

ReadsSourceAgainToApply(r) ==
  /\ requests[r].at = "settled"
  /\ IF SameSource(r) /\ OnTop(Source.head)
     THEN GoesOn(r, "reset") ELSE EndsOperation(r)
  /\ UNCHANGED <<checkout, approvals, proved, ghosts>>

(* rewriteHistory: reset --hard to the base, once the tree of the tip is known.      *)
ResetsToBase(r) ==
  /\ requests[r].at = "reset"
  /\ \/ /\ branches' = [branches EXCEPT ![current] = BaseOf(requests[r].source.head)]
        /\ edits' = {}
        /\ requests' = [requests EXCEPT ![r].at = "replay", ![r].next = 1]
        /\ UNCHANGED inLine
     \/ /\ requests' = [requests EXCEPT ![r].at = "restore", ![r].answer = "failed"]
        /\ UNCHANGED <<branches, edits, inLine>>
     \/ EndsOperation(r) /\ UNCHANGED <<branches, edits>>
  /\ UNCHANGED <<current, approvals, proved, ghosts>>

(* One commit of the program is picked or made; a merge driver or a filter of the    *)
(* repository may make something else of it (0).  Or it conflicts, or is refused.  *)
Replays(r) ==
  /\ requests[r].at = "replay"
  /\ LET program == Program(requests[r].edit, Selected) IN
     \/ /\ \E commit \in {program[requests[r].next], {0}} :
             branches' = [branches EXCEPT ![current] = Append(@, commit)]
        /\ requests' = [requests EXCEPT ![r].next = @ + 1,
             ![r].at = IF requests[r].next = Len(program) THEN "compare" ELSE "replay"]
     \/ /\ \E answer \in {"conflict", "failed"} \cup
                         (IF requests[r].signed THEN {"signing failed"} ELSE {}) :
             requests' = [requests EXCEPT ![r].at = "restore", ![r].answer = answer]
        /\ UNCHANGED branches
  /\ UNCHANGED <<current, edits, approvals, inLine, proved, ghosts>>

(* bug: the tree is not compared *)
AnyTree(r) == TRUE

(* The rewritten tip has exactly the tree of the tip it replaces. *)
SameTree(r) == Files(branches[current]) = Files(requests[r].source.head)

ComparesTree(r) ==
  /\ requests[r].at = "compare"
  /\ \/ SameTree(r) /\ EndsOperation(r) /\ spent' = Append(spent, requests[r].token)
     \/ /\ \E answer \in {"failed"} \cup (IF SameTree(r) THEN {} ELSE {"tree changed"}) :
             requests' = [requests EXCEPT ![r].at = "restore", ![r].answer = answer]
        /\ UNCHANGED <<inLine, spent>>
  /\ UNCHANGED <<checkout, approvals, proved, outside, meddled>>

(* restore: reset --hard to the head that was read, whose result is not looked at.   *)
(* A refused signature keeps the approval.                                        *)
Restores(r) ==
  /\ requests[r].at = "restore"
  /\ \/ /\ branches' = [branches EXCEPT ![current] = requests[r].source.head]
        /\ edits' = {}
        /\ Ends(r)
     \/ Goes(r, "unrestored") /\ UNCHANGED <<branches, edits>>
  /\ Releases
  /\ approvals' = IF requests[r].answer = "signing failed"
                  THEN approvals \cup {a \in proved : a.token = requests[r].token}
                  ELSE approvals
  /\ UNCHANGED <<current, proved, ghosts>>

(* The answer is the same for a rollback that has failed. *)
AnswersUnrestored(r) ==
  /\ requests[r].at = "unrestored"
  /\ Ends(r)
  /\ UNCHANGED <<checkout, approvals, inLine, proved, ghosts>>

-----------------------------------------------------------------------------
(* Outsiders: agents, editors and terminals. *)

(* After the status edits are no longer looked for, after the second source neither  *)
(* are commits and switches.                                                      *)
PastStatus == \E r \in Requests :
  requests[r].at \in {"expected", "settled", "reset", "replay", "compare", "restore"}
PastSource == \E r \in Requests : requests[r].at \in {"reset", "replay", "compare", "restore"}

NextChange == Cardinality(Files(Selected)) + Len(outside) + 1

OutsiderEdits ==
  /\ Len(outside) < MaxOutside
  /\ edits' = edits \cup {NextChange}
  /\ outside' = Append(outside, NextChange)
  /\ meddled' = (meddled \/ PastStatus)
  /\ UNCHANGED <<branches, current, requests, approvals, inLine, proved, spent>>

OutsiderCommits ==
  /\ Len(outside) < MaxOutside
  /\ branches' = [branches EXCEPT ![current] = Append(@, edits \cup {NextChange})]
  /\ edits' = {}
  /\ outside' = Append(outside, NextChange)
  /\ meddled' = (meddled \/ PastSource)
  /\ UNCHANGED <<current, requests, approvals, inLine, proved, spent>>

(* A switch, or an undo of the last edit from the reflog; work of others is kept.    *)
OutsiderMoves ==
  /\ Len(outside) < MaxOutside
  /\ outside' = Append(outside, 0)
  /\ meddled' = (meddled \/ PastSource)
  /\ \/ current' \in Branches \ {current} /\ UNCHANGED branches
     \/ /\ edits = {} /\ Files(branches[current]) \subseteq Files(Selected)
        /\ branches' = [branches EXCEPT ![current] = Selected]
        /\ UNCHANGED current
  /\ UNCHANGED <<edits, requests, approvals, inLine, proved, spent>>

HistoryEditNext ==
  \/ \E r \in Requests :
       \/ \E edit \in {"squash", "reorder"} : AsksCheck(r, edit)
       \/ \E approval \in approvals, signed \in BOOLEAN : AsksApply(r, approval, signed)
       \/ ReadsStatus(r) \/ ReadsSource(r) \/ ReadsSourceAgain(r) \/ Simulates(r)
       \/ ReadsStatusToApply(r) \/ ReadsSourceToApply(r) \/ ReadsSourceAgainToApply(r)
       \/ ResetsToBase(r) \/ Replays(r) \/ ComparesTree(r) \/ Restores(r)
       \/ AnswersUnrestored(r)
  \/ \E approval \in approvals : RefusesApply(approval)
  \/ OutsiderEdits \/ OutsiderCommits \/ OutsiderMoves

HistoryEditSpec == HistoryEditInit /\ [][HistoryEditNext]_editVars

-----------------------------------------------------------------------------
(* Properties *)

(* An edit is all or nothing: "applied" means that the branch which was checked has  *)
(* exactly the commits of the checked program on its old base; any other answer that *)
(* it is as it was checked.  (Unless an outsider acted behind the last look, or the  *)
(* rollback's reset failed.)                                                      *)
EditedAsChecked ==
  [][\A r \in Requests :
       /\ requests[r].at \in {"compare", "restore"} /\ requests'[r].at = "none"
       /\ ~ meddled
       => /\ \E a \in proved : a.token = requests[r].token /\ a.source = requests[r].source
          /\ current = requests[r].source.ref
          /\ branches'[current] =
               IF requests[r].at = "compare"
               THEN BaseOf(requests[r].source.head) \o Program(requests[r].edit, Selected)
               ELSE requests[r].source.head]_editVars

(* Whatever agents commit or edit beside it, before the rewrite has looked for the   *)
(* last time, is in a branch or in the checkout still.                             *)
OutsideWorkSurvives ==
  ~ meddled => ToSet(outside) \ {0} \subseteq
                 edits \cup UNION {Files(branches[b]) : b \in Branches}

(* One check is good for one rewrite, also with two requests at once, an approval    *)
(* that a refused signature gave back, and a rewrite that was undone.              *)
OneRewritePerCheck == IsInjective(spent)

(* "The worktree was restored unchanged."  (The reset's result is ignored.)          *)
RestoredAsSaid ==
  \A r \in Requests :
    requests[r].at = "unrestored" /\ ~ meddled
      /\ requests[r].answer \in {"conflict", "tree changed", "signing failed"}
    => branches[current] = requests[r].source.head
=============================================================================
