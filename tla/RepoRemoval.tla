------------------------------ MODULE RepoRemoval ------------------------------
(* Removing a repository: the answers of the dialog, the fresh review that the    *)
(* main process judges them by, and the removal that follows (repo-removal.ts and *)
(* the decision rules of packages/shared), while agents work in the checkouts.    *)
(*                                                                             *)
(* Work that only a folder or the main checkout's .git holds is a number, in the   *)
(* order it was made.  Push is the renderer's, before; here it is work published.  *)
EXTENDS Integers, FiniteSets

CONSTANTS
  Linked,    \* linked worktrees
  MaxActs,   \* bound: acts of agents and volumes
  MaxRuns    \* bound: removals asked for

ASSUME RepoRemovalAssumption ==
  /\ Linked \cap {"main", "none", ".git"} = {}
  /\ MaxActs \in Nat /\ MaxRuns \in Nat

VARIABLES
  onDisk,     \* checkouts whose folder is there
  away,       \* linked worktrees on a volume that is not mounted
  listed,     \* Git's records of checkouts
  rows,       \* the app's rows of them
  work,       \* what each folder holds: changes and commits on no remote
  inGit,      \* stashes, and commits of branches that nothing has checked out
  blocked,    \* checkouts that are locked or midway in an operation
  answers,    \* the user's decisions
  answeredOn, \* the work that was shown with the question
  removing,   \* executeRepoRemoval
  removalLocks,
  lost,       \* the work that went with a folder
  made,       \* how much work was ever made
  added,      \* worktrees that agents have added since the fresh review listed them
  acts,
  runs

Checkouts == Linked \cup {"main"}
Asked == Checkouts \cup {".git"}
disks == <<onDisk, away, listed, work, inGit, blocked, made, added, acts>>
removalVars == <<onDisk, away, listed, rows, work, inGit, blocked, answers, answeredOn,
                 removing, removalLocks, lost, made, added, acts, runs>>

(* What a review finds of one checkout; upTo: the work made before it looked.     *)
NoView == [seen |-> FALSE, missing |-> FALSE, blocked |-> FALSE, unreadable |-> FALSE,
           work |-> {}, upTo |-> 0]

NotRemoving ==
  [at |-> "idle", views |-> [x \in Asked |-> NoView], todo |-> {}, takesMain |-> FALSE,
   now |-> "none", failed |-> FALSE, outcome |-> "none"]

RemovalInit ==
  /\ onDisk = Checkouts /\ listed = Checkouts /\ rows = Checkouts
  /\ away = {} /\ blocked = {}
  /\ work = [c \in Checkouts |-> {}] /\ inGit = {}
  /\ answers = [x \in Asked |-> "none"]
  /\ answeredOn = [x \in Asked |-> {}]
  /\ removing = NotRemoving
  /\ removalLocks = {}
  /\ lost = {} /\ added = {}
  /\ made = 0 /\ acts = 0
  /\ runs = 0

Reaches(at) == removing' = [removing EXCEPT !.at = at]

-----------------------------------------------------------------------------
(* The decision rules *)

(* inspectCheckout, and the stashes and branches under ".git". *)
ViewOf(x) ==
  IF x = ".git" THEN [NoView EXCEPT !.seen = TRUE, !.work = inGit, !.upTo = made]
  ELSE [NoView EXCEPT !.seen = TRUE, !.missing = x \notin onDisk, !.blocked = x \in blocked,
                      !.work = IF x \in onDisk THEN work[x] ELSE {}, !.upTo = made]

(* checkoutVerdict *)
Verdict(view) ==
  IF view.blocked THEN "blocked"
  ELSE IF view.missing \/ view.unreadable \/ view.work # {} THEN "at_risk" ELSE "safe"

(* checkoutChoices *)
MayAnswer(view) ==
  CASE Verdict(view) = "safe" -> {}
    [] Verdict(view) = "blocked" -> {"keep"}
    [] OTHER -> {"keep", "discard"}

(* bug: an answer holds whatever is found now *)
AnyChoice(views, x) == answers[x]

(* choiceOf: an answer that may not be given any more is none. *)
Choice(views, x) == IF answers[x] \in MayAnswer(views[x]) THEN answers[x] ELSE "none"

Found(views) == {x \in Asked : views[x].seen}

(* partial: something that needs the main checkout's .git is kept. *)
Keeps(views) == \E x \in Found(views) : Choice(views, x) = "keep"

Removes(views) ==
  {c \in Found(views) \cap Linked :
     Verdict(views[c]) = "safe" \/ Choice(views, c) = "discard"}

(* Everything that still matters is safe or answered, and something goes. *)
Ready(views) ==
  LET matter == IF Keeps(views) THEN Found(views) \cap Linked ELSE Found(views) IN
  /\ \A x \in matter : Verdict(views[x]) = "safe" \/ Choice(views, x) # "none"
  /\ Removes(views) # {} \/ ~ Keeps(views)

-----------------------------------------------------------------------------
(* The dialog: an answer to what is shown, and the removal. *)

Decides(x, choice) ==
  /\ removing.at = "idle" /\ "main" \in onDisk /\ runs < MaxRuns
  /\ x \in listed \cup {".git"}
  /\ choice \in MayAnswer(ViewOf(x))
  /\ answers' = [answers EXCEPT ![x] = choice]
  /\ answeredOn' = [answeredOn EXCEPT ![x] = ViewOf(x).work]
  /\ UNCHANGED <<disks, rows, removing, removalLocks, lost, runs>>

AsksRepoRemoval ==
  /\ removing.at = "idle" /\ runs < MaxRuns
  /\ "main" \in rows
  /\ runs' = runs + 1
  /\ removing' = [NotRemoving EXCEPT !.at = "inspect", !.todo = listed,
                                     !.views[".git"] = ViewOf(".git")]
  /\ added' = {}
  /\ UNCHANGED <<onDisk, away, listed, rows, work, inGit, blocked, answers, answeredOn,
                 removalLocks, lost, made, acts>>

(* reviewRepoRemoval looks at several of the checkouts it has listed at a time, each   *)
(* at its own moment.                                                             *)
Inspects(c) ==
  /\ removing.at = "inspect"
  /\ c \in removing.todo
  /\ \E unreadable \in {FALSE} \cup {c \in onDisk} :
       removing' = [removing EXCEPT !.todo = @ \ {c},
                      !.views[c] = [ViewOf(c) EXCEPT !.unreadable = unreadable]]
  /\ UNCHANGED <<disks, rows, answers, answeredOn, removalLocks, lost, runs>>

(* removalStatus on the fresh review, and the steps; or "Review again". *)
Judges ==
  /\ removing.at = "inspect" /\ removing.todo = {}
  /\ LET views == removing.views IN
     removing' = IF Ready(views)
                 THEN [removing EXCEPT !.at = "steps", !.todo = Removes(views),
                                       !.takesMain = ~ Keeps(views)]
                 ELSE NotRemoving
  /\ UNCHANGED <<disks, rows, answers, answeredOn, removalLocks, lost, runs>>

-----------------------------------------------------------------------------
(* executeRepoRemoval: linked worktrees, one after the other. *)

(* lockForRemoval and the queue's lock of the worktree, once others are through.  *)
TakesWorktree(c) ==
  /\ removing.at = "steps" /\ c \in removing.todo
  /\ removalLocks' = removalLocks \cup {c}
  /\ removing' = [removing EXCEPT !.now = c, !.todo = @ \ {c},
                    !.at = IF removing.views[c].missing THEN "record" ELSE "folder"]
  /\ UNCHANGED <<disks, rows, answers, answeredOn, lost, runs>>

(* The folder of c goes, with what it holds. *)
FolderGoes(c) ==
  /\ onDisk' = onDisk \ {c}
  /\ work' = [work EXCEPT ![c] = {}]
  /\ lost' = lost \cup work[c]

(* Moved to the Trash, or deleted. *)
RemovesFolder ==
  /\ removing.at = "folder" /\ removing.now \in Linked \cap onDisk
  /\ FolderGoes(removing.now)
  /\ Reaches("record")
  /\ UNCHANGED <<away, listed, rows, inGit, blocked, answers, answeredOn, removalLocks, made,
                 added, acts, runs>>

FailedStep == [removing EXCEPT !.at = "steps", !.failed = TRUE]

(* bug: a step that failed is not remembered *)
GoesOnRegardless ==
  /\ removing.at = "folder" /\ removing.now \in Linked
  /\ Reaches("steps")
  /\ UNCHANGED <<disks, rows, answers, answeredOn, removalLocks, lost, runs>>

(* The Trash refuses, or the folder is gone; or a delete that the user asked for,     *)
(* because the Trash has refused before, stops partway.                           *)
FolderFails ==
  /\ removing.at = "folder" /\ removing.now \in Linked
  /\ removing' = FailedStep
  /\ \/ UNCHANGED <<work, lost>>
     \/ /\ removing.now \in onDisk
        /\ work' = [work EXCEPT ![removing.now] = {}]
        /\ lost' = lost \cup work[removing.now]
  /\ UNCHANGED <<onDisk, away, listed, rows, inGit, blocked, answers, answeredOn,
                 removalLocks, made, added, acts, runs>>

(* worktreeRemove with force, which deletes a folder that is there again, too; a     *)
(* folder that Git does not list any more is left.                                *)
ForgetsRecord ==
  /\ removing.at = "record"
  /\ removing.now \in listed \/ removing.now \notin onDisk
  /\ IF removing.now \in onDisk THEN FolderGoes(removing.now) ELSE UNCHANGED <<onDisk, work, lost>>
  /\ listed' = listed \ {removing.now}
  /\ Reaches("steps")
  /\ UNCHANGED <<away, rows, inGit, blocked, answers, answeredOn, removalLocks, made,
                 added, acts, runs>>

(* A git worktree lock, Git, or the folder refuses; or Git stops partway through one  *)
(* that is there again.                                                           *)
RecordFails ==
  /\ removing.at = "record"
  /\ removing' = FailedStep
  /\ \/ UNCHANGED <<onDisk, listed, work, lost>>
     \/ /\ removing.now \in onDisk \cap listed
        /\ work' = [work EXCEPT ![removing.now] = {}]
        /\ lost' = lost \cup work[removing.now]
        /\ onDisk' \in {onDisk, onDisk \ {removing.now}}
        /\ listed' \in {listed, listed \ {removing.now}}
  /\ UNCHANGED <<away, rows, inGit, blocked, answers, answeredOn, removalLocks, made,
                 added, acts, runs>>

StepsDone == removing.at = "steps" /\ removing.todo = {}

(* "Not touched: a step above failed", or nothing of it was asked for. *)
LeavesMain ==
  /\ StepsDone
  /\ ~ removing.takesMain \/ removing.failed
  /\ removing' = [removing EXCEPT !.at = "refresh",
                    !.outcome = IF removing.failed THEN "stopped" ELSE "partial"]
  /\ UNCHANGED <<disks, rows, answers, answeredOn, removalLocks, lost, runs>>

TakesMain ==
  /\ StepsDone
  /\ removing.takesMain /\ ~ removing.failed
  /\ removalLocks' = removalLocks \cup {"main"}
  /\ removing' = [removing EXCEPT !.at = "main", !.now = "main"]
  /\ UNCHANGED <<disks, rows, answers, answeredOn, lost, runs>>

(* The folder, and deleteRepo. *)
RemovesMain ==
  /\ removing.at = "main"
  /\ onDisk' = onDisk \ {"main"}
  /\ listed' = {}
  /\ rows' = {}
  /\ lost' = lost \cup work["main"] \cup inGit
  /\ work' = [work EXCEPT !["main"] = {}]
  /\ inGit' = {}
  /\ removing' = [removing EXCEPT !.at = "release", !.outcome = "removed"]
  /\ UNCHANGED <<away, blocked, answers, answeredOn, removalLocks, made,
                 added, acts, runs>>

(* The folder stays, or a part of it. *)
MainFails ==
  /\ removing.at = "main"
  /\ removing' = [removing EXCEPT !.at = "refresh", !.failed = TRUE, !.outcome = "stopped"]
  /\ \/ UNCHANGED <<work, inGit, lost>>
     \/ /\ lost' = lost \cup work["main"] \cup inGit
        /\ work' = [work EXCEPT !["main"] = {}]
        /\ inGit' = {}
  /\ UNCHANGED <<onDisk, away, listed, rows, blocked, answers, answeredOn, removalLocks, made,
                 added, acts, runs>>

(* bug: the probes are let in before the rows are gone *)
ReleasesFirst ==
  /\ removing.at = "refresh"
  /\ removalLocks' = {}
  /\ Reaches("release")
  /\ UNCHANGED <<disks, rows, answers, answeredOn, lost, runs>>

(* refreshRepoWorktrees: the rows follow Git's list. *)
RefreshesRows ==
  /\ removing.at = "refresh"
  /\ rows' = listed
  /\ Reaches("release")
  /\ UNCHANGED <<disks, answers, answeredOn, removalLocks, lost, runs>>

(* Its failure is not looked at. *)
RefreshFails ==
  /\ removing.at = "refresh"
  /\ removing' = [removing EXCEPT !.at = "release", !.failed = TRUE]
  /\ UNCHANGED <<disks, rows, answers, answeredOn, removalLocks, lost, runs>>

ReleasesAll ==
  /\ removing.at = "release"
  /\ removalLocks' = {}
  /\ removing' = NotRemoving
  /\ UNCHANGED <<disks, rows, answers, answeredOn, lost, runs>>

-----------------------------------------------------------------------------
(* Agents, terminals, volumes. *)

Meanwhile ==
  /\ "main" \in onDisk
  /\ acts < MaxActs /\ acts' = acts + 1
  /\ UNCHANGED <<rows, answers, answeredOn, removing, removalLocks, lost, runs>>

(* A change or a commit in a checkout; a stash or a branch of its own. *)
AgentWorks(x) ==
  /\ Meanwhile
  /\ made' = made + 1
  /\ \/ /\ x \in onDisk
        /\ work' = [work EXCEPT ![x] = @ \cup {made'}]
        /\ UNCHANGED inGit
     \/ /\ x = ".git"
        /\ inGit' = inGit \cup {made'}
        /\ UNCHANGED work
  /\ UNCHANGED <<onDisk, away, listed, blocked, added>>

AgentPublishes(c) ==
  /\ Meanwhile
  /\ c \in onDisk /\ work[c] # {}
  /\ work' = [work EXCEPT ![c] = {}]
  /\ UNCHANGED <<onDisk, away, listed, inGit, blocked, made, added>>

AgentBlocks(c) ==
  /\ Meanwhile
  /\ blocked' = IF c \in blocked THEN blocked \ {c} ELSE blocked \cup {c}
  /\ c \in listed
  /\ UNCHANGED <<onDisk, away, listed, work, inGit, made, added>>

VolumeComesOrGoes(c) ==
  /\ Meanwhile
  /\ \/ /\ c \in onDisk
        /\ onDisk' = onDisk \ {c} /\ away' = away \cup {c}
     \/ /\ c \in away
        /\ onDisk' = onDisk \cup {c} /\ away' = away \ {c}
  /\ UNCHANGED <<listed, work, inGit, blocked, made, added>>

(* git worktree add, where there is none. *)
AgentAddsWorktree(c) ==
  /\ Meanwhile
  /\ c \notin listed \cup onDisk \cup away
  /\ onDisk' = onDisk \cup {c}
  /\ listed' = listed \cup {c}
  /\ blocked' = blocked \ {c}
  /\ added' = added \cup {c}
  /\ UNCHANGED <<away, work, inGit, made>>

RepoRemovalStep ==
  \/ Judges \/ RemovesFolder \/ FolderFails \/ ForgetsRecord \/ RecordFails
  \/ LeavesMain \/ TakesMain \/ RemovesMain \/ MainFails
  \/ RefreshesRows \/ RefreshFails \/ ReleasesAll
  \/ \E c \in Checkouts : Inspects(c)
  \/ \E c \in Linked : TakesWorktree(c)

RemovalNext ==
  \/ \E x \in Asked, choice \in {"keep", "discard"} : Decides(x, choice)
  \/ AsksRepoRemoval
  \/ RepoRemovalStep
  \/ \E x \in Asked : AgentWorks(x)
  \/ \E c \in Checkouts : AgentPublishes(c) \/ AgentBlocks(c)
  \/ \E c \in Linked : VolumeComesOrGoes(c) \/ AgentAddsWorktree(c)

RemovalSpec == RemovalInit /\ [][RemovalNext]_removalVars

-----------------------------------------------------------------------------
(* Properties *)

(* The part of the repository that piece i of work was in. *)
PlaceOf(i) == CHOOSE x \in Asked : i \in (IF x = ".git" THEN inGit ELSE work[x])

(* What goes with a folder was found at risk by the fresh review and given up by an  *)
(* answer, or was made after that review looked there.  And "linked worktrees first, *)
(* then, only if every one of them went and nothing that lives in .git was kept, the *)
(* main checkout": nothing that the review found is kept and no worktree is left,   *)
(* but for one that an agent has added since the review listed them.              *)
RemovedAsAnswered ==
  [][/\ \A i \in lost' \ lost :
          LET view == removing.views[PlaceOf(i)] IN
            \/ i > view.upTo
            \/ Verdict(view) = "at_risk" /\ answers[PlaceOf(i)] = "discard"
     /\ onDisk \ onDisk' = {"main"} =>
          /\ \A x \in Found(removing.views) : Choice(removing.views, x) # "keep"
          /\ Linked \cap listed \subseteq added]_removalVars

(* "Keep probes blocked until the refresh below has dropped the row": no probe meets  *)
(* the row of a folder that this removal took, unless the refresh failed.           *)
ProbesStayOut ==
  removing.at \notin {"idle", "inspect"} /\ ~ (removing.at = "release" /\ removing.failed) =>
    \A c \in rows \ (onDisk \cup away) :
      removing.views[c].seen /\ ~ removing.views[c].missing => c \in removalLocks

(* "a checkout that changed after the dialog opened comes back undecided rather than *)
(* being removed on an answer given about a different state"                       *)
AnswersAreAboutTheStateShown ==
  [][\A i \in lost' \ lost :
       i <= removing.views[PlaceOf(i)].upTo => i \in answeredOn[PlaceOf(i)]]_removalVars
=============================================================================
