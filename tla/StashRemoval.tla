---------------------------- MODULE StashRemoval ----------------------------
(* Dropping and popping a stash by its commit (stash-removal.ts), on the files of   *)
(* Git's ref store, beside Git processes that push, store, drop and pack, and with *)
(* a failure of any file operation or a crash of the app between any two.         *)
(*                                                                             *)
(* An entry of the stash reflog is its number in the order of pushing, so a set   *)
(* of entries is a reflog; hashOf tells the commits.  The handlers run one removal *)
(* of a repository at a time, under the repository's lock of OperationQueue.      *)
EXTENDS Integers, FiniteSets, FiniteSetsExt

CONSTANTS
  Hashes,      \* stash commits
  Gits,        \* Git processes of others
  MaxEntries,  \* bound: entries ever pushed
  MaxAsks,     \* bound: removals asked for
  MaxCrashes,  \* bound: crashes of the app
  None

ASSUME StashAssumption ==
  /\ MaxEntries \in Nat /\ MaxAsks \in Nat /\ MaxCrashes \in Nat
  /\ None \notin Hashes
  /\ Gits \cap {"free", "app", "left"} = {}

VARIABLES
  reflog,    \* the entries that logs/refs/stash lists
  hashOf,    \* the commit of each entry ever pushed
  loose,     \* refs/stash as a file
  packed,    \* the refs/stash line of packed-refs
  lockfile,  \* who created each lock file that exists
  removal,   \* removeStashByHash
  git,       \* the Git processes of others
  asked,     \* entries that somebody set out to remove
  torn,      \* something came between two files: see RefFollowsLog
  crashes

files == <<reflog, hashOf, loose, packed>>
stashVars == <<reflog, hashOf, loose, packed, lockfile, removal, git, asked, torn, crashes>>

LockFiles == {"refs/stash", "packed-refs", "logs/refs/stash"}

Entries == 1 .. MaxEntries
Stored == {i \in Entries : hashOf[i] # None}

(* A loose ref shadows the packed line. *)
Tip == IF loose # None THEN loose ELSE packed

TopOf(entries) == IF entries = {} THEN None ELSE hashOf[Max(entries)]

Occurrences(h) == {i \in reflog : hashOf[i] = h}

Idle(asks) ==
  [at |-> "idle", kind |-> "drop", hash |-> None, owned |-> {}, all |-> {}, rest |-> {},
   loose |-> FALSE, packed |-> FALSE, applied |-> FALSE, answer |-> "none", asks |-> asks]

StashInit ==
  /\ reflog = {}
  /\ hashOf = [i \in Entries |-> None]
  /\ loose = None /\ packed = None
  /\ lockfile = [f \in LockFiles |-> "free"]
  /\ removal = Idle(0)
  /\ git = [g \in Gits |-> [at |-> "idle", hash |-> None]]
  /\ asked = {}
  /\ torn = FALSE
  /\ crashes = 0

-----------------------------------------------------------------------------
(* The answer is settled; the finally block then releases what is owned. *)
Answer(a) == removal' = [removal EXCEPT !.at = "unlock", !.answer = a]

(* bug: the answer forgets that the work is in the worktree *)
JustFailed == "failed"

(* The outer catch tells whether the work is in the worktree already. *)
Failed == IF removal.applied THEN "applied, not removed" ELSE "failed"

(* The user chooses an entry of a list that may be old. *)
AskRemoval(kind, h) ==
  /\ removal.at = "idle" /\ removal.asks < MaxAsks
  /\ h \in {hashOf[i] : i \in Stored}
  /\ removal' = [removal EXCEPT !.at = "list", !.kind = kind, !.hash = h, !.asks = @ + 1]
  /\ UNCHANGED <<files, lockfile, git, asked, torn, crashes>>

(* currentEntry *)
ListsStashes ==
  /\ removal.at = "list"
  /\ IF Cardinality(Occurrences(removal.hash)) = 1
     THEN removal' = [removal EXCEPT !.at = "lock"]
     ELSE Answer("refused")
  /\ UNCHANGED <<files, lockfile, git, asked, torn, crashes>>

NextLock ==
  CASE removal.owned = {} -> "refs/stash"
    [] removal.owned = {"refs/stash"} -> "packed-refs"
    [] OTHER -> "logs/refs/stash"

(* open with "wx": the file exists, or the disk refuses. *)
TakesLock ==
  /\ removal.at = "lock"
  /\ LET f == NextLock IN
     \/ /\ lockfile[f] = "free"
        /\ lockfile' = [lockfile EXCEPT ![f] = "app"]
        /\ removal' = [removal EXCEPT !.owned = @ \cup {f},
                         !.at = IF f = "logs/refs/stash" THEN "check" ELSE "lock"]
     \/ /\ Answer("failed")
        /\ UNCHANGED lockfile
  /\ UNCHANGED <<files, git, asked, torn, crashes>>

(* bug: any occurrence of the commit will do *)
RemovableWhenListed == Tip # None /\ Occurrences(removal.hash) # {} /\ Tip = TopOf(reflog)

(* The layout is known, the commit is there once, and the ref and the log agree.  *)
Removable ==
  /\ Tip # None
  /\ Cardinality(Occurrences(removal.hash)) = 1
  /\ Tip = TopOf(reflog)

Checks ==
  /\ removal.at = "check"
  /\ IF Removable
     THEN /\ LET i == CHOOSE i \in Occurrences(removal.hash) : TRUE IN asked' = asked \cup {i}
          /\ removal' = [removal EXCEPT !.at = "stage", !.all = reflog,
                           !.rest = reflog \ Occurrences(removal.hash),
                           !.loose = loose # None, !.packed = packed # None]
     ELSE Answer("refused") /\ UNCHANGED asked
  /\ UNCHANGED <<files, lockfile, git, torn, crashes>>

(* "Stage both files before applying". *)
Stages ==
  /\ removal.at = "stage"
  /\ \/ removal' = [removal EXCEPT !.at = IF removal.kind = "pop" THEN "apply" ELSE "log"]
     \/ Answer("failed")
  /\ UNCHANGED <<files, lockfile, git, asked, torn, crashes>>

(* git stash apply: it conflicts, or fails, and the entry stays. *)
Applies ==
  /\ removal.at = "apply"
  /\ \/ removal' = [removal EXCEPT !.at = "log", !.applied = TRUE]
     \/ Answer("not applied")
  /\ UNCHANGED <<files, lockfile, git, asked, torn, crashes>>

(* rename(log.lock, log) *)
CommitsLog ==
  /\ removal.at = "log"
  /\ \/ /\ reflog' = removal.rest
        /\ lockfile' = [lockfile EXCEPT !["logs/refs/stash"] = "free"]
        /\ removal' = [removal EXCEPT !.at = "ref", !.owned = @ \ {"logs/refs/stash"}]
     \/ /\ Answer(Failed)
        /\ UNCHANGED <<reflog, lockfile>>
  /\ UNCHANGED <<hashOf, loose, packed, git, asked, torn, crashes>>

(* Entries are left: rename(ref.lock, ref). *)
CommitsRef ==
  /\ removal.at = "ref" /\ removal.rest # {}
  /\ loose' = TopOf(removal.rest)
  /\ lockfile' = [lockfile EXCEPT !["refs/stash"] = "free"]
  /\ removal' = [removal EXCEPT !.at = "unlock", !.answer = "removed",
                                !.owned = @ \ {"refs/stash"}]
  /\ UNCHANGED <<reflog, hashOf, packed, git, asked, torn, crashes>>

(* None is left: "packed first, so the stale line never shows through". *)
CommitsPacked ==
  /\ removal.at = "ref" /\ removal.rest = {} /\ removal.packed
  /\ packed' = None
  /\ lockfile' = [lockfile EXCEPT !["packed-refs"] = "free"]
  /\ removal' = [removal EXCEPT !.packed = FALSE, !.owned = @ \ {"packed-refs"},
                                !.at = IF removal.loose THEN "ref" ELSE "unlock",
                                !.answer = IF removal.loose THEN @ ELSE "removed"]
  /\ UNCHANGED <<reflog, hashOf, loose, git, asked, torn, crashes>>

UnlinksRef ==
  /\ removal.at = "ref" /\ removal.rest = {} /\ ~ removal.packed
  /\ loose' = None
  /\ Answer("removed")
  /\ UNCHANGED <<reflog, hashOf, packed, lockfile, git, asked, torn, crashes>>

RefFails ==
  /\ removal.at = "ref"
  /\ removal' = [removal EXCEPT !.at = "rollback"]
  /\ UNCHANGED <<files, lockfile, git, asked, torn, crashes>>

(* bug: the original log is not put back *)
NoRollBack ==
  /\ removal.at = "rollback"
  /\ Answer(Failed)
  /\ UNCHANGED <<files, lockfile, git, asked, torn, crashes>>

(* "Ref commit failed: restore the original stack while still locked"; this may    *)
(* fail as well, before or after its lock is taken.                               *)
RollsBack ==
  /\ removal.at = "rollback"
  /\ \/ /\ lockfile["logs/refs/stash"] = "free"
        /\ reflog' = removal.all
        /\ Answer(Failed)
        /\ UNCHANGED <<lockfile, torn>>
     \/ /\ Answer(Failed)
        /\ torn' = TRUE
        /\ UNCHANGED <<reflog, lockfile>>
     \/ /\ lockfile["logs/refs/stash"] = "free"
        /\ lockfile' = [lockfile EXCEPT !["logs/refs/stash"] = "app"]
        /\ removal' = [removal EXCEPT !.at = "unlock", !.answer = Failed,
                                      !.owned = @ \cup {"logs/refs/stash"}]
        /\ torn' = TRUE
        /\ UNCHANGED reflog
  /\ UNCHANGED <<hashOf, loose, packed, git, asked, crashes>>

(* The finally block: one of the locks owned is unlinked, or cannot be. *)
Unlocks ==
  /\ removal.at = "unlock"
  /\ IF removal.owned = {}
     THEN removal' = Idle(removal.asks) /\ UNCHANGED lockfile
     ELSE \E f \in removal.owned, left \in {"free", "left"} :
            /\ lockfile' = [lockfile EXCEPT ![f] = left]
            /\ removal' = [removal EXCEPT !.owned = @ \ {f}]
  /\ UNCHANGED <<files, git, asked, torn, crashes>>

(* The process dies; its lock files stay. *)
AppCrashes ==
  /\ removal.at # "idle" /\ crashes < MaxCrashes
  /\ lockfile' = [f \in LockFiles |-> IF lockfile[f] = "app" THEN "left" ELSE lockfile[f]]
  /\ removal' = Idle(removal.asks)
  /\ torn' = (torn \/ removal.at \in {"ref", "rollback"})
  /\ crashes' = crashes + 1
  /\ UNCHANGED <<files, git, asked>>

-----------------------------------------------------------------------------
(* Git's own commands; a lock that exists fails them. *)

(* git stash push or store: refs/stash.lock, the log, the ref. *)
GitLocksRef(g, h) ==
  /\ git[g].at = "idle" /\ lockfile["refs/stash"] = "free"
  /\ Stored # Entries
  /\ lockfile' = [lockfile EXCEPT !["refs/stash"] = g]
  /\ git' = [git EXCEPT ![g] = [at |-> "store", hash |-> h]]
  /\ UNCHANGED <<files, removal, asked, torn, crashes>>

GitAppends(g) ==
  /\ git[g].at = "store" /\ Stored # Entries
  /\ LET i == Cardinality(Stored) + 1 IN
       /\ hashOf' = [hashOf EXCEPT ![i] = git[g].hash]
       /\ reflog' = reflog \cup {i}
  /\ git' = [git EXCEPT ![g].at = "stored"]
  /\ UNCHANGED <<loose, packed, lockfile, removal, asked, torn, crashes>>

GitCommitsRef(g) ==
  /\ git[g].at = "stored"
  /\ loose' = git[g].hash
  /\ lockfile' = [lockfile EXCEPT !["refs/stash"] = "free"]
  /\ git' = [git EXCEPT ![g] = [at |-> "idle", hash |-> None]]
  /\ UNCHANGED <<reflog, hashOf, packed, removal, asked, torn, crashes>>

(* git stash drop; the last entry takes the loose and the packed ref along. *)
GitDrops(i) ==
  /\ i \in reflog
  /\ lockfile["refs/stash"] = "free" /\ lockfile["logs/refs/stash"] = "free"
  /\ reflog' = reflog \ {i}
  /\ asked' = asked \cup {i}
  /\ IF reflog' = {}
     THEN lockfile["packed-refs"] = "free" /\ loose' = None /\ packed' = None
     ELSE /\ loose' = IF i = Max(reflog) THEN TopOf(reflog') ELSE loose
          /\ UNCHANGED packed
  /\ UNCHANGED <<hashOf, lockfile, removal, git, torn, crashes>>

(* git pack-refs: packed-refs.lock, the packed line, then the loose file, if it    *)
(* still has the value that was packed.                                           *)
GitLocksPacked(g) ==
  /\ git[g].at = "idle" /\ lockfile["packed-refs"] = "free"
  /\ lockfile' = [lockfile EXCEPT !["packed-refs"] = g]
  /\ git' = [git EXCEPT ![g].at = "pack"]
  /\ UNCHANGED <<files, removal, asked, torn, crashes>>

GitPacks(g) ==
  /\ git[g].at = "pack"
  /\ packed' = Tip
  /\ lockfile' = [lockfile EXCEPT !["packed-refs"] = "free"]
  /\ git' = [git EXCEPT ![g] = IF loose = None THEN [at |-> "idle", hash |-> None]
                                               ELSE [at |-> "prune", hash |-> loose]]
  /\ UNCHANGED <<reflog, hashOf, loose, removal, asked, torn, crashes>>

GitPrunes(g) ==
  /\ git[g].at = "prune"
  /\ IF lockfile["refs/stash"] = "free" /\ loose = git[g].hash
     THEN loose' = None /\ torn' = (torn \/ packed # git[g].hash)
     ELSE UNCHANGED <<loose, torn>>
  /\ git' = [git EXCEPT ![g] = [at |-> "idle", hash |-> None]]
  /\ UNCHANGED <<reflog, hashOf, packed, lockfile, removal, asked, crashes>>

(* As Git's message advises, a lock file that nobody owns any more is deleted. *)
LeftLockDeleted(f) ==
  /\ lockfile[f] = "left"
  /\ lockfile' = [lockfile EXCEPT ![f] = "free"]
  /\ UNCHANGED <<files, removal, git, asked, torn, crashes>>

RemovalStep ==
  \/ ListsStashes \/ TakesLock \/ Checks \/ Stages \/ Applies
  \/ CommitsLog \/ CommitsRef \/ CommitsPacked \/ UnlinksRef \/ RefFails \/ RollsBack
  \/ Unlocks

StashNext ==
  \/ \E kind \in {"drop", "pop"}, h \in Hashes : AskRemoval(kind, h)
  \/ RemovalStep
  \/ AppCrashes
  \/ \E g \in Gits, h \in Hashes : GitLocksRef(g, h)
  \/ \E g \in Gits : \/ GitAppends(g) \/ GitCommitsRef(g)
                     \/ GitLocksPacked(g) \/ GitPacks(g) \/ GitPrunes(g)
  \/ \E i \in Entries : GitDrops(i)
  \/ \E f \in LockFiles : LeftLockDeleted(f)

StashSpec == StashInit /\ [][StashNext]_stashVars

-----------------------------------------------------------------------------
(* Properties *)

(* Whatever fails, crashes or runs beside it, a removal takes nothing from the     *)
(* stack but the one entry it was asked for: every other entry stays listed.  And  *)
(* "never delete a lock belonging to another process", though "a lock left behind   *)
(* blocks every later Git stash command": at every moment it is about to unlink     *)
(* exactly the locks it has created and that are still its own.                   *)
HarmsNoOther ==
  /\ Stored \ asked \subseteq reflog
  /\ removal.owned = {f \in LockFiles : lockfile[f] = "app"}

(* Between two commands refs/stash names the newest entry of the log, whichever     *)
(* entry went and whether the ref was loose, packed or both.  They come apart only *)
(* by a crash between two files, a rollback that fails too, or a git pack-refs that *)
(* prunes the loose file when the line it packed has gone (after a rollback, or with *)
(* the last entry, if the same commit is then stored again).                      *)
RefFollowsLog ==
  lockfile["refs/stash"] = "free" /\ ~ torn /\ reflog # {} => Tip = TopOf(reflog)

(* "Removing the last entry deletes both, like `git stash drop`, so the packed line *)
(* cannot resurrect a dropped stash; the packed-refs lock keeps a concurrent pack  *)
(* out while we do that."  (The lock ends with the rename that deletes the line.)  *)
PackedLineStaysGone ==
  lockfile["refs/stash"] = "free" /\ ~ torn /\ reflog = {} => Tip = None

(* A removal that answers "removed" has removed the entry, and a pop has applied it *)
(* before; any other answer means that the entry is listed as it was, "so it is    *)
(* still listed" for a pop that had applied it, unless the rollback failed as well. *)
AnswerIsTrue ==
  [][removal.answer # removal'.answer /\ removal'.answer # "none" =>
       CASE removal'.answer = "removed" ->
              Occurrences(removal.hash)' = {} /\ (removal.kind = "pop" => removal.applied)
         [] removal'.answer = "applied, not removed" ->
              removal.applied /\ (reflog' = removal.all \/ torn')
         [] OTHER ->
              ~ removal.applied /\ (removal.at = "rollback" \/ reflog' = reflog)]_stashVars
=============================================================================
