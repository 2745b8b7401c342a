----------------------------- MODULE ChangesProofs -----------------------------
(***************************************************************************)
(* What the changes of many steps promise, for every value of the          *)
(* constants: removing a stash, rewriting history, deleting finished       *)
(* branches, updating the application.  Each part is about a module of its *)
(* own and its specification; they share no state.                         *)
(***************************************************************************)
EXTENDS StashRemoval, HistoryEdit, BranchCleanup, Updates, FiniteSetTheorems,
        WellFoundedInduction, TLAPS

-----------------------------------------------------------------------------
(* Removing a stash *)

(* What the variables are; which commits they name does not matter here.            *)
RemovalShape ==
  removal = [at |-> removal.at, kind |-> removal.kind, hash |-> removal.hash,
             owned |-> removal.owned, all |-> removal.all, rest |-> removal.rest,
             loose |-> removal.loose, packed |-> removal.packed,
             applied |-> removal.applied, answer |-> removal.answer,
             asks |-> removal.asks]

Shapes ==
  /\ RemovalShape
  /\ git = [g \in Gits |-> [at |-> git[g].at, hash |-> git[g].hash]]
  /\ hashOf = [i \in Entries |-> hashOf[i]]
  /\ lockfile = [f \in LockFiles |-> lockfile[f]]
  /\ reflog \subseteq Entries /\ removal.all \subseteq Entries

OwnsItsLocks == removal.owned = {f \in LockFiles : lockfile[f] = "app"}

OthersStayListed == Stored \ asked \subseteq reflog

(* A Git process in its critical section has the lock file.                         *)
GitHasLocks ==
  \A g \in Gits :
    /\ git[g].at \in {"store", "stored"} => lockfile["refs/stash"] = g
    /\ git[g].at = "pack" => lockfile["packed-refs"] = g

(* The three locks are taken in order, and that of the ref is kept to the end.       *)
LocksInOrder ==
  /\ removal.at \in {"idle", "list"} => removal.owned = {}
  /\ removal.at = "lock" =>
       removal.owned \in {{}, {"refs/stash"}, {"refs/stash", "packed-refs"}}
  /\ removal.at \in {"check", "stage", "apply", "log"} => removal.owned = LockFiles
  /\ removal.at \in {"ref", "rollback"} => "refs/stash" \in removal.owned
  /\ removal.at = "ref" /\ removal.packed => "packed-refs" \in removal.owned

(* What was read under the locks is still so: nobody else writes the log meanwhile.  *)
StagedIsCurrent ==
  /\ removal.at \in {"stage", "apply", "log"} => removal.all \ removal.rest \subseteq asked
  /\ removal.at \in {"stage", "apply", "log", "ref", "rollback"} =>
       reflog \subseteq removal.all /\ removal.rest \subseteq removal.all

StashInv ==
  /\ Shapes /\ OwnsItsLocks /\ OthersStayListed
  /\ GitHasLocks /\ LocksInOrder /\ StagedIsCurrent

-----------------------------------------------------------------------------
(* No removal runs in the beginning, and no lock is taken. *)
LEMMA StashInvInit == StashInit => StashInv
<1> SUFFICES ASSUME StashInit PROVE StashInv
  OBVIOUS
<1> USE StashAssumption DEF StashInit, Idle, LockFiles
<1>1. Shapes
  BY DEF Shapes, RemovalShape
<1>2. OwnsItsLocks /\ OthersStayListed
  BY DEF OwnsItsLocks, OthersStayListed, Stored
<1>3. GitHasLocks /\ LocksInOrder /\ StagedIsCurrent
  BY DEF GitHasLocks, LocksInOrder, StagedIsCurrent
<1> QED
  BY <1>1, <1>2, <1>3 DEF StashInv

(* The one occurrence of a commit is the entry that is asked for.                    *)
LEMMA OneOccurrence ==
  ASSUME StashInv, NEW h, Cardinality(Occurrences(h)) = 1
  PROVE  Occurrences(h) = {CHOOSE i \in Occurrences(h) : TRUE}
<1>1. IsFiniteSet(Entries)
  BY StashAssumption, FS_Interval DEF Entries
<1>2. Occurrences(h) \subseteq Entries
  BY DEF Occurrences, StashInv, Shapes
<1>3. IsFiniteSet(Occurrences(h))
  BY <1>1, <1>2, FS_Subset
<1>4. PICK i : Occurrences(h) = {i}
  BY <1>3, FS_Singleton
<1> QED
  BY <1>4

(* A step that moves the removal on and touches no file or lock.                     *)
RemovalMoves ==
  \/ removal'.at = "unlock"
  \/ removal.at = "idle" /\ removal'.at = "list"
  \/ removal.at = "list" /\ removal'.at = "lock"
  \/ removal.at \in {"stage", "apply"} /\ removal'.at \in {"apply", "log"}
  \/ removal.at = "ref" /\ removal'.at = "rollback"

(* A removal that moves among steps with the same locks keeps the invariant. *)
LEMMA QuietRemovalStep ==
  ASSUME StashInv, UNCHANGED <<reflog, hashOf, lockfile, git, asked>>,
         RemovalShape', RemovalMoves, removal'.owned = removal.owned,
         removal'.all = removal.all, removal'.rest = removal.rest
  PROVE  StashInv'
<1>2. Shapes'
  BY DEF StashInv, Shapes
<1>3. OwnsItsLocks' /\ OthersStayListed' /\ GitHasLocks'
  BY DEF StashInv, OwnsItsLocks, OthersStayListed, Stored, GitHasLocks
<1>4. LocksInOrder' /\ StagedIsCurrent'
  BY DEF StashInv, LocksInOrder, StagedIsCurrent, RemovalMoves
<1> QED
  BY <1>2, <1>3, <1>4 DEF StashInv

(* A step that moves no removal and changes no log.                                  *)
LEMMA OutsideStep ==
  ASSUME StashInv, UNCHANGED <<removal, reflog, hashOf, asked>>,
         (git = [g \in Gits |-> [at |-> git[g].at, hash |-> git[g].hash]])',
         (lockfile = [f \in LockFiles |-> lockfile[f]])',
         \A f \in LockFiles : lockfile'[f] = "app" <=> lockfile[f] = "app",
         GitHasLocks'
  PROVE  StashInv'
<1>1. Shapes'
  BY DEF StashInv, Shapes, RemovalShape
<1>2. OwnsItsLocks' /\ OthersStayListed'
  BY DEF StashInv, OwnsItsLocks, OthersStayListed, Stored
<1>3. LocksInOrder' /\ StagedIsCurrent'
  BY DEF StashInv, LocksInOrder, StagedIsCurrent
<1> QED
  BY <1>1, <1>2, <1>3 DEF StashInv

-----------------------------------------------------------------------------
(* The steps of a removal that touch no lock and no log. *)
LEMMA QuietActions ==
  ASSUME StashInv,
         \/ \E kind \in {"drop", "pop"}, h \in Hashes : AskRemoval(kind, h)
         \/ ListsStashes \/ Stages \/ Applies \/ UnlinksRef \/ RefFails
  PROVE  StashInv'
<1> USE DEF StashInv, Shapes, RemovalShape, files, Answer, RemovalMoves
<1>1. ASSUME NEW kind, NEW h, AskRemoval(kind, h) PROVE StashInv'
  BY <1>1, QuietRemovalStep DEF AskRemoval
<1>2. CASE ListsStashes
  BY <1>2, QuietRemovalStep DEF ListsStashes
<1>3. CASE Stages
  BY <1>3, QuietRemovalStep DEF Stages
<1>4. CASE Applies
  BY <1>4, QuietRemovalStep DEF Applies
<1>5. CASE UnlinksRef
  BY <1>5, QuietRemovalStep DEF UnlinksRef
<1>6. CASE RefFails
  BY <1>6, QuietRemovalStep DEF RefFails
<1> QED
  BY <1>1, <1>2, <1>3, <1>4, <1>5, <1>6

(* The lock that is missing is taken, or the removal fails.                          *)
LEMMA LockAction ==
  ASSUME StashInv, TakesLock
  PROVE  StashInv'
<1> USE DEF StashInv, Shapes, RemovalShape, files, Answer, RemovalMoves
<1>1. CASE Answer("failed") /\ UNCHANGED lockfile
  BY <1>1, QuietRemovalStep DEF TakesLock
<1>2. ASSUME NEW f \in LockFiles, f = NextLock, lockfile[f] = "free",
             lockfile' = [lockfile EXCEPT ![f] = "app"],
             removal' = [removal EXCEPT !.owned = @ \cup {f},
                           !.at = IF f = "logs/refs/stash" THEN "check" ELSE "lock"]
      PROVE  StashInv'
  <2> USE <1>2 DEF TakesLock
  <2>1. removal'.owned = removal.owned \cup {f} /\ removal'.at \in {"check", "lock"}
    OBVIOUS
  <2>2. Shapes'
    OBVIOUS
  <2>3. OwnsItsLocks' /\ OthersStayListed'
    BY <2>1 DEF OwnsItsLocks, OthersStayListed, Stored
  <2>4. GitHasLocks'
    BY StashAssumption DEF GitHasLocks
  <2>5. LocksInOrder'
    <3>1. removal.owned \in {{}, {"refs/stash"}, {"refs/stash", "packed-refs"}}
      BY DEF LocksInOrder
    <3>2. CASE removal.owned = {}
      BY <2>1, <3>2 DEF LocksInOrder, NextLock
    <3>3. CASE removal.owned = {"refs/stash"}
      BY <2>1, <3>3 DEF LocksInOrder, NextLock
    <3>4. CASE removal.owned = {"refs/stash", "packed-refs"}
      BY <2>1, <3>4 DEF LocksInOrder, NextLock, LockFiles
    <3> QED
      BY <3>1, <3>2, <3>3, <3>4
  <2>6. StagedIsCurrent'
    BY <2>1 DEF StagedIsCurrent
  <2> QED
    BY <2>2, <2>3, <2>4, <2>5, <2>6
<1>3. NextLock \in LockFiles
  BY DEF NextLock, LockFiles
<1> QED
  BY <1>1, <1>2, <1>3 DEF TakesLock

(* What is to stay and what is to go is read under the locks.                        *)
LEMMA CheckAction ==
  ASSUME StashInv, Checks
  PROVE  StashInv'
<1> USE DEF StashInv, Shapes, RemovalShape, files, Answer, RemovalMoves
<1>1. CASE ~ Removable
  BY <1>1, QuietRemovalStep DEF Checks
<1>2. CASE Removable
  <2> DEFINE i == CHOOSE i \in Occurrences(removal.hash) : TRUE
  <2>1. /\ asked' = asked \cup {i}
        /\ removal' = [removal EXCEPT !.at = "stage", !.all = reflog,
                          !.rest = reflog \ Occurrences(removal.hash),
                          !.loose = loose # None, !.packed = packed # None]
        /\ removal.at = "check"
        /\ UNCHANGED <<reflog, hashOf, lockfile, git>>
    BY <1>2 DEF Checks
  <2>2. Occurrences(removal.hash) = {i}
    BY <1>2, OneOccurrence DEF Removable
  <2> HIDE DEF i
  <2>3. /\ removal'.at = "stage" /\ removal'.owned = removal.owned
        /\ removal'.all = reflog /\ removal'.rest = reflog \ {i}
    BY <2>1, <2>2
  <2>4. Shapes'
    BY <2>1
  <2>5. OwnsItsLocks' /\ OthersStayListed' /\ GitHasLocks'
    BY <2>1, <2>3 DEF OwnsItsLocks, OthersStayListed, Stored, GitHasLocks
  <2>6. LocksInOrder' /\ StagedIsCurrent'
    BY <2>1, <2>3 DEF LocksInOrder, StagedIsCurrent
  <2> QED
    BY <2>4, <2>5, <2>6
<1> QED
  BY <1>1, <1>2

(* The log loses the entry that is asked for.                                        *)
LEMMA LogAction ==
  ASSUME StashInv, CommitsLog
  PROVE  StashInv'
<1> USE DEF StashInv, Shapes, RemovalShape, files, Answer, RemovalMoves
<1>1. CASE Answer(Failed) /\ UNCHANGED <<reflog, lockfile>>
  BY <1>1, QuietRemovalStep DEF CommitsLog
<1>2. CASE /\ reflog' = removal.rest
           /\ lockfile' = [lockfile EXCEPT !["logs/refs/stash"] = "free"]
           /\ removal' = [removal EXCEPT !.at = "ref", !.owned = @ \ {"logs/refs/stash"}]
  <2> USE <1>2 DEF CommitsLog
  <2>1. /\ removal'.at = "ref" /\ removal'.owned = removal.owned \ {"logs/refs/stash"}
        /\ removal'.all = removal.all /\ removal'.rest = removal.rest
    OBVIOUS
  <2>2. Shapes'
    BY DEF StagedIsCurrent
  <2>3. OwnsItsLocks'
    BY <2>1 DEF OwnsItsLocks
  <2>4. OthersStayListed'
    BY DEF OthersStayListed, Stored, StagedIsCurrent
  <2>5. GitHasLocks'
    BY DEF GitHasLocks, LockFiles
  <2>6. LocksInOrder' /\ StagedIsCurrent'
    BY <2>1 DEF LocksInOrder, StagedIsCurrent, LockFiles
  <2> QED
    BY <2>2, <2>3, <2>4, <2>5, <2>6
<1> QED
  BY <1>1, <1>2 DEF CommitsLog

(* One of the locks owned is given back; the answer is there, or the ref remains.    *)
LEMMA ReleaseStep ==
  ASSUME StashInv, UNCHANGED <<reflog, hashOf, git, asked>>,
         RemovalShape', removal'.all = removal.all, removal'.rest = removal.rest,
         NEW f \in removal.owned, removal'.owned = removal.owned \ {f},
         NEW left \in {"free", "left"}, lockfile' = [lockfile EXCEPT ![f] = left],
         \/ removal'.at = "unlock"
         \/ /\ removal.at = "ref" /\ removal'.at = "ref"
            /\ f = "packed-refs" /\ ~ removal'.packed
  PROVE  StashInv'
<1> USE DEF StashInv
<1>1. f \in LockFiles /\ lockfile[f] = "app" /\ left # "app"
  BY DEF OwnsItsLocks
<1>2. Shapes'
  BY DEF Shapes
<1>3. OwnsItsLocks'
  BY <1>1 DEF OwnsItsLocks, Shapes
<1>4. OthersStayListed'
  BY DEF OthersStayListed, Stored
<1>5. GitHasLocks'
  BY <1>1, StashAssumption DEF GitHasLocks, Shapes
<1>6. LocksInOrder' /\ StagedIsCurrent'
  BY DEF LocksInOrder, StagedIsCurrent
<1> QED
  BY <1>2, <1>3, <1>4, <1>5, <1>6

(* Nothing is owned any more, or the process has died.                               *)
LEMMA EndStep ==
  ASSUME StashInv, UNCHANGED <<reflog, hashOf, git, asked>>,
         removal' = Idle(removal.asks),
         (lockfile = [f \in LockFiles |-> lockfile[f]])',
         \A f \in LockFiles :
           lockfile'[f] # "app" /\ (lockfile[f] # "app" => lockfile'[f] = lockfile[f])
  PROVE  StashInv'
<1> USE DEF StashInv
<1>1. /\ removal'.at = "idle" /\ removal'.owned = {} /\ removal'.all = {}
      /\ RemovalShape'
  BY DEF Idle, RemovalShape
<1>2. Shapes'
  BY <1>1 DEF Shapes
<1>3. OwnsItsLocks' /\ OthersStayListed'
  BY <1>1 DEF OwnsItsLocks, OthersStayListed, Stored
<1>4. GitHasLocks'
  BY StashAssumption DEF GitHasLocks, LockFiles
<1>5. LocksInOrder' /\ StagedIsCurrent'
  BY <1>1 DEF LocksInOrder, StagedIsCurrent
<1> QED
  BY <1>2, <1>3, <1>4, <1>5

(* The steps at which a removal lets its locks go. *)
LEMMA ReleaseActions ==
  ASSUME StashInv, CommitsRef \/ CommitsPacked \/ Unlocks
  PROVE  StashInv'
<1> USE DEF StashInv, Shapes, RemovalShape, files
<1>1. CASE CommitsRef
  BY <1>1, ReleaseStep DEF CommitsRef, LocksInOrder
<1>2. CASE CommitsPacked
  BY <1>2, ReleaseStep DEF CommitsPacked, LocksInOrder
<1>3. CASE Unlocks
  <2>1. CASE removal.owned = {}
    BY <1>3, <2>1, EndStep DEF Unlocks, OwnsItsLocks
  <2>2. CASE removal.owned # {}
    BY <1>3, <2>2, ReleaseStep DEF Unlocks
  <2> QED
    BY <2>1, <2>2
<1> QED
  BY <1>1, <1>2, <1>3

(* The original log is put back, or that fails as well.                              *)
LEMMA RollBackAction ==
  ASSUME StashInv, RollsBack
  PROVE  StashInv'
<1> USE DEF StashInv, Shapes, RemovalShape, files, Answer, RemovalMoves
<1>1. CASE Answer(Failed) /\ UNCHANGED <<reflog, lockfile>>
  BY <1>1, QuietRemovalStep DEF RollsBack
<1>2. CASE reflog' = removal.all /\ Answer(Failed) /\ UNCHANGED lockfile
  <2> USE <1>2 DEF RollsBack
  <2>1. removal'.at = "unlock" /\ removal'.owned = removal.owned
    OBVIOUS
  <2>2. Shapes'
    OBVIOUS
  <2>3. OwnsItsLocks' /\ OthersStayListed' /\ GitHasLocks'
    BY <2>1 DEF OwnsItsLocks, OthersStayListed, Stored, GitHasLocks, StagedIsCurrent
  <2>4. LocksInOrder' /\ StagedIsCurrent'
    BY <2>1 DEF LocksInOrder, StagedIsCurrent
  <2> QED
    BY <2>2, <2>3, <2>4
<1>3. CASE /\ lockfile["logs/refs/stash"] = "free"
           /\ lockfile' = [lockfile EXCEPT !["logs/refs/stash"] = "app"]
           /\ removal' = [removal EXCEPT !.at = "unlock", !.answer = Failed,
                                         !.owned = @ \cup {"logs/refs/stash"}]
           /\ UNCHANGED reflog
  <2> USE <1>3 DEF RollsBack
  <2>1. removal'.at = "unlock" /\ removal'.owned = removal.owned \cup {"logs/refs/stash"}
    OBVIOUS
  <2>2. Shapes'
    OBVIOUS
  <2>3. OwnsItsLocks' /\ OthersStayListed'
    BY <2>1 DEF OwnsItsLocks, OthersStayListed, Stored, LockFiles
  <2>4. GitHasLocks'
    BY DEF GitHasLocks, LockFiles
  <2>5. LocksInOrder' /\ StagedIsCurrent'
    BY <2>1 DEF LocksInOrder, StagedIsCurrent
  <2> QED
    BY <2>2, <2>3, <2>4, <2>5
<1> QED
  BY <1>1, <1>2, <1>3 DEF RollsBack

-----------------------------------------------------------------------------
(* Git's own commands: they take a free lock only, and leave what is locked alone.   *)
LEMMA OutsideActions ==
  ASSUME StashInv,
         \/ \E g \in Gits, h \in Hashes : GitLocksRef(g, h)
         \/ \E g \in Gits : \/ GitCommitsRef(g) \/ GitLocksPacked(g)
                            \/ GitPacks(g) \/ GitPrunes(g)
         \/ \E f \in LockFiles : LeftLockDeleted(f)
  PROVE  StashInv'
<1> USE DEF StashInv, Shapes, files
<1>0. \A g \in Gits : g # "app" /\ g # "free" /\ g # "left"
  BY StashAssumption
<1>1. ASSUME NEW g \in Gits, NEW h \in Hashes, GitLocksRef(g, h) PROVE StashInv'
  <2>1. GitHasLocks'
    BY <1>0, <1>1 DEF GitLocksRef, GitHasLocks, LockFiles
  <2> QED
    BY <1>0, <1>1, <2>1, OutsideStep DEF GitLocksRef, LockFiles
<1>2. ASSUME NEW g \in Gits, GitCommitsRef(g) PROVE StashInv'
  <2>1. GitHasLocks'
    BY <1>0, <1>2 DEF GitCommitsRef, GitHasLocks, LockFiles
  <2> QED
    BY <1>0, <1>2, <2>1, OutsideStep DEF GitCommitsRef, GitHasLocks, LockFiles
<1>3. ASSUME NEW g \in Gits, GitLocksPacked(g) PROVE StashInv'
  <2>1. GitHasLocks'
    BY <1>0, <1>3 DEF GitLocksPacked, GitHasLocks, LockFiles
  <2> QED
    <3>1. (git = [x \in Gits |-> [at |-> git[x].at, hash |-> git[x].hash]])'
      BY <1>3 DEF GitLocksPacked
    <3>2. /\ (lockfile = [f \in LockFiles |-> lockfile[f]])'
          /\ \A f \in LockFiles : lockfile'[f] = "app" <=> lockfile[f] = "app"
      BY <1>0, <1>3 DEF GitLocksPacked
    <3> QED
      BY <1>3, <2>1, <3>1, <3>2, OutsideStep DEF GitLocksPacked
<1>4. ASSUME NEW g \in Gits, GitPacks(g) PROVE StashInv'
  <2>1. GitHasLocks'
    BY <1>0, <1>4 DEF GitPacks, GitHasLocks, LockFiles
  <2> QED
    BY <1>0, <1>4, <2>1, OutsideStep DEF GitPacks, GitHasLocks, LockFiles
<1>5. ASSUME NEW g \in Gits, GitPrunes(g) PROVE StashInv'
  <2>1. GitHasLocks'
    BY <1>0, <1>5 DEF GitPrunes, GitHasLocks
  <2> QED
    BY <1>5, <2>1, OutsideStep DEF GitPrunes
<1>6. ASSUME NEW f \in LockFiles, LeftLockDeleted(f) PROVE StashInv'
  <2>1. GitHasLocks'
    BY <1>0, <1>6 DEF LeftLockDeleted, GitHasLocks, LockFiles
  <2> QED
    BY <1>6, <2>1, OutsideStep DEF LeftLockDeleted
<1> QED
  BY <1>1, <1>2, <1>3, <1>4, <1>5, <1>6

(* Whoever writes the log has the lock of the ref, so no removal is under way there. *)
LEMMA GitAppendAction ==
  ASSUME StashInv, NEW g \in Gits, GitAppends(g)
  PROVE  StashInv'
<1> USE DEF StashInv, Shapes, GitAppends
<1> DEFINE i == Cardinality(Stored) + 1
<1>0. /\ reflog' = reflog \cup {i} /\ hashOf' = [hashOf EXCEPT ![i] = git[g].hash]
      /\ git' = [git EXCEPT ![g].at = "stored"] /\ UNCHANGED <<lockfile, removal, asked>>
  OBVIOUS
<1>1. removal.at \notin {"check", "stage", "apply", "log", "ref", "rollback"}
  <2>1. lockfile["refs/stash"] = g /\ g # "app"
    BY StashAssumption DEF GitHasLocks
  <2>2. "refs/stash" \notin removal.owned
    BY <2>1 DEF OwnsItsLocks
  <2> QED
    BY <2>2 DEF LocksInOrder, LockFiles
<1>2. i \in Entries
  <2>1. IsFiniteSet(Entries) /\ Cardinality(Entries) = MaxEntries
    BY StashAssumption, FS_Interval DEF Entries
  <2>2. Stored \subseteq Entries /\ Stored # Entries
    BY DEF Stored
  <2>3. Cardinality(Stored) < Cardinality(Entries) /\ Cardinality(Stored) \in Nat
    BY <2>1, <2>2, FS_Subset, FS_CardinalityType
  <2> QED
    BY <2>1, <2>3, StashAssumption DEF Entries
<1> HIDE DEF i
<1> HIDE DEF GitAppends
<1>3. Shapes'
  <2>1. (git = [x \in Gits |-> [at |-> git[x].at, hash |-> git[x].hash]])'
    BY <1>0
  <2>2. (hashOf = [x \in Entries |-> hashOf[x]])'
    BY <1>0
  <2> QED
    BY <1>0, <1>2, <2>1, <2>2 DEF RemovalShape
<1>4. OwnsItsLocks' /\ OthersStayListed'
  <2>1. \A x \in Entries : x # i => hashOf'[x] = hashOf[x]
    BY <1>0
  <2>2. Stored' \subseteq Stored \cup {i}
    BY <2>1 DEF Stored
  <2>3. OthersStayListed'
    BY <1>0, <2>2 DEF OthersStayListed
  <2>4. OwnsItsLocks'
    BY <1>0 DEF OwnsItsLocks
  <2> QED
    BY <2>3, <2>4
<1>5. GitHasLocks'
  BY DEF GitHasLocks, GitAppends
<1>6. LocksInOrder' /\ StagedIsCurrent'
  BY <1>0, <1>1 DEF LocksInOrder, StagedIsCurrent
<1> QED
  BY <1>3, <1>4, <1>5, <1>6

(* Git drops an entry itself, as another user asks. *)
LEMMA GitDropAction ==
  ASSUME StashInv, NEW i \in Entries, GitDrops(i)
  PROVE  StashInv'
<1> USE DEF StashInv, Shapes
<1>1. /\ reflog' = reflog \ {i} /\ asked' = asked \cup {i}
      /\ UNCHANGED <<hashOf, lockfile, removal, git>>
      /\ lockfile["refs/stash"] = "free"
  BY DEF GitDrops
<1>2. Shapes'
  BY <1>1 DEF RemovalShape
<1>3. OwnsItsLocks' /\ OthersStayListed' /\ GitHasLocks'
  BY <1>1 DEF OwnsItsLocks, OthersStayListed, Stored, GitHasLocks
<1>4. LocksInOrder' /\ StagedIsCurrent'
  BY <1>1 DEF LocksInOrder, StagedIsCurrent
<1> QED
  BY <1>2, <1>3, <1>4

-----------------------------------------------------------------------------
(* Every step keeps the locks owned and the staged log current. *)
LEMMA StashInvNext ==
  ASSUME StashInv, [StashNext]_stashVars
  PROVE  StashInv'
<1>1. CASE AppCrashes
  BY <1>1, EndStep DEF AppCrashes, files
<1>2. CASE UNCHANGED stashVars
  BY <1>2 DEF stashVars, StashInv, Shapes, RemovalShape, OwnsItsLocks, OthersStayListed,
              Stored, GitHasLocks, LocksInOrder, StagedIsCurrent
<1> QED
  BY <1>1, <1>2, QuietActions, LockAction, CheckAction, LogAction, ReleaseActions,
     RollBackAction, OutsideActions, GitAppendAction, GitDropAction
     DEF StashNext, RemovalStep

(* The invariant of the removal: it owns the locks it has created, in their order,   *)
(* and what it has read under them is what the log still says.                       *)
THEOREM StashInvariant == StashSpec => []StashInv
<1>1. StashInv /\ [StashNext]_stashVars => StashInv'
  BY StashInvNext
<1> QED
  BY <1>1, StashInvInit, PTL DEF StashSpec

(* Whatever fails, crashes or runs beside it, a removal takes no entry but the one it *)
(* was asked for, and releases no lock but its own.                                  *)
THEOREM RemovalHarmsNoOther == StashSpec => []HarmsNoOther
<1>1. StashInv => HarmsNoOther
  BY DEF StashInv, OwnsItsLocks, OthersStayListed, HarmsNoOther
<1> QED
  BY <1>1, StashInvariant, PTL

-----------------------------------------------------------------------------
(* The ref and the log *)

Staged == {"stage", "apply", "log"}
Committing == {"ref", "rollback"}

(* Entries are numbered as they are pushed. *)
StoredInOrder ==
  Stored = 1 .. Cardinality(Stored) /\ reflog \subseteq Stored /\ removal.all \subseteq Stored

CommitsKnown == \A g \in Gits : git[g].at \in {"store", "stored"} => git[g].hash \in Hashes

(* What the staged log has, and when the log has it. *)
StagedLog ==
  /\ removal.at \in Staged => reflog = removal.all
  /\ removal.at \in Committing => reflog = removal.rest
  /\ removal.at \in Staged \cup Committing =>
       removal.rest = {i \in removal.all : hashOf[i] # removal.hash}

(* Until the ref is committed it names the newest entry there was. *)
StagedRef ==
  removal.at \in Staged \cup Committing =>
    /\ removal.all # {} /\ Tip = TopOf(removal.all)
    /\ removal.loose => loose # None

(* A pop applies the work before the log is replaced, a drop never. *)
AppliedFirst ==
  /\ removal.at \in {"idle", "list", "lock", "check", "stage", "apply"} => ~ removal.applied
  /\ removal.at = "apply" => removal.kind = "pop"
  /\ removal.at \in {"log"} \cup Committing => (removal.applied <=> removal.kind = "pop")

(* A commit appended to the log is its newest entry until the ref has it. *)
NewestStored ==
  \A g \in Gits : git[g].at = "stored" => reflog # {} /\ TopOf(reflog) = git[g].hash

Agrees == reflog # {} => Tip = TopOf(reflog)

RefAgrees ==
  \/ torn \/ Agrees
  \/ removal.at \in Committing
  \/ \E g \in Gits : git[g].at = "stored"

RefInv ==
  /\ StoredInOrder /\ CommitsKnown /\ StagedLog /\ StagedRef
  /\ AppliedFirst /\ NewestStored /\ RefAgrees

(* The stack is empty at first. *)
LEMMA RefInvInit ==
  ASSUME StashInit
  PROVE  RefInv
<1>1. Stored = {}
  BY DEF StashInit, Stored
<1>2. Cardinality({}) = 0
  BY FS_EmptySet
<1>3. StoredInOrder
  BY <1>1, <1>2 DEF StashInit, StoredInOrder, Idle
<1>4. CommitsKnown /\ NewestStored
  BY DEF StashInit, CommitsKnown, NewestStored
<1>5. StagedLog /\ StagedRef /\ AppliedFirst
  BY DEF StashInit, Idle, StagedLog, StagedRef, AppliedFirst, Staged, Committing
<1>6. RefAgrees
  BY DEF StashInit, RefAgrees, Agrees
<1> QED BY <1>3, <1>4, <1>5, <1>6 DEF RefInv

-----------------------------------------------------------------------------
(* Newest entries *)

(* Every set of natural numbers has a least one. *)
LEMMA LeastExists ==
  ASSUME NEW S \in SUBSET Nat, S # {}
  PROVE  \E x \in S : \A y \in S : x <= y
<1> DEFINE R == {ss \in Nat \X Nat : ss[1] < ss[2]}
<1>1. IsWellFoundedOn(R, Nat)
  BY NatLessThanWellFounded DEF OpToRel
<1> HIDE DEF R
<1>2. PICK x \in S : \A y \in S : ~ (<<y, x>> \in R)
  BY <1>1, WFMin
<1>3. \A y \in S : ~ (y < x)
  BY <1>2 DEF R
<1> QED BY <1>3

(* A set of entries that is not empty has a newest one, and no other. *)
LEMMA NewestExists ==
  ASSUME NEW S \in SUBSET Entries, S # {}
  PROVE  Max(S) \in S /\ \A y \in S : y <= Max(S)
<1> DEFINE T == {MaxEntries - x : x \in S}
<1>0. MaxEntries \in Nat /\ \A x \in S : x \in Int /\ x <= MaxEntries
  BY StashAssumption DEF Entries
<1>1. T \in SUBSET Nat /\ T # {}
  <2>1. \A x \in S : MaxEntries - x \in Nat
    BY <1>0
  <2>2. PICK x \in S : TRUE
    OBVIOUS
  <2> QED BY <2>1, <2>2
<1>2. PICK z \in T : \A y \in T : z <= y
  BY <1>1, LeastExists, Zenon
<1>3. PICK x \in S : z = MaxEntries - x
  OBVIOUS
<1>4. \A y \in S : x >= y
  <2>1. SUFFICES ASSUME NEW y \in S
                 PROVE  x >= y
    OBVIOUS
  <2>2. MaxEntries - y \in T
    OBVIOUS
  <2>3. MaxEntries - x <= MaxEntries - y
    BY <1>2, <1>3, <2>2
  <2> QED BY <1>0, <1>3, <2>3
<1>5. Max(S) \in S /\ \A y \in S : Max(S) >= y
  BY <1>4, Zenon DEF Max
<1> QED BY <1>5 DEF Entries

(* The one that no other is newer than is the newest. *)
LEMMA NewestIs ==
  ASSUME NEW S \in SUBSET Entries, NEW x \in S, \A y \in S : y <= x
  PROVE  Max(S) = x
<1>1. Max(S) \in S /\ x <= Max(S) /\ Max(S) <= x
  BY NewestExists
<1> DEFINE m == Max(S)
<1> HIDE DEF m
<1>2. m \in Entries /\ x \in Entries
  BY <1>1 DEF m
<1>3. m \in Int /\ x \in Int
  BY <1>2 DEF Entries
<1> QED BY <1>1, <1>3 DEF m

(* The newest of entries that have a commit has one. *)
LEMMA TopIsKnown ==
  ASSUME NEW S \in SUBSET Stored, S # {}
  PROVE  TopOf(S) # None /\ TopOf(S) = hashOf[Max(S)] /\ Max(S) \in S
<1>1. S \in SUBSET Entries
  BY DEF Stored
<1>2. Max(S) \in S
  BY <1>1, NewestExists
<1> QED BY <1>2 DEF TopOf, Stored

-----------------------------------------------------------------------------
(* What a step of the removal, or of a Git process, keeps of it *)

(* While the removal has something staged, or commits it, it has the lock of the ref. *)
LEMMA StagedHasLock ==
  ASSUME StashInv, removal.at \in Staged \cup Committing
  PROVE  lockfile["refs/stash"] = "app"
BY DEF StashInv, LocksInOrder, OwnsItsLocks, Staged, Committing, LockFiles

(* A step of the removal that changes neither log nor ref: it goes on, or gives up, *)
(* and when it gives up between the two files the log is torn.                     *)
LEMMA RemovalKeeps ==
  ASSUME RefInv, UNCHANGED <<reflog, hashOf, git, loose>>, Tip' = Tip, torn => torn',
         removal'.all \in {removal.all, {}}, AppliedFirst',
         removal'.at \in Staged \cup Committing =>
           /\ removal'.all = removal.all /\ removal'.rest = removal.rest
           /\ removal'.hash = removal.hash /\ removal'.loose = removal.loose
           /\ \/ removal.at \in Staged /\ removal'.at \in Staged
              \/ removal.at \in Committing /\ removal'.at \in Committing,
         removal.at \in Committing => torn' \/ removal'.at \in Committing
  PROVE  RefInv'
<1>1. StoredInOrder' /\ CommitsKnown' /\ NewestStored'
  BY DEF RefInv, StoredInOrder, Stored, CommitsKnown, NewestStored, TopOf
<1>2. StagedLog'
  BY DEF RefInv, StagedLog, Staged, Committing
<1>3. StagedRef'
  <2>1. TopOf(removal.all)' = TopOf(removal'.all)
    BY DEF TopOf
  <2> QED BY <2>1 DEF RefInv, StagedRef
<1>4. RefAgrees'
  <2>1. Agrees' <=> Agrees
    BY DEF Agrees, TopOf
  <2> QED BY <2>1 DEF RefInv, RefAgrees
<1> QED BY <1>1, <1>2, <1>3, <1>4 DEF RefInv

(* A step after which nothing is staged, and the log agrees with the ref again. *)
LEMMA RemovalAgrees ==
  ASSUME RefInv, UNCHANGED <<hashOf, git>>, removal'.all = removal.all, reflog' \subseteq Stored,
         removal'.at = "unlock", Agrees', \A g \in Gits : git[g].at # "stored"
  PROVE  RefInv'
<1>1. StoredInOrder' /\ CommitsKnown' /\ NewestStored'
  BY DEF RefInv, StoredInOrder, Stored, CommitsKnown, NewestStored
<1>2. StagedLog' /\ StagedRef' /\ AppliedFirst' /\ RefAgrees'
  BY DEF StagedLog, StagedRef, AppliedFirst, RefAgrees, Staged, Committing
<1> QED BY <1>1, <1>2 DEF RefInv

(* Nobody is storing while the removal has the lock of the ref. *)
LEMMA NobodyStores ==
  ASSUME StashInv, lockfile["refs/stash"] \in {"app", "free", "left"}
  PROVE  \A g \in Gits : git[g].at \notin {"store", "stored"}
BY StashAssumption DEF StashInv, GitHasLocks

-----------------------------------------------------------------------------
(* The removal's steps *)

(* A step that settles the answer where nothing has been changed, or goes on. *)
LEMMA EarlyRef ==
  ASSUME StashInv, RefInv,
         \/ \E kind \in {"drop", "pop"}, h \in Hashes : AskRemoval(kind, h)
         \/ ListsStashes \/ TakesLock \/ Stages \/ Applies \/ RefFails \/ Unlocks
  PROVE  RefInv'
<1> USE DEF StashInv, Shapes, RemovalShape, Staged, Committing
<1>1. UNCHANGED <<reflog, hashOf, git, loose, torn>> /\ Tip' = Tip
  BY DEF AskRemoval, ListsStashes, TakesLock, Stages, Applies, RefFails, Unlocks, files, Tip
<1>2. ASSUME NEW kind \in {"drop", "pop"}, NEW h \in Hashes, AskRemoval(kind, h)
      PROVE  RefInv'
  <2>1. /\ removal'.at = "list" /\ removal.at = "idle" /\ removal'.all = removal.all
        /\ removal'.applied = removal.applied
    BY <1>2 DEF AskRemoval
  <2>2. AppliedFirst'
    BY <2>1 DEF RefInv, AppliedFirst
  <2> QED BY <1>1, <2>1, <2>2, RemovalKeeps
<1>3. CASE ListsStashes \/ TakesLock
  <2>1. /\ removal'.at \in {"lock", "check", "unlock"} /\ removal.at \in {"list", "lock"}
        /\ removal'.all = removal.all /\ removal'.applied = removal.applied
    BY <1>3 DEF ListsStashes, TakesLock, Answer
  <2>2. AppliedFirst'
    BY <2>1 DEF RefInv, AppliedFirst
  <2> QED BY <1>1, <2>1, <2>2, RemovalKeeps
<1>4. CASE Stages \/ Applies
  <2>1. /\ removal.at \in {"stage", "apply"}
        /\ removal'.all = removal.all /\ removal'.rest = removal.rest
        /\ removal'.hash = removal.hash /\ removal'.loose = removal.loose
        /\ removal'.kind = removal.kind
        /\ \/ removal'.at = "unlock"
           \/ /\ removal'.at = "apply" /\ removal.kind = "pop"
              /\ removal'.applied = removal.applied
           \/ removal'.at = "log" /\ removal.kind # "pop" /\ removal'.applied = removal.applied
           \/ removal'.at = "log" /\ removal.at = "apply" /\ removal'.applied
    BY <1>4 DEF Stages, Applies, Answer
  <2>2. removal.at = "apply" => removal.kind = "pop"
    BY DEF RefInv, AppliedFirst
  <2>3. AppliedFirst'
    BY <2>1, <2>2 DEF RefInv, AppliedFirst
  <2> QED BY <1>1, <2>1, <2>3, RemovalKeeps
<1>5. CASE RefFails
  <2>1. /\ removal.at = "ref" /\ removal'.at = "rollback"
        /\ removal'.all = removal.all /\ removal'.rest = removal.rest
        /\ removal'.hash = removal.hash /\ removal'.loose = removal.loose
        /\ removal'.kind = removal.kind /\ removal'.applied = removal.applied
    BY <1>5 DEF RefFails
  <2>2. AppliedFirst'
    BY <2>1 DEF RefInv, AppliedFirst
  <2> QED BY <1>1, <2>1, <2>2, RemovalKeeps
<1>6. CASE Unlocks
  <2>1. CASE removal.owned = {}
    <3>1. removal' = Idle(removal.asks) /\ removal.at = "unlock"
      BY <1>6, <2>1 DEF Unlocks
    <3>2. removal'.at = "idle" /\ removal'.all = {} /\ removal'.applied = FALSE
      BY <3>1 DEF Idle
    <3>3. AppliedFirst'
      BY <3>2 DEF AppliedFirst
    <3> QED BY <1>1, <3>1, <3>2, <3>3, RemovalKeeps
  <2>2. CASE removal.owned # {}
    <3>1. removal.at = "unlock" /\ removal'.at = "unlock" /\ removal'.all = removal.all
      BY <1>6, <2>2 DEF Unlocks
    <3>2. AppliedFirst'
      BY <3>1 DEF AppliedFirst
    <3> QED BY <1>1, <3>1, <3>2, RemovalKeeps
  <2> QED BY <2>1, <2>2
<1> QED BY <1>2, <1>3, <1>4, <1>5, <1>6

(* A crash between the two files tears them apart, one before or after does not. *)
LEMMA CrashRef ==
  ASSUME StashInv, RefInv, AppCrashes
  PROVE  RefInv'
<1>1. /\ UNCHANGED <<reflog, hashOf, git, loose>> /\ Tip' = Tip
      /\ removal' = Idle(removal.asks)
      /\ torn' = (torn \/ removal.at \in {"ref", "rollback"})
  BY DEF AppCrashes, files, Tip
<1>2. removal'.at = "idle" /\ removal'.all = {} /\ removal'.applied = FALSE
  BY <1>1 DEF Idle
<1>3. AppliedFirst'
  BY <1>2 DEF AppliedFirst, Committing
<1>4. (torn => torn') /\ (removal.at \in Committing => torn')
  BY <1>1 DEF Committing
<1> QED BY <1>1, <1>2, <1>3, <1>4, RemovalKeeps DEF Staged, Committing

(* The staged log is the one that is there, without the entry, and the ref names its newest. *)
LEMMA ChecksRef ==
  ASSUME StashInv, RefInv, Checks
  PROVE  RefInv'
<1> USE DEF StashInv, Shapes, RemovalShape
<1>1. UNCHANGED <<reflog, hashOf, git, loose, torn, packed>> /\ Tip' = Tip /\ removal.at = "check"
  BY DEF Checks, files, Tip
<1>2. CASE ~ Removable
  <2>1. removal'.at = "unlock" /\ removal'.all = removal.all
    BY <1>2 DEF Checks, Answer
  <2>2. AppliedFirst'
    BY <2>1 DEF AppliedFirst, Committing
  <2> QED BY <1>1, <2>1, <2>2, RemovalKeeps DEF Staged, Committing
<1>3. CASE Removable
  <2>1. removal' = [removal EXCEPT !.at = "stage", !.all = reflog,
                      !.rest = reflog \ Occurrences(removal.hash),
                      !.loose = loose # None, !.packed = packed # None]
    BY <1>3 DEF Checks
  <2>2. /\ removal'.at = "stage" /\ removal'.all = reflog
        /\ removal'.rest = reflog \ Occurrences(removal.hash) /\ removal'.hash = removal.hash
        /\ removal'.applied = removal.applied
    BY <2>1
  <2>3. removal'.loose => loose # None
    BY <2>1
  <2>4. reflog # {} /\ Tip = TopOf(reflog)
    <3>1. Occurrences(removal.hash) # {}
      BY <1>3, OneOccurrence DEF Removable
    <3> QED BY <1>3, <3>1 DEF Removable, Occurrences
  <2>5. StagedLog'
    BY <1>1, <2>2 DEF StagedLog, Staged, Committing, Occurrences
  <2>6. StagedRef'
    BY <1>1, <2>2, <2>3, <2>4 DEF StagedRef, TopOf
  <2>7. AppliedFirst'
    BY <1>1, <2>2 DEF RefInv, AppliedFirst, Committing
  <2>8. StoredInOrder' /\ CommitsKnown' /\ NewestStored'
    BY <1>1, <2>2 DEF RefInv, StoredInOrder, Stored, CommitsKnown, NewestStored, TopOf
  <2>9. RefAgrees'
    BY <1>1, <2>4 DEF RefAgrees, Agrees, TopOf
  <2> QED BY <2>5, <2>6, <2>7, <2>8, <2>9 DEF RefInv
<1> QED BY <1>2, <1>3

(* The log is replaced, or it is not. *)
LEMMA LogRef ==
  ASSUME StashInv, RefInv, CommitsLog
  PROVE  RefInv'
<1> USE DEF StashInv, Shapes, RemovalShape
<1>1. /\ UNCHANGED <<hashOf, git, loose, torn, packed>> /\ Tip' = Tip /\ removal.at = "log"
      /\ \/ /\ reflog' = removal.rest
            /\ removal' = [removal EXCEPT !.at = "ref", !.owned = @ \ {"logs/refs/stash"}]
         \/ Answer(Failed) /\ UNCHANGED reflog
  BY DEF CommitsLog, Tip
<1>2. CASE Answer(Failed) /\ UNCHANGED reflog
  <2>1. removal'.at = "unlock" /\ removal'.all = removal.all
    BY <1>2 DEF Answer
  <2>2. AppliedFirst'
    BY <2>1 DEF AppliedFirst, Committing
  <2> QED BY <1>1, <1>2, <2>1, <2>2, RemovalKeeps DEF Staged, Committing
<1>3. CASE /\ reflog' = removal.rest
           /\ removal' = [removal EXCEPT !.at = "ref", !.owned = @ \ {"logs/refs/stash"}]
  <2>1. /\ removal'.at = "ref" /\ removal'.all = removal.all /\ removal'.rest = removal.rest
        /\ removal'.hash = removal.hash /\ removal'.loose = removal.loose
        /\ removal'.kind = removal.kind /\ removal'.applied = removal.applied
    BY <1>3
  <2>2. StagedLog'
    BY <1>1, <1>3, <2>1 DEF RefInv, StagedLog, Staged, Committing
  <2>3. StagedRef'
    BY <1>1, <2>1 DEF RefInv, StagedRef, Staged, Committing, TopOf
  <2>4. AppliedFirst'
    BY <1>1, <2>1 DEF RefInv, AppliedFirst, Committing
  <2>5. reflog' \subseteq Stored
    BY <1>1, <1>3 DEF RefInv, StoredInOrder, StagedLog, Staged
  <2>6. StoredInOrder' /\ CommitsKnown'
    BY <1>1, <2>1, <2>5 DEF RefInv, StoredInOrder, Stored, CommitsKnown
  <2>7. NewestStored'
    BY <1>1, StagedHasLock, NobodyStores DEF NewestStored, Staged
  <2>8. RefAgrees'
    BY <2>1 DEF RefAgrees, Committing
  <2> QED BY <2>2, <2>3, <2>4, <2>6, <2>7, <2>8 DEF RefInv
<1> QED BY <1>1, <1>2, <1>3

(* The ref is committed: it names the newest entry that is left, or none is. *)
LEMMA CommitRef ==
  ASSUME StashInv, RefInv, CommitsRef \/ CommitsPacked \/ UnlinksRef
  PROVE  RefInv'
<1> USE DEF StashInv, Shapes, RemovalShape
<1>1. removal.at = "ref" /\ UNCHANGED <<reflog, hashOf, git, torn>>
  BY DEF CommitsRef, CommitsPacked, UnlinksRef
<1>2. /\ \A g \in Gits : git[g].at # "stored"
      /\ reflog = removal.rest /\ reflog \subseteq Stored
  BY <1>1, StagedHasLock, NobodyStores DEF RefInv, StagedLog, StoredInOrder, Staged, Committing
<1>3. CASE CommitsRef
  <2>1. loose' = TopOf(removal.rest) /\ removal.rest # {} /\ removal'.at = "unlock"
        /\ removal'.all = removal.all
    BY <1>3 DEF CommitsRef
  <2>2. TopOf(reflog) # None
    BY <1>2, <2>1, TopIsKnown
  <2>3. Agrees'
    BY <1>1, <1>2, <2>1, <2>2 DEF Agrees, Tip, TopOf
  <2> QED BY <1>1, <1>2, <2>1, <2>3, RemovalAgrees
<1>4. CASE UnlinksRef \/ (CommitsPacked /\ ~ removal.loose)
  <2>1. removal.rest = {} /\ removal'.at = "unlock" /\ removal'.all = removal.all
    BY <1>4 DEF CommitsPacked, UnlinksRef, Answer
  <2>2. Agrees'
    BY <1>1, <1>2, <2>1 DEF Agrees
  <2> QED BY <1>1, <1>2, <2>1, <2>2, RemovalAgrees
<1>5. CASE CommitsPacked /\ removal.loose
  <2>1. /\ removal'.at = "ref" /\ removal'.all = removal.all /\ removal'.rest = removal.rest
        /\ removal'.hash = removal.hash /\ removal'.loose = removal.loose
        /\ removal'.kind = removal.kind /\ removal'.applied = removal.applied
        /\ UNCHANGED loose
    BY <1>5 DEF CommitsPacked
  <2>2. loose # None
    BY <1>1, <1>5 DEF RefInv, StagedRef, Committing
  <2>3. Tip' = Tip
    BY <2>1, <2>2 DEF Tip
  <2>4. AppliedFirst'
    BY <1>1, <2>1 DEF RefInv, AppliedFirst
  <2> QED BY <1>1, <2>1, <2>3, <2>4, RemovalKeeps DEF Staged, Committing
<1> QED BY <1>3, <1>4, <1>5

(* The rollback puts the log back that the ref still belongs to, or fails. *)
LEMMA RollBackRef ==
  ASSUME StashInv, RefInv, RollsBack
  PROVE  RefInv'
<1> USE DEF StashInv, Shapes, RemovalShape
<1>1. removal.at = "rollback" /\ UNCHANGED <<hashOf, git, loose, packed>> /\ Tip' = Tip
  BY DEF RollsBack, Tip
<1>2. removal'.at = "unlock" /\ removal'.all = removal.all
  BY DEF RollsBack, Answer
<1>3. CASE torn' /\ UNCHANGED reflog
  <2>1. AppliedFirst'
    BY <1>2 DEF AppliedFirst, Committing
  <2> QED BY <1>1, <1>2, <1>3, <2>1, RemovalKeeps DEF Staged, Committing
<1>4. CASE reflog' = removal.all
  <2>1. \A g \in Gits : git[g].at # "stored"
    BY <1>1, StagedHasLock, NobodyStores DEF Committing
  <2>2. Agrees' /\ reflog' \subseteq Stored
    BY <1>1, <1>4 DEF RefInv, StagedRef, StoredInOrder, Agrees, TopOf, Committing
  <2> QED BY <1>1, <1>2, <2>1, <2>2, RemovalAgrees
<1> QED BY <1>3, <1>4 DEF RollsBack

-----------------------------------------------------------------------------
(* Git's own commands *)

(* A step of others that leaves the log, the removal and the tip. *)
LEMMA OutsideKeeps ==
  ASSUME RefInv, UNCHANGED <<removal, reflog, hashOf>>, Tip' = Tip,
         loose = loose' \/ removal.at \notin Staged \cup Committing, torn => torn',
         CommitsKnown', NewestStored',
         \A g \in Gits : git[g].at = "stored" => git'[g].at = "stored"
  PROVE  RefInv'
<1>1. StoredInOrder' /\ StagedLog' /\ AppliedFirst'
  BY DEF RefInv, StoredInOrder, Stored, StagedLog, AppliedFirst
<1>2. StagedRef'
  BY DEF RefInv, StagedRef, TopOf
<1>3. RefAgrees'
  <2>1. Agrees' <=> Agrees
    BY DEF Agrees, TopOf
  <2> QED BY <2>1 DEF RefInv, RefAgrees
<1> QED BY <1>1, <1>2, <1>3 DEF RefInv

(* Locks are taken and deleted, and packed-refs is written. *)
LEMMA OutsideRef ==
  ASSUME StashInv, RefInv,
         \/ \E g \in Gits, h \in Hashes : GitLocksRef(g, h)
         \/ \E g \in Gits : GitLocksPacked(g) \/ GitPacks(g)
         \/ \E f \in LockFiles : LeftLockDeleted(f)
  PROVE  RefInv'
<1> USE DEF StashInv, Shapes
<1>1. ASSUME NEW g \in Gits, NEW h \in Hashes, GitLocksRef(g, h)
      PROVE  RefInv'
  <2>1. /\ git' = [git EXCEPT ![g] = [at |-> "store", hash |-> h]] /\ git[g].at = "idle"
        /\ UNCHANGED <<removal, reflog, hashOf, loose, packed, torn>>
    BY <1>1 DEF GitLocksRef, files
  <2>2. CommitsKnown' /\ NewestStored'
    BY <2>1 DEF RefInv, CommitsKnown, NewestStored, TopOf
  <2>3. \A x \in Gits : git[x].at = "stored" => git'[x].at = "stored"
    BY <2>1
  <2> QED BY <2>1, <2>2, <2>3, OutsideKeeps DEF Tip
<1>2. ASSUME NEW g \in Gits, GitLocksPacked(g)
      PROVE  RefInv'
  <2>1. /\ git' = [git EXCEPT ![g].at = "pack"] /\ git[g].at = "idle"
        /\ UNCHANGED <<removal, reflog, hashOf, loose, packed, torn>>
    BY <1>2 DEF GitLocksPacked, files
  <2>2. git'[g].at = "pack" /\ \A x \in Gits : x # g => git'[x] = git[x]
    BY <2>1
  <2>3. CommitsKnown' /\ NewestStored'
    BY <2>1, <2>2 DEF RefInv, CommitsKnown, NewestStored, TopOf
  <2>4. \A x \in Gits : git[x].at = "stored" => git'[x].at = "stored"
    BY <2>1, <2>2
  <2> QED BY <2>1, <2>3, <2>4, OutsideKeeps DEF Tip
<1>3. ASSUME NEW g \in Gits, GitPacks(g)
      PROVE  RefInv'
  <2>1. /\ packed' = Tip /\ git[g].at = "pack"
        /\ git' = [git EXCEPT ![g] = IF loose = None THEN [at |-> "idle", hash |-> None]
                                                     ELSE [at |-> "prune", hash |-> loose]]
        /\ UNCHANGED <<removal, reflog, hashOf, loose, torn>>
    BY <1>3 DEF GitPacks
  <2>2. git'[g].at \in {"idle", "prune"} /\ \A x \in Gits : x # g => git'[x] = git[x]
    BY <2>1
  <2>3. CommitsKnown' /\ NewestStored'
    BY <2>1, <2>2 DEF RefInv, CommitsKnown, NewestStored, TopOf
  <2>4. \A x \in Gits : git[x].at = "stored" => git'[x].at = "stored"
    BY <2>1, <2>2
  <2>5. Tip' = Tip
    BY <2>1 DEF Tip
  <2> QED BY <2>1, <2>3, <2>4, <2>5, OutsideKeeps
<1>4. ASSUME NEW f \in LockFiles, LeftLockDeleted(f)
      PROVE  RefInv'
  <2>1. UNCHANGED <<removal, reflog, hashOf, loose, packed, torn, git>>
    BY <1>4 DEF LeftLockDeleted, files
  <2>2. CommitsKnown' /\ NewestStored'
    BY <2>1 DEF RefInv, CommitsKnown, NewestStored, TopOf
  <2> QED BY <2>1, <2>2, OutsideKeeps DEF Tip
<1> QED BY <1>1, <1>2, <1>3, <1>4

(* The loose file goes when the packed line still has its value, or the ref is torn. *)
LEMMA PruneRef ==
  ASSUME StashInv, RefInv, NEW g \in Gits, GitPrunes(g)
  PROVE  RefInv'
<1> USE DEF StashInv, Shapes
<1>1. /\ git' = [git EXCEPT ![g] = [at |-> "idle", hash |-> None]] /\ git[g].at = "prune"
      /\ UNCHANGED <<removal, reflog, hashOf, packed>>
  BY DEF GitPrunes
<1>2. git'[g].at = "idle" /\ \A x \in Gits : x # g => git'[x] = git[x]
  BY <1>1
<1>3. CommitsKnown' /\ NewestStored'
  BY <1>1, <1>2 DEF RefInv, CommitsKnown, NewestStored, TopOf
<1>4. \A x \in Gits : git[x].at = "stored" => git'[x].at = "stored"
  BY <1>1, <1>2
<1>5. CASE UNCHANGED <<loose, torn>>
  BY <1>1, <1>3, <1>4, <1>5, OutsideKeeps DEF Tip
<1>6. CASE /\ lockfile["refs/stash"] = "free" /\ loose = git[g].hash
           /\ loose' = None /\ torn' = (torn \/ packed # git[g].hash)
  <2>1. removal.at \notin Staged \cup Committing
    BY <1>6, StagedHasLock
  <2>2. CASE packed = git[g].hash
    <3>1. Tip' = Tip
      BY <1>1, <1>6, <2>2 DEF Tip
    <3>2. torn => torn'
      BY <1>6
    <3> QED BY <1>1, <1>3, <1>4, <2>1, <3>1, <3>2, OutsideKeeps
  <2>3. CASE packed # git[g].hash
    <3>1. torn'
      BY <1>6, <2>3
    <3>2. RefAgrees'
      BY <3>1 DEF RefAgrees
    <3>3. StoredInOrder' /\ StagedLog' /\ AppliedFirst' /\ StagedRef'
      BY <1>1, <2>1 DEF RefInv, StoredInOrder, Stored, StagedLog, AppliedFirst, StagedRef
    <3> QED BY <1>3, <3>2, <3>3 DEF RefInv
  <2> QED BY <2>2, <2>3
<1> QED BY <1>5, <1>6 DEF GitPrunes

(* The next entry is newer than all there are. *)
LEMMA AppendRef ==
  ASSUME StashInv, RefInv, NEW g \in Gits, GitAppends(g)
  PROVE  RefInv'
<1> DEFINE n == Cardinality(Stored)
           i == n + 1
<1>1. /\ reflog' = reflog \cup {i} /\ hashOf' = [hashOf EXCEPT ![i] = git[g].hash]
      /\ git' = [git EXCEPT ![g].at = "stored"] /\ git[g].at = "store"
      /\ UNCHANGED <<loose, packed, lockfile, removal, torn>>
  BY DEF GitAppends
<1>2. Stored = 1 .. n /\ reflog \subseteq Stored /\ removal.all \subseteq Stored
  BY DEF RefInv, StoredInOrder
<1>3. /\ Stored \subseteq Entries /\ Stored # Entries
      /\ IsFiniteSet(Entries) /\ Cardinality(Entries) = MaxEntries
  <2>1. Stored \subseteq Entries /\ Stored # Entries
    BY DEF GitAppends, Stored
  <2>2. IsFiniteSet(Entries) /\ Cardinality(Entries) = MaxEntries
    BY StashAssumption, FS_Interval DEF Entries
  <2> QED BY <2>1, <2>2
<1>4. n < MaxEntries /\ n \in Nat
  BY <1>3, FS_Subset, FS_CardinalityType
<1> HIDE DEF n
<1>5. i \in Entries /\ i \notin Stored /\ git[g].hash # None
  <2>1. i \in Entries
    BY <1>4, StashAssumption DEF Entries
  <2>2. i \notin Stored
    BY <1>2, <1>4
  <2>3. git[g].hash \in Hashes
    BY <1>1 DEF RefInv, CommitsKnown
  <2> QED BY <2>1, <2>2, <2>3, StashAssumption
<1>6. \A x \in Entries : hashOf'[x] = IF x = i THEN git[g].hash ELSE hashOf[x]
  BY <1>1, <1>5 DEF StashInv, Shapes
<1>7. Stored' = 1 .. i
  <2>1. Stored' = Stored \cup {i}
    BY <1>5, <1>6 DEF Stored
  <2> QED BY <1>2, <1>4, <2>1
<1>8. removal.at \notin Staged \cup Committing
  <2>1. lockfile["refs/stash"] = g
    BY <1>1 DEF StashInv, GitHasLocks
  <2> QED BY <2>1, StagedHasLock, StashAssumption
<1>9. StoredInOrder'
  <2>1. Cardinality(1 .. i) = i
    BY <1>4, FS_Interval
  <2>2. reflog' \subseteq Stored' /\ removal'.all \subseteq Stored'
    BY <1>1, <1>2, <1>4, <1>7
  <2> QED BY <1>7, <2>1, <2>2 DEF StoredInOrder
<1>10. /\ \A x \in Gits : git'[x].hash = git[x].hash /\ (x # g => git'[x] = git[x])
       /\ git'[g].at = "stored"
  BY <1>1 DEF StashInv, Shapes
<1>11. CommitsKnown'
  BY <1>1, <1>10 DEF RefInv, CommitsKnown
<1>12. NewestStored'
  <2>1. \A x \in Gits : git'[x].at = "stored" => x = g
    BY <1>1, <1>10 DEF StashInv, GitHasLocks
  <2>2. Max(reflog') = i
    <3>1. reflog' \in SUBSET Entries /\ i \in reflog'
      BY <1>1, <1>2, <1>3, <1>5
    <3>2. \A y \in reflog' : y <= i
      BY <1>1, <1>2, <1>4
    <3> HIDE DEF i
    <3> QED BY <3>1, <3>2, NewestIs
  <2>3. TopOf(reflog)' = git[g].hash /\ reflog' # {}
    BY <1>1, <1>5, <1>6, <2>2 DEF TopOf
  <2> QED BY <1>10, <2>1, <2>3 DEF NewestStored
<1>13. RefAgrees'
  BY <1>10 DEF RefAgrees
<1>14. StagedLog' /\ StagedRef' /\ AppliedFirst'
  BY <1>1, <1>8 DEF RefInv, StagedLog, StagedRef, AppliedFirst
<1> QED BY <1>9, <1>11, <1>12, <1>13, <1>14 DEF RefInv

(* The ref gets what was appended. *)
LEMMA GitCommitRef ==
  ASSUME StashInv, RefInv, NEW g \in Gits, GitCommitsRef(g)
  PROVE  RefInv'
<1>1. /\ git' = [git EXCEPT ![g] = [at |-> "idle", hash |-> None]] /\ git[g].at = "stored"
      /\ loose' = git[g].hash
      /\ UNCHANGED <<removal, reflog, hashOf, packed, torn>>
  BY DEF GitCommitsRef
<1>2. git'[g].at = "idle" /\ \A x \in Gits : x # g => git'[x] = git[x]
  BY <1>1 DEF StashInv, Shapes
<1>3. CommitsKnown' /\ NewestStored'
  BY <1>1, <1>2 DEF RefInv, CommitsKnown, NewestStored, TopOf
<1>4. removal.at \notin Staged \cup Committing
  <2>1. lockfile["refs/stash"] = g
    BY <1>1 DEF StashInv, GitHasLocks
  <2> QED BY <2>1, StagedHasLock, StashAssumption
<1>5. Agrees'
  <2>1. git[g].hash # None /\ TopOf(reflog) = git[g].hash
    BY <1>1, StashAssumption DEF RefInv, CommitsKnown, NewestStored
  <2> QED BY <1>1, <2>1 DEF Agrees, Tip, TopOf
<1>6. StoredInOrder' /\ StagedLog' /\ StagedRef' /\ AppliedFirst'
  BY <1>1, <1>4 DEF RefInv, StoredInOrder, Stored, StagedLog, StagedRef, AppliedFirst
<1> QED BY <1>3, <1>5, <1>6 DEF RefInv, RefAgrees

(* An entry goes: the newest with the ref, another without. *)
LEMMA DropRef ==
  ASSUME StashInv, RefInv, NEW i \in Entries, GitDrops(i)
  PROVE  RefInv'
<1>1. /\ i \in reflog /\ lockfile["refs/stash"] = "free" /\ reflog' = reflog \ {i}
      /\ UNCHANGED <<hashOf, lockfile, removal, git, torn>>
  BY DEF GitDrops
<1>2. /\ \A g \in Gits : git[g].at \notin {"store", "stored"}
      /\ removal.at \notin Staged \cup Committing
  BY <1>1, StagedHasLock, NobodyStores
<1>3. StoredInOrder' /\ CommitsKnown' /\ NewestStored'
  BY <1>1, <1>2 DEF RefInv, StoredInOrder, Stored, CommitsKnown, NewestStored
<1>4. StagedLog' /\ StagedRef' /\ AppliedFirst'
  BY <1>1, <1>2 DEF RefInv, StagedLog, StagedRef, AppliedFirst
<1>5. RefAgrees'
  <2>1. CASE torn \/ reflog' = {}
    BY <1>1, <2>1 DEF RefAgrees, Agrees
  <2>2. CASE ~ torn /\ reflog' # {}
    <3>1. reflog # {} /\ Tip = TopOf(reflog)
      BY <1>1, <1>2, <2>2 DEF RefInv, RefAgrees, Agrees
    <3>2. UNCHANGED packed /\ loose' = IF i = Max(reflog) THEN TopOf(reflog') ELSE loose
      BY <2>2 DEF GitDrops
    <3>3. reflog' \in SUBSET Stored /\ reflog \in SUBSET Stored /\ Stored \subseteq Entries
      BY <1>1 DEF RefInv, StoredInOrder, Stored
    <3>4. TopOf(reflog') # None /\ TopOf(reflog)' = TopOf(reflog')
      BY <1>1, <2>2, <3>3, TopIsKnown DEF TopOf
    <3>5. CASE i = Max(reflog)
      <4>1. Tip' = TopOf(reflog')
        BY <3>2, <3>4, <3>5 DEF Tip
      <4> QED BY <3>4, <4>1 DEF RefAgrees, Agrees
    <3>6. CASE i # Max(reflog)
      <4> DEFINE m == Max(reflog)
      <4>1. m \in reflog /\ \A y \in reflog : y <= m
        BY <3>1, <3>3, NewestExists
      <4> HIDE DEF m
      <4>2. m \in reflog' /\ \A y \in reflog' : y <= m
        BY <1>1, <3>6, <4>1 DEF m
      <4>3. Max(reflog') = m
        BY <3>3, <4>2, NewestIs
      <4>4. TopOf(reflog') = TopOf(reflog)
        BY <2>2, <3>1, <4>3 DEF TopOf, m
      <4> QED BY <3>1, <3>2, <3>4, <3>6, <4>4 DEF RefAgrees, Agrees, Tip
    <3> QED BY <3>5, <3>6
  <2> QED BY <2>1, <2>2
<1> QED BY <1>3, <1>4, <1>5 DEF RefInv

(* Every step keeps the invariant. *)
LEMMA RefInvNext ==
  ASSUME StashInv, RefInv, [StashNext]_stashVars
  PROVE  RefInv'
<1>1. CASE UNCHANGED stashVars
  <2>1. UNCHANGED <<removal, reflog, hashOf, loose, packed, torn, git>>
    BY <1>1 DEF stashVars
  <2>2. CommitsKnown' /\ NewestStored'
    BY <2>1 DEF RefInv, CommitsKnown, NewestStored, TopOf
  <2> QED BY <2>1, <2>2, OutsideKeeps DEF Tip
<1> QED
  BY <1>1, EarlyRef, CrashRef, ChecksRef, LogRef, CommitRef, RollBackRef, OutsideRef, PruneRef,
     AppendRef, GitCommitRef, DropRef
     DEF StashNext, RemovalStep

(* The invariant of the ref and the log. *)
LEMMA RefInvariant == StashSpec => []RefInv
<1>1. StashInit => RefInv
  BY RefInvInit
<1>2. StashInv /\ RefInv /\ [StashNext]_stashVars => RefInv'
  BY RefInvNext
<1> QED
  BY <1>1, <1>2, StashInvariant, PTL DEF StashSpec

(* Between two commands the ref names the newest entry of the log, whichever entry   *)
(* went, by whose command and from which file of refs: only a crash between the two  *)
(* files, a failed rollback or a prune whose packed line has gone takes them apart.  *)
THEOREM RefNamesTheNewest == StashSpec => []RefFollowsLog
<1>1. ASSUME StashInv, RefInv
      PROVE  RefFollowsLog
  <2>1. SUFFICES ASSUME lockfile["refs/stash"] = "free", ~ torn, reflog # {}
                 PROVE  Tip = TopOf(reflog)
    BY DEF RefFollowsLog
  <2>2. removal.at \notin Committing /\ \A g \in Gits : git[g].at # "stored"
    BY <1>1, <2>1, StagedHasLock, NobodyStores
  <2> QED BY <1>1, <2>1, <2>2 DEF RefInv, RefAgrees, Agrees
<1> QED
  BY <1>1, StashInvariant, RefInvariant, PTL

-----------------------------------------------------------------------------
(* The answers *)

(* What AnswerIsTrue says of one step. *)
AnswerTells ==
  removal.answer # removal'.answer /\ removal'.answer # "none" =>
    CASE removal'.answer = "removed" ->
           Occurrences(removal.hash)' = {} /\ (removal.kind = "pop" => removal.applied)
      [] removal'.answer = "applied, not removed" ->
           removal.applied /\ (reflog' = removal.all \/ torn')
      [] OTHER ->
           ~ removal.applied /\ (removal.at = "rollback" \/ reflog' = reflog)

(* A removal that gives up before the log is replaced has applied nothing. *)
LEMMA EarlyAnswer ==
  ASSUME StashInv, RefInv, ListsStashes \/ TakesLock \/ Checks \/ Stages \/ Applies
  PROVE  AnswerTells
<1> USE DEF StashInv, Shapes, RemovalShape
<1>1. removal.at \in {"list", "lock", "check", "stage", "apply"} /\ reflog' = reflog
  BY DEF ListsStashes, TakesLock, Checks, Stages, Applies, files
<1>2. removal'.answer \in {removal.answer, "refused", "failed", "not applied"}
  BY DEF ListsStashes, TakesLock, Checks, Stages, Applies, Answer
<1>3. ~ removal.applied
  BY <1>1 DEF RefInv, AppliedFirst
<1> QED BY <1>1, <1>2, <1>3 DEF AnswerTells

(* The log cannot be replaced, or is put back: what was applied is said. *)
LEMMA FailedAnswer ==
  ASSUME StashInv, RefInv, CommitsLog \/ RollsBack
  PROVE  AnswerTells
<1> USE DEF StashInv, Shapes, RemovalShape
<1>1. CASE CommitsLog
  <2>1. /\ removal.at = "log"
        /\ \/ removal'.answer = removal.answer
           \/ removal'.answer = Failed /\ reflog' = reflog
    BY <1>1 DEF CommitsLog, Answer
  <2>2. reflog = removal.all
    BY <2>1 DEF RefInv, StagedLog, Staged
  <2> QED BY <2>1, <2>2 DEF AnswerTells, Failed
<1>2. CASE RollsBack
  <2>1. removal.at = "rollback" /\ removal'.answer = Failed /\ (reflog' = removal.all \/ torn')
    BY <1>2 DEF RollsBack, Answer
  <2> QED BY <2>1 DEF AnswerTells, Failed
<1> QED BY <1>1, <1>2

(* The ref is committed: the log has lost the commit, and a pop has applied it. *)
LEMMA RemovedAnswer ==
  ASSUME StashInv, RefInv, CommitsRef \/ CommitsPacked \/ UnlinksRef
  PROVE  AnswerTells
<1> USE DEF StashInv, Shapes, RemovalShape
<1>1. /\ removal.at = "ref" /\ UNCHANGED <<reflog, hashOf>>
      /\ removal'.hash = removal.hash /\ removal'.answer \in {removal.answer, "removed"}
  BY DEF CommitsRef, CommitsPacked, UnlinksRef, Answer
<1>2. reflog = {i \in removal.all : hashOf[i] # removal.hash}
  BY <1>1 DEF RefInv, StagedLog, Committing
<1>3. Occurrences(removal.hash)' = {}
  BY <1>1, <1>2 DEF Occurrences
<1>4. removal.kind = "pop" => removal.applied
  BY <1>1 DEF RefInv, AppliedFirst, Committing
<1> QED BY <1>1, <1>3, <1>4 DEF AnswerTells

(* No other step gives an answer. *)
LEMMA AnswerSteps ==
  ASSUME StashInv, RefInv, [StashNext]_stashVars
  PROVE  [AnswerTells]_stashVars
<1>1. ASSUME NEW kind \in {"drop", "pop"}, NEW h \in Hashes, AskRemoval(kind, h)
      PROVE  AnswerTells
  BY <1>1 DEF AskRemoval, AnswerTells, StashInv, Shapes, RemovalShape
<1>2. CASE RefFails
  BY <1>2 DEF RefFails, AnswerTells, StashInv, Shapes, RemovalShape
<1>3. CASE Unlocks
  <2>1. removal'.answer \in {removal.answer, "none"}
    <3>1. CASE removal' = Idle(removal.asks)
      BY <3>1 DEF Idle
    <3>2. ASSUME NEW f, removal' = [removal EXCEPT !.owned = @ \ {f}]
          PROVE  removal'.answer = removal.answer
      BY <3>2 DEF StashInv, Shapes, RemovalShape
    <3> QED BY <1>3, <3>1, <3>2, Zenon DEF Unlocks
  <2> QED BY <2>1 DEF AnswerTells
<1>4. CASE AppCrashes
  <2>1. removal'.answer = "none"
    BY <1>4 DEF AppCrashes, Idle
  <2> QED BY <2>1 DEF AnswerTells
<1>5. ASSUME \/ \E g \in Gits, h \in Hashes : GitLocksRef(g, h)
             \/ \E g \in Gits : \/ GitAppends(g) \/ GitCommitsRef(g)
                                \/ GitLocksPacked(g) \/ GitPacks(g) \/ GitPrunes(g)
             \/ \E i \in Entries : GitDrops(i)
             \/ \E f \in LockFiles : LeftLockDeleted(f)
      PROVE  AnswerTells
  <2>1. removal' = removal
    BY <1>5 DEF GitLocksRef, GitAppends, GitCommitsRef, GitLocksPacked, GitPacks, GitPrunes,
       GitDrops, LeftLockDeleted
  <2> QED BY <2>1 DEF AnswerTells
<1> QED
  BY <1>1, <1>2, <1>3, <1>4, <1>5, EarlyAnswer, FailedAnswer, RemovedAnswer
     DEF StashNext, RemovalStep

(* Every answer of removeStashByHash is true of what it did (stash-removal.ts:       *)
(* StashAppliedNotRemovedError): "removed" when the log has lost the commit and a pop *)
(* had it applied, "applied, not removed" when the work is in the worktree and the   *)
(* entry listed still, and any other when nothing was applied.                     *)
THEOREM AnswersTruly == StashSpec => AnswerIsTrue
<1>1. StashInv /\ RefInv /\ [StashNext]_stashVars => [AnswerTells]_stashVars
  BY AnswerSteps
<1>2. AnswerIsTrue <=> [][AnswerTells]_stashVars
  BY PTL DEF AnswerIsTrue, AnswerTells
<1> QED BY <1>1, <1>2, StashInvariant, RefInvariant, PTL DEF StashSpec

-----------------------------------------------------------------------------
(* Rewriting history *)

Fields == {"at", "edit", "source", "token", "signed", "next", "answer"}
IsRequest(x) == DOMAIN x = Fields /\ x = [f \in DOMAIN x |-> x[f]]

Shape ==
  /\ requests = [r \in Requests |-> requests[r]]
  /\ \A r \in Requests : IsRequest(requests[r])

(* From the use of its approval to its answer a request has the approval's token.    *)
Applying(r) ==
  requests[r].at \in {"queued", "expected", "settled", "reset", "replay", "compare",
                      "restore"}

(* Tokens are numbered as they are given, and none is given twice.                   *)
TokensNumbered ==
  /\ IsFiniteSet(proved)
  /\ \A a \in proved : a.token \in Nat /\ a.token <= Cardinality(proved)
  /\ \A a, b \in proved : a.token = b.token => a = b
  /\ approvals \subseteq proved

SpentBy(t) == \E i \in DOMAIN spent : spent[i] = t

(* Whoever has a token was given it, and has not spent it.                           *)
HeldIsUnspent ==
  \A r \in Requests : Applying(r) =>
    /\ requests[r].token \in {a.token : a \in proved}
    /\ ~ SpentBy(requests[r].token)

WaitingIsUnspent == \A a \in approvals : ~ SpentBy(a.token)

(* A token is at one place: with one request or among the approvals.                 *)
OneHolder ==
  \A r \in Requests : Applying(r) =>
    /\ \A a \in approvals : a.token # requests[r].token
    /\ \A q \in Requests : Applying(q) /\ requests[q].token = requests[r].token => q = r

SpentWasGiven ==
  /\ spent \in Seq(Nat)
  /\ \A i \in DOMAIN spent : spent[i] \in {a.token : a \in proved}

TokenInv ==
  /\ Shape /\ TokensNumbered /\ HeldIsUnspent /\ WaitingIsUnspent
  /\ OneHolder /\ SpentWasGiven /\ OneRewritePerCheck

-----------------------------------------------------------------------------
(* No token has been given in the beginning. *)
LEMMA TokenInvInit == HistoryEditInit => TokenInv
<1> SUFFICES ASSUME HistoryEditInit PROVE TokenInv
  OBVIOUS
<1> USE DEF HistoryEditInit
<1>1. Shape
  BY DEF Shape, IsRequest, Fields, NoRequest
<1>2. TokensNumbered
  BY FS_EmptySet DEF TokensNumbered
<1>3. HeldIsUnspent /\ OneHolder
  BY DEF HeldIsUnspent, OneHolder, Applying, NoRequest
<1>4. WaitingIsUnspent /\ SpentWasGiven /\ OneRewritePerCheck
  BY DEF WaitingIsUnspent, SpentWasGiven, OneRewritePerCheck, IsInjective
<1> QED
  BY <1>1, <1>2, <1>3, <1>4 DEF TokenInv

(* A step that gives no approval, spends none, and lets nobody begin to apply.        *)
LEMMA QuietStep ==
  ASSUME TokenInv, UNCHANGED <<proved, spent>>, approvals' \subseteq approvals, Shape',
         \A r \in Requests : Applying(r)' =>
           Applying(r) /\ requests'[r].token = requests[r].token
  PROVE  TokenInv'
<1> USE DEF TokenInv
<1>1. TokensNumbered'
  BY DEF TokensNumbered
<1>2. HeldIsUnspent' /\ WaitingIsUnspent'
  BY DEF HeldIsUnspent, WaitingIsUnspent, SpentBy
<1>3. OneHolder'
  BY DEF OneHolder
<1>4. SpentWasGiven' /\ OneRewritePerCheck'
  BY DEF SpentWasGiven, OneRewritePerCheck, IsInjective
<1> QED
  BY <1>1, <1>2, <1>3, <1>4

(* Most steps move one request on or end it.                                         *)
LEMMA MovingStep ==
  ASSUME TokenInv, UNCHANGED <<proved, spent>>, approvals' \subseteq approvals,
         NEW r \in Requests, NEW new,
         requests' = [requests EXCEPT ![r] = new],
         IsRequest(new),
         new.at \in {"queued", "expected", "settled", "reset", "replay", "compare", "restore"}
           => Applying(r) /\ new.token = requests[r].token
  PROVE  TokenInv'
<1>1. Shape'
  BY DEF TokenInv, Shape
<1>2. \A q \in Requests : Applying(q)' =>
        Applying(q) /\ requests'[q].token = requests[q].token
  <2> SUFFICES ASSUME NEW q \in Requests, Applying(q)'
               PROVE  Applying(q) /\ requests'[q].token = requests[q].token
    OBVIOUS
  <2>1. CASE q = r
    BY <2>1 DEF TokenInv, Shape, Applying
  <2>2. CASE q # r
    <3>1. requests'[q] = requests[q]
      BY <2>2 DEF TokenInv, Shape
    <3> QED
      BY <3>1 DEF Applying
  <2> QED
    BY <2>1, <2>2
<1> QED
  BY <1>1, <1>2, QuietStep
-----------------------------------------------------------------------------
(* A request that goes to its next step keeps its token. *)
LEMMA GoingOn ==
  ASSUME TokenInv, NEW r \in Requests, NEW at,
         UNCHANGED <<proved, spent>>, approvals' \subseteq approvals, Goes(r, at),
         at \in {"queued", "expected", "settled", "reset", "replay", "compare", "restore"}
           => Applying(r)
  PROVE  TokenInv'
<1> DEFINE new == [requests[r] EXCEPT !.at = at]
<1>1. IsRequest(new) /\ new.at = at /\ new.token = requests[r].token
  BY DEF TokenInv, Shape, IsRequest, Fields
<1>2. requests' = [requests EXCEPT ![r] = new]
  BY DEF Goes
<1> HIDE DEF new
<1> QED
  BY <1>1, <1>2, MovingStep

(* A request that ends gives up its token, or has spent it. *)
LEMMA Ending ==
  ASSUME TokenInv, NEW r \in Requests,
         UNCHANGED <<proved, spent>>, approvals' \subseteq approvals, Ends(r)
  PROVE  TokenInv'
BY MovingStep DEF Ends, NoRequest, IsRequest, Fields

(* rebase:check, before it gives an approval. *)
LEMMA CheckActions ==
  ASSUME TokenInv, NEW r \in Requests,
         \/ \E edit \in {"squash", "reorder"} : AsksCheck(r, edit)
         \/ ReadsStatus(r) \/ ReadsSource(r) \/ ReadsSourceAgain(r)
  PROVE  TokenInv'
<1>1. ASSUME NEW edit \in {"squash", "reorder"}, AsksCheck(r, edit) PROVE TokenInv'
  <2> DEFINE new == [requests[r] EXCEPT !.at = "status", !.edit = edit]
  <2>1. IsRequest(new) /\ new.at = "status"
    BY DEF TokenInv, Shape, IsRequest, Fields
  <2>2. requests' = [requests EXCEPT ![r] = new]
    BY <1>1 DEF AsksCheck
  <2> HIDE DEF new
  <2> QED
    BY <1>1, <2>1, <2>2, MovingStep DEF AsksCheck, ghosts
<1>2. CASE ReadsStatus(r)
  BY <1>2, GoingOn, Ending DEF ReadsStatus, ghosts
<1>3. CASE ReadsSource(r)
  <2> DEFINE new == [requests[r] EXCEPT !.at = "again", !.source = Source]
  <2>1. IsRequest(new) /\ new.at = "again"
    BY DEF TokenInv, Shape, IsRequest, Fields
  <2>2. requests' = [requests EXCEPT ![r] = new]
    BY <1>3 DEF ReadsSource
  <2> HIDE DEF new
  <2> QED
    BY <1>3, <2>1, <2>2, MovingStep DEF ReadsSource, ghosts
<1>4. CASE ReadsSourceAgain(r)
  BY <1>4, GoingOn, Ending DEF ReadsSourceAgain, ghosts
<1> QED
  BY <1>1, <1>2, <1>3, <1>4

(* A check gives an approval with a token of its own. *)
LEMMA SimulatesAction ==
  ASSUME TokenInv, NEW r \in Requests, Simulates(r)
  PROVE  TokenInv'
<1>1. CASE Ends(r) /\ UNCHANGED <<approvals, proved>>
  BY <1>1, Ending DEF Simulates, ghosts
<1> DEFINE t == Cardinality(proved) + 1
           approval == [token |-> t, edit |-> requests[r].edit,
                        source |-> requests[r].source]
<1>2. CASE /\ requests' = [requests EXCEPT ![r] = NoRequest]
           /\ approvals' = approvals \cup {approval}
           /\ proved' = proved \cup {approval}
  <2>1. spent' = spent
    BY DEF Simulates, ghosts
  <2>2. Cardinality(proved) \in Nat
    BY FS_CardinalityType DEF TokenInv, TokensNumbered
  <2>3. approval.token = t /\ approval \notin proved
    BY <2>2 DEF TokenInv, TokensNumbered
  <2> HIDE DEF approval
  <2>4. IsFiniteSet(proved') /\ Cardinality(proved') = t
    BY <1>2, <2>3, FS_AddElement DEF TokenInv, TokensNumbered
  <2> HIDE DEF t
  <2>5. Shape'
    BY <1>2 DEF TokenInv, Shape, IsRequest, Fields, NoRequest
  <2>6. TokensNumbered'
    <3>1. approvals' \subseteq proved'
      BY <1>2 DEF TokenInv, TokensNumbered
    <3>2. t \in Nat /\ \A a \in proved : a.token \in Nat /\ a.token < t
      BY <2>2 DEF TokenInv, TokensNumbered, t
    <3>3. \A a \in proved' : a.token \in Nat /\ a.token <= t
      BY <1>2, <2>3, <3>2
    <3>4. \A a, b \in proved' : a.token = b.token => a = b
      <4> SUFFICES ASSUME NEW a \in proved', NEW b \in proved', a.token = b.token
                   PROVE  a = b
        OBVIOUS
      <4>1. CASE a \in proved /\ b \in proved
        BY <4>1 DEF TokenInv, TokensNumbered
      <4>2. CASE a = approval \/ b = approval
        BY <1>2, <2>3, <3>2, <4>2
      <4> QED
        BY <1>2, <4>1, <4>2
    <3> QED
      BY <2>4, <3>1, <3>3, <3>4 DEF TokensNumbered
  <2>7. \A q \in Requests : Applying(q)' =>
          Applying(q) /\ requests'[q].token = requests[q].token
    BY <1>2 DEF TokenInv, Shape, Applying, NoRequest
  <2>8. \A a \in proved : a.token # t
    BY <2>2 DEF TokenInv, TokensNumbered, t
  <2>9. ~ SpentBy(t)
    BY <2>8 DEF TokenInv, SpentWasGiven, SpentBy
  <2>10. HeldIsUnspent'
    BY <1>2, <2>1, <2>7 DEF TokenInv, HeldIsUnspent, SpentBy
  <2>11. WaitingIsUnspent'
    BY <1>2, <2>1, <2>3, <2>9 DEF TokenInv, WaitingIsUnspent, SpentBy
  <2>12. OneHolder'
    <3>1. \A q \in Requests : Applying(q) => requests[q].token # t
      BY <2>8 DEF TokenInv, HeldIsUnspent
    <3> QED
      BY <1>2, <2>3, <2>7, <3>1 DEF TokenInv, OneHolder
  <2>13. SpentWasGiven' /\ OneRewritePerCheck'
    BY <1>2, <2>1 DEF TokenInv, SpentWasGiven, OneRewritePerCheck, IsInjective
  <2> QED
    BY <2>5, <2>6, <2>10, <2>11, <2>12, <2>13 DEF TokenInv
<1> QED
  BY <1>1, <1>2 DEF Simulates
-----------------------------------------------------------------------------
(* rebase:apply takes one approval, and leaves none. *)
LEMMA AsksApplyAction ==
  ASSUME TokenInv, NEW r \in Requests, NEW approval \in approvals, NEW signed \in BOOLEAN,
         AsksApply(r, approval, signed)
  PROVE  TokenInv'
<1> DEFINE new == [NoRequest EXCEPT !.at = "queued", !.edit = approval.edit,
                     !.token = approval.token, !.source = approval.source,
                     !.signed = signed]
<1>1. /\ IsRequest(new) /\ new.token = approval.token
  BY DEF IsRequest, Fields, NoRequest
<1>2. requests' = [requests EXCEPT ![r] = new] /\ approvals' = {}
  BY DEF AsksApply, ApprovalsLeft
<1>3. proved' = proved /\ spent' = spent
  BY DEF AsksApply, ghosts
<1> HIDE DEF new
<1>4. \A q \in Requests : q # r => requests'[q] = requests[q]
  BY <1>2 DEF TokenInv, Shape
<1>5. requests'[r] = new
  BY <1>2 DEF TokenInv, Shape
<1>6. \A q \in Requests : Applying(q)' =>
        IF q = r THEN requests'[q].token = approval.token
                 ELSE Applying(q) /\ requests'[q].token = requests[q].token
  BY <1>1, <1>4, <1>5 DEF Applying
<1>7. Shape'
  BY <1>1, <1>2 DEF TokenInv, Shape
<1>8. TokensNumbered' /\ WaitingIsUnspent'
  BY <1>2, <1>3 DEF TokenInv, TokensNumbered, WaitingIsUnspent
<1>9. HeldIsUnspent'
  BY <1>3, <1>6 DEF TokenInv, TokensNumbered, HeldIsUnspent, WaitingIsUnspent, SpentBy
<1>10. OneHolder'
  <2>1. \A q \in Requests : Applying(q) => requests[q].token # approval.token
    BY DEF TokenInv, OneHolder
  <2> QED
    BY <1>2, <1>6, <2>1 DEF TokenInv, OneHolder
<1>11. SpentWasGiven' /\ OneRewritePerCheck'
  BY <1>3 DEF TokenInv, SpentWasGiven, OneRewritePerCheck, IsInjective
<1> QED
  BY <1>7, <1>8, <1>9, <1>10, <1>11 DEF TokenInv

(* The reads under the lock. *)
LEMMA PreflightActions ==
  ASSUME TokenInv, NEW r \in Requests,
         ReadsStatusToApply(r) \/ ReadsSourceToApply(r) \/ ReadsSourceAgainToApply(r)
  PROVE  TokenInv'
<1>1. CASE ReadsStatusToApply(r)
  BY <1>1, GoingOn, Ending DEF ReadsStatusToApply, GoesOn, EndsOperation, ghosts, Applying
<1>2. CASE ReadsSourceToApply(r)
  BY <1>2, GoingOn, Ending DEF ReadsSourceToApply, GoesOn, EndsOperation, ghosts, Applying
<1>3. CASE ReadsSourceAgainToApply(r)
  BY <1>3, GoingOn, Ending
     DEF ReadsSourceAgainToApply, GoesOn, EndsOperation, ghosts, Applying
<1> QED
  BY <1>1, <1>2, <1>3

(* A request that fails goes to its rollback with an answer. *)
LEMMA Failing ==
  ASSUME TokenInv, NEW r \in Requests, Applying(r), NEW answer,
         UNCHANGED <<proved, spent, approvals>>,
         requests' = [requests EXCEPT ![r].at = "restore", ![r].answer = answer]
  PROVE  TokenInv'
<1> DEFINE new == [requests[r] EXCEPT !.at = "restore", !.answer = answer]
<1>1. IsRequest(new) /\ new.token = requests[r].token
  BY DEF TokenInv, Shape, IsRequest, Fields
<1>2. requests' = [requests EXCEPT ![r] = new]
  OBVIOUS
<1> HIDE DEF new
<1> QED
  BY <1>1, <1>2, MovingStep

(* The reset to the base touches no token. *)
LEMMA ResetsAction ==
  ASSUME TokenInv, NEW r \in Requests, ResetsToBase(r)
  PROVE  TokenInv'
<1>1. Applying(r) /\ UNCHANGED <<proved, spent, approvals>>
  BY DEF ResetsToBase, Applying, ghosts
<1>2. CASE requests' = [requests EXCEPT ![r].at = "replay", ![r].next = 1]
  <2> DEFINE new == [requests[r] EXCEPT !.at = "replay", !.next = 1]
  <2>1. IsRequest(new) /\ new.token = requests[r].token
    BY DEF TokenInv, Shape, IsRequest, Fields
  <2>2. requests' = [requests EXCEPT ![r] = new]
    BY <1>2
  <2> HIDE DEF new
  <2> QED
    BY <1>1, <2>1, <2>2, MovingStep
<1>3. CASE requests' = [requests EXCEPT ![r].at = "restore", ![r].answer = "failed"]
  BY <1>1, <1>3, Failing
<1>4. CASE EndsOperation(r)
  BY <1>1, <1>4, Ending DEF EndsOperation
<1> QED
  BY <1>2, <1>3, <1>4 DEF ResetsToBase

(* A commit of the replay: made, failed, or refused its signature, which gives the token back. *)
LEMMA ReplaysAction ==
  ASSUME TokenInv, NEW r \in Requests, Replays(r)
  PROVE  TokenInv'
<1>1. Applying(r) /\ UNCHANGED <<proved, spent, approvals>>
  BY DEF Replays, Applying, ghosts
<1>2. ASSUME NEW at, requests' = [requests EXCEPT ![r].next = @ + 1, ![r].at = at]
      PROVE  TokenInv'
  <2> DEFINE new == [requests[r] EXCEPT !.next = @ + 1, !.at = at]
  <2>1. IsRequest(new) /\ new.token = requests[r].token
    BY DEF TokenInv, Shape, IsRequest, Fields
  <2>2. requests' = [requests EXCEPT ![r] = new]
    BY <1>2
  <2> HIDE DEF new
  <2> QED
    BY <1>1, <2>1, <2>2, MovingStep
<1>3. ASSUME NEW answer,
             requests' = [requests EXCEPT ![r].at = "restore", ![r].answer = answer]
      PROVE  TokenInv'
  BY <1>1, <1>3, Failing
<1> QED
  BY <1>2, <1>3 DEF Replays

(* The rewrite is carried out: its token is spent. *)
LEMMA ComparesAction ==
  ASSUME TokenInv, NEW r \in Requests, ComparesTree(r)
  PROVE  TokenInv'
<1>1. Applying(r) /\ UNCHANGED <<proved, approvals>>
  BY DEF ComparesTree, Applying
<1>2. ASSUME NEW answer, spent' = spent,
             requests' = [requests EXCEPT ![r].at = "restore", ![r].answer = answer]
      PROVE  TokenInv'
  BY <1>1, <1>2, Failing
<1>3. CASE EndsOperation(r) /\ spent' = Append(spent, requests[r].token)
  <2> DEFINE t == requests[r].token
  <2>1. requests' = [requests EXCEPT ![r] = NoRequest]
    BY <1>3 DEF EndsOperation, Ends
  <2>2. Shape'
    BY <2>1 DEF TokenInv, Shape, IsRequest, Fields, NoRequest
  <2>3. \A q \in Requests : Applying(q)' =>
          q # r /\ Applying(q) /\ requests'[q].token = requests[q].token
    BY <2>1 DEF TokenInv, Shape, Applying, NoRequest
  <2>4. t \in {a.token : a \in proved} /\ t \in Nat /\ ~ SpentBy(t)
    BY <1>1 DEF TokenInv, HeldIsUnspent, TokensNumbered
  <2>5. /\ \A a \in approvals : a.token # t
        /\ \A q \in Requests : Applying(q) /\ q # r => requests[q].token # t
    BY <1>1 DEF TokenInv, OneHolder
  <2> HIDE DEF t
  <2>6. spent' = Append(spent, t)
    BY <1>3 DEF t
  <2>7. /\ spent' \in Seq(Nat)
        /\ DOMAIN spent = 1 .. Len(spent) /\ DOMAIN spent' = 1 .. Len(spent) + 1
        /\ Len(spent) \in Nat
        /\ spent'[Len(spent) + 1] = t
        /\ \A i \in DOMAIN spent : spent'[i] = spent[i]
    BY <2>4, <2>6 DEF TokenInv, SpentWasGiven
  <2>8. \A i \in DOMAIN spent' : i \in DOMAIN spent \/ i = Len(spent) + 1
    BY <2>7
  <2>9. \A u : SpentBy(u)' => SpentBy(u) \/ u = t
    BY <2>7, <2>8 DEF SpentBy
  <2>10. TokensNumbered'
    BY <1>1 DEF TokenInv, TokensNumbered
  <2>11. HeldIsUnspent'
    BY <1>1, <2>3, <2>5, <2>9 DEF TokenInv, HeldIsUnspent
  <2>12. WaitingIsUnspent'
    BY <1>1, <2>5, <2>9 DEF TokenInv, WaitingIsUnspent
  <2>13. OneHolder'
    BY <1>1, <2>3 DEF TokenInv, OneHolder
  <2>14. SpentWasGiven'
    BY <1>1, <2>4, <2>7, <2>8 DEF TokenInv, SpentWasGiven
  <2>15. OneRewritePerCheck'
    BY <2>4, <2>7, <2>8 DEF TokenInv, OneRewritePerCheck, IsInjective, SpentBy
  <2> QED
    BY <2>2, <2>10, <2>11, <2>12, <2>13, <2>14, <2>15 DEF TokenInv
<1> QED
  BY <1>2, <1>3 DEF ComparesTree

(* A refused signature puts the approval back, and its request is done with it.      *)
LEMMA RestoresAction ==
  ASSUME TokenInv, NEW r \in Requests, Restores(r)
  PROVE  TokenInv'
<1>1. Applying(r) /\ UNCHANGED <<proved, spent>>
  BY DEF Restores, Applying, ghosts
<1>2. CASE approvals' = approvals
  <2>1. CASE Ends(r)
    BY <1>1, <1>2, <2>1, Ending
  <2>2. CASE Goes(r, "unrestored")
    BY <1>1, <1>2, <2>2, GoingOn
  <2> QED
    BY <2>1, <2>2 DEF Restores
<1>3. CASE approvals' = approvals \cup {a \in proved : a.token = requests[r].token}
  <2> DEFINE t == requests[r].token
  <2>1. PICK new : requests' = [requests EXCEPT ![r] = new] /\ IsRequest(new)
                     /\ new.at \in {"none", "unrestored"}
    <3>1. CASE Ends(r)
      <4>1. IsRequest(NoRequest) /\ NoRequest.at = "none"
        BY DEF NoRequest, IsRequest, Fields
      <4> QED
        BY <3>1, <4>1 DEF Ends
    <3>2. CASE Goes(r, "unrestored")
      <4> DEFINE gone == [requests[r] EXCEPT !.at = "unrestored"]
      <4>1. IsRequest(gone) /\ gone.at = "unrestored"
        BY DEF TokenInv, Shape, IsRequest, Fields
      <4>2. requests' = [requests EXCEPT ![r] = gone]
        BY <3>2 DEF Goes
      <4> HIDE DEF gone
      <4> QED
        BY <4>1, <4>2
    <3> QED
      BY <3>1, <3>2 DEF Restores
  <2>2. Shape'
    BY <2>1 DEF TokenInv, Shape
  <2>3. \A q \in Requests : Applying(q)' =>
          q # r /\ Applying(q) /\ requests'[q].token = requests[q].token
    BY <2>1 DEF TokenInv, Shape, Applying
  <2>4. /\ ~ SpentBy(t)
        /\ \A q \in Requests : Applying(q) /\ q # r => requests[q].token # t
    BY <1>1 DEF TokenInv, HeldIsUnspent, OneHolder
  <2>5. \A a \in approvals' : a \in approvals \/ a.token = t
    BY <1>3
  <2>6. approvals' \subseteq proved
    BY <1>3 DEF TokenInv, TokensNumbered
  <2> HIDE DEF t
  <2>7. TokensNumbered'
    BY <1>1, <2>6 DEF TokenInv, TokensNumbered
  <2>8. HeldIsUnspent' /\ WaitingIsUnspent'
    BY <1>1, <2>3, <2>4, <2>5 DEF TokenInv, HeldIsUnspent, WaitingIsUnspent, SpentBy
  <2>9. OneHolder'
    BY <2>3, <2>4, <2>5 DEF TokenInv, OneHolder
  <2>10. SpentWasGiven' /\ OneRewritePerCheck'
    BY <1>1 DEF TokenInv, SpentWasGiven, OneRewritePerCheck, IsInjective
  <2> QED
    BY <2>2, <2>7, <2>8, <2>9, <2>10 DEF TokenInv
<1> QED
  BY <1>2, <1>3 DEF Restores

(* Neither outsiders nor a refused request touch requests or tokens. *)
LEMMA OtherActions ==
  ASSUME TokenInv,
         \/ \E approval \in approvals : RefusesApply(approval)
         \/ OutsiderEdits \/ OutsiderCommits \/ OutsiderMoves
         \/ UNCHANGED editVars
  PROVE  TokenInv'
<1>1. UNCHANGED <<requests, proved, spent>> /\ approvals' \subseteq approvals
  BY DEF RefusesApply, OutsiderEdits, OutsiderCommits, OutsiderMoves, editVars, ghosts
<1>2. Shape' /\ \A r \in Requests : Applying(r)' =>
                  Applying(r) /\ requests'[r].token = requests[r].token
  BY <1>1 DEF TokenInv, Shape, Applying
<1> QED
  BY <1>1, <1>2, QuietStep

(* Every step keeps the tokens accounted for. *)
LEMMA TokenInvNext ==
  ASSUME TokenInv, [HistoryEditNext]_editVars
  PROVE  TokenInv'
<1>1. ASSUME NEW r \in Requests,
             \/ \E edit \in {"squash", "reorder"} : AsksCheck(r, edit)
             \/ ReadsStatus(r) \/ ReadsSource(r) \/ ReadsSourceAgain(r)
      PROVE  TokenInv'
  BY <1>1, CheckActions
<1>2. ASSUME NEW r \in Requests, Simulates(r) PROVE TokenInv'
  BY <1>2, SimulatesAction
<1>3. ASSUME NEW r \in Requests, NEW approval \in approvals, NEW signed \in BOOLEAN,
             AsksApply(r, approval, signed)
      PROVE  TokenInv'
  BY <1>3, AsksApplyAction
<1>4. ASSUME NEW r \in Requests,
             ReadsStatusToApply(r) \/ ReadsSourceToApply(r) \/ ReadsSourceAgainToApply(r)
      PROVE  TokenInv'
  BY <1>4, PreflightActions
<1>5. ASSUME NEW r \in Requests, ResetsToBase(r) \/ Replays(r) PROVE TokenInv'
  BY <1>5, ResetsAction, ReplaysAction
<1>6. ASSUME NEW r \in Requests, ComparesTree(r) \/ Restores(r) PROVE TokenInv'
  BY <1>6, ComparesAction, RestoresAction
<1>7. ASSUME NEW r \in Requests, AnswersUnrestored(r) PROVE TokenInv'
  BY <1>7, Ending DEF AnswersUnrestored, ghosts
<1>8. ASSUME \/ \E approval \in approvals : RefusesApply(approval)
             \/ OutsiderEdits \/ OutsiderCommits \/ OutsiderMoves
             \/ UNCHANGED editVars
      PROVE  TokenInv'
  BY <1>8, OtherActions
<1> QED
  BY <1>1, <1>2, <1>3, <1>4, <1>5, <1>6, <1>7, <1>8 DEF HistoryEditNext

-----------------------------------------------------------------------------
(* Every token is at one place, from the check that gives it to the rewrite that     *)
(* spends it (rebase-handlers.ts: approvals, invalidateWorktreeApprovals).           *)
THEOREM TokenInvariant == HistoryEditSpec => []TokenInv
<1>1. HistoryEditInit => TokenInv
  BY TokenInvInit
<1>2. TokenInv /\ [HistoryEditNext]_editVars => TokenInv'
  BY TokenInvNext
<1> QED
  BY <1>1, <1>2, PTL DEF HistoryEditSpec

(* No approval carries two rewrites, although a refused signature gives it back to    *)
(* be used again and other requests wait for the worktree meanwhile.                *)
THEOREM NoApprovalTwice == HistoryEditSpec => []OneRewritePerCheck
<1>1. TokenInv => OneRewritePerCheck
  BY DEF TokenInv
<1> QED
  BY <1>1, TokenInvariant, PTL

-----------------------------------------------------------------------------
(* Histories *)

Histories == Seq(SUBSET Nat)

(* A change is in a history when one of its commits makes it. *)
LEMMA InFiles ==
  ASSUME NEW h \in Histories, NEW x
  PROVE  x \in Files(h) <=> \E i \in 1 .. Len(h) : x \in h[i]
<1>1. DOMAIN h = 1 .. Len(h)
  BY DEF Histories
<1> QED BY <1>1 DEF Files, ToSet

(* Histories of the same commits are the same. *)
LEMMA SameHistory ==
  ASSUME NEW h \in Histories, NEW k \in Histories, Len(h) = Len(k),
         \A i \in 1 .. Len(h) : h[i] = k[i]
  PROVE  h = k
BY DEF Histories

(* A commit more. *)
LEMMA CommitMore ==
  ASSUME NEW h \in Histories, NEW c \in SUBSET Nat
  PROVE  /\ Append(h, c) \in Histories /\ Len(Append(h, c)) = Len(h) + 1
         /\ Append(h, c)[Len(h) + 1] = c
         /\ \A i \in 1 .. Len(h) : Append(h, c)[i] = h[i]
         /\ \A x : x \in Files(Append(h, c)) <=> x \in Files(h) \/ x \in c
<1>1. /\ Append(h, c) \in Histories /\ Len(Append(h, c)) = Len(h) + 1 /\ Len(h) \in Nat
      /\ Append(h, c)[Len(h) + 1] = c
      /\ \A i \in 1 .. Len(h) : Append(h, c)[i] = h[i]
  BY DEF Histories
<1> DEFINE k == Append(h, c)
<1> HIDE DEF k
<1>2. \A x : x \in Files(k) <=> \E i \in 1 .. Len(k) : x \in k[i]
  BY <1>1, InFiles DEF k
<1>3. \A x : x \in Files(h) <=> \E i \in 1 .. Len(h) : x \in h[i]
  BY InFiles
<1>4. \A x : x \in Files(k) <=> x \in Files(h) \/ x \in c
  <2> SUFFICES ASSUME NEW x
               PROVE  x \in Files(k) <=> x \in Files(h) \/ x \in c
    OBVIOUS
  <2>1. ASSUME x \in Files(k) PROVE x \in Files(h) \/ x \in c
    <3>1. PICK i \in 1 .. Len(k) : x \in k[i]
      BY <1>2, <2>1
    <3>2. CASE i = Len(h) + 1
      BY <1>1, <3>1, <3>2 DEF k
    <3>3. CASE i # Len(h) + 1
      BY <1>1, <1>3, <3>1, <3>3 DEF k
    <3> QED BY <3>2, <3>3
  <2>2. ASSUME x \in c PROVE x \in Files(k)
    <3>1. Len(h) + 1 \in 1 .. Len(k) /\ x \in k[Len(h) + 1]
      BY <1>1, <2>2 DEF k
    <3> QED BY <1>2, <3>1
  <2>3. ASSUME x \in Files(h) PROVE x \in Files(k)
    <3>1. PICK i \in 1 .. Len(h) : x \in h[i]
      BY <1>3, <2>3
    <3>2. i \in 1 .. Len(k) /\ x \in k[i]
      BY <1>1, <3>1 DEF k
    <3> QED BY <1>2, <3>2
  <2> QED BY <2>1, <2>2, <2>3
<1> QED BY <1>1, <1>4 DEF k

(* The selection, and its changes. *)
LEMMA SelectionIs ==
  /\ Selected \in Histories /\ Len(Selected) \in Nat /\ Len(Selected) >= 1
  /\ \A x \in Files(Selected) : x \in Nat /\ x # 0 /\ x <= Cardinality(Files(Selected))
  /\ Cardinality(Files(Selected)) \in Nat
<1>1. Selected \in Histories /\ Len(Selected) \in Nat /\ Len(Selected) >= 1
  BY HistoryEditAssumption DEF Histories
<1> DEFINE n == Cardinality(Files(Selected))
<1>2. n \in Nat /\ Files(Selected) = 1 .. n
  BY HistoryEditAssumption, FS_CardinalityType DEF Files
<1> QED BY <1>1, <1>2

(* What OnTop tells of the newest commits. *)
LEMMA OnTopIs ==
  ASSUME NEW h \in Histories, OnTop(h)
  PROVE  /\ Len(Selected) <= Len(h)
         /\ \A j \in 1 .. Len(Selected) : h[Len(h) - Len(Selected) + j] = Selected[j]
<1> DEFINE n == Len(Selected)
           m == Len(h)
           r == Reverse(Selected)
           q == Reverse(h)
<1>1. n \in Nat /\ m \in Nat
  BY SelectionIs DEF Histories
<1>2. r = [i \in 1 .. n |-> Selected[n - i + 1]] /\ q = [i \in 1 .. m |-> h[m - i + 1]]
  BY DEF Reverse
<1>3. Len(r) <= Len(q) /\ SubSeq(r, 1, Len(r)) = SubSeq(q, 1, Len(r))
  BY DEF OnTop, IsSuffix, IsPrefix
<1>4. Len(r) = n /\ Len(q) = m
  BY <1>1, <1>2
<1>5. \A i \in 1 .. n : r[i] = Selected[n - i + 1]
  BY <1>2
<1>6. \A i \in 1 .. m : q[i] = h[m - i + 1]
  BY <1>2
<1>7. /\ \A i \in 1 .. n : SubSeq(r, 1, n)[i] = r[i]
      /\ \A i \in 1 .. n : SubSeq(q, 1, n)[i] = q[i]
  <2>1. \A i \in 1 .. n : 1 + i - 1 = i
    BY <1>1
  <2>2. SubSeq(r, 1, n) = [i \in 1 .. n |-> r[1 + i - 1]]
    BY <1>1, <1>2, <1>4
  <2>3. SubSeq(q, 1, n) = [i \in 1 .. n |-> q[1 + i - 1]]
    BY <1>1, <1>2, <1>3, <1>4
  <2> QED BY <2>1, <2>2, <2>3
<1> HIDE DEF n, m, r, q
<1>8. \A i \in 1 .. n : Selected[n - i + 1] = h[m - i + 1]
  BY <1>1, <1>3, <1>4, <1>5, <1>6, <1>7
<1>9. \A j \in 1 .. n : h[m - n + j] = Selected[j]
  <2> SUFFICES ASSUME NEW j \in 1 .. n
               PROVE  h[m - n + j] = Selected[j]
    OBVIOUS
  <2>1. n - j + 1 \in 1 .. n /\ n - (n - j + 1) + 1 = j /\ m - (n - j + 1) + 1 = m - n + j
    BY <1>1
  <2> QED BY <1>8, <2>1
<1> QED BY <1>3, <1>4, <1>9 DEF n, m

(* The base, and what the newest commits add to it. *)
LEMMA BaseIs ==
  ASSUME NEW h \in Histories, OnTop(h)
  PROVE  LET base == BaseOf(h) IN
         /\ base \in Histories /\ Len(base) = Len(h) - Len(Selected) /\ Len(base) \in Nat
         /\ \A i \in 1 .. Len(base) : base[i] = h[i]
         /\ \A x : x \in Files(h) <=> x \in Files(base) \/ x \in Files(Selected)
<1> DEFINE n == Len(Selected)
           m == Len(h)
           base == BaseOf(h)
<1>1. n \in Nat /\ m \in Nat /\ n <= m /\ Selected \in Histories
  BY SelectionIs, OnTopIs DEF Histories
<1>2. \A j \in 1 .. n : h[m - n + j] = Selected[j]
  BY OnTopIs
<1>3. base \in Histories /\ Len(base) = m - n /\ \A i \in 1 .. m - n : base[i] = h[i]
  BY <1>1 DEF BaseOf, Histories
<1> HIDE DEF n, m, base
<1>4. \A x : x \in Files(h) <=> \E i \in 1 .. m : x \in h[i]
  BY InFiles DEF m
<1>5. \A x : x \in Files(base) <=> \E i \in 1 .. m - n : x \in base[i]
  BY <1>3, InFiles
<1>6. \A x : x \in Files(Selected) <=> \E i \in 1 .. n : x \in Selected[i]
  BY <1>1, InFiles DEF n
<1>7. \A x : x \in Files(h) <=> x \in Files(base) \/ x \in Files(Selected)
  <2> SUFFICES ASSUME NEW x
               PROVE  x \in Files(h) <=> x \in Files(base) \/ x \in Files(Selected)
    OBVIOUS
  <2>1. ASSUME NEW i \in 1 .. m, x \in h[i]
        PROVE  x \in Files(base) \/ x \in Files(Selected)
    <3>1. CASE i <= m - n
      BY <1>1, <1>3, <1>5, <2>1, <3>1
    <3>2. CASE i > m - n
      <4>1. i - (m - n) \in 1 .. n /\ m - n + (i - (m - n)) = i
        BY <1>1, <2>1, <3>2
      <4>2. x \in Selected[i - (m - n)]
        BY <1>2, <2>1, <4>1
      <4> QED BY <1>6, <4>1, <4>2
    <3> QED BY <1>1, <2>1, <3>1, <3>2
  <2>2. ASSUME NEW i \in 1 .. m - n, x \in base[i]
        PROVE  x \in Files(h)
    <3>1. i \in 1 .. m /\ x \in h[i]
      BY <1>1, <1>3, <2>2
    <3> QED BY <1>4, <3>1
  <2>3. ASSUME NEW j \in 1 .. n, x \in Selected[j]
        PROVE  x \in Files(h)
    <3>1. m - n + j \in 1 .. m /\ x \in h[m - n + j]
      BY <1>1, <1>2, <2>3
    <3> QED BY <1>4, <3>1
  <2> QED BY <1>4, <1>5, <1>6, <2>1, <2>2, <2>3
<1> QED BY <1>1, <1>3, <1>7 DEF n, m, base

(* The program makes the changes of the selection, in as many commits at most. *)
LEMMA ProgramIs ==
  ASSUME NEW edit
  PROVE  LET program == Program(edit, Selected) IN
         /\ program \in Histories /\ Len(program) \in 1 .. Len(Selected)
         /\ \A i \in 1 .. Len(program) : program[i] \subseteq Files(Selected)
<1>1. /\ Selected \in Histories /\ Len(Selected) \in Nat /\ Len(Selected) >= 1
      /\ Files(Selected) \subseteq Nat
  BY SelectionIs
<1>2. CASE edit = "squash"
  <2>1. Program(edit, Selected) = <<Files(Selected)>>
    BY <1>2 DEF Program, Files
  <2> QED BY <1>1, <2>1 DEF Histories
<1>3. CASE edit # "squash"
  <2> DEFINE n == Len(Selected)
             r == Reverse(Selected)
  <2>1. Program(edit, Selected) = r /\ r = [i \in 1 .. n |-> Selected[n - i + 1]]
    BY <1>3 DEF Program, Reverse
  <2>2. \A i \in 1 .. n : n - i + 1 \in 1 .. n /\ Selected[n - i + 1] \in SUBSET Nat
    BY <1>1 DEF Histories
  <2>3. \A i \in 1 .. n : Selected[n - i + 1] \subseteq Files(Selected)
    BY <1>1, <2>2, InFiles
  <2> HIDE DEF r
  <2>4. r \in Histories /\ Len(r) = n
    BY <1>1, <2>1, <2>2 DEF Histories
  <2>5. \A i \in 1 .. n : r[i] = Selected[n - i + 1]
    BY <2>1
  <2> QED BY <1>1, <2>1, <2>3, <2>4, <2>5
<1> QED BY <1>2, <1>3
-----------------------------------------------------------------------------
(* The rewrite, while nobody acts where it no longer looks *)

(* What is left of the old branch, and what the program has added to it: its commits, *)
(* or what a merge driver or a filter has made of them.                             *)
Partly(branch, head, program, done) ==
  /\ Len(branch) = Len(BaseOf(head)) + done
  /\ \A i \in 1 .. Len(BaseOf(head)) : branch[i] = BaseOf(head)[i]
  /\ \A i \in 1 .. done : branch[Len(BaseOf(head)) + i] \in {program[i], {0}}

(* From the last look at the source to the answer. *)
Rewriting == {"reset", "replay", "compare", "restore"}

(* How far a request is with the branch it rewrites. *)
Doing(q, branch, ref) ==
  LET head == q.source.head
      program == Program(q.edit, Selected)
  IN  q.at \in Rewriting =>
        /\ ref = q.source.ref
        /\ head \in Histories /\ OnTop(head) /\ 0 \notin Files(head)
        /\ q.at = "reset" => branch = head
        /\ q.at = "replay" => /\ q.next \in 1 .. Len(program)
                              /\ Partly(branch, head, program, q.next - 1)
        /\ q.at = "compare" => Partly(branch, head, program, Len(program))
        /\ q.at = "restore" => Files(branch) \subseteq Files(head) \cup {0}

(* Under the worktree's lock. *)
InTurn(q) == q.at \in {"expected", "settled"} \cup Rewriting

Approved(q) ==
  q.at \in {"queued", "expected", "settled"} \cup Rewriting =>
    \E a \in proved : a.token = q.token /\ a.source = q.source

EditTypes ==
  /\ branches \in [Branches -> Histories] /\ current \in Branches
  /\ edits \subseteq Nat
  /\ outside \in Seq(Nat)
  /\ \A i \in 1 .. Len(outside) : outside[i] = 0 \/ outside[i] > Cardinality(Files(Selected))

(* Whoever waits is in line, and only the first in line acts. *)
TakesTurns ==
  /\ inLine \in Seq(Requests)
  /\ \A r \in Requests :
       /\ requests[r].at = "queued" => \E i \in 1 .. Len(inLine) : inLine[i] = r
       /\ InTurn(requests[r]) => Len(inLine) >= 1 /\ r = inLine[1]

(* Nothing uncommitted is there to be lost. *)
CleanInTurn == (\E r \in Requests : InTurn(requests[r])) => edits = {}

AllApproved == \A r \in Requests : Approved(requests[r])

AllDoing == \A r \in Requests : Doing(requests[r], branches[current], current)

(* No branch that ends in the selection has what a filter has made of a commit.      *)
ZeroNotBelow == \A b \in Branches : OnTop(branches[b]) => 0 \notin Files(branches[b])

WorkKept ==
  \A i \in 1 .. Len(outside) : outside[i] # 0 =>
    outside[i] \in edits \/ \E b \in Branches : outside[i] \in Files(branches[b])

Undisturbed ==
  /\ EditTypes /\ TakesTurns /\ CleanInTurn /\ AllApproved /\ AllDoing
  /\ ZeroNotBelow /\ WorkKept

EditInv == ~ meddled => Undisturbed
-----------------------------------------------------------------------------
(* Rewriting a branch *)

(* After the reset nothing has been added yet. *)
LEMMA PartlyStarts ==
  ASSUME NEW head \in Histories, OnTop(head), NEW program
  PROVE  BaseOf(head) \in Histories /\ Partly(BaseOf(head), head, program, 0)
<1> DEFINE base == BaseOf(head)
<1>1. base \in Histories /\ Len(base) \in Nat
  BY BaseIs
<1> HIDE DEF base
<1>2. Len(base) = Len(base) + 0 /\ \A i \in 1 .. 0 : FALSE
  BY <1>1
<1> QED BY <1>1, <1>2 DEF Partly, base

(* A commit of the program, or what has become of it, is added. *)
LEMMA PartlyMore ==
  ASSUME NEW head \in Histories, OnTop(head), NEW program \in Histories,
         NEW branch \in Histories, NEW k \in 1 .. Len(program),
         Partly(branch, head, program, k - 1),
         NEW commit \in {program[k], {0}}
  PROVE  /\ Append(branch, commit) \in Histories
         /\ Partly(Append(branch, commit), head, program, k)
<1> DEFINE n == Len(BaseOf(head))
           base == BaseOf(head)
           more == Append(branch, commit)
<1>1. n \in Nat
  BY BaseIs
<1>2. commit \in SUBSET Nat /\ k \in Nat /\ k >= 1
  BY DEF Histories
<1> HIDE DEF n, base, more
<1>3. /\ Len(branch) = n + (k - 1)
      /\ \A i \in 1 .. n : branch[i] = base[i]
      /\ \A i \in 1 .. k - 1 : branch[n + i] \in {program[i], {0}}
  BY DEF Partly, n, base
<1>4. /\ more \in Histories /\ Len(more) = Len(branch) + 1
      /\ more[Len(branch) + 1] = commit
      /\ \A i \in 1 .. Len(branch) : more[i] = branch[i]
  BY <1>2, CommitMore DEF more
<1>5. Len(more) = n + k
  BY <1>1, <1>2, <1>3, <1>4
<1>6. ASSUME NEW i \in 1 .. n PROVE more[i] = base[i]
  <2>1. i \in 1 .. Len(branch)
    BY <1>1, <1>2, <1>3
  <2> QED BY <1>3, <1>4, <2>1
<1>7. ASSUME NEW i \in 1 .. k PROVE more[n + i] \in {program[i], {0}}
  <2>1. CASE i = k
    <3>1. n + i = Len(branch) + 1
      BY <1>1, <1>2, <1>3, <2>1
    <3> QED BY <1>4, <2>1, <3>1
  <2>2. CASE i # k
    <3>1. i \in 1 .. k - 1 /\ n + i \in 1 .. Len(branch)
      BY <1>1, <1>2, <1>3, <2>2
    <3> QED BY <1>3, <1>4, <3>1
  <2> QED BY <2>1, <2>2
<1> QED BY <1>4, <1>5, <1>6, <1>7 DEF Partly, n, base, more

(* It has no change that the old branch has not, nor lost one of its base.           *)
LEMMA PartlyFiles ==
  ASSUME NEW head \in Histories, OnTop(head), NEW edit,
         NEW branch \in Histories,
         NEW k \in 0 .. Len(Program(edit, Selected)),
         Partly(branch, head, Program(edit, Selected), k)
  PROVE  /\ Files(branch) \subseteq Files(head) \cup {0}
         /\ Files(BaseOf(head)) \subseteq Files(branch)
<1> DEFINE program == Program(edit, Selected)
           base == BaseOf(head)
           n == Len(base)
<1>1. /\ base \in Histories /\ n \in Nat
      /\ \A x : x \in Files(head) <=> x \in Files(base) \/ x \in Files(Selected)
  BY BaseIs
<1>2. Len(program) \in Nat /\ \A i \in 1 .. Len(program) : program[i] \subseteq Files(Selected)
  BY ProgramIs, SelectionIs
<1> HIDE DEF program, base
<1>3. /\ Len(branch) = n + k
      /\ \A i \in 1 .. n : branch[i] = base[i]
      /\ \A i \in 1 .. k : branch[n + i] \in {program[i], {0}}
  BY DEF Partly, base, program
<1>4. k \in Nat /\ k <= Len(program)
  BY <1>2 DEF program
<1> HIDE DEF n
<1>5. \A x : x \in Files(branch) <=> \E i \in 1 .. Len(branch) : x \in branch[i]
  BY InFiles
<1>6. \A x : x \in Files(base) <=> \E i \in 1 .. n : x \in base[i]
  BY <1>1, InFiles DEF n
<1>7. ASSUME NEW i \in 1 .. Len(branch), NEW x \in branch[i]
      PROVE  x \in Files(head) \cup {0}
  <2>1. CASE i <= n
    BY <1>1, <1>3, <1>6, <1>7, <2>1
  <2>2. CASE i > n
    <3>1. i - n \in 1 .. k /\ n + (i - n) = i
      BY <1>1, <1>3, <1>4, <2>2
    <3>2. branch[i] \in {program[i - n], {0}}
      BY <1>3, <3>1
    <3>3. i - n \in 1 .. Len(program)
      BY <1>2, <1>4, <3>1
    <3> QED BY <1>1, <1>2, <1>7, <3>2, <3>3
  <2> QED BY <1>1, <1>3, <1>4, <2>1, <2>2
<1>8. ASSUME NEW i \in 1 .. n, NEW x \in base[i]
      PROVE  x \in Files(branch)
  <2>1. i \in 1 .. Len(branch) /\ x \in branch[i]
    BY <1>1, <1>3, <1>4, <1>8
  <2> QED BY <1>5, <2>1
<1>9. Files(branch) \subseteq Files(head) \cup {0}
  BY <1>5, <1>7
<1>10. Files(base) \subseteq Files(branch)
  BY <1>6, <1>8
<1> QED BY <1>9, <1>10 DEF base

(* Where a filter has made something else of a commit, it does not end in the        *)
(* selection.                                                                      *)
LEMMA PartlyZero ==
  ASSUME NEW head \in Histories, OnTop(head), 0 \notin Files(head), NEW edit,
         NEW branch \in Histories, OnTop(branch),
         NEW k \in 0 .. Len(Program(edit, Selected)),
         Partly(branch, head, Program(edit, Selected), k)
  PROVE  0 \notin Files(branch)
<1> DEFINE program == Program(edit, Selected)
           base == BaseOf(head)
           n == Len(base)
           s == Len(Selected)
<1>1. /\ base \in Histories /\ n \in Nat
      /\ \A x : x \in Files(head) <=> x \in Files(base) \/ x \in Files(Selected)
  BY BaseIs
<1>2. Len(program) \in 1 .. s /\ s \in Nat
  BY ProgramIs, SelectionIs
<1> HIDE DEF program, base
<1>3. Len(branch) = n + k /\ \A i \in 1 .. n : branch[i] = base[i]
  BY DEF Partly, base, program
<1>4. k \in Nat /\ k <= s
  BY <1>2 DEF program
<1> HIDE DEF n
<1>5. /\ s <= Len(branch)
      /\ \A j \in 1 .. s : branch[Len(branch) - s + j] = Selected[j]
  BY OnTopIs
<1>6. \A i \in 1 .. n : 0 \notin base[i]
  BY <1>1, InFiles DEF n
<1>7. \A j \in 1 .. s : 0 \notin Selected[j]
  <2>1. 0 \notin Files(Selected)
    BY SelectionIs
  <2> QED BY <2>1, SelectionIs, InFiles
<1> HIDE DEF s
<1>8. ASSUME NEW i \in 1 .. Len(branch) PROVE 0 \notin branch[i]
  <2>1. CASE i <= n
    BY <1>1, <1>3, <1>6, <1>8, <2>1
  <2>2. CASE i > n
    <3>1. /\ i - (Len(branch) - s) \in 1 .. s
          /\ Len(branch) - s + (i - (Len(branch) - s)) = i
      BY <1>1, <1>2, <1>3, <1>4, <2>2
    <3> QED BY <1>5, <1>7, <3>1
  <2> QED BY <1>1, <1>3, <1>4, <2>1, <2>2
<1> QED BY <1>8, InFiles

(* All of the program, none of it changed: exactly its commits on the old base.      *)
LEMMA PartlyWhole ==
  ASSUME NEW head \in Histories, OnTop(head), NEW edit,
         NEW branch \in Histories, 0 \notin Files(branch),
         Partly(branch, head, Program(edit, Selected), Len(Program(edit, Selected)))
  PROVE  branch = BaseOf(head) \o Program(edit, Selected)
<1> DEFINE program == Program(edit, Selected)
           base == BaseOf(head)
           n == Len(base)
           m == Len(program)
           whole == base \o program
<1>1. base \in Histories /\ n \in Nat
  BY BaseIs
<1>2. program \in Histories /\ m \in Nat
  BY ProgramIs, SelectionIs
<1> HIDE DEF program, base
<1>3. /\ Len(branch) = n + m
      /\ \A i \in 1 .. n : branch[i] = base[i]
      /\ \A i \in 1 .. m : branch[n + i] \in {program[i], {0}}
  BY DEF Partly, base, program
<1>4. /\ whole \in Histories /\ Len(whole) = n + m
      /\ \A i \in 1 .. n : whole[i] = base[i]
      /\ \A i \in 1 .. m : whole[n + i] = program[i]
  BY <1>1, <1>2 DEF Histories
<1> HIDE DEF n, m, whole
<1>5. \A i \in 1 .. Len(branch) : 0 \notin branch[i]
  BY InFiles
<1>6. ASSUME NEW i \in 1 .. Len(branch) PROVE branch[i] = whole[i]
  <2>1. CASE i <= n
    BY <1>1, <1>3, <1>4, <2>1
  <2>2. CASE i > n
    <3>1. i - n \in 1 .. m /\ n + (i - n) = i
      BY <1>1, <1>2, <1>3, <2>2
    <3>2. branch[i] \in {program[i - n], {0}} /\ whole[i] = program[i - n]
      BY <1>3, <1>4, <3>1
    <3> QED BY <1>5, <1>6, <3>2
  <2> QED BY <1>1, <1>2, <1>3, <2>1, <2>2
<1>7. branch = whole
  BY <1>3, <1>4, <1>6, SameHistory
<1> QED BY <1>7 DEF whole, base, program
-----------------------------------------------------------------------------
(* Turns *)

(* A request is changed, the others are not. *)
LEMMA OthersSame ==
  ASSUME Shape, NEW r \in Requests, NEW new, requests' = [requests EXCEPT ![r] = new]
  PROVE  /\ requests'[r] = new
         /\ \A q \in Requests : q # r => requests'[q] = requests[q]
BY DEF Shape

(* A request that moves and leaves the line as it is still takes its turn. *)
LEMMA LineKept ==
  ASSUME Shape, TakesTurns, NEW r \in Requests, NEW new,
         requests' = [requests EXCEPT ![r] = new], inLine' = inLine,
         new.at = "queued" => requests[r].at = "queued",
         InTurn(new) => Len(inLine) >= 1 /\ r = inLine[1]
  PROVE  TakesTurns'
<1>1. /\ requests'[r] = new
      /\ \A q \in Requests : q # r => requests'[q] = requests[q]
  BY OthersSame
<1>2. ASSUME NEW q \in Requests
      PROVE  /\ requests'[q].at = "queued" => \E i \in 1 .. Len(inLine) : inLine[i] = q
             /\ InTurn(requests'[q]) => Len(inLine) >= 1 /\ q = inLine[1]
  <2>1. CASE q = r
    BY <1>1, <2>1 DEF TakesTurns
  <2>2. CASE q # r
    BY <1>1, <2>2 DEF TakesTurns
  <2> QED BY <2>1, <2>2
<1> QED BY <1>2 DEF TakesTurns, InTurn

(* The first in line leaves it. *)
LEMMA LineReleased ==
  ASSUME Shape, TakesTurns, NEW r \in Requests, NEW new,
         requests' = [requests EXCEPT ![r] = new],
         inLine' = Tail(inLine), Len(inLine) >= 1, r = inLine[1],
         new.at # "queued", ~ InTurn(new)
  PROVE  TakesTurns'
<1>1. /\ requests'[r] = new
      /\ \A q \in Requests : q # r => requests'[q] = requests[q]
  BY OthersSame
<1>2. /\ inLine \in Seq(Requests) /\ Len(inLine) \in Nat
      /\ inLine' \in Seq(Requests) /\ Len(inLine') = Len(inLine) - 1
      /\ \A i \in 1 .. Len(inLine) - 1 : inLine'[i] = inLine[i + 1]
  BY DEF TakesTurns
<1>3. ASSUME NEW q \in Requests
      PROVE  /\ requests'[q].at = "queued" => \E i \in 1 .. Len(inLine') : inLine'[i] = q
             /\ ~ InTurn(requests'[q])
  <2>1. CASE q = r
    BY <1>1, <2>1
  <2>2. CASE q # r
    <3>1. ~ InTurn(requests'[q])
      BY <1>1, <2>2 DEF TakesTurns
    <3>2. ASSUME requests'[q].at = "queued"
          PROVE  \E i \in 1 .. Len(inLine') : inLine'[i] = q
      <4>1. PICK i \in 1 .. Len(inLine) : inLine[i] = q
        BY <1>1, <2>2, <3>2 DEF TakesTurns
      <4>2. i - 1 \in 1 .. Len(inLine') /\ i - 1 \in 1 .. Len(inLine) - 1 /\ (i - 1) + 1 = i
        BY <1>2, <2>2, <4>1
      <4>3. inLine'[i - 1] = q
        BY <1>2, <4>1, <4>2
      <4> QED BY <4>2, <4>3
    <3> QED BY <3>1, <3>2
  <2> QED BY <2>1, <2>2
<1> QED BY <1>2, <1>3 DEF TakesTurns, InTurn

(* A request that joins the line waits behind all others. *)
LEMMA LineJoined ==
  ASSUME Shape, TakesTurns, NEW r \in Requests, NEW new,
         requests' = [requests EXCEPT ![r] = new],
         inLine' = Append(inLine, r), ~ InTurn(new)
  PROVE  TakesTurns'
<1>1. /\ requests'[r] = new
      /\ \A q \in Requests : q # r => requests'[q] = requests[q]
  BY OthersSame
<1>2. /\ Len(inLine) \in Nat
      /\ inLine' \in Seq(Requests) /\ Len(inLine') = Len(inLine) + 1
      /\ inLine'[Len(inLine) + 1] = r
      /\ \A i \in 1 .. Len(inLine) : inLine'[i] = inLine[i]
  BY DEF TakesTurns
<1>3. ASSUME NEW q \in Requests
      PROVE  /\ requests'[q].at = "queued" => \E i \in 1 .. Len(inLine') : inLine'[i] = q
             /\ InTurn(requests'[q]) => Len(inLine') >= 1 /\ q = inLine'[1]
  <2>1. CASE q = r
    <3>1. Len(inLine) + 1 \in 1 .. Len(inLine')
      BY <1>2
    <3> QED BY <1>1, <1>2, <2>1, <3>1
  <2>2. CASE q # r
    <3>1. ASSUME InTurn(requests'[q]) PROVE Len(inLine') >= 1 /\ q = inLine'[1]
      <4>1. Len(inLine) >= 1 /\ q = inLine[1]
        BY <1>1, <2>2, <3>1 DEF TakesTurns
      <4> QED BY <1>2, <4>1
    <3>2. ASSUME requests'[q].at = "queued"
          PROVE  \E i \in 1 .. Len(inLine') : inLine'[i] = q
      <4>1. PICK i \in 1 .. Len(inLine) : inLine[i] = q
        BY <1>1, <2>2, <3>2 DEF TakesTurns
      <4>2. i \in 1 .. Len(inLine') /\ inLine'[i] = q
        BY <1>2, <4>1
      <4> QED BY <4>2
    <3> QED BY <3>1, <3>2
  <2> QED BY <2>1, <2>2
<1> QED BY <1>2, <1>3 DEF TakesTurns, InTurn

(* A step of one request that changes the branch only when it is its turn. *)
LEMMA RequestStep ==
  ASSUME Shape, Undisturbed, NEW r \in Requests, NEW new,
         requests' = [requests EXCEPT ![r] = new], proved \subseteq proved',
         UNCHANGED <<branches, current, edits>> \/ InTurn(requests[r]),
         EditTypes', TakesTurns', ZeroNotBelow', WorkKept',
         InTurn(new) => edits' = {},
         new.at \in {"queued", "expected", "settled"} \cup Rewriting =>
           \E a \in proved : a.token = new.token /\ a.source = new.source,
         Doing(new, branches'[current'], current')
  PROVE  Undisturbed'
<1>1. /\ requests'[r] = new
      /\ \A q \in Requests : q # r => requests'[q] = requests[q]
  BY OthersSame
<1>2. \A q \in Requests :
        q # r => ~ InTurn(requests[q]) \/ UNCHANGED <<branches, current, edits>>
  BY DEF Undisturbed, TakesTurns
<1>3. CleanInTurn'
  <2> SUFFICES ASSUME NEW q \in Requests, InTurn(requests'[q])
               PROVE  edits' = {}
    BY DEF CleanInTurn, InTurn
  <2> QED BY <1>1, <1>2 DEF Undisturbed, CleanInTurn
<1>4. AllApproved'
  BY <1>1 DEF Undisturbed, AllApproved, Approved
<1>5. AllDoing'
  <2> SUFFICES ASSUME NEW q \in Requests
               PROVE  Doing(requests'[q], branches'[current'], current')
    BY DEF AllDoing, Doing, Partly
  <2>1. CASE q = r
    BY <1>1, <2>1
  <2>2. CASE q # r /\ UNCHANGED <<branches, current, edits>>
    <3>1. Doing(requests[q], branches[current], current)
      BY DEF Undisturbed, AllDoing
    <3> QED BY <1>1, <2>2, <3>1
  <2>3. CASE q # r /\ ~ InTurn(requests[q])
    <3>1. requests'[q].at \notin Rewriting
      BY <1>1, <2>3 DEF InTurn
    <3> QED BY <3>1 DEF Doing
  <2> QED BY <1>2, <2>1, <2>2, <2>3
<1> QED BY <1>3, <1>4, <1>5 DEF Undisturbed

(* It leaves the checkout alone. *)
LEMMA LookingStep ==
  ASSUME Shape, Undisturbed, NEW r \in Requests, NEW new,
         requests' = [requests EXCEPT ![r] = new], proved \subseteq proved',
         UNCHANGED <<branches, current, edits, outside>>,
         TakesTurns',
         InTurn(new) => edits = {},
         new.at \in {"queued", "expected", "settled"} \cup Rewriting =>
           \E a \in proved : a.token = new.token /\ a.source = new.source,
         Doing(new, branches[current], current)
  PROVE  Undisturbed'
<1>1. EditTypes' /\ ZeroNotBelow' /\ WorkKept'
  BY DEF Undisturbed, EditTypes, ZeroNotBelow, WorkKept, OnTop
<1> QED BY <1>1, RequestStep

(* It has nothing to do with a rewrite of its own, nor with the line. *)
LEMMA IdleStep ==
  ASSUME Shape, Undisturbed, NEW r \in Requests, NEW new,
         requests' = [requests EXCEPT ![r] = new], proved \subseteq proved',
         UNCHANGED <<branches, current, edits, outside>>,
         \/ inLine' = inLine
         \/ inLine' = Tail(inLine) /\ Len(inLine) >= 1 /\ r = inLine[1],
         new.at \notin {"queued", "expected", "settled"} \cup Rewriting
  PROVE  Undisturbed'
<1>1. ~ InTurn(new) /\ new.at # "queued"
  BY DEF InTurn
<1>2. TakesTurns'
  BY <1>1, LineKept, LineReleased DEF Undisturbed
<1>3. Doing(new, branches[current], current)
  BY DEF Doing
<1> QED BY <1>1, <1>2, <1>3, LookingStep
-----------------------------------------------------------------------------
(* The requests' steps *)

(* In the beginning nobody is in line and nothing is edited. *)
LEMMA EditInvInit == HistoryEditInit => Undisturbed
<1> SUFFICES ASSUME HistoryEditInit PROVE Undisturbed
  OBVIOUS
<1> USE DEF HistoryEditInit
<1>1. \A r \in Requests : requests[r].at = "none"
  BY DEF NoRequest
<1>2. EditTypes
  BY SelectionIs DEF EditTypes
<1>3. TakesTurns /\ CleanInTurn /\ AllApproved /\ AllDoing
  BY <1>1 DEF TakesTurns, CleanInTurn, AllApproved, Approved, AllDoing, Doing, InTurn,
              Rewriting
<1>4. ZeroNotBelow
  BY SelectionIs DEF ZeroNotBelow
<1>5. WorkKept
  BY DEF WorkKept
<1> QED BY <1>2, <1>3, <1>4, <1>5 DEF Undisturbed

(* A check looks and takes no turn. *)
LEMMA CheckKeeps ==
  ASSUME Shape, Undisturbed, NEW r \in Requests,
         \/ \E edit \in {"squash", "reorder"} : AsksCheck(r, edit)
         \/ ReadsStatus(r) \/ ReadsSource(r) \/ ReadsSourceAgain(r)
         \/ Simulates(r) \/ AnswersUnrestored(r)
  PROVE  Undisturbed'
<1>1. UNCHANGED <<branches, current, edits, outside, inLine>> /\ proved \subseteq proved'
  BY DEF AsksCheck, ReadsStatus, ReadsSource, ReadsSourceAgain, Simulates,
         AnswersUnrestored, checkout, ghosts
<1>2. ASSUME NEW new, requests' = [requests EXCEPT ![r] = new],
             new.at \in {"none", "status", "source", "again", "copy"}
      PROVE  Undisturbed'
  BY <1>1, <1>2, IdleStep DEF Rewriting
<1>3. ASSUME Ends(r) PROVE Undisturbed'
  BY <1>2, <1>3 DEF Ends, NoRequest
<1>4. ASSUME NEW at \in {"source", "copy"}, Goes(r, at) PROVE Undisturbed'
  <2> DEFINE new == [requests[r] EXCEPT !.at = at]
  <2>1. new.at = at
    BY DEF Shape, IsRequest, Fields
  <2>2. requests' = [requests EXCEPT ![r] = new]
    BY <1>4 DEF Goes
  <2> HIDE DEF new
  <2> QED BY <1>2, <2>1, <2>2
<1>5. ASSUME NEW edit, AsksCheck(r, edit) PROVE Undisturbed'
  <2> DEFINE new == [requests[r] EXCEPT !.at = "status", !.edit = edit]
  <2>1. new.at = "status"
    BY DEF Shape, IsRequest, Fields
  <2>2. requests' = [requests EXCEPT ![r] = new]
    BY <1>5 DEF AsksCheck
  <2> HIDE DEF new
  <2> QED BY <1>2, <2>1, <2>2
<1>6. CASE ReadsSource(r)
  <2> DEFINE new == [requests[r] EXCEPT !.at = "again", !.source = Source]
  <2>1. new.at = "again"
    BY DEF Shape, IsRequest, Fields
  <2>2. requests' = [requests EXCEPT ![r] = new]
    BY <1>6 DEF ReadsSource
  <2> HIDE DEF new
  <2> QED BY <1>2, <2>1, <2>2
<1>7. CASE ReadsStatus(r) \/ ReadsSourceAgain(r)
  BY <1>3, <1>4, <1>7 DEF ReadsStatus, ReadsSourceAgain
<1>8. CASE Simulates(r) \/ AnswersUnrestored(r)
  BY <1>3, <1>8 DEF Simulates, AnswersUnrestored, Ends
<1> QED BY <1>5, <1>6, <1>7, <1>8

(* The use of an approval: the request has what was checked, and is the last in line. *)
LEMMA AsksKeeps ==
  ASSUME TokenInv, Undisturbed, NEW r \in Requests, NEW approval \in approvals,
         NEW signed \in BOOLEAN, AsksApply(r, approval, signed)
  PROVE  Undisturbed'
<1> DEFINE new == [NoRequest EXCEPT !.at = "queued", !.edit = approval.edit,
                     !.token = approval.token, !.source = approval.source,
                     !.signed = signed]
<1>1. new.at = "queued" /\ new.token = approval.token /\ new.source = approval.source
  BY DEF NoRequest
<1>2. requests' = [requests EXCEPT ![r] = new] /\ inLine' = Append(inLine, r)
  BY DEF AsksApply
<1> HIDE DEF new
<1>3. ~ InTurn(new) /\ Doing(new, branches[current], current)
  BY <1>1 DEF InTurn, Doing, Rewriting
<1>4. TakesTurns'
  BY <1>2, <1>3, LineJoined DEF TokenInv, Undisturbed
<1>5. \E a \in proved : a.token = new.token /\ a.source = new.source
  BY <1>1 DEF TokenInv, TokensNumbered
<1>6. UNCHANGED <<branches, current, edits, outside, proved>>
  BY DEF AsksApply, checkout, ghosts
<1> QED BY <1>2, <1>3, <1>4, <1>5, <1>6, LookingStep DEF TokenInv

(* Ending an operation: whoever has the lock gives it back. *)
LEMMA EndingKeeps ==
  ASSUME Shape, Undisturbed, NEW r \in Requests,
         UNCHANGED <<branches, current, edits, outside, proved>>,
         EndsOperation(r), Len(inLine) >= 1, r = inLine[1]
  PROVE  Undisturbed'
<1>1. requests' = [requests EXCEPT ![r] = NoRequest] /\ inLine' = Tail(inLine)
  BY DEF EndsOperation, Ends, Releases
<1>2. NoRequest.at \notin {"queued", "expected", "settled"} \cup Rewriting
  BY DEF NoRequest, Rewriting
<1> QED BY <1>1, <1>2, IdleStep

(* The looks under the lock: the last one finds the branch as it was checked.        *)
LEMMA PreflightKeeps ==
  ASSUME Shape, Undisturbed, NEW r \in Requests,
         ReadsStatusToApply(r) \/ ReadsSourceToApply(r) \/ ReadsSourceAgainToApply(r)
  PROVE  Undisturbed'
<1>1. UNCHANGED <<branches, current, edits, outside, proved>>
  BY DEF ReadsStatusToApply, ReadsSourceToApply, ReadsSourceAgainToApply, checkout, ghosts
<1>2. Len(inLine) >= 1 /\ r = inLine[1]
  <2>1. CASE ReadsStatusToApply(r)
    <3>1. requests[r].at = "queued" /\ r = Head(inLine)
      BY <2>1 DEF ReadsStatusToApply
    <3>2. Len(inLine) >= 1
      BY <3>1 DEF Undisturbed, TakesTurns
    <3> QED BY <3>1, <3>2 DEF Undisturbed, TakesTurns
  <2>2. CASE ReadsSourceToApply(r) \/ ReadsSourceAgainToApply(r)
    <3>1. InTurn(requests[r])
      BY <2>2 DEF ReadsSourceToApply, ReadsSourceAgainToApply, InTurn
    <3> QED BY <3>1 DEF Undisturbed, TakesTurns
  <2> QED BY <2>1, <2>2
<1>3. CASE EndsOperation(r)
  BY <1>1, <1>2, <1>3, EndingKeeps
<1>4. ASSUME NEW at \in {"expected", "settled", "reset"}, GoesOn(r, at),
             requests[r].at \in {"queued", "expected", "settled"},
             edits = {},
             at = "reset" => SameSource(r) /\ OnTop(Source.head)
      PROVE  Undisturbed'
  <2> DEFINE new == [requests[r] EXCEPT !.at = at]
  <2>1. /\ new.at = at /\ new.token = requests[r].token /\ new.source = requests[r].source
    BY DEF Shape, IsRequest, Fields
  <2>2. requests' = [requests EXCEPT ![r] = new] /\ inLine' = inLine
    BY <1>4 DEF GoesOn, Goes
  <2> HIDE DEF new
  <2>3. TakesTurns'
    BY <1>2, <2>1, <2>2, LineKept DEF Undisturbed
  <2>4. \E a \in proved : a.token = new.token /\ a.source = new.source
    BY <1>4, <2>1 DEF Undisturbed, AllApproved, Approved
  <2>5. Doing(new, branches[current], current)
    <3>1. CASE at # "reset"
      BY <2>1, <3>1 DEF Doing, Rewriting
    <3>2. CASE at = "reset"
      <4>1. new.source.head = branches[current] /\ new.source.ref = current
        BY <1>4, <2>1, <3>2 DEF SameSource, Source
      <4>2. branches[current] \in Histories /\ OnTop(branches[current])
        BY <1>4, <3>2 DEF Undisturbed, EditTypes, Source
      <4>3. 0 \notin Files(branches[current])
        BY <4>2 DEF Undisturbed, ZeroNotBelow, EditTypes
      <4> QED BY <2>1, <3>2, <4>1, <4>2, <4>3 DEF Doing
    <3> QED BY <3>1, <3>2
  <2> QED BY <1>1, <1>4, <2>2, <2>3, <2>4, <2>5, LookingStep
<1>5. CASE ReadsStatusToApply(r)
  BY <1>3, <1>4, <1>5 DEF ReadsStatusToApply, IsClean
<1>6. CASE ReadsSourceToApply(r) \/ ReadsSourceAgainToApply(r)
  <2>1. requests[r].at \in {"expected", "settled"}
    BY <1>6 DEF ReadsSourceToApply, ReadsSourceAgainToApply
  <2>2. edits = {}
    BY <2>1 DEF Undisturbed, CleanInTurn, InTurn
  <2> QED BY <1>3, <1>4, <1>6, <2>1, <2>2 DEF ReadsSourceToApply, ReadsSourceAgainToApply
<1> QED BY <1>5, <1>6
-----------------------------------------------------------------------------
(* The steps that rewrite the branch *)

(* What a request in the middle of a rewrite knows. *)
LEMMA Known ==
  ASSUME Undisturbed, NEW r \in Requests, requests[r].at \in Rewriting
  PROVE  /\ InTurn(requests[r]) /\ Len(inLine) >= 1 /\ r = inLine[1]
         /\ edits = {} /\ current \in Branches /\ branches[current] \in Histories
         /\ Doing(requests[r], branches[current], current)
         /\ \E a \in proved : a.token = requests[r].token /\ a.source = requests[r].source
<1>1. InTurn(requests[r])
  BY DEF InTurn
<1>2. \E a \in proved : a.token = requests[r].token /\ a.source = requests[r].source
  BY DEF Undisturbed, AllApproved, Approved
<1> QED BY <1>1, <1>2 DEF Undisturbed, TakesTurns, CleanInTurn, EditTypes, AllDoing

(* A branch that keeps the changes of others, with nothing uncommitted to lose.      *)
LEMMA BranchMoves ==
  ASSUME Undisturbed, NEW h \in Histories, OnTop(h) => 0 \notin Files(h),
         \A x \in Nat : /\ x \in Files(branches[current])
                        /\ x # 0 /\ x > Cardinality(Files(Selected))
                        => x \in Files(h),
         edits = {}, edits' = {},
         branches' = [branches EXCEPT ![current] = h], UNCHANGED <<current, outside>>
  PROVE  EditTypes' /\ ZeroNotBelow' /\ WorkKept'
<1>1. /\ branches' \in [Branches -> Histories] /\ current \in Branches
      /\ branches'[current] = h
      /\ \A b \in Branches : b # current => branches'[b] = branches[b]
  BY DEF Undisturbed, EditTypes
<1>2. EditTypes'
  BY <1>1 DEF Undisturbed, EditTypes
<1>3. ZeroNotBelow'
  <2> SUFFICES ASSUME NEW b \in Branches
               PROVE  OnTop(branches'[b]) => 0 \notin Files(branches'[b])
    BY DEF ZeroNotBelow, OnTop, Files
  <2> QED BY <1>1 DEF Undisturbed, ZeroNotBelow
<1>4. WorkKept'
  <2> SUFFICES ASSUME NEW i \in 1 .. Len(outside), outside[i] # 0
               PROVE  \E b \in Branches : outside[i] \in Files(branches'[b])
    BY DEF WorkKept, Files
  <2>1. outside[i] \in Nat /\ outside[i] > Cardinality(Files(Selected))
    BY DEF Undisturbed, EditTypes
  <2>2. PICK b \in Branches : outside[i] \in Files(branches[b])
    BY DEF Undisturbed, WorkKept
  <2> QED BY <1>1, <2>1, <2>2
<1> QED BY <1>2, <1>3, <1>4

(* A rewrite that fails goes to its rollback. *)
LEMMA FailingIs ==
  ASSUME Shape, NEW r \in Requests, NEW answer,
         requests' = [requests EXCEPT ![r].at = "restore", ![r].answer = answer]
  PROVE  \E new : /\ requests' = [requests EXCEPT ![r] = new]
                  /\ new.at = "restore" /\ new.token = requests[r].token
                  /\ new.source = requests[r].source
<1> DEFINE new == [requests[r] EXCEPT !.at = "restore", !.answer = answer]
<1>1. /\ new.at = "restore" /\ new.token = requests[r].token
      /\ new.source = requests[r].source
  BY DEF Shape, IsRequest, Fields
<1>2. requests' = [requests EXCEPT ![r] = new]
  OBVIOUS
<1> HIDE DEF new
<1> QED BY <1>1, <1>2

(* An edit that fails goes to its rollback, with nothing else changed. *)
LEMMA FailingKeeps ==
  ASSUME Shape, Undisturbed, NEW r \in Requests,
         requests[r].at \in {"reset", "replay", "compare"},
         UNCHANGED <<branches, current, edits, outside, proved, inLine>>,
         \E new : /\ requests' = [requests EXCEPT ![r] = new]
                  /\ new.at = "restore" /\ new.token = requests[r].token
                  /\ new.source = requests[r].source
  PROVE  Undisturbed'
<1> DEFINE head == requests[r].source.head
           program == Program(requests[r].edit, Selected)
<1>1. PICK new : /\ requests' = [requests EXCEPT ![r] = new]
                 /\ new.at = "restore" /\ new.token = requests[r].token
                 /\ new.source = requests[r].source
  OBVIOUS
<1>2. requests' = [requests EXCEPT ![r] = new]
  BY <1>1
<1>3. /\ InTurn(requests[r]) /\ Len(inLine) >= 1 /\ r = inLine[1]
      /\ edits = {} /\ branches[current] \in Histories
      /\ Doing(requests[r], branches[current], current)
      /\ \E a \in proved : a.token = requests[r].token /\ a.source = requests[r].source
  BY Known DEF Rewriting
<1>4. TakesTurns'
  BY <1>1, <1>2, <1>3, LineKept DEF Undisturbed
<1>5. /\ current = requests[r].source.ref
      /\ head \in Histories /\ OnTop(head) /\ 0 \notin Files(head)
  BY <1>3 DEF Doing, Rewriting
<1>6. Files(branches[current]) \subseteq Files(head) \cup {0}
  <2>1. CASE requests[r].at = "reset"
    BY <1>3, <2>1 DEF Doing, Rewriting
  <2>2. CASE requests[r].at # "reset"
    <3>1. Len(program) \in Nat
      BY ProgramIs, SelectionIs
    <3>2. PICK k \in 0 .. Len(program) : Partly(branches[current], head, program, k)
      <4>1. CASE requests[r].at = "replay"
        <5>1. /\ requests[r].next \in 1 .. Len(program)
              /\ Partly(branches[current], head, program, requests[r].next - 1)
          BY <1>3, <4>1 DEF Doing, Rewriting
        <5>2. requests[r].next - 1 \in 0 .. Len(program)
          BY <3>1, <5>1
        <5> QED BY <5>1, <5>2
      <4>2. CASE requests[r].at = "compare"
        <5>1. Partly(branches[current], head, program, Len(program))
          BY <1>3, <4>2 DEF Doing, Rewriting
        <5> QED BY <3>1, <5>1
      <4> QED BY <2>2, <4>1, <4>2
    <3> QED BY <1>3, <1>5, <3>2, PartlyFiles
  <2> QED BY <2>1, <2>2
<1>7. Doing(new, branches[current], current)
  BY <1>1, <1>5, <1>6 DEF Doing
<1>8. \E a \in proved : a.token = new.token /\ a.source = new.source
  BY <1>1, <1>3
<1>9. proved \subseteq proved' /\ UNCHANGED <<branches, current, edits, outside>>
  OBVIOUS
<1>10. edits = {}
  BY <1>3
<1> QED BY <1>2, <1>4, <1>7, <1>8, <1>9, <1>10, LookingStep

(* The reset to the base takes the selection off, and nobody else's work.            *)
LEMMA ResetsKeeps ==
  ASSUME Shape, Undisturbed, NEW r \in Requests, ResetsToBase(r)
  PROVE  Undisturbed'
<1> DEFINE head == requests[r].source.head
           program == Program(requests[r].edit, Selected)
           base == BaseOf(head)
<1>1. requests[r].at = "reset" /\ UNCHANGED <<current, outside, proved>>
  BY DEF ResetsToBase, ghosts
<1>2. /\ InTurn(requests[r]) /\ Len(inLine) >= 1 /\ r = inLine[1]
      /\ edits = {} /\ branches[current] \in Histories
      /\ Doing(requests[r], branches[current], current)
      /\ \E a \in proved : a.token = requests[r].token /\ a.source = requests[r].source
  BY <1>1, Known DEF Rewriting
<1>3. CASE /\ branches' = [branches EXCEPT ![current] = base]
           /\ edits' = {}
           /\ requests' = [requests EXCEPT ![r].at = "replay", ![r].next = 1]
           /\ inLine' = inLine
  <2> DEFINE new == [requests[r] EXCEPT !.at = "replay", !.next = 1]
  <2>1. /\ new.at = "replay" /\ new.next = 1 /\ new.token = requests[r].token
        /\ new.source = requests[r].source /\ new.edit = requests[r].edit
    BY DEF Shape, IsRequest, Fields
  <2>2. requests' = [requests EXCEPT ![r] = new]
    BY <1>3
  <2> HIDE DEF new
  <2>3. /\ current = requests[r].source.ref /\ branches[current] = head
        /\ head \in Histories /\ OnTop(head) /\ 0 \notin Files(head)
    BY <1>1, <1>2 DEF Doing, Rewriting
  <2>4. /\ base \in Histories
        /\ Partly(base, head, program, 0)
        /\ \A x : x \in Files(head) <=> x \in Files(base) \/ x \in Files(Selected)
    BY <2>3, PartlyStarts, BaseIs
  <2>5. \A x \in Nat : x \in Files(branches[current]) /\ x > Cardinality(Files(Selected))
                         => x \in Files(base)
    BY <2>3, <2>4, SelectionIs
  <2>6. 0 \notin Files(base)
    BY <2>3, <2>4
  <2> HIDE DEF base
  <2>7. EditTypes' /\ ZeroNotBelow' /\ WorkKept'
    BY <1>1, <1>2, <1>3, <2>4, <2>5, <2>6, BranchMoves
  <2>8. TakesTurns'
    BY <1>2, <1>3, <2>1, <2>2, LineKept DEF Undisturbed
  <2>9. branches'[current'] = base
    BY <1>1, <1>3 DEF Undisturbed, EditTypes
  <2>10. Len(program) \in 1 .. Len(Selected) /\ Len(Selected) \in Nat
    BY ProgramIs, SelectionIs
  <2>11. Doing(new, branches'[current'], current')
    <3>1. 1 \in 1 .. Len(program) /\ Partly(base, head, program, 1 - 1)
      BY <2>4, <2>10
    <3> QED BY <1>1, <2>1, <2>3, <2>9, <3>1 DEF Doing
  <2>12. new.at \in {"queued", "expected", "settled"} \cup Rewriting =>
           \E a \in proved : a.token = new.token /\ a.source = new.source
    BY <1>2, <2>1
  <2> QED BY <1>1, <1>2, <1>3, <2>2, <2>7, <2>8, <2>11, <2>12, RequestStep
<1>4. CASE /\ requests' = [requests EXCEPT ![r].at = "restore", ![r].answer = "failed"]
           /\ UNCHANGED <<branches, edits, inLine>>
  <2>1. \E new : /\ requests' = [requests EXCEPT ![r] = new]
                 /\ new.at = "restore" /\ new.token = requests[r].token
                 /\ new.source = requests[r].source
    BY <1>4, FailingIs
  <2> QED BY <1>1, <1>4, <2>1, FailingKeeps
<1>5. CASE EndsOperation(r) /\ UNCHANGED <<branches, edits>>
  BY <1>1, <1>2, <1>5, EndingKeeps
<1> QED
  BY <1>3, <1>4, <1>5 DEF ResetsToBase

(* A commit of the program is added to what was there. *)
LEMMA ReplaysKeeps ==
  ASSUME Shape, Undisturbed, NEW r \in Requests, Replays(r)
  PROVE  Undisturbed'
<1> DEFINE head == requests[r].source.head
           program == Program(requests[r].edit, Selected)
           k == requests[r].next
<1>1. requests[r].at = "replay" /\ UNCHANGED <<current, edits, outside, proved, inLine>>
  BY DEF Replays, ghosts
<1>2. /\ InTurn(requests[r]) /\ Len(inLine) >= 1 /\ r = inLine[1]
      /\ edits = {} /\ branches[current] \in Histories /\ current \in Branches
      /\ Doing(requests[r], branches[current], current)
      /\ \E a \in proved : a.token = requests[r].token /\ a.source = requests[r].source
  BY <1>1, Known DEF Rewriting
<1>3. ASSUME NEW commit \in {program[k], {0}},
             branches' = [branches EXCEPT ![current] = Append(@, commit)],
             requests' = [requests EXCEPT ![r].next = @ + 1,
                            ![r].at = IF requests[r].next = Len(program)
                                      THEN "compare" ELSE "replay"]
      PROVE  Undisturbed'
  <2> DEFINE at == IF requests[r].next = Len(program) THEN "compare" ELSE "replay"
             new == [requests[r] EXCEPT !.next = @ + 1, !.at = at]
             more == Append(branches[current], commit)
  <2>1. /\ new.at = at /\ new.next = k + 1 /\ new.token = requests[r].token
        /\ new.source = requests[r].source /\ new.edit = requests[r].edit
    BY DEF Shape, IsRequest, Fields
  <2>2. requests' = [requests EXCEPT ![r] = new]
    BY <1>3
  <2> HIDE DEF new
  <2>3. /\ current = requests[r].source.ref
        /\ head \in Histories /\ OnTop(head) /\ 0 \notin Files(head)
        /\ k \in 1 .. Len(program)
        /\ Partly(branches[current], head, program, k - 1)
    BY <1>1, <1>2 DEF Doing, Rewriting
  <2>4. program \in Histories /\ Len(program) \in Nat
        /\ \A i \in 1 .. Len(program) : program[i] \subseteq Files(Selected)
    BY ProgramIs, SelectionIs
  <2>5. more \in Histories /\ Partly(more, head, program, k)
    <3>1. commit \in {program[k], {0}} /\ branches[current] \in Histories
      BY <1>2, <1>3
    <3> HIDE DEF program, head, k
    <3> QED BY <2>3, <2>4, <3>1, PartlyMore
  <2>6. commit \in SUBSET Nat
    BY <1>3, <2>3, <2>4 DEF Histories
  <2>7. \A x : x \in Files(branches[current]) => x \in Files(more)
    BY <1>2, <2>6, CommitMore
  <2>8. k \in 0 .. Len(program)
    BY <2>3, <2>4
  <2>9. OnTop(more) => 0 \notin Files(more)
    BY <2>3, <2>5, <2>8, PartlyZero
  <2> HIDE DEF more
  <2>10. branches' = [branches EXCEPT ![current] = more]
    BY <1>3 DEF more
  <2>11. EditTypes' /\ ZeroNotBelow' /\ WorkKept'
    BY <1>1, <1>2, <2>5, <2>7, <2>9, <2>10, BranchMoves
  <2>12. branches'[current'] = more
    BY <1>1, <2>10 DEF Undisturbed, EditTypes
  <2>13. at \in {"compare", "replay"}
    OBVIOUS
  <2>14. TakesTurns'
    BY <1>1, <1>2, <2>1, <2>2, <2>13, LineKept DEF Undisturbed
  <2>15. Doing(new, branches'[current'], current')
    <3>1. CASE k = Len(program)
      BY <1>1, <2>1, <2>3, <2>5, <2>12, <3>1 DEF Doing
    <3>2. CASE k # Len(program)
      <4>1. k + 1 \in 1 .. Len(program) /\ (k + 1) - 1 = k
        BY <2>3, <2>4, <3>2
      <4> QED BY <1>1, <2>1, <2>3, <2>5, <2>12, <3>2, <4>1 DEF Doing
    <3> QED BY <3>1, <3>2
  <2>16. new.at \in {"queued", "expected", "settled"} \cup Rewriting =>
           \E a \in proved : a.token = new.token /\ a.source = new.source
    BY <1>2, <2>1
  <2> HIDE DEF at
  <2> QED BY <1>1, <1>2, <2>2, <2>11, <2>14, <2>15, <2>16, RequestStep
<1>4. ASSUME NEW answer, branches' = branches,
             requests' = [requests EXCEPT ![r].at = "restore", ![r].answer = answer]
      PROVE  Undisturbed'
  <2>1. \E new : /\ requests' = [requests EXCEPT ![r] = new]
                 /\ new.at = "restore" /\ new.token = requests[r].token
                 /\ new.source = requests[r].source
    BY <1>4, FailingIs
  <2> QED BY <1>1, <1>4, <2>1, FailingKeeps
<1> QED
  BY <1>3, <1>4 DEF Replays

(* The comparison of trees ends the request or rolls it back. *)
LEMMA ComparesKeeps ==
  ASSUME Shape, Undisturbed, NEW r \in Requests, ComparesTree(r)
  PROVE  Undisturbed'
<1>1. requests[r].at = "compare" /\ UNCHANGED <<branches, current, edits, outside, proved>>
  BY DEF ComparesTree, checkout
<1>2. Len(inLine) >= 1 /\ r = inLine[1]
  BY <1>1, Known DEF Rewriting
<1>3. CASE EndsOperation(r)
  BY <1>1, <1>2, <1>3, EndingKeeps
<1>4. ASSUME NEW answer, inLine' = inLine,
             requests' = [requests EXCEPT ![r].at = "restore", ![r].answer = answer]
      PROVE  Undisturbed'
  <2>1. \E new : /\ requests' = [requests EXCEPT ![r] = new]
                 /\ new.at = "restore" /\ new.token = requests[r].token
                 /\ new.source = requests[r].source
    BY <1>4, FailingIs
  <2> QED BY <1>1, <1>4, <2>1, FailingKeeps
<1> QED
  BY <1>3, <1>4 DEF ComparesTree

(* The rollback puts back what was checked, which has the work of others.            *)
LEMMA RestoresKeeps ==
  ASSUME Shape, Undisturbed, NEW r \in Requests, Restores(r)
  PROVE  Undisturbed'
<1> DEFINE head == requests[r].source.head
<1>1. /\ requests[r].at = "restore" /\ UNCHANGED <<current, outside, proved>>
      /\ inLine' = Tail(inLine)
  BY DEF Restores, Releases, ghosts
<1>2. /\ InTurn(requests[r]) /\ Len(inLine) >= 1 /\ r = inLine[1]
      /\ edits = {} /\ branches[current] \in Histories
      /\ Doing(requests[r], branches[current], current)
  BY <1>1, Known DEF Rewriting
<1>3. CASE branches' = [branches EXCEPT ![current] = head] /\ edits' = {} /\ Ends(r)
  <2>1. requests' = [requests EXCEPT ![r] = NoRequest] /\ NoRequest.at = "none"
    BY <1>3 DEF Ends, NoRequest
  <2>2. ~ InTurn(NoRequest) /\ NoRequest.at \notin {"queued", "expected", "settled"} \cup Rewriting
    BY <2>1 DEF InTurn, Rewriting
  <2>3. TakesTurns'
    BY <1>1, <1>2, <2>1, <2>2, LineReleased DEF Undisturbed
  <2>4. /\ head \in Histories /\ 0 \notin Files(head)
        /\ Files(branches[current]) \subseteq Files(head) \cup {0}
    BY <1>1, <1>2 DEF Doing, Rewriting
  <2> HIDE DEF head
  <2>5. EditTypes' /\ ZeroNotBelow' /\ WorkKept'
    BY <1>1, <1>2, <1>3, <2>4, BranchMoves
  <2>6. Doing(NoRequest, branches'[current'], current')
    BY <2>1 DEF Doing, Rewriting
  <2> QED BY <1>1, <1>2, <1>3, <2>1, <2>2, <2>3, <2>5, <2>6, RequestStep
<1>4. CASE Goes(r, "unrestored") /\ UNCHANGED <<branches, edits>>
  <2> DEFINE new == [requests[r] EXCEPT !.at = "unrestored"]
  <2>1. new.at = "unrestored"
    BY DEF Shape, IsRequest, Fields
  <2>2. requests' = [requests EXCEPT ![r] = new]
    BY <1>4 DEF Goes
  <2> HIDE DEF new
  <2> QED BY <1>1, <1>2, <1>4, <2>1, <2>2, IdleStep DEF Rewriting
<1> QED BY <1>3, <1>4 DEF Restores
-----------------------------------------------------------------------------
(* The steps of outsiders *)

(* No rewrite is past its last look, and none looks at what has changed. *)
LEMMA OutsiderStep ==
  ASSUME Undisturbed, UNCHANGED <<requests, inLine, proved>>,
         EditTypes', ZeroNotBelow', WorkKept',
         \A r \in Requests : requests[r].at \notin Rewriting,
         edits' \subseteq edits \/ \A r \in Requests : ~ InTurn(requests[r])
  PROVE  Undisturbed'
<1>1. TakesTurns'
  BY DEF Undisturbed, TakesTurns, InTurn
<1>2. CleanInTurn'
  BY DEF Undisturbed, CleanInTurn, InTurn
<1>3. AllApproved'
  BY DEF Undisturbed, AllApproved, Approved
<1>4. AllDoing'
  BY DEF AllDoing, Doing
<1> QED BY <1>1, <1>2, <1>3, <1>4 DEF Undisturbed

(* What an outsider does is new, and comes last. *)
LEMMA OutsideGrows ==
  ASSUME EditTypes, NEW x, x = 0 \/ x = NextChange, outside' = Append(outside, x)
  PROVE  /\ x \in Nat /\ NextChange \in Nat
         /\ NextChange > Cardinality(Files(Selected))
         /\ outside' \in Seq(Nat)
         /\ \A i \in 1 .. Len(outside') :
              \/ i \in 1 .. Len(outside) /\ outside'[i] = outside[i]
              \/ outside'[i] = x
         /\ \A i \in 1 .. Len(outside') :
              outside'[i] = 0 \/ outside'[i] > Cardinality(Files(Selected))
<1>1. Cardinality(Files(Selected)) \in Nat /\ Len(outside) \in Nat
  BY SelectionIs DEF EditTypes
<1>2. x \in Nat /\ NextChange \in Nat /\ NextChange > Cardinality(Files(Selected))
  BY <1>1 DEF NextChange
<1> HIDE DEF NextChange
<1>3. /\ outside' \in Seq(Nat) /\ Len(outside') = Len(outside) + 1
      /\ outside'[Len(outside) + 1] = x
      /\ \A i \in 1 .. Len(outside) : outside'[i] = outside[i]
  BY <1>2 DEF EditTypes
<1>4. ASSUME NEW i \in 1 .. Len(outside')
      PROVE  \/ i \in 1 .. Len(outside) /\ outside'[i] = outside[i]
             \/ outside'[i] = x
  <2>1. i \in 1 .. Len(outside) \/ i = Len(outside) + 1
    BY <1>1, <1>3
  <2> QED BY <1>3, <2>1
<1>5. \A i \in 1 .. Len(outside') :
        outside'[i] = 0 \/ outside'[i] > Cardinality(Files(Selected))
  BY <1>2, <1>4 DEF EditTypes
<1> QED BY <1>2, <1>3, <1>4, <1>5

(* An edit by an outsider, where the program still looks. *)
LEMMA EditsKeep ==
  ASSUME Undisturbed, ~ PastStatus, OutsiderEdits
  PROVE  Undisturbed'
<1>1. /\ edits' = edits \cup {NextChange} /\ outside' = Append(outside, NextChange)
      /\ UNCHANGED <<branches, current, requests, inLine, proved>>
  BY DEF OutsiderEdits
<1>2. \A r \in Requests : ~ InTurn(requests[r]) /\ requests[r].at \notin Rewriting
  BY DEF PastStatus, InTurn, Rewriting
<1> DEFINE x == NextChange
<1>3. /\ x \in Nat /\ outside' \in Seq(Nat)
      /\ \A i \in 1 .. Len(outside') :
           \/ i \in 1 .. Len(outside) /\ outside'[i] = outside[i]
           \/ outside'[i] = x
      /\ \A i \in 1 .. Len(outside') :
           outside'[i] = 0 \/ outside'[i] > Cardinality(Files(Selected))
  BY <1>1, OutsideGrows DEF Undisturbed
<1> HIDE DEF x
<1>4. edits' = edits \cup {x}
  BY <1>1 DEF x
<1>5. EditTypes'
  BY <1>1, <1>3, <1>4 DEF Undisturbed, EditTypes
<1>6. ZeroNotBelow'
  BY <1>1 DEF Undisturbed, ZeroNotBelow, OnTop, Files
<1>7. WorkKept'
  BY <1>1, <1>3, <1>4 DEF Undisturbed, WorkKept
<1> QED BY <1>1, <1>2, <1>5, <1>6, <1>7, OutsiderStep

(* A commit of an outsider is on top of the branch, which ends in the selection no    *)
(* longer.                                                                         *)
LEMMA CommitsKeep ==
  ASSUME Undisturbed, ~ PastSource, OutsiderCommits
  PROVE  Undisturbed'
<1> DEFINE x == NextChange
           commit == edits \cup {x}
           h == branches[current]
           more == Append(h, commit)
<1>1. /\ branches' = [branches EXCEPT ![current] = more]
      /\ edits' = {} /\ outside' = Append(outside, x)
      /\ UNCHANGED <<current, requests, inLine, proved>>
  BY DEF OutsiderCommits
<1>2. \A r \in Requests : requests[r].at \notin Rewriting
  BY DEF PastSource, Rewriting
<1>3. /\ x \in Nat /\ x > Cardinality(Files(Selected)) /\ outside' \in Seq(Nat)
      /\ \A i \in 1 .. Len(outside') :
           \/ i \in 1 .. Len(outside) /\ outside'[i] = outside[i]
           \/ outside'[i] = x
      /\ \A i \in 1 .. Len(outside') :
           outside'[i] = 0 \/ outside'[i] > Cardinality(Files(Selected))
  BY <1>1, OutsideGrows DEF Undisturbed
<1> HIDE DEF x
<1>4. commit \in SUBSET Nat /\ x \in commit /\ edits \subseteq commit
      /\ h \in Histories /\ current \in Branches
  BY <1>3 DEF Undisturbed, EditTypes
<1> HIDE DEF commit, h
<1>5. /\ more \in Histories /\ Len(more) = Len(h) + 1 /\ Len(h) \in Nat
      /\ more[Len(h) + 1] = commit
      /\ \A y : y \in Files(more) <=> y \in Files(h) \/ y \in commit
  BY <1>4, CommitMore DEF Histories
<1> HIDE DEF more
<1>6. /\ branches' \in [Branches -> Histories] /\ branches'[current] = more
      /\ \A b \in Branches : b # current => branches'[b] = branches[b]
  BY <1>1, <1>4, <1>5 DEF Undisturbed, EditTypes
<1>7. ~ OnTop(more)
  <2> SUFFICES ASSUME OnTop(more) PROVE FALSE
    OBVIOUS
  <2> DEFINE s == Len(Selected)
  <2>1. /\ s \in Nat /\ s >= 1 /\ Selected \in Histories
        /\ \A y \in Files(Selected) : y <= Cardinality(Files(Selected))
        /\ Cardinality(Files(Selected)) \in Nat
    BY SelectionIs
  <2>2. \A j \in 1 .. s : more[Len(more) - s + j] = Selected[j]
    BY <1>5, OnTopIs
  <2> HIDE DEF s
  <2>3. s \in 1 .. s /\ Len(more) - s + s = Len(h) + 1
    BY <1>5, <2>1
  <2>4. Selected[s] = commit
    BY <1>5, <2>2, <2>3
  <2>5. x \in Files(Selected)
    BY <1>4, <2>1, <2>3, <2>4, InFiles DEF s
  <2> QED BY <1>3, <2>1, <2>5
<1>8. EditTypes'
  BY <1>1, <1>3, <1>6 DEF Undisturbed, EditTypes
<1>9. ZeroNotBelow'
  <2> SUFFICES ASSUME NEW b \in Branches
               PROVE  OnTop(branches'[b]) => 0 \notin Files(branches'[b])
    BY DEF ZeroNotBelow, OnTop, Files
  <2> QED BY <1>6, <1>7 DEF Undisturbed, ZeroNotBelow
<1>10. WorkKept'
  <2> SUFFICES ASSUME NEW i \in 1 .. Len(outside'), outside'[i] # 0
               PROVE  \E b \in Branches : outside'[i] \in Files(branches'[b])
    BY DEF WorkKept, Files
  <2>1. CASE outside'[i] = x
    BY <1>4, <1>5, <1>6, <2>1
  <2>2. CASE i \in 1 .. Len(outside) /\ outside'[i] = outside[i]
    <3>1. CASE outside[i] \in edits
      BY <1>4, <1>5, <1>6, <2>2, <3>1
    <3>2. CASE \E b \in Branches : outside[i] \in Files(branches[b])
      <4>1. PICK b \in Branches : outside[i] \in Files(branches[b])
        BY <3>2
      <4>2. outside[i] \in Files(branches'[b])
        BY <1>5, <1>6, <4>1 DEF h
      <4> QED BY <2>2, <4>2
    <3> QED BY <2>2, <3>1, <3>2 DEF Undisturbed, WorkKept
  <2> QED BY <1>3, <2>1, <2>2
<1> QED BY <1>1, <1>2, <1>8, <1>9, <1>10, OutsiderStep

(* A switch, or an undo that takes off the app's own commits only. *)
LEMMA MovesKeep ==
  ASSUME Undisturbed, ~ PastSource, OutsiderMoves
  PROVE  Undisturbed'
<1>1. /\ outside' = Append(outside, 0)
      /\ UNCHANGED <<edits, requests, inLine, proved>>
  BY DEF OutsiderMoves
<1>2. \A r \in Requests : requests[r].at \notin Rewriting
  BY DEF PastSource, Rewriting
<1>3. /\ outside' \in Seq(Nat)
      /\ \A i \in 1 .. Len(outside') :
           \/ i \in 1 .. Len(outside) /\ outside'[i] = outside[i]
           \/ outside'[i] = 0
      /\ \A i \in 1 .. Len(outside') :
           outside'[i] = 0 \/ outside'[i] > Cardinality(Files(Selected))
  BY <1>1, OutsideGrows DEF Undisturbed
<1>4. \/ current' \in Branches /\ branches' = branches
      \/ /\ Files(branches[current]) \subseteq Files(Selected)
         /\ branches' = [branches EXCEPT ![current] = Selected]
         /\ current' = current
  BY DEF OutsiderMoves
<1>5. EditTypes'
  BY <1>1, <1>3, <1>4, SelectionIs DEF Undisturbed, EditTypes
<1>6. \A b \in Branches : branches'[b] = branches[b] \/ branches'[b] = Selected
  BY <1>4 DEF Undisturbed, EditTypes
<1>7. ZeroNotBelow'
  <2> SUFFICES ASSUME NEW b \in Branches
               PROVE  OnTop(branches'[b]) => 0 \notin Files(branches'[b])
    BY DEF ZeroNotBelow, OnTop, Files
  <2> QED BY <1>6, SelectionIs DEF Undisturbed, ZeroNotBelow
<1>8. WorkKept'
  <2> SUFFICES ASSUME NEW i \in 1 .. Len(outside'), outside'[i] # 0
               PROVE  \/ outside'[i] \in edits'
                      \/ \E b \in Branches : outside'[i] \in Files(branches'[b])
    BY DEF WorkKept, Files
  <2>1. i \in 1 .. Len(outside) /\ outside'[i] = outside[i]
    BY <1>3
  <2>2. outside[i] \in Nat /\ outside[i] > Cardinality(Files(Selected))
    BY <2>1 DEF Undisturbed, EditTypes
  <2>3. outside[i] \notin Files(Selected)
    BY <2>2, SelectionIs
  <2>4. CASE outside[i] \in edits
    BY <1>1, <2>1, <2>4
  <2>5. CASE \E b \in Branches : outside[i] \in Files(branches[b])
    <3>1. PICK b \in Branches : outside[i] \in Files(branches[b])
      BY <2>5
    <3>2. branches'[b] = branches[b]
      BY <1>4, <2>3, <3>1 DEF Undisturbed, EditTypes
    <3> QED BY <2>1, <3>1, <3>2
  <2> QED BY <2>1, <2>4, <2>5 DEF Undisturbed, WorkKept
<1> QED BY <1>1, <1>2, <1>5, <1>7, <1>8, OutsiderStep

-----------------------------------------------------------------------------
(* Every step keeps the invariant of an undisturbed history. *)
LEMMA EditInvNext ==
  ASSUME TokenInv, EditInv, [HistoryEditNext]_editVars
  PROVE  EditInv'
<1> SUFFICES ASSUME ~ meddled' PROVE Undisturbed'
  BY DEF EditInv
<1>1. CASE OutsiderEdits
  <2>1. ~ meddled /\ ~ PastStatus
    BY <1>1 DEF OutsiderEdits
  <2> QED BY <1>1, <2>1, EditsKeep DEF EditInv
<1>2. CASE OutsiderCommits
  <2>1. ~ meddled /\ ~ PastSource
    BY <1>2 DEF OutsiderCommits
  <2> QED BY <1>2, <2>1, CommitsKeep DEF EditInv
<1>3. CASE OutsiderMoves
  <2>1. ~ meddled /\ ~ PastSource
    BY <1>3 DEF OutsiderMoves
  <2> QED BY <1>3, <2>1, MovesKeep DEF EditInv
<1>4. CASE (\E approval \in approvals : RefusesApply(approval)) \/ UNCHANGED editVars
  <2>1. UNCHANGED <<branches, current, edits, requests, inLine, proved, outside, meddled>>
    BY <1>4 DEF RefusesApply, editVars, checkout, ghosts
  <2>2. Undisturbed
    BY <2>1 DEF EditInv
  <2>3. EditTypes' /\ ZeroNotBelow' /\ WorkKept'
    BY <2>1, <2>2 DEF Undisturbed, EditTypes, ZeroNotBelow, WorkKept, OnTop, Files
  <2>4. TakesTurns' /\ CleanInTurn'
    BY <2>1, <2>2 DEF Undisturbed, TakesTurns, CleanInTurn, InTurn
  <2>5. AllApproved'
    BY <2>1, <2>2 DEF Undisturbed, AllApproved, Approved
  <2>6. AllDoing'
    BY <2>1, <2>2 DEF Undisturbed, AllDoing, Doing, Partly
  <2> QED BY <2>3, <2>4, <2>5, <2>6 DEF Undisturbed
<1>5. ASSUME NEW r \in Requests,
             \/ \E edit \in {"squash", "reorder"} : AsksCheck(r, edit)
             \/ \E approval \in approvals, signed \in BOOLEAN : AsksApply(r, approval, signed)
             \/ ReadsStatus(r) \/ ReadsSource(r) \/ ReadsSourceAgain(r) \/ Simulates(r)
             \/ ReadsStatusToApply(r) \/ ReadsSourceToApply(r) \/ ReadsSourceAgainToApply(r)
             \/ ResetsToBase(r) \/ Replays(r) \/ ComparesTree(r) \/ Restores(r)
             \/ AnswersUnrestored(r)
      PROVE  Undisturbed'
  <2>1. meddled' = meddled
    BY <1>5 DEF AsksCheck, AsksApply, ReadsStatus, ReadsSource, ReadsSourceAgain, Simulates,
                ReadsStatusToApply, ReadsSourceToApply, ReadsSourceAgainToApply,
                ResetsToBase, Replays, ComparesTree, Restores, AnswersUnrestored, ghosts
  <2>2. Undisturbed /\ Shape
    BY <2>1 DEF EditInv, TokenInv
  <2>3. CASE \/ \E edit \in {"squash", "reorder"} : AsksCheck(r, edit)
             \/ ReadsStatus(r) \/ ReadsSource(r) \/ ReadsSourceAgain(r)
             \/ Simulates(r) \/ AnswersUnrestored(r)
    BY <2>2, <2>3, CheckKeeps
  <2>4. CASE \E approval \in approvals, signed \in BOOLEAN : AsksApply(r, approval, signed)
    BY <2>2, <2>4, AsksKeeps
  <2>5. CASE ReadsStatusToApply(r) \/ ReadsSourceToApply(r) \/ ReadsSourceAgainToApply(r)
    BY <2>2, <2>5, PreflightKeeps
  <2>6. CASE ResetsToBase(r)
    BY <2>2, <2>6, ResetsKeeps
  <2>7. CASE Replays(r)
    BY <2>2, <2>7, ReplaysKeeps
  <2>8. CASE ComparesTree(r)
    BY <2>2, <2>8, ComparesKeeps
  <2>9. CASE Restores(r)
    BY <2>2, <2>9, RestoresKeeps
  <2> QED BY <1>5, <2>3, <2>4, <2>5, <2>6, <2>7, <2>8, <2>9
<1> QED
  BY <1>1, <1>2, <1>3, <1>4, <1>5 DEF HistoryEditNext

(* How far a rewrite is with the branch, and that the work of others is on one, at    *)
(* every step (rebase-assistant.ts: rewriteHistory and its rollback).               *)
THEOREM EditInvariant == HistoryEditSpec => []EditInv
<1>1. HistoryEditInit => EditInv
  BY EditInvInit DEF EditInv
<1>2. TokenInv /\ EditInv /\ [HistoryEditNext]_editVars => EditInv'
  BY EditInvNext
<1> QED
  BY <1>1, <1>2, TokenInvariant, PTL DEF HistoryEditSpec

(* What agents commit or edit beside a rewrite is neither reset away nor lost with a  *)
(* branch, as long as nobody acts behind the last look (rebase-handlers.ts: the       *)
(* status and the source that are read again under the lock).                       *)
THEOREM OthersWorkSurvives == HistoryEditSpec => []OutsideWorkSurvives
<1>1. EditInv => OutsideWorkSurvives
  <2> SUFFICES ASSUME EditInv, ~ meddled, NEW x \in ToSet(outside) \ {0}
               PROVE  x \in edits \cup UNION {Files(branches[b]) : b \in Branches}
    BY DEF OutsideWorkSurvives
  <2>1. WorkKept /\ outside \in Seq(Nat)
    BY DEF EditInv, Undisturbed, EditTypes
  <2>2. PICK i \in 1 .. Len(outside) : outside[i] = x
    BY <2>1 DEF ToSet
  <2> QED BY <2>1, <2>2 DEF WorkKept
<1> QED
  BY <1>1, EditInvariant, PTL

-----------------------------------------------------------------------------
(* All or nothing *)

(* What EditedAsChecked asks of a step. *)
EndsAsChecked ==
  \A r \in Requests :
    /\ requests[r].at \in {"compare", "restore"} /\ requests'[r].at = "none"
    /\ ~ meddled
    => /\ \E a \in proved : a.token = requests[r].token /\ a.source = requests[r].source
       /\ current = requests[r].source.ref
       /\ branches'[current] =
            IF requests[r].at = "compare"
            THEN BaseOf(requests[r].source.head) \o Program(requests[r].edit, Selected)
            ELSE requests[r].source.head

(* A request in the middle of a rewrite is changed by nobody else's step. *)
LEMMA OnlyItsStepEnds ==
  ASSUME TokenInv, HistoryEditNext, NEW r \in Requests,
         requests[r].at \in {"compare", "restore"}, requests'[r].at = "none"
  PROVE  ComparesTree(r) \/ Restores(r)
<1>1. Shape
  BY DEF TokenInv
<1>2. ASSUME NEW q \in Requests, NEW new, requests' = [requests EXCEPT ![q] = new]
      PROVE  q = r
  <2>1. q # r => requests'[r] = requests[r]
    BY <1>1, <1>2, OthersSame
  <2> QED BY <2>1
<1>3. requests' # requests
  OBVIOUS
<1>4. PICK q \in Requests :
        \/ \E edit \in {"squash", "reorder"} : AsksCheck(q, edit)
        \/ \E approval \in approvals, signed \in BOOLEAN : AsksApply(q, approval, signed)
        \/ ReadsStatus(q) \/ ReadsSource(q) \/ ReadsSourceAgain(q) \/ Simulates(q)
        \/ ReadsStatusToApply(q) \/ ReadsSourceToApply(q) \/ ReadsSourceAgainToApply(q)
        \/ ResetsToBase(q) \/ Replays(q) \/ ComparesTree(q) \/ Restores(q)
        \/ AnswersUnrestored(q)
  BY <1>3 DEF HistoryEditNext, RefusesApply, OutsiderEdits, OutsiderCommits, OutsiderMoves
<1>5. \E new : requests' = [requests EXCEPT ![q] = new]
  <2>1. CASE \/ \E edit \in {"squash", "reorder"} : AsksCheck(q, edit)
             \/ \E approval \in approvals, signed \in BOOLEAN : AsksApply(q, approval, signed)
             \/ ReadsSource(q) \/ Simulates(q) \/ ResetsToBase(q) \/ Replays(q)
             \/ ComparesTree(q)
    BY <2>1 DEF AsksCheck, AsksApply, ReadsSource, Simulates, ResetsToBase, Replays,
                ComparesTree, EndsOperation, Ends
  <2>2. CASE \/ ReadsStatus(q) \/ ReadsSourceAgain(q) \/ Restores(q) \/ AnswersUnrestored(q)
             \/ ReadsStatusToApply(q) \/ ReadsSourceToApply(q) \/ ReadsSourceAgainToApply(q)
    BY <2>2 DEF ReadsStatus, ReadsSourceAgain, Restores, AnswersUnrestored,
                ReadsStatusToApply, ReadsSourceToApply, ReadsSourceAgainToApply,
                GoesOn, Goes, EndsOperation, Ends
  <2> QED BY <1>4, <2>1, <2>2
<1>6. q = r
  BY <1>2, <1>5
<1> QED
  BY <1>4, <1>6 DEF AsksCheck, AsksApply, ReadsStatus, ReadsSource, ReadsSourceAgain,
    Simulates, ReadsStatusToApply, ReadsSourceToApply, ReadsSourceAgainToApply,
    ResetsToBase, Replays, AnswersUnrestored

(* Who ends at the comparison or after a rollback has the program, or the branch as it was. *)
LEMMA EndingStep ==
  ASSUME TokenInv, EditInv, [HistoryEditNext]_editVars
  PROVE  EndsAsChecked
<1> SUFFICES ASSUME NEW r \in Requests, requests[r].at \in {"compare", "restore"},
                    requests'[r].at = "none", ~ meddled
             PROVE  /\ \E a \in proved : a.token = requests[r].token
                                         /\ a.source = requests[r].source
                    /\ current = requests[r].source.ref
                    /\ branches'[current] =
                         IF requests[r].at = "compare"
                         THEN BaseOf(requests[r].source.head)
                                \o Program(requests[r].edit, Selected)
                         ELSE requests[r].source.head
  BY DEF EndsAsChecked
<1> DEFINE head == requests[r].source.head
           program == Program(requests[r].edit, Selected)
<1>1. Undisturbed /\ Shape
  BY DEF EditInv, TokenInv
<1>2. /\ current \in Branches /\ branches[current] \in Histories
      /\ Doing(requests[r], branches[current], current)
      /\ \E a \in proved : a.token = requests[r].token /\ a.source = requests[r].source
  BY <1>1, Known DEF Rewriting
<1>3. /\ current = requests[r].source.ref
      /\ head \in Histories /\ OnTop(head) /\ 0 \notin Files(head)
  BY <1>2 DEF Doing, Rewriting
<1>4. HistoryEditNext
  BY DEF editVars
<1>5. ComparesTree(r) \/ Restores(r)
  BY <1>4, OnlyItsStepEnds
<1>6. CASE ComparesTree(r)
  <2>1. requests[r].at = "compare" /\ branches' = branches
    BY <1>6 DEF ComparesTree, checkout
  <2>2. SameTree(r)
    <3>1. ASSUME NEW answer,
                 requests' = [requests EXCEPT ![r].at = "restore", ![r].answer = answer]
          PROVE  FALSE
      <4>1. PICK new : requests' = [requests EXCEPT ![r] = new] /\ new.at = "restore"
        BY <1>1, <3>1, FailingIs
      <4>2. requests'[r] = new
        BY <1>1, <4>1, OthersSame
      <4> QED BY <4>1, <4>2
    <3> QED BY <1>6, <3>1 DEF ComparesTree
  <2>3. 0 \notin Files(branches[current])
    BY <1>3, <2>2 DEF SameTree
  <2>4. Partly(branches[current], head, program, Len(program))
    BY <1>2, <2>1 DEF Doing, Rewriting
  <2>5. branches[current] = BaseOf(head) \o program
    BY <1>2, <1>3, <2>3, <2>4, PartlyWhole
  <2> QED BY <1>2, <1>3, <2>1, <2>5
<1>7. CASE Restores(r)
  <2>1. requests[r].at = "restore"
    BY <1>7 DEF Restores
  <2>2. branches' = [branches EXCEPT ![current] = head]
    <3>1. ASSUME Goes(r, "unrestored") PROVE FALSE
      <4>1. requests'[r].at = "unrestored"
        BY <1>1, <3>1 DEF Goes, Shape, IsRequest, Fields
      <4> QED BY <4>1
    <3> QED BY <1>7, <3>1 DEF Restores
  <2>3. branches'[current] = head
    BY <1>1, <1>2, <2>2 DEF Undisturbed, EditTypes
  <2> QED BY <1>2, <1>3, <2>1, <2>3
<1> QED BY <1>5, <1>6, <1>7

(* "Applied" means that exactly the checked program is on the old base, any other     *)
(* answer that the branch is as it was checked: a rewrite is all or nothing, although *)
(* its commits are made one by one and filters and hooks may change each of them.    *)
THEOREM AllOrNothing == HistoryEditSpec => EditedAsChecked
<1>1. TokenInv /\ EditInv /\ [HistoryEditNext]_editVars => [EndsAsChecked]_editVars
  BY EndingStep
<1>2. EditedAsChecked <=> [][EndsAsChecked]_editVars
  BY PTL DEF EditedAsChecked, EndsAsChecked
<1> QED
  BY <1>1, <1>2, TokenInvariant, EditInvariant, PTL DEF HistoryEditSpec

-----------------------------------------------------------------------------
(* Deleting finished branches *)

CleanupSteps == {"idle", "review", "merged", "holders", "sections", "chunk",
                 "transact", "retry", "wipe", "done"}

CleanupTypeOK ==
  /\ cleanup \in [at : CleanupSteps, todo : SUBSET Finished, chunk : SUBSET Finished,
                  wiping : SUBSET Finished, configured : SUBSET Finished,
                  first : BOOLEAN, canceled : BOOLEAN]
  /\ tips \in [Finished -> {0, 1, 2}]
  /\ sections \subseteq Finished
  /\ taken \subseteq Finished

(* No branch is put into a chunk before the holders were read. *)
NoChunkYet == cleanup.at \in {"idle", "review", "merged", "holders"} => cleanup.chunk = {}

(* From the last question about HEAD on, a branch still to go that was chosen as      *)
(* merged is in HEAD, or HEAD has moved since.                                     *)
Proven ==
  cleanup.at \notin {"idle", "review", "merged", "done"} =>
    \A b \in cleanup.todo \cup cleanup.chunk :
      evidence[b] = "ancestry" /\ b \notin inHead => "HEAD" \in late

(* The holders were read for the first chunk ... *)
FirstIsFree ==
  /\ cleanup.at \in {"transact", "retry", "wipe"} => ~ cleanup.first
  /\ cleanup.at \in {"sections", "chunk"} /\ cleanup.first =>
       \A b \in cleanup.todo : b \in occupied => b \in late

(* ... and again for every later one. *)
ChunkIsFree ==
  cleanup.at \in {"transact", "retry"} =>
    \A b \in cleanup.chunk : b \in occupied => b \in late

CleanupInv == CleanupTypeOK /\ NoChunkYet /\ Proven /\ FirstIsFree /\ ChunkIsFree

Reviewed(b) ==
  /\ tips[b] = 1
  /\ b \in occupied => b \in late
  /\ evidence[b] = "ancestry" /\ b \notin inHead => "HEAD" \in late

-----------------------------------------------------------------------------
(* Nothing has been looked at in the beginning. *)
LEMMA CleanupInvInit == CleanupInit => CleanupInv
<1> SUFFICES ASSUME CleanupInit PROVE CleanupInv
  OBVIOUS
<1> USE DEF CleanupInit, NoCleanup
<1>1. CleanupTypeOK
  BY DEF CleanupTypeOK, CleanupSteps
<1>2. NoChunkYet
  BY DEF NoChunkYet
<1>3. Proven /\ FirstIsFree /\ ChunkIsFree
  BY DEF Proven, FirstIsFree, ChunkIsFree
<1> QED
  BY <1>1, <1>2, <1>3 DEF CleanupInv

-----------------------------------------------------------------------------
(* Each step leaves behind what the looks before it have found. *)
LEMMA CleanupInvNext ==
  ASSUME CleanupInv, [CleanupNext]_cleanupVars
  PROVE  CleanupInv'
<1> USE BranchCleanupAssumption DEF CleanupInv, refs, cleanupGhosts
<1>1. CASE AsksCleanup
  <2> USE <1>1 DEF AsksCleanup, Moves
  <2>1. CleanupTypeOK'
    BY DEF CleanupTypeOK, CleanupSteps
  <2>2. NoChunkYet'
    BY DEF CleanupTypeOK, NoChunkYet
  <2>3. Proven'
    BY DEF CleanupTypeOK, NoChunkYet, Proven
  <2>4. FirstIsFree'
    BY DEF CleanupTypeOK, FirstIsFree
  <2>5. ChunkIsFree'
    BY DEF CleanupTypeOK, FirstIsFree, ChunkIsFree
  <2> QED
    BY <2>1, <2>2, <2>3, <2>4, <2>5
<1>2. CASE CancelsCleanup
  <2> USE <1>2 DEF CancelsCleanup
  <2>1. CleanupTypeOK'
    BY DEF CleanupTypeOK, CleanupSteps
  <2>2. NoChunkYet'
    BY DEF CleanupTypeOK, NoChunkYet
  <2>3. Proven'
    BY DEF CleanupTypeOK, NoChunkYet, Proven
  <2>4. FirstIsFree'
    BY DEF CleanupTypeOK, FirstIsFree
  <2>5. ChunkIsFree'
    BY DEF CleanupTypeOK, FirstIsFree, ChunkIsFree
  <2> QED
    BY <2>1, <2>2, <2>3, <2>4, <2>5
<1>3. CASE ReviewsAgain
  <2> DEFINE fresh == {b \in Finished : IsCandidate(b)}
  <2>0. /\ cleanup.at = "review"
        /\ UNCHANGED <<refs, evidence, cleanupGhosts>>
        /\ \/ cleanup' = [cleanup EXCEPT !.at = "done"]
           \/ cleanup' = [cleanup EXCEPT !.at = "merged", !.todo = fresh]
    BY <1>3 DEF ReviewsAgain, Moves
  <2>1. fresh \subseteq Finished
    OBVIOUS
  <2> HIDE DEF fresh
  <2>2. CleanupTypeOK'
    BY <2>0, <2>1 DEF CleanupTypeOK, CleanupSteps
  <2>3. NoChunkYet' /\ Proven' /\ FirstIsFree' /\ ChunkIsFree'
    BY <2>0 DEF CleanupTypeOK, NoChunkYet, Proven, FirstIsFree, ChunkIsFree
  <2> QED
    BY <2>2, <2>3
<1>4. CASE ReviewFails
  <2> USE <1>4 DEF ReviewFails, RefusesAll, Moves, Receives
  <2>1. CleanupTypeOK'
    BY DEF CleanupTypeOK, CleanupSteps
  <2>2. NoChunkYet'
    BY DEF CleanupTypeOK, NoChunkYet
  <2>3. Proven'
    BY DEF CleanupTypeOK, NoChunkYet, Proven
  <2>4. FirstIsFree'
    BY DEF CleanupTypeOK, FirstIsFree
  <2>5. ChunkIsFree'
    BY DEF CleanupTypeOK, FirstIsFree, ChunkIsFree
  <2> QED
    BY <2>1, <2>2, <2>3, <2>4, <2>5
<1>5. CASE AsksAncestry
  <2> USE <1>5 DEF AsksAncestry, StillUnproven, Receives
  <2>1. CleanupTypeOK'
    BY DEF CleanupTypeOK, CleanupSteps
  <2>2. NoChunkYet'
    BY DEF CleanupTypeOK, NoChunkYet
  <2>3. Proven'
    BY DEF CleanupTypeOK, NoChunkYet, Proven
  <2>4. FirstIsFree'
    BY DEF CleanupTypeOK, FirstIsFree
  <2>5. ChunkIsFree'
    BY DEF CleanupTypeOK, FirstIsFree, ChunkIsFree
  <2> QED
    BY <2>1, <2>2, <2>3, <2>4, <2>5
<1>6. CASE AncestryFails
  <2> USE <1>6 DEF AncestryFails, RefusesAll, Moves, Receives
  <2>1. CleanupTypeOK'
    BY DEF CleanupTypeOK, CleanupSteps
  <2>2. NoChunkYet'
    BY DEF CleanupTypeOK, NoChunkYet
  <2>3. Proven'
    BY DEF CleanupTypeOK, NoChunkYet, Proven
  <2>4. FirstIsFree'
    BY DEF CleanupTypeOK, FirstIsFree
  <2>5. ChunkIsFree'
    BY DEF CleanupTypeOK, FirstIsFree, ChunkIsFree
  <2> QED
    BY <2>1, <2>2, <2>3, <2>4, <2>5
<1>7. CASE ReadsHolders
  <2>0. /\ cleanup.at = "holders"
        /\ UNCHANGED <<refs, evidence, taken, touched, trouble, touches>>
        /\ late' = late \ Finished
        /\ \/ cleanup' = [cleanup EXCEPT !.at = "done"]
           \/ cleanup' = [cleanup EXCEPT !.at = "sections", !.todo = cleanup.todo \ occupied]
    BY <1>7 DEF ReadsHolders, Moves
  <2>1. "HEAD" \in late => "HEAD" \in late'
    BY <2>0
  <2>2. CleanupTypeOK'
    <3>1. cleanup.todo \ occupied \in SUBSET Finished
      BY DEF CleanupTypeOK
    <3> QED
      BY <2>0, <3>1 DEF CleanupTypeOK, CleanupSteps
  <2>3. NoChunkYet'
    BY <2>0 DEF CleanupTypeOK, NoChunkYet
  <2>4. Proven'
    <3>1. cleanup'.at # "done" =>
            cleanup'.todo = cleanup.todo \ occupied /\ cleanup'.chunk = cleanup.chunk
      BY <2>0 DEF CleanupTypeOK
    <3> QED
      BY <2>0, <2>1, <3>1 DEF Proven
  <2>5. FirstIsFree'
    <3>1. cleanup'.at = "sections" => cleanup'.todo = cleanup.todo \ occupied
      BY <2>0 DEF CleanupTypeOK
    <3>2. cleanup'.at \in {"sections", "done"} /\ occupied' = occupied
      BY <2>0 DEF CleanupTypeOK
    <3> QED
      BY <3>1, <3>2 DEF FirstIsFree
  <2>6. ChunkIsFree'
    BY <2>0 DEF CleanupTypeOK, ChunkIsFree
  <2> QED
    BY <2>2, <2>3, <2>4, <2>5, <2>6
<1>8. CASE HoldersRefused
  <2> USE <1>8 DEF HoldersRefused, RefusesAll, Moves, Receives
  <2>1. CleanupTypeOK'
    BY DEF CleanupTypeOK, CleanupSteps
  <2>2. NoChunkYet'
    BY DEF CleanupTypeOK, NoChunkYet
  <2>3. Proven'
    BY DEF CleanupTypeOK, NoChunkYet, Proven
  <2>4. FirstIsFree'
    BY DEF CleanupTypeOK, FirstIsFree
  <2>5. ChunkIsFree'
    BY DEF CleanupTypeOK, FirstIsFree, ChunkIsFree
  <2> QED
    BY <2>1, <2>2, <2>3, <2>4, <2>5
<1>9. CASE ReadsSections
  <2>0. PICK configured \in {sections, Finished} :
          cleanup' = [cleanup EXCEPT !.at = "chunk", !.configured = configured]
    BY <1>9 DEF ReadsSections
  <2>1. cleanup.at = "sections" /\ UNCHANGED <<refs, evidence, receipt, cleanupGhosts>>
    BY <1>9 DEF ReadsSections
  <2>2. CleanupTypeOK'
    <3>1. configured \in SUBSET Finished
      BY DEF CleanupTypeOK
    <3> QED
      BY <2>0, <2>1, <3>1 DEF CleanupTypeOK, CleanupSteps
  <2>3. NoChunkYet' /\ Proven' /\ FirstIsFree' /\ ChunkIsFree'
    BY <2>0, <2>1 DEF CleanupTypeOK, NoChunkYet, Proven, FirstIsFree, ChunkIsFree
  <2> QED
    BY <2>2, <2>3
<1>10. CASE EndsBatch
  <2> USE <1>10 DEF EndsBatch, Moves
  <2>1. CleanupTypeOK'
    BY DEF CleanupTypeOK, CleanupSteps
  <2>2. NoChunkYet'
    BY DEF CleanupTypeOK, NoChunkYet
  <2>3. Proven'
    BY DEF CleanupTypeOK, NoChunkYet, Proven
  <2>4. FirstIsFree'
    BY DEF CleanupTypeOK, FirstIsFree
  <2>5. ChunkIsFree'
    BY DEF CleanupTypeOK, FirstIsFree, ChunkIsFree
  <2> QED
    BY <2>1, <2>2, <2>3, <2>4, <2>5
<1>11. CASE StartsChunk
  <2>0. PICK chunk \in SUBSET cleanup.todo, listed \in BOOLEAN :
          /\ cleanup.first => listed
          /\ cleanup' = [cleanup EXCEPT !.at = "transact", !.todo = @ \ chunk,
                           !.chunk = chunk \ (IF listed THEN HeldByNow(chunk) ELSE chunk),
                           !.first = FALSE]
          /\ late' = IF cleanup.first THEN late ELSE late \ Finished
    BY <1>11 DEF StartsChunk
  <2> DEFINE going == chunk \ (IF listed THEN HeldByNow(chunk) ELSE chunk)
  <2>1. cleanup.at = "chunk" /\ UNCHANGED <<refs, evidence, taken, touched, touches>>
    BY <1>11 DEF StartsChunk
  <2>2. \A b \in going : b \in occupied => b \in late'
    <3>1. CASE cleanup.first
      BY <2>0, <2>1, <3>1 DEF FirstIsFree
    <3>2. CASE ~ cleanup.first
      BY <2>0, <3>2 DEF HeldByNow
    <3> QED
      BY <3>1, <3>2
  <2>3. cleanup' = [cleanup EXCEPT !.at = "transact", !.todo = cleanup.todo \ chunk,
                      !.chunk = going, !.first = FALSE]
    BY <2>0
  <2>4. going \subseteq cleanup.todo /\ cleanup.todo \subseteq Finished
    BY <2>0 DEF CleanupTypeOK
  <2>5. "HEAD" \in late => "HEAD" \in late'
    BY <2>0
  <2> HIDE DEF going
  <2>6. /\ cleanup'.at = "transact" /\ cleanup'.first = FALSE
        /\ cleanup'.todo = cleanup.todo \ chunk /\ cleanup'.chunk = going
    BY <2>3 DEF CleanupTypeOK
  <2>7. CleanupTypeOK'
    <3>1. going \in SUBSET Finished /\ cleanup.todo \ chunk \in SUBSET Finished
      BY <2>4
    <3> QED
      BY <2>1, <2>3, <3>1 DEF CleanupTypeOK, CleanupSteps
  <2>8. NoChunkYet' /\ FirstIsFree'
    BY <2>6 DEF NoChunkYet, FirstIsFree
  <2>9. Proven'
    BY <2>1, <2>4, <2>5, <2>6 DEF Proven
  <2>10. ChunkIsFree'
    BY <2>1, <2>2, <2>6 DEF ChunkIsFree
  <2> QED
    BY <2>7, <2>8, <2>9, <2>10
<1>12. CASE Transacts
  <2> USE <1>12 DEF Transacts, Deletes
  <2>1. CleanupTypeOK'
    BY DEF CleanupTypeOK, CleanupSteps
  <2>2. NoChunkYet'
    BY DEF CleanupTypeOK, NoChunkYet
  <2>3. Proven'
    BY DEF CleanupTypeOK, NoChunkYet, Proven
  <2>4. FirstIsFree'
    BY DEF CleanupTypeOK, FirstIsFree
  <2>5. ChunkIsFree'
    BY DEF CleanupTypeOK, FirstIsFree, ChunkIsFree
  <2> QED
    BY <2>1, <2>2, <2>3, <2>4, <2>5
<1>13. CASE TransactionRefused
  <2> USE <1>13 DEF TransactionRefused, Moves
  <2>1. CleanupTypeOK'
    BY DEF CleanupTypeOK, CleanupSteps
  <2>2. NoChunkYet'
    BY DEF CleanupTypeOK, NoChunkYet
  <2>3. Proven'
    BY DEF CleanupTypeOK, NoChunkYet, Proven
  <2>4. FirstIsFree'
    BY DEF CleanupTypeOK, FirstIsFree
  <2>5. ChunkIsFree'
    BY DEF CleanupTypeOK, FirstIsFree, ChunkIsFree
  <2> QED
    BY <2>1, <2>2, <2>3, <2>4, <2>5
<1>14. CASE TransactionFails
  <2> USE <1>14 DEF TransactionFails, Moves, Deletes
  <2>1. CleanupTypeOK'
    BY DEF CleanupTypeOK, CleanupSteps
  <2>2. NoChunkYet'
    BY DEF CleanupTypeOK, NoChunkYet
  <2>3. Proven'
    BY DEF CleanupTypeOK, NoChunkYet, Proven
  <2>4. FirstIsFree'
    BY DEF CleanupTypeOK, FirstIsFree
  <2>5. ChunkIsFree'
    BY DEF CleanupTypeOK, FirstIsFree, ChunkIsFree
  <2> QED
    BY <2>1, <2>2, <2>3, <2>4, <2>5
<1>15. CASE EndsChunk
  <2> USE <1>15 DEF EndsChunk, Moves
  <2>1. CleanupTypeOK'
    BY DEF CleanupTypeOK, CleanupSteps
  <2>2. NoChunkYet'
    BY DEF CleanupTypeOK, NoChunkYet
  <2>3. Proven'
    BY DEF CleanupTypeOK, NoChunkYet, Proven
  <2>4. FirstIsFree'
    BY DEF CleanupTypeOK, FirstIsFree
  <2>5. ChunkIsFree'
    BY DEF CleanupTypeOK, FirstIsFree, ChunkIsFree
  <2> QED
    BY <2>1, <2>2, <2>3, <2>4, <2>5
<1>16. ASSUME NEW b \in Finished, RetriesOne(b) PROVE CleanupInv'
  <2>0. /\ cleanup.at = "retry" /\ b \in cleanup.chunk
        /\ UNCHANGED <<sections, occupied, inHead, midway, evidence, late>>
    BY <1>16 DEF RetriesOne
  <2>1. /\ tips' \in [Finished -> {0, 1, 2}] /\ taken' \subseteq Finished
        /\ \/ cleanup' = [cleanup EXCEPT !.chunk = cleanup.chunk \ {b}, !.wiping = {b},
                            !.configured = cleanup.configured \cup {b}]
           \/ cleanup' = [cleanup EXCEPT !.chunk = cleanup.chunk \ {b}]
    <3>1. CASE DeletableAtTip(b)
      BY <1>16, <3>1 DEF RetriesOne, Deletes, CleanupTypeOK
    <3>2. CASE ~ DeletableAtTip(b)
      BY <1>16, <3>2 DEF RetriesOne, CleanupTypeOK
    <3> QED
      BY <3>1, <3>2
  <2>2. /\ cleanup'.at = "retry" /\ cleanup'.first = cleanup.first
        /\ cleanup'.todo = cleanup.todo /\ cleanup'.chunk = cleanup.chunk \ {b}
    BY <2>0, <2>1 DEF CleanupTypeOK
  <2>3. CleanupTypeOK'
    <3>1. /\ cleanup.chunk \ {b} \in SUBSET Finished /\ {b} \in SUBSET Finished
          /\ cleanup.configured \cup {b} \in SUBSET Finished
      BY DEF CleanupTypeOK
    <3> QED
      BY <2>0, <2>1, <3>1 DEF CleanupTypeOK, CleanupSteps
  <2>4. NoChunkYet' /\ FirstIsFree'
    BY <2>0, <2>2 DEF NoChunkYet, FirstIsFree
  <2>5. Proven'
    BY <2>0, <2>2 DEF Proven
  <2>6. ChunkIsFree'
    BY <2>0, <2>2 DEF ChunkIsFree
  <2> QED
    BY <2>3, <2>4, <2>5, <2>6
<1>17. ASSUME NEW b \in Finished, RetryFails(b) PROVE CleanupInv'
  <2> USE <1>17 DEF RetryFails, Receives
  <2>1. CleanupTypeOK'
    BY DEF CleanupTypeOK, CleanupSteps
  <2>2. NoChunkYet'
    BY DEF CleanupTypeOK, NoChunkYet
  <2>3. Proven'
    BY DEF CleanupTypeOK, NoChunkYet, Proven
  <2>4. FirstIsFree'
    BY DEF CleanupTypeOK, FirstIsFree
  <2>5. ChunkIsFree'
    BY DEF CleanupTypeOK, FirstIsFree, ChunkIsFree
  <2> QED
    BY <2>1, <2>2, <2>3, <2>4, <2>5
<1>18. ASSUME NEW b \in Finished, WipesConfig(b) PROVE CleanupInv'
  <2> USE <1>18 DEF WipesConfig, Receives
  <2>1. CleanupTypeOK'
    BY DEF CleanupTypeOK, CleanupSteps
  <2>2. NoChunkYet'
    BY DEF CleanupTypeOK, NoChunkYet
  <2>3. Proven'
    BY DEF CleanupTypeOK, NoChunkYet, Proven
  <2>4. FirstIsFree'
    BY DEF CleanupTypeOK, FirstIsFree
  <2>5. ChunkIsFree'
    BY DEF CleanupTypeOK, FirstIsFree, ChunkIsFree
  <2> QED
    BY <2>1, <2>2, <2>3, <2>4, <2>5
<1>19. ASSUME NEW b \in Finished, RestoresBranch(b) PROVE CleanupInv'
  <2> USE <1>19 DEF RestoresBranch
  <2>1. CleanupTypeOK'
    BY DEF CleanupTypeOK, CleanupSteps
  <2>2. NoChunkYet'
    BY DEF CleanupTypeOK, NoChunkYet
  <2>3. Proven'
    BY DEF CleanupTypeOK, NoChunkYet, Proven
  <2>4. FirstIsFree'
    BY DEF CleanupTypeOK, FirstIsFree
  <2>5. ChunkIsFree'
    BY DEF CleanupTypeOK, FirstIsFree, ChunkIsFree
  <2> QED
    BY <2>1, <2>2, <2>3, <2>4, <2>5
<1>20. ASSUME NEW b \in Finished, OutsiderPointsElsewhere(b) PROVE CleanupInv'
  <2> USE <1>20 DEF OutsiderPointsElsewhere, Touches
  <2>1. CleanupTypeOK'
    BY DEF CleanupTypeOK, CleanupSteps
  <2>2. NoChunkYet'
    BY DEF CleanupTypeOK, NoChunkYet
  <2>3. Proven'
    BY DEF CleanupTypeOK, NoChunkYet, Proven
  <2>4. FirstIsFree'
    BY DEF CleanupTypeOK, FirstIsFree
  <2>5. ChunkIsFree'
    BY DEF CleanupTypeOK, FirstIsFree, ChunkIsFree
  <2> QED
    BY <2>1, <2>2, <2>3, <2>4, <2>5
<1>21. ASSUME NEW b \in Finished, OutsiderDeletes(b) PROVE CleanupInv'
  <2> USE <1>21 DEF OutsiderDeletes, Touches
  <2>1. CleanupTypeOK'
    BY DEF CleanupTypeOK, CleanupSteps
  <2>2. NoChunkYet'
    BY DEF CleanupTypeOK, NoChunkYet
  <2>3. Proven'
    BY DEF CleanupTypeOK, NoChunkYet, Proven
  <2>4. FirstIsFree'
    BY DEF CleanupTypeOK, FirstIsFree
  <2>5. ChunkIsFree'
    BY DEF CleanupTypeOK, FirstIsFree, ChunkIsFree
  <2> QED
    BY <2>1, <2>2, <2>3, <2>4, <2>5
<1>22. ASSUME NEW b \in Finished, OutsiderChecksOut(b) PROVE CleanupInv'
  <2> USE <1>22 DEF OutsiderChecksOut, Touches
  <2>1. CleanupTypeOK'
    BY DEF CleanupTypeOK, CleanupSteps
  <2>2. NoChunkYet'
    BY DEF CleanupTypeOK, NoChunkYet
  <2>3. Proven'
    BY DEF CleanupTypeOK, NoChunkYet, Proven
  <2>4. FirstIsFree'
    BY DEF CleanupTypeOK, FirstIsFree
  <2>5. ChunkIsFree'
    BY DEF CleanupTypeOK, FirstIsFree, ChunkIsFree
  <2> QED
    BY <2>1, <2>2, <2>3, <2>4, <2>5
<1>23. ASSUME NEW b \in Finished, OutsiderMovesHead(b) PROVE CleanupInv'
  <2> USE <1>23 DEF OutsiderMovesHead, Touches
  <2>1. CleanupTypeOK'
    BY DEF CleanupTypeOK, CleanupSteps
  <2>2. NoChunkYet'
    BY DEF CleanupTypeOK, NoChunkYet
  <2>3. Proven'
    BY DEF CleanupTypeOK, NoChunkYet, Proven
  <2>4. FirstIsFree'
    BY DEF CleanupTypeOK, FirstIsFree
  <2>5. ChunkIsFree'
    BY DEF CleanupTypeOK, FirstIsFree, ChunkIsFree
  <2> QED
    BY <2>1, <2>2, <2>3, <2>4, <2>5
<1>24. ASSUME NEW b \in Finished, OutsiderStops(b) PROVE CleanupInv'
  <2> USE <1>24 DEF OutsiderStops, Touches
  <2>1. CleanupTypeOK'
    BY DEF CleanupTypeOK, CleanupSteps
  <2>2. NoChunkYet'
    BY DEF CleanupTypeOK, NoChunkYet
  <2>3. Proven'
    BY DEF CleanupTypeOK, NoChunkYet, Proven
  <2>4. FirstIsFree'
    BY DEF CleanupTypeOK, FirstIsFree
  <2>5. ChunkIsFree'
    BY DEF CleanupTypeOK, FirstIsFree, ChunkIsFree
  <2> QED
    BY <2>1, <2>2, <2>3, <2>4, <2>5
<1>25. CASE UNCHANGED cleanupVars
  BY <1>25 DEF cleanupVars, CleanupTypeOK, NoChunkYet, Proven, FirstIsFree, ChunkIsFree
<1> QED
  BY <1>1, <1>2, <1>3, <1>4, <1>5, <1>6, <1>7, <1>8, <1>9, <1>10, <1>11, <1>12, <1>13, <1>14, <1>15, <1>16, <1>17, <1>18, <1>19, <1>20, <1>21, <1>22, <1>23, <1>24, <1>25 DEF CleanupNext, CleanupStep

-----------------------------------------------------------------------------
(* A deletion, in a transaction or alone, is of a member of the chunk, and the       *)
(* invariant says what was looked at for these.                                   *)
LEMMA DeletionIsReviewed ==
  ASSUME CleanupInv, CleanupNext, NEW b \in taken' \ taken
  PROVE  Reviewed(b)
<1>1. ASSUME cleanup.at \in {"transact", "retry"}, b \in cleanup.chunk, tips[b] = 1
      PROVE  Reviewed(b)
  BY <1>1 DEF CleanupInv, Proven, ChunkIsFree, Reviewed
<1>2. CASE Transacts
  BY <1>1, <1>2 DEF Transacts, Deletes
<1>3. CASE TransactionFails
  BY <1>1, <1>3 DEF TransactionFails, Deletes
<1>4. ASSUME NEW c \in Finished, RetriesOne(c) PROVE Reviewed(b)
  <2>1. b = c /\ DeletableAtTip(c)
    BY <1>4 DEF RetriesOne, Deletes
  <2> QED
    BY <1>1, <1>4, <2>1 DEF RetriesOne, DeletableAtTip
<1>5. ASSUME NEW c \in Finished, RestoresBranch(c) PROVE FALSE
  BY <1>5 DEF RestoresBranch
<1>6. taken' # taken
  OBVIOUS
<1>7. ~ AsksCleanup /\ ~ CancelsCleanup /\ ~ ReviewsAgain /\ ~ ReviewFails /\ ~ AsksAncestry
  BY <1>6 DEF AsksCleanup, CancelsCleanup, ReviewsAgain, ReviewFails, RefusesAll, AsksAncestry,
              cleanupGhosts
<1>8. ~ AncestryFails /\ ~ ReadsHolders /\ ~ HoldersRefused /\ ~ ReadsSections /\ ~ StartsChunk
  BY <1>6 DEF AncestryFails, HoldersRefused, RefusesAll, ReadsHolders, ReadsSections,
              StartsChunk, cleanupGhosts
<1>9. ~ TransactionRefused /\ ~ EndsChunk /\ ~ EndsBatch
  BY <1>6 DEF TransactionRefused, EndsChunk, EndsBatch, cleanupGhosts
<1>10. \A c \in Finished : ~ RetryFails(c) /\ ~ WipesConfig(c)
  BY <1>6 DEF RetryFails, WipesConfig
<1>11. \A c \in Finished :
         /\ ~ OutsiderPointsElsewhere(c) /\ ~ OutsiderDeletes(c) /\ ~ OutsiderChecksOut(c)
         /\ ~ OutsiderMovesHead(c) /\ ~ OutsiderStops(c)
  BY <1>6 DEF OutsiderPointsElsewhere, OutsiderDeletes, OutsiderChecksOut, OutsiderMovesHead,
              OutsiderStops, Touches
<1> QED
  BY <1>2, <1>3, <1>4, <1>5, <1>7, <1>8, <1>9, <1>10, <1>11 DEF CleanupNext, CleanupStep

(* For any branches, chunk size and outsiders: the invariant holds always.           *)
THEOREM CleanupInvariant == CleanupSpec => []CleanupInv
<1> QED
  BY CleanupInvInit, CleanupInvNext, PTL DEF CleanupSpec

(* "Each ref still goes only at its reviewed tip", never from under a worktree or    *)
(* past a HEAD that the last look before its deletion has seen.                   *)
THEOREM OnlyReviewedDeleted == CleanupSpec => DeletesOnlyReviewed
<1>1. ASSUME CleanupInv, [CleanupNext]_cleanupVars
      PROVE  [\A b \in taken' \ taken :
                /\ tips[b] = 1
                /\ b \in occupied => b \in late
                /\ evidence[b] = "ancestry" /\ b \notin inHead => "HEAD" \in late]_cleanupVars
  <2>1. CASE CleanupNext
    BY <1>1, <2>1, DeletionIsReviewed DEF Reviewed
  <2>2. CASE UNCHANGED cleanupVars
    BY <2>2
  <2> QED
    BY <1>1, <2>1, <2>2
<1> QED
  BY <1>1, CleanupInvariant, PTL DEF CleanupSpec, DeletesOnlyReviewed

-----------------------------------------------------------------------------
(* The receipt *)

Early == {"idle", "review"}

Pending == cleanup.todo \cup cleanup.chunk \cup cleanup.wiping

ReceiptTypes ==
  /\ receipt \in [Finished -> {"none", "kept", "deleted", "restored"}]
  /\ cleanup.todo \cap (cleanup.chunk \cup cleanup.wiping) = {}
  /\ cleanup.chunk \cap cleanup.wiping = {}

(* Which branches are under way at which step. *)
UnderWay ==
  /\ cleanup.at \in Early =>
       cleanup.todo = {} /\ taken = {} /\ \A b \in Finished : receipt[b] = "none"
  /\ cleanup.at \notin {"transact", "retry"} => cleanup.chunk = {}
  /\ cleanup.at \notin {"retry", "wipe"} => cleanup.wiping = {}

(* A branch is under way or has its answer; one that was not reached was canceled. *)
Answered ==
  /\ cleanup.at \notin Early \cup {"done"} =>
       \A b \in Finished : receipt[b] = "none" <=> b \in Pending
  /\ cleanup.at = "done" => \A b \in Finished : receipt[b] = "none" => cleanup.canceled

(* A branch was deleted whose section is to go yet, or whose answer says so. *)
TakenTold ==
  /\ cleanup.wiping \subseteq taken
  /\ \A b \in Finished : receipt[b] = "deleted" => b \in taken
  /\ ~ trouble => \A b \in taken : b \in cleanup.wiping \/ receipt[b] = "deleted"

(* A branch that nobody touched is as it was chosen, or was deleted here. *)
UntouchedStay ==
  \A b \in Finished \ touched :
    /\ b \notin occupied
    /\ b \in inHead <=> evidence[b] = "ancestry"
    /\ tips[b] = IF b \in taken THEN 0 ELSE 1

KeptForCause == ~ trouble => \A b \in Finished \ touched : receipt[b] # "kept"

ReceiptInv ==
  /\ ReceiptTypes /\ UnderWay /\ Answered /\ TakenTold /\ UntouchedStay /\ KeptForCause

(* Nothing is chosen to be deleted at first. *)
LEMMA ReceiptInvInit ==
  ASSUME CleanupInit
  PROVE  ReceiptInv
<1> USE DEF CleanupInit, NoCleanup
<1>1. ReceiptTypes /\ UnderWay
  BY DEF ReceiptTypes, UnderWay
<1>2. Answered /\ TakenTold
  BY DEF Answered, TakenTold, Early
<1>3. UntouchedStay /\ KeptForCause
  BY DEF UntouchedStay, KeptForCause
<1> QED BY <1>1, <1>2, <1>3 DEF ReceiptInv

(* A step that goes on: no branch moves, and none is answered. *)
LEMMA ReceiptGoesOn ==
  ASSUME CleanupInv, ReceiptInv,
         UNCHANGED <<receipt, taken, tips, occupied, inHead, evidence, touched>>,
         trouble => trouble',
         cleanup'.todo = cleanup.todo, cleanup'.chunk = cleanup.chunk,
         cleanup'.wiping = cleanup.wiping, cleanup.canceled => cleanup'.canceled,
         \/ cleanup'.at = cleanup.at
         \/ cleanup'.at = "review" /\ cleanup.at = "idle"
         \/ cleanup'.at \in {"sections", "chunk"} /\ cleanup.at \notin Early \cup {"done"}
            /\ cleanup.chunk = {} /\ cleanup.wiping = {}
         \/ cleanup'.at = "retry" /\ cleanup.at = "transact"
         \/ cleanup'.at = "done" /\ cleanup.chunk = {} /\ cleanup.wiping = {}
            /\ (cleanup.canceled \/ (cleanup.todo = {} /\ cleanup.at \notin Early))
  PROVE  ReceiptInv'
<1>1. ReceiptTypes' /\ UnderWay'
  BY DEF ReceiptInv, ReceiptTypes, UnderWay, Early
<1>2. Answered'
  BY DEF ReceiptInv, Answered, Pending, Early
<1>3. TakenTold' /\ UntouchedStay' /\ KeptForCause'
  BY DEF ReceiptInv, TakenTold, UntouchedStay, KeptForCause
<1> QED BY <1>1, <1>2, <1>3 DEF ReceiptInv

(* Steps of the run that answer nothing. *)
LEMMA SilentSteps ==
  ASSUME CleanupInv, ReceiptInv,
         \/ AsksCleanup \/ CancelsCleanup \/ ReadsSections \/ TransactionRefused
         \/ EndsChunk \/ EndsBatch \/ UNCHANGED cleanupVars
  PROVE  ReceiptInv'
<1> USE DEF CleanupInv, CleanupTypeOK
<1>1. /\ UNCHANGED <<receipt, taken, tips, occupied, inHead, evidence, touched, trouble>>
  BY DEF AsksCleanup, CancelsCleanup, ReadsSections, TransactionRefused, EndsChunk, EndsBatch,
         cleanupVars, cleanupGhosts, refs
<1>2. CASE AsksCleanup \/ TransactionRefused
  BY <1>1, <1>2, ReceiptGoesOn DEF AsksCleanup, TransactionRefused, Moves
<1>3. CASE CancelsCleanup \/ UNCHANGED cleanupVars
  BY <1>1, <1>3, ReceiptGoesOn DEF CancelsCleanup, cleanupVars
<1>4. CASE ReadsSections
  <2>1. cleanup.chunk = {} /\ cleanup.wiping = {} /\ cleanup.at = "sections"
    BY <1>4 DEF ReadsSections, ReceiptInv, UnderWay
  <2>2. /\ cleanup'.todo = cleanup.todo /\ cleanup'.chunk = cleanup.chunk
        /\ cleanup'.wiping = cleanup.wiping /\ cleanup'.canceled = cleanup.canceled
        /\ cleanup'.at = "chunk"
    BY <1>4 DEF ReadsSections
  <2> QED BY <1>1, <2>1, <2>2, ReceiptGoesOn DEF Early
<1>5. CASE EndsChunk
  <2>1. cleanup.chunk = {} /\ cleanup.wiping = {} /\ cleanup.at \in {"wipe", "retry"}
    BY <1>5 DEF EndsChunk, ReceiptInv, UnderWay
  <2>2. /\ cleanup'.todo = cleanup.todo /\ cleanup'.chunk = cleanup.chunk
        /\ cleanup'.wiping = cleanup.wiping /\ cleanup'.canceled = cleanup.canceled
        /\ cleanup'.at = "chunk"
    BY <1>5 DEF EndsChunk, Moves
  <2> QED BY <1>1, <2>1, <2>2, ReceiptGoesOn DEF Early
<1>6. CASE EndsBatch
  <2>1. /\ cleanup.chunk = {} /\ cleanup.wiping = {} /\ cleanup.at = "chunk"
        /\ cleanup.todo = {} \/ cleanup.canceled
    BY <1>6 DEF EndsBatch, ReceiptInv, UnderWay
  <2>2. /\ cleanup'.todo = cleanup.todo /\ cleanup'.chunk = cleanup.chunk
        /\ cleanup'.wiping = cleanup.wiping /\ cleanup'.canceled = cleanup.canceled
        /\ cleanup'.at = "done"
    BY <1>6 DEF EndsBatch, Moves
  <2> QED BY <1>1, <2>1, <2>2, ReceiptGoesOn DEF Early
<1> QED BY <1>2, <1>3, <1>4, <1>5, <1>6

(* Branches that are kept leave the run, for a reason or after a trouble. *)
LEMMA KeepingStep ==
  ASSUME CleanupInv, ReceiptInv, NEW kept \in SUBSET Finished, Receives(kept, "kept"),
         UNCHANGED <<taken, tips, occupied, inHead, evidence, touched>>,
         trouble => trouble', ~ trouble' => kept \subseteq touched,
         cleanup.canceled => cleanup'.canceled,
         cleanup'.at \notin Early, cleanup'.wiping = {}, cleanup.wiping = {},
         cleanup'.at \notin {"transact", "retry"} => cleanup'.chunk = {},
         cleanup'.todo \cap cleanup'.chunk = {},
         ~ trouble' => kept \cap taken = {},
         \/ /\ cleanup.at \notin Early /\ cleanup.at # "done" /\ cleanup'.at # "done"
            /\ cleanup.todo \cup cleanup.chunk = cleanup'.todo \cup cleanup'.chunk \cup kept
            /\ kept \cap (cleanup'.todo \cup cleanup'.chunk) = {}
         \/ kept \cup cleanup'.todo = Finished /\ kept \cap cleanup'.todo = {}
            /\ cleanup.at = "review" /\ cleanup'.chunk = {} /\ cleanup'.at # "done"
         \/ kept = Finished /\ cleanup'.at = "done"
  PROVE  ReceiptInv'
<1>1. receipt' = [b \in Finished |-> IF b \in kept THEN "kept" ELSE receipt[b]]
  BY DEF Receives
<1>2. ReceiptTypes'
  BY <1>1 DEF ReceiptInv, ReceiptTypes
<1>3. UnderWay'
  BY DEF UnderWay
<1>4. Answered'
  <2>1. Pending' = cleanup'.todo \cup cleanup'.chunk
    BY DEF Pending
  <2>2. CASE kept = Finished /\ cleanup'.at = "done"
    BY <1>1, <2>2 DEF Answered
  <2>3. CASE /\ kept \cup cleanup'.todo = Finished /\ kept \cap cleanup'.todo = {}
             /\ cleanup.at = "review" /\ cleanup'.chunk = {} /\ cleanup'.at # "done"
    <3>1. \A b \in Finished : receipt[b] = "none"
      BY <2>3 DEF ReceiptInv, UnderWay, Early
    <3>2. \A b \in Finished : receipt'[b] = "none" <=> b \in Pending'
      BY <1>1, <2>1, <2>3, <3>1
    <3> QED BY <2>3, <3>2 DEF Answered
  <2>4. CASE /\ cleanup.at \notin Early /\ cleanup.at # "done" /\ cleanup'.at # "done"
             /\ cleanup.todo \cup cleanup.chunk = cleanup'.todo \cup cleanup'.chunk \cup kept
             /\ kept \cap (cleanup'.todo \cup cleanup'.chunk) = {}
    <3>1. \A b \in Finished : receipt[b] = "none" <=> b \in cleanup.todo \cup cleanup.chunk
      BY <2>4 DEF ReceiptInv, Answered, Pending
    <3>2. \A b \in Finished : receipt'[b] = "none" <=> b \in Pending'
      BY <1>1, <2>1, <2>4, <3>1
    <3> QED BY <2>4, <3>2 DEF Answered
  <2> QED BY <2>2, <2>3, <2>4
<1>5. TakenTold'
  BY <1>1 DEF ReceiptInv, TakenTold, CleanupInv, CleanupTypeOK
<1>6. UntouchedStay' /\ KeptForCause'
  BY <1>1 DEF ReceiptInv, UntouchedStay, KeptForCause
<1> QED BY <1>2, <1>3, <1>4, <1>5, <1>6 DEF ReceiptInv

(* The whole batch is refused. *)
LEMMA RefusedSteps ==
  ASSUME CleanupInv, ReceiptInv, ReviewFails \/ AncestryFails \/ HoldersRefused
  PROVE  ReceiptInv'
<1>1. /\ RefusesAll /\ cleanup.at \in {"review", "merged", "holders"}
  BY DEF ReviewFails, AncestryFails, HoldersRefused
<1>2. /\ Receives(Finished, "kept") /\ trouble'
      /\ UNCHANGED <<taken, tips, occupied, inHead, evidence, touched>>
      /\ cleanup' = [cleanup EXCEPT !.at = "done"]
  BY <1>1 DEF RefusesAll, Moves, refs
<1>3. cleanup.wiping = {} /\ cleanup.chunk = {}
  BY <1>1 DEF ReceiptInv, UnderWay
<1>4. /\ cleanup'.at = "done" /\ cleanup'.chunk = {} /\ cleanup'.wiping = {}
      /\ cleanup'.canceled = cleanup.canceled
  BY <1>2, <1>3 DEF CleanupInv, CleanupTypeOK
<1> QED BY <1>2, <1>3, <1>4, KeepingStep DEF Early

(* The review, and the questions about HEAD and holders. *)
LEMMA AskingSteps ==
  ASSUME CleanupInv, ReceiptInv, ReviewsAgain \/ AsksAncestry \/ ReadsHolders
  PROVE  ReceiptInv'
<1>1. /\ UNCHANGED <<taken, tips, occupied, inHead, evidence, touched, trouble>>
      /\ cleanup.at \in {"review", "merged", "holders"}
  BY DEF ReviewsAgain, AsksAncestry, ReadsHolders, refs, cleanupGhosts
<1>2. cleanup.wiping = {} /\ cleanup.chunk = {}
  BY <1>1 DEF ReceiptInv, UnderWay
<1>3. ASSUME ~ trouble, cleanup.at # "review"
      PROVE  cleanup.todo \cap taken = {}
  <2>1. cleanup.todo \subseteq Finished
    BY DEF CleanupInv, CleanupTypeOK
  <2>2. \A b \in cleanup.todo : receipt[b] = "none"
    BY <1>1, <1>3, <2>1 DEF ReceiptInv, Answered, Pending, Early
  <2> QED BY <1>2, <1>3, <2>2 DEF ReceiptInv, TakenTold
<1>4. CASE /\ Moves("done") /\ UNCHANGED receipt
           /\ cleanup.canceled \/ (cleanup.todo = {} /\ cleanup.at # "review")
  <2>1. /\ cleanup'.todo = cleanup.todo /\ cleanup'.chunk = cleanup.chunk
        /\ cleanup'.wiping = cleanup.wiping /\ cleanup'.canceled = cleanup.canceled
        /\ cleanup'.at = "done"
    BY <1>4 DEF Moves, CleanupInv, CleanupTypeOK
  <2> QED BY <1>1, <1>2, <1>4, <2>1, ReceiptGoesOn DEF Early
<1>5. CASE ReviewsAgain /\ ~ cleanup.canceled
  <2> DEFINE fresh == {b \in Finished : IsCandidate(b)}
             kept  == Finished \ fresh
  <2>1. /\ cleanup.at = "review" /\ Receives(kept, "kept")
        /\ cleanup' = [cleanup EXCEPT !.at = "merged", !.todo = fresh]
    BY <1>5, Zenon DEF ReviewsAgain
  <2>2. kept \subseteq touched
    BY <2>1 DEF ReceiptInv, UntouchedStay, UnderWay, Early, IsCandidate
  <2>3. kept \cap taken = {}
    BY <2>1 DEF ReceiptInv, UnderWay, Early
  <2>4. kept \in SUBSET Finished /\ kept \cup fresh = Finished /\ kept \cap fresh = {}
    OBVIOUS
  <2> HIDE DEF kept, fresh
  <2>5. /\ cleanup'.todo = fresh /\ cleanup'.chunk = cleanup.chunk
        /\ cleanup'.wiping = cleanup.wiping /\ cleanup'.canceled = cleanup.canceled
        /\ cleanup'.at = "merged"
    BY <2>1 DEF CleanupInv, CleanupTypeOK
  <2> QED BY <1>1, <1>2, <2>1, <2>2, <2>3, <2>4, <2>5, KeepingStep DEF Early
<1>6. ASSUME NEW lost \in SUBSET cleanup.todo, NEW at \in {"holders", "sections"},
             cleanup.at # "review", Receives(lost, "kept"), ~ trouble => lost \subseteq touched,
             cleanup' = [cleanup EXCEPT !.at = at, !.todo = cleanup.todo \ lost]
      PROVE  ReceiptInv'
  <2>1. /\ cleanup'.todo = cleanup.todo \ lost /\ cleanup'.chunk = cleanup.chunk
        /\ cleanup'.wiping = cleanup.wiping /\ cleanup'.canceled = cleanup.canceled
        /\ cleanup'.at = at
    BY <1>6 DEF CleanupInv, CleanupTypeOK
  <2>2. lost \in SUBSET Finished
    BY DEF CleanupInv, CleanupTypeOK
  <2>3. ~ trouble => lost \cap taken = {}
    BY <1>3, <1>6
  <2>4. /\ cleanup.todo \cup cleanup.chunk = cleanup'.todo \cup cleanup'.chunk \cup lost
        /\ lost \cap (cleanup'.todo \cup cleanup'.chunk) = {}
    BY <1>2, <2>1
  <2> QED BY <1>1, <1>2, <1>6, <2>1, <2>2, <2>3, <2>4, KeepingStep DEF Early
<1>7. CASE AsksAncestry
  <2> DEFINE lost == StillUnproven(cleanup.todo)
  <2>1. /\ cleanup.at = "merged" /\ Receives(lost, "kept")
        /\ cleanup' = [cleanup EXCEPT !.at = "holders", !.todo = cleanup.todo \ lost]
    BY <1>7 DEF AsksAncestry
  <2>2. lost \in SUBSET cleanup.todo
    BY DEF StillUnproven
  <2>3. ~ trouble => lost \subseteq touched
    BY <1>3, <2>1 DEF StillUnproven, ReceiptInv, UntouchedStay, CleanupInv, CleanupTypeOK
  <2> HIDE DEF lost
  <2>4. "holders" \in {"holders", "sections"} /\ cleanup.at # "review"
    BY <2>1
  <2> QED BY <1>6, <2>1, <2>2, <2>3, <2>4
<1>8. CASE ReadsHolders /\ ~ (cleanup.canceled \/ cleanup.todo = {})
  <2> DEFINE lost == cleanup.todo \cap occupied
  <2>1. /\ cleanup.at = "holders" /\ Receives(lost, "kept")
        /\ cleanup' = [cleanup EXCEPT !.at = "sections", !.todo = cleanup.todo \ occupied]
    BY <1>8 DEF ReadsHolders
  <2>2. lost \in SUBSET cleanup.todo /\ cleanup.todo \ occupied = cleanup.todo \ lost
    OBVIOUS
  <2>3. lost \subseteq touched
    BY DEF ReceiptInv, UntouchedStay, CleanupInv, CleanupTypeOK
  <2>4. cleanup' = [cleanup EXCEPT !.at = "sections", !.todo = cleanup.todo \ lost]
    BY <2>1, <2>2
  <2> HIDE DEF lost
  <2>5. "sections" \in {"holders", "sections"} /\ cleanup.at # "review"
    BY <2>1
  <2> QED BY <1>6, <2>1, <2>2, <2>3, <2>4, <2>5
<1> QED
  BY <1>4, <1>5, <1>7, <1>8 DEF ReviewsAgain, ReadsHolders

(* A later chunk looks at the holders again. *)
LEMMA ChunkStep ==
  ASSUME CleanupInv, ReceiptInv, StartsChunk
  PROVE  ReceiptInv'
<1>1. PICK chunk \in SUBSET cleanup.todo, listed \in BOOLEAN :
        LET kept == IF listed THEN HeldByNow(chunk) ELSE chunk IN
          /\ cleanup' = [cleanup EXCEPT !.at = "transact", !.todo = @ \ chunk,
                           !.chunk = chunk \ kept, !.first = FALSE]
          /\ Receives(kept, "kept")
          /\ trouble' = (trouble \/ ~ listed)
  BY Zenon DEF StartsChunk
<1>2. /\ UNCHANGED <<taken, tips, occupied, inHead, evidence, touched>>
      /\ cleanup.at = "chunk"
  BY DEF StartsChunk, refs
<1> DEFINE kept == IF listed THEN HeldByNow(chunk) ELSE chunk
<1>3. kept \in SUBSET chunk /\ (listed => kept \subseteq occupied)
  BY DEF HeldByNow
<1>4. /\ cleanup' = [cleanup EXCEPT !.at = "transact", !.todo = cleanup.todo \ chunk,
                        !.chunk = chunk \ kept, !.first = FALSE]
      /\ Receives(kept, "kept") /\ trouble' = (trouble \/ ~ listed)
  BY <1>1
<1> HIDE DEF kept
<1>5. /\ cleanup'.todo = cleanup.todo \ chunk /\ cleanup'.chunk = chunk \ kept
      /\ cleanup'.wiping = cleanup.wiping /\ cleanup'.canceled = cleanup.canceled
      /\ cleanup'.at = "transact"
  BY <1>4 DEF CleanupInv, CleanupTypeOK
<1>6. cleanup.chunk = {} /\ cleanup.wiping = {}
  BY <1>2 DEF ReceiptInv, UnderWay
<1>7. kept \in SUBSET Finished /\ kept \subseteq cleanup.todo
  BY <1>3 DEF CleanupInv, CleanupTypeOK
<1>8. ~ trouble' => kept \subseteq touched
  BY <1>3, <1>4, <1>7 DEF ReceiptInv, UntouchedStay
<1>9. ~ trouble' => kept \cap taken = {}
  BY <1>2, <1>4, <1>6, <1>7 DEF ReceiptInv, TakenTold, Answered, Pending, Early
<1>10. /\ cleanup.todo \cup cleanup.chunk = cleanup'.todo \cup cleanup'.chunk \cup kept
       /\ kept \cap (cleanup'.todo \cup cleanup'.chunk) = {}
       /\ cleanup'.todo \cap cleanup'.chunk = {}
  BY <1>3, <1>5, <1>6
<1>11. trouble => trouble'
  BY <1>4
<1> QED BY <1>2, <1>4, <1>5, <1>6, <1>7, <1>8, <1>9, <1>10, <1>11, KeepingStep DEF Early

(* What is deleted was as it was chosen, and is not there any more. *)
LEMMA DeletedAreGone ==
  ASSUME CleanupInv, ReceiptInv, NEW bs \in SUBSET Finished, Deletes(bs),
         UNCHANGED <<occupied, inHead, evidence, touched>>
  PROVE  UntouchedStay'
BY DEF ReceiptInv, UntouchedStay, Deletes

(* A transaction that lands, or whose answer is lost. *)
LEMMA TransactionSteps ==
  ASSUME CleanupInv, ReceiptInv, Transacts \/ TransactionFails
  PROVE  ReceiptInv'
<1>1. /\ UNCHANGED <<receipt, occupied, inHead, evidence, touched>>
      /\ cleanup.at = "transact"
  BY DEF Transacts, TransactionFails
<1>2. cleanup.wiping = {} /\ cleanup.chunk \in SUBSET Finished
  BY <1>1 DEF ReceiptInv, UnderWay, CleanupInv, CleanupTypeOK
<1>3. CASE Transacts
  <2>1. /\ cleanup'.todo = cleanup.todo /\ cleanup'.chunk = {}
        /\ cleanup'.wiping = cleanup.chunk /\ cleanup'.canceled = cleanup.canceled
        /\ cleanup'.at = "wipe"
    BY <1>3 DEF Transacts, CleanupInv, CleanupTypeOK
  <2>2. Deletes(cleanup.chunk) /\ trouble' = trouble /\ taken' = taken \cup cleanup.chunk
    BY <1>3 DEF Transacts, Deletes
  <2>3. ReceiptTypes' /\ UnderWay'
    BY <1>1, <1>2, <2>1 DEF ReceiptInv, ReceiptTypes, UnderWay, Early
  <2>4. Answered'
    BY <1>1, <1>2, <2>1 DEF ReceiptInv, Answered, Pending, Early
  <2>5. TakenTold' /\ KeptForCause'
    BY <1>1, <1>2, <2>1, <2>2 DEF ReceiptInv, TakenTold, KeptForCause
  <2>6. UntouchedStay'
    BY <1>1, <1>2, <2>2, DeletedAreGone
  <2> QED BY <2>3, <2>4, <2>5, <2>6 DEF ReceiptInv
<1>4. CASE TransactionFails
  <2>1. /\ cleanup'.todo = cleanup.todo /\ cleanup'.chunk = cleanup.chunk
        /\ cleanup'.wiping = cleanup.wiping /\ cleanup'.canceled = cleanup.canceled
        /\ cleanup'.at = "retry" /\ trouble'
    BY <1>4 DEF TransactionFails, Moves, CleanupInv, CleanupTypeOK
  <2>2. CASE UNCHANGED <<tips, taken>>
    BY <1>1, <2>1, <2>2, ReceiptGoesOn
  <2>3. CASE Deletes(cleanup.chunk)
    <3>1. taken' = taken \cup cleanup.chunk
      BY <2>3 DEF Deletes
    <3>2. ReceiptTypes' /\ UnderWay'
      BY <1>1, <1>2, <2>1 DEF ReceiptInv, ReceiptTypes, UnderWay, Early
    <3>3. Answered'
      BY <1>1, <2>1 DEF ReceiptInv, Answered, Pending, Early
    <3>4. TakenTold' /\ KeptForCause'
      BY <1>1, <1>2, <2>1, <3>1 DEF ReceiptInv, TakenTold, KeptForCause
    <3>5. UntouchedStay'
      BY <1>1, <1>2, <2>3, DeletedAreGone
    <3> QED BY <3>2, <3>3, <3>4, <3>5 DEF ReceiptInv
  <2> QED BY <1>4, <2>2, <2>3 DEF TransactionFails
<1> QED BY <1>3, <1>4

(* "a chunk refused because one branch moved is retried one ref at a time" *)
LEMMA RetrySteps ==
  ASSUME CleanupInv, ReceiptInv, NEW b \in Finished, RetriesOne(b) \/ RetryFails(b)
  PROVE  ReceiptInv'
<1>1. /\ UNCHANGED <<occupied, inHead, evidence, touched>>
      /\ cleanup.at = "retry" /\ b \in cleanup.chunk /\ cleanup.wiping = {}
  BY DEF RetriesOne, RetryFails, refs
<1>2. cleanup.todo \cap cleanup.chunk = {} /\ cleanup.chunk \subseteq Finished
  BY DEF ReceiptInv, ReceiptTypes, CleanupInv, CleanupTypeOK
<1>3. receipt[b] = "none"
  BY <1>1 DEF ReceiptInv, Answered, Pending, Early
<1>4. ~ trouble => b \notin taken
  BY <1>1, <1>3 DEF ReceiptInv, TakenTold
<1>5. CASE RetriesOne(b) /\ DeletableAtTip(b)
  <2>1. /\ Deletes({b}) /\ UNCHANGED <<receipt, trouble>> /\ taken' = taken \cup {b}
        /\ cleanup' = [cleanup EXCEPT !.chunk = @ \ {b}, !.wiping = {b},
                                      !.configured = @ \cup {b}]
    BY <1>5 DEF RetriesOne, Deletes
  <2>2. /\ cleanup'.todo = cleanup.todo /\ cleanup'.chunk = cleanup.chunk \ {b}
        /\ cleanup'.wiping = {b} /\ cleanup'.canceled = cleanup.canceled
        /\ cleanup'.at = "retry"
    BY <1>1, <2>1 DEF CleanupInv, CleanupTypeOK
  <2>3. ReceiptTypes' /\ UnderWay'
    BY <1>1, <1>2, <2>1, <2>2 DEF ReceiptInv, ReceiptTypes, UnderWay, Early
  <2>4. Pending' = Pending
    BY <1>1, <2>2 DEF Pending
  <2>5. Answered'
    BY <1>1, <2>1, <2>2, <2>4 DEF ReceiptInv, Answered, Early
  <2>6. TakenTold' /\ KeptForCause'
    BY <1>1, <2>1, <2>2 DEF ReceiptInv, TakenTold, KeptForCause
  <2>7. UntouchedStay'
    BY <1>1, <2>1, DeletedAreGone
  <2> QED BY <2>3, <2>5, <2>6, <2>7 DEF ReceiptInv
<1>6. CASE RetryFails(b) \/ (RetriesOne(b) /\ ~ DeletableAtTip(b))
  <2>1. /\ Receives({b}, "kept") /\ UNCHANGED <<taken, tips>>
        /\ cleanup' = [cleanup EXCEPT !.chunk = @ \ {b}]
    BY <1>6 DEF RetriesOne, RetryFails, refs
  <2>2. /\ cleanup'.todo = cleanup.todo /\ cleanup'.chunk = cleanup.chunk \ {b}
        /\ cleanup'.wiping = {} /\ cleanup'.canceled = cleanup.canceled
        /\ cleanup'.at = "retry"
    BY <1>1, <2>1 DEF CleanupInv, CleanupTypeOK
  <2>3. trouble => trouble'
    BY <1>6 DEF RetriesOne, RetryFails
  <2>4. ~ trouble' => ~ DeletableAtTip(b)
    BY <1>6 DEF RetryFails
  <2>5. ~ trouble' => {b} \subseteq touched /\ {b} \cap taken = {}
    BY <1>4, <2>3, <2>4 DEF ReceiptInv, UntouchedStay, DeletableAtTip
  <2>6. /\ cleanup.todo \cup cleanup.chunk = cleanup'.todo \cup cleanup'.chunk \cup {b}
        /\ {b} \cap (cleanup'.todo \cup cleanup'.chunk) = {}
        /\ cleanup'.todo \cap cleanup'.chunk = {} /\ {b} \in SUBSET Finished
    BY <1>1, <1>2, <2>2
  <2> HIDE DEF Early
  <2>7. {"retry", "done"} \cap Early = {}
    BY DEF Early
  <2> QED BY <1>1, <2>1, <2>2, <2>3, <2>5, <2>6, <2>7, KeepingStep
<1> QED BY <1>5, <1>6

(* The section of a deleted branch goes, and it is answered. *)
LEMMA WipeStep ==
  ASSUME CleanupInv, ReceiptInv, NEW b \in Finished, WipesConfig(b)
  PROVE  ReceiptInv'
<1>1. /\ UNCHANGED <<taken, tips, occupied, inHead, evidence, touched>>
      /\ b \in cleanup.wiping
      /\ cleanup' = [cleanup EXCEPT !.wiping = @ \ {b}]
      /\ trouble => trouble'
  BY DEF WipesConfig
<1>2. PICK what \in {"deleted", "kept"} :
        Receives({b}, what) /\ (what = "kept" => trouble')
  BY DEF WipesConfig
<1>3. receipt' = [c \in Finished |-> IF c = b THEN what ELSE receipt[c]]
  BY <1>2 DEF Receives
<1>4. /\ cleanup'.todo = cleanup.todo /\ cleanup'.chunk = cleanup.chunk
      /\ cleanup'.wiping = cleanup.wiping \ {b} /\ cleanup'.canceled = cleanup.canceled
      /\ cleanup'.at = cleanup.at
  BY <1>1 DEF CleanupInv, CleanupTypeOK
<1>5. cleanup.at \in {"retry", "wipe"} /\ b \in taken
  BY <1>1 DEF ReceiptInv, UnderWay, TakenTold
<1>6. cleanup.at \notin Early \cup {"done"} /\ b \notin cleanup.todo \cup cleanup.chunk
  BY <1>1, <1>5 DEF Early, ReceiptInv, ReceiptTypes
<1>7. ReceiptTypes' /\ UnderWay'
  BY <1>2, <1>3, <1>4, <1>6 DEF ReceiptInv, ReceiptTypes, UnderWay
<1>8. Pending' = Pending \ {b}
  BY <1>4, <1>6 DEF Pending
<1>9. Answered'
  BY <1>2, <1>3, <1>4, <1>6, <1>8 DEF ReceiptInv, Answered
<1>10. TakenTold'
  BY <1>1, <1>2, <1>3, <1>4, <1>5 DEF ReceiptInv, TakenTold, CleanupInv, CleanupTypeOK
<1>11. UntouchedStay' /\ KeptForCause'
  BY <1>1, <1>2, <1>3 DEF ReceiptInv, UntouchedStay, KeptForCause
<1> QED BY <1>7, <1>9, <1>10, <1>11 DEF ReceiptInv

(* A branch is restored from the receipt. *)
LEMMA RestoreStep ==
  ASSUME CleanupInv, ReceiptInv, NEW b \in Finished, RestoresBranch(b)
  PROVE  ReceiptInv'
<1>1. /\ UNCHANGED <<cleanup, occupied, inHead, evidence, touched, trouble>>
      /\ cleanup.at = "done" /\ receipt[b] = "deleted"
      /\ tips' = [tips EXCEPT ![b] = 1] /\ taken' = taken \ {b}
      /\ receipt' = [receipt EXCEPT ![b] = "restored"]
  BY DEF RestoresBranch
<1>2. /\ \A c \in Finished : receipt'[c] = IF c = b THEN "restored" ELSE receipt[c]
      /\ \A c \in Finished : tips'[c] = IF c = b THEN 1 ELSE tips[c]
  BY <1>1 DEF ReceiptInv, ReceiptTypes, CleanupInv, CleanupTypeOK
<1>3. ReceiptTypes' /\ UnderWay' /\ Answered'
  BY <1>1, <1>2 DEF ReceiptInv, ReceiptTypes, UnderWay, Answered, Early
<1>4. TakenTold'
  BY <1>1, <1>2 DEF ReceiptInv, TakenTold, UnderWay, CleanupInv, CleanupTypeOK
<1>5. UntouchedStay' /\ KeptForCause'
  BY <1>1, <1>2 DEF ReceiptInv, UntouchedStay, KeptForCause
<1> QED BY <1>3, <1>4, <1>5 DEF ReceiptInv

(* Whoever acts on a branch has touched it. *)
LEMMA TouchStep ==
  ASSUME CleanupInv, ReceiptInv, NEW b \in Finished,
         \/ OutsiderPointsElsewhere(b) \/ OutsiderDeletes(b) \/ OutsiderChecksOut(b)
         \/ OutsiderMovesHead(b) \/ OutsiderStops(b)
  PROVE  ReceiptInv'
<1>1. UNCHANGED <<cleanup, receipt, taken, trouble, evidence>> /\ touched' = touched \cup {b}
  BY DEF OutsiderPointsElsewhere, OutsiderDeletes, OutsiderChecksOut, OutsiderMovesHead,
         OutsiderStops, Touches
<1>2. \A c \in Finished \ {b} :
        /\ c \in occupied' <=> c \in occupied
        /\ c \in inHead' <=> c \in inHead
        /\ tips'[c] = tips[c]
  BY DEF OutsiderPointsElsewhere, OutsiderDeletes, OutsiderChecksOut, OutsiderMovesHead,
         OutsiderStops, CleanupInv, CleanupTypeOK
<1>3. ReceiptTypes' /\ UnderWay' /\ Answered' /\ TakenTold'
  BY <1>1 DEF ReceiptInv, ReceiptTypes, UnderWay, Answered, TakenTold, Pending
<1>4. UntouchedStay' /\ KeptForCause'
  BY <1>1, <1>2 DEF ReceiptInv, UntouchedStay, KeptForCause
<1> QED BY <1>3, <1>4 DEF ReceiptInv

(* Every step keeps the invariant. *)
LEMMA ReceiptInvNext ==
  ASSUME CleanupInv, ReceiptInv, [CleanupNext]_cleanupVars
  PROVE  ReceiptInv'
BY SilentSteps, RefusedSteps, AskingSteps, ChunkStep, TransactionSteps, RetrySteps, WipeStep,
   RestoreStep, TouchStep DEF CleanupNext, CleanupStep

(* Every branch is under way or has its answer, for any branches, chunk size, failures *)
(* and acts of outsiders (repository-maintenance.ts: deleteReviewedBranches).       *)
LEMMA ReceiptInvariant == CleanupSpec => []ReceiptInv
<1>1. CleanupInit => ReceiptInv
  BY ReceiptInvInit
<1>2. CleanupInv /\ ReceiptInv /\ [CleanupNext]_cleanupVars => ReceiptInv'
  BY ReceiptInvNext
<1> QED BY <1>1, <1>2, CleanupInvariant, PTL DEF CleanupSpec

(* The receipt is what happened, and "the moved branch fails alone": without a failure *)
(* no branch stays that nobody touched and the review would offer again.            *)
THEOREM ReceiptTells == CleanupSpec => []ReceiptIsTrue
<1>1. ASSUME CleanupInv, ReceiptInv
      PROVE  ReceiptIsTrue
  <2> SUFFICES ASSUME cleanup.at = "done"
               PROVE  /\ \A b \in Finished :
                           /\ receipt[b] = "deleted" => b \in taken
                           /\ receipt[b] # "deleted" /\ ~ trouble => b \notin taken
                           /\ receipt[b] = "none" => cleanup.canceled
                      /\ ~ trouble /\ ~ cleanup.canceled =>
                           \A b \in Finished \ touched :
                             receipt[b] # "restored" => ~ IsCandidate(b)
    BY DEF ReceiptIsTrue
  <2>1. cleanup.wiping = {}
    BY <1>1 DEF ReceiptInv, UnderWay
  <2>2. \A b \in Finished :
          /\ receipt[b] = "deleted" => b \in taken
          /\ receipt[b] # "deleted" /\ ~ trouble => b \notin taken
          /\ receipt[b] = "none" => cleanup.canceled
    BY <1>1, <2>1 DEF ReceiptInv, TakenTold, Answered
  <2>3. ASSUME ~ trouble, ~ cleanup.canceled, NEW b \in Finished \ touched, receipt[b] # "restored"
        PROVE  ~ IsCandidate(b)
    <3>1. receipt[b] = "deleted"
      BY <1>1, <2>2, <2>3 DEF ReceiptInv, ReceiptTypes, KeptForCause
    <3>2. tips[b] = 0
      BY <1>1, <2>2, <3>1 DEF ReceiptInv, UntouchedStay
    <3> QED BY <3>2 DEF IsCandidate
  <2> QED BY <2>2, <2>3
<1> QED BY <1>1, CleanupInvariant, ReceiptInvariant, PTL

-----------------------------------------------------------------------------
(* Updating the app *)

Downloads == HeldDownloads \cup {Nothing}

CheckSteps == {"none", "reading", "asking", "downloading", "landed"}

UpdateShapes ==
  /\ check = [at |-> check.at, track |-> check.track, replaces |-> check.replaces,
              version |-> check.version, canceled |-> check.canceled,
              early |-> check.early, aborted |-> check.aborted]
  /\ native = [disk |-> native.disk, file |-> native.file, fetching |-> native.fetching,
               staged |-> native.staged]

UpdateTypes ==
  /\ selection \in Tracks
  /\ held \in Downloads /\ superseding \in Downloads /\ stage \in Downloads
  /\ channelOf \in [Versions -> Tracks \cup {Nothing}]
  /\ check.at \in CheckSteps /\ check.replaces \in 0 .. MaxVersion
  /\ check.at # "none" => check.track \in Tracks
  /\ check.at \in {"asking", "downloading"} => check.version \in Versions

(* The switch for installing on quit is never behind what is held and selected. *)
ArmedRightly == armed <=> Armed(held, superseding, selection)

ShownIsHeld == shown.is = "downloaded" => held # Nothing /\ shown.version = held.version

(* A download replaces an offer only while it is asked for, runs or is staged. *)
ReplacesWhileChecking ==
  superseding # Nothing => check.at \in {"asking", "downloading"} \/ stage # Nothing

StagesWhatLanded ==
  stage # Nothing =>
    check.at = "landed" /\ platform = "darwin" /\ native.fetching = stage.version

(* Windows and Linux: what is held is the installer in the cache, and while another  *)
(* is downloaded over it nothing is held, but what is replaced is remembered.       *)
HeldIsOnDisk ==
  platform # "darwin" =>
    /\ native.fetching = 0
    /\ held # Nothing =>
         /\ check.at # "downloading"
         /\ native.disk = held.version /\ native.file = held.version
    /\ held = Nothing /\ native.file # 0 =>
         check.at = "downloading" /\ superseding # Nothing
    /\ superseding # Nothing => held \in {Nothing, superseding}

(* macOS: what is held is the build that Squirrel.Mac has, or gets next. *)
HeldIsStaged ==
  platform = "darwin" =>
    /\ superseding # Nothing => held # Nothing
    /\ held = Nothing => native.staged = 0 /\ native.fetching = 0
    /\ ~ excused =>
         /\ held # Nothing => held.version = Installable
         /\ stage # Nothing => native.staged # 0
         /\ native.fetching # 0 /\ stage = Nothing => held.version = native.fetching

(* A status of a check, while none is at the point of showing one. *)
StatusIsOver ==
  /\ check.at \in {"none", "reading"} \/ (check.at = "landed" /\ stage = Nothing)
  /\ shown.is \in {"checking", "available", "downloading"}
  => held # Nothing /\ held.track # selection

(* A cancel before there was a token aborts the download as it begins; only an         *)
(* installer that was in the cache still lands.                                     *)
EarlyAborts ==
  check.early =>
    check.canceled /\ \/ check.at \in {"asking", "landed"}
                      \/ check.at = "downloading" /\ check.aborted

UpdatesInv ==
  /\ UpdateShapes /\ UpdateTypes /\ ArmedRightly /\ ShownIsHeld
  /\ ReplacesWhileChecking /\ StagesWhatLanded /\ HeldIsOnDisk /\ HeldIsStaged
  /\ StatusIsOver /\ EarlyAborts

-----------------------------------------------------------------------------
(* Nothing is held, checked or staged at first. *)
LEMMA UpdatesInvInit ==
  ASSUME UpdatesInit
  PROVE  UpdatesInv
<1> USE DEF UpdatesInit, NoCheck, Status
<1>1. UpdateShapes
  BY DEF UpdateShapes
<1>2. UpdateTypes
  BY UpdatesAssumption DEF UpdateTypes, Downloads, CheckSteps
<1>3. ArmedRightly
  BY DEF ArmedRightly, Armed
<1>4. ShownIsHeld /\ ReplacesWhileChecking /\ StagesWhatLanded
  BY DEF ShownIsHeld, ReplacesWhileChecking, StagesWhatLanded
<1>5. HeldIsOnDisk /\ HeldIsStaged
  BY DEF HeldIsOnDisk, HeldIsStaged
<1>6. StatusIsOver /\ EarlyAborts
  BY DEF StatusIsOver, EarlyAborts
<1> QED BY <1>1, <1>2, <1>3, <1>4, <1>5, <1>6 DEF UpdatesInv

(* A download is not Nothing, and has a version. *)
LEMMA DownloadIsSome ==
  ASSUME NEW d \in HeldDownloads
  PROVE  d # Nothing /\ d.track \in Tracks /\ d.version \in Versions /\ d.version # 0
BY UpdatesAssumption DEF HeldDownloads, Versions

-----------------------------------------------------------------------------
(* The offer *)

(* What reconciling leaves: the status that was, the offer, or none. *)
LEMMA ReconcilingShows ==
  ASSUME NEW d, NEW r, NEW t, NEW s
  PROVE  LET new == Reconciled(d, r, t, s) IN
           /\ r # Nothing => new = s
           /\ r = Nothing /\ Matches(d, t) => new = Status("downloaded", d.version)
           /\ r = Nothing /\ ~ Matches(d, t) =>
                new.is # "downloaded" /\ (new = s \/ new = Status("no-update", 0))
BY DEF Reconciled, Status

(* A status that gives way to an offer. *)
LEMMA GivingWay ==
  ASSUME NEW s, NEW next, next.is # "downloaded"
  PROVE  LET new == UnlessDownloaded(s, next) IN
           \/ new = s /\ s.is = "downloaded" /\ Matches(held, selection)
           \/ new = next
BY DEF UnlessDownloaded

(* The offer is reconciled with the selection, which may be another: nothing else     *)
(* changes but that a check may begin.                                            *)
LEMMA SameOffer ==
  ASSUME UpdatesInv, selection' \in Tracks, Offering(held, superseding, shown, selection'),
         UNCHANGED <<platform, stage, native, excused, channelOf>>,
         \/ UNCHANGED check
         \/ /\ check.at = "none" /\ check'.at = "reading"
            /\ check'.replaces \in 0 .. MaxVersion /\ check'.track \in Tracks
            /\ ~ check'.early,
         UpdateShapes'
  PROVE  UpdatesInv'
<1>1. held' = held /\ superseding' = superseding
  BY DEF Offering
<1>2. UpdateTypes'
  BY <1>1 DEF UpdatesInv, UpdateTypes, CheckSteps
<1>3. ArmedRightly'
  BY <1>1 DEF Offering, ArmedRightly, Armed
<1>4. /\ superseding # Nothing => shown' = shown
      /\ superseding = Nothing /\ Matches(held, selection') =>
           shown' = Status("downloaded", held.version)
      /\ superseding = Nothing /\ ~ Matches(held, selection') =>
           shown'.is # "downloaded" /\ (shown' = shown \/ shown' = Status("no-update", 0))
  BY ReconcilingShows DEF Offering
<1>5. ShownIsHeld'
  BY <1>1, <1>4 DEF UpdatesInv, ShownIsHeld, Status, Matches
<1>6. ReplacesWhileChecking' /\ StagesWhatLanded'
  BY <1>1 DEF UpdatesInv, ReplacesWhileChecking, StagesWhatLanded
<1>7. HeldIsOnDisk' /\ HeldIsStaged'
  BY <1>1 DEF UpdatesInv, HeldIsOnDisk, HeldIsStaged, Installable
<1>8. StatusIsOver'
  <2> SUFFICES ASSUME \/ check'.at \in {"none", "reading"}
                      \/ check'.at = "landed" /\ stage' = Nothing,
                      shown'.is \in {"checking", "available", "downloading"}
               PROVE  held # Nothing /\ held.track # selection'
    BY <1>1 DEF StatusIsOver
  <2>1. check.at \in {"none", "reading"} \/ (check.at = "landed" /\ stage = Nothing)
    OBVIOUS
  <2>2. superseding = Nothing
    BY <2>1 DEF UpdatesInv, ReplacesWhileChecking, StagesWhatLanded
  <2>3. Status("downloaded", held.version).is = "downloaded"
        /\ Status("no-update", 0).is = "no-update"
    BY DEF Status
  <2>4. shown' = shown /\ ~ Matches(held, selection')
    BY <1>4, <2>2, <2>3
  <2> QED BY <2>1, <2>4 DEF UpdatesInv, StatusIsOver, Matches
<1>9. EarlyAborts'
  BY DEF UpdatesInv, EarlyAborts
<1> QED BY <1>2, <1>3, <1>5, <1>6, <1>7, <1>8, <1>9 DEF UpdatesInv

(* The user and the renderer. *)
LEMMA UserSteps ==
  ASSUME UpdatesInv,
         (\E track \in Tracks : SelectionChanges(track)) \/ StatusIsRead \/ StartsCheck
  PROVE  UpdatesInv'
<1>1. ASSUME NEW track \in Tracks, SelectionChanges(track)
      PROVE  UpdatesInv'
  <2>1. /\ selection' = track /\ Offering(held, superseding, shown, track)
        /\ UNCHANGED <<platform, check, stage, native, excused, channelOf>>
    BY <1>1 DEF SelectionChanges
  <2>2. UpdateShapes'
    BY <2>1 DEF UpdatesInv, UpdateShapes
  <2> QED BY <2>1, <2>2, SameOffer
<1>2. CASE StatusIsRead
  <2>1. /\ selection' = selection /\ Offering(held, superseding, shown, selection)
        /\ UNCHANGED <<platform, check, stage, native, excused, channelOf>>
    BY <1>2 DEF StatusIsRead
  <2>2. UpdateShapes'
    BY <2>1 DEF UpdatesInv, UpdateShapes
  <2>3. selection \in Tracks
    BY DEF UpdatesInv, UpdateTypes
  <2> QED BY <2>1, <2>2, <2>3, SameOffer
<1>3. CASE StartsCheck
  <2>1. /\ selection' = selection /\ Offering(held, superseding, shown, selection)
        /\ UNCHANGED <<platform, stage, native, excused, channelOf>>
        /\ check.at = "none"
        /\ check' = [NoCheck EXCEPT !.at = "reading", !.track = selection,
                       !.replaces = IF Matches(held, selection) THEN held.version ELSE 0]
    BY <1>3 DEF StartsCheck
  <2>2. selection \in Tracks /\ held \in Downloads
    BY DEF UpdatesInv, UpdateTypes
  <2>3. (IF Matches(held, selection) THEN held.version ELSE 0) \in 0 .. MaxVersion
    <3>1. Matches(held, selection) => held.version \in Versions
      BY <2>2, DownloadIsSome DEF Matches, Downloads
    <3> QED BY <3>1, UpdatesAssumption DEF Versions
  <2>4. /\ check'.at = "reading" /\ ~ check'.early /\ check'.track = selection
        /\ check'.replaces \in 0 .. MaxVersion
    BY <2>1, <2>3 DEF NoCheck
  <2>5. UpdateShapes'
    BY <2>1 DEF UpdatesInv, UpdateShapes, NoCheck
  <2> QED BY <2>1, <2>2, <2>4, <2>5, SameOffer
<1> QED BY <1>1, <1>2, <1>3

(* A step that leaves the offer, the check's progress and the files as they are. *)
LEMMA NothingOffered ==
  ASSUME UpdatesInv, UNCHANGED <<platform, selection, offering, stage, native, excused, channelOf>>,
         UpdateShapes', check'.at = check.at, check'.track = check.track,
         check'.replaces = check.replaces, check'.version = check.version, EarlyAborts'
  PROVE  UpdatesInv'
<1>1. UpdateTypes'
  BY DEF UpdatesInv, UpdateTypes, offering
<1>2. ArmedRightly' /\ ShownIsHeld' /\ ReplacesWhileChecking' /\ StagesWhatLanded'
  BY DEF UpdatesInv, ArmedRightly, Armed, ShownIsHeld, ReplacesWhileChecking,
         StagesWhatLanded, offering, Matches
<1>3. HeldIsOnDisk' /\ HeldIsStaged' /\ StatusIsOver'
  BY DEF UpdatesInv, HeldIsOnDisk, HeldIsStaged, StatusIsOver, Installable, offering
<1> QED BY <1>1, <1>2, <1>3 DEF UpdatesInv

(* A cancel is remembered, before there is a token and after; a Restart only flushes. *)
LEMMA CancelSteps ==
  ASSUME UpdatesInv, Cancels \/ ClicksRestart \/ Installs \/ InstallsPackage \/ UNCHANGED updatesVars
  PROVE  UpdatesInv'
<1>1. CASE Cancels
  <2>1. /\ UNCHANGED <<platform, selection, offering, stage, native, excused, channelOf>>
        /\ ~ check.canceled
        /\ check' = [check EXCEPT !.canceled = TRUE, !.early = (check.at = "asking")]
    BY <1>1 DEF Cancels
  <2>2. /\ UpdateShapes' /\ check'.at = check.at /\ check'.track = check.track
        /\ check'.replaces = check.replaces /\ check'.version = check.version
        /\ check'.canceled /\ (check'.early <=> check.at = "asking")
    BY <2>1 DEF UpdatesInv, UpdateShapes
  <2>3. EarlyAborts'
    BY <2>2 DEF EarlyAborts
  <2> QED BY <2>1, <2>2, <2>3, NothingOffered
<1>2. CASE ClicksRestart \/ Installs \/ InstallsPackage \/ UNCHANGED updatesVars
  <2>1. UNCHANGED <<platform, selection, offering, stage, native, excused, channelOf, check>>
    BY <1>2 DEF ClicksRestart, Installs, InstallsPackage, updatesVars, offering
  <2>2. UpdateShapes' /\ EarlyAborts'
    BY <2>1 DEF UpdatesInv, UpdateShapes, EarlyAborts
  <2> QED BY <2>1, <2>2, NothingOffered
<1> QED BY <1>1, <1>2

-----------------------------------------------------------------------------
(* The check *)

(* What is replaced is given up, and the check ends: the older offer stands again. *)
LEMMA GivingUp ==
  ASSUME UpdatesInv, UNCHANGED <<platform, selection, held, stage, excused>>,
         UpdateShapes', check' = NoCheck, stage = Nothing,
         channelOf' \in [Versions -> Tracks \cup {Nothing}],
         superseding' = Nothing,
         armed' = IF superseding = Nothing THEN armed ELSE Armed(held, Nothing, selection),
         shown'.is = "downloaded" => held # Nothing /\ shown'.version = held.version,
         shown'.is \in {"checking", "available", "downloading"} =>
           held # Nothing /\ held.track # selection,
         native'.fetching = native.fetching, native'.staged = native.staged,
         \/ /\ native'.disk = native.disk /\ native'.file = native.file
            /\ check.at # "downloading"
         \/ native'.disk = 0 /\ native'.file = 0 /\ check.at = "downloading"
  PROVE  UpdatesInv'
<1>1. check'.at = "none" /\ ~ check'.early /\ check'.replaces = 0
  BY DEF NoCheck
<1>2. UpdateTypes'
  BY <1>1, UpdatesAssumption DEF UpdatesInv, UpdateTypes, CheckSteps, Downloads
<1>3. ArmedRightly'
  BY DEF UpdatesInv, ArmedRightly, Armed
<1>4. ShownIsHeld' /\ ReplacesWhileChecking' /\ StagesWhatLanded'
  BY DEF ShownIsHeld, ReplacesWhileChecking, StagesWhatLanded
<1>5. HeldIsOnDisk'
  BY <1>1 DEF UpdatesInv, HeldIsOnDisk
<1>6. HeldIsStaged'
  BY DEF UpdatesInv, HeldIsStaged, Installable
<1>7. StatusIsOver' /\ EarlyAborts'
  BY <1>1 DEF StatusIsOver, EarlyAborts
<1> QED BY <1>2, <1>3, <1>4, <1>5, <1>6, <1>7, Zenon DEF UpdatesInv

(* What giving up shows. *)
LEMMA AbandonedShows ==
  ASSUME UpdatesInv, NEW s,
         s.is = "downloaded" => held # Nothing /\ s.version = held.version
  PROVE  LET new == Abandoned(s) IN
           /\ new.is = "downloaded" => held # Nothing /\ new.version = held.version
           /\ new = s \/ new.is \in {"downloaded", "no-update"}
           /\ superseding # Nothing /\ new = s => s.is = "downloaded" \/ ~ Matches(held, selection)
<1>1. CASE superseding = Nothing
  BY <1>1 DEF Abandoned
<1>2. CASE superseding # Nothing
  <2>1. Abandoned(s) = Reconciled(held, Nothing, selection, s)
    BY <1>2 DEF Abandoned
  <2>2. CASE Matches(held, selection)
    BY <2>1, <2>2 DEF Reconciled, Matches, Status
  <2>3. CASE ~ Matches(held, selection)
    BY <2>1, <2>3 DEF Reconciled, Status
  <2> QED BY <2>2, <2>3
<1> QED BY <1>1, <1>2

(* The check ends without a download, or the download fails or has ended. *)
LEMMA EndingSteps ==
  ASSUME UpdatesInv, FindsNone \/ DownloadFails \/ EndsCheck
  PROVE  UpdatesInv'
<1>1. CASE FindsNone
  <2>1. /\ UNCHANGED <<platform, selection, held, stage, excused, channelOf, native>>
        /\ check.at = "asking" /\ check' = NoCheck /\ superseding' = Nothing
        /\ armed' = IF superseding = Nothing THEN armed ELSE Armed(held, Nothing, selection)
    BY <1>1 DEF FindsNone, CheckEnds
  <2>2. PICK is \in {"no-update", "error"} :
          shown' = Abandoned(UnlessDownloaded(shown, Status(is, 0)))
    BY <1>1, Zenon DEF FindsNone
  <2> DEFINE s == UnlessDownloaded(shown, Status(is, 0))
  <2>3. Status(is, 0).is = is
    BY DEF Status
  <2>4. (s.is = "downloaded" /\ s = shown) \/ s.is = is
    BY <2>3 DEF UnlessDownloaded
  <2>5. s.is = "downloaded" => held # Nothing /\ s.version = held.version
    BY <2>4 DEF UpdatesInv, ShownIsHeld
  <2> HIDE DEF s
  <2>6. /\ shown'.is = "downloaded" => held # Nothing /\ shown'.version = held.version
        /\ shown'.is \notin {"checking", "available", "downloading"}
    BY <2>2, <2>4, <2>5, AbandonedShows DEF s
  <2>7. stage = Nothing
    BY <2>1 DEF UpdatesInv, StagesWhatLanded
  <2>8. UpdateShapes'
    BY <2>1 DEF UpdatesInv, UpdateShapes, NoCheck
  <2>9. channelOf' \in [Versions -> Tracks \cup {Nothing}]
    BY <2>1 DEF UpdatesInv, UpdateTypes
  <2> QED BY <2>1, <2>6, <2>7, <2>8, <2>9, GivingUp
<1>2. CASE DownloadFails
  <2>1. /\ UNCHANGED <<platform, selection, stage, excused>>
        /\ check.at = "downloading" /\ check' = NoCheck
        /\ channelOf' = IF check.canceled THEN [channelOf EXCEPT ![check.version] = Nothing]
                                          ELSE channelOf
        /\ native' = [native EXCEPT !.disk = 0, !.file = 0]
        /\ AbandonsAndShows(Status(IF check.canceled THEN "canceled" ELSE "error", check.version))
    BY <1>2 DEF DownloadFails, CheckEnds
  <2>2. /\ UNCHANGED held /\ superseding' = Nothing
        /\ armed' = IF superseding = Nothing THEN armed ELSE Armed(held, Nothing, selection)
        /\ shown' = UnlessDownloaded(Abandoned(shown),
                       Status(IF check.canceled THEN "canceled" ELSE "error", check.version))
    BY <2>1 DEF AbandonsAndShows
  <2> DEFINE s == Abandoned(shown)
             next == Status(IF check.canceled THEN "canceled" ELSE "error", check.version)
  <2>3. next.is \in {"canceled", "error"}
    BY DEF Status
  <2>4. s.is = "downloaded" => held # Nothing /\ s.version = held.version
    BY AbandonedShows DEF UpdatesInv, ShownIsHeld
  <2>5. (shown' = s /\ s.is = "downloaded") \/ shown' = next
    BY <2>2 DEF UnlessDownloaded
  <2> HIDE DEF s, next
  <2>6. /\ shown'.is = "downloaded" => held # Nothing /\ shown'.version = held.version
        /\ shown'.is \notin {"checking", "available", "downloading"}
    BY <2>3, <2>4, <2>5
  <2>7. stage = Nothing
    BY <2>1 DEF UpdatesInv, StagesWhatLanded
  <2>8. /\ UpdateShapes' /\ native'.disk = 0 /\ native'.file = 0
        /\ native'.fetching = native.fetching /\ native'.staged = native.staged
    BY <2>1 DEF UpdatesInv, UpdateShapes, NoCheck
  <2>9. channelOf' \in [Versions -> Tracks \cup {Nothing}]
    BY <2>1 DEF UpdatesInv, UpdateTypes
  <2> QED BY <2>1, <2>2, <2>6, <2>7, <2>8, <2>9, GivingUp
<1>3. CASE EndsCheck
  <2>1. /\ UNCHANGED <<platform, selection, held, stage, excused, channelOf, native>>
        /\ check.at = "landed" /\ stage = Nothing /\ check' = NoCheck /\ superseding' = Nothing
        /\ armed' = IF superseding = Nothing THEN armed ELSE Armed(held, Nothing, selection)
        /\ shown' = Abandoned(shown)
    BY <1>3 DEF EndsCheck, CheckEnds
  <2>2. shown' = shown
    BY <2>1 DEF UpdatesInv, ReplacesWhileChecking, Abandoned
  <2>3. /\ shown'.is = "downloaded" => held # Nothing /\ shown'.version = held.version
        /\ shown'.is \in {"checking", "available", "downloading"} =>
             held # Nothing /\ held.track # selection
    BY <2>1, <2>2 DEF UpdatesInv, ShownIsHeld, StatusIsOver
  <2>4. UpdateShapes'
    BY <2>1 DEF UpdatesInv, UpdateShapes, NoCheck
  <2>5. channelOf' \in [Versions -> Tracks \cup {Nothing}]
    BY <2>1 DEF UpdatesInv, UpdateTypes
  <2> QED BY <2>1, <2>3, <2>4, <2>5, GivingUp
<1> QED BY <1>1, <1>2, <1>3

(* The check ends where the release is read: the status is that of no check. *)
LEMMA ReadingEnds ==
  ASSUME UpdatesInv, check.at = "reading", check' = NoCheck,
         UNCHANGED <<platform, selection, held, superseding, armed, stage, excused, channelOf, native>>,
         \/ shown' = shown
         \/ \E is \in {"no-update", "error"} : shown' = UnlessDownloaded(shown, Status(is, 0))
  PROVE  UpdatesInv'
<1>1. superseding = Nothing /\ stage = Nothing
  BY DEF UpdatesInv, ReplacesWhileChecking, StagesWhatLanded
<1>2. shown' = shown \/ shown'.is \in {"no-update", "error"}
  BY DEF UnlessDownloaded, Status
<1>3. /\ shown'.is = "downloaded" => held # Nothing /\ shown'.version = held.version
      /\ shown'.is \in {"checking", "available", "downloading"} =>
           held # Nothing /\ held.track # selection
  BY <1>2 DEF UpdatesInv, ShownIsHeld, StatusIsOver
<1>4. UpdateShapes'
  BY DEF UpdatesInv, UpdateShapes, NoCheck
<1>5. channelOf' \in [Versions -> Tracks \cup {Nothing}]
  BY DEF UpdatesInv, UpdateTypes
<1> QED BY <1>1, <1>3, <1>4, <1>5, GivingUp

(* The release is read, or cannot be. *)
LEMMA ReadingSteps ==
  ASSUME UpdatesInv,
         (\E version \in 0 .. MaxVersion : ReadsRelease(version)) \/ ReleaseFails
  PROVE  UpdatesInv'
<1>1. CASE ReleaseFails
  <2>1. /\ check.at = "reading" /\ check' = NoCheck
        /\ UNCHANGED <<platform, selection, held, superseding, armed, stage, excused, channelOf, native>>
        /\ \/ shown' = shown
           \/ \E is \in {"no-update", "error"} : shown' = UnlessDownloaded(shown, Status(is, 0))
    BY <1>1 DEF ReleaseFails, CheckEnds, Shows
  <2> QED BY <2>1, ReadingEnds
<1>2. ASSUME NEW version \in 0 .. MaxVersion, ReadsRelease(version), ~ (version > check.replaces)
      PROVE  UpdatesInv'
  <2>1. /\ check.at = "reading" /\ check' = NoCheck
        /\ UNCHANGED <<platform, selection, held, superseding, armed, stage, excused, channelOf, native>>
        /\ \/ shown' = shown
           \/ shown' = UnlessDownloaded(shown, Status("no-update", 0))
    BY <1>2, Zenon DEF ReadsRelease, CheckEnds, Shows, offering
  <2> QED BY <2>1, ReadingEnds
<1>3. ASSUME NEW version \in 0 .. MaxVersion, ReadsRelease(version), version > check.replaces
      PROVE  UpdatesInv'
  <2> DEFINE replaced == IF check.replaces # 0 THEN held ELSE superseding
  <2>1. /\ check.at = "reading"
        /\ check' = [check EXCEPT !.at = "asking", !.version = version]
        /\ UNCHANGED <<platform, selection, held, stage, excused, channelOf, native>>
        /\ superseding' = replaced
        /\ armed' = IF check.replaces # 0 THEN Armed(held, replaced, selection) ELSE armed
        /\ shown' = UnlessDownloaded(shown, Status("checking", 0))
    BY <1>3 DEF ReadsRelease, BeginsSupersede
  <2>2. /\ UpdateShapes' /\ check'.at = "asking" /\ check'.track = check.track
        /\ check'.replaces = check.replaces /\ check'.version = version
        /\ check'.early = check.early
    BY <2>1 DEF UpdatesInv, UpdateShapes
  <2>3. superseding = Nothing /\ stage = Nothing /\ ~ check.early
    BY <2>1 DEF UpdatesInv, ReplacesWhileChecking, StagesWhatLanded, EarlyAborts
  <2>4. version \in Versions
    BY <1>3, UpdatesAssumption DEF UpdatesInv, UpdateTypes, Versions
  <2>5. UpdateTypes'
    BY <2>1, <2>2, <2>4 DEF UpdatesInv, UpdateTypes, CheckSteps, Downloads
  <2>6. ArmedRightly'
    BY <2>1 DEF UpdatesInv, ArmedRightly, Armed, Matches
  <2>7. shown' = shown \/ shown'.is = "checking"
    BY <2>1 DEF UnlessDownloaded, Status
  <2>8. ShownIsHeld' /\ ReplacesWhileChecking' /\ StagesWhatLanded'
    BY <2>1, <2>2, <2>3, <2>7
       DEF UpdatesInv, ShownIsHeld, ReplacesWhileChecking, StagesWhatLanded
  <2>9. HeldIsOnDisk'
    BY <2>1, <2>2, <2>3 DEF UpdatesInv, HeldIsOnDisk
  <2>10. HeldIsStaged'
    BY <2>1, <2>2, <2>3 DEF UpdatesInv, HeldIsStaged, Installable
  <2>11. StatusIsOver' /\ EarlyAborts'
    BY <2>2, <2>3 DEF StatusIsOver, EarlyAborts
  <2> QED BY <2>2, <2>5, <2>6, <2>8, <2>9, <2>10, <2>11 DEF UpdatesInv
<1> QED BY <1>1, <1>2, <1>3

(* The download begins: on Windows and Linux it takes the place of what was held. *)
LEMMA DownloadBegins ==
  ASSUME UpdatesInv, StartsDownload
  PROVE  UpdatesInv'
<1>1. /\ UNCHANGED <<platform, selection, stage, excused>>
      /\ check.at = "asking"
      /\ check' = [check EXCEPT !.at = "downloading", !.aborted = AppliesPendingCancel]
      /\ channelOf' = [channelOf EXCEPT ![check.version] = check.track]
      /\ shown' = Status("available", check.version)
      /\ native' = [native EXCEPT !.disk = IF @ = check.version THEN @ ELSE 0]
  BY DEF StartsDownload
<1>2. \/ /\ held # Nothing /\ platform # "darwin" /\ held' = Nothing
         /\ superseding' = IF superseding = Nothing THEN held ELSE superseding
         /\ armed' = Armed(Nothing, superseding', selection)
      \/ /\ ~ (held # Nothing /\ platform # "darwin")
         /\ UNCHANGED <<superseding, held, armed>>
  BY Zenon DEF StartsDownload, DropsHeld
<1>3. /\ UpdateShapes' /\ check'.at = "downloading" /\ check'.track = check.track
      /\ check'.replaces = check.replaces /\ check'.version = check.version
      /\ check'.early = check.early /\ check'.canceled = check.canceled
      /\ check'.aborted = check.canceled
      /\ native'.fetching = native.fetching /\ native'.staged = native.staged
      /\ native'.file = native.file
  BY <1>1 DEF UpdatesInv, UpdateShapes, AppliesPendingCancel
<1>4. UpdateTypes'
  <2>1. check.track \in Tracks
    BY <1>1 DEF UpdatesInv, UpdateTypes
  <2>2. channelOf' \in [Versions -> Tracks \cup {Nothing}]
    BY <1>1, <2>1 DEF UpdatesInv, UpdateTypes
  <2>3. held' \in Downloads /\ superseding' \in Downloads
    BY <1>2 DEF UpdatesInv, UpdateTypes, Downloads
  <2> QED BY <1>1, <1>3, <2>2, <2>3 DEF UpdatesInv, UpdateTypes, CheckSteps
<1>5. ArmedRightly'
  <2>1. CASE UNCHANGED <<superseding, held, armed>>
    BY <1>1, <2>1 DEF UpdatesInv, ArmedRightly, Armed, Matches
  <2>2. CASE held' = Nothing /\ armed' = Armed(Nothing, superseding', selection)
    BY <1>1, <2>2 DEF ArmedRightly, Armed, Matches
  <2> QED BY <1>2, <2>1, <2>2
<1>6. stage = Nothing
  BY <1>1 DEF UpdatesInv, StagesWhatLanded
<1>7. ShownIsHeld' /\ ReplacesWhileChecking' /\ StagesWhatLanded'
  BY <1>1, <1>3, <1>6 DEF ShownIsHeld, ReplacesWhileChecking, StagesWhatLanded, Status
<1>8. HeldIsOnDisk'
  BY <1>1, <1>2, <1>3 DEF UpdatesInv, HeldIsOnDisk
<1>9. HeldIsStaged'
  BY <1>1, <1>2, <1>3 DEF UpdatesInv, HeldIsStaged, Installable
<1>10. StatusIsOver'
  BY <1>3 DEF StatusIsOver
<1>11. EarlyAborts'
  BY <1>3 DEF UpdatesInv, EarlyAborts
<1> QED BY <1>3, <1>4, <1>5, <1>7, <1>8, <1>9, <1>10, <1>11 DEF UpdatesInv

(* Its progress is only shown. *)
LEMMA DownloadProgresses ==
  ASSUME UpdatesInv, Progresses
  PROVE  UpdatesInv'
<1>1. /\ UNCHANGED <<platform, selection, held, superseding, armed, check, stage, excused, channelOf, native>>
      /\ check.at = "downloading" /\ shown' = Status("downloading", check.version)
  BY DEF Progresses, Shows
<1>2. UpdateShapes' /\ UpdateTypes' /\ ArmedRightly' /\ ReplacesWhileChecking'
  BY <1>1 DEF UpdatesInv, UpdateShapes, UpdateTypes, ArmedRightly, Armed, Matches, ReplacesWhileChecking
<1>3. ShownIsHeld' /\ StagesWhatLanded' /\ StatusIsOver' /\ EarlyAborts'
  BY <1>1 DEF UpdatesInv, ShownIsHeld, StagesWhatLanded, StatusIsOver, EarlyAborts, Status
<1>4. HeldIsOnDisk' /\ HeldIsStaged'
  BY <1>1 DEF UpdatesInv, HeldIsOnDisk, HeldIsStaged, Installable
<1> QED BY <1>2, <1>3, <1>4 DEF UpdatesInv

(* What a download or a stage that has come in shows. *)
LEMMA OfferShows ==
  ASSUME NEW d \in Downloads, NEW s, NEW t, Offering(d, Nothing, s, t)
  PROVE  /\ held' = d /\ superseding' = Nothing /\ armed' = Armed(d, Nothing, t)
         /\ shown'.is = "downloaded" => d # Nothing /\ shown'.version = d.version
         /\ shown' = s \/ shown'.is \in {"downloaded", "no-update"}
         /\ shown'.is # "downloaded" => ~ Matches(d, t)
BY DEF Offering, Reconciled, Matches, Status

(* The download has landed: it is offered, or on macOS staged first if it replaces     *)
(* another.                                                                      *)
LEMMA Landing ==
  ASSUME UpdatesInv, DownloadLands
  PROVE  UpdatesInv'
<1> DEFINE track == IF channelOf[check.version] = Nothing THEN selection
                                                       ELSE channelOf[check.version]
           next  == [track |-> track, version |-> check.version]
<1>1. /\ UNCHANGED <<platform, selection>>
      /\ check.at = "downloading" /\ native.fetching = 0
      /\ check' = [check EXCEPT !.at = "landed"]
      /\ channelOf' = [channelOf EXCEPT ![check.version] = Nothing]
      /\ native' = [native EXCEPT !.disk = check.version, !.file = check.version,
                      !.fetching = IF platform = "darwin" /\ armed' THEN check.version ELSE @]
  BY DEF DownloadLands
<1>2. \/ /\ superseding # Nothing /\ platform = "darwin"
         /\ stage' = next /\ UNCHANGED <<held, superseding, shown, armed, excused>>
      \/ /\ ~ (superseding # Nothing /\ platform = "darwin")
         /\ Offering(next, Nothing, shown, selection)
         /\ excused' = (excused \/ (platform = "darwin" /\ (held # Nothing \/ ~ armed')))
         /\ UNCHANGED stage
  BY Zenon DEF DownloadLands, offering
<1>3. check.version \in Versions /\ selection \in Tracks
  BY <1>1 DEF UpdatesInv, UpdateTypes
<1>4. next \in HeldDownloads /\ next.version = check.version
  <2>1. track \in Tracks
    BY <1>3 DEF UpdatesInv, UpdateTypes
  <2> HIDE DEF track
  <2> QED BY <1>3, <2>1 DEF HeldDownloads
<1>5. next # Nothing /\ check.version # 0
  BY <1>4, DownloadIsSome
<1> HIDE DEF next
<1>6. /\ UpdateShapes' /\ check'.at = "landed" /\ check'.track = check.track
      /\ check'.replaces = check.replaces /\ check'.early = check.early
      /\ check'.canceled = check.canceled
      /\ native'.disk = check.version /\ native'.file = check.version
      /\ native'.staged = native.staged
      /\ native'.fetching = IF platform = "darwin" /\ armed' THEN check.version ELSE 0
  BY <1>1 DEF UpdatesInv, UpdateShapes
<1>7. stage = Nothing
  BY <1>1 DEF UpdatesInv, StagesWhatLanded
<1>8. channelOf' \in [Versions -> Tracks \cup {Nothing}]
  BY <1>1 DEF UpdatesInv, UpdateTypes
<1>9. EarlyAborts'
  BY <1>6 DEF UpdatesInv, EarlyAborts
<1>10. CASE /\ superseding # Nothing /\ platform = "darwin"
            /\ stage' = next /\ UNCHANGED <<held, superseding, shown, armed, excused>>
  <2>1. armed
    BY <1>10 DEF UpdatesInv, ArmedRightly, Armed
  <2>2. UpdateTypes'
    BY <1>1, <1>4, <1>6, <1>8, <1>10 DEF UpdatesInv, UpdateTypes, CheckSteps, Downloads
  <2>3. ArmedRightly' /\ ShownIsHeld'
    BY <1>1, <1>10 DEF UpdatesInv, ArmedRightly, Armed, Matches, ShownIsHeld
  <2>4. ReplacesWhileChecking' /\ StagesWhatLanded' /\ HeldIsOnDisk' /\ StatusIsOver'
    BY <1>1, <1>4, <1>5, <1>6, <1>10, <2>1
       DEF ReplacesWhileChecking, StagesWhatLanded, HeldIsOnDisk, StatusIsOver
  <2>5. held # Nothing /\ held.version # 0
    BY <1>10, DownloadIsSome DEF UpdatesInv, HeldIsStaged, UpdateTypes, Downloads
  <2>6. ~ excused => native.staged # 0 /\ held.version = native.staged
    BY <1>1, <1>10, <2>5 DEF UpdatesInv, HeldIsStaged, Installable
  <2>7. HeldIsStaged'
    BY <1>1, <1>5, <1>6, <1>10, <2>5, <2>6 DEF HeldIsStaged, Installable
  <2> QED BY <1>6, <1>9, <2>2, <2>3, <2>4, <2>7 DEF UpdatesInv
<1>11. CASE /\ ~ (superseding # Nothing /\ platform = "darwin")
            /\ Offering(next, Nothing, shown, selection)
            /\ excused' = (excused \/ (platform = "darwin" /\ (held # Nothing \/ ~ armed')))
            /\ UNCHANGED stage
  <2>1. next \in Downloads
    BY <1>4 DEF Downloads
  <2>2. /\ held' = next /\ superseding' = Nothing /\ armed' = Armed(next, Nothing, selection)
        /\ shown'.is = "downloaded" => shown'.version = next.version
        /\ shown'.is # "downloaded" => ~ Matches(next, selection)
    BY <1>11, <2>1, OfferShows
  <2>3. UpdateTypes'
    BY <1>1, <1>6, <1>7, <1>8, <1>11, <2>1, <2>2 DEF UpdatesInv, UpdateTypes, CheckSteps, Downloads
  <2>4. ArmedRightly' /\ ShownIsHeld'
    BY <1>1, <1>5, <2>2 DEF ArmedRightly, Armed, Matches, ShownIsHeld
  <2>5. ReplacesWhileChecking' /\ StagesWhatLanded'
    BY <1>7, <1>11, <2>2 DEF ReplacesWhileChecking, StagesWhatLanded
  <2>6. HeldIsOnDisk'
    BY <1>1, <1>4, <1>5, <1>6, <2>2 DEF HeldIsOnDisk
  <2>7. HeldIsStaged'
    <3>1. ASSUME platform = "darwin", ~ excused'
          PROVE  native.staged = 0 /\ armed'
      BY <1>11, <3>1 DEF UpdatesInv, HeldIsStaged
    <3> QED BY <1>1, <1>4, <1>5, <1>6, <1>7, <1>11, <2>2, <3>1 DEF HeldIsStaged, Installable
  <2>8. StatusIsOver'
    BY <1>1, <1>5, <2>2 DEF StatusIsOver, Matches
  <2> QED BY <1>6, <1>9, <2>3, <2>4, <2>5, <2>6, <2>7, <2>8 DEF UpdatesInv
<1> QED BY <1>2, <1>10, <1>11

(* Squirrel.Mac's answers, and its time limit: the offer stands again, or is the build *)
(* that was staged.                                                              *)
LEMMA StageSteps ==
  ASSUME UpdatesInv, SquirrelStages \/ SquirrelFails \/ StageTimesOut
  PROVE  UpdatesInv'
<1> DEFINE error == UnlessDownloaded(shown, Status("error", 0))
<1>1. /\ UNCHANGED <<platform, selection, check, channelOf>> /\ stage' = Nothing
  BY DEF SquirrelStages, SquirrelFails, StageTimesOut
<1>2. platform = "darwin"
  <2>1. native.fetching # 0 \/ stage # Nothing
    BY DEF SquirrelStages, SquirrelFails, StageTimesOut
  <2> QED BY <2>1 DEF UpdatesInv, HeldIsOnDisk, StagesWhatLanded
<1>3. /\ UpdateShapes'
      /\ native'.staged = IF SquirrelStages THEN native.fetching ELSE native.staged
  <2>1. CASE SquirrelStages
    BY <1>1, <2>1 DEF SquirrelStages, UpdatesInv, UpdateShapes
  <2>2. CASE ~ SquirrelStages
    BY <1>1, <2>2 DEF SquirrelFails, StageTimesOut, UpdatesInv, UpdateShapes
  <2> QED BY <2>1, <2>2
<1>4. HeldIsOnDisk' /\ StagesWhatLanded' /\ EarlyAborts'
  BY <1>1, <1>2 DEF UpdatesInv, HeldIsOnDisk, StagesWhatLanded, EarlyAborts
<1>5. held \in Downloads /\ stage \in Downloads /\ superseding \in Downloads
  BY DEF UpdatesInv, UpdateTypes
<1>6. error = shown \/ error.is = "error"
  BY DEF UnlessDownloaded, Status
<1>7. error.is = "downloaded" => held # Nothing /\ error.version = held.version
  BY <1>6 DEF UpdatesInv, ShownIsHeld
<1> HIDE DEF error
<1>8. ASSUME NEW d \in {held, stage}, d # Nothing, NEW s, Offering(d, Nothing, s, selection), HeldIsStaged'
      PROVE  UpdatesInv'
  <2>1. /\ held' = d /\ superseding' = Nothing /\ armed' = Armed(d, Nothing, selection)
        /\ shown'.is = "downloaded" => shown'.version = d.version
        /\ shown'.is # "downloaded" => ~ Matches(d, selection)
    BY <1>5, <1>8, OfferShows
  <2>2. UpdateTypes'
    BY <1>1, <1>5, <1>8, <2>1 DEF UpdatesInv, UpdateTypes, Downloads
  <2>3. ArmedRightly' /\ ShownIsHeld' /\ ReplacesWhileChecking' /\ StatusIsOver'
    BY <1>1, <1>8, <2>1
       DEF ArmedRightly, Armed, Matches, ShownIsHeld, ReplacesWhileChecking, StatusIsOver
  <2> QED BY <1>3, <1>4, <1>8, <2>2, <2>3 DEF UpdatesInv
<1>9. ASSUME stage = Nothing, UNCHANGED <<held, superseding, armed>>,
             shown' = shown \/ shown' = error, HeldIsStaged'
      PROVE  UpdatesInv'
  <2>1. UpdateTypes' /\ ArmedRightly' /\ ReplacesWhileChecking'
    BY <1>1, <1>9
       DEF UpdatesInv, UpdateTypes, ArmedRightly, Armed, Matches, ReplacesWhileChecking, Downloads
  <2>2. ShownIsHeld' /\ StatusIsOver'
    BY <1>1, <1>6, <1>9 DEF UpdatesInv, ShownIsHeld, StatusIsOver
  <2> QED BY <1>3, <1>4, <1>9, <2>1, <2>2 DEF UpdatesInv
<1>15. stage # Nothing => held # Nothing
  <2>1. stage # Nothing => native.fetching # 0
    BY <1>5, DownloadIsSome DEF UpdatesInv, StagesWhatLanded, Downloads
  <2> QED BY <1>2, <2>1 DEF UpdatesInv, HeldIsStaged
<1>10. CASE SquirrelStages /\ stage # Nothing
  <2>1. Offering(stage, Nothing, shown, selection) /\ native'.staged = native.fetching
        /\ native.fetching # 0 /\ native'.fetching = 0
    BY <1>3, <1>10 DEF SquirrelStages, UpdatesInv, UpdateShapes
  <2>2. native.fetching = stage.version
    BY <1>10 DEF UpdatesInv, StagesWhatLanded
  <2>3. held' = stage /\ superseding' = Nothing
    BY <2>1 DEF Offering
  <2>4. HeldIsStaged'
    BY <1>1, <1>2, <1>10, <2>1, <2>2, <2>3 DEF HeldIsStaged, Installable
  <2> QED BY <1>8, <1>10, <2>1, <2>4
<1>11. CASE SquirrelStages /\ stage = Nothing
  <2>1. /\ native'.staged = native.fetching /\ native.fetching # 0 /\ native'.fetching = 0
        /\ UNCHANGED <<held, superseding, armed, shown, excused>>
    BY <1>3, <1>11 DEF SquirrelStages, UpdatesInv, UpdateShapes, offering
  <2>2. HeldIsStaged'
    BY <1>1, <1>2, <1>11, <2>1 DEF UpdatesInv, HeldIsStaged, Installable
  <2> QED BY <1>9, <1>11, <2>1, <2>2
<1>12. CASE SquirrelFails /\ stage # Nothing
  <2>1. /\ Offering(held, Nothing, error, selection) /\ native'.staged = native.staged
        /\ native'.fetching = 0 /\ (excused' <=> excused)
    <3>1. Offering(held, Nothing, error, selection) /\ excused' = (excused \/ stage = Nothing)
          /\ native' = [native EXCEPT !.fetching = 0]
      BY <1>12, Zenon DEF SquirrelFails, error
    <3>2. native'.staged = native.staged /\ native'.fetching = 0
      BY <3>1 DEF UpdatesInv, UpdateShapes
    <3>3. ~ excused' <=> ~ excused
      BY <1>12, <3>1
    <3> QED BY <3>1, <3>2, <3>3
  <2>2. held' = held /\ superseding' = Nothing
    BY <2>1 DEF Offering
  <2>3. held # Nothing
    BY <1>12, <1>15
  <2>4. HeldIsStaged'
    BY <1>1, <1>2, <1>12, <2>1, <2>2, <2>3 DEF UpdatesInv, HeldIsStaged, Installable
  <2> QED BY <1>8, <2>1, <2>3, <2>4
<1>13. CASE SquirrelFails /\ stage = Nothing
  <2>1. /\ UNCHANGED <<held, superseding, armed>> /\ shown' = error /\ excused'
        /\ native'.staged = native.staged /\ native'.fetching = 0
    BY <1>13 DEF SquirrelFails, UpdatesInv, UpdateShapes, error, Shows
  <2>2. HeldIsStaged'
    BY <1>1, <1>2, <1>13, <2>1 DEF UpdatesInv, HeldIsStaged
  <2> QED BY <1>9, <1>13, <2>1, <2>2
<1>14. CASE StageTimesOut
  <2>1. /\ Offering(held, Nothing, shown, selection) /\ native' = native /\ excused'
        /\ stage # Nothing
    BY <1>14 DEF StageTimesOut
  <2>2. held' = held /\ superseding' = Nothing
    BY <2>1 DEF Offering
  <2>3. held # Nothing
    BY <1>15, <2>1
  <2>4. HeldIsStaged'
    BY <1>2, <2>1, <2>2, <2>3 DEF HeldIsStaged
  <2> QED BY <1>8, <2>1, <2>3, <2>4
<1> QED BY <1>10, <1>11, <1>12, <1>13, <1>14

-----------------------------------------------------------------------------
(* Every step keeps the invariant. *)
LEMMA UpdatesInvNext ==
  ASSUME UpdatesInv, [UpdatesNext]_updatesVars
  PROVE  UpdatesInv'
BY UserSteps, CancelSteps, EndingSteps, ReadingSteps, DownloadBegins, DownloadProgresses, Landing,
   StageSteps DEF UpdatesNext

(* What is held, offered, staged and on disk belong together, whatever is checked,    *)
(* replaced, canceled, deselected or refused (auto-updater.ts).                     *)
THEOREM UpdatesInvariant == UpdatesSpec => []UpdatesInv
<1> QED BY UpdatesInvInit, UpdatesInvNext, PTL DEF UpdatesSpec

(* A Restart offer names the build that is there to be installed, and a quit on        *)
(* Windows runs no installer that is gone or of a track not selected.               *)
THEOREM OffersAreThere == UpdatesSpec => []OfferedIsInstalled
<1>1. ASSUME UpdatesInv
      PROVE  OfferedIsInstalled
  <2>1. ASSUME shown.is = "downloaded", ~ excused
        PROVE  shown.version = Installable
    <3>1. held # Nothing /\ shown.version = held.version
      BY <1>1, <2>1 DEF UpdatesInv, ShownIsHeld
    <3>2. CASE platform = "darwin"
      BY <1>1, <2>1, <3>1, <3>2 DEF UpdatesInv, HeldIsStaged
    <3>3. CASE platform # "darwin"
      BY <1>1, <3>1, <3>3 DEF UpdatesInv, HeldIsOnDisk, Installable
    <3> QED BY <3>2, <3>3
  <2>2. ASSUME platform = "win32", armed, native.file # 0
        PROVE  native.disk = native.file /\ held = [track |-> selection, version |-> native.file]
    <3>1. superseding = Nothing /\ (held = Nothing \/ held.track = selection)
      BY <1>1, <2>2 DEF UpdatesInv, ArmedRightly, Armed, Matches
    <3>2. held # Nothing /\ native.disk = held.version /\ native.file = held.version
      BY <1>1, <2>2, <3>1 DEF UpdatesInv, HeldIsOnDisk
    <3>3. held \in HeldDownloads
      BY <1>1, <3>2 DEF UpdatesInv, UpdateTypes, Downloads
    <3> QED BY <3>1, <3>2, <3>3 DEF HeldDownloads
  <2> QED BY <2>1, <2>2 DEF OfferedIsInstalled
<1> QED BY <1>1, UpdatesInvariant, PTL

-----------------------------------------------------------------------------
(* How a download ends *)

(* What DownloadsSettle says of one step. *)
SettlesWell ==
  /\ check.early /\ check.at # "landed" /\ native.disk # check.version =>
       check'.at # "landed"
  /\ check.canceled /\ check.at = "downloading" /\ check'.at = "none" =>
       shown'.is \in {"canceled", "downloaded"}
  /\ superseding # Nothing /\ superseding' = Nothing /\ check'.at = "none" =>
       IF platform = "darwin" THEN held' # Nothing
                              ELSE held' \in {Nothing, superseding}

(* Nothing else ends a check that has something to replace or to download. *)
LEMMA OtherMoves ==
  ASSUME UpdatesInv, [UpdatesNext]_updatesVars, ~ FindsNone, ~ DownloadFails, ~ DownloadLands
  PROVE  /\ check'.at = "landed" => check.at = "landed"
         /\ check'.at = "none" =>
              check.at \in {"none", "reading"} \/ (check.at = "landed" /\ stage = Nothing)
<1> USE DEF UpdatesInv, UpdateShapes
<1>1. CASE \/ \E track \in Tracks : SelectionChanges(track)
           \/ StatusIsRead \/ ClicksRestart \/ Installs \/ InstallsPackage \/ Progresses
           \/ SquirrelStages \/ SquirrelFails \/ StageTimesOut \/ UNCHANGED updatesVars
  <2>1. check' = check
    BY <1>1 DEF SelectionChanges, StatusIsRead, ClicksRestart, Installs, InstallsPackage,
       Progresses, SquirrelStages, SquirrelFails, StageTimesOut, updatesVars
  <2>2. check.at = "none" => check.at \in {"none", "reading"}
    OBVIOUS
  <2> QED BY <2>1, <2>2
<1>2. CASE StartsCheck \/ Cancels \/ StartsDownload
  BY <1>2 DEF StartsCheck, Cancels, StartsDownload, NoCheck
<1>3. CASE EndsCheck \/ ReleaseFails
  BY <1>3 DEF EndsCheck, ReleaseFails, CheckEnds, NoCheck
<1>4. ASSUME NEW version \in 0 .. MaxVersion, ReadsRelease(version)
      PROVE  check.at = "reading" /\ check'.at \in {"asking", "none"}
  <2>1. check.at = "reading"
    BY <1>4 DEF ReadsRelease
  <2>2. check' = [check EXCEPT !.at = "asking", !.version = version] \/ check' = NoCheck
    BY <1>4, Zenon DEF ReadsRelease, CheckEnds
  <2>3. NoCheck.at = "none"
    BY DEF NoCheck
  <2>4. CASE check' = [check EXCEPT !.at = "asking", !.version = version]
    BY <2>1, <2>4
  <2> QED BY <2>1, <2>2, <2>3, <2>4
<1> QED BY <1>1, <1>2, <1>3, <1>4 DEF UpdatesNext

(* No step ends a download otherwise than it should. *)
LEMMA SettlingSteps ==
  ASSUME UpdatesInv, [UpdatesNext]_updatesVars
  PROVE  [SettlesWell]_updatesVars
<1>1. CASE FindsNone
  <2>1. check.at = "asking" /\ check'.at = "none" /\ held' = held
    BY <1>1 DEF FindsNone, CheckEnds, NoCheck
  <2> QED BY <2>1 DEF SettlesWell, UpdatesInv, HeldIsOnDisk, HeldIsStaged
<1>2. CASE DownloadFails
  <2>1. /\ check.at = "downloading" /\ check'.at = "none" /\ held' = held
        /\ shown' = UnlessDownloaded(Abandoned(shown),
                       Status(IF check.canceled THEN "canceled" ELSE "error", check.version))
    BY <1>2 DEF DownloadFails, CheckEnds, NoCheck, AbandonsAndShows
  <2>2. check.canceled => shown'.is \in {"canceled", "downloaded"}
    BY <2>1 DEF UnlessDownloaded, Status
  <2> QED BY <2>1, <2>2 DEF SettlesWell, UpdatesInv, HeldIsOnDisk, HeldIsStaged
<1>3. CASE DownloadLands
  <2>1. /\ check.at = "downloading" /\ check'.at = "landed"
        /\ ~ check.aborted \/ native.disk = check.version
    BY <1>3 DEF DownloadLands, UpdatesInv, UpdateShapes
  <2> QED BY <2>1 DEF SettlesWell, UpdatesInv, EarlyAborts
<1>4. CASE ~ FindsNone /\ ~ DownloadFails /\ ~ DownloadLands
  BY <1>4, OtherMoves DEF SettlesWell, UpdatesInv, EarlyAborts, ReplacesWhileChecking, StagesWhatLanded
<1> QED BY <1>1, <1>2, <1>3, <1>4

(* A download's end is shown, a cancel is never overtaken, and an older offer is put     *)
(* back where its installer still is (auto-updater.ts: abandonSupersede).            *)
THEOREM DownloadsEndWell == UpdatesSpec => DownloadsSettle
<1>1. UpdatesInv => StatusSettles
  BY DEF UpdatesInv, StatusIsOver, StatusSettles
<1>2. UpdatesInv /\ [UpdatesNext]_updatesVars => [SettlesWell]_updatesVars
  BY SettlingSteps
<1>3. DownloadsSettle <=> []StatusSettles /\ [][SettlesWell]_updatesVars
  BY PTL DEF DownloadsSettle, SettlesWell
<1> QED BY <1>1, <1>2, <1>3, UpdatesInvariant, PTL DEF UpdatesSpec
=============================================================================
