----------------------- MODULE PullFastForwardProofs -----------------------
(***************************************************************************)
(* That Pull loses no work it has seen, applies nobody else's, and reports *)
(* what is so, for any edits, branches and entries of the stash list, any  *)
(* number of acts of outsiders, and whatever fails, wedges or is killed.   *)
(***************************************************************************)
EXTENDS PullFastForward, FiniteSetTheorems, SequenceTheorems, TLAPS

(* The stash list *)

Entries == [by : {"pull", "other"}, edits : SUBSET (Edits \cup Foreign)]

Listed(s) == {s[i] : i \in DOMAIN s}

EditsIn(entries) == UNION {e.edits : e \in entries}

(* The entries with the message that only this pull uses. *)
Mine(s) == {e \in Listed(s) : e.by = "pull"}

(* An edit is in entries when it is in one of them. *)
LEMMA InEntries == \A L, x : x \in EditsIn(L) <=> \E e \in L : x \in e.edits
BY DEF EditsIn

(* A list of one entry. *)
LEMMA Single == \A e : DOMAIN <<e>> = {1} /\ <<e>>[1] = e
OBVIOUS

(* A push adds its entry to those listed. *)
LEMMA Pushing ==
  ASSUME NEW s \in Seq(Entries), NEW e \in Entries
  PROVE  <<e>> \o s \in Seq(Entries) /\ Listed(<<e>> \o s) = Listed(s) \cup {e}
<1> DEFINE t == <<e>> \o s
<1>1. t \in Seq(Entries) /\ Len(t) = Len(s) + 1 /\ t[1] = e
      /\ \A i \in 1..Len(s) : t[i + 1] = s[i]
  OBVIOUS
<1>2. DOMAIN s = 1..Len(s) /\ DOMAIN t = 1..(Len(s) + 1) /\ Len(s) \in Nat
  BY <1>1
<1>3. ASSUME NEW x \in Listed(t)
      PROVE  x \in Listed(s) \cup {e}
  <2>1. PICK i \in 1..(Len(s) + 1) : x = t[i]
    BY <1>2, <1>3 DEF Listed
  <2>2. CASE i = 1
    BY <1>1, <2>1, <2>2
  <2>3. CASE i # 1
    <3>1. i - 1 \in 1..Len(s) /\ t[(i - 1) + 1] = s[i - 1]
      BY <1>1, <1>2, <2>3
    <3>2. x = s[i - 1]
      BY <2>1, <3>1
    <3> QED BY <1>2, <3>1, <3>2 DEF Listed
  <2> QED BY <2>2, <2>3
<1>4. ASSUME NEW x \in Listed(s) \cup {e}
      PROVE  x \in Listed(t)
  <2>1. CASE x = e
    <3>1. 1 \in DOMAIN t
      BY <1>2
    <3> QED BY <1>1, <2>1, <3>1 DEF Listed
  <2>2. CASE x \in Listed(s)
    <3>1. PICK i \in 1..Len(s) : x = s[i]
      BY <1>2, <2>2 DEF Listed
    <3>2. i + 1 \in DOMAIN t /\ t[i + 1] = x
      BY <1>1, <1>2, <3>1
    <3> QED BY <3>2 DEF Listed
  <2> QED BY <1>4, <2>1, <2>2
<1> QED BY <1>1, <1>3, <1>4

(* A drop takes at most its entry from those listed. *)
LEMMA Dropping ==
  ASSUME NEW s \in Seq(Entries), NEW i \in DOMAIN s
  PROVE  /\ RemoveAt(s, i) \in Seq(Entries)
         /\ Listed(RemoveAt(s, i)) \subseteq Listed(s)
         /\ Listed(s) \subseteq Listed(RemoveAt(s, i)) \cup {s[i]}
<1> DEFINE n == Len(s)
           t == RemoveAt(s, i)
           l == SubSeq(s, 1, i - 1)
           r == SubSeq(s, i + 1, n)
<1>1. n \in Nat /\ DOMAIN s = 1..n /\ i \in 1..n
  OBVIOUS
<1>2. l \in Seq(Entries) /\ Len(l) = i - 1 /\ \A j \in 1..(i - 1) : l[j] = s[j]
  BY <1>1
<1>3. r \in Seq(Entries) /\ Len(r) = n - i /\ \A j \in 1..(n - i) : r[j] = s[i + j]
  BY <1>1
<1>4. t = l \o r
  BY DEF RemoveAt
<1> HIDE DEF n, l, r, t
<1>5. /\ t \in Seq(Entries) /\ Len(t) = n - 1 /\ DOMAIN t = 1..(n - 1)
      /\ \A j \in 1..(i - 1) : t[j] = s[j]
      /\ \A j \in 1..(n - i) : t[(i - 1) + j] = s[i + j]
  <2>1. l \o r \in Seq(Entries) /\ Len(l \o r) = n - 1
    <3>1. l \o r \in Seq(Entries) /\ Len(l \o r) = Len(l) + Len(r)
      <4>1. l \in Seq(Entries) /\ r \in Seq(Entries)
        BY <1>2, <1>3
      <4> QED BY <4>1
    <3>2. (i - 1) + (n - i) = n - 1
      BY <1>1
    <3> QED BY <1>2, <1>3, <3>1, <3>2
  <2>2. \A j \in 1..(i - 1) : (l \o r)[j] = l[j]
    BY <1>1, <1>2, <1>3
  <2>3. \A j \in 1..(n - i) : (l \o r)[(i - 1) + j] = r[j]
    BY <1>1, <1>2, <1>3
  <2>4. DOMAIN (l \o r) = 1..(n - 1)
    BY <2>1
  <2> QED BY <1>2, <1>3, <1>4, <2>1, <2>2, <2>3, <2>4
<1>6. ASSUME NEW x \in Listed(t)
      PROVE  x \in Listed(s)
  <2>1. PICK j \in 1..(n - 1) : x = t[j]
    BY <1>5, <1>6 DEF Listed
  <2>2. CASE j <= i - 1
    <3>1. x = s[j] /\ j \in DOMAIN s
      BY <1>1, <1>5, <2>1, <2>2
    <3> QED BY <3>1 DEF Listed
  <2>3. CASE ~ (j <= i - 1)
    <3> DEFINE k == j - (i - 1)
    <3>1. k \in 1..(n - i) /\ (i - 1) + k = j /\ i + k \in DOMAIN s
      BY <1>1, <2>1, <2>3
    <3>2. x = s[i + k]
      BY <1>5, <2>1, <3>1
    <3> QED BY <3>1, <3>2 DEF Listed
  <2> QED BY <2>2, <2>3
<1>7. ASSUME NEW x \in Listed(s), x # s[i]
      PROVE  x \in Listed(t)
  <2>1. PICK j \in 1..n : x = s[j]
    BY <1>1, <1>7 DEF Listed
  <2>2. CASE j < i
    <3>1. x = t[j] /\ j \in DOMAIN t
      BY <1>1, <1>5, <2>1, <2>2
    <3> QED BY <3>1 DEF Listed
  <2>3. CASE ~ (j < i)
    <3> DEFINE k == j - i
    <3>1. k \in 1..(n - i) /\ i + k = j /\ (i - 1) + k \in DOMAIN t
      BY <1>1, <1>5, <1>7, <2>1, <2>3
    <3>2. x = t[(i - 1) + k]
      BY <1>5, <2>1, <3>1
    <3> QED BY <3>1, <3>2 DEF Listed
  <2> QED BY <2>2, <2>3
<1> QED BY <1>5, <1>6, <1>7 DEF t
-----------------------------------------------------------------------------
(* What Pull has seen, and whose it is *)

Steps == PrimarySteps \cup RecoverySteps \cup {"done"}

(* Before the push: nothing on the stash list is this pull's. *)
Before == {"head", "fetch", "resolve", "status", "stash"}

(* After it: what was seen is no longer only in the checkout. *)
After == {"owned", "merge", "reset", "clean", "reapply", "fallback", "plain", "conflicts", "restore"}

(* The steps that apply the saved commit, or come between two that do. *)
Applying == {"reapply", "fallback", "plain", "conflicts", "restore"}

(* What is on the stash list, or went from it by an outsider's hand. *)
Safe == EditsIn(Listed(stashes)) \cup outside.committed \cup outside.dropped

Secured == pull.seen \subseteq Safe

PullFields == {"at", "original", "target", "seen", "stashed", "pushFailed", "sha", "failure", "outcome"}

Shapes ==
  /\ DOMAIN pull = PullFields
  /\ stashes \in Seq(Entries)
  /\ DOMAIN outside = {"acts", "committed", "dropped"}
  /\ work \subseteq Edits /\ pull.seen \subseteq Edits

SavedInv ==
  /\ pull.seen \subseteq work \cup Safe
  /\ pull.at \in After \/ Mine(stashes) # {} => Secured
  /\ pull.at \in Before => Mine(stashes) = {} /\ pull.sha = None

OwnInv ==
  /\ pull.at \in Applying => pull.sha # None
  /\ pull.sha # None => pull.sha.edits \subseteq Edits
  /\ \A e \in Mine(stashes) : e.edits \subseteq Edits
  /\ vanished \subseteq Tracked \cup Clashing

WorkInv == Shapes /\ SavedInv /\ OwnInv

(* Nothing is seen or saved yet. *)
LEMMA WorkInvInit == Init => WorkInv
<1> SUFFICES ASSUME Init
             PROVE  WorkInv
  OBVIOUS
<1>1. Shapes
  BY DEF Init, Shapes, PullFields
<1>2. Listed(stashes) = {}
  BY DEF Init, Listed
<1>3. Mine(stashes) = {} /\ pull.seen = {} /\ pull.sha = None /\ pull.at = "head" /\ vanished = {}
  BY <1>2 DEF Mine, Init
<1> QED BY <1>1, <1>3 DEF WorkInv, SavedInv, OwnInv, Secured, After, Applying

(* The list as the model reads it: by index. *)
LEMMA ListedByIndex ==
  ASSUME Shapes
  PROVE  /\ UNION {stashes[i].edits : i \in DOMAIN stashes} = EditsIn(Listed(stashes))
         /\ OwnEntries # {} <=> Mine(stashes) # {}
         /\ OwnEntries # {} => OwnStash \in Mine(stashes)
         /\ \A i \in DOMAIN stashes : stashes[i] \in Listed(stashes) /\ stashes[i] \in Entries
<1>1. UNION {stashes[i].edits : i \in DOMAIN stashes} = EditsIn(Listed(stashes))
  BY DEF Listed, EditsIn
<1>2. OwnEntries # {} <=> Mine(stashes) # {}
  BY DEF OwnEntries, Mine, Listed
<1>3. OwnEntries # {} => OwnStash \in Mine(stashes)
  BY DEF OwnEntries, OwnStash, Mine, Listed
<1>4. \A i \in DOMAIN stashes : stashes[i] \in Listed(stashes) /\ stashes[i] \in Entries
  BY DEF Listed, Shapes
<1> QED BY <1>1, <1>2, <1>3, <1>4

(* A step of the pull that leaves the stash list alone: work leaves the checkout    *)
(* only when what was seen is safe, and the commit applied is the pull's own.     *)
LEMMA PullFrame ==
  ASSUME WorkInv, UNCHANGED <<stashes, outside>>,
         DOMAIN pull' = PullFields, pull'.seen = pull.seen,
         pull'.at \in Before => pull.at \in Before,
         pull'.at \in After => Secured,
         work \subseteq work' \/ Secured, work' \subseteq Edits,
         pull'.at \in Applying => pull'.sha # None,
         pull'.sha = pull.sha \/ (pull'.sha \in Mine(stashes) /\ pull'.at \notin Before),
         vanished' \subseteq Tracked \cup Clashing
  PROVE  WorkInv'
<1>1. Safe' = Safe
  BY DEF Safe
<1>2. Shapes'
  BY DEF WorkInv, Shapes
<1>3. SavedInv'
  BY <1>1 DEF WorkInv, SavedInv, Secured
<1>4. OwnInv'
  BY DEF WorkInv, OwnInv
<1> QED BY <1>2, <1>3, <1>4 DEF WorkInv

(* A step of a watchdog or an outsider: what leaves the checkout or the list is     *)
(* counted as committed or dropped, and nobody but the pull writes its message.   *)
LEMMA OutsideFrame ==
  ASSUME WorkInv, UNCHANGED <<pull, vanished>>,
         stashes' \in Seq(Entries), DOMAIN outside' = {"acts", "committed", "dropped"},
         work' \subseteq Edits,
         Safe \subseteq Safe', work \subseteq work' \cup Safe',
         Mine(stashes') \subseteq Mine(stashes)
  PROVE  WorkInv'
<1>1. Shapes'
  BY DEF WorkInv, Shapes
<1>2. SavedInv'
  BY DEF WorkInv, SavedInv, Secured
<1>3. OwnInv'
  BY DEF WorkInv, OwnInv
<1> QED BY <1>1, <1>2, <1>3 DEF WorkInv

-----------------------------------------------------------------------------
(* The steps of Pull *)

(* A rollback begins: only a pull whose stash's commit is known, or that has saved  *)
(* nothing, goes on without looking for it.                                       *)
LEMMA RollingBack ==
  ASSUME NEW p, DOMAIN p = PullFields, NEW failure, RollsBack(p, failure)
  PROVE  /\ DOMAIN pull' = PullFields /\ pull'.seen = p.seen /\ pull'.sha = p.sha
         /\ pull'.failure = failure /\ pull'.original = p.original
         /\ pull'.stashed = p.stashed /\ pull'.pushFailed = p.pushFailed
         /\ pull'.at = IF p.stashed /\ p.sha = None THEN "owned again" ELSE "reset"
BY DEF RollsBack, PullFields

(* The reads change nothing but what the pull knows. *)
LEMMA ReadsStep ==
  ASSUME WorkInv, ReadFails \/ ReadHead \/ Fetch \/ Resolve
  PROVE  WorkInv'
<1>0. DOMAIN pull = PullFields /\ work \subseteq Edits /\ vanished \subseteq Tracked \cup Clashing
  BY DEF WorkInv, Shapes, OwnInv
<1>1. UNCHANGED <<stashes, outside, work, vanished>>
  BY DEF ReadFails, ReadHead, Fetch, Resolve, Unchanged, world
<1>2. /\ DOMAIN pull' = PullFields /\ pull'.seen = pull.seen /\ pull'.sha = pull.sha
      /\ pull.at \in Before /\ pull'.at \in {"fetch", "resolve", "status", "done"}
  BY <1>0 DEF ReadFails, ReadHead, Fetch, Resolve, Ended, Goes, PullFields, Reads, Before,
              Returns, Killed
<1> QED BY <1>0, <1>1, <1>2, PullFrame DEF Before, After, Applying

(* What is seen is what is there. *)
LEMMA StatusStep ==
  ASSUME WorkInv, Status
  PROVE  WorkInv'
<1>1. /\ pull.at = "status" /\ UNCHANGED <<stashes, outside, work, vanished>>
      /\ pull' = [pull EXCEPT !.seen = work, !.at = IF work = {} THEN "merge" ELSE "stash"]
  BY DEF Status, Returns, Unchanged, world
<1>2. /\ DOMAIN pull' = PullFields /\ pull'.seen = work /\ pull'.sha = pull.sha
      /\ pull'.at = IF work = {} THEN "merge" ELSE "stash"
  BY <1>1 DEF WorkInv, Shapes, PullFields
<1>3. Mine(stashes) = {} /\ pull.sha = None
  BY <1>1 DEF WorkInv, SavedInv, Before
<1>4. SavedInv'
  BY <1>1, <1>2, <1>3 DEF SavedInv, Secured, Before, After
<1> QED BY <1>1, <1>2, <1>3, <1>4 DEF WorkInv, Shapes, OwnInv, Applying

(* The push, whole or not: what leaves the checkout is on the list. *)
LEMMA StashStep ==
  ASSUME WorkInv, StashPush \/ StashPushFails
  PROVE  WorkInv'
<1> DEFINE new == [by |-> "pull", edits |-> work]
<1>0. /\ pull.at = "stash" /\ DOMAIN pull = PullFields /\ UNCHANGED <<outside, vanished>>
      /\ stashes \in Seq(Entries) /\ work \subseteq Edits
      /\ Mine(stashes) = {} /\ pull.sha = None
  BY DEF StashPush, StashPushFails, Returns, Killed, WorkInv, Shapes, SavedInv, Before
<1>1. /\ DOMAIN pull' = PullFields /\ pull'.seen = pull.seen /\ pull'.sha = None
      /\ pull'.at \in {"owned", "merge", "owned again"}
  <2>1. CASE StashPush
    BY <1>0, <2>1 DEF StashPush, Goes, PullFields
  <2>2. CASE StashPushFails
    <3> DEFINE p == [pull EXCEPT !.stashed = TRUE, !.pushFailed = TRUE]
    <3>1. PICK failure : RollsBack(p, failure)
      BY <2>2, Zenon DEF StashPushFails
    <3>2. DOMAIN p = PullFields /\ p.seen = pull.seen /\ p.sha = None /\ p.stashed
      BY <1>0 DEF PullFields
    <3> HIDE DEF p
    <3> QED BY <3>1, <3>2, RollingBack
  <2> QED BY <2>1, <2>2
<1>2. \/ UNCHANGED <<stashes, work>> /\ (pull'.at = "owned again" \/ work = {})
      \/ stashes' = <<new>> \o stashes /\ work' \subseteq work
  BY <1>0, <1>1 DEF StashPush, StashPushFails, Saved, Goes, PullFields, RollsBack
<1>3. CASE UNCHANGED <<stashes, work>> /\ (pull'.at = "owned again" \/ work = {})
  <2>1. pull'.at \in After => Secured
    BY <1>3, <1>1 DEF After, WorkInv, SavedInv, Secured
  <2> QED BY <1>0, <1>1, <1>3, <2>1, PullFrame DEF Before, Applying, WorkInv, OwnInv
<1>4. CASE stashes' = <<new>> \o stashes /\ work' \subseteq work
  <2>1. new \in Entries /\ new.edits = work /\ new.by = "pull"
    BY <1>0 DEF Entries
  <2> HIDE DEF new
  <2>2. stashes' \in Seq(Entries) /\ Listed(stashes') = Listed(stashes) \cup {new}
    BY <1>0, <1>4, <2>1, Pushing
  <2>3. Mine(stashes') = {new}
    BY <1>0, <2>1, <2>2 DEF Mine
  <2>4. Safe' = Safe \cup work
    <3>1. EditsIn(Listed(stashes) \cup {new}) = EditsIn(Listed(stashes)) \cup work
      BY <2>1, InEntries
    <3> QED BY <1>0, <2>2, <3>1 DEF Safe
  <2>5. Shapes'
    BY <1>0, <1>1, <1>4, <2>2 DEF WorkInv, Shapes
  <2>6. SavedInv'
    BY <1>1, <2>4 DEF WorkInv, SavedInv, Secured, Before
  <2>7. OwnInv'
    BY <1>0, <1>1, <2>1, <2>3 DEF WorkInv, OwnInv, Applying
  <2> QED BY <2>5, <2>6, <2>7 DEF WorkInv
<1> QED BY <1>2, <1>3, <1>4

(* Looking for the pull's entry, before the merge or before a rollback. *)
LEMMA OwnedStep ==
  ASSUME WorkInv, Owned \/ OwnedFails \/ OwnedAgain \/ OwnedAgainFails
  PROVE  WorkInv'
<1>0. /\ DOMAIN pull = PullFields /\ pull.at \in {"owned", "owned again"}
      /\ UNCHANGED <<stashes, outside, work, vanished>> /\ pull.at \notin Before
      /\ vanished \subseteq Tracked \cup Clashing /\ work \subseteq Edits
  BY DEF Owned, OwnedFails, OwnedAgain, OwnedAgainFails, Unchanged, world, Returns, Killed,
         WorkInv, Shapes, OwnInv, Before
<1>1. ASSUME OwnEntries # {}
      PROVE  OwnStash \in Mine(stashes) /\ Secured
  BY <1>1, ListedByIndex DEF WorkInv, SavedInv
<1>2. Cardinality(OwnEntries) = 1 => OwnEntries # {}
  BY FS_EmptySet
<1>3. CASE Owned
  <2>1. \/ /\ OwnEntries # {} /\ pull' = [pull EXCEPT !.sha = OwnStash, !.at = "merge"]
        \/ pull' = [pull EXCEPT !.at = "done", !.outcome = "ownership"]
    BY <1>2, <1>3 DEF Owned, Ended
  <2> QED BY <1>0, <1>1, <2>1, PullFrame DEF PullFields, Before, After, Applying
<1>4. CASE OwnedFails
  <2>1. PICK failure : RollsBack(pull, failure)
    BY <1>4, Zenon DEF OwnedFails
  <2>2. pull.at = "owned" /\ Secured
    BY <1>4 DEF OwnedFails, Returns, Killed, WorkInv, SavedInv, After
  <2> QED BY <1>0, <2>1, <2>2, RollingBack, PullFrame DEF Before, Applying
<1>5. CASE OwnedAgain
  <2>1. \/ /\ OwnEntries # {} /\ pull' = [pull EXCEPT !.sha = OwnStash, !.at = "reset"]
        \/ \E outcome : pull' = [pull EXCEPT !.at = "done", !.outcome = outcome]
    BY <1>2, <1>5 DEF OwnedAgain, WithoutProof, Ended
  <2> QED BY <1>0, <1>1, <2>1, PullFrame DEF PullFields, Before, After, Applying
<1>6. CASE OwnedAgainFails
  <2>1. pull' = [pull EXCEPT !.at = "done", !.outcome = "not restored"]
    BY <1>6 DEF OwnedAgainFails, Ended
  <2> QED BY <1>0, <2>1, PullFrame DEF PullFields, Before, After, Applying
<1> QED BY <1>3, <1>4, <1>5, <1>6

(* The merge moves the branch, or a rollback begins. *)
LEMMA MergeStep ==
  ASSUME WorkInv, Merge \/ MergeFails
  PROVE  WorkInv'
<1>0. /\ DOMAIN pull = PullFields /\ pull.at = "merge" /\ Secured
      /\ UNCHANGED <<stashes, outside, work, vanished>>
      /\ vanished \subseteq Tracked \cup Clashing /\ work \subseteq Edits
  BY DEF Merge, MergeFails, Returns, Killed, WorkInv, Shapes, SavedInv, OwnInv, After
<1>1. CASE Merge
  <2>1. \/ pull' = [pull EXCEPT !.at = "done", !.outcome = "pulled"]
        \/ pull.sha # None /\ pull' = [pull EXCEPT !.at = "reapply"]
    BY <1>1 DEF Merge, Ended, Goes
  <2> QED BY <1>0, <2>1, PullFrame DEF PullFields, Before, After, Applying
<1>2. CASE MergeFails
  <2>1. PICK failure : RollsBack(pull, failure)
    BY <1>2, Zenon DEF MergeFails
  <2> QED BY <1>0, <2>1, RollingBack, PullFrame DEF Before, Applying
<1> QED BY <1>1, <1>2

(* Applying the saved commit, wholly, partly or not at all, adds the pull's edits. *)
LEMMA Adding ==
  ASSUME WorkInv, NEW at \in Applying, Applied(at) \/ NotApplied(at)
  PROVE  /\ UNCHANGED <<stashes, outside, vanished>> /\ pull.at = at
         /\ pull.sha # None /\ Secured
         /\ work \subseteq work' /\ work' \subseteq Edits
<1>1. UNCHANGED <<stashes, outside, vanished>> /\ pull.at = at
      /\ (UNCHANGED work \/ work' = work \cup pull.sha.edits)
  BY DEF Applied, NotApplied, Returns, Killed
<1>2. pull.sha # None /\ Secured /\ work \subseteq Edits
  BY <1>1 DEF WorkInv, OwnInv, SavedInv, Shapes, Applying, After
<1> QED BY <1>1, <1>2 DEF WorkInv, OwnInv

(* Work is put back after a fast-forward or a rollback. *)
LEMMA ApplyStep ==
  ASSUME WorkInv, Reapply \/ ReapplyFails \/ Restore \/ RestoreFails
  PROVE  WorkInv'
<1>1. PICK at \in {"reapply", "plain", "restore"} :
        /\ Applied(at) \/ NotApplied(at)
        /\ \/ \E outcome : Ended(outcome)
           \/ at # "restore" /\ \E next \in {"fallback", "conflicts"} : Goes(next)
  <2>1. CASE Reapply
    BY <2>1 DEF Reapply
  <2>2. CASE ReapplyFails
    BY <2>2 DEF ReapplyFails, Goes
  <2>3. CASE Restore \/ RestoreFails
    BY <2>3 DEF Restore, RestoreFails
  <2> QED BY <2>1, <2>2, <2>3
<1>2. /\ UNCHANGED <<stashes, outside, vanished>> /\ pull.at = at
      /\ pull.sha # None /\ Secured
      /\ work \subseteq work' /\ work' \subseteq Edits
  BY <1>1, Adding DEF Applying
<1>3. DOMAIN pull = PullFields /\ vanished \subseteq Tracked \cup Clashing
  BY DEF WorkInv, Shapes, OwnInv
<1>4. /\ DOMAIN pull' = PullFields /\ pull'.seen = pull.seen /\ pull'.sha = pull.sha
      /\ pull'.at \in {"done", "fallback", "conflicts"}
  BY <1>1, <1>3 DEF Ended, Goes, PullFields
<1> QED BY <1>2, <1>3, <1>4, PullFrame DEF Before

(* Between two attempts, and after the last. *)
LEMMA FallbackStep ==
  ASSUME WorkInv, Fallback \/ Conflicts \/ ReapplyReadFails
  PROVE  WorkInv'
<1>1. /\ UNCHANGED <<stashes, outside, work, vanished>> /\ pull.at \in {"fallback", "conflicts"}
      /\ \/ \E outcome : Ended(outcome)
         \/ \E next \in {"plain", "conflicts"} : Goes(next)
  BY DEF Fallback, Conflicts, ReapplyReadFails, Unchanged, world, Returns, Killed, Goes
<1>2. /\ DOMAIN pull = PullFields /\ vanished \subseteq Tracked \cup Clashing
      /\ work \subseteq Edits /\ pull.sha # None /\ Secured
  BY <1>1 DEF WorkInv, Shapes, OwnInv, SavedInv, After, Applying
<1>3. /\ DOMAIN pull' = PullFields /\ pull'.seen = pull.seen /\ pull'.sha = pull.sha
      /\ pull'.at \in {"done", "plain", "conflicts"}
  BY <1>1, <1>2 DEF Ended, Goes, PullFields
<1> QED BY <1>1, <1>2, <1>3, PullFrame DEF Before

(* A rollback takes away tracked changes and files the upstream adds. *)
LEMMA RollbackStep ==
  ASSUME WorkInv, RollbackResets \/ RollbackCleans \/ RollbackFails
  PROVE  WorkInv'
<1>1. UNCHANGED <<stashes, outside>> /\ pull.at \in {"reset", "clean"}
  BY DEF RollbackResets, RollbackCleans, RollbackFails, Returns, Killed
<1>2. UNCHANGED <<work, vanished>> \/ Reset \/ Cleans
  BY DEF RollbackResets, RollbackCleans, RollbackFails
<1>3. /\ DOMAIN pull = PullFields /\ vanished \subseteq Tracked \cup Clashing
      /\ work \subseteq Edits /\ Secured
  BY <1>1 DEF WorkInv, Shapes, OwnInv, SavedInv, After
<1>4. work' \subseteq Edits /\ vanished' \subseteq Tracked \cup Clashing
  BY <1>2, <1>3 DEF Reset, Cleans, Cleaned
<1>5. \/ \E outcome : Ended(outcome)
      \/ Goes("clean")
      \/ pull.sha # None /\ Goes("restore")
  BY DEF RollbackResets, RollbackCleans, RollbackFails
<1>6. /\ DOMAIN pull' = PullFields /\ pull'.seen = pull.seen /\ pull'.sha = pull.sha
      /\ pull'.at \in {"done", "clean", "restore"}
      /\ pull'.at = "restore" => pull.sha # None
  BY <1>3, <1>5 DEF Ended, Goes, PullFields
<1> QED BY <1>1, <1>3, <1>4, <1>6, PullFrame DEF Before, Applying

-----------------------------------------------------------------------------
(* The steps of everybody else *)

(* An outsider edits, commits, switches branches, or works on the stash list. *)
LEMMA OutsiderStep ==
  ASSUME WorkInv, Outsider
  PROVE  WorkInv'
<1>0. /\ Shapes /\ UNCHANGED <<pull, vanished>>
      /\ stashes \in Seq(Entries) /\ work \subseteq Edits
      /\ DOMAIN outside = {"acts", "committed", "dropped"}
  BY DEF WorkInv, Shapes, Outsider, Edit, CommitAll, Switch, SiblingStash, SiblingDrop, Acts, Stacks
<1>1. CASE (\E e \in Edits : Edit(e)) \/ (\E b \in Branches : Switch(b))
  <2>1. UNCHANGED stashes /\ work \subseteq work' /\ work' \subseteq Edits
    BY <1>0, <1>1 DEF Edit, Switch
  <2>2. outside' = [outside EXCEPT !.acts = @ + 1]
    BY <1>1 DEF Edit, Switch
  <2>3. /\ DOMAIN outside' = {"acts", "committed", "dropped"}
        /\ outside'.committed = outside.committed /\ outside'.dropped = outside.dropped
    BY <1>0, <2>2
  <2> QED BY <1>0, <2>1, <2>3, OutsideFrame DEF Safe
<1>2. CASE CommitAll
  <2>1. /\ UNCHANGED stashes /\ work' = {}
        /\ outside' = [outside EXCEPT !.acts = @ + 1, !.committed = @ \cup work]
    BY <1>2 DEF CommitAll
  <2>2. /\ DOMAIN outside' = {"acts", "committed", "dropped"}
        /\ outside'.committed = outside.committed \cup work /\ outside'.dropped = outside.dropped
    BY <1>0, <2>1
  <2> QED BY <1>0, <2>1, <2>2, OutsideFrame DEF Safe
<1>3. CASE SiblingStash
  <2>1. UNCHANGED work /\ outside' = [outside EXCEPT !.acts = @ + 1]
    BY <1>3 DEF SiblingStash, Stacks
  <2>2. PICK e \in Entries : /\ stashes' = <<e>> \o stashes
                             /\ e.by = "pull" => e \in Listed(stashes)
    <3>1. CASE \E f \in Foreign : stashes' = <<[by |-> "other", edits |-> {f}]>> \o stashes
      <4>1. PICK f \in Foreign : stashes' = <<[by |-> "other", edits |-> {f}]>> \o stashes
        BY <3>1
      <4>2. [by |-> "other", edits |-> {f}] \in Entries
        BY DEF Entries
      <4> QED BY <4>1, <4>2
    <3>2. CASE \E i \in DOMAIN stashes : stashes' = <<stashes[i]>> \o stashes
      BY <1>0, <3>2, ListedByIndex
    <3> QED BY <1>3, <3>1, <3>2 DEF SiblingStash
  <2>3. stashes' \in Seq(Entries) /\ Listed(stashes') = Listed(stashes) \cup {e}
    BY <1>0, <2>2, Pushing
  <2>4. Mine(stashes') \subseteq Mine(stashes)
    BY <2>2, <2>3 DEF Mine
  <2>5. /\ DOMAIN outside' = {"acts", "committed", "dropped"}
        /\ outside'.committed = outside.committed /\ outside'.dropped = outside.dropped
    BY <1>0, <2>1
  <2>6. Safe \subseteq Safe'
    BY <2>3, <2>5, InEntries DEF Safe
  <2> QED BY <1>0, <2>1, <2>3, <2>4, <2>5, <2>6, OutsideFrame
<1>4. CASE SiblingDrop
  <2>1. PICK i \in DOMAIN stashes :
          /\ stashes' = RemoveAt(stashes, i)
          /\ outside' = [outside EXCEPT !.acts = @ + 1, !.dropped = @ \cup stashes[i].edits]
    BY <1>4 DEF SiblingDrop
  <2>2. /\ stashes' \in Seq(Entries) /\ Listed(stashes') \subseteq Listed(stashes)
        /\ Listed(stashes) \subseteq Listed(stashes') \cup {stashes[i]}
    BY <1>0, <2>1, Dropping
  <2>3. /\ UNCHANGED work /\ DOMAIN outside' = {"acts", "committed", "dropped"}
        /\ outside'.committed = outside.committed
        /\ outside'.dropped = outside.dropped \cup stashes[i].edits
    BY <1>0, <1>4, <2>1 DEF SiblingDrop, Stacks
  <2>4. Safe \subseteq Safe'
    BY <2>2, <2>3, InEntries DEF Safe
  <2>5. Mine(stashes') \subseteq Mine(stashes)
    BY <2>2 DEF Mine
  <2> QED BY <1>0, <2>2, <2>3, <2>4, <2>5, OutsideFrame
<1> QED BY <1>1, <1>2, <1>3, <1>4 DEF Outsider

(* Signals and watchdogs touch neither the pull's knowledge nor the checkout. *)
LEMMA SignalStep ==
  ASSUME WorkInv, Cancel \/ Wedges \/ Timeout \/ UNCHANGED vars
  PROVE  WorkInv'
<1>1. UNCHANGED <<pull, vanished, stashes, outside, work>>
  BY DEF Cancel, Wedges, Timeout, vars, world
<1> QED BY <1>1 DEF WorkInv, Shapes, SavedInv, OwnInv, Secured, Safe

(* No step of anybody breaks the invariant. *)
LEMMA WorkInvNext ==
  ASSUME WorkInv, [Next]_vars
  PROVE  WorkInv'
<1>1. CASE PullStep
  BY <1>1, ReadsStep, StatusStep, StashStep, OwnedStep, MergeStep, ApplyStep, FallbackStep,
     RollbackStep DEF PullStep
<1> QED BY <1>1, OutsiderStep, SignalStep DEF Next

(* The invariant of both theorems. *)
LEMMA WorkInvariant == Spec => []WorkInv
<1>1. WorkInv /\ [Next]_vars => WorkInv'
  BY WorkInvNext
<1> QED BY <1>1, WorkInvInit, PTL DEF Spec

(* What was uncommitted when Pull looked is never lost, whichever command fails,    *)
(* wedges or is killed and whatever others do to the checkout and the list: before *)
(* the push it is in the checkout, and a reset comes only once it is on the list. *)
THEOREM WorkSurvives == Spec => []SavedWorkSurvives
<1>1. WorkInv => SavedWorkSurvives
  <2> SUFFICES ASSUME WorkInv, NEW x \in pull.seen,
                      x \notin work \cup outside.committed \cup outside.dropped
               PROVE  x \in UNION {stashes[i].edits : i \in DOMAIN stashes}
    BY DEF SavedWorkSurvives
  <2>1. x \in EditsIn(Listed(stashes))
    BY DEF WorkInv, SavedInv, Safe
  <2>2. PICK e \in Listed(stashes) : x \in e.edits
    BY <2>1, InEntries
  <2>3. PICK i \in DOMAIN stashes : x \in stashes[i].edits
    BY <2>2 DEF Listed
  <2> QED BY <2>3
<1> QED BY <1>1, WorkInvariant, PTL

(* Nothing of a sibling's stash gets into the checkout, however the shared stack    *)
(* shifts, and a rollback takes nothing but tracked changes and the files that the *)
(* upstream adds.                                                                 *)
THEOREM OnlyOwnWork == Spec => []NoForeignWork
<1>1. WorkInv => NoForeignWork
  BY PullAssumption DEF WorkInv, Shapes, OwnInv, NoForeignWork
<1> QED BY <1>1, WorkInvariant, PTL
-----------------------------------------------------------------------------
(* What Pull reports, when nobody interferes *)

Failures == {"failed", "canceled", "timed out"}

(* The pull's entry, as its push makes it. *)
Own == [by |-> "pull", edits |-> pull.seen]

NothingSaved == stashes = <<>> /\ pull.sha = None

InStash == stashes = <<Own>>

Known == InStash /\ pull.sha = Own

(* All that was seen is in the pull's stash, or nothing was. *)
SavedIfAny == Known \/ (NothingSaved /\ pull.seen = {} /\ ~ pull.stashed)

AsFound == tip[branch] = pull.original /\ ~ unmerged

(* A result that says that nothing has changed, though it could be wrong. *)
Truthful ==
  /\ pull.outcome = "pulled" =>
       tip[branch].ff /\ pull.seen \subseteq work /\ Recoverable /\ recovery # "timed out"
  /\ pull.outcome = "pulled with conflicts" =>
       tip[branch].ff /\ Recoverable /\ recovery # "timed out"
  /\ pull.outcome = "not reapplied" => Recoverable /\ recovery # "timed out"
  /\ pull.outcome # "ownership"
  /\ pull.outcome \in {"not rolled back", "not restored"} \/ recovery = "timed out" =>
       pull.seen \subseteq work \/ Recoverable
  /\ pull.outcome \in Failures \cup {"stale"} /\ recovery # "timed out" =>
       pull.original = None \/ Restored
  /\ pull.outcome \in Failures \cup {"stale", "pulled", "pulled with conflicts", "not reapplied",
                                     "not rolled back", "not restored"}

(* What holds at each step of an undisturbed pull. *)
Progress ==
  /\ pull.at = "head" => pull.original = None /\ NothingSaved /\ pull.seen = {} /\ ~ pull.stashed
                         /\ ~ unmerged
  /\ pull.at \in {"fetch", "resolve", "status"} =>
       AsFound /\ NothingSaved /\ pull.seen = {} /\ ~ pull.stashed
  /\ pull.at = "stash" => AsFound /\ NothingSaved /\ pull.seen = work /\ work # {}
  /\ pull.at = "owned" => AsFound /\ InStash /\ pull.sha = None /\ pull.stashed
  /\ pull.at = "merge" => AsFound /\ SavedIfAny
  /\ pull.at \in {"status", "stash", "owned", "merge"} => pull.target.ff
  /\ pull.at \in {"reapply", "fallback", "plain", "conflicts"} => tip[branch].ff /\ Known
  /\ pull.at = "owned again" =>
       /\ AsFound /\ pull.sha = None
       /\ InStash \/ (stashes = <<>> /\ pull.seen \subseteq work /\ pull.pushFailed)
  /\ pull.at = "reset" => SavedIfAny
  /\ pull.at = "clean" => AsFound /\ SavedIfAny
  /\ pull.at = "restore" => AsFound /\ Known
  /\ pull.at \in {"owned again", "reset", "clean", "restore"} => pull.failure \in Failures
  /\ pull.at = "done" => Truthful

Signals ==
  /\ signal \in {"live", "canceled", "timed out"}
  /\ recovery \in {"off", "live", "timed out"}
  /\ pull.at \in PrimarySteps => recovery = "off"
  /\ pull.at \in RecoverySteps => recovery # "off"

Undisturbed ==
  /\ DOMAIN pull = PullFields /\ pull.at \in Steps
  /\ branch \in DOMAIN tip
  /\ Signals /\ Progress

QuietInv == /\ DOMAIN outside = {"acts", "committed", "dropped"} /\ outside.acts \in Nat
            /\ Quiet => Undisturbed

(* Nothing is saved or learnt yet. *)
LEMMA QuietInvInit == Init => QuietInv
<1> SUFFICES ASSUME Init
             PROVE  QuietInv
  OBVIOUS
<1>1. /\ DOMAIN pull = PullFields /\ pull.at = "head" /\ pull.original = None /\ pull.sha = None
      /\ pull.seen = {} /\ ~ pull.stashed /\ stashes = <<>> /\ ~ unmerged
      /\ DOMAIN outside = {"acts", "committed", "dropped"} /\ outside.acts \in Nat
      /\ signal = "live" /\ recovery = "off"
  BY DEF Init, PullFields
<1>2. branch \in DOMAIN tip
  BY PullAssumption DEF Init
<1>3. Signals
  BY <1>1 DEF Signals, PrimarySteps, RecoverySteps
<1>4. Progress
  BY <1>1 DEF Progress, NothingSaved
<1> QED BY <1>1, <1>2, <1>3, <1>4 DEF QuietInv, Undisturbed, Steps, PrimarySteps

(* An undisturbed pull's list holds its entry, or nothing. *)
LEMMA OwnOnly ==
  /\ InStash => Cardinality(OwnEntries) = 1 /\ OwnStash = Own /\ Recoverable
  /\ stashes = <<>> => Cardinality(OwnEntries) # 1
<1>1. ASSUME InStash
      PROVE  Cardinality(OwnEntries) = 1 /\ OwnStash = Own /\ Recoverable
  <2>1. DOMAIN stashes = {1} /\ stashes[1] = Own
    BY <1>1 DEF InStash
  <2>2. OwnEntries = {1}
    BY <2>1 DEF OwnEntries, Own
  <2>3. OwnStash = Own
    BY <2>1, <2>2 DEF OwnStash
  <2>4. Recoverable
    BY <2>1, <2>2 DEF Recoverable, Own
  <2> QED BY <2>2, <2>3, <2>4, FS_Singleton
<1>2. ASSUME stashes = <<>>
      PROVE  Cardinality(OwnEntries) # 1
  <2>1. OwnEntries = {}
    BY <1>2 DEF OwnEntries
  <2> QED BY <2>1, FS_EmptySet
<1> QED BY <1>1, <1>2

(* A pull that ends with a failure where all is as it was says so. *)
LEMMA FailsRestored ==
  ASSUME DOMAIN pull = PullFields, branch' \in DOMAIN tip', Signals',
         NEW outcome \in Failures \cup {"stale"}, Ended(outcome),
         (pull.original = None /\ pull.seen = {}) \/ Restored'
  PROVE  Undisturbed'
<1>1. /\ DOMAIN pull' = PullFields /\ pull'.at = "done" /\ pull'.outcome = outcome
      /\ pull'.original = pull.original /\ pull'.seen = pull.seen
  BY DEF Ended, PullFields
<1>2. pull'.seen \subseteq work'
  BY <1>1 DEF Restored
<1>3. Truthful'
  BY <1>1, <1>2 DEF Truthful, Failures
<1> QED BY <1>1, <1>3 DEF Undisturbed, Progress, Steps

(* The reads find a checkout and leave it so. *)
LEMMA QuietReads ==
  ASSUME Undisturbed, ReadFails \/ ReadHead \/ Fetch \/ Resolve \/ Status
  PROVE  Undisturbed'
<1>0. /\ DOMAIN pull = PullFields /\ branch \in DOMAIN tip /\ pull.at \in Reads
      /\ recovery = "off" /\ signal \in {"live", "canceled", "timed out"}
      /\ UNCHANGED <<signal, recovery, branch, tip, work, unmerged, stashes>>
  BY DEF Undisturbed, Signals, ReadFails, ReadHead, Fetch, Resolve, Status, Reads, PrimarySteps,
         Unchanged, control, world, Returns, Killed
<1>1. /\ NothingSaved /\ pull.seen = {} /\ ~ pull.stashed /\ ~ unmerged
      /\ IF pull.at = "head" THEN pull.original = None ELSE AsFound
      /\ pull.at = "status" => pull.target.ff
  BY <1>0 DEF Undisturbed, Progress, Reads, AsFound
<1>2. ASSUME NEW outcome \in Failures \cup {"stale"}, Ended(outcome)
      PROVE  Undisturbed'
  <2>1. pull'.at = "done" /\ pull'.seen = pull.seen /\ pull'.original = pull.original
    BY <1>0, <1>2 DEF Ended, PullFields
  <2>2. Signals'
    BY <1>0, <2>1 DEF Signals, PrimarySteps, RecoverySteps
  <2>3. (pull.original = None /\ pull.seen = {}) \/ Restored'
    BY <1>0, <1>1, <2>1 DEF AsFound, Restored
  <2> QED BY <1>0, <1>2, <2>2, <2>3, FailsRestored
<1>3. ASSUME DOMAIN pull' = PullFields, pull'.at \in PrimarySteps, Progress'
      PROVE  Undisturbed'
  BY <1>0, <1>3 DEF Undisturbed, Signals, Steps, PrimarySteps, RecoverySteps
<1>4. CASE ReadFails
  <2>1. Ended("failed") \/ (signal # "live" /\ Ended(signal))
    BY <1>4 DEF ReadFails, Killed, SignalOf, Reads, RecoverySteps
  <2> QED BY <1>0, <1>2, <2>1 DEF Failures
<1>5. CASE ReadHead
  <2>1. pull' = [pull EXCEPT !.at = "fetch", !.original = tip[branch]]
    BY <1>5 DEF ReadHead
  <2>2. /\ DOMAIN pull' = PullFields /\ pull'.at = "fetch" /\ pull'.original = tip[branch]
        /\ pull'.sha = pull.sha /\ pull'.seen = pull.seen /\ pull'.stashed = pull.stashed
    BY <1>0, <2>1 DEF PullFields
  <2> QED BY <1>0, <1>1, <1>3, <2>2 DEF Progress, PrimarySteps, NothingSaved, AsFound
<1>6. CASE Fetch
  <2>1. pull' = [pull EXCEPT !.at = "resolve"] /\ pull.at = "fetch"
    BY <1>6 DEF Fetch, Goes, Returns
  <2>2. /\ DOMAIN pull' = PullFields /\ pull'.at = "resolve" /\ pull'.original = pull.original
        /\ pull'.sha = pull.sha /\ pull'.seen = pull.seen /\ pull'.stashed = pull.stashed
    BY <1>0, <2>1 DEF PullFields
  <2> QED BY <1>0, <1>1, <1>3, <2>1, <2>2 DEF Progress, PrimarySteps, NothingSaved, AsFound
<1>7. CASE Resolve
  <2>1. CASE Ended("stale")
    BY <1>2, <2>1
  <2>2. CASE pull' = [pull EXCEPT !.at = "status", !.target = Upstream(branch)]
    <3>1. pull.at = "resolve"
      BY <1>7 DEF Resolve, Returns
    <3>2. /\ DOMAIN pull' = PullFields /\ pull'.at = "status" /\ pull'.original = pull.original
          /\ pull'.sha = pull.sha /\ pull'.seen = pull.seen /\ pull'.stashed = pull.stashed
          /\ pull'.target.ff
      BY <1>0, <2>2 DEF PullFields, Upstream, Commit
    <3> QED BY <1>0, <1>1, <1>3, <3>1, <3>2 DEF Progress, PrimarySteps, NothingSaved, AsFound
  <2> QED BY <1>7, <2>1, <2>2 DEF Resolve
<1>8. CASE Status
  <2>1. /\ pull' = [pull EXCEPT !.seen = work, !.at = IF work = {} THEN "merge" ELSE "stash"]
        /\ pull.at = "status"
    BY <1>8 DEF Status, Returns
  <2>2. /\ DOMAIN pull' = PullFields /\ pull'.at = (IF work = {} THEN "merge" ELSE "stash")
        /\ pull'.original = pull.original /\ pull'.target = pull.target
        /\ pull'.sha = pull.sha /\ pull'.seen = work /\ pull'.stashed = pull.stashed
    BY <1>0, <2>1 DEF PullFields
  <2>3. AsFound' /\ NothingSaved' /\ pull'.target.ff
    BY <1>0, <1>1, <2>1, <2>2 DEF NothingSaved, AsFound
  <2>4. CASE work = {}
    <3>1. pull'.at = "merge" /\ SavedIfAny'
      BY <1>1, <2>2, <2>3, <2>4 DEF SavedIfAny
    <3> QED BY <1>3, <2>2, <2>3, <3>1 DEF Progress, PrimarySteps
  <2>5. CASE work # {}
    <3>1. pull'.at = "stash" /\ pull'.seen = work' /\ work' # {}
      BY <1>0, <2>2, <2>5
    <3> QED BY <1>3, <2>2, <2>3, <3>1 DEF Progress, PrimarySteps
  <2> QED BY <2>4, <2>5
<1> QED BY <1>4, <1>5, <1>6, <1>7, <1>8

(* The push saves what was seen, and its failure is told after the rollback. *)
LEMMA QuietStash ==
  ASSUME Undisturbed, StashPush \/ StashPushFails
  PROVE  Undisturbed'
<1>0. /\ DOMAIN pull = PullFields /\ branch \in DOMAIN tip /\ pull.at = "stash"
      /\ recovery = "off" /\ signal \in {"live", "canceled", "timed out"}
      /\ AsFound /\ stashes = <<>> /\ pull.sha = None /\ pull.seen = work /\ work # {}
      /\ pull.target.ff
      /\ UNCHANGED <<signal, branch, tip>>
  BY DEF Undisturbed, Signals, Progress, NothingSaved, StashPush, StashPushFails, PrimarySteps,
         control, Returns, Killed
<1>1. Saved = <<Own>>
  <2>1. <<Own>> \in Seq({Own})
    OBVIOUS
  <2>2. <<Own>> \o <<>> = <<Own>>
    BY <2>1, ConcatEmptySeq
  <2> QED BY <1>0, <2>2 DEF Saved, Own
<1>2. CASE StashPush
  <2>1. /\ pull' = [pull EXCEPT !.at = "owned", !.stashed = TRUE] /\ UNCHANGED recovery
        /\ stashes' = <<Own>> /\ unmerged' = FALSE
    BY <1>0, <1>1, <1>2 DEF StashPush, control
  <2>2. /\ DOMAIN pull' = PullFields /\ pull'.at = "owned" /\ pull'.original = pull.original
        /\ pull'.sha = None /\ pull'.seen = pull.seen /\ pull'.stashed /\ pull'.target.ff
    BY <1>0, <2>1 DEF PullFields
  <2>3. Signals'
    BY <1>0, <2>1, <2>2 DEF Signals, RecoverySteps
  <2>4. Progress'
    BY <1>0, <2>1, <2>2 DEF Progress, InStash, Own, AsFound
  <2> QED BY <1>0, <2>2, <2>3, <2>4 DEF Undisturbed, Steps, PrimarySteps
<1>3. CASE StashPushFails
  <2> DEFINE p == [pull EXCEPT !.stashed = TRUE, !.pushFailed = TRUE]
             failure == IF signal = "live" THEN "failed" ELSE signal
  <2>1. RollsBack(p, failure) /\ UNCHANGED unmerged
    BY <1>3, Zenon DEF StashPushFails
  <2>2. \/ UNCHANGED <<stashes, work>>
        \/ stashes' = <<Own>>
    BY <1>1, <1>3 DEF StashPushFails
  <2>3. /\ DOMAIN p = PullFields /\ p.stashed /\ p.pushFailed /\ p.sha = None
        /\ p.seen = pull.seen /\ p.original = pull.original /\ failure \in Failures
    BY <1>0 DEF PullFields, Failures
  <2>4. recovery' = "live"
    BY <2>1 DEF RollsBack, StartRecovery
  <2> HIDE DEF p, failure
  <2>5. /\ DOMAIN pull' = PullFields /\ pull'.seen = pull.seen /\ pull'.sha = None
        /\ pull'.failure \in Failures /\ pull'.original = pull.original
        /\ pull'.pushFailed /\ pull'.at = "owned again"
    BY <2>1, <2>3, RollingBack
  <2>6. Signals'
    BY <1>0, <2>4, <2>5 DEF Signals, PrimarySteps
  <2>7. Progress'
    BY <1>0, <2>1, <2>2, <2>5 DEF Progress, InStash, Own, AsFound
  <2> QED BY <1>0, <2>5, <2>6, <2>7 DEF Undisturbed, Steps, RecoverySteps
<1> QED BY <1>2, <1>3

(* The pull finds its one entry before the merge. *)
LEMMA QuietOwned ==
  ASSUME Undisturbed, Owned \/ OwnedFails
  PROVE  Undisturbed'
<1>0. /\ DOMAIN pull = PullFields /\ branch \in DOMAIN tip /\ pull.at = "owned"
      /\ recovery = "off" /\ signal \in {"live", "canceled", "timed out"}
      /\ AsFound /\ InStash /\ pull.sha = None /\ pull.stashed /\ pull.target.ff
      /\ UNCHANGED <<signal, branch, tip, work, unmerged, stashes>>
  BY DEF Undisturbed, Signals, Progress, Owned, OwnedFails, PrimarySteps,
         Unchanged, control, world, Returns, Killed
<1>1. CASE Owned
  <2>1. pull' = [pull EXCEPT !.sha = Own, !.at = "merge"] /\ UNCHANGED recovery
    BY <1>0, <1>1, OwnOnly DEF Owned, Unchanged, control
  <2>2. /\ DOMAIN pull' = PullFields /\ pull'.at = "merge" /\ pull'.original = pull.original
        /\ pull'.sha = Own /\ pull'.seen = pull.seen /\ pull'.target = pull.target
    BY <1>0, <2>1 DEF PullFields
  <2>3. Signals'
    BY <1>0, <2>1, <2>2 DEF Signals, RecoverySteps
  <2>4. Progress'
    BY <1>0, <2>2 DEF Progress, SavedIfAny, Known, InStash, Own, AsFound
  <2> QED BY <1>0, <2>2, <2>3, <2>4 DEF Undisturbed, Steps, PrimarySteps
<1>2. CASE OwnedFails
  <2> DEFINE failure == IF signal = "live" THEN "failed" ELSE signal
  <2>1. RollsBack(pull, failure) /\ failure \in Failures
    BY <1>0, <1>2 DEF OwnedFails, Failures
  <2>2. recovery' = "live"
    BY <2>1 DEF RollsBack, StartRecovery
  <2> HIDE DEF failure
  <2>3. /\ DOMAIN pull' = PullFields /\ pull'.seen = pull.seen /\ pull'.sha = None
        /\ pull'.failure \in Failures /\ pull'.original = pull.original
        /\ pull'.at = "owned again"
    BY <1>0, <2>1, RollingBack
  <2>4. Signals'
    BY <1>0, <2>2, <2>3 DEF Signals, PrimarySteps
  <2>5. Progress'
    BY <1>0, <2>3 DEF Progress, InStash, Own, AsFound
  <2> QED BY <1>0, <2>3, <2>4, <2>5 DEF Undisturbed, Steps, RecoverySteps
<1> QED BY <1>1, <1>2

(* An entry of the list is not None. *)
LEMMA OwnIsEntry ==
  ASSUME WorkInv
  PROVE  Own # None
<1>1. Own \in Entries
  BY DEF WorkInv, Shapes, Own, Entries
<1> QED BY <1>1, PullAssumption DEF Entries

(* The merge brings the upstream's commits; without one, a rollback begins. *)
LEMMA QuietMerge ==
  ASSUME Undisturbed, WorkInv, Merge \/ MergeFails
  PROVE  Undisturbed'
<1>0. /\ DOMAIN pull = PullFields /\ branch \in DOMAIN tip /\ pull.at = "merge"
      /\ recovery = "off" /\ signal \in {"live", "canceled", "timed out"}
      /\ AsFound /\ SavedIfAny /\ pull.target.ff
      /\ UNCHANGED <<signal, branch, work, unmerged, stashes>>
  BY DEF Undisturbed, Signals, Progress, Merge, MergeFails, PrimarySteps, Returns, Killed
<1>1. CASE Merge
  <2>1. tip' = IF UpToDate THEN tip ELSE [tip EXCEPT ![branch] = pull.target]
    BY <1>1 DEF Merge
  <2>2. branch' \in DOMAIN tip' /\ tip'[branch'].ff
    BY <1>0, <2>1 DEF UpToDate
  <2>3. CASE pull.sha = None
    <3>1. Ended("pulled") /\ UNCHANGED recovery
      BY <1>1, <2>3 DEF Merge
    <3>2. pull.seen = {}
      BY <1>0, <2>3, OwnIsEntry DEF SavedIfAny, Known
    <3>3. /\ DOMAIN pull' = PullFields /\ pull'.at = "done" /\ pull'.outcome = "pulled"
          /\ pull'.seen = {}
      BY <1>0, <3>1, <3>2 DEF Ended, PullFields
    <3>4. Signals'
      BY <1>0, <3>1, <3>3 DEF Signals, PrimarySteps, RecoverySteps
    <3>5. Recoverable'
      BY <3>3 DEF Recoverable
    <3>6. Truthful'
      BY <1>0, <2>2, <3>1, <3>3, <3>5 DEF Truthful, Failures
    <3> QED BY <2>2, <3>3, <3>4, <3>6 DEF Undisturbed, Progress, Steps
  <2>4. CASE pull.sha # None
    <3>1. pull' = [pull EXCEPT !.at = "reapply"] /\ recovery' = "live"
      BY <1>1, <2>4 DEF Merge, Goes, StartRecovery
    <3>2. /\ DOMAIN pull' = PullFields /\ pull'.at = "reapply" /\ pull'.seen = pull.seen
          /\ pull'.sha = pull.sha
      BY <1>0, <3>1 DEF PullFields
    <3>3. Known'
      BY <1>0, <2>4, <3>2 DEF SavedIfAny, NothingSaved, Known, InStash, Own
    <3>4. Signals'
      BY <1>0, <3>1, <3>2 DEF Signals, PrimarySteps
    <3> QED BY <2>2, <3>2, <3>3, <3>4 DEF Undisturbed, Progress, Steps, RecoverySteps
  <2> QED BY <2>3, <2>4
<1>2. CASE MergeFails
  <2>1. PICK failure \in Failures : RollsBack(pull, failure)
    BY <1>0, <1>2 DEF MergeFails, Killed, SignalOf, RecoverySteps, Failures
  <2>2. recovery' = "live"
    BY <2>1 DEF RollsBack, StartRecovery
  <2>3. branch' \in DOMAIN tip'
    BY <1>0, <1>2 DEF MergeFails
  <2>4. /\ DOMAIN pull' = PullFields /\ pull'.seen = pull.seen /\ pull'.sha = pull.sha
        /\ pull'.failure \in Failures /\ pull'.stashed = pull.stashed
        /\ pull'.at = IF pull.stashed /\ pull.sha = None THEN "owned again" ELSE "reset"
    BY <1>0, <2>1, RollingBack
  <2>5. pull'.at = "reset"
    BY <1>0, <2>4, OwnIsEntry DEF SavedIfAny, Known
  <2>6. SavedIfAny'
    BY <1>0, <2>4 DEF SavedIfAny, NothingSaved, Known, InStash, Own
  <2>7. Signals'
    BY <1>0, <2>2, <2>5 DEF Signals, PrimarySteps
  <2> QED BY <2>3, <2>4, <2>5, <2>6, <2>7 DEF Undisturbed, Progress, Steps, RecoverySteps
<1> QED BY <1>1, <1>2

(* An ending for which the work is in its stash, or in place: the branch has the    *)
(* upstream's commits, or the answer says that something is left to do.           *)
LEMMA EndsInStash ==
  ASSUME Undisturbed, Known, pull.at \in RecoverySteps,
         UNCHANGED <<signal, recovery, branch, stashes>>, branch' \in DOMAIN tip',
         NEW outcome, Ended(outcome),
         \/ outcome = "pulled" /\ tip'[branch'].ff /\ pull.seen \subseteq work' /\ recovery = "live"
         \/ outcome = "pulled with conflicts" /\ tip'[branch'].ff /\ recovery = "live"
         \/ outcome = "not reapplied" /\ recovery = "live"
         \/ outcome \in {"not rolled back", "not restored"}
         \/ outcome = "timed out" /\ recovery = "timed out"
  PROVE  Undisturbed'
<1>1. /\ DOMAIN pull' = PullFields /\ pull'.at = "done" /\ pull'.outcome = outcome
      /\ pull'.seen = pull.seen /\ pull'.sha = pull.sha
  BY DEF Undisturbed, Ended, PullFields
<1>2. InStash'
  BY <1>1 DEF Known, InStash, Own
<1>3. Recoverable'
  <2>1. stashes' = <<Own'>>
    BY <1>2 DEF InStash
  <2>2. 1 \in DOMAIN stashes' /\ stashes'[1] = Own'
    BY <2>1, Single
  <2>3. Own'.by = "pull" /\ Own'.edits = pull'.seen
    BY DEF Own
  <2> QED BY <2>2, <2>3 DEF Recoverable, OwnEntries
<1>4. Signals'
  BY <1>1 DEF Undisturbed, Signals, PrimarySteps, RecoverySteps
<1>5. Truthful'
  BY <1>1, <1>3 DEF Truthful, Failures
<1> QED BY <1>1, <1>4, <1>5 DEF Undisturbed, Progress, Steps

(* After a fast-forward the work comes back, or stays in its stash. *)
LEMMA QuietReapply ==
  ASSUME Undisturbed, Reapply \/ ReapplyFails \/ Fallback \/ Conflicts \/ ReapplyReadFails
  PROVE  Undisturbed'
<1>0. /\ DOMAIN pull = PullFields /\ branch \in DOMAIN tip
      /\ pull.at \in {"reapply", "fallback", "plain", "conflicts"}
      /\ signal \in {"live", "canceled", "timed out"} /\ recovery \in {"live", "timed out"}
      /\ tip[branch].ff /\ Known
      /\ UNCHANGED <<signal, recovery, branch, tip, stashes>>
  BY DEF Undisturbed, Signals, Progress, Reapply, ReapplyFails, Fallback, Conflicts,
         ReapplyReadFails, RecoverySteps, Unchanged, control, world, Applied, NotApplied,
         Returns, Killed
<1>1. pull.at \in RecoverySteps
  BY <1>0 DEF RecoverySteps
<1>2. \A at : Returns(at) => recovery = "live"
  BY <1>1 DEF Returns, SignalOf
<1>3. \A at : Killed(at) => recovery = "timed out"
  BY <1>0, <1>1 DEF Killed, SignalOf
<1>4. ASSUME NEW at \in {"fallback", "plain", "conflicts"}, Goes(at)
      PROVE  Undisturbed'
  <2>1. /\ DOMAIN pull' = PullFields /\ pull'.at = at
        /\ pull'.seen = pull.seen /\ pull'.sha = pull.sha
    BY <1>0, <1>4 DEF Goes, PullFields
  <2>2. Known'
    BY <1>0, <2>1 DEF Known, InStash, Own
  <2>3. Signals'
    BY <1>0, <2>1 DEF Signals, PrimarySteps
  <2> QED BY <1>0, <2>1, <2>2, <2>3 DEF Undisturbed, Progress, Steps, RecoverySteps
<1>5. CASE Reapply
  <2>1. Ended("pulled") /\ recovery = "live" /\ work' = work \cup pull.sha.edits
    BY <1>2, <1>5 DEF Reapply, Applied
  <2>2. pull.sha.edits = pull.seen
    <3>1. pull.sha = Own
      BY <1>0 DEF Known
    <3>2. Own.edits = pull.seen
      BY DEF Own
    <3> QED BY <3>1, <3>2
  <2>3. pull.seen \subseteq work'
    BY <2>1, <2>2
  <2> QED BY <1>0, <1>1, <2>1, <2>3, EndsInStash
<1>6. CASE ReapplyFails
  <2>1. \/ recovery = "timed out" /\ Ended("timed out")
        \/ Goes("fallback") \/ Goes("conflicts")
    BY <1>3, <1>6 DEF ReapplyFails
  <2> QED BY <1>0, <1>1, <1>4, <2>1, EndsInStash
<1>7. CASE Fallback
  <2>1. Goes("plain") \/ Goes("conflicts")
    BY <1>7 DEF Fallback
  <2> QED BY <1>4, <2>1
<1>8. CASE Conflicts \/ ReapplyReadFails
  <2>1. \/ recovery = "live" /\ (Ended("pulled with conflicts") \/ Ended("not reapplied"))
        \/ recovery = "timed out" /\ Ended("timed out")
    BY <1>2, <1>3, <1>8 DEF Conflicts, ReapplyReadFails
  <2> QED BY <1>0, <1>1, <2>1, EndsInStash
<1> QED BY <1>5, <1>6, <1>7, <1>8

(* In a rollback, a command that returns has a live signal, one killed an aborted. *)
LEMMA RecoverySignals ==
  ASSUME Undisturbed, pull.at \in RecoverySteps
  PROVE  /\ \A at : Returns(at) => recovery = "live"
         /\ \A at : Killed(at) => recovery = "timed out"
BY DEF Undisturbed, Signals, Returns, Killed, SignalOf

(* A rollback that did not know the stash's commit looks for it, and without it     *)
(* leaves the checkout as it is.                                                  *)
LEMMA QuietOwnedAgain ==
  ASSUME Undisturbed, OwnedAgain \/ OwnedAgainFails
  PROVE  Undisturbed'
<1>0. /\ DOMAIN pull = PullFields /\ branch \in DOMAIN tip /\ pull.at = "owned again"
      /\ signal \in {"live", "canceled", "timed out"} /\ recovery \in {"live", "timed out"}
      /\ AsFound /\ pull.sha = None /\ pull.failure \in Failures
      /\ InStash \/ (stashes = <<>> /\ pull.seen \subseteq work /\ pull.pushFailed)
      /\ UNCHANGED <<signal, recovery, branch, tip, work, unmerged, stashes>>
  BY DEF Undisturbed, Signals, Progress, OwnedAgain, OwnedAgainFails, RecoverySteps,
         Unchanged, control, world, Returns, Killed
<1>1. CASE OwnedAgain
  <2>1. CASE InStash
    <3>1. pull' = [pull EXCEPT !.sha = Own, !.at = "reset"]
      BY <1>1, <2>1, OwnOnly DEF OwnedAgain
    <3>2. /\ DOMAIN pull' = PullFields /\ pull'.at = "reset" /\ pull'.failure = pull.failure
          /\ pull'.sha = Own /\ pull'.seen = pull.seen
      BY <1>0, <3>1 DEF PullFields
    <3>3. SavedIfAny'
      BY <1>0, <2>1, <3>2 DEF SavedIfAny, Known, InStash, Own
    <3>4. Signals'
      BY <1>0, <3>2 DEF Signals, PrimarySteps
    <3> QED BY <1>0, <3>2, <3>3, <3>4 DEF Undisturbed, Progress, Steps, RecoverySteps
  <2>2. CASE stashes = <<>> /\ pull.seen \subseteq work /\ pull.pushFailed
    <3>1. Ended(pull.failure)
      BY <1>1, <2>2, OwnOnly DEF OwnedAgain, WithoutProof
    <3>2. /\ pull'.at = "done" /\ pull'.original = pull.original /\ pull'.seen = pull.seen
      BY <1>0, <3>1 DEF Ended, PullFields
    <3>3. Restored'
      BY <1>0, <2>2, <3>2 DEF Restored, AsFound
    <3>4. Signals'
      BY <1>0, <3>2 DEF Signals, PrimarySteps, RecoverySteps
    <3> QED BY <1>0, <3>1, <3>3, <3>4, FailsRestored
  <2> QED BY <1>0, <2>1, <2>2
<1>2. CASE OwnedAgainFails
  <2>1. /\ DOMAIN pull' = PullFields /\ pull'.at = "done" /\ pull'.outcome = "not restored"
        /\ pull'.seen = pull.seen
    BY <1>0, <1>2 DEF OwnedAgainFails, Ended, PullFields
  <2>2. pull.seen \subseteq work \/ Recoverable
    BY <1>0, OwnOnly
  <2>3. pull'.seen \subseteq work' \/ Recoverable'
    BY <1>0, <2>1, <2>2 DEF Recoverable, OwnEntries
  <2>4. Truthful'
    BY <2>1, <2>3 DEF Truthful, Failures
  <2>5. Signals'
    BY <1>0, <2>1 DEF Signals, PrimarySteps, RecoverySteps
  <2> QED BY <1>0, <2>1, <2>4, <2>5 DEF Undisturbed, Progress, Steps
<1> QED BY <1>1, <1>2

(* The branch goes back to where it was, and new files of the upstream go. *)
LEMMA QuietRollback ==
  ASSUME Undisturbed, WorkInv, RollbackResets \/ RollbackCleans \/ RollbackFails
  PROVE  Undisturbed'
<1>0. /\ DOMAIN pull = PullFields /\ branch \in DOMAIN tip /\ pull.at \in {"reset", "clean"}
      /\ signal \in {"live", "canceled", "timed out"} /\ recovery \in {"live", "timed out"}
      /\ SavedIfAny /\ pull.failure \in Failures
      /\ pull.at = "clean" => AsFound
      /\ UNCHANGED <<signal, recovery, branch, stashes>>
  BY DEF Undisturbed, Signals, Progress, RollbackResets, RollbackCleans, RollbackFails,
         RecoverySteps, control, Returns, Killed
<1>1. /\ \A at : Returns(at) => recovery = "live"
      /\ \A at : Killed(at) => recovery = "timed out"
  BY <1>0, RecoverySignals DEF RecoverySteps
<1>2. Reset => branch' \in DOMAIN tip' /\ tip'[branch'] = pull.original /\ ~ unmerged'
  BY <1>0 DEF Reset
<1>3. CASE RollbackResets
  <2>1. Reset /\ Goes("clean")
    BY <1>3 DEF RollbackResets
  <2>2. /\ DOMAIN pull' = PullFields /\ pull'.at = "clean" /\ pull'.failure = pull.failure
        /\ pull'.sha = pull.sha /\ pull'.seen = pull.seen /\ pull'.original = pull.original
        /\ pull'.stashed = pull.stashed
    BY <1>0, <2>1 DEF Goes, PullFields
  <2>3. SavedIfAny'
    BY <1>0, <2>2 DEF SavedIfAny, NothingSaved, Known, InStash, Own
  <2>4. AsFound'
    BY <1>2, <2>1, <2>2 DEF AsFound
  <2>5. Signals'
    BY <1>0, <2>2 DEF Signals, PrimarySteps
  <2> QED BY <1>0, <1>2, <2>1, <2>2, <2>3, <2>4, <2>5 DEF Undisturbed, Progress, Steps, RecoverySteps
<1>4. CASE RollbackCleans
  <2>0. AsFound /\ UNCHANGED <<tip, unmerged>>
    BY <1>0, <1>4 DEF RollbackCleans, Returns
  <2>1. CASE pull.sha = None
    <3>1. Ended(pull.failure) /\ pull.seen = {}
      BY <1>0, <1>4, <2>1, OwnIsEntry DEF RollbackCleans, SavedIfAny, Known
    <3>2. pull'.at = "done" /\ pull'.original = pull.original /\ pull'.seen = {}
      BY <1>0, <3>1 DEF Ended, PullFields
    <3>3. Restored'
      BY <1>0, <2>0, <3>2 DEF Restored, AsFound
    <3>4. Signals'
      BY <1>0, <3>2 DEF Signals, PrimarySteps, RecoverySteps
    <3> QED BY <1>0, <2>0, <3>1, <3>3, <3>4, FailsRestored
  <2>2. CASE pull.sha # None
    <3>1. Goes("restore") /\ Known
      BY <1>0, <1>4, <2>2 DEF RollbackCleans, SavedIfAny, NothingSaved
    <3>2. /\ DOMAIN pull' = PullFields /\ pull'.at = "restore" /\ pull'.failure = pull.failure
          /\ pull'.sha = pull.sha /\ pull'.seen = pull.seen /\ pull'.original = pull.original
      BY <1>0, <3>1 DEF Goes, PullFields
    <3>3. Known' /\ AsFound'
      BY <1>0, <2>0, <3>1, <3>2 DEF Known, InStash, Own, AsFound
    <3>4. Signals'
      BY <1>0, <3>2 DEF Signals, PrimarySteps
    <3> QED BY <1>0, <2>0, <3>2, <3>3, <3>4 DEF Undisturbed, Progress, Steps, RecoverySteps
  <2> QED BY <2>1, <2>2
<1>5. CASE RollbackFails
  <2>1. \/ Ended("not rolled back")
        \/ recovery = "timed out" /\ Ended("timed out")
    BY <1>1, <1>5 DEF RollbackFails
  <2>2. branch' \in DOMAIN tip'
    BY <1>0, <1>2, <1>5 DEF RollbackFails
  <2>3. CASE Known
    BY <1>0, <2>1, <2>2, <2>3, EndsInStash DEF RecoverySteps
  <2>4. CASE pull.seen = {}
    <3>1. /\ DOMAIN pull' = PullFields /\ pull'.at = "done" /\ pull'.seen = {}
          /\ \/ pull'.outcome = "not rolled back"
             \/ recovery' = "timed out" /\ pull'.outcome = "timed out"
      BY <1>0, <2>1, <2>4 DEF Ended, PullFields
    <3>2. Truthful'
      BY <3>1 DEF Truthful, Failures
    <3>3. Signals'
      BY <1>0, <3>1 DEF Signals, PrimarySteps, RecoverySteps
    <3> QED BY <2>2, <3>1, <3>2, <3>3 DEF Undisturbed, Progress, Steps
  <2> QED BY <1>0, <2>3, <2>4 DEF SavedIfAny
<1> QED BY <1>3, <1>4, <1>5

(* The work comes back to the commit it came from. *)
LEMMA QuietRestore ==
  ASSUME Undisturbed, Restore \/ RestoreFails
  PROVE  Undisturbed'
<1>0. /\ DOMAIN pull = PullFields /\ branch \in DOMAIN tip /\ pull.at = "restore"
      /\ signal \in {"live", "canceled", "timed out"} /\ recovery \in {"live", "timed out"}
      /\ AsFound /\ Known /\ pull.failure \in Failures
      /\ UNCHANGED <<signal, recovery, branch, tip, stashes>>
  BY DEF Undisturbed, Signals, Progress, Restore, RestoreFails, RecoverySteps,
         control, Applied, NotApplied, Returns, Killed
<1>1. pull.at \in RecoverySteps
  BY <1>0 DEF RecoverySteps
<1>2. CASE Restore
  <2>1. Ended(pull.failure) /\ work' = work \cup pull.sha.edits /\ UNCHANGED unmerged
    BY <1>2 DEF Restore, Applied
  <2>2. pull.sha.edits = pull.seen
    <3>1. pull.sha = Own
      BY <1>0 DEF Known
    <3>2. Own.edits = pull.seen
      BY DEF Own
    <3> QED BY <3>1, <3>2
  <2>3. pull'.at = "done" /\ pull'.original = pull.original /\ pull'.seen = pull.seen
    BY <1>0, <2>1 DEF Ended, PullFields
  <2>4. Restored'
    BY <1>0, <2>1, <2>2, <2>3 DEF Restored, AsFound
  <2>5. Signals'
    BY <1>0, <2>3 DEF Signals, PrimarySteps, RecoverySteps
  <2> QED BY <1>0, <2>1, <2>4, <2>5, FailsRestored
<1>3. CASE RestoreFails
  <2>1. \/ recovery = "live" /\ Ended("not reapplied")
        \/ recovery = "timed out" /\ Ended("timed out")
    BY <1>0, <1>3 DEF RestoreFails
  <2> QED BY <1>0, <1>1, <2>1, EndsInStash
<1> QED BY <1>2, <1>3

-----------------------------------------------------------------------------
(* No step breaks it while nobody interferes, and who has interfered stays so. *)
LEMMA QuietInvNext ==
  ASSUME QuietInv, WorkInv, [Next]_vars
  PROVE  QuietInv'
<1>0. DOMAIN outside = {"acts", "committed", "dropped"} /\ outside.acts \in Nat
  BY DEF QuietInv
<1>1. CASE Outsider
  <2>1. DOMAIN outside' = {"acts", "committed", "dropped"} /\ outside'.acts = outside.acts + 1
    BY <1>0, <1>1 DEF Outsider, Edit, CommitAll, Switch, SiblingStash, SiblingDrop
  <2> QED BY <1>0, <2>1 DEF QuietInv, Quiet
<1>2. CASE UNCHANGED vars \/ Cancel \/ Wedges \/ Timeout
  <2>1. UNCHANGED <<pull, world, outside>>
    BY <1>2 DEF vars, Cancel, Wedges, Timeout
  <2>2. ASSUME Undisturbed
        PROVE  Undisturbed'
    <3>1. Signals'
      BY <1>2, <2>1, <2>2 DEF Undisturbed, Signals, vars, control, Cancel, Wedges, Timeout, Aborts,
                              PrimarySteps, RecoverySteps
    <3>2. pull.at = "done" => UNCHANGED recovery
      BY <1>2 DEF vars, control, Cancel, Wedges, Timeout, Running, Aborts, PrimarySteps, RecoverySteps
    <3>3. Progress'
      <4>1. pull.at = "done" => Truthful'
        BY <2>1, <2>2, <3>2 DEF Undisturbed, Progress, Truthful, Recoverable, OwnEntries, Restored, world
      <4> QED BY <2>1, <2>2, <4>1 DEF Undisturbed, Progress, AsFound, NothingSaved, SavedIfAny,
                                    Known, InStash, Own, world
    <3> QED BY <2>1, <2>2, <3>1, <3>3 DEF Undisturbed, world
  <2> QED BY <2>1, <2>2 DEF QuietInv, Quiet
<1>3. CASE PullStep
  <2>1. UNCHANGED outside
    BY <1>3 DEF PullStep, ReadFails, ReadHead, Fetch, Resolve, Status, StashPush, StashPushFails,
                Owned, OwnedFails, Merge, MergeFails, Reapply, ReapplyFails, Fallback, Conflicts,
                ReapplyReadFails, OwnedAgain, OwnedAgainFails, RollbackResets, RollbackCleans,
                RollbackFails, Restore, RestoreFails, Applied, NotApplied, Unchanged
  <2>2. ASSUME Undisturbed
        PROVE  Undisturbed'
    BY <1>3, <2>2, QuietReads, QuietStash, QuietOwned, QuietMerge, QuietReapply, QuietOwnedAgain,
       QuietRollback, QuietRestore DEF PullStep
  <2> QED BY <2>1, <2>2 DEF QuietInv, Quiet
<1> QED BY <1>1, <1>2, <1>3 DEF Next

(* Left alone, Pull says what is so: a success has the upstream's commits and the   *)
(* work in place; a failure, a cancel or a timeout at any command has changed      *)
(* nothing, or says so and then the work is in its stash or still in place.        *)
THEOREM ReportsTrue == Spec => []OutcomeIsTrue
<1>1. QuietInv /\ WorkInv /\ [Next]_vars => QuietInv'
  BY QuietInvNext
<1>2. QuietInv => OutcomeIsTrue
  <2> SUFFICES ASSUME QuietInv, Quiet, ~ Running
               PROVE  OutcomeIsTrue
    BY DEF OutcomeIsTrue
  <2>1. Truthful
    BY DEF QuietInv, Undisturbed, Progress, Running
  <2> QED BY <2>1 DEF OutcomeIsTrue, Truthful, Failures
<1> QED BY <1>1, <1>2, QuietInvInit, WorkInvariant, PTL DEF Spec
=============================================================================
