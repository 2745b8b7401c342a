------------------------- MODULE StatusProbesProofs -------------------------
(***************************************************************************)
(* That a removal keeps probes out of a folder it has drained, and that a  *)
(* shared probe that Git was read for never answers with what a checkout   *)
(* was before its callers' operations, and any other with nothing older    *)
(* than was stored, for any number of worktrees, callers, probes and       *)
(* removals and any batches.                                               *)
(***************************************************************************)
EXTENDS StatusProbes, FiniteSetTheorems, TLAPS

-----------------------------------------------------------------------------
(* Removals and probes *)

(* The removals that keep probes out of worktree w. *)
LocksOn(w) == {r \in Removals : w \in removal[r].locks}

RemovalFields == {"at", "i", "drain", "locks", "listed", "listing", "removed"}

RemovalRecord(x) ==
  /\ DOMAIN x = RemovalFields
  /\ x.i \in Nat \ {0}
  /\ x.locks \subseteq Worktrees

RemovalShapes ==
  /\ DOMAIN inFlight = Worktrees
  /\ removalLocks \in [Worktrees -> Int]
  /\ DOMAIN removal = Removals
  /\ \A r \in Removals : RemovalRecord(removal[r])

(* removalLocks counts at least once each removal that keeps probes out. *)
LocksCounted ==
  \A w \in Worktrees : /\ IsFiniteSet(LocksOn(w))
                       /\ removalLocks[w] >= Cardinality(LocksOn(w))

(* A removal that drains a worktree drains every probe there is. *)
DrainsAll ==
  \A r \in Removals : removal[r].at = "draining" =>
    /\ More(r)
    /\ Target(r) \in removal[r].locks
    /\ inFlight[Target(r)] \subseteq removal[r].drain

RemovalInv == RemovalShapes /\ LocksCounted /\ DrainsAll /\ NoProbeInRemoval

(* No removal has begun. *)
LEMMA RemovalInvInit == Init => RemovalInv
<1> SUFFICES ASSUME Init
             PROVE  RemovalInv
  OBVIOUS
<1>1. \A r \in Removals : /\ removal[r].at = "idle" /\ removal[r].locks = {}
                          /\ RemovalRecord(removal[r])
  BY DEF Init, RemovalRecord, RemovalFields
<1>2. RemovalShapes
  BY <1>1 DEF Init, RemovalShapes
<1>3. \A w \in Worktrees : LocksOn(w) = {}
  BY <1>1 DEF LocksOn
<1>4. LocksCounted
  <2> SUFFICES ASSUME NEW w \in Worktrees
               PROVE  IsFiniteSet(LocksOn(w)) /\ removalLocks[w] >= Cardinality(LocksOn(w))
    BY DEF LocksCounted
  <2>1. IsFiniteSet(LocksOn(w)) /\ Cardinality(LocksOn(w)) = 0
    BY <1>3, FS_EmptySet
  <2>2. removalLocks[w] = 0
    BY DEF Init
  <2> QED BY <2>1, <2>2
<1> QED BY <1>1, <1>2, <1>4 DEF RemovalInv, DrainsAll, NoProbeInRemoval

(* The worktree a removal works on is one of the repository's. *)
LEMMA TargetIsWorktree ==
  ASSUME RemovalShapes, ProbeAssumption, NEW r \in Removals, More(r)
  PROVE  Target(r) \in Worktrees
<1>1. Batch[r] \in Seq(Worktrees) /\ removal[r].i \in Nat \ {0}
  BY DEF ProbeAssumption, RemovalShapes, RemovalRecord
<1>2. removal[r].i \in 1..Len(Batch[r])
  BY <1>1 DEF More
<1> QED BY <1>1, <1>2 DEF Target

(* While a removal keeps probes out of a worktree, none is allowed there. *)
LEMMA LockedKeepsOut ==
  ASSUME RemovalInv, NEW r \in Removals, NEW w \in removal[r].locks
  PROVE  w \in Worktrees /\ ~ ProbesAllowed(w)
<1>1. w \in Worktrees /\ r \in LocksOn(w) /\ removalLocks[w] \in Int
  BY DEF RemovalInv, RemovalShapes, RemovalRecord, LocksOn
<1>2. IsFiniteSet(LocksOn(w)) /\ removalLocks[w] >= Cardinality(LocksOn(w))
  BY <1>1 DEF RemovalInv, LocksCounted
<1>3. Cardinality(LocksOn(w)) \in Nat /\ Cardinality(LocksOn(w)) # 0
  BY <1>1, <1>2, FS_EmptySet, FS_CardinalityType
<1> QED BY <1>1, <1>2, <1>3 DEF ProbesAllowed

(* A step of callers, probes or others: probes begin only where they are allowed. *)
LEMMA ProbeFrame ==
  ASSUME RemovalInv, UNCHANGED <<removal, removalLocks>>, DOMAIN inFlight' = Worktrees,
         \A w \in Worktrees : inFlight'[w] \subseteq inFlight[w] \/ ProbesAllowed(w)
  PROVE  RemovalInv'
<1>1. RemovalShapes' /\ LocksCounted'
  BY DEF RemovalInv, RemovalShapes, LocksCounted, LocksOn
<1>2. ASSUME NEW r \in Removals, NEW w \in removal[r].locks
      PROVE  inFlight'[w] \subseteq inFlight[w]
  BY <1>2, LockedKeepsOut
<1>3. DrainsAll'
  BY <1>2 DEF RemovalInv, DrainsAll, More, Target
<1>4. NoProbeInRemoval'
  BY <1>2 DEF RemovalInv, NoProbeInRemoval, Target
<1> QED BY <1>1, <1>3, <1>4 DEF RemovalInv

(* A step of one removal that locks no further worktree and begins no drain. *)
LEMMA RemovalFrame ==
  ASSUME RemovalInv, NEW r \in Removals, UNCHANGED <<inFlight, removalLocks>>,
         DOMAIN removal' = Removals, \A s \in Removals : s # r => removal'[s] = removal[s],
         RemovalRecord(removal'[r]), removal'[r].locks = removal[r].locks,
         removal'[r].at # "draining",
         removal[r].at = "draining" => inFlight[Target(r)] = {}
  PROVE  RemovalInv'
<1>1. RemovalShapes'
  BY DEF RemovalInv, RemovalShapes
<1>2. \A w : LocksOn(w)' = LocksOn(w)
  BY DEF LocksOn
<1>3. LocksCounted'
  BY <1>2 DEF RemovalInv, LocksCounted
<1>4. DrainsAll'
  BY DEF RemovalInv, DrainsAll, More, Target
<1>5. NoProbeInRemoval'
  <2> SUFFICES ASSUME NEW s \in Removals, NEW w \in removal'[s].locks,
                      ~ (removal'[s].at = "draining" /\ w = Target(s)')
               PROVE  inFlight[w] = {}
    BY DEF NoProbeInRemoval
  <2>1. CASE s = r
    BY <2>1 DEF RemovalInv, NoProbeInRemoval
  <2>2. CASE s # r
    BY <2>2 DEF RemovalInv, NoProbeInRemoval, Target
  <2> QED BY <2>1, <2>2
<1> QED BY <1>1, <1>3, <1>4, <1>5 DEF RemovalInv

(* The steps of a removal but the two that change removalLocks. *)
LEMMA RemovalGoesOn ==
  ASSUME RemovalInv, NEW r \in Removals,
         \/ RemovalSkips(r) \/ RemovalQueues(r) \/ RemovalTurns(r)
         \/ RemovalDeletes(r) \/ RemovalEnds(r)
  PROVE  RemovalInv'
<1>0. DOMAIN removal = Removals /\ RemovalRecord(removal[r])
  BY DEF RemovalInv, RemovalShapes
<1>1. CASE RemovalSkips(r)
  BY <1>0, <1>1, RemovalFrame DEF RemovalSkips, maps, RemovalRecord, RemovalFields
<1>2. CASE RemovalQueues(r)
  <2>1. inFlight[Target(r)] = {}
    BY <1>2 DEF RemovalQueues, Drained, RemovalInv, DrainsAll
  <2> QED BY <1>0, <1>2, <2>1, RemovalFrame DEF RemovalQueues, maps, RemovalRecord, RemovalFields
<1>3. CASE RemovalTurns(r)
  BY <1>0, <1>3, RemovalFrame DEF RemovalTurns, maps, RemovalRecord, RemovalFields
<1>4. CASE RemovalDeletes(r)
  BY <1>0, <1>4, RemovalFrame DEF RemovalDeletes, maps, RemovalRecord, RemovalFields
<1>5. CASE RemovalEnds(r)
  <2>1. /\ removal[r].at \in {"turn", "deleting"} /\ UNCHANGED <<inFlight, removalLocks>>
        /\ \E b \in BOOLEAN :
             removal' = [removal EXCEPT ![r].at = "idle", ![r].i = @ + 1,
                           ![r].removed = @ \/ (folder'[Target(r)] = "gone" /\ b)]
    BY <1>5 DEF RemovalEnds, maps
  <2> QED BY <1>0, <2>1, RemovalFrame DEF RemovalRecord, RemovalFields
<1> QED BY <1>1, <1>2, <1>3, <1>4, <1>5

(* lockForRemoval counts the removal in, with every probe under way to drain. *)
LEMMA RemovalLocksStep ==
  ASSUME RemovalInv, ProbeAssumption, NEW r \in Removals, RemovalLocks(r)
  PROVE  RemovalInv'
<1> DEFINE t == Target(r)
<1>1. /\ removal[r].at = "idle" /\ More(r) /\ UNCHANGED inFlight
      /\ removalLocks' = [removalLocks EXCEPT ![t] = @ + 1]
      /\ removal' = [removal EXCEPT ![r].at = "draining", ![r].drain = inFlight[t],
                                    ![r].locks = @ \cup {t}]
  BY DEF RemovalLocks, Draining
<1>2. t \in Worktrees
  BY <1>1, TargetIsWorktree DEF RemovalInv
<1>3. /\ DOMAIN removal' = Removals /\ \A s \in Removals : s # r => removal'[s] = removal[s]
      /\ RemovalRecord(removal'[r]) /\ removal'[r].i = removal[r].i
      /\ removal'[r].at = "draining" /\ removal'[r].drain = inFlight[t]
      /\ removal'[r].locks = removal[r].locks \cup {t}
  BY <1>1, <1>2 DEF RemovalInv, RemovalShapes, RemovalRecord, RemovalFields
<1>4. Target(r)' = t /\ \A s \in Removals : s # r => Target(s)' = Target(s)
  BY <1>3 DEF Target
<1>5. RemovalShapes'
  <2>1. removalLocks' \in [Worktrees -> Int]
    BY <1>1, <1>2 DEF RemovalInv, RemovalShapes
  <2> QED BY <1>1, <1>3, <2>1 DEF RemovalInv, RemovalShapes
<1>6. LocksCounted'
  <2> SUFFICES ASSUME NEW w \in Worktrees
               PROVE  IsFiniteSet(LocksOn(w)') /\ removalLocks'[w] >= Cardinality(LocksOn(w)')
    BY DEF LocksCounted
  <2>1. /\ IsFiniteSet(LocksOn(w)) /\ removalLocks[w] >= Cardinality(LocksOn(w))
        /\ removalLocks[w] \in Int
    BY DEF RemovalInv, LocksCounted, RemovalShapes
  <2>2. CASE w = t
    <3>1. LocksOn(w)' = LocksOn(w) \cup {r}
      BY <1>3, <2>2 DEF LocksOn
    <3>2. /\ IsFiniteSet(LocksOn(w)') /\ Cardinality(LocksOn(w)) \in Nat
          /\ Cardinality(LocksOn(w)') = IF r \in LocksOn(w) THEN Cardinality(LocksOn(w))
                                                           ELSE Cardinality(LocksOn(w)) + 1
      <4> DEFINE S == LocksOn(w)
      <4> HIDE DEF S
      <4>1. IsFiniteSet(S) => /\ IsFiniteSet(S \cup {r}) /\ Cardinality(S) \in Nat
                              /\ Cardinality(S \cup {r}) = IF r \in S THEN Cardinality(S)
                                                                      ELSE Cardinality(S) + 1
        BY FS_AddElement, FS_CardinalityType
      <4> QED BY <2>1, <3>1, <4>1 DEF S
    <3>3. removalLocks'[w] = removalLocks[w] + 1
      BY <1>1, <2>2 DEF RemovalInv, RemovalShapes
    <3> QED BY <2>1, <3>2, <3>3
  <2>3. CASE w # t
    <3>1. LocksOn(w)' = LocksOn(w)
      BY <1>3, <2>3 DEF LocksOn
    <3>2. removalLocks'[w] = removalLocks[w]
      BY <1>1, <2>3 DEF RemovalInv, RemovalShapes
    <3> QED BY <2>1, <3>1, <3>2
  <2> QED BY <2>2, <2>3
<1>7. DrainsAll'
  <2> SUFFICES ASSUME NEW s \in Removals, removal'[s].at = "draining"
               PROVE  /\ More(s)' /\ Target(s)' \in removal'[s].locks
                      /\ inFlight[Target(s)'] \subseteq removal'[s].drain
    BY <1>1 DEF DrainsAll
  <2>1. CASE s = r
    BY <1>1, <1>3, <1>4, <2>1 DEF More
  <2>2. CASE s # r
    BY <1>3, <1>4, <2>2 DEF RemovalInv, DrainsAll, More
  <2> QED BY <2>1, <2>2
<1>8. NoProbeInRemoval'
  <2> SUFFICES ASSUME NEW s \in Removals, NEW w \in removal'[s].locks,
                      ~ (removal'[s].at = "draining" /\ w = Target(s)')
               PROVE  inFlight[w] = {}
    BY <1>1 DEF NoProbeInRemoval
  <2>1. CASE s = r
    BY <1>1, <1>3, <1>4, <2>1 DEF RemovalInv, NoProbeInRemoval
  <2>2. CASE s # r
    BY <1>3, <1>4, <2>2 DEF RemovalInv, NoProbeInRemoval
  <2> QED BY <2>1, <2>2
<1> QED BY <1>5, <1>6, <1>7, <1>8 DEF RemovalInv

(* The finally block counts the removal out of every worktree it locked. *)
LEMMA RemovalReleasesStep ==
  ASSUME RemovalInv, NEW r \in Removals, RemovalReleases(r)
  PROVE  RemovalInv'
<1>1. /\ removal[r].at = "idle" /\ UNCHANGED inFlight
      /\ removalLocks' = [w \in Worktrees |->
                            removalLocks[w] - (IF w \in removal[r].locks THEN 1 ELSE 0)]
      /\ removal' = [removal EXCEPT ![r].at = "done", ![r].locks = {}]
  BY DEF RemovalReleases
<1>2. /\ DOMAIN removal' = Removals /\ \A s \in Removals : s # r => removal'[s] = removal[s]
      /\ RemovalRecord(removal'[r])
      /\ removal'[r].at = "done" /\ removal'[r].locks = {}
  BY <1>1 DEF RemovalInv, RemovalShapes, RemovalRecord, RemovalFields
<1>3. RemovalShapes'
  BY <1>1, <1>2 DEF RemovalInv, RemovalShapes
<1>4. LocksCounted'
  <2> SUFFICES ASSUME NEW w \in Worktrees
               PROVE  IsFiniteSet(LocksOn(w)') /\ removalLocks'[w] >= Cardinality(LocksOn(w)')
    BY DEF LocksCounted
  <2>1. /\ IsFiniteSet(LocksOn(w)) /\ removalLocks[w] >= Cardinality(LocksOn(w))
        /\ removalLocks[w] \in Int
    BY DEF RemovalInv, LocksCounted, RemovalShapes
  <2>2. LocksOn(w)' = LocksOn(w) \ {r}
    BY <1>2 DEF LocksOn
  <2>3. CASE w \in removal[r].locks
    <3>1. r \in LocksOn(w)
      BY <2>3 DEF LocksOn
    <3>2. IsFiniteSet(LocksOn(w)') /\ Cardinality(LocksOn(w)') = Cardinality(LocksOn(w)) - 1
          /\ Cardinality(LocksOn(w)) \in Nat
      BY <2>1, <2>2, <3>1, FS_RemoveElement, FS_CardinalityType
    <3> QED BY <1>1, <2>1, <2>3, <3>2
  <2>4. CASE w \notin removal[r].locks
    <3>1. LocksOn(w)' = LocksOn(w)
      BY <2>2, <2>4 DEF LocksOn
    <3> QED BY <1>1, <2>1, <2>4, <3>1
  <2> QED BY <2>3, <2>4
<1>5. DrainsAll'
  BY <1>1, <1>2 DEF RemovalInv, DrainsAll, More, Target
<1>6. NoProbeInRemoval'
  BY <1>1, <1>2 DEF RemovalInv, NoProbeInRemoval, Target
<1> QED BY <1>3, <1>4, <1>5, <1>6 DEF RemovalInv

(* No step of anybody breaks the invariant. *)
LEMMA RemovalInvNext ==
  ASSUME RemovalInv, ProbeAssumption, [Next]_vars
  PROVE  RemovalInv'
<1>0. DOMAIN inFlight = Worktrees
  BY DEF RemovalInv, RemovalShapes
<1>1. CASE UNCHANGED vars
  BY <1>0, <1>1, ProbeFrame DEF vars
<1>2. ASSUME NEW c \in Callers, NEW w \in Worktrees, Operate(c, w) \/ Poll(c, w)
      PROVE  RemovalInv'
  BY <1>0, <1>2, ProbeFrame DEF Operate, Poll, maps
<1>3. ASSUME NEW w \in Worktrees, LockWorktree(w)
      PROVE  RemovalInv'
  BY <1>0, <1>3, ProbeFrame DEF LockWorktree, maps
<1>4. ASSUME NEW c \in Callers, Operated(c) \/ ComputeDropped(c) \/ ComputeJoins(c)
      PROVE  RemovalInv'
  BY <1>0, <1>4, ProbeFrame DEF Operated, ComputeDropped, ComputeJoins, maps
<1>5. ASSUME NEW c \in Callers, NEW p \in Probes, ComputeStarts(c, p)
      PROVE  RemovalInv'
  <2>1. /\ UNCHANGED <<removal, removalLocks>> /\ ProbesAllowed(caller[c].wt)
        /\ inFlight' = [inFlight EXCEPT ![caller[c].wt] = @ \cup {p}]
    BY <1>5 DEF ComputeStarts
  <2> QED BY <1>0, <2>1, ProbeFrame
<1>6. ASSUME NEW p \in Probes, ProbeBegins(p) \/ ProbeReads(p)
      PROVE  RemovalInv'
  BY <1>0, <1>6, ProbeFrame DEF ProbeBegins, ProbeReads, maps
<1>7. ASSUME NEW p \in Probes, ProbeStores(p) \/ ProbeFails(p)
      PROVE  RemovalInv'
  <2>1. /\ UNCHANGED <<removal, removalLocks>>
        /\ inFlight' = [inFlight EXCEPT ![probe[p].wt] = @ \ {p}]
    BY <1>7 DEF ProbeStores, ProbeFails, Settles
  <2> QED BY <1>0, <2>1, ProbeFrame
<1>8. ASSUME NEW r \in Removals, RemovalStep(r)
      PROVE  RemovalInv'
  BY <1>8, RemovalGoesOn, RemovalLocksStep, RemovalReleasesStep DEF RemovalStep
<1> QED BY <1>1, <1>2, <1>3, <1>4, <1>5, <1>6, <1>7, <1>8 DEF Next, CallerStep, ProbeStep

(* From the moment a removal has drained a worktree until it lets probes in again,  *)
(* no git status runs there, whatever polls, handlers and other batches do: the    *)
(* count in removalLocks covers every removal, and compute() looks at it first.    *)
THEOREM ProbesKeptOut == Spec => []NoProbeInRemoval
<1>1. Init => RemovalInv
  BY RemovalInvInit
<1>2. RemovalInv /\ [Next]_vars => RemovalInv'
  BY RemovalInvNext, ProbeAssumption
<1>3. RemovalInv => NoProbeInRemoval
  BY DEF RemovalInv
<1> QED BY <1>1, <1>2, <1>3, PTL DEF Spec
-----------------------------------------------------------------------------
(* Callers and the probes they share *)

Actors == Callers \cup Probes \cup Removals

(* Whoever is at the head of the line l[q]. *)
Has(l, v, q) == l[q] # <<>> /\ Head(l[q]) = v

LineInv(l) == l \in [Worktrees -> Seq(Actors)]

(* Whoever joins a line takes a key from nobody. *)
LEMMA EnteringKeepsHolders ==
  ASSUME LineInv(line), NEW a \in Actors, NEW k, Lock!Enter(a, k)
  PROVE  /\ LineInv(line')
         /\ \A v, q : q \in Worktrees /\ Has(line, v, q) => Has(line', v, q)
<1>1. line' = [line EXCEPT ![k] = Append(line[k], a)]
  BY DEF Lock!Enter
<1>2. LineInv(line')
  <2>1. CASE k \in Worktrees
    <3>1. line[k] \in Seq(Actors)
      BY <2>1 DEF LineInv
    <3>2. Append(line[k], a) \in Seq(Actors)
      BY <3>1
    <3> QED BY <1>1, <3>2 DEF LineInv
  <2>2. CASE k \notin Worktrees
    BY <1>1, <2>2 DEF LineInv
  <2> QED BY <2>1, <2>2
<1>3. ASSUME NEW v, NEW q \in Worktrees, Has(line, v, q)
      PROVE  Has(line', v, q)
  <2>1. CASE q # k
    BY <1>1, <1>3, <2>1 DEF Has, LineInv
  <2>2. CASE q = k
    <3>1. line'[q] = Append(line[q], a) /\ line[q] \in Seq(Actors) /\ line[q] # <<>>
      BY <1>1, <1>3, <2>2 DEF Has, LineInv
    <3>2. line'[q] # <<>> /\ Head(line'[q]) = Head(line[q])
      BY <3>1
    <3> QED BY <1>3, <3>2 DEF Has
  <2> QED BY <2>1, <2>2
<1> QED BY <1>2, <1>3

(* Whoever leaves a line takes a key only from itself. *)
LEMMA LeavingKeepsHolders ==
  ASSUME LineInv(line), NEW a \in Actors, NEW k, Lock!Leave(a, k)
  PROVE  /\ LineInv(line')
         /\ \A v, q : q \in Worktrees /\ Has(line, v, q) /\ ~ (v = a /\ q = k) => Has(line', v, q)
<1>1. line' = [line EXCEPT ![k] = Tail(line[k])] /\ Has(line, a, k)
  BY DEF Lock!Leave, Lock!Holds, Has
<1>2. LineInv(line')
  <2>1. CASE k \in Worktrees
    <3>1. line[k] \in Seq(Actors) /\ line[k] # <<>>
      BY <1>1, <2>1 DEF LineInv, Has
    <3>2. Tail(line[k]) \in Seq(Actors)
      BY <3>1
    <3> QED BY <1>1, <3>2 DEF LineInv
  <2>2. CASE k \notin Worktrees
    BY <1>1, <2>2 DEF LineInv
  <2> QED BY <2>1, <2>2
<1>3. ASSUME NEW v, NEW q \in Worktrees, Has(line, v, q), ~ (v = a /\ q = k)
      PROVE  Has(line', v, q)
  <2>1. q # k
    BY <1>1, <1>3 DEF Has
  <2> QED BY <1>1, <1>3, <2>1 DEF Has, LineInv
<1> QED BY <1>2, <1>3

(* What an actor does to a line: it joins it, leaves it, or neither. *)
Queues(a, k) == UNCHANGED line \/ Lock!Enter(a, k) \/ Lock!Leave(a, k)

(* In each case everybody else keeps what it holds. *)
LEMMA QueuesKeepsHolders ==
  ASSUME LineInv(line), NEW a \in Actors, NEW k, Queues(a, k)
  PROVE  /\ LineInv(line')
         /\ \A v, q : q \in Worktrees /\ Has(line, v, q) /\ ~ (v = a /\ q = k) => Has(line', v, q)
<1>1. CASE UNCHANGED line
  BY <1>1
<1>2. CASE Lock!Enter(a, k)
  BY <1>2, EnteringKeepsHolders, Zenon
<1>3. CASE Lock!Leave(a, k)
  BY <1>3, LeavingKeepsHolders, Zenon
<1> QED BY <1>1, <1>2, <1>3 DEF Queues

-----------------------------------------------------------------------------
ProbeRecord(x) ==
  /\ DOMAIN x = {"wt", "at", "seen"}
  /\ x.at # "idle" => x.wt \in Worktrees
  /\ x.seen \in Int
  /\ x.seen # -1 => x.at = "reading"

(* A probe reads in its turn, and what it has read is what the checkout is. *)
ProbeGood(x, p, l, v) ==
  /\ ProbeRecord(x)
  /\ x.at = "reading" => Has(l, p, x.wt)
  /\ x.seen # -1 => x.seen = v[x.wt]

CallerRecord(y) ==
  /\ DOMAIN y = {"wt", "at", "on", "asked", "known", "got", "read"}
  /\ y.at # "idle" => y.wt \in Worktrees

(* A caller waits for a probe of a checkout that is no older than its question, and *)
(* whose stored snapshot is no older than it was then.                            *)
CallerGood(y, pr, v, st) ==
  /\ CallerRecord(y)
  /\ y.on # None => /\ y.on \in Probes /\ pr[y.on].at # "idle"
                    /\ y.asked \in Int /\ y.asked <= v[pr[y.on].wt]
                    /\ y.known \in Int /\ y.known <= st[pr[y.on].wt]

SharingShapes ==
  /\ line \in [Worktrees -> Seq(Actors)]
  /\ DOMAIN pending = Worktrees /\ DOMAIN probe = Probes /\ DOMAIN caller = Callers
  /\ version \in [Worktrees -> Int]

(* The probe that new callers share is one of their worktree, and under way. *)
PendingGood ==
  \A w \in Worktrees : pending[w] # None =>
    /\ pending[w] \in Probes
    /\ probe[pending[w]].at # "idle" /\ probe[pending[w]].wt = w

(* What is stored was read some time. *)
StoreGood(v, st) ==
  /\ st \in [Worktrees -> Int]
  /\ \A w \in Worktrees : -1 <= st[w] /\ st[w] <= v[w]

SharingInv ==
  /\ SharingShapes
  /\ PendingGood
  /\ StoreGood(version, cached)
  /\ \A p \in Probes : ProbeGood(probe[p], p, line, version)
  /\ \A c \in Callers : CallerGood(caller[c], probe, version, cached)

(* No probe has begun and nobody waits for one. *)
LEMMA SharingInvInit == Init => SharingInv
<1> SUFFICES ASSUME Init
             PROVE  SharingInv
  OBVIOUS
<1>1. \A p \in Probes : probe[p] = IdleProbe
  BY DEF Init
<1>2. \A c \in Callers : caller[c] = IdleCaller
  BY DEF Init
<1>3. line \in [Worktrees -> Seq(Actors)]
  BY DEF Init, Lock!LockInit
<1>4. SharingShapes
  BY <1>3 DEF Init, SharingShapes
<1>5. PendingGood
  BY DEF Init, PendingGood
<1>6. \A p \in Probes : ProbeGood(probe[p], p, line, version)
  BY <1>1 DEF ProbeGood, ProbeRecord, IdleProbe
<1>7. \A c \in Callers : CallerGood(caller[c], probe, version, cached)
  BY <1>2 DEF CallerGood, CallerRecord, IdleCaller
<1>8. StoreGood(version, cached)
  BY DEF Init, StoreGood
<1> QED BY <1>4, <1>5, <1>6, <1>7, <1>8 DEF SharingInv

(* A step of a caller, a removal or an outsider: a checkout changes only in the     *)
(* turn of whoever changes it, where no probe can be reading.                     *)
LEMMA OthersStep ==
  ASSUME SharingInv, ProbeAssumption, UNCHANGED <<pending, probe, cached>>,
         NEW a \in Callers \cup Removals, NEW k, Queues(a, k),
         version' \in [Worktrees -> Int],
         \A w \in Worktrees : \/ version'[w] = version[w]
                              \/ Has(line, a, w) /\ version'[w] >= version[w],
         DOMAIN caller' = Callers,
         \A c \in Callers : caller'[c] = caller[c] \/ CallerGood(caller'[c], probe, version, cached)
  PROVE  SharingInv'
<1>1. a \in Actors /\ LineInv(line)
  BY DEF SharingInv, SharingShapes, Actors, LineInv
<1>2. /\ LineInv(line')
      /\ \A v, q : q \in Worktrees /\ Has(line, v, q) /\ ~ (v = a /\ q = k) => Has(line', v, q)
  BY <1>1, QueuesKeepsHolders, Zenon
<1>3. SharingShapes' /\ PendingGood'
  BY <1>2 DEF SharingInv, SharingShapes, PendingGood, LineInv
<1>4. ASSUME NEW p \in Probes
      PROVE  ProbeGood(probe[p], p, line', version')
  <2>1. ProbeGood(probe[p], p, line, version)
    BY DEF SharingInv
  <2>2. CASE probe[p].at = "reading"
    <3>1. p # a /\ probe[p].wt \in Worktrees /\ Has(line, p, probe[p].wt)
      BY <2>1, <2>2 DEF ProbeGood, ProbeRecord, ProbeAssumption
    <3>2. Has(line', p, probe[p].wt)
      BY <1>2, <3>1
    <3>3. version'[probe[p].wt] = version[probe[p].wt]
      BY <3>1 DEF Has
    <3> QED BY <2>1, <3>2, <3>3 DEF ProbeGood
  <2>3. CASE probe[p].at # "reading"
    BY <2>1, <2>3 DEF ProbeGood, ProbeRecord
  <2> QED BY <2>2, <2>3
<1>5. \A w \in Worktrees : version[w] \in Int /\ version'[w] \in Int /\ version'[w] >= version[w]
  BY DEF SharingInv, SharingShapes
<1>6. ASSUME NEW c \in Callers
      PROVE  CallerGood(caller'[c], probe, version', cached')
  <2>1. CallerGood(caller'[c], probe, version, cached)
    BY DEF SharingInv
  <2>2. CASE caller'[c].on = None
    BY <2>1, <2>2 DEF CallerGood
  <2>3. CASE caller'[c].on # None
    <3>1. probe[caller'[c].on].wt \in Worktrees
      BY <2>1, <2>3 DEF CallerGood, SharingInv, ProbeGood, ProbeRecord
    <3>2. \A n \in Int, w \in Worktrees : n <= version[w] => n <= version'[w]
      BY <1>5
    <3> QED BY <2>1, <2>3, <3>1, <3>2 DEF CallerGood
  <2> QED BY <2>2, <2>3
<1>7. StoreGood(version', cached')
  <2>1. \A w \in Worktrees, n \in Int : n <= version[w] => n <= version'[w]
    BY <1>5
  <2> QED BY <2>1 DEF SharingInv, StoreGood
<1> QED BY <1>3, <1>4, <1>6, <1>7 DEF SharingInv

(* A step that touches neither callers, probes nor locks. *)
LEMMA SharingKept ==
  ASSUME SharingInv, UNCHANGED <<line, pending, probe, caller, version, cached>>
  PROVE  SharingInv'
BY DEF SharingInv, SharingShapes, PendingGood

(* A caller queues an operation, or asks for a state without one. *)
LEMMA AskStep ==
  ASSUME SharingInv, ProbeAssumption, NEW c \in Callers, NEW w \in Worktrees,
         Operate(c, w) \/ Poll(c, w)
  PROVE  SharingInv'
<1>1. UNCHANGED <<pending, probe, version, cached>> /\ Queues(c, w)
  BY DEF Operate, Poll, maps, world, Queues
<1>2. /\ DOMAIN caller' = Callers /\ \A d \in Callers : d # c => caller'[d] = caller[d]
      /\ \/ caller'[c] = [IdleCaller EXCEPT !.wt = w, !.at = "queued"]
         \/ caller'[c] = [IdleCaller EXCEPT !.wt = w, !.at = "refresh"]
  BY DEF Operate, Poll, SharingInv, SharingShapes
<1>3. CallerGood(caller'[c], probe, version, cached)
  BY <1>2 DEF CallerGood, CallerRecord, IdleCaller
<1>4. version' \in [Worktrees -> Int] /\ \A q \in Worktrees : version'[q] = version[q]
  BY <1>1 DEF SharingInv, SharingShapes
<1> QED BY <1>1, <1>2, <1>3, <1>4, OthersStep

(* An operation ends in its turn. *)
LEMMA OperatedStep ==
  ASSUME SharingInv, ProbeAssumption, NEW c \in Callers, Operated(c)
  PROVE  SharingInv'
<1> DEFINE t == caller[c].wt
<1>1. /\ UNCHANGED <<pending, probe, cached>> /\ Lock!Leave(c, t)
      /\ caller[c].at = "queued" /\ caller' = [caller EXCEPT ![c].at = "refresh"]
      /\ version' = [version EXCEPT ![t] =
                       IF folder[t] = "present" /\ @ < MaxVersion THEN @ + 1 ELSE @]
  BY DEF Operated, maps
<1>2. Queues(c, t) /\ Has(line, c, t)
  BY <1>1 DEF Queues, Lock!Leave, Lock!Holds, Has
<1>3. CallerGood(caller[c], probe, version, cached) /\ version \in [Worktrees -> Int]
      /\ DOMAIN caller = Callers
  BY DEF SharingInv, SharingShapes
<1>4. t \in Worktrees
  BY <1>1, <1>3 DEF CallerGood, CallerRecord
<1>5. version'[t] = version[t] \/ version'[t] = version[t] + 1
  BY <1>1, <1>3, <1>4
<1>6. version' \in [Worktrees -> Int]
  BY <1>1, <1>3, <1>4, <1>5
<1>7. \A w \in Worktrees : \/ version'[w] = version[w]
                           \/ Has(line, c, w) /\ version'[w] >= version[w]
  <2> SUFFICES ASSUME NEW w \in Worktrees
               PROVE  \/ version'[w] = version[w]
                      \/ Has(line, c, w) /\ version'[w] >= version[w]
    OBVIOUS
  <2>1. CASE w = t
    BY <1>2, <1>3, <1>4, <1>5, <2>1
  <2>2. CASE w # t
    BY <1>1, <1>3, <2>2
  <2> QED BY <2>1, <2>2
<1>8. /\ DOMAIN caller' = Callers /\ \A d \in Callers : d # c => caller'[d] = caller[d]
      /\ CallerGood(caller'[c], probe, version, cached)
  BY <1>1, <1>3 DEF CallerGood, CallerRecord
<1> HIDE DEF t
<1> QED BY <1>1, <1>2, <1>6, <1>7, <1>8, OthersStep

(* What getCached answers is what is stored, or nothing. *)
LEMMA StoredIsKnown ==
  ASSUME SharingInv, NEW w \in Worktrees
  PROVE  /\ Stored(w) \in Int /\ Stored(w) <= cached[w]
         /\ Stored(w) # -1 => Stored(w) = cached[w]
<1>1. cached[w] \in Int /\ -1 <= cached[w]
  BY DEF SharingInv, StoreGood
<1> QED BY <1>1 DEF Stored

(* compute() answers with the stored snapshot, or shares the pending probe. *)
LEMMA ComputeStep ==
  ASSUME SharingInv, ProbeAssumption, NEW c \in Callers, ComputeDropped(c) \/ ComputeJoins(c)
  PROVE  SharingInv'
<1>1. UNCHANGED <<line, pending, probe, version, cached>> /\ Queues(c, c) /\ caller[c].at = "refresh"
  BY DEF ComputeDropped, ComputeJoins, maps, world, Queues
<1>2. DOMAIN caller = Callers /\ CallerGood(caller[c], probe, version, cached)
      /\ version \in [Worktrees -> Int]
  BY DEF SharingInv, SharingShapes
<1>3. DOMAIN caller' = Callers /\ \A d \in Callers : d # c => caller'[d] = caller[d]
  BY <1>2 DEF ComputeDropped, ComputeJoins, Asks
<1>4. CallerGood(caller'[c], probe, version, cached)
  <2>1. CASE ComputeDropped(c)
    BY <1>2, <2>1 DEF ComputeDropped, CallerGood, CallerRecord, IdleCaller, Answered
  <2>2. CASE ComputeJoins(c)
    <3> DEFINE w == caller[c].wt
    <3>1. w \in Worktrees
      BY <1>1, <1>2 DEF CallerGood, CallerRecord
    <3>2. /\ pending[w] # None
          /\ caller' = [caller EXCEPT ![c].at = "waiting", ![c].on = pending[w],
                                      ![c].asked = version[w], ![c].known = Stored(w)]
      BY <2>2 DEF ComputeJoins, Asks
    <3>3. /\ pending[w] \in Probes /\ probe[pending[w]].at # "idle"
          /\ probe[pending[w]].wt = w
      BY <3>1, <3>2 DEF SharingInv, PendingGood
    <3>4. /\ version[w] \in Int /\ version[w] <= version[w]
          /\ Stored(w) \in Int /\ Stored(w) <= cached[w]
      BY <1>2, <3>1, StoredIsKnown
    <3>5. /\ CallerRecord(caller'[c]) /\ caller'[c].on = pending[w]
          /\ caller'[c].asked = version[w] /\ caller'[c].known = Stored(w)
      BY <1>1, <1>2, <3>2, <3>4 DEF CallerGood, CallerRecord
    <3> HIDE DEF w
    <3> QED BY <3>3, <3>4, <3>5 DEF CallerGood
  <2> QED BY <2>1, <2>2
<1>5. version' \in [Worktrees -> Int] /\ \A q \in Worktrees : version'[q] = version[q]
  BY <1>1, <1>2
<1> QED BY <1>1, <1>3, <1>4, <1>5, OthersStep

(* A removal only joins and leaves lines, as far as callers and probes go. *)
LEMMA RemovalSharingStep ==
  ASSUME SharingInv, ProbeAssumption, NEW r \in Removals, RemovalStep(r)
  PROVE  SharingInv'
<1>1. UNCHANGED <<pending, probe, caller, version, cached>> /\ Queues(r, Target(r))
  BY DEF RemovalStep, RemovalSkips, RemovalLocks, RemovalQueues, RemovalTurns, RemovalDeletes,
         RemovalEnds, RemovalReleases, maps, world, Queues
<1>2. /\ version' \in [Worktrees -> Int] /\ \A q \in Worktrees : version'[q] = version[q]
      /\ DOMAIN caller' = Callers
  BY <1>1 DEF SharingInv, SharingShapes
<1> QED BY <1>1, <1>2, OthersStep

(* A step of one probe leaves the others what they have. *)
LEMMA OtherProbes ==
  ASSUME SharingInv, ProbeAssumption, NEW p \in Probes, NEW k, Queues(p, k), UNCHANGED version,
         DOMAIN probe' = Probes, \A q \in Probes : q # p => probe'[q] = probe[q],
         ProbeGood(probe'[p], p, line', version)
  PROVE  /\ LineInv(line')
         /\ \A q \in Probes : ProbeGood(probe'[q], q, line', version')
<1>1. p \in Actors /\ LineInv(line)
  BY DEF SharingInv, SharingShapes, Actors, LineInv
<1>2. /\ LineInv(line')
      /\ \A v, q : q \in Worktrees /\ Has(line, v, q) /\ ~ (v = p /\ q = k) => Has(line', v, q)
  BY <1>1, QueuesKeepsHolders, Zenon
<1>3. ASSUME NEW q \in Probes, q # p
      PROVE  ProbeGood(probe'[q], q, line', version')
  <2>1. ProbeGood(probe[q], q, line, version) /\ probe'[q] = probe[q]
    BY <1>3 DEF SharingInv
  <2>2. CASE probe[q].at = "reading"
    <3>1. probe[q].wt \in Worktrees /\ Has(line, q, probe[q].wt)
      BY <2>1, <2>2 DEF ProbeGood, ProbeRecord
    <3>2. Has(line', q, probe[q].wt)
      BY <1>2, <1>3, <3>1
    <3> QED BY <2>1, <3>2 DEF ProbeGood
  <2>3. CASE probe[q].at # "reading"
    BY <2>1, <2>3 DEF ProbeGood
  <2> QED BY <2>2, <2>3
<1> QED BY <1>2, <1>3

(* compute() queues a probe of its own and shares it with whoever comes. *)
LEMMA ComputeStartsStep ==
  ASSUME SharingInv, ProbeAssumption, NEW c \in Callers, NEW p \in Probes, ComputeStarts(c, p)
  PROVE  SharingInv'
<1> DEFINE w == caller[c].wt
<1>1. /\ UNCHANGED <<version, cached>> /\ Lock!Enter(p, w)
      /\ caller[c].at = "refresh" /\ pending[w] = None /\ probe[p].at = "idle"
      /\ probe' = [probe EXCEPT ![p] = [wt |-> w, at |-> "queued", seen |-> -1]]
      /\ pending' = [pending EXCEPT ![w] = p]
      /\ caller' = [caller EXCEPT ![c].at = "waiting", ![c].on = p,
                                  ![c].asked = version[w], ![c].known = Stored(w)]
  BY DEF ComputeStarts, Asks, world
<1>2. /\ DOMAIN caller = Callers /\ CallerGood(caller[c], probe, version, cached)
      /\ version \in [Worktrees -> Int] /\ DOMAIN probe = Probes /\ DOMAIN pending = Worktrees
  BY DEF SharingInv, SharingShapes
<1>3. w \in Worktrees
  BY <1>1, <1>2 DEF CallerGood, CallerRecord
<1>4. /\ DOMAIN probe' = Probes /\ \A q \in Probes : q # p => probe'[q] = probe[q]
      /\ probe'[p] = [wt |-> w, at |-> "queued", seen |-> -1]
  BY <1>1, <1>2
<1>5. Queues(p, w) /\ ProbeGood(probe'[p], p, line', version)
  BY <1>1, <1>3, <1>4 DEF Queues, ProbeGood, ProbeRecord
<1>6. LineInv(line') /\ \A q \in Probes : ProbeGood(probe'[q], q, line', version')
  BY <1>1, <1>4, <1>5, OtherProbes
<1>7. SharingShapes'
  BY <1>1, <1>2, <1>4, <1>6 DEF SharingShapes, LineInv
<1>8. PendingGood'
  <2> SUFFICES ASSUME NEW q \in Worktrees, pending'[q] # None
               PROVE  /\ pending'[q] \in Probes
                      /\ probe'[pending'[q]].at # "idle" /\ probe'[pending'[q]].wt = q
    BY DEF PendingGood
  <2>1. CASE q = w
    BY <1>1, <1>2, <1>4, <2>1
  <2>2. CASE q # w
    <3>1. pending'[q] = pending[q]
      BY <1>1, <1>2, <2>2
    <3>2. pending[q] \in Probes /\ probe[pending[q]].at # "idle" /\ probe[pending[q]].wt = q
      BY <3>1 DEF SharingInv, PendingGood
    <3>3. pending[q] # p
      BY <1>1, <3>2
    <3> QED BY <1>4, <3>1, <3>2, <3>3
  <2> QED BY <2>1, <2>2
<1>9. ASSUME NEW d \in Callers
      PROVE  CallerGood(caller'[d], probe', version', cached')
  <2>1. CASE d = c
    <3>1. /\ version[w] \in Int /\ version[w] <= version[w]
          /\ Stored(w) \in Int /\ Stored(w) <= cached[w]
      BY <1>2, <1>3, StoredIsKnown
    <3>2. /\ CallerRecord(caller'[c]) /\ caller'[c].on = p
          /\ caller'[c].asked = version[w] /\ caller'[c].known = Stored(w)
      BY <1>1, <1>2, <3>1 DEF CallerGood, CallerRecord
    <3> HIDE DEF w
    <3> QED BY <1>1, <1>4, <2>1, <3>1, <3>2 DEF CallerGood
  <2>2. CASE d # c
    <3>1. caller'[d] = caller[d] /\ CallerGood(caller[d], probe, version, cached)
      BY <1>1, <1>2, <2>2 DEF SharingInv
    <3>2. caller[d].on # None => caller[d].on # p
      BY <1>1, <3>1 DEF CallerGood
    <3> QED BY <1>1, <1>4, <3>1, <3>2 DEF CallerGood
  <2> QED BY <2>1, <2>2
<1>10. StoreGood(version', cached')
  BY <1>1 DEF SharingInv
<1> QED BY <1>6, <1>7, <1>8, <1>9, <1>10 DEF SharingInv

(* A probe spawns Git in its turn and reads what Git reports. *)
LEMMA ProbeReadsStep ==
  ASSUME SharingInv, ProbeAssumption, NEW p \in Probes, ProbeBegins(p) \/ ProbeReads(p)
  PROVE  SharingInv'
<1>1. UNCHANGED <<line, pending, caller, version, cached>> /\ Queues(p, p) /\ probe[p].at # "idle"
  BY DEF ProbeBegins, ProbeReads, maps, world, Queues
<1>2. /\ DOMAIN probe = Probes /\ ProbeGood(probe[p], p, line, version)
      /\ version \in [Worktrees -> Int]
  BY DEF SharingInv, SharingShapes
<1>3. /\ DOMAIN probe' = Probes /\ \A q \in Probes : q # p => probe'[q] = probe[q]
      /\ probe'[p].at # "idle" /\ probe'[p].wt = probe[p].wt
  BY <1>1, <1>2 DEF ProbeBegins, ProbeReads, ProbeGood, ProbeRecord
<1>4. ProbeGood(probe'[p], p, line', version)
  <2>1. CASE ProbeBegins(p)
    <3>1. Has(line, p, probe[p].wt)
      BY <2>1 DEF ProbeBegins, MayProbe, Lock!Holds, Has
    <3>2. probe' = [probe EXCEPT ![p].at = "reading"] /\ probe[p].at = "queued"
      BY <2>1 DEF ProbeBegins
    <3> QED BY <1>1, <1>2, <3>1, <3>2 DEF ProbeGood, ProbeRecord
  <2>2. CASE ProbeReads(p)
    <3>1. /\ probe[p].at = "reading"
          /\ probe' = [probe EXCEPT ![p].seen = version[probe[p].wt]]
      BY <2>2 DEF ProbeReads
    <3>2. version[probe[p].wt] \in Int
      BY <1>2, <3>1 DEF ProbeGood, ProbeRecord
    <3> QED BY <1>1, <1>2, <3>1, <3>2 DEF ProbeGood, ProbeRecord
  <2> QED BY <2>1, <2>2
<1>5. LineInv(line') /\ \A q \in Probes : ProbeGood(probe'[q], q, line', version')
  BY <1>1, <1>3, <1>4, OtherProbes
<1>6. SharingShapes'
  BY <1>1, <1>3, <1>5 DEF SharingInv, SharingShapes
<1>7. PendingGood'
  BY <1>1, <1>3 DEF SharingInv, SharingShapes, PendingGood
<1>8. ASSUME NEW d \in Callers
      PROVE  CallerGood(caller'[d], probe', version', cached')
  BY <1>1, <1>3 DEF SharingInv, CallerGood
<1>9. StoreGood(version', cached')
  BY <1>1 DEF SharingInv
<1> QED BY <1>5, <1>6, <1>7, <1>8, <1>9 DEF SharingInv

(* What a settling probe may do to what is stored: nothing, or what it read, which   *)
(* is what the checkout is.                                                       *)
LEMMA StoreGoesOn ==
  ASSUME SharingInv, NEW p \in Probes, ProbeStores(p) \/ ProbeFails(p)
  PROVE  /\ StoreGood(version, cached')
         /\ \A w \in Worktrees : cached[w] <= cached'[w]
<1>1. StoreGood(version, cached) /\ version \in [Worktrees -> Int]
  BY DEF SharingInv, SharingShapes
<1>2. CASE ProbeFails(p)
  BY <1>1, <1>2 DEF ProbeFails, StoreGood
<1>3. CASE ProbeStores(p)
  <2> DEFINE w == probe[p].wt
  <2>1. /\ probe[p].at = "reading" /\ probe[p].seen # -1
        /\ cached' = [cached EXCEPT ![w] = probe[p].seen]
    BY <1>3 DEF ProbeStores
  <2>2. ProbeGood(probe[p], p, line, version)
    BY DEF SharingInv
  <2>3. w \in Worktrees /\ probe[p].seen = version[w]
    BY <2>1, <2>2 DEF ProbeGood, ProbeRecord
  <2> HIDE DEF w
  <2>4. cached' = [cached EXCEPT ![w] = version[w]]
    BY <2>1, <2>3
  <2>5. \A q \in Worktrees : cached[q] \in Int /\ version[q] \in Int
                              /\ -1 <= cached[q] /\ cached[q] <= version[q]
    BY <1>1 DEF StoreGood
  <2>6. cached' \in [Worktrees -> Int]
    BY <1>1, <2>3, <2>4, <2>5 DEF StoreGood
  <2>7. \A q \in Worktrees : cached'[q] = IF q = w THEN version[q] ELSE cached[q]
    BY <1>1, <2>4 DEF StoreGood
  <2>8. \A q \in Worktrees : -1 <= cached'[q] /\ cached'[q] <= version[q] /\ cached[q] <= cached'[q]
    BY <2>5, <2>7
  <2> QED BY <2>6, <2>8 DEF StoreGood
<1> QED BY <1>2, <1>3

(* A probe settles: nobody new shares it, and whoever did is answered. *)
LEMMA SettlesStep ==
  ASSUME SharingInv, ProbeAssumption, NEW p \in Probes, ProbeStores(p) \/ ProbeFails(p)
  PROVE  SharingInv'
<1> DEFINE w == probe[p].wt
<1>0. UNCHANGED version /\ \E v, b : Settles(p, v, b)
  <2>1. Settles(p, probe[p].seen, TRUE) \/ Settles(p, Stored(w), FALSE)
    BY Zenon DEF ProbeStores, ProbeFails
  <2>2. PICK v, b : Settles(p, v, b)
    BY <2>1, Zenon
  <2>3. UNCHANGED version
    BY <2>2 DEF Settles
  <2> QED BY <2>2, <2>3, Zenon
<1>1. /\ Lock!Leave(p, w) /\ probe[p].at # "idle"
      /\ pending' = PendingAfter(p, w)
      /\ probe' = [probe EXCEPT ![p] = IdleProbe]
  BY <1>0 DEF Settles, ProbeStores, ProbeFails
<1>2. /\ DOMAIN probe = Probes /\ ProbeGood(probe[p], p, line, version)
      /\ version \in [Worktrees -> Int] /\ DOMAIN pending = Worktrees
      /\ PendingGood
  BY DEF SharingInv, SharingShapes
<1>3. w \in Worktrees
  BY <1>1, <1>2 DEF ProbeGood, ProbeRecord
<1>4. /\ DOMAIN probe' = Probes /\ \A q \in Probes : q # p => probe'[q] = probe[q]
      /\ probe'[p] = IdleProbe
  BY <1>1, <1>2
<1>5. Queues(p, w) /\ ProbeGood(probe'[p], p, line', version)
  BY <1>1, <1>4 DEF Queues, ProbeGood, ProbeRecord, IdleProbe
<1>6. LineInv(line') /\ \A q \in Probes : ProbeGood(probe'[q], q, line', version')
  BY <1>0, <1>1, <1>4, <1>5, OtherProbes
<1>7. DOMAIN pending' = Worktrees /\ \A q \in Worktrees : pending'[q] # None =>
                                       pending'[q] = pending[q] /\ pending[q] # p
  BY <1>1, <1>2, <1>3 DEF PendingAfter, PendingGood
<1>8. SharingShapes'
  <2>1. DOMAIN caller' = Callers
    BY <1>0 DEF Settles
  <2> QED BY <1>0, <1>2, <1>4, <1>6, <1>7, <2>1 DEF SharingShapes, LineInv
<1>9. PendingGood'
  BY <1>2, <1>4, <1>7 DEF PendingGood
<1>10. StoreGood(version', cached') /\ \A q \in Worktrees : cached[q] <= cached'[q]
  BY <1>0, StoreGoesOn
<1>11. ASSUME NEW d \in Callers
       PROVE  CallerGood(caller'[d], probe', version', cached')
  <2>1. CallerGood(caller[d], probe, version, cached)
    BY DEF SharingInv
  <2>2. CASE caller[d].on = p
    <3>1. PICK v, b : caller'[d] = Answered(v, b)
      BY <1>0, <2>2 DEF Settles
    <3>2. caller'[d].at = "idle" /\ caller'[d].on = None /\ CallerRecord(caller'[d])
      BY <3>1 DEF Answered, IdleCaller, CallerRecord
    <3> QED BY <3>2 DEF CallerGood
  <2>3. CASE caller[d].on # p
    <3>1. caller'[d] = caller[d]
      BY <1>0, <2>3 DEF Settles
    <3>2. CASE caller[d].on = None
      BY <2>1, <3>1, <3>2 DEF CallerGood
    <3>3. CASE caller[d].on # None
      <4> DEFINE q == caller[d].on
                 x == probe[q].wt
      <4>1. /\ q \in Probes /\ q # p /\ probe[q].at # "idle" /\ caller[d].known \in Int
            /\ caller[d].known <= cached[x]
        BY <2>1, <2>3, <3>3 DEF CallerGood
      <4>2. probe'[q] = probe[q]
        BY <1>4, <4>1
      <4>3. x \in Worktrees
        BY <4>1 DEF SharingInv, ProbeGood, ProbeRecord
      <4>4. cached[x] \in Int /\ cached'[x] \in Int /\ cached[x] <= cached'[x]
        BY <1>10, <4>3 DEF SharingInv, StoreGood
      <4>5. caller[d].known <= cached'[x]
        BY <4>1, <4>4
      <4> QED BY <1>0, <2>1, <3>1, <3>3, <4>2, <4>5 DEF CallerGood
    <3> QED BY <3>2, <3>3
  <2> QED BY <2>2, <2>3
<1> QED BY <1>6, <1>8, <1>9, <1>10, <1>11 DEF SharingInv

(* No step of anybody breaks the invariant. *)
LEMMA SharingInvNext ==
  ASSUME SharingInv, ProbeAssumption, [Next]_vars
  PROVE  SharingInv'
<1>1. CASE UNCHANGED vars
  BY <1>1, SharingKept DEF vars
<1>2. ASSUME NEW w \in Worktrees, LockWorktree(w)
      PROVE  SharingInv'
  BY <1>2, SharingKept DEF LockWorktree, maps
<1>3. ASSUME NEW c \in Callers, CallerStep(c)
      PROVE  SharingInv'
  BY <1>3, OperatedStep, ComputeStep, ComputeStartsStep DEF CallerStep
<1>4. ASSUME NEW p \in Probes, ProbeStep(p)
      PROVE  SharingInv'
  BY <1>4, ProbeReadsStep, SettlesStep DEF ProbeStep
<1> QED BY <1>1, <1>2, <1>3, <1>4, AskStep, RemovalSharingStep DEF Next

(* What a step may answer to a caller. *)
AnsweredFresh ==
  \A c \in Callers :
    caller[c].at = "waiting" /\ caller'[c].at = "idle" /\ caller'[c].got # -1 =>
      /\ caller'[c].read => caller'[c].got >= caller[c].asked
      /\ caller'[c].got >= caller[c].known

(* Who waits is answered only by the probe that it waits for. *)
LEMMA AnswersAreFresh ==
  ASSUME SharingInv, ProbeAssumption, [Next]_vars
  PROVE  AnsweredFresh
<1> SUFFICES ASSUME NEW c \in Callers, caller[c].at = "waiting", caller'[c].at = "idle",
                    caller'[c].got # -1
             PROVE  /\ caller'[c].read => caller'[c].got >= caller[c].asked
                    /\ caller'[c].got >= caller[c].known
  BY DEF AnsweredFresh
<1>1. DOMAIN caller = Callers /\ CallerGood(caller[c], probe, version, cached)
  BY DEF SharingInv, SharingShapes
<1>2. ASSUME NEW d \in Callers, NEW w \in Worktrees, Operate(d, w) \/ Poll(d, w)
      PROVE  FALSE
  BY <1>1, <1>2 DEF Operate, Poll
<1>3. ASSUME NEW d \in Callers, CallerStep(d)
      PROVE  FALSE
  BY <1>1, <1>3 DEF CallerStep, Operated, ComputeDropped, ComputeJoins, ComputeStarts, Asks
<1>4. ASSUME UNCHANGED caller
      PROVE  FALSE
  BY <1>4
<1>5. ASSUME NEW w \in Worktrees, LockWorktree(w)
      PROVE  UNCHANGED caller
  BY <1>5 DEF LockWorktree
<1>6. ASSUME NEW r \in Removals, RemovalStep(r)
      PROVE  UNCHANGED caller
  BY <1>6 DEF RemovalStep, RemovalSkips, RemovalLocks, RemovalQueues, RemovalTurns,
              RemovalDeletes, RemovalEnds, RemovalReleases
<1>7. ASSUME NEW p \in Probes, ProbeBegins(p) \/ ProbeReads(p)
      PROVE  UNCHANGED caller
  BY <1>7 DEF ProbeBegins, ProbeReads
<1>8. PICK p \in Probes : ProbeStores(p) \/ ProbeFails(p)
  BY <1>2, <1>3, <1>4, <1>5, <1>6, <1>7 DEF Next, ProbeStep, vars
<1> DEFINE w == probe[p].wt
<1>9. caller[c].on = p
  BY <1>8 DEF ProbeStores, ProbeFails, Settles
<1>10. /\ caller[c].asked \in Int /\ caller[c].asked <= version[w]
       /\ caller[c].known \in Int /\ caller[c].known <= cached[w] /\ w \in Worktrees
  BY <1>1, <1>9 DEF CallerGood, ProbeAssumption, SharingInv, ProbeGood, ProbeRecord
<1>11. /\ version[w] \in Int /\ cached[w] \in Int /\ cached[w] <= version[w]
  BY <1>10 DEF SharingInv, SharingShapes, StoreGood
<1>12. CASE ProbeStores(p)
  <2>1. caller'[c] = Answered(probe[p].seen, TRUE) /\ probe[p].seen # -1
    BY <1>9, <1>12 DEF ProbeStores, Settles
  <2>2. caller'[c].got = version[w]
    BY <2>1 DEF Answered, IdleCaller, SharingInv, ProbeGood
  <2> HIDE DEF w
  <2> QED BY <1>10, <1>11, <2>2
<1>13. CASE ProbeFails(p)
  <2>1. caller'[c] = Answered(Stored(w), FALSE)
    BY <1>9, <1>13 DEF ProbeFails, Settles
  <2>2. caller'[c].got = Stored(w) /\ caller'[c].read = FALSE
    BY <2>1 DEF Answered, IdleCaller
  <2>3. Stored(w) = cached[w]
    BY <1>10, <2>2, StoredIsKnown
  <2> HIDE DEF w
  <2> QED BY <1>10, <1>11, <2>2, <2>3
<1> QED BY <1>8, <1>12, <1>13

(* An answer that Git was read for is never older than its question, though the     *)
(* probe was asked for by another: the worktree's lock keeps a probe from reading  *)
(* before an operation that its callers have seen end.  One that Git failed for    *)
(* is never older than what was stored at the question: only what is newer, read   *)
(* in the turn of the probe that stores it, replaces a stored snapshot.            *)
THEOREM SharedProbesFresh == Spec => RefreshIsFresh
<1>1. Init => SharingInv
  BY SharingInvInit
<1>2. SharingInv /\ [Next]_vars => SharingInv'
  BY SharingInvNext, ProbeAssumption
<1>3. SharingInv /\ [Next]_vars => AnsweredFresh
  BY AnswersAreFresh, ProbeAssumption
<1> QED BY <1>1, <1>2, <1>3, PTL DEF Spec, RefreshIsFresh, AnsweredFresh
=============================================================================
