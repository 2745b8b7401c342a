----------------------- MODULE RemoteTipCheckerProofs -----------------------
(***************************************************************************)
(* No repository is checked twice at a time, no answer learnt before an    *)
(* operation is reused after it, requests are superseded only by           *)
(* operations or a stop, and answers are about the branch checked out, for *)
(* any number of repositories, worktrees, requests, operations and lanes'  *)
(* slots.                                                                  *)
(***************************************************************************)
EXTENDS RemoteTipChecker, FiniteSetTheorems, TLAPS

(* A batch is a record of three fields, and one that was opened is of a repository. *)
Formed(x) ==
  /\ DOMAIN x = {"repo", "lane", "at"}
  /\ x = [f \in DOMAIN x |-> x[f]]
  /\ x.at # "unused" => x.repo \in Repos

BatchesFormed == DOMAIN batch = Entries /\ \A b \in Entries : Formed(batch[b])

(* A step that opens or moves batches, none to checking. *)
Moves == \A b \in Entries :
           batch'[b] = batch[b] \/ (Formed(batch'[b]) /\ batch'[b].at # "checking")

(* The map `running' names the batch that checks a repository. *)
CheckIsRunning ==
  /\ DOMAIN running = Repos
  /\ \A b \in Entries : batch[b].at = "checking" => running[batch[b].repo] = b

CheckInv == BatchesFormed /\ CheckIsRunning

(* No check runs yet. *)
LEMMA CheckInvInit == Init => CheckInv
BY DEF Init, CheckInv, BatchesFormed, Formed, CheckIsRunning, NoBatch

(* What touches neither the batches nor the map keeps the invariant. *)
LEMMA IdleStep ==
  ASSUME CheckInv, UNCHANGED <<batch, running>>
  PROVE  CheckInv'
BY DEF CheckInv, BatchesFormed, Formed, CheckIsRunning

(* What opens or moves batches, none to checking, and leaves the map, keeps it. *)
LEMMA BatchesMove ==
  ASSUME CheckInv, UNCHANGED running, DOMAIN batch' = Entries, Moves
  PROVE  CheckInv'
<1>1. BatchesFormed'
  BY DEF CheckInv, BatchesFormed, Formed, Moves
<1>2. CheckIsRunning'
  BY DEF CheckInv, CheckIsRunning, Moves
<1> QED BY <1>1, <1>2 DEF CheckInv

(* New requests open batches that wait for their debounce or for a slot. *)
LEMMA RequestsOpen ==
  ASSUME CheckInv, UNCHANGED running, NEW l, NEW ids, NEW dropped, AddEntries(l, ids, dropped)
  PROVE  CheckInv'
<1> DEFINE n == Cardinality(Used)
           spot == CHOOSE f \in [ids -> n + 1 .. n + Cardinality(ids)] :
                     \A i, j \in ids : i # j => f[i] # f[j]
           opening == {r \in Repos : ~ Joinable(l, r) /\ \E i \in ids : RepositoryOf[i] = r}
           first(r) == CHOOSE e \in {spot[i] : i \in {j \in ids : RepositoryOf[j] = r}} : TRUE
<1>1. /\ opening \subseteq Repos
      /\ batch' = [b \in Entries |->
           IF \E r \in opening : first(r) = b
           THEN [repo |-> CHOOSE r \in opening : first(r) = b, lane |-> l,
                 at |-> IF l = "direct" THEN "queued" ELSE "debouncing"]
           ELSE batch[b]]
  BY Zenon DEF AddEntries
<1> HIDE DEF opening, first
<1>2. ASSUME NEW b \in Entries, \E r \in opening : first(r) = b
      PROVE  Formed(batch'[b]) /\ batch'[b].at # "checking"
  <2>1. (CHOOSE r \in opening : first(r) = b) \in Repos
    BY <1>1, <1>2
  <2>2. batch'[b] = [repo |-> CHOOSE r \in opening : first(r) = b, lane |-> l,
                     at |-> IF l = "direct" THEN "queued" ELSE "debouncing"]
    BY <1>1, <1>2
  <2> QED BY <2>1, <2>2 DEF Formed
<1>3. ASSUME NEW b \in Entries, ~ \E r \in opening : first(r) = b
      PROVE  batch'[b] = batch[b]
  BY <1>1, <1>3
<1>4. DOMAIN batch' = Entries
  BY <1>1
<1>5. Moves
  BY <1>2, <1>3, Zenon DEF Moves
<1> QED BY <1>4, <1>5, BatchesMove, Zenon

(* A batch that moves to a stage other than checking. *)
LEMMA OneMoves ==
  ASSUME CheckInv, UNCHANGED running, NEW b \in Entries, NEW at,
         batch[b].at # "unused", at # "checking",
         batch' = [batch EXCEPT ![b].at = at]
  PROVE  CheckInv'
<1>1. DOMAIN batch' = Entries /\ \A a \in Entries : a # b => batch'[a] = batch[a]
  BY DEF CheckInv, BatchesFormed, Formed
<1>2. batch'[b] = [batch[b] EXCEPT !.at = at]
  BY DEF CheckInv, BatchesFormed, Formed
<1>3. Formed(batch'[b]) /\ batch'[b].at = at
  BY <1>2 DEF CheckInv, BatchesFormed, Formed
<1>4. Moves
  BY <1>1, <1>3, Zenon DEF Moves
<1> QED BY <1>1, <1>4, BatchesMove, Zenon

(* A check begins only when the map has no batch of its repository. *)
LEMMA CheckBegins ==
  ASSUME CheckInv, CheckerAssumption, NEW b \in Entries, batch[b].at # "unused", Alone(b),
         batch' = [batch EXCEPT ![b].at = "checking"],
         running' = [running EXCEPT ![batch[b].repo] = b]
  PROVE  CheckInv'
<1>1. batch[b].repo \in Repos
  BY DEF CheckInv, BatchesFormed, Formed
<1>2. batch'[b] = [batch[b] EXCEPT !.at = "checking"] /\ batch'[b].repo = batch[b].repo
  BY DEF CheckInv, BatchesFormed, Formed
<1>3. \A a \in Entries : a # b => batch'[a] = batch[a]
  BY DEF CheckInv, BatchesFormed, Formed
<1>4. BatchesFormed'
  BY <1>1, <1>2, <1>3 DEF CheckInv, BatchesFormed, Formed
<1>5. ASSUME NEW a \in Entries, batch'[a].at = "checking"
      PROVE  running'[batch'[a].repo] = a
  <2>1. CASE a = b
    BY <1>1, <1>2, <2>1 DEF CheckInv, CheckIsRunning
  <2>2. CASE a # b
    <3>1. batch[a].at = "checking" /\ batch'[a].repo = batch[a].repo
      BY <1>3, <1>5, <2>2
    <3>2. running[batch[a].repo] = a /\ batch[a].repo \in Repos
      BY <3>1 DEF CheckInv, CheckIsRunning, BatchesFormed, Formed
    <3>3. a # 0
      BY DEF CheckerAssumption, Entries
    <3>4. batch[a].repo # batch[b].repo
      BY <3>2, <3>3 DEF Alone
    <3> QED BY <3>1, <3>2, <3>4 DEF CheckInv, CheckIsRunning
  <2> QED BY <2>1, <2>2
<1> QED BY <1>4, <1>5 DEF CheckInv, CheckIsRunning

(* When a check ends, the map loses its own batch and no other. *)
LEMMA CheckStops ==
  ASSUME CheckInv, NEW b \in Entries, batch[b].at = "checking",
         batch' = [batch EXCEPT ![b].at = "done"],
         running' = [running EXCEPT ![batch[b].repo] = IF @ = b THEN 0 ELSE @]
  PROVE  CheckInv'
<1>1. batch'[b] = [batch[b] EXCEPT !.at = "done"]
  BY DEF CheckInv, BatchesFormed, Formed
<1>2. \A a \in Entries : a # b => batch'[a] = batch[a]
  BY DEF CheckInv, BatchesFormed, Formed
<1>3. BatchesFormed'
  BY <1>1, <1>2 DEF CheckInv, BatchesFormed, Formed
<1>4. ASSUME NEW a \in Entries, batch'[a].at = "checking"
      PROVE  running'[batch'[a].repo] = a
  <2>1. a # b
    BY <1>1, <1>4 DEF CheckInv, BatchesFormed, Formed
  <2>2. batch'[a] = batch[a] /\ running[batch[a].repo] = a /\ batch[a].repo \in Repos
    BY <1>2, <1>4, <2>1 DEF CheckInv, CheckIsRunning, BatchesFormed, Formed
  <2> QED BY <2>1, <2>2 DEF CheckInv, CheckIsRunning
<1> QED BY <1>3, <1>4 DEF CheckInv, CheckIsRunning

(* The checker's own steps on a batch. *)
LEMMA BatchSteps ==
  ASSUME CheckInv, CheckerAssumption, NEW b \in Entries, BatchStep(b)
  PROVE  CheckInv'
<1>1. CASE Debounced(b)
  BY <1>1, OneMoves DEF Debounced
<1>2. CASE RunStarts(b)
  <2>1. UNCHANGED running /\ batch[b].at # "unused"
    BY <1>2 DEF RunStarts
  <2>2. batch' = [batch EXCEPT ![b].at = IF Valid(b) = {} THEN "done" ELSE "started"]
    BY <1>2, Zenon DEF RunStarts
  <2>3. (IF Valid(b) = {} THEN "done" ELSE "started") # "checking"
    OBVIOUS
  <2> QED BY <2>1, <2>2, <2>3, OneMoves
<1>3. CASE RunGoes(b)
  <2>1. batch[b].at # "unused" /\ Alone(b)
    BY <1>3 DEF RunGoes
  <2>2. CASE Valid(b) = {} \/ NeedsNoCheck(b)
    <3>1. batch' = [batch EXCEPT ![b].at = "done"] /\ UNCHANGED running
      BY <1>3, <2>2, Zenon DEF RunGoes
    <3> QED BY <2>1, <3>1, OneMoves
  <2>3. CASE ~ (Valid(b) = {} \/ NeedsNoCheck(b))
    <3>1. /\ batch' = [batch EXCEPT ![b].at = "checking"]
          /\ running' = [running EXCEPT ![batch[b].repo] = b]
      BY <1>3, <2>3, Zenon DEF RunGoes
    <3> QED BY <2>1, <3>1, CheckBegins
  <2> QED BY <2>2, <2>3
<1>4. CASE CheckEnds(b)
  <2>1. batch[b].at = "checking"
    BY <1>4 DEF CheckEnds
  <2>2. /\ batch' = [batch EXCEPT ![b].at = "done"]
        /\ running' = [running EXCEPT ![batch[b].repo] = IF @ = b THEN 0 ELSE @]
    BY <1>4, Zenon DEF CheckEnds
  <2> QED BY <2>1, <2>2, CheckStops
<1> QED BY <1>1, <1>2, <1>3, <1>4 DEF BatchStep

(* Stopping clears the batches that wait for their debounce. *)
LEMMA StopClears ==
  ASSUME CheckInv, Stop
  PROVE  CheckInv'
<1>1. DOMAIN batch' = Entries /\ UNCHANGED running
  BY DEF Stop
<1>2. ASSUME NEW b \in Entries, batch[b].at = "debouncing"
      PROVE  Formed(batch'[b]) /\ batch'[b].at # "checking"
  <2>1. batch'[b] = [batch[b] EXCEPT !.at = "cleared"]
    BY <1>2 DEF Stop
  <2> QED BY <1>2, <2>1 DEF CheckInv, BatchesFormed, Formed
<1>3. ASSUME NEW b \in Entries, batch[b].at # "debouncing"
      PROVE  batch'[b] = batch[b]
  BY <1>3 DEF Stop
<1>4. Moves
  BY <1>2, <1>3, Zenon DEF Moves
<1> QED BY <1>1, <1>4, BatchesMove, Zenon

(* Every step keeps the invariant. *)
LEMMA CheckInvNext ==
  ASSUME CheckInv, CheckerAssumption, [Next]_vars
  PROVE  CheckInv'
<1>1. CASE UNCHANGED vars
  BY <1>1, IdleStep DEF vars, queues
<1>2. ASSUME NEW id \in Ids, Select(id)
      PROVE  CheckInv'
  <2>1. UNCHANGED running
    BY <1>2 DEF Select
  <2>2. \E dropped : AddEntries("direct", {id}, dropped)
    BY <1>2, Zenon DEF Select
  <2> QED BY <2>1, <2>2, RequestsOpen
<1>3. ASSUME NEW id \in Ids, SwitchBranch(id)
      PROVE  CheckInv'
  BY <1>3, IdleStep DEF SwitchBranch, queues
<1>4. ASSUME NEW ids \in SUBSET Ids, Report(ids)
      PROVE  CheckInv'
  <2>1. UNCHANGED running
    BY <1>4 DEF Report
  <2>2. \E new, dropped : AddEntries("background", new, dropped)
    BY <1>4, Zenon DEF Report, Reconcile
  <2> QED BY <2>1, <2>2, RequestsOpen
<1>5. ASSUME NEW r \in Repos, TrackedOperation(r) \/ Pull(r)
      PROVE  CheckInv'
  BY <1>5, IdleStep DEF TrackedOperation, Pull, queues
<1>6. ASSUME FocusChanges \/ Expires
      PROVE  CheckInv'
  BY <1>6, IdleStep DEF FocusChanges, Expires, queues
<1> QED BY <1>1, <1>2, <1>3, <1>4, <1>5, <1>6, BatchSteps, StopClears DEF Next

(* The map of running checks is exact: a batch that checks is the one it names. *)
THEOREM RunningIsExact == Spec => []CheckInv
<1>1. Init => CheckInv
  BY CheckInvInit
<1>2. CheckInv /\ [Next]_vars => CheckInv'
  BY CheckInvNext, CheckerAssumption
<1> QED BY <1>1, <1>2, PTL DEF Spec

(* Of all batches, of either lane, at most one checks a repository at a time. *)
THEOREM ChecksOneAtATime == Spec => []OneCheckPerRepository
<1>1. CheckInv => OneCheckPerRepository
  BY DEF CheckInv, CheckIsRunning, OneCheckPerRepository
<1> QED BY <1>1, RunningIsExact, PTL

-----------------------------------------------------------------------------
(* The ledger of entries and batches *)

EntryFields == {"key", "lane", "batch", "at", "answer", "gen"}

CheckerShapes ==
  /\ DOMAIN entry = Entries /\ \A e \in Entries : DOMAIN entry[e] = EntryFields
  /\ DOMAIN batch = Entries /\ \A b \in Entries : DOMAIN batch[b] = {"repo", "lane", "at"}
  /\ branch \in [Ids -> Nat] /\ \A id \in Ids : branch[id] <= MaxSwitches[id]
  /\ generation \in [Repos -> Nat]
  /\ DOMAIN answers = Keys /\ DOMAIN finished = Repos /\ DOMAIN visible = Ids
  /\ DOMAIN owner = Lanes /\ DOMAIN open = Lanes
  /\ \A l \in Lanes : DOMAIN owner[l] = Keys /\ DOMAIN open[l] = Repos

(* Entries are made in their order. *)
UsedInOrder == \E n \in Nat : Used = 1 .. n

(* An entry is of a branch that its worktree was on and a generation of its         *)
(* repository, and has an answer once it is settled.                              *)
EntryOk(e) ==
  /\ entry[e].key \in Keys /\ entry[e].key[2] <= branch[entry[e].key[1]]
  /\ entry[e].lane \in Lanes
  /\ entry[e].gen \in Nat /\ entry[e].gen <= generation[RepoOf(e)]
  /\ entry[e].at \in {"waiting", "started", "settled"}
  /\ entry[e].at # "settled" => entry[e].answer = "none"

(* It is in a batch of its repository and lane, and started while that one checks. *)
InItsBatch(e) ==
  /\ entry[e].batch \in Entries
  /\ batch[entry[e].batch].at # "unused"
  /\ batch[entry[e].batch].repo = RepoOf(e)
  /\ batch[entry[e].batch].lane = entry[e].lane
  /\ entry[e].at = "started" => batch[entry[e].batch].at = "checking"

EntriesGood == \A e \in Used : EntryOk(e) /\ InItsBatch(e)

(* A batch has the number of an entry that opened it. *)
BatchesOpened == \A b \in Entries : batch[b].at # "unused" => b \in Used

(* A check starts all its entries at once. *)
OneGeneration ==
  \A e, f \in Used :
    entry[e].at = "started" /\ entry[f].at = "started" /\ entry[e].batch = entry[f].batch
      => entry[e].gen = entry[f].gen

(* A key's owner is an entry of that key that is not settled. *)
OwnersGood ==
  \A l \in Lanes, k \in Keys : owner[l][k] # 0 =>
    /\ owner[l][k] \in Used
    /\ entry[owner[l][k]].key = k /\ entry[owner[l][k]].lane = l
    /\ ~ Settled(owner[l][k])

(* A batch that may be open for more is of that repository and lane, and not over. *)
OpenGood ==
  \A l \in Lanes, r \in Repos : open[l][r] # 0 =>
    /\ open[l][r] \in Entries
    /\ batch[open[l][r]].repo = r /\ batch[open[l][r]].lane = l
    /\ batch[open[l][r]].at \notin {"unused", "done"}

(* What a window's report may cancel is a background entry. *)
VisibleGood ==
  \A id \in Ids : visible[id] # 0 =>
    visible[id] \in Used /\ entry[visible[id]].lane = "background"

LedgerInv ==
  /\ CheckerShapes /\ UsedInOrder /\ EntriesGood /\ BatchesOpened /\ OneGeneration
  /\ OwnersGood /\ OpenGood

(* Nothing was asked for yet. *)
LEMMA LedgerInit == CheckerAssumption /\ Init => LedgerInv /\ VisibleGood
<1> SUFFICES ASSUME CheckerAssumption, Init
             PROVE  LedgerInv /\ VisibleGood
  OBVIOUS
<1>1. CheckerShapes
  BY DEF Init, CheckerShapes, NoEntry, NoBatch, EntryFields, CheckerAssumption
<1>2. Used = {}
  BY DEF Init, Used, NoEntry
<1>3. UsedInOrder
  <2>1. Used = 1 .. 0 /\ 0 \in Nat
    BY <1>2
  <2> QED BY <2>1, Zenon DEF UsedInOrder
<1>4. EntriesGood /\ OneGeneration
  BY <1>2 DEF EntriesGood, OneGeneration
<1>5. BatchesOpened /\ OwnersGood /\ OpenGood /\ VisibleGood
  BY DEF Init, BatchesOpened, OwnersGood, OpenGood, VisibleGood, NoBatch
<1> QED BY <1>1, <1>3, <1>4, <1>5 DEF LedgerInv

Spots(S, n) ==
  CHOOSE f \in [S -> n + 1 .. n + Cardinality(S)] : \A i, j \in S : i # j => f[i] # f[j]

(* Places for new entries, one each, fill the numbers that come next. *)
LEMMA PlacesFill ==
  ASSUME NEW S, IsFiniteSet(S), NEW n \in Nat
  PROVE  /\ Spots(S, n) \in [S -> n + 1 .. n + Cardinality(S)]
         /\ \A i, j \in S : i # j => Spots(S, n)[i] # Spots(S, n)[j]
         /\ \A t \in n + 1 .. n + Cardinality(S) : \E i \in S : Spots(S, n)[i] = t
<1> DEFINE c == Cardinality(S)
           first == n + 1
           last == n + c
           T == first .. last
           f == CHOOSE g \in [S -> T] : \A i, j \in S : i # j => g[i] # g[j]
<1>1. c \in Nat
  BY FS_CardinalityType
<1>2. IsFiniteSet(T) /\ Cardinality(T) = c
  <2> HIDE DEF c
  <2>1. first \in Int /\ last \in Int
    BY <1>1
  <2>2. IsFiniteSet(T) /\ Cardinality(T) = IF first > last THEN 0 ELSE last - first + 1
    <3> HIDE DEF first, last
    <3> QED BY <2>1, FS_Interval
  <2> HIDE DEF T
  <2> QED BY <1>1, <2>2
<1> HIDE DEF T
<1>3. ExistsBijection(S, T)
  BY <1>2, FS_SameCardinalityBij
<1>4. \E g \in [S -> T] : \A i, j \in S : i # j => g[i] # g[j]
  BY <1>3 DEF ExistsBijection, Bijection, Injection, IsInjective
<1>5. f \in [S -> T] /\ \A i, j \in S : i # j => f[i] # f[j]
  BY <1>4, Zenon
<1> HIDE DEF f
<1>6. f \in Injection(S, T)
  BY <1>5 DEF Injection, IsInjective
<1>7. f \in Surjection(S, T)
  BY <1>2, <1>6, FS_Injection
<1>8. \A t \in T : \E i \in S : f[i] = t
  BY <1>7 DEF Surjection
<1>9. f = Spots(S, n) /\ T = n + 1 .. n + Cardinality(S)
  BY DEF f, T, first, last, c, Spots
<1> QED BY <1>5, <1>8, <1>9


(* A batch as new requests leave it: waiting for its debounce, or for a slot. *)
JustOpened(r, l) ==
  [repo |-> r, lane |-> l, at |-> IF l = "direct" THEN "queued" ELSE "debouncing"]

NewEntry(i, l, b) ==
  [key |-> Key(i), lane |-> l, batch |-> b, at |-> "waiting", answer |-> "none",
   gen |-> generation[RepositoryOf[i]]]

(* What AddEntries does, with `place' for the numbers it gives. *)
PlacedAt(place, ids) ==
  /\ place \in [ids -> Entries \ Used]
  /\ \A i, j \in ids : i # j => place[i] # place[j]
  /\ \E n \in Nat : Used \cup {place[i] : i \in ids} = 1 .. n

EntriesAdded(place, l, ids, dropped) ==
  /\ DOMAIN entry' = Entries
  /\ \A i \in ids : entry'[place[i]] = NewEntry(i, l, open'[l][RepositoryOf[i]])
  /\ \A e \in Entries : (\A i \in ids : place[i] # e)
        => entry'[e] = Settle(entry, dropped, "superseded")[e]

OwnersAdded(place, l, ids, dropped) ==
  /\ DOMAIN owner' = Lanes /\ \A m \in Lanes : DOMAIN owner'[m] = Keys
  /\ \A m \in Lanes, k \in Keys : owner'[m][k] # 0 =>
       \/ m = l /\ \E i \in ids : Key(i) = k /\ owner'[m][k] = place[i]
       \/ owner'[m][k] = owner[m][k] /\ owner[m][k] \notin dropped

BatchesAdded(place, l, ids) ==
  /\ DOMAIN batch' = Entries
  /\ \A b \in Entries : batch'[b] = batch[b]
        \/ \E i \in ids : place[i] = b /\ batch'[b] = JustOpened(RepositoryOf[i], l)
  /\ DOMAIN open' = Lanes /\ \A m \in Lanes : DOMAIN open'[m] = Repos
  /\ \A m \in Lanes, r \in Repos :
       \/ open'[m][r] = open[m][r]
       \/ m = l /\ \E i \in ids : open'[m][r] = place[i] /\ batch'[place[i]] = JustOpened(r, l)
  /\ \A i \in ids :
       \/ \E j \in ids : /\ open'[l][RepositoryOf[i]] = place[j]
                         /\ batch'[place[j]] = JustOpened(RepositoryOf[i], l)
       \/ /\ open'[l][RepositoryOf[i]] = open[l][RepositoryOf[i]]
          /\ Joinable(l, RepositoryOf[i])

(* Each new entry gets a number of its own and a batch of its repository. *)
LEMMA NewEntries ==
  ASSUME CheckerAssumption, LedgerInv, NEW l \in Lanes, NEW ids \in SUBSET Ids, NEW dropped,
         AddEntries(l, ids, dropped)
  PROVE  \E place : /\ PlacedAt(place, ids)
                    /\ EntriesAdded(place, l, ids, dropped)
                    /\ OwnersAdded(place, l, ids, dropped)
                    /\ BatchesAdded(place, l, ids)
<1> DEFINE n == Cardinality(Used)
           T == n + 1 .. n + Cardinality(ids)
           spot == CHOOSE f \in [ids -> n + 1 .. n + Cardinality(ids)] :
                     \A i, j \in ids : i # j => f[i] # f[j]
           opening == {r \in Repos : ~ Joinable(l, r) /\ \E i \in ids : RepositoryOf[i] = r}
           first(r) == CHOOSE e \in {spot[i] : i \in {j \in ids : RepositoryOf[j] = r}} : TRUE
           batchOf(r) == IF r \in opening THEN first(r) ELSE open[l][r]
<1>1. n + Cardinality(ids) <= MaxEntries
  BY Zenon DEF AddEntries
<1>2. entry' = [e \in Entries |->
       IF \E i \in ids : spot[i] = e
       THEN LET i == CHOOSE j \in ids : spot[j] = e IN
            [key |-> Key(i), lane |-> l, batch |-> batchOf(RepositoryOf[i]),
             at |-> "waiting", answer |-> "none", gen |-> generation[RepositoryOf[i]]]
       ELSE Settle(entry, dropped, "superseded")[e]]
  BY Zenon DEF AddEntries
<1>3. owner' = [OwnersWithout(dropped) EXCEPT ![l] =
       [k \in Keys |-> IF \E i \in ids : Key(i) = k
                       THEN spot[CHOOSE i \in ids : Key(i) = k]
                       ELSE OwnersWithout(dropped)[l][k]]]
  BY Zenon DEF AddEntries
<1>4. open' = [open EXCEPT ![l] = [r \in Repos |-> batchOf(r)]]
  BY Zenon DEF AddEntries
<1>5. batch' = [b \in Entries |->
       IF \E r \in opening : first(r) = b
       THEN [repo |-> CHOOSE r \in opening : first(r) = b, lane |-> l,
             at |-> IF l = "direct" THEN "queued" ELSE "debouncing"]
       ELSE batch[b]]
  BY Zenon DEF AddEntries
<1>6. IsFiniteSet(ids) /\ \A i \in ids : i \in Ids /\ RepositoryOf[i] \in Repos
  BY FS_Subset DEF CheckerAssumption
<1>7. PICK m \in Nat : Used = 1 .. m
  BY DEF LedgerInv, UsedInOrder
<1>8. n = m
  <2>1. Cardinality(1 .. m) = m
    <3>1. 1 \in Int /\ m \in Int
      OBVIOUS
    <3>2. Cardinality(1 .. m) = IF 1 > m THEN 0 ELSE m - 1 + 1
      BY <3>1, FS_Interval
    <3> QED BY <3>2
  <2> QED BY <1>7, <2>1
<1>9. Cardinality(ids) \in Nat
  BY <1>6, FS_CardinalityType
<1>10. /\ spot \in [ids -> T] /\ \A i, j \in ids : i # j => spot[i] # spot[j]
       /\ \A t \in T : \E i \in ids : spot[i] = t
  <2>1. n \in Nat /\ IsFiniteSet(ids)
    BY <1>6, <1>8
  <2>2. spot = Spots(ids, n) /\ T = n + 1 .. n + Cardinality(ids)
    BY DEF Spots
  <2> HIDE DEF n, spot, T
  <2> QED BY <2>1, <2>2, PlacesFill
<1>11. T \subseteq Entries \ Used /\ Used \cup T = 1 .. (n + Cardinality(ids))
  <2>1. MaxEntries \in Nat
    BY DEF CheckerAssumption
  <2>2. \A t \in T : t \in 1 .. MaxEntries /\ t \notin 1 .. m
    BY <1>1, <1>8, <1>9, <2>1
  <2>3. (1 .. m) \cup T = 1 .. (n + Cardinality(ids))
    BY <1>8, <1>9
  <2> QED BY <1>7, <2>2, <2>3 DEF Entries
<1> HIDE DEF spot, T, n
<1>12. PlacedAt(spot, ids)
  <2>1. {spot[i] : i \in ids} = T
    BY <1>10
  <2>2. n + Cardinality(ids) \in Nat
    BY <1>8, <1>9
  <2> QED BY <1>10, <1>11, <2>1, <2>2 DEF PlacedAt
<1>13. \A r \in opening : \E i \in ids : RepositoryOf[i] = r /\ first(r) = spot[i]
  OBVIOUS
<1> HIDE DEF first
<1>14. \A r, q \in opening : first(r) = first(q) => r = q
  BY <1>10, <1>13
<1>15. /\ DOMAIN owner = Lanes /\ DOMAIN open = Lanes
       /\ \A k \in Lanes : DOMAIN owner[k] = Keys /\ DOMAIN open[k] = Repos
  BY DEF LedgerInv, CheckerShapes
<1>16. EntriesAdded(spot, l, ids, dropped)
  <2>1. DOMAIN entry' = Entries
    BY <1>2
  <2>2. ASSUME NEW i \in ids
        PROVE  entry'[spot[i]] = NewEntry(i, l, open'[l][RepositoryOf[i]])
    <3>1. spot[i] \in Entries /\ (CHOOSE j \in ids : spot[j] = spot[i]) = i
      BY <1>10, <1>11
    <3>2. open'[l][RepositoryOf[i]] = batchOf(RepositoryOf[i])
      BY <1>4, <1>6, <1>15
    <3> HIDE DEF batchOf
    <3>3. entry'[spot[i]] = [key |-> Key(i), lane |-> l, batch |-> batchOf(RepositoryOf[i]),
             at |-> "waiting", answer |-> "none", gen |-> generation[RepositoryOf[i]]]
      BY <1>2, <3>1
    <3> QED BY <3>2, <3>3 DEF NewEntry
  <2>3. \A e \in Entries : (\A i \in ids : spot[i] # e)
          => entry'[e] = Settle(entry, dropped, "superseded")[e]
    BY <1>2
  <2> QED BY <2>1, <2>2, <2>3 DEF EntriesAdded
<1>17. OwnersAdded(spot, l, ids, dropped)
  <2>1. DOMAIN owner' = Lanes /\ \A k \in Lanes : DOMAIN owner'[k] = Keys
    BY <1>3 DEF OwnersWithout
  <2>2. ASSUME NEW p \in Lanes, NEW k \in Keys, owner'[p][k] # 0
        PROVE  \/ p = l /\ \E i \in ids : Key(i) = k /\ owner'[p][k] = spot[i]
               \/ owner'[p][k] = owner[p][k] /\ owner[p][k] \notin dropped
    <3>1. CASE p = l /\ \E i \in ids : Key(i) = k
      BY <1>3, <3>1 DEF OwnersWithout
    <3>2. CASE ~ (p = l /\ \E i \in ids : Key(i) = k)
      <4>1. owner'[p][k] = OwnersWithout(dropped)[p][k]
        BY <1>3, <3>2 DEF OwnersWithout
      <4> QED BY <2>2, <4>1 DEF OwnersWithout
    <3> QED BY <3>1, <3>2
  <2> QED BY <2>1, <2>2, Zenon DEF OwnersAdded
<1>18. BatchesAdded(spot, l, ids)
  <2>1. DOMAIN batch' = Entries
    BY <1>5
  <2>2. \A r \in opening : first(r) \in Entries /\ batch'[first(r)] = JustOpened(r, l)
    <3> TAKE r \in opening
    <3>1. first(r) \in Entries /\ (CHOOSE q \in opening : first(q) = first(r)) = r
      BY <1>10, <1>11, <1>13, <1>14
    <3> HIDE DEF opening
    <3> QED BY <1>5, <3>1 DEF JustOpened
  <2>3. \A b \in Entries : batch'[b] = batch[b]
          \/ \E i \in ids : spot[i] = b /\ batch'[b] = JustOpened(RepositoryOf[i], l)
    <3> SUFFICES ASSUME NEW b \in Entries
                 PROVE  batch'[b] = batch[b]
                        \/ \E i \in ids : spot[i] = b /\ batch'[b] = JustOpened(RepositoryOf[i], l)
      OBVIOUS
    <3>1. CASE \E r \in opening : first(r) = b
      BY <1>13, <2>2, <3>1
    <3>2. CASE ~ \E r \in opening : first(r) = b
      BY <1>5, <3>2
    <3> QED BY <3>1, <3>2
  <2>4. DOMAIN open' = Lanes /\ \A k \in Lanes : DOMAIN open'[k] = Repos
    BY <1>4, <1>15
  <2>5. ASSUME NEW p \in Lanes, NEW r \in Repos
        PROVE  \/ open'[p][r] = open[p][r]
               \/ p = l /\ \E i \in ids : open'[p][r] = spot[i] /\ batch'[spot[i]] = JustOpened(r, l)
    <3>1. CASE p = l /\ r \in opening
      BY <1>4, <1>13, <1>15, <2>2, <3>1
    <3>2. CASE ~ (p = l /\ r \in opening)
      BY <1>4, <1>15, <3>2
    <3> QED BY <3>1, <3>2
  <2>6. ASSUME NEW i \in ids
        PROVE  \/ \E j \in ids : /\ open'[l][RepositoryOf[i]] = spot[j]
                                 /\ batch'[spot[j]] = JustOpened(RepositoryOf[i], l)
               \/ /\ open'[l][RepositoryOf[i]] = open[l][RepositoryOf[i]]
                  /\ Joinable(l, RepositoryOf[i])
    <3>1. RepositoryOf[i] \in Repos /\ open'[l][RepositoryOf[i]] = batchOf(RepositoryOf[i])
      BY <1>4, <1>6, <1>15
    <3>2. CASE RepositoryOf[i] \in opening
      BY <1>13, <2>2, <3>1, <3>2
    <3>3. CASE RepositoryOf[i] \notin opening
      BY <3>1, <3>3
    <3> QED BY <3>2, <3>3
  <2> QED BY <2>1, <2>3, <2>4, <2>5, <2>6, Zenon DEF BatchesAdded
<1> QED BY <1>12, <1>16, <1>17, <1>18


(* An entry dropped before it started is settled, and no other changes. *)
LEMMA SettleFacts ==
  ASSUME CheckerShapes, NEW es, NEW e \in Entries
  PROVE  /\ e \notin es => Settle(entry, es, "superseded")[e] = entry[e]
         /\ e \in es => Settle(entry, es, "superseded")[e]
                          = [entry[e] EXCEPT !.at = "settled", !.answer = "superseded"]
         /\ DOMAIN Settle(entry, es, "superseded") = Entries
BY DEF Settle

(* Requests, and what they drop, keep the ledger. *)
LEMMA RequestsKeepLedger ==
  ASSUME CheckerAssumption, LedgerInv, NEW l \in Lanes, NEW ids \in SUBSET Ids, NEW dropped,
         \A e \in dropped : e \in Used /\ entry[e].at = "waiting",
         AddEntries(l, ids, dropped),
         UNCHANGED <<branch, generation>>, DOMAIN answers' = Keys,
         DOMAIN finished' = Repos, DOMAIN visible' = Ids
  PROVE  /\ LedgerInv'
         /\ \A e \in Used : e \in Used' /\ entry'[e].lane = entry[e].lane
         /\ \A e \in Used' \ Used : entry'[e].answer = "none"
         /\ \A e \in Used : entry'[e] = entry[e] \/ (e \in dropped /\
              entry'[e] = [entry[e] EXCEPT !.at = "settled", !.answer = "superseded"])
         /\ \A e \in Entries : e \in Used' \/ entry'[e] = entry[e]
<1>1. PICK place : /\ PlacedAt(place, ids)
                   /\ EntriesAdded(place, l, ids, dropped)
                   /\ OwnersAdded(place, l, ids, dropped)
                   /\ BatchesAdded(place, l, ids)
  BY NewEntries
<1> DEFINE placed == {place[i] : i \in ids}
<1>2. CheckerShapes
  BY DEF LedgerInv
<1>3. placed \subseteq Entries \ Used /\ Used \subseteq Entries
  BY <1>1 DEF PlacedAt, Used
<1>4. \A i \in ids : /\ i \in Ids /\ Key(i) \in Keys /\ Key(i)[1] = i /\ Key(i)[2] = branch[i]
                     /\ RepositoryOf[i] \in Repos
  BY <1>2 DEF CheckerShapes, CheckerAssumption, Key, Keys
<1>5. ASSUME NEW e \in Used
      PROVE  /\ e \notin dropped => entry'[e] = entry[e]
             /\ e \in dropped => /\ entry[e].at = "waiting"
                                 /\ entry'[e] = [entry[e] EXCEPT !.at = "settled", !.answer = "superseded"]
  <2>1. e \in Entries /\ \A i \in ids : place[i] # e
    BY <1>3
  <2>2. entry'[e] = Settle(entry, dropped, "superseded")[e]
    BY <1>1, <2>1 DEF EntriesAdded
  <2> QED BY <1>2, <2>1, <2>2, SettleFacts
<1>6. \A e \in Used : DOMAIN entry[e] = EntryFields
  BY <1>2, <1>3 DEF CheckerShapes
<1>7. \A e \in Used :
        /\ DOMAIN entry'[e] = EntryFields
        /\ entry'[e].key = entry[e].key /\ entry'[e].lane = entry[e].lane
        /\ entry'[e].batch = entry[e].batch /\ entry'[e].gen = entry[e].gen
        /\ entry'[e].at = entry[e].at \/ entry'[e].at = "settled"
        /\ entry'[e].at # "settled" => entry'[e].answer = entry[e].answer
        /\ e \notin dropped => entry'[e].at = entry[e].at
  BY <1>5, <1>6 DEF EntryFields
<1>8. \A i \in ids :
        /\ DOMAIN entry'[place[i]] = EntryFields
        /\ entry'[place[i]].key = Key(i) /\ entry'[place[i]].lane = l
        /\ entry'[place[i]].batch = open'[l][RepositoryOf[i]]
        /\ entry'[place[i]].at = "waiting" /\ entry'[place[i]].answer = "none"
        /\ entry'[place[i]].gen = generation[RepositoryOf[i]]
  <2> TAKE i \in ids
  <2>1. entry'[place[i]] = NewEntry(i, l, open'[l][RepositoryOf[i]])
    BY <1>1 DEF EntriesAdded
  <2> QED BY <2>1 DEF NewEntry, EntryFields
<1>9. \A e \in Entries : e \notin Used /\ e \notin placed => entry'[e] = entry[e]
  <2> TAKE e \in Entries
  <2>1. e \notin placed => entry'[e] = Settle(entry, dropped, "superseded")[e]
    BY <1>1 DEF EntriesAdded
  <2>2. e \notin Used => e \notin dropped
    OBVIOUS
  <2> QED BY <1>2, <2>1, <2>2, SettleFacts
<1>10. DOMAIN entry' = Entries
  BY <1>1 DEF EntriesAdded
<1> HIDE DEF placed
<1>11. Used' = Used \cup placed
  <2>1. \A e \in Used : entry'[e].at # "unused"
    BY <1>7 DEF Used
  <2>2. \A e \in placed : entry'[e].at # "unused"
    BY <1>8 DEF placed
  <2>3. \A e \in Entries : e \notin Used /\ e \notin placed => entry'[e].at = "unused"
    BY <1>9 DEF Used
  <2> QED BY <1>3, <2>1, <2>2, <2>3 DEF Used
<1>12. /\ DOMAIN batch' = Entries
       /\ \A b \in Entries : batch'[b] = batch[b]
            \/ \E i \in ids : place[i] = b /\ batch'[b] = JustOpened(RepositoryOf[i], l)
  BY <1>1 DEF BatchesAdded
<1>13. \A b \in Used : batch'[b] = batch[b]
  BY <1>3, <1>12 DEF placed
<1>14. \A r, m : /\ DOMAIN JustOpened(r, m) = {"repo", "lane", "at"}
                 /\ JustOpened(r, m).repo = r /\ JustOpened(r, m).lane = m
                 /\ JustOpened(r, m).at \in {"queued", "debouncing"}
  BY DEF JustOpened
<1>15. CheckerShapes'
  <2>1. \A e \in Entries : DOMAIN entry'[e] = EntryFields
    BY <1>2, <1>7, <1>8, <1>9 DEF CheckerShapes, placed
  <2>2. \A b \in Entries : DOMAIN batch'[b] = {"repo", "lane", "at"}
    BY <1>2, <1>12, <1>14 DEF CheckerShapes
  <2>3. /\ DOMAIN owner' = Lanes /\ DOMAIN open' = Lanes
        /\ \A m \in Lanes : DOMAIN owner'[m] = Keys /\ DOMAIN open'[m] = Repos
    BY <1>1 DEF OwnersAdded, BatchesAdded
  <2> QED BY <1>2, <1>10, <1>12, <2>1, <2>2, <2>3 DEF CheckerShapes
<1>16. UsedInOrder'
  BY <1>1, <1>11 DEF PlacedAt, UsedInOrder, placed
<1>17. \A i \in ids : LET b == open'[l][RepositoryOf[i]] IN
         /\ b \in Entries /\ batch'[b].at \in {"queued", "debouncing"}
         /\ batch'[b].repo = RepositoryOf[i] /\ batch'[b].lane = l
  <2> TAKE i \in ids
  <2>1. CASE \E j \in ids : /\ open'[l][RepositoryOf[i]] = place[j]
                            /\ batch'[place[j]] = JustOpened(RepositoryOf[i], l)
    BY <1>3, <1>14, <2>1 DEF placed
  <2>2. CASE /\ open'[l][RepositoryOf[i]] = open[l][RepositoryOf[i]]
             /\ Joinable(l, RepositoryOf[i])
    <3>1. LET b == open[l][RepositoryOf[i]] IN
            /\ b \in Entries /\ batch[b].at \in {"queued", "debouncing"}
            /\ batch[b].repo = RepositoryOf[i] /\ batch[b].lane = l
      BY <1>4, <2>2 DEF LedgerInv, OpenGood, Joinable
    <3>2. open[l][RepositoryOf[i]] \in Used
      BY <3>1 DEF LedgerInv, BatchesOpened
    <3> QED BY <1>13, <2>2, <3>1, <3>2
  <2> QED BY <1>1, <2>1, <2>2 DEF BatchesAdded
<1>18. EntriesGood'
  <2>1. ASSUME NEW e \in Used
        PROVE  EntryOk(e)' /\ InItsBatch(e)'
    <3>1. EntryOk(e) /\ InItsBatch(e)
      BY DEF LedgerInv, EntriesGood
    <3>2. EntryOk(e)'
      BY <1>7, <3>1 DEF EntryOk, RepoOf
    <3>3. entry[e].batch \in Used
      BY <3>1 DEF InItsBatch, LedgerInv, BatchesOpened
    <3>4. InItsBatch(e)'
      BY <1>7, <1>13, <3>1, <3>3 DEF InItsBatch, RepoOf
    <3> QED BY <3>2, <3>4
  <2>2. ASSUME NEW i \in ids
        PROVE  EntryOk(place[i])' /\ InItsBatch(place[i])'
    <3>1. generation[RepositoryOf[i]] \in Nat /\ branch[i] \in Nat
      BY <1>2, <1>4 DEF CheckerShapes
    <3>2. RepoOf(place[i])' = RepositoryOf[i]
      BY <1>4, <1>8 DEF RepoOf
    <3>3. EntryOk(place[i])'
      BY <1>4, <1>8, <3>1, <3>2 DEF EntryOk
    <3>4. InItsBatch(place[i])'
      BY <1>8, <1>17, <3>2 DEF InItsBatch
    <3> QED BY <3>3, <3>4
  <2> QED BY <1>11, <2>1, <2>2 DEF EntriesGood, placed
<1>19. BatchesOpened'
  <2>1. \A b \in Entries : b \notin placed => batch'[b] = batch[b]
    BY <1>12 DEF placed
  <2> QED BY <1>11, <2>1 DEF LedgerInv, BatchesOpened
<1>20. OneGeneration'
  <2>1. \A e \in Used' : entry'[e].at = "started" => e \in Used
    BY <1>8, <1>11 DEF placed
  <2>2. \A e \in Used : entry'[e].at = "started" => entry[e].at = "started"
    BY <1>7
  <2> QED BY <1>7, <2>1, <2>2 DEF LedgerInv, OneGeneration
<1>21. OwnersGood'
  <2> SUFFICES ASSUME NEW m \in Lanes, NEW k \in Keys, owner'[m][k] # 0
               PROVE  /\ owner'[m][k] \in Used'
                      /\ entry'[owner'[m][k]].key = k /\ entry'[owner'[m][k]].lane = m
                      /\ entry'[owner'[m][k]].at # "settled"
    BY DEF OwnersGood, Settled
  <2>1. CASE m = l /\ \E i \in ids : Key(i) = k /\ owner'[m][k] = place[i]
    BY <1>8, <1>11, <2>1 DEF placed
  <2>2. CASE owner'[m][k] = owner[m][k] /\ owner[m][k] \notin dropped
    <3>1. /\ owner[m][k] \in Used /\ entry[owner[m][k]].key = k /\ entry[owner[m][k]].lane = m
          /\ entry[owner[m][k]].at # "settled"
      BY <2>2 DEF LedgerInv, OwnersGood, Settled
    <3> QED BY <1>7, <1>11, <2>2, <3>1
  <2> QED BY <1>1, <2>1, <2>2 DEF OwnersAdded
<1>22. OpenGood'
  <2> SUFFICES ASSUME NEW m \in Lanes, NEW r \in Repos, open'[m][r] # 0
               PROVE  /\ open'[m][r] \in Entries
                      /\ batch'[open'[m][r]].repo = r /\ batch'[open'[m][r]].lane = m
                      /\ batch'[open'[m][r]].at \notin {"unused", "done"}
    BY DEF OpenGood
  <2>1. CASE open'[m][r] = open[m][r]
    <3>1. /\ open[m][r] \in Entries
          /\ batch[open[m][r]].repo = r /\ batch[open[m][r]].lane = m
          /\ batch[open[m][r]].at \notin {"unused", "done"}
      BY <2>1 DEF LedgerInv, OpenGood
    <3>2. open[m][r] \in Used
      BY <3>1 DEF LedgerInv, BatchesOpened
    <3> QED BY <1>13, <2>1, <3>1, <3>2
  <2>2. CASE m = l /\ \E i \in ids : open'[m][r] = place[i] /\ batch'[place[i]] = JustOpened(r, l)
    BY <1>3, <1>14, <2>2 DEF placed
  <2> QED BY <1>1, <2>1, <2>2 DEF BatchesAdded
<1>23. \A e \in Used' \ Used : entry'[e].answer = "none"
  BY <1>8, <1>11 DEF placed
<1>24. \A e \in Entries : e \in Used' \/ entry'[e] = entry[e]
  BY <1>9, <1>11
<1> QED BY <1>5, <1>7, <1>11, <1>15, <1>16, <1>18, <1>19, <1>20, <1>21, <1>22, <1>23, <1>24 DEF LedgerInv


(* What other steps do to an entry: nothing, settle it, or start it in the          *)
(* repository's generation.                                                       *)
EntryMoves(e) ==
  /\ DOMAIN entry'[e] = EntryFields
  /\ entry'[e].key = entry[e].key /\ entry'[e].lane = entry[e].lane
  /\ entry'[e].batch = entry[e].batch
  /\ \/ entry'[e] = entry[e]
     \/ /\ entry[e].at # "unused" /\ entry'[e].at = "settled" /\ entry'[e].gen = entry[e].gen
     \/ /\ entry[e].at = "waiting" /\ entry'[e].at = "started"
        /\ entry'[e].gen = generation[RepoOf(e)] /\ entry'[e].answer = "none"

BatchMoves(b) ==
  /\ DOMAIN batch'[b] = {"repo", "lane", "at"}
  /\ batch'[b].repo = batch[b].repo /\ batch'[b].lane = batch[b].lane
  /\ batch'[b].at = "unused" <=> batch[b].at = "unused"

OwnersLeave ==
  /\ DOMAIN owner' = Lanes /\ \A l \in Lanes : DOMAIN owner'[l] = Keys
  /\ \A l \in Lanes, k \in Keys : owner'[l][k] # 0 =>
       owner'[l][k] = owner[l][k] /\ entry'[owner[l][k]].at # "settled"

BatchesClose ==
  /\ DOMAIN open' = Lanes /\ \A l \in Lanes : DOMAIN open'[l] = Repos
  /\ \A l \in Lanes, r \in Repos : open'[l][r] # 0 =>
       open'[l][r] = open[l][r] /\ batch'[open[l][r]].at # "done"

WorldMovesOn ==
  /\ branch' \in [Ids -> Nat] /\ \A id \in Ids : branch[id] <= branch'[id] /\ branch'[id] <= MaxSwitches[id]
  /\ generation' \in [Repos -> Nat] /\ \A r \in Repos : generation[r] <= generation'[r]

(* Steps that add no entry keep the ledger. *)
LEMMA LedgerMoves ==
  ASSUME CheckerAssumption, LedgerInv,
         DOMAIN entry' = Entries, \A e \in Entries : EntryMoves(e),
         DOMAIN batch' = Entries, \A b \in Entries : BatchMoves(b),
         \A e \in Used : entry'[e].at = "started" => batch'[entry[e].batch].at = "checking",
         OneGeneration', OwnersLeave, BatchesClose, WorldMovesOn,
         DOMAIN answers' = Keys, DOMAIN finished' = Repos, DOMAIN visible' = Ids
  PROVE  LedgerInv' /\ Used' = Used
<1>1. CheckerShapes'
  BY DEF CheckerShapes, EntryMoves, BatchMoves, OwnersLeave, BatchesClose, WorldMovesOn
<1>2. \A e \in Entries : entry'[e].at = "unused" <=> entry[e].at = "unused"
  BY DEF EntryMoves
<1>3. Used' = Used
  BY <1>2 DEF Used
<1>4. UsedInOrder'
  BY <1>3 DEF LedgerInv, UsedInOrder
<1>5. EntriesGood'
  <2> SUFFICES ASSUME NEW e \in Used
               PROVE  EntryOk(e)' /\ InItsBatch(e)'
    BY <1>3 DEF EntriesGood
  <2>1. EntryOk(e) /\ InItsBatch(e) /\ e \in Entries
    BY DEF LedgerInv, EntriesGood, Used
  <2>2. /\ entry'[e].key = entry[e].key /\ entry'[e].lane = entry[e].lane
        /\ entry'[e].batch = entry[e].batch
        /\ \/ entry'[e] = entry[e]
           \/ entry'[e].at = "settled" /\ entry'[e].gen = entry[e].gen
           \/ entry'[e].at = "started" /\ entry'[e].gen = generation[RepoOf(e)]
              /\ entry'[e].answer = "none"
    BY <2>1 DEF EntryMoves
  <2>3. entry[e].key[1] \in Ids /\ entry[e].key[2] \in Nat /\ RepoOf(e) \in Repos
    BY <2>1 DEF EntryOk, RepoOf, Keys, CheckerAssumption
  <2>4. RepoOf(e)' = RepoOf(e)
    BY <2>2 DEF RepoOf
  <2>5. /\ branch[entry[e].key[1]] \in Nat /\ branch'[entry[e].key[1]] \in Nat
        /\ branch[entry[e].key[1]] <= branch'[entry[e].key[1]]
        /\ generation[RepoOf(e)] \in Nat /\ generation'[RepoOf(e)] \in Nat
        /\ generation[RepoOf(e)] <= generation'[RepoOf(e)]
    BY <2>3 DEF WorldMovesOn, LedgerInv, CheckerShapes
  <2>6. EntryOk(e)'
    <3>1. entry'[e].key[2] <= branch'[entry'[e].key[1]]
      BY <2>1, <2>2, <2>3, <2>5 DEF EntryOk
    <3>2. entry'[e].gen \in Nat /\ entry'[e].gen <= generation'[RepoOf(e)]
      <4>1. entry[e].gen \in Nat /\ entry[e].gen <= generation[RepoOf(e)]
        BY <2>1 DEF EntryOk
      <4>2. entry'[e].gen = entry[e].gen \/ entry'[e].gen = generation[RepoOf(e)]
        BY <2>2
      <4> QED BY <2>5, <4>1, <4>2
    <3> QED BY <2>1, <2>2, <2>4, <3>1, <3>2 DEF EntryOk
  <2>7. InItsBatch(e)'
    BY <2>1, <2>2, <2>4 DEF InItsBatch, BatchMoves
  <2> QED BY <2>6, <2>7
<1>6. BatchesOpened'
  BY <1>3 DEF LedgerInv, BatchesOpened, BatchMoves
<1>7. OwnersGood'
  <2> SUFFICES ASSUME NEW l \in Lanes, NEW k \in Keys, owner'[l][k] # 0
               PROVE  /\ owner'[l][k] \in Used
                      /\ entry'[owner'[l][k]].key = k /\ entry'[owner'[l][k]].lane = l
                      /\ entry'[owner'[l][k]].at # "settled"
    BY <1>3 DEF OwnersGood, Settled
  <2>1. owner'[l][k] = owner[l][k] /\ entry'[owner[l][k]].at # "settled"
    BY DEF OwnersLeave
  <2>2. /\ owner[l][k] \in Used /\ owner[l][k] \in Entries
        /\ entry[owner[l][k]].key = k /\ entry[owner[l][k]].lane = l
    BY <2>1 DEF LedgerInv, OwnersGood, Used
  <2> QED BY <2>1, <2>2 DEF EntryMoves
<1>8. OpenGood'
  <2> SUFFICES ASSUME NEW l \in Lanes, NEW r \in Repos, open'[l][r] # 0
               PROVE  /\ open'[l][r] \in Entries
                      /\ batch'[open'[l][r]].repo = r /\ batch'[open'[l][r]].lane = l
                      /\ batch'[open'[l][r]].at \notin {"unused", "done"}
    BY DEF OpenGood
  <2>1. open'[l][r] = open[l][r] /\ batch'[open[l][r]].at # "done"
    BY DEF BatchesClose
  <2>2. /\ open[l][r] \in Entries
        /\ batch[open[l][r]].repo = r /\ batch[open[l][r]].lane = l
        /\ batch[open[l][r]].at # "unused"
    BY <2>1 DEF LedgerInv, OpenGood
  <2> QED BY <2>1, <2>2 DEF BatchMoves
<1> QED BY <1>1, <1>3, <1>4, <1>5, <1>6, <1>7, <1>8 DEF LedgerInv

(* What the ledger says of one entry. *)
LEMMA EntryFacts ==
  ASSUME CheckerAssumption, LedgerInv, NEW e \in Used
  PROVE  /\ e \in Entries /\ DOMAIN entry[e] = EntryFields
         /\ entry[e].key \in Keys /\ entry[e].key[1] \in Ids /\ RepoOf(e) \in Repos
         /\ entry[e].at \in {"waiting", "started", "settled"}
         /\ entry[e].at # "settled" => entry[e].answer = "none"
         /\ entry[e].gen \in Nat /\ generation[RepoOf(e)] \in Nat
         /\ entry[e].gen <= generation[RepoOf(e)]
         /\ entry[e].key[2] \in Nat /\ branch[entry[e].key[1]] \in Nat
         /\ entry[e].key[2] <= branch[entry[e].key[1]]
         /\ entry[e].batch \in Entries /\ batch[entry[e].batch].at # "unused"
         /\ batch[entry[e].batch].repo = RepoOf(e)
         /\ batch[entry[e].batch].lane = entry[e].lane
         /\ entry[e].at = "started" => batch[entry[e].batch].at = "checking"
<1>1. EntryOk(e) /\ InItsBatch(e) /\ e \in Entries /\ DOMAIN entry[e] = EntryFields
  BY DEF LedgerInv, EntriesGood, Used, CheckerShapes
<1>2. entry[e].key[1] \in Ids /\ entry[e].key[2] \in Nat /\ RepoOf(e) \in Repos
  BY <1>1 DEF EntryOk, RepoOf, Keys, CheckerAssumption
<1>3. generation[RepoOf(e)] \in Nat /\ branch[entry[e].key[1]] \in Nat
  BY <1>2 DEF LedgerInv, CheckerShapes
<1> QED BY <1>1, <1>2, <1>3 DEF EntryOk, InItsBatch

(* What is left alone moves. *)
LEMMA Unmoved ==
  ASSUME LedgerInv
  PROVE  /\ UNCHANGED entry => DOMAIN entry' = Entries /\ \A e \in Entries : EntryMoves(e)
         /\ UNCHANGED batch => DOMAIN batch' = Entries /\ \A b \in Entries : BatchMoves(b)
         /\ UNCHANGED <<owner, entry>> => OwnersLeave
         /\ UNCHANGED <<open, batch>> => BatchesClose
         /\ UNCHANGED <<branch, generation>> => WorldMovesOn
<1>1. CheckerShapes /\ OwnersGood /\ OpenGood
  BY DEF LedgerInv
<1>2. UNCHANGED entry => DOMAIN entry' = Entries /\ \A e \in Entries : EntryMoves(e)
  BY <1>1 DEF CheckerShapes, EntryMoves
<1>3. UNCHANGED batch => DOMAIN batch' = Entries /\ \A b \in Entries : BatchMoves(b)
  BY <1>1 DEF CheckerShapes, BatchMoves
<1>4. UNCHANGED <<owner, entry>> => OwnersLeave
  BY <1>1 DEF CheckerShapes, OwnersLeave, OwnersGood, Settled
<1>5. UNCHANGED <<open, batch>> => BatchesClose
  BY <1>1 DEF CheckerShapes, BatchesClose, OpenGood
<1>6. UNCHANGED <<branch, generation>> => WorldMovesOn
  BY <1>1 DEF CheckerShapes, WorldMovesOn
<1> QED BY <1>2, <1>3, <1>4, <1>5, <1>6


-----------------------------------------------------------------------------
(* Freshness and causes *)

FreshAnswers ==
  /\ \A k \in Keys : answers[k] # -1 => answers[k] = generation[RepositoryOf[k[1]]]
  /\ \A r \in Repos : finished[r] # -1 => finished[r] = generation[r]

(* Why an entry may be taken away. *)
Cause(e) ==
  \/ stopped
  \/ entry[e].gen # generation[RepoOf(e)]
  \/ Key(entry[e].key[1]) # entry[e].key

CheckerInv == LedgerInv /\ VisibleGood /\ FreshAnswers /\ OnlySupersededForCause

(* A cause does not go away: generations and branches only go up. *)
LEMMA CausesStay ==
  ASSUME CheckerAssumption, LedgerInv, NEW e \in Used, Cause(e), WorldMovesOn, stopped => stopped',
         entry'[e].gen = entry[e].gen, entry'[e].key = entry[e].key
  PROVE  Cause(e)'
<1>1. /\ entry[e].key \in Keys /\ entry[e].key[1] \in Ids /\ RepoOf(e) \in Repos
      /\ entry[e].gen \in Nat /\ generation[RepoOf(e)] \in Nat
      /\ entry[e].gen <= generation[RepoOf(e)]
      /\ entry[e].key[2] \in Nat /\ branch[entry[e].key[1]] \in Nat
      /\ entry[e].key[2] <= branch[entry[e].key[1]]
  BY EntryFacts
<1>2. RepoOf(e)' = RepoOf(e)
  BY DEF RepoOf
<1>3. CASE stopped
  BY <1>3 DEF Cause
<1>4. CASE entry[e].gen # generation[RepoOf(e)]
  <2>1. generation'[RepoOf(e)] \in Nat /\ generation[RepoOf(e)] <= generation'[RepoOf(e)]
    BY <1>1 DEF WorldMovesOn
  <2>2. entry'[e].gen # generation'[RepoOf(e)]
    BY <1>1, <1>4, <2>1
  <2> QED BY <1>2, <2>2 DEF Cause
<1>5. CASE Key(entry[e].key[1]) # entry[e].key
  <2>1. entry[e].key = <<entry[e].key[1], entry[e].key[2]>>
    BY <1>1 DEF Keys
  <2>2. branch[entry[e].key[1]] # entry[e].key[2]
    BY <1>5, <2>1 DEF Key
  <2>3. /\ branch'[entry[e].key[1]] \in Nat
        /\ branch[entry[e].key[1]] <= branch'[entry[e].key[1]]
    BY <1>1 DEF WorldMovesOn
  <2>4. branch'[entry[e].key[1]] # entry[e].key[2]
    BY <1>1, <2>2, <2>3
  <2>5. <<entry[e].key[1], branch'[entry[e].key[1]]>> # entry[e].key
    BY <2>1, <2>4
  <2> QED BY <2>5 DEF Cause, Key
<1> QED BY <1>3, <1>4, <1>5 DEF Cause

(* An entry of a selection is superseded in a step only for a cause. *)
SupersededFairly ==
  \A e \in Used : entry[e].lane = "direct" /\ entry'[e].answer = "superseded" =>
    entry'[e] = entry[e] \/ Cause(e)'

VisibleClears == \A id \in Ids : visible'[id] = visible[id] \/ visible'[id] = 0

(* Steps that add no entry keep the invariant. *)
LEMMA StepKeeps ==
  ASSUME CheckerAssumption, CheckerInv,
         DOMAIN entry' = Entries, \A e \in Entries : EntryMoves(e),
         DOMAIN batch' = Entries, \A b \in Entries : BatchMoves(b),
         \A e \in Used : entry'[e].at = "started" => batch'[entry[e].batch].at = "checking",
         OneGeneration', OwnersLeave, BatchesClose, WorldMovesOn,
         DOMAIN answers' = Keys, DOMAIN finished' = Repos, DOMAIN visible' = Ids,
         VisibleClears, FreshAnswers', stopped => stopped', SupersededFairly
  PROVE  CheckerInv'
<1>1. LedgerInv
  BY DEF CheckerInv
<1>2. LedgerInv' /\ Used' = Used
  BY <1>1, LedgerMoves
<1>3. \A e \in Used : e \in Entries /\ entry'[e].lane = entry[e].lane /\ entry'[e].key = entry[e].key
  BY DEF Used, EntryMoves
<1>4. VisibleGood'
  BY <1>2, <1>3 DEF CheckerInv, VisibleGood, VisibleClears
<1>5. OnlySupersededForCause'
  <2> SUFFICES ASSUME NEW e \in Used, entry'[e].lane = "direct", entry'[e].answer = "superseded"
               PROVE  Cause(e)'
    BY <1>2 DEF OnlySupersededForCause, Cause
  <2>1. CASE entry'[e] = entry[e]
    <3>1. Cause(e)
      BY <2>1 DEF CheckerInv, OnlySupersededForCause, Cause
    <3> QED BY <1>1, <2>1, <3>1, CausesStay
  <2>2. CASE entry'[e] # entry[e]
    BY <1>3, <2>2 DEF SupersededFairly
  <2> QED BY <2>1, <2>2
<1> QED BY <1>2, <1>4, <1>5 DEF CheckerInv

(* Steps that touch no entry, batch or handle. *)
LEMMA LedgerIdle ==
  ASSUME CheckerAssumption, CheckerInv, UNCHANGED <<queues, visible>>, WorldMovesOn,
         DOMAIN answers' = Keys, DOMAIN finished' = Repos, FreshAnswers', stopped => stopped'
  PROVE  CheckerInv'
<1>1. UNCHANGED <<entry, batch, owner, open, visible>>
  BY DEF queues
<1>2. LedgerInv /\ CheckerShapes
  BY DEF CheckerInv, LedgerInv
<1>3. \A e \in Used : entry'[e].at = "started" => batch'[entry[e].batch].at = "checking"
  BY <1>1, <1>2, EntryFacts
<1>4. OneGeneration'
  BY <1>1, <1>2 DEF LedgerInv, OneGeneration, Used
<1>5. DOMAIN visible' = Ids /\ VisibleClears /\ SupersededFairly
  BY <1>1, <1>2 DEF CheckerShapes, VisibleClears, SupersededFairly
<1> QED BY <1>1, <1>2, <1>3, <1>4, <1>5, StepKeeps, Unmoved

(* A branch switch, a pull, a change of focus, sixty seconds. *)
LEMMA WorldSteps ==
  ASSUME CheckerAssumption, CheckerInv,
         \/ \E id \in Ids : SwitchBranch(id)
         \/ \E r \in Repos : Pull(r)
         \/ FocusChanges \/ Expires \/ UNCHANGED vars
  PROVE  CheckerInv'
<1>1. CheckerShapes /\ FreshAnswers
  BY DEF CheckerInv, LedgerInv
<1>2. ASSUME NEW id \in Ids, SwitchBranch(id)
      PROVE  CheckerInv'
  <2>1. /\ UNCHANGED <<queues, visible, generation, answers, finished, stopped>>
        /\ branch[id] < MaxSwitches[id] /\ branch' = [branch EXCEPT ![id] = @ + 1]
    BY <1>2 DEF SwitchBranch
  <2>2. WorldMovesOn
    BY <1>1, <2>1 DEF CheckerShapes, WorldMovesOn, CheckerAssumption
  <2> QED BY <1>1, <2>1, <2>2, LedgerIdle DEF CheckerShapes, FreshAnswers
<1>3. CASE (\E r \in Repos : Pull(r)) \/ FocusChanges \/ UNCHANGED vars
  <2>1. UNCHANGED <<queues, visible, branch, generation, answers, finished, stopped>>
    BY <1>3 DEF Pull, FocusChanges, vars
  <2>2. WorldMovesOn
    BY <2>1, Unmoved DEF CheckerInv
  <2> QED BY <1>1, <2>1, <2>2, LedgerIdle DEF CheckerShapes, FreshAnswers
<1>4. CASE Expires
  <2>1. /\ UNCHANGED <<queues, visible, branch, generation, stopped>>
        /\ DOMAIN answers' = Keys /\ DOMAIN finished' = Repos
        /\ \A k \in Keys : answers'[k] = -1 \/ answers'[k] = answers[k]
        /\ \A r \in Repos : finished'[r] = -1 \/ finished'[r] = finished[r]
    BY <1>1, <1>4 DEF Expires, CheckerShapes
  <2>2. WorldMovesOn
    BY <2>1, Unmoved DEF CheckerInv
  <2>3. FreshAnswers'
    BY <1>1, <2>1 DEF FreshAnswers
  <2> QED BY <2>1, <2>2, <2>3, LedgerIdle
<1> QED BY <1>2, <1>3, <1>4


(* Dropping entries that wait settles them and moves no other. *)
LEMMA DroppingMoves ==
  ASSUME CheckerAssumption, LedgerInv, NEW es, \A e \in es : e \in Used /\ entry[e].at = "waiting",
         entry' = Settle(entry, es, "superseded")
  PROVE  /\ DOMAIN entry' = Entries /\ \A e \in Entries : EntryMoves(e)
         /\ \A e \in Used : e \notin es => entry'[e] = entry[e]
         /\ \A e \in Used : entry'[e].at = "started" => entry[e].at = "started"
         /\ \A e \in es : entry'[e].at = "settled"
         /\ \A e \in Used : entry'[e].gen = entry[e].gen
         /\ OneGeneration'
<1>1. CheckerShapes /\ DOMAIN entry = Entries /\ \A e \in Entries : DOMAIN entry[e] = EntryFields
  BY DEF LedgerInv, CheckerShapes
<1>2. DOMAIN entry' = Entries
  BY DEF Settle
<1>3. \A e \in Entries : e \notin es => entry'[e] = entry[e]
  BY <1>1, SettleFacts
<1>4. \A e \in Entries : e \in es =>
        entry'[e] = [entry[e] EXCEPT !.at = "settled", !.answer = "superseded"]
  <2> TAKE e \in Entries
  <2>1. entry'[e] = Settle(entry, es, "superseded")[e]
    OBVIOUS
  <2> QED BY <1>1, <2>1, SettleFacts
<1>5. \A e \in es : e \in Used /\ e \in Entries
  BY DEF Used
<1>6. \A e \in es : /\ DOMAIN entry'[e] = EntryFields /\ entry'[e].key = entry[e].key
                    /\ entry'[e].lane = entry[e].lane /\ entry'[e].batch = entry[e].batch
                    /\ entry'[e].gen = entry[e].gen /\ entry'[e].at = "settled"
  <2> TAKE e \in es
  <2>1. DOMAIN entry[e] = EntryFields
        /\ entry'[e] = [entry[e] EXCEPT !.at = "settled", !.answer = "superseded"]
    BY <1>1, <1>4, <1>5
  <2> QED BY <2>1 DEF EntryFields
<1>7. \A e \in Entries : EntryMoves(e)
  BY <1>1, <1>3, <1>6 DEF EntryMoves
<1>8. \A e \in Used : e \in Entries
  BY DEF Used
<1>9. Used' = Used
  BY <1>3, <1>5, <1>6 DEF Used
<1>10. OneGeneration'
  BY <1>3, <1>6, <1>8, <1>9 DEF LedgerInv, OneGeneration
<1> QED BY <1>2, <1>3, <1>6, <1>7, <1>8, <1>10

(* And keys that lose them as owners keep the others. *)
LEMMA OwnersDrop ==
  ASSUME LedgerInv, NEW es, \A e \in Used : e \notin es => entry'[e] = entry[e],
         NEW l \in Lanes, NEW k \in Keys, OwnersWithout(es)[l][k] # 0
  PROVE  OwnersWithout(es)[l][k] = owner[l][k] /\ entry'[owner[l][k]].at # "settled"
<1>1. OwnersWithout(es)[l][k] = owner[l][k] /\ owner[l][k] \notin es /\ owner[l][k] # 0
  BY DEF OwnersWithout
<1>2. owner[l][k] \in Used /\ entry[owner[l][k]].at # "settled"
  BY <1>1 DEF LedgerInv, OwnersGood, Settled
<1> QED BY <1>1, <1>2

(* The owners keep their shape. *)
LEMMA OwnersDropShape ==
  ASSUME NEW es
  PROVE  DOMAIN OwnersWithout(es) = Lanes /\ \A l \in Lanes : DOMAIN OwnersWithout(es)[l] = Keys
BY DEF OwnersWithout

(* An operation takes the waiting entries of its repository, in a new generation. *)
LEMMA OperationKeeps ==
  ASSUME CheckerAssumption, CheckerInv, NEW r \in Repos, TrackedOperation(r)
  PROVE  CheckerInv'
<1> DEFINE es == Cancelable({e \in Used : RepoOf(e) = r})
<1>1. /\ generation' = [generation EXCEPT ![r] = @ + 1]
      /\ finished' = [finished EXCEPT ![r] = -1]
      /\ answers' = CacheWithout(r)
      /\ entry' = Settle(entry, es, "superseded")
      /\ owner' = OwnersWithout(es)
      /\ UNCHANGED <<branch, batch, open, visible, stopped>>
  BY Zenon DEF TrackedOperation
<1>2. \A e \in es : e \in Used /\ entry[e].at = "waiting" /\ RepoOf(e) = r
  BY DEF Cancelable
<1>3. LedgerInv /\ CheckerShapes /\ FreshAnswers
  BY DEF CheckerInv, LedgerInv
<1> HIDE DEF es
<1>4. /\ DOMAIN entry' = Entries /\ \A e \in Entries : EntryMoves(e)
      /\ \A e \in Used : e \notin es => entry'[e] = entry[e]
      /\ \A e \in Used : entry'[e].at = "started" => entry[e].at = "started"
      /\ \A e \in Used : entry'[e].gen = entry[e].gen
      /\ OneGeneration'
  BY <1>1, <1>2, <1>3, DroppingMoves
<1>5. OwnersLeave
  BY <1>1, <1>3, <1>4, OwnersDrop, OwnersDropShape DEF OwnersLeave
<1>6. /\ DOMAIN batch' = Entries /\ \A b \in Entries : BatchMoves(b)
      /\ BatchesClose
  BY <1>1, <1>3, Unmoved
<1>7. WorldMovesOn
  BY <1>1, <1>3 DEF CheckerShapes, WorldMovesOn
<1>8. DOMAIN answers' = Keys /\ DOMAIN finished' = Repos /\ DOMAIN visible' = Ids /\ VisibleClears
  BY <1>1, <1>3 DEF CheckerShapes, CacheWithout, VisibleClears
<1>9. FreshAnswers'
  BY <1>1, <1>3 DEF CheckerShapes, CacheWithout, FreshAnswers
<1>10. SupersededFairly
  <2> SUFFICES ASSUME NEW e \in es
               PROVE  Cause(e)'
    BY <1>4 DEF SupersededFairly
  <2>1. e \in Used /\ RepoOf(e) = r /\ e \in Entries
    BY <1>2 DEF Used
  <2>2. entry[e].gen \in Nat /\ generation[r] \in Nat /\ entry[e].gen <= generation[r]
    BY <1>3, <2>1, EntryFacts
  <2>3. RepoOf(e)' = r /\ entry'[e].gen = entry[e].gen
    BY <1>4, <2>1 DEF EntryMoves, RepoOf
  <2>4. generation'[r] = generation[r] + 1
    BY <1>1, <1>3 DEF CheckerShapes
  <2> QED BY <2>2, <2>3, <2>4 DEF Cause
<1>11. \A e \in Used : entry'[e].at = "started" => batch'[entry[e].batch].at = "checking"
  BY <1>1, <1>3, <1>4, EntryFacts
<1> QED BY <1>1, <1>4, <1>5, <1>6, <1>7, <1>8, <1>9, <1>10, <1>11, StepKeeps

(* So does the end of the app, and it clears the batches that wait for a timer. *)
LEMMA StopKeeps ==
  ASSUME CheckerAssumption, CheckerInv, Stop
  PROVE  CheckerInv'
<1> DEFINE es == Cancelable(Used)
<1>1. /\ stopped' = TRUE
      /\ entry' = Settle(entry, es, "superseded")
      /\ owner' = OwnersWithout(es)
      /\ batch' = [b \in Entries |-> IF batch[b].at = "debouncing"
                                     THEN [batch[b] EXCEPT !.at = "cleared"] ELSE batch[b]]
      /\ visible' = [id \in Ids |-> 0]
      /\ finished' = [r \in Repos |-> -1]
      /\ answers' = [k \in Keys |-> -1]
      /\ UNCHANGED <<branch, open, generation>>
  BY Zenon DEF Stop
<1>2. \A e \in es : e \in Used /\ entry[e].at = "waiting"
  BY DEF Cancelable
<1>3. LedgerInv /\ CheckerShapes
  BY DEF CheckerInv, LedgerInv
<1> HIDE DEF es
<1>4. /\ DOMAIN entry' = Entries /\ \A e \in Entries : EntryMoves(e)
      /\ \A e \in Used : e \notin es => entry'[e] = entry[e]
      /\ \A e \in Used : entry'[e].at = "started" => entry[e].at = "started"
      /\ OneGeneration'
  BY <1>1, <1>2, <1>3, DroppingMoves
<1>5. OwnersLeave
  BY <1>1, <1>3, <1>4, OwnersDrop, OwnersDropShape DEF OwnersLeave
<1>6. \A b \in Entries : IF batch[b].at = "debouncing"
                         THEN batch'[b] = [batch[b] EXCEPT !.at = "cleared"]
                         ELSE batch'[b] = batch[b]
  BY <1>1
<1>7. \A b \in Entries :
        /\ BatchMoves(b)
        /\ batch'[b].at = batch[b].at \/ (batch'[b].at = "cleared" /\ batch[b].at = "debouncing")
  <2> TAKE b \in Entries
  <2>1. DOMAIN batch[b] = {"repo", "lane", "at"}
    BY <1>3 DEF CheckerShapes
  <2>2. CASE batch[b].at = "debouncing"
    <3>1. batch'[b] = [batch[b] EXCEPT !.at = "cleared"]
      BY <1>6, <2>2
    <3> QED BY <2>1, <2>2, <3>1 DEF BatchMoves
  <2>3. CASE batch[b].at # "debouncing"
    <3>1. batch'[b] = batch[b]
      BY <1>6, <2>3
    <3> QED BY <2>1, <3>1 DEF BatchMoves
  <2> QED BY <2>2, <2>3
<1>8. DOMAIN batch' = Entries
  BY <1>1
<1>9. BatchesClose
  <2>1. \A l \in Lanes, r \in Repos : open[l][r] # 0 =>
          open[l][r] \in Entries /\ batch[open[l][r]].at # "done"
    BY <1>3 DEF LedgerInv, OpenGood
  <2> QED BY <1>1, <1>3, <1>7, <2>1 DEF CheckerShapes, BatchesClose
<1>10. WorldMovesOn
  BY <1>1, <1>3, Unmoved
<1>11. DOMAIN answers' = Keys /\ DOMAIN finished' = Repos /\ DOMAIN visible' = Ids /\ VisibleClears
  BY <1>1 DEF VisibleClears
<1>12. FreshAnswers'
  BY <1>1 DEF FreshAnswers
<1>13. SupersededFairly
  BY <1>1 DEF SupersededFairly, Cause
<1>14. \A e \in Used : entry'[e].at = "started" => batch'[entry[e].batch].at = "checking"
  BY <1>3, <1>4, <1>7, EntryFacts
<1> QED BY <1>1, <1>4, <1>5, <1>7, <1>8, <1>9, <1>10, <1>11, <1>12, <1>13, <1>14, StepKeeps


(* One batch moves to another stage. *)
LEMMA BatchTo ==
  ASSUME LedgerInv, NEW b \in Entries, NEW x, batch[b].at # "unused", x # "unused",
         batch' = [batch EXCEPT ![b].at = x]
  PROVE  /\ DOMAIN batch' = Entries /\ \A a \in Entries : BatchMoves(a)
         /\ batch'[b].at = x /\ \A a \in Entries : a # b => batch'[a] = batch[a]
<1>1. DOMAIN batch = Entries /\ \A a \in Entries : DOMAIN batch[a] = {"repo", "lane", "at"}
  BY DEF LedgerInv, CheckerShapes
<1>2. /\ DOMAIN batch' = Entries /\ batch'[b] = [batch[b] EXCEPT !.at = x]
      /\ \A a \in Entries : a # b => batch'[a] = batch[a]
  BY <1>1
<1>3. BatchMoves(b) /\ batch'[b].at = x
  BY <1>1, <1>2 DEF BatchMoves
<1>4. \A a \in Entries : a # b => BatchMoves(a)
  BY <1>1, <1>2 DEF BatchMoves
<1> QED BY <1>2, <1>3, <1>4

(* It is closed to new entries when it is over, and others stay as they were. *)
LEMMA OneCloses ==
  ASSUME LedgerInv, NEW b \in Entries,
         \A a \in Entries : a # b => batch'[a] = batch[a],
         open' = OpenWithout(b) \/ (UNCHANGED open /\ batch'[b].at # "done")
  PROVE  BatchesClose
<1>1. /\ DOMAIN open = Lanes /\ \A l \in Lanes : DOMAIN open[l] = Repos
      /\ \A l \in Lanes, r \in Repos : open[l][r] # 0 =>
           open[l][r] \in Entries /\ batch[open[l][r]].at # "done"
  BY DEF LedgerInv, CheckerShapes, OpenGood
<1>2. CASE open' = OpenWithout(b)
  <2>1. /\ DOMAIN open' = Lanes /\ \A l \in Lanes : DOMAIN open'[l] = Repos
        /\ \A l \in Lanes, r \in Repos : open'[l][r] = IF open[l][r] = b THEN 0 ELSE open[l][r]
    BY <1>2 DEF OpenWithout
  <2> QED BY <1>1, <2>1 DEF BatchesClose
<1>3. CASE UNCHANGED open /\ batch'[b].at # "done"
  BY <1>1, <1>3 DEF BatchesClose
<1> QED BY <1>2, <1>3

(* Its keys have no owner then: those of its lane that are its own. *)
LEMMA ForgottenFacts ==
  ASSUME NEW o, NEW b
  PROVE  /\ DOMAIN Forgotten(o, b) = Lanes /\ \A l \in Lanes : DOMAIN Forgotten(o, b)[l] = Keys
         /\ \A l \in Lanes, k \in Keys : Forgotten(o, b)[l][k] # 0 =>
              /\ Forgotten(o, b)[l][k] = o[l][k] /\ o[l][k] # 0
              /\ l = batch[b].lane => o[l][k] \notin Members(b)
BY DEF Forgotten

(* The debounce ends. *)
LEMMA DebouncedKeeps ==
  ASSUME CheckerAssumption, CheckerInv, NEW b \in Entries, Debounced(b)
  PROVE  CheckerInv'
<1>1. /\ batch[b].at = "debouncing" /\ batch' = [batch EXCEPT ![b].at = "queued"]
      /\ UNCHANGED <<branch, entry, owner, open, generation, finished, answers, visible, stopped>>
  BY DEF Debounced
<1>2. LedgerInv /\ CheckerShapes /\ FreshAnswers
  BY DEF CheckerInv, LedgerInv
<1>3. /\ DOMAIN batch' = Entries /\ \A a \in Entries : BatchMoves(a)
      /\ batch'[b].at = "queued" /\ \A a \in Entries : a # b => batch'[a] = batch[a]
  BY <1>1, <1>2, BatchTo
<1>4. BatchesClose
  BY <1>1, <1>2, <1>3, OneCloses
<1>5. /\ DOMAIN entry' = Entries /\ \A e \in Entries : EntryMoves(e)
      /\ OwnersLeave /\ WorldMovesOn
  BY <1>1, <1>2, Unmoved
<1>6. \A e \in Used : entry'[e].at = "started" => batch'[entry[e].batch].at = "checking"
  BY <1>1, <1>2, <1>3, EntryFacts
<1>7. OneGeneration' /\ FreshAnswers'
  BY <1>1, <1>2 DEF LedgerInv, OneGeneration, Used, FreshAnswers
<1>8. /\ DOMAIN answers' = Keys /\ DOMAIN finished' = Repos /\ DOMAIN visible' = Ids
      /\ VisibleClears /\ SupersededFairly
  BY <1>1, <1>2 DEF CheckerShapes, VisibleClears, SupersededFairly
<1> QED BY <1>1, <1>3, <1>4, <1>5, <1>6, <1>7, <1>8, StepKeeps

(* An entry that a batch drops when it runs has a cause, if it is a selection's. *)
LEMMA InvalidForCause ==
  ASSUME CheckerAssumption, LedgerInv, NEW b \in Entries,
         NEW e \in Cancelable(Members(b) \ Valid(b)), entry[e].lane = "direct"
  PROVE  Cause(e)
<1>1. e \in Used /\ e \in Members(b) /\ e \notin Valid(b) /\ entry[e].at = "waiting" /\ entry[e].batch = b
  BY DEF Cancelable, Members
<1>2. batch[b].lane = "direct"
  BY <1>1, EntryFacts
<1>3. stopped \/ Key(entry[e].key[1]) # entry[e].key
  BY <1>1, <1>2 DEF Valid, Settled
<1> QED BY <1>3 DEF Cause

(* The members of a batch that does not check wait or are settled. *)
LEMMA MembersWait ==
  ASSUME CheckerAssumption, LedgerInv, NEW b \in Entries, batch[b].at # "checking"
  PROVE  /\ \A e \in Members(b) : e \in Used /\ entry[e].at \in {"waiting", "settled"}
         /\ \A e \in Valid(b) : e \in Members(b) /\ entry[e].at = "waiting"
<1>1. \A e \in Members(b) : e \in Used /\ entry[e].batch = b
  BY DEF Members
<1>2. \A e \in Members(b) : entry[e].at \in {"waiting", "settled"}
  BY <1>1, EntryFacts
<1>3. \A e \in Valid(b) : e \in Members(b) /\ entry[e].at # "settled"
  BY DEF Valid, Settled
<1> QED BY <1>1, <1>2, <1>3

(* A batch takes its slot: what is not valid any more is dropped. *)
LEMMA RunStartsKeeps ==
  ASSUME CheckerAssumption, CheckerInv, NEW b \in Entries, RunStarts(b)
  PROVE  CheckerInv'
<1> DEFINE es == Cancelable(Members(b) \ Valid(b))
           at == IF Valid(b) = {} THEN "done" ELSE "started"
<1>1. /\ batch[b].at = "queued"
      /\ entry' = Settle(entry, es, "superseded")
      /\ batch' = [batch EXCEPT ![b].at = at]
      /\ owner' = Forgotten(OwnersWithout(es), b) \/ owner' = OwnersWithout(es)
      /\ open' = OpenWithout(b) \/ (UNCHANGED open /\ at = "started")
      /\ UNCHANGED <<branch, generation, finished, answers, visible, stopped>>
  BY Zenon DEF RunStarts
<1>2. \A e \in es : e \in Used /\ entry[e].at = "waiting"
  BY DEF Cancelable, Members
<1>3. LedgerInv /\ CheckerShapes /\ FreshAnswers
  BY DEF CheckerInv, LedgerInv
<1>4. at \in {"done", "started"}
  OBVIOUS
<1>5. \A e \in es : entry[e].lane = "direct" => Cause(e)
  BY <1>3, InvalidForCause
<1> HIDE DEF es, at
<1>6. /\ DOMAIN entry' = Entries /\ \A e \in Entries : EntryMoves(e)
      /\ \A e \in Used : e \notin es => entry'[e] = entry[e]
      /\ \A e \in Used : entry'[e].at = "started" => entry[e].at = "started"
      /\ \A e \in Used : entry'[e].gen = entry[e].gen
      /\ OneGeneration'
  BY <1>1, <1>2, <1>3, DroppingMoves
<1>7. /\ DOMAIN batch' = Entries /\ \A a \in Entries : BatchMoves(a)
      /\ batch'[b].at = at /\ \A a \in Entries : a # b => batch'[a] = batch[a]
  BY <1>1, <1>3, <1>4, BatchTo
<1>8. BatchesClose
  BY <1>1, <1>3, <1>7, OneCloses
<1>9. \A l \in Lanes, k \in Keys : OwnersWithout(es)[l][k] # 0 =>
        OwnersWithout(es)[l][k] = owner[l][k] /\ entry'[owner[l][k]].at # "settled"
  BY <1>3, <1>6, OwnersDrop
<1>10. OwnersLeave
  BY <1>1, <1>9, OwnersDropShape, ForgottenFacts DEF OwnersLeave
<1>11. WorldMovesOn
  BY <1>1, <1>3, Unmoved
<1>12. \A e \in Used : entry'[e].at = "started" => batch'[entry[e].batch].at = "checking"
  BY <1>1, <1>3, <1>6, <1>7, EntryFacts
<1>13. SupersededFairly
  <2> SUFFICES ASSUME NEW e \in Used, entry[e].lane = "direct", e \in es
               PROVE  Cause(e)'
    BY <1>6 DEF SupersededFairly
  <2>1. entry'[e].gen = entry[e].gen /\ entry'[e].key = entry[e].key
    BY <1>6 DEF EntryMoves, Used
  <2> QED BY <1>1, <1>3, <1>5, <1>11, <2>1, CausesStay
<1>14. DOMAIN answers' = Keys /\ DOMAIN finished' = Repos /\ DOMAIN visible' = Ids /\ VisibleClears
  BY <1>1, <1>3 DEF CheckerShapes, VisibleClears
<1>15. FreshAnswers'
  BY <1>1, <1>3 DEF FreshAnswers
<1> QED BY <1>1, <1>6, <1>7, <1>8, <1>10, <1>11, <1>12, <1>13, <1>14, <1>15, StepKeeps


(* A batch that asks no remote, or has no entry left, ends with what is known. *)
LEMMA RecallKeeps ==
  ASSUME CheckerAssumption, CheckerInv, NEW b \in Entries, RunGoes(b),
         Valid(b) = {} \/ NeedsNoCheck(b)
  PROVE  CheckerInv'
<1> DEFINE es == Cancelable(Members(b) \ Valid(b))
           kept == Settle(entry, es, "superseded")
<1>1. /\ batch[b].at = "started"
      /\ entry' = Recalled(kept, b)
      /\ batch' = [batch EXCEPT ![b].at = "done"]
      /\ owner' = Forgotten(OwnersWithout(es), b)
      /\ open' = OpenWithout(b)
      /\ UNCHANGED <<branch, generation, finished, answers, visible, stopped>>
  BY Zenon DEF RunGoes
<1>2. \A e \in es : e \in Used /\ entry[e].at = "waiting" /\ e \notin Valid(b) /\ e \in Members(b)
  BY DEF Cancelable, Members
<1>3. LedgerInv /\ CheckerShapes /\ FreshAnswers
  BY DEF CheckerInv, LedgerInv
<1>4. \A e \in es : entry[e].lane = "direct" => Cause(e)
  BY <1>3, InvalidForCause
<1> HIDE DEF es
<1>5. /\ \A e \in Members(b) : e \in Used /\ entry[e].at \in {"waiting", "settled"}
      /\ \A e \in Valid(b) : e \in Members(b) /\ entry[e].at = "waiting"
  BY <1>1, <1>3, MembersWait
<1>6. \A e \in Entries : DOMAIN entry[e] = EntryFields
  BY <1>3 DEF CheckerShapes
<1>7. \A e \in Entries : e \notin Valid(b) /\ e \notin es => entry'[e] = entry[e]
  <2> TAKE e \in Entries
  <2>1. e \notin Valid(b) => entry'[e] = kept[e]
    BY <1>1 DEF Recalled
  <2>2. e \notin es => kept[e] = entry[e]
    BY <1>3, SettleFacts
  <2> QED BY <2>1, <2>2
<1>8. \A e \in Entries : e \in es => EntryMoves(e) /\ entry'[e].at = "settled" /\ entry'[e].gen = entry[e].gen
  <2> SUFFICES ASSUME NEW e \in Entries, e \in es
               PROVE  EntryMoves(e) /\ entry'[e].at = "settled" /\ entry'[e].gen = entry[e].gen
    OBVIOUS
  <2>1. entry'[e] = kept[e]
    BY <1>1, <1>2 DEF Recalled
  <2>2. kept[e] = [entry[e] EXCEPT !.at = "settled", !.answer = "superseded"]
    BY <1>3, SettleFacts
  <2> HIDE DEF kept
  <2> QED BY <1>2, <1>6, <2>1, <2>2 DEF EntryMoves, EntryFields
<1>9. \A e \in Entries : e \in Valid(b) => EntryMoves(e) /\ entry'[e].at = "settled"
                                           /\ entry'[e].answer = "answered"
  <2> SUFFICES ASSUME NEW e \in Entries, e \in Valid(b)
               PROVE  EntryMoves(e) /\ entry'[e].at = "settled" /\ entry'[e].answer = "answered"
    OBVIOUS
  <2>1. entry'[e] = [kept[e] EXCEPT !.at = "settled", !.answer = "answered"]
    BY <1>1 DEF Recalled
  <2>2. kept[e] = entry[e]
    BY <1>2, <1>3, SettleFacts
  <2>3. entry[e].at = "waiting" /\ DOMAIN entry[e] = EntryFields
    BY <1>5, <1>6
  <2> HIDE DEF kept
  <2> QED BY <2>1, <2>2, <2>3 DEF EntryMoves, EntryFields
<1>10. DOMAIN entry' = Entries /\ \A e \in Entries : EntryMoves(e)
  <2>1. DOMAIN entry' = Entries
    BY <1>1 DEF Recalled
  <2>2. \A e \in Entries : e \notin Valid(b) /\ e \notin es => EntryMoves(e)
    BY <1>6, <1>7 DEF EntryMoves
  <2> QED BY <1>8, <1>9, <2>1, <2>2
<1>11. \A e \in Entries : entry'[e].at = "started" => entry'[e] = entry[e]
  BY <1>7, <1>8, <1>9
<1>12. /\ DOMAIN batch' = Entries /\ \A a \in Entries : BatchMoves(a)
       /\ batch'[b].at = "done" /\ \A a \in Entries : a # b => batch'[a] = batch[a]
  BY <1>1, <1>3, BatchTo
<1>13. BatchesClose
  BY <1>1, <1>3, <1>12, OneCloses
<1>14. OwnersLeave
  <2>1. DOMAIN owner' = Lanes /\ \A l \in Lanes : DOMAIN owner'[l] = Keys
    BY <1>1, ForgottenFacts
  <2>2. ASSUME NEW l \in Lanes, NEW k \in Keys, owner'[l][k] # 0
        PROVE  owner'[l][k] = owner[l][k] /\ entry'[owner[l][k]].at # "settled"
    <3>1. /\ owner'[l][k] = OwnersWithout(es)[l][k] /\ OwnersWithout(es)[l][k] # 0
          /\ l = batch[b].lane => OwnersWithout(es)[l][k] \notin Members(b)
      BY <1>1, <2>2, ForgottenFacts
    <3>2. OwnersWithout(es)[l][k] = owner[l][k] /\ owner[l][k] \notin es /\ owner[l][k] # 0
      BY <3>1 DEF OwnersWithout
    <3>3. /\ owner[l][k] \in Used /\ owner[l][k] \in Entries
          /\ entry[owner[l][k]].lane = l /\ entry[owner[l][k]].at # "settled"
      BY <1>3, <3>2 DEF LedgerInv, OwnersGood, Settled, Used
    <3>4. owner[l][k] \in Members(b) => l = batch[b].lane
      BY <1>3, <3>3, EntryFacts DEF Members
    <3>5. owner[l][k] \notin Valid(b)
      BY <1>5, <3>1, <3>2, <3>4
    <3> QED BY <1>7, <3>1, <3>2, <3>3, <3>5
  <2> QED BY <2>1, <2>2 DEF OwnersLeave
<1>15. WorldMovesOn
  BY <1>1, <1>3, Unmoved
<1>16. Used \subseteq Entries /\ Used' = Used
  BY <1>10 DEF Used, EntryMoves
<1>17. OneGeneration'
  BY <1>3, <1>11, <1>16 DEF LedgerInv, OneGeneration
<1>18. \A e \in Used : entry'[e].at = "started" => batch'[entry[e].batch].at = "checking"
  BY <1>1, <1>3, <1>11, <1>12, <1>16, EntryFacts
<1>19. SupersededFairly
  <2> SUFFICES ASSUME NEW e \in Used, entry[e].lane = "direct", entry'[e].answer = "superseded",
                      entry'[e] # entry[e]
               PROVE  Cause(e)'
    BY DEF SupersededFairly
  <2>1. e \in es /\ e \in Entries
    BY <1>7, <1>9, <1>16
  <2>2. entry'[e].gen = entry[e].gen /\ entry'[e].key = entry[e].key
    BY <1>8, <2>1 DEF EntryMoves
  <2> QED BY <1>1, <1>3, <1>4, <1>15, <2>1, <2>2, CausesStay
<1>20. DOMAIN answers' = Keys /\ DOMAIN finished' = Repos /\ DOMAIN visible' = Ids /\ VisibleClears
  BY <1>1, <1>3 DEF CheckerShapes, VisibleClears
<1>21. FreshAnswers'
  BY <1>1, <1>3 DEF FreshAnswers
<1> QED BY <1>1, <1>10, <1>12, <1>13, <1>14, <1>15, <1>17, <1>18, <1>19, <1>20, <1>21, StepKeeps

(* A batch goes to the remotes: all its entries start in one generation. *)
LEMMA CheckStartKeeps ==
  ASSUME CheckerAssumption, CheckerInv, NEW b \in Entries, RunGoes(b),
         ~ (Valid(b) = {} \/ NeedsNoCheck(b))
  PROVE  CheckerInv'
<1> DEFINE es == Cancelable(Members(b) \ Valid(b))
           kept == Settle(entry, es, "superseded")
<1>1. /\ batch[b].at = "started"
      /\ entry' = [e \in Entries |-> IF e \in Valid(b) THEN [entry[e] EXCEPT
                          !.at = "started", !.gen = generation[batch[b].repo]] ELSE kept[e]]
      /\ batch' = [batch EXCEPT ![b].at = "checking"]
      /\ owner' = OwnersWithout(es)
      /\ UNCHANGED <<open, branch, generation, finished, answers, visible, stopped>>
  BY Zenon DEF RunGoes
<1>2. \A e \in es : e \in Used /\ entry[e].at = "waiting" /\ e \notin Valid(b) /\ e \in Members(b)
  BY DEF Cancelable, Members
<1>3. LedgerInv /\ CheckerShapes /\ FreshAnswers
  BY DEF CheckerInv, LedgerInv
<1>4. \A e \in es : entry[e].lane = "direct" => Cause(e)
  BY <1>3, InvalidForCause
<1> HIDE DEF es
<1>5. /\ \A e \in Members(b) : e \in Used /\ entry[e].at \in {"waiting", "settled"}
      /\ \A e \in Valid(b) : e \in Members(b) /\ entry[e].at = "waiting"
  BY <1>1, <1>3, MembersWait
<1>6. \A e \in Entries : DOMAIN entry[e] = EntryFields
  BY <1>3 DEF CheckerShapes
<1>7. \A e \in Entries : e \notin Valid(b) /\ e \notin es => entry'[e] = entry[e]
  <2> TAKE e \in Entries
  <2>1. e \notin Valid(b) => entry'[e] = kept[e]
    BY <1>1
  <2>2. e \notin es => kept[e] = entry[e]
    BY <1>3, SettleFacts
  <2> QED BY <2>1, <2>2
<1>8. \A e \in Entries : e \in es => EntryMoves(e) /\ entry'[e].at = "settled" /\ entry'[e].gen = entry[e].gen
  <2> SUFFICES ASSUME NEW e \in Entries, e \in es
               PROVE  EntryMoves(e) /\ entry'[e].at = "settled" /\ entry'[e].gen = entry[e].gen
    OBVIOUS
  <2>1. entry'[e] = kept[e]
    BY <1>1, <1>2
  <2>2. kept[e] = [entry[e] EXCEPT !.at = "settled", !.answer = "superseded"]
    BY <1>3, SettleFacts
  <2> HIDE DEF kept
  <2> QED BY <1>2, <1>6, <2>1, <2>2 DEF EntryMoves, EntryFields
<1>9. \A e \in Entries : e \in Valid(b) =>
        /\ EntryMoves(e) /\ entry'[e].at = "started" /\ entry'[e].answer = "none"
        /\ entry[e].batch = b /\ entry'[e].gen = generation[batch[b].repo]
  <2> SUFFICES ASSUME NEW e \in Entries, e \in Valid(b)
               PROVE  /\ EntryMoves(e) /\ entry'[e].at = "started" /\ entry'[e].answer = "none"
                      /\ entry[e].batch = b /\ entry'[e].gen = generation[batch[b].repo]
    OBVIOUS
  <2>1. entry'[e] = [entry[e] EXCEPT !.at = "started", !.gen = generation[batch[b].repo]]
    BY <1>1
  <2>2. e \in Used /\ entry[e].batch = b /\ entry[e].at = "waiting" /\ DOMAIN entry[e] = EntryFields
    BY <1>5, <1>6 DEF Members
  <2>3. batch[b].repo = RepoOf(e) /\ entry[e].answer = "none"
    BY <1>3, <2>2, EntryFacts
  <2> QED BY <2>1, <2>2, <2>3 DEF EntryMoves, EntryFields
<1>10. DOMAIN entry' = Entries /\ \A e \in Entries : EntryMoves(e)
  <2>1. DOMAIN entry' = Entries
    BY <1>1
  <2>2. \A e \in Entries : e \notin Valid(b) /\ e \notin es => EntryMoves(e)
    BY <1>6, <1>7 DEF EntryMoves
  <2> QED BY <1>8, <1>9, <2>1, <2>2
<1>11. /\ DOMAIN batch' = Entries /\ \A a \in Entries : BatchMoves(a)
       /\ batch'[b].at = "checking" /\ \A a \in Entries : a # b => batch'[a] = batch[a]
  BY <1>1, <1>3, BatchTo
<1>12. BatchesClose
  BY <1>1, <1>3, <1>11, OneCloses
<1>13. OwnersLeave
  <2>1. ASSUME NEW l \in Lanes, NEW k \in Keys, owner'[l][k] # 0
        PROVE  owner'[l][k] = owner[l][k] /\ entry'[owner[l][k]].at # "settled"
    <3>1. owner'[l][k] = owner[l][k] /\ owner[l][k] \notin es /\ owner[l][k] # 0
      BY <1>1, <2>1 DEF OwnersWithout
    <3>2. owner[l][k] \in Entries /\ entry[owner[l][k]].at # "settled"
      BY <1>3, <3>1 DEF LedgerInv, OwnersGood, Settled, Used
    <3> QED BY <1>7, <1>9, <3>1, <3>2
  <2> QED BY <1>1, <2>1, OwnersDropShape DEF OwnersLeave
<1>14. WorldMovesOn
  BY <1>1, <1>3, Unmoved
<1>15. Used \subseteq Entries /\ Used' = Used
  BY <1>10 DEF Used, EntryMoves
<1>16. \A e \in Used : entry'[e].at = "started" /\ entry[e].batch # b
         => entry'[e] = entry[e] /\ batch[entry[e].batch].at = "checking"
  BY <1>3, <1>7, <1>8, <1>9, <1>15, EntryFacts
<1>17. \A e \in Used : entry'[e].at = "started" /\ entry[e].batch = b
         => entry'[e].gen = generation[batch[b].repo]
  <2> SUFFICES ASSUME NEW e \in Used, entry'[e].at = "started", entry[e].batch = b
               PROVE  e \in Valid(b)
    BY <1>9, <1>15
  <2>1. entry[e].at # "started" /\ e \in Entries
    BY <1>1, <1>3, <1>15, EntryFacts
  <2> QED BY <1>7, <1>8, <2>1
<1>18. OneGeneration'
  <2> SUFFICES ASSUME NEW e \in Used, NEW f \in Used, entry'[e].at = "started",
                      entry'[f].at = "started", entry'[e].batch = entry'[f].batch
               PROVE  entry'[e].gen = entry'[f].gen
    BY <1>15 DEF OneGeneration
  <2>1. entry'[e].batch = entry[e].batch /\ entry'[f].batch = entry[f].batch
    BY <1>10, <1>15 DEF EntryMoves
  <2>2. CASE entry[e].batch = b
    BY <1>17, <2>1, <2>2
  <2>3. CASE entry[e].batch # b
    BY <1>3, <1>16, <2>1, <2>3 DEF LedgerInv, OneGeneration
  <2> QED BY <2>2, <2>3
<1>19. \A e \in Used : entry'[e].at = "started" => batch'[entry[e].batch].at = "checking"
  BY <1>3, <1>11, <1>16, EntryFacts
<1>20. SupersededFairly
  <2> SUFFICES ASSUME NEW e \in Used, entry[e].lane = "direct", entry'[e].answer = "superseded",
                      entry'[e] # entry[e]
               PROVE  Cause(e)'
    BY DEF SupersededFairly
  <2>1. e \in es /\ e \in Entries
    BY <1>7, <1>9, <1>15
  <2>2. entry'[e].gen = entry[e].gen /\ entry'[e].key = entry[e].key
    BY <1>8, <2>1 DEF EntryMoves
  <2> QED BY <1>1, <1>3, <1>4, <1>14, <2>1, <2>2, CausesStay
<1>21. DOMAIN answers' = Keys /\ DOMAIN finished' = Repos /\ DOMAIN visible' = Ids /\ VisibleClears
  BY <1>1, <1>3 DEF CheckerShapes, VisibleClears
<1>22. FreshAnswers'
  BY <1>1, <1>3 DEF FreshAnswers
<1> QED BY <1>1, <1>10, <1>11, <1>12, <1>13, <1>14, <1>18, <1>19, <1>20, <1>21, <1>22, StepKeeps


(* The least of one number. *)
LEMMA LeastOfOne ==
  ASSUME NEW S, NEW x \in Int, x \in S, \A y \in S : y = x
  PROVE  Min(S) = x
<1>1. S = {x}
  OBVIOUS
<1>2. \E y \in S : \A z \in S : y <= z
  BY <1>1
<1>3. Min(S) \in S
  BY <1>2 DEF Min
<1> QED BY <1>1, <1>3

(* A check ends.  What it says counts if its generation is still the repository's:  *)
(* then it is as fresh as the latest operation.                                   *)
LEMMA CheckEndKeeps ==
  ASSUME CheckerAssumption, CheckerInv, NEW b \in Entries, CheckEnds(b)
  PROVE  CheckerInv'
<1> DEFINE r == batch[b].repo
           cached(good) == {e \in good : Current(e)}
           ofKey(good, k) == {entry[e].gen : e \in {d \in cached(good) : entry[d].key = k}}
           gens == {entry[e].gen : e \in Started(b)}
<1>1. /\ batch[b].at = "checking"
      /\ UNCHANGED <<branch, generation, visible, stopped>>
  BY DEF CheckEnds
<1>2. PICK good \in SUBSET Started(b) :
        /\ entry' = [e \in Entries |->
             IF e \in Started(b)
             THEN [entry[e] EXCEPT !.at = "settled",
                     !.answer = IF Current(e) THEN "answered" ELSE "superseded"]
             ELSE entry[e]]
        /\ answers' = [k \in Keys |-> IF \E e \in cached(good) : entry[e].key = k
                         THEN Min(ofKey(good, k)) ELSE answers[k]]
        /\ finished' = [finished EXCEPT ![r] =
             IF batch[b].lane = "background" /\ \E e \in Started(b) : SameGeneration(e)
             THEN Min(gens) ELSE @]
        /\ batch' = [batch EXCEPT ![b].at = "done"]
        /\ owner' = Forgotten(owner, b)
        /\ open' = OpenWithout(b)
  BY Zenon DEF CheckEnds
<1>3. LedgerInv /\ CheckerShapes /\ FreshAnswers
  BY DEF CheckerInv, LedgerInv
<1>4. \A e \in Started(b) : /\ e \in Used /\ e \in Entries /\ entry[e].at = "started"
                            /\ entry[e].batch = b /\ RepoOf(e) = r
                            /\ entry[e].gen \in Nat /\ DOMAIN entry[e] = EntryFields
  BY <1>3, EntryFacts DEF Started, Members
<1>5. \A e \in Entries : e \notin Started(b) => entry'[e] = entry[e]
  BY <1>2
<1>6. \A e \in Entries : e \in Started(b) =>
        /\ EntryMoves(e) /\ entry'[e].at = "settled"
        /\ entry'[e].answer = IF Current(e) THEN "answered" ELSE "superseded"
  <2> SUFFICES ASSUME NEW e \in Entries, e \in Started(b)
               PROVE  /\ EntryMoves(e) /\ entry'[e].at = "settled"
                      /\ entry'[e].answer = IF Current(e) THEN "answered" ELSE "superseded"
    OBVIOUS
  <2> DEFINE answer == IF Current(e) THEN "answered" ELSE "superseded"
  <2>1. entry'[e] = [entry[e] EXCEPT !.at = "settled", !.answer = answer]
    BY <1>2
  <2> HIDE DEF answer
  <2>2. /\ EntryMoves(e) /\ entry'[e].at = "settled" /\ entry'[e].answer = answer
    BY <1>4, <2>1 DEF EntryMoves, EntryFields
  <2> QED BY <2>2 DEF answer
<1>7. DOMAIN entry' = Entries /\ \A e \in Entries : EntryMoves(e)
  <2>1. DOMAIN entry' = Entries
    BY <1>2
  <2>2. \A e \in Entries : e \notin Started(b) => EntryMoves(e)
    BY <1>3, <1>5 DEF CheckerShapes, EntryMoves
  <2> QED BY <1>6, <2>1, <2>2
<1>8. Used \subseteq Entries /\ Used' = Used
  BY <1>7 DEF Used, EntryMoves
<1>9. /\ DOMAIN batch' = Entries /\ \A a \in Entries : BatchMoves(a)
      /\ batch'[b].at = "done" /\ \A a \in Entries : a # b => batch'[a] = batch[a]
  BY <1>1, <1>2, <1>3, BatchTo
<1>10. BatchesClose
  BY <1>2, <1>3, <1>9, OneCloses
<1>11. OwnersLeave
  <2>1. DOMAIN owner' = Lanes /\ \A l \in Lanes : DOMAIN owner'[l] = Keys
    BY <1>2, ForgottenFacts
  <2>2. ASSUME NEW l \in Lanes, NEW k \in Keys, owner'[l][k] # 0
        PROVE  owner'[l][k] = owner[l][k] /\ entry'[owner[l][k]].at # "settled"
    <3>0. owner'[l][k] = Forgotten(owner, b)[l][k]
      BY <1>2
    <3>1. /\ owner'[l][k] = owner[l][k] /\ owner[l][k] # 0
          /\ l = batch[b].lane => owner[l][k] \notin Members(b)
      BY <2>2, <3>0, ForgottenFacts
    <3>2. /\ owner[l][k] \in Used /\ owner[l][k] \in Entries
          /\ entry[owner[l][k]].lane = l /\ entry[owner[l][k]].at # "settled"
      BY <1>3, <3>1 DEF LedgerInv, OwnersGood, Settled, Used
    <3>3. owner[l][k] \in Members(b) => l = batch[b].lane
      BY <1>3, <3>2, EntryFacts DEF Members
    <3>4. owner[l][k] \notin Started(b)
      BY <3>1, <3>3 DEF Started
    <3> QED BY <1>5, <3>1, <3>2, <3>4
  <2> QED BY <2>1, <2>2 DEF OwnersLeave
<1>12. WorldMovesOn
  BY <1>1, <1>3, Unmoved
<1>13. OneGeneration'
  BY <1>3, <1>5, <1>6, <1>8 DEF LedgerInv, OneGeneration
<1>14. \A e \in Used : entry'[e].at = "started" => batch'[entry[e].batch].at = "checking"
  <2> SUFFICES ASSUME NEW e \in Used, entry'[e].at = "started"
               PROVE  batch'[entry[e].batch].at = "checking"
    OBVIOUS
  <2>1. e \notin Started(b) /\ entry[e].at = "started"
    BY <1>5, <1>6, <1>8
  <2>2. entry[e].batch # b /\ entry[e].batch \in Entries /\ batch[entry[e].batch].at = "checking"
    BY <1>3, <2>1, EntryFacts DEF Started, Members
  <2> QED BY <1>9, <2>2
<1>15. SupersededFairly
  <2> SUFFICES ASSUME NEW e \in Used, entry'[e].answer = "superseded", entry'[e] # entry[e]
               PROVE  Cause(e)'
    BY DEF SupersededFairly
  <2>1. e \in Started(b) /\ e \in Entries /\ ~ Current(e)
    BY <1>5, <1>6, <1>8
  <2>2. entry'[e].gen = entry[e].gen /\ entry'[e].key = entry[e].key
    BY <1>4, <1>6, <2>1 DEF EntryMoves
  <2>3. Cause(e) /\ e \in Used
    BY <2>1 DEF Cause, Current, SameGeneration
  <2> QED BY <1>1, <1>3, <1>12, <2>2, <2>3, CausesStay
<1>16. DOMAIN answers' = Keys /\ DOMAIN finished' = Repos /\ DOMAIN visible' = Ids /\ VisibleClears
  BY <1>1, <1>2, <1>3 DEF CheckerShapes, VisibleClears
<1>17. \A k \in Keys : answers'[k] # -1 => answers'[k] = generation[RepositoryOf[k[1]]]
  <2> SUFFICES ASSUME NEW k \in Keys, NEW e \in cached(good), entry[e].key = k
               PROVE  Min(ofKey(good, k)) = generation[RepositoryOf[k[1]]]
    BY <1>2, <1>3 DEF FreshAnswers
  <2>1. \A d \in cached(good) : entry[d].key = k =>
          entry[d].gen = generation[RepositoryOf[k[1]]] /\ entry[d].gen \in Int
    BY <1>4 DEF Current, SameGeneration, RepoOf
  <2>2. /\ generation[RepositoryOf[k[1]]] \in Int
        /\ generation[RepositoryOf[k[1]]] \in ofKey(good, k)
        /\ \A x \in ofKey(good, k) : x = generation[RepositoryOf[k[1]]]
    BY <2>1
  <2> HIDE DEF ofKey
  <2> QED BY <2>2, LeastOfOne
<1>18. \A q \in Repos : finished'[q] # -1 => finished'[q] = generation[q]
  <2> SUFFICES ASSUME NEW e \in Started(b), SameGeneration(e)
               PROVE  Min(gens) = generation[r]
    BY <1>2, <1>3 DEF FreshAnswers, CheckerShapes
  <2>1. generation[r] = entry[e].gen /\ entry[e].gen \in Int
    BY <1>4 DEF SameGeneration
  <2>2. \A d \in Started(b) : entry[d].gen = entry[e].gen
    BY <1>3, <1>4 DEF LedgerInv, OneGeneration
  <2>3. entry[e].gen \in gens /\ \A x \in gens : x = entry[e].gen
    BY <2>2
  <2> HIDE DEF gens
  <2> QED BY <2>1, <2>3, LeastOfOne
<1>19. FreshAnswers'
  BY <1>1, <1>17, <1>18 DEF FreshAnswers
<1> QED BY <1>1, <1>7, <1>9, <1>10, <1>11, <1>12, <1>13, <1>14, <1>15, <1>16, <1>19, StepKeeps

(* Requests supersede, at most, what waits in the background. *)
LEMMA RequestsKeep ==
  ASSUME CheckerAssumption, CheckerInv, NEW l \in Lanes, NEW ids \in SUBSET Ids, NEW dropped,
         \A e \in dropped : e \in Used /\ entry[e].at = "waiting" /\ entry[e].lane = "background",
         AddEntries(l, ids, dropped),
         UNCHANGED <<branch, generation, answers, finished, stopped>>, DOMAIN visible' = Ids
  PROVE  /\ LedgerInv' /\ FreshAnswers' /\ OnlySupersededForCause'
         /\ \A e \in Used : e \in Used' /\ entry'[e].lane = entry[e].lane
<1>1. LedgerInv /\ CheckerShapes /\ FreshAnswers
  BY DEF CheckerInv, LedgerInv
<1>2. DOMAIN answers' = Keys /\ DOMAIN finished' = Repos
  BY <1>1 DEF CheckerShapes
<1>3. /\ LedgerInv'
      /\ \A e \in Used : e \in Used' /\ entry'[e].lane = entry[e].lane
      /\ \A e \in Used' \ Used : entry'[e].answer = "none"
      /\ \A e \in Used : entry'[e] = entry[e] \/ (e \in dropped /\
           entry'[e] = [entry[e] EXCEPT !.at = "settled", !.answer = "superseded"])
  BY <1>1, <1>2, RequestsKeepLedger
<1>4. FreshAnswers'
  BY <1>1 DEF FreshAnswers
<1>5. WorldMovesOn
  BY <1>1, Unmoved
<1>6. OnlySupersededForCause'
  <2> SUFFICES ASSUME NEW e \in Used', entry'[e].lane = "direct", entry'[e].answer = "superseded"
               PROVE  Cause(e)'
    BY DEF OnlySupersededForCause, Cause
  <2>1. e \in Used /\ entry[e].lane = "direct"
    BY <1>3
  <2>2. entry'[e] = entry[e]
    BY <1>3, <2>1
  <2>3. Cause(e)
    BY <2>1, <2>2 DEF CheckerInv, OnlySupersededForCause, Cause
  <2> QED BY <1>1, <1>5, <2>1, <2>2, <2>3, CausesStay
<1> QED BY <1>3, <1>4, <1>6

(* A selection or a hover. *)
LEMMA SelectKeeps ==
  ASSUME CheckerAssumption, CheckerInv, NEW id \in Ids, Select(id)
  PROVE  CheckerInv'
<1> DEFINE waiting == owner["background"][Key(id)]
<1>1. /\ waiting # 0 => entry[waiting].at # "started"
      /\ AddEntries("direct", {id}, {waiting} \ {0})
      /\ UNCHANGED <<branch, generation, answers, finished, visible, stopped>>
  BY Zenon DEF Select
<1>2. LedgerInv /\ CheckerShapes
  BY DEF CheckerInv, LedgerInv
<1>3. Key(id) \in Keys /\ "background" \in Lanes /\ "direct" \in Lanes
  BY <1>2 DEF CheckerShapes, CheckerAssumption, Key, Keys, Lanes
<1>4. waiting # 0 => waiting \in Used /\ entry[waiting].lane = "background"
                     /\ entry[waiting].at # "settled"
  BY <1>2, <1>3 DEF LedgerInv, OwnersGood, Settled
<1> HIDE DEF waiting
<1>5. waiting # 0 => entry[waiting].at = "waiting"
  BY <1>1, <1>2, <1>4, EntryFacts
<1>6. DOMAIN visible' = Ids
  BY <1>1, <1>2 DEF CheckerShapes
<1>7. /\ LedgerInv' /\ FreshAnswers' /\ OnlySupersededForCause'
      /\ \A e \in Used : e \in Used' /\ entry'[e].lane = entry[e].lane
  <2>1. \A e \in {waiting} \ {0} :
          e \in Used /\ entry[e].at = "waiting" /\ entry[e].lane = "background"
    BY <1>4, <1>5
  <2>2. {id} \in SUBSET Ids
    OBVIOUS
  <2> QED BY <1>1, <1>3, <1>6, <2>1, <2>2, RequestsKeep
<1>8. VisibleGood'
  BY <1>1, <1>7 DEF CheckerInv, VisibleGood
<1> QED BY <1>7, <1>8 DEF CheckerInv

(* A report of what the windows show. *)
LEMMA ReportKeeps ==
  ASSUME CheckerAssumption, CheckerInv, NEW ids \in SUBSET Ids, Report(ids)
  PROVE  CheckerInv'
<1> DEFINE left == {id \in Ids : visible[id] # 0 /\ id \notin ids}
           dropped == Cancelable({visible[id] : id \in left})
           asked == IF focused THEN {id \in ids : finished[RepositoryOf[id]] = -1} ELSE {}
           new == {id \in asked : ~ Owned(id)}
<1>1. /\ AddEntries("background", new, dropped)
      /\ visible' = [id \in Ids |->
           IF id \in asked THEN Handle(owner', id)
           ELSE IF id \in left THEN 0
           ELSE visible[id]]
      /\ UNCHANGED <<branch, generation, answers, finished, stopped>>
  BY Zenon DEF Report, Reconcile
<1>2. LedgerInv /\ CheckerShapes
  BY DEF CheckerInv, LedgerInv
<1>3. \A e \in dropped : e \in Used /\ entry[e].at = "waiting" /\ entry[e].lane = "background"
  BY DEF Cancelable, CheckerInv, VisibleGood
<1>4. new \in SUBSET Ids /\ "background" \in Lanes
  BY DEF Lanes
<1> HIDE DEF dropped, new, asked, left
<1>5. DOMAIN visible' = Ids
  BY <1>1
<1>6. /\ LedgerInv' /\ FreshAnswers' /\ OnlySupersededForCause'
      /\ \A e \in Used : e \in Used' /\ entry'[e].lane = entry[e].lane
  BY <1>1, <1>3, <1>4, <1>5, RequestsKeep
<1>7. VisibleGood'
  <2> SUFFICES ASSUME NEW id \in Ids, visible'[id] # 0
               PROVE  visible'[id] \in Used' /\ entry'[visible'[id]].lane = "background"
    BY DEF VisibleGood
  <2>1. CASE id \in asked
    <3>1. visible'[id] = Handle(owner', id)
      BY <1>1, <2>1
    <3>2. visible'[id] = owner'["background"][Key(id)]
      BY <2>1, <3>1, <1>1 DEF Handle
    <3>3. Key(id) \in Keys
      BY <1>2 DEF CheckerShapes, CheckerAssumption, Key, Keys
    <3> QED BY <1>4, <1>6, <3>2, <3>3 DEF LedgerInv, OwnersGood
  <2>2. CASE id \notin asked
    <3>1. visible'[id] = visible[id]
      BY <1>1, <2>2
    <3> QED BY <1>6, <3>1 DEF CheckerInv, VisibleGood
  <2> QED BY <2>1, <2>2
<1> QED BY <1>6, <1>7 DEF CheckerInv

(* Every step keeps the invariant. *)
LEMMA CheckerInvNext ==
  ASSUME CheckerAssumption, CheckerInv, [Next]_vars
  PROVE  CheckerInv'
<1>1. ASSUME NEW b \in Entries, BatchStep(b)
      PROVE  CheckerInv'
  <2>1. CASE RunGoes(b)
    BY <2>1, RecallKeeps, CheckStartKeeps
  <2> QED BY <1>1, <2>1, DebouncedKeeps, RunStartsKeeps, CheckEndKeeps DEF BatchStep
<1>2. CASE UNCHANGED vars \/ (\E id \in Ids : SwitchBranch(id)) \/ (\E r \in Repos : Pull(r))
           \/ FocusChanges \/ Expires
  BY <1>2, WorldSteps
<1>3. CASE \E r \in Repos : TrackedOperation(r)
  BY <1>3, OperationKeeps
<1> QED BY <1>1, <1>2, <1>3, StopKeeps, SelectKeeps, ReportKeeps DEF Next

(* The checker's invariant. *)
LEMMA CheckerHolds == Spec => []CheckerInv
<1>1. Init => CheckerInv
  <2> SUFFICES ASSUME Init PROVE CheckerInv
    OBVIOUS
  <2>1. LedgerInv /\ VisibleGood /\ Used = {}
    BY LedgerInit, CheckerAssumption DEF Init, Used, NoEntry
  <2>2. FreshAnswers
    BY DEF Init, FreshAnswers
  <2> QED BY <2>1, <2>2 DEF CheckerInv, OnlySupersededForCause
<1>2. CheckerInv /\ [Next]_vars => CheckerInv'
  BY CheckerInvNext, CheckerAssumption
<1> QED BY <1>1, <1>2, PTL DEF Spec

(* What is reused, an answer, a round, an entry or a batch, is of now. *)
THEOREM ReusesNothingStale == Spec => []NothingStaleReused
<1>1. CheckerInv => NothingStaleReused
  BY DEF CheckerInv, LedgerInv, FreshAnswers, OwnersGood, OpenGood, NothingStaleReused
<1> QED BY <1>1, CheckerHolds, PTL

(* A selection's request is taken away for one of three causes and for no other. *)
THEOREM SupersededForCause == Spec => []OnlySupersededForCause
<1>1. CheckerInv => OnlySupersededForCause
  BY DEF CheckerInv
<1> QED BY <1>1, CheckerHolds, PTL


(* AnsweredForTheBranch, of one step. *)
AnswersForTheBranch ==
  \A e \in Entries :
    entry[e].answer # "answered" /\ entry'[e].answer = "answered"
      => Key(entry[e].key[1]) = entry[e].key

(* Requests answer nothing. *)
LEMMA RequestsAnswerNothing ==
  ASSUME CheckerAssumption, CheckerInv, NEW l \in Lanes, NEW ids \in SUBSET Ids, NEW dropped,
         \A e \in dropped : e \in Used /\ entry[e].at = "waiting",
         AddEntries(l, ids, dropped),
         UNCHANGED <<branch, generation, answers, finished>>, DOMAIN visible' = Ids
  PROVE  AnswersForTheBranch
<1>1. CheckerShapes /\ LedgerInv
  BY DEF CheckerInv, LedgerInv
<1>2. DOMAIN answers' = Keys /\ DOMAIN finished' = Repos
  BY <1>1 DEF CheckerShapes
<1>3. /\ \A e \in Used' \ Used : entry'[e].answer = "none"
      /\ \A e \in Used : entry'[e] = entry[e] \/ (e \in dropped /\
           entry'[e] = [entry[e] EXCEPT !.at = "settled", !.answer = "superseded"])
      /\ \A e \in Entries : e \in Used' \/ entry'[e] = entry[e]
  BY <1>1, <1>2, RequestsKeepLedger
<1>4. \A e \in Used : entry'[e] = entry[e] \/ entry'[e].answer = "superseded"
  <2> TAKE e \in Used
  <2>1. DOMAIN entry[e] = EntryFields
    BY <1>1, EntryFacts
  <2>2. CASE entry'[e] = [entry[e] EXCEPT !.at = "settled", !.answer = "superseded"]
    BY <2>1, <2>2 DEF EntryFields
  <2> QED BY <1>3, <2>2
<1> QED BY <1>3, <1>4 DEF AnswersForTheBranch

(* Neither does dropping an entry. *)
LEMMA DroppingAnswersNothing ==
  ASSUME CheckerInv, NEW es, NEW e \in Entries
  PROVE  \/ Settle(entry, es, "superseded")[e] = entry[e]
         \/ Settle(entry, es, "superseded")[e].answer = "superseded"
<1>1. CheckerShapes /\ DOMAIN entry[e] = EntryFields
  BY DEF CheckerInv, LedgerInv, CheckerShapes
<1>2. CASE e \in es
  <2>1. Settle(entry, es, "superseded")[e] = [entry[e] EXCEPT !.at = "settled", !.answer = "superseded"]
    BY <1>1, <1>2, SettleFacts
  <2> QED BY <1>1, <2>1 DEF EntryFields
<1>3. CASE e \notin es
  BY <1>1, <1>3, SettleFacts
<1> QED BY <1>2, <1>3

(* Only a batch that recalls, or whose check ends, answers; and it looks first. *)
LEMMA NextAnswersForTheBranch ==
  ASSUME CheckerAssumption, CheckerInv, [Next]_vars
  PROVE  [AnswersForTheBranch]_vars
<1>1. CheckerShapes /\ LedgerInv /\ \A e \in Entries : DOMAIN entry[e] = EntryFields
  BY DEF CheckerInv, LedgerInv, CheckerShapes
<1>2. ASSUME \A e \in Entries : entry'[e] = entry[e] \/ entry'[e].answer = "superseded"
      PROVE  AnswersForTheBranch
  BY <1>2 DEF AnswersForTheBranch
<1>3. ASSUME NEW id \in Ids, Select(id)
      PROVE  AnswersForTheBranch
  <2> DEFINE waiting == owner["background"][Key(id)]
  <2>1. /\ waiting # 0 => entry[waiting].at # "started"
        /\ AddEntries("direct", {id}, {waiting} \ {0})
        /\ UNCHANGED <<branch, generation, answers, finished, visible, stopped>>
    BY <1>3, Zenon DEF Select
  <2>2. Key(id) \in Keys /\ "background" \in Lanes /\ "direct" \in Lanes
    BY <1>1 DEF CheckerShapes, CheckerAssumption, Key, Keys, Lanes
  <2>3. waiting # 0 => waiting \in Used /\ entry[waiting].at # "settled"
    BY <1>1, <2>2 DEF LedgerInv, OwnersGood, Settled
  <2> HIDE DEF waiting
  <2>4. \A e \in {waiting} \ {0} : e \in Used /\ entry[e].at = "waiting"
    BY <1>1, <2>1, <2>3, EntryFacts
  <2>5. DOMAIN visible' = Ids /\ {id} \in SUBSET Ids
    BY <1>1, <2>1 DEF CheckerShapes
  <2> QED BY <2>1, <2>2, <2>4, <2>5, RequestsAnswerNothing
<1>4. ASSUME NEW ids \in SUBSET Ids, Report(ids)
      PROVE  AnswersForTheBranch
  <2> DEFINE left == {id \in Ids : visible[id] # 0 /\ id \notin ids}
             dropped == Cancelable({visible[id] : id \in left})
             asked == IF focused THEN {id \in ids : finished[RepositoryOf[id]] = -1} ELSE {}
             new == {id \in asked : ~ Owned(id)}
  <2>1. /\ AddEntries("background", new, dropped)
        /\ DOMAIN visible' = Ids
        /\ UNCHANGED <<branch, generation, answers, finished, stopped>>
    BY <1>4, Zenon DEF Report, Reconcile
  <2>2. \A e \in dropped : e \in Used /\ entry[e].at = "waiting"
    BY DEF Cancelable, CheckerInv, VisibleGood
  <2>3. new \in SUBSET Ids /\ "background" \in Lanes
    BY DEF Lanes
  <2> HIDE DEF new, dropped
  <2> QED BY <2>1, <2>2, <2>3, RequestsAnswerNothing
<1>5. CASE \/ \E id \in Ids : SwitchBranch(id)
           \/ \E r \in Repos : Pull(r)
           \/ FocusChanges \/ Expires \/ \E b \in Entries : Debounced(b)
  <2>1. UNCHANGED entry
    BY <1>5 DEF SwitchBranch, Pull, FocusChanges, Expires, Debounced, queues
  <2> QED BY <1>2, <2>1
<1>6. CASE (\E r \in Repos : TrackedOperation(r)) \/ Stop \/ \E b \in Entries : RunStarts(b)
  <2>1. \E es : entry' = Settle(entry, es, "superseded")
    BY <1>6, Zenon DEF TrackedOperation, Stop, RunStarts
  <2> QED BY <1>2, <2>1, DroppingAnswersNothing
<1>7. ASSUME NEW b \in Entries, RunGoes(b)
      PROVE  AnswersForTheBranch
  <2> DEFINE es == Cancelable(Members(b) \ Valid(b))
             kept == Settle(entry, es, "superseded")
  <2>1. \/ entry' = Recalled(kept, b)
        \/ entry' = [e \in Entries |-> IF e \in Valid(b) THEN [entry[e] EXCEPT
                       !.at = "started", !.gen = generation[batch[b].repo]] ELSE kept[e]]
    BY <1>7, Zenon DEF RunGoes
  <2>2. \A e \in Valid(b) : Key(entry[e].key[1]) = entry[e].key
    BY DEF Valid
  <2>3. \A e \in Entries : kept[e] = entry[e] \/ kept[e].answer = "superseded"
    BY DroppingAnswersNothing
  <2> HIDE DEF kept
  <2>4. \A e \in Entries : e \notin Valid(b) => entry'[e] = kept[e]
    BY <2>1 DEF Recalled
  <2> QED BY <2>2, <2>3, <2>4 DEF AnswersForTheBranch
<1>8. ASSUME NEW b \in Entries, CheckEnds(b)
      PROVE  AnswersForTheBranch
  <2>1. entry' = [e \in Entries |->
          IF e \in Started(b)
          THEN [entry[e] EXCEPT !.at = "settled",
                  !.answer = IF Current(e) THEN "answered" ELSE "superseded"]
          ELSE entry[e]]
    BY <1>8, Zenon DEF CheckEnds
  <2> SUFFICES ASSUME NEW e \in Entries, entry[e].answer # "answered", entry'[e].answer = "answered"
               PROVE  Key(entry[e].key[1]) = entry[e].key
    BY DEF AnswersForTheBranch
  <2> DEFINE answer == IF Current(e) THEN "answered" ELSE "superseded"
  <2>2. entry'[e] = entry[e] \/ entry'[e] = [entry[e] EXCEPT !.at = "settled", !.answer = answer]
    BY <2>1
  <2> HIDE DEF answer
  <2>3. answer = "answered"
    BY <1>1, <2>2 DEF EntryFields
  <2> QED BY <2>3 DEF answer, Current
<1> QED BY <1>3, <1>4, <1>5, <1>6, <1>7, <1>8 DEF Next, BatchStep

(* An answer is about the branch that its checkout is on when it is given. *)
THEOREM AnswersAreForTheBranch == Spec => AnsweredForTheBranch
<1>1. CheckerInv /\ [Next]_vars => [AnswersForTheBranch]_vars
  BY NextAnswersForTheBranch, CheckerAssumption
<1>2. AnsweredForTheBranch <=> [][AnswersForTheBranch]_vars
  BY PTL DEF AnsweredForTheBranch, AnswersForTheBranch
<1> QED BY <1>1, <1>2, CheckerHolds, PTL DEF Spec

=============================================================================
