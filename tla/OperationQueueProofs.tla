------------------------ MODULE OperationQueueProofs ------------------------
(***************************************************************************)
(* WorktreeOperationQueue serialises each scope for any number of keys and *)
(* calls.  The inductive invariant says that the chain of promises is the  *)
(* line of unfinished calls: consecutive calls are linked by `previous`,   *)
(* the map's tail is the last of them and only the first can be running.   *)
(* From what the contexts of operations hold it follows who is refused,    *)
(* and that nobody waits in a circle.                                      *)
(***************************************************************************)
EXTENDS OperationQueue, SequenceTheorems, WellFoundedInduction, TLAPS

KeyKnown == \A a \in Calls : Unfinished(a) => key[a] \in Keys

(* The line holds exactly the unfinished calls of its key, each once. *)
LineExact ==
  \A k \in Keys, a \in Calls :
    (\E i \in 1 .. Len(line[k]) : line[k][i] = a) <=> (key[a] = k /\ Unfinished(a))

LineDistinct ==
  \A k \in Keys : \A i, j \in 1 .. Len(line[k]) : line[k][i] = line[k][j] => i = j

(* Every call but the first waits for the one before it; the first waits for none. *)
ChainLinked ==
  \A k \in Keys : \A i \in 1 .. Len(line[k]) :
    /\ i = 1 => TailResolved(prev[line[k][i]])
    /\ i > 1 => prev[line[k][i]] = line[k][i - 1]

TailIsLast ==
  \A k \in Keys : tails[k] = IF Len(line[k]) = 0 THEN None ELSE line[k][Len(line[k])]

(* Nobody runs before what it awaited is done. *)
RunningResolved == \A a \in Calls : status[a] = "running" => TailResolved(prev[a])

IInv ==
  /\ Shape
  /\ KeyKnown
  /\ LineExact
  /\ LineDistinct
  /\ ChainLinked
  /\ TailIsLast
  /\ RunningResolved

-----------------------------------------------------------------------------
(* A running call is the first of its line. *)
LEMMA RunningIsFirst ==
  ASSUME IInv, NEW a \in Calls, status[a] = "running"
  PROVE  key[a] \in Keys /\ Len(line[key[a]]) > 0 /\ line[key[a]][1] = a
<1> DEFINE k == key[a]
           l == line[k]
<1>1. k \in Keys /\ Unfinished(a)
  BY DEF IInv, KeyKnown, Unfinished
<1>2. l \in Seq(Calls)
  BY <1>1 DEF IInv, Shape
<1>3. PICK i \in 1 .. Len(l) : l[i] = a
  BY <1>1 DEF IInv, LineExact
<1>4. ASSUME i > 1 PROVE FALSE
  <2>1. prev[a] = l[i - 1] /\ i - 1 \in 1 .. Len(l)
    BY <1>1, <1>2, <1>3, <1>4 DEF IInv, ChainLinked
  <2>2. l[i - 1] \in Calls
    BY <1>2, <2>1
  <2>3. Unfinished(l[i - 1])
    BY <1>1, <2>1, <2>2 DEF IInv, LineExact
  <2>4. status[l[i - 1]] = "done"
    BY <2>1, <2>2 DEF IInv, RunningResolved, TailResolved
  <2> QED
    BY <2>3, <2>4 DEF Unfinished
<1> QED
  BY <1>1, <1>2, <1>3, <1>4

(* No call has been made in the beginning. *)
LEMMA InitIInv == Init => IInv
BY ScopeAssumption DEF Init, IInv, Shape, Statuses, KeyKnown, LineExact, LineDistinct,
   ChainLinked, TailIsLast, RunningResolved, Unfinished

(* A refused call never enters a line. *)
LEMMA RefuseIInv ==
  ASSUME IInv, NEW a \in Calls, NEW k \in Keys, NEW p \in Calls \cup {None},
         NEW aw \in BOOLEAN, Refuse(a, k, p, aw)
  PROVE  IInv'
<1>1. Shape'
  BY DEF IInv, Shape, Statuses, Refuse
<1>2. /\ \A b \in Calls : Unfinished(b)' <=> Unfinished(b)
      /\ \A b \in Calls : Unfinished(b) => key'[b] = key[b]
      /\ \A b \in Calls : status'[b] = "done" <=> status[b] = "done"
      /\ \A b \in Calls : status'[b] = "running" <=> status[b] = "running"
  BY DEF IInv, Shape, Statuses, Refuse, Unfinished
<1>3. UNCHANGED <<prev, tails, line>>
  BY DEF Refuse
<1>4. KeyKnown'
  BY <1>2 DEF IInv, KeyKnown
<1>5. LineExact'
  BY <1>2, <1>3, <1>4 DEF IInv, LineExact, Refuse, Shape, Unfinished
<1>6. LineDistinct' /\ TailIsLast'
  BY <1>3 DEF IInv, LineDistinct, TailIsLast
<1>7. ChainLinked' /\ RunningResolved'
  BY <1>2, <1>3 DEF IInv, ChainLinked, RunningResolved, TailResolved
<1> QED
  BY <1>1, <1>4, <1>5, <1>6, <1>7 DEF IInv

(* A new call becomes the last of its line, and the tail of its key. *)
LEMMA EnqueueIInv ==
  ASSUME IInv, NEW a \in Calls, NEW k \in Keys, NEW p \in Calls \cup {None},
         NEW aw \in BOOLEAN, Enqueue(a, k, p, aw)
  PROVE  IInv'
<1> DEFINE l == line[k]
<1>0. /\ a \notin {b \in Calls : Unfinished(b)}
      /\ l \in Seq(Calls)
      /\ line \in [Keys -> Seq(Calls)]
      /\ tails \in [Keys -> Calls \cup {None}]
      /\ prev \in [Calls -> Calls \cup {None}]
      /\ status \in [Calls -> Statuses]
      /\ key \in [Calls -> Keys \cup {None}]
  BY DEF IInv, Shape, Enqueue, Unfinished
<1>1. Shape'
  <2>1. LiveScopes(p) \subseteq Calls
    BY DEF LiveScopes, Context, IInv, Shape
  <2>2. Append(l, a) \in Seq(Calls)
    BY <1>0
  <2> QED
    BY <2>1, <2>2 DEF IInv, Shape, Statuses, Enqueue
<1>2. /\ Unfinished(a)' /\ key'[a] = k /\ status'[a] = "queued" /\ prev'[a] = tails[k]
      /\ \A b \in Calls \ {a} : status'[b] = status[b] /\ key'[b] = key[b] /\ prev'[b] = prev[b]
      /\ line'[k] = Append(l, a) /\ tails'[k] = a
      /\ \A j \in Keys \ {k} : line'[j] = line[j] /\ tails'[j] = tails[j]
  BY <1>0 DEF Enqueue, Unfinished
<1>3. /\ Len(line'[k]) = Len(l) + 1 /\ Len(l) \in Nat
      /\ line'[k][Len(l) + 1] = a
      /\ \A i \in 1 .. Len(l) : line'[k][i] = l[i]
  BY <1>0, <1>2
<1>4. \A j \in Keys : \A i \in 1 .. Len(line[j]) :
        line[j][i] \in Calls /\ line[j][i] # a /\ Unfinished(line[j][i])
  BY <1>0 DEF IInv, LineExact
<1>5. \A b \in Calls \ {a} : Unfinished(b)' <=> Unfinished(b)
  BY <1>2 DEF Unfinished
<1>6. KeyKnown'
  BY <1>2, <1>5 DEF IInv, KeyKnown
<1>7. LineExact'
  <2> SUFFICES ASSUME NEW j \in Keys, NEW b \in Calls
               PROVE (\E i \in 1 .. Len(line'[j]) : line'[j][i] = b)
                       <=> (key'[b] = j /\ Unfinished(b)')
    BY DEF LineExact
  <2>1. CASE j # k
    BY <2>1, <1>2, <1>4, <1>5 DEF IInv, LineExact
  <2>2. CASE j = k /\ b = a
    BY <2>2, <1>2, <1>3
  <2>3. CASE j = k /\ b # a
    <3>1. ASSUME NEW i \in 1 .. Len(line'[k]), line'[k][i] = b
          PROVE i \in 1 .. Len(l) /\ l[i] = b
      <4>1. i # Len(l) + 1
        BY <2>3, <3>1, <1>3
      <4>2. i \in 1 .. Len(l)
        BY <4>1, <1>3
      <4> QED
        BY <4>2, <3>1, <1>3
    <3>2. ASSUME NEW i \in 1 .. Len(l), l[i] = b
          PROVE i \in 1 .. Len(line'[k]) /\ line'[k][i] = b
      BY <3>2, <1>3
    <3>3. (\E i \in 1 .. Len(line'[k]) : line'[k][i] = b) <=> (\E i \in 1 .. Len(l) : l[i] = b)
      BY <3>1, <3>2
    <3> QED
      BY <2>3, <3>3, <1>2, <1>5 DEF IInv, LineExact
  <2> QED
    BY <2>1, <2>2, <2>3
<1>8. LineDistinct'
  <2> SUFFICES ASSUME NEW j \in Keys, NEW m \in 1 .. Len(line'[j]), NEW n \in 1 .. Len(line'[j]),
                      line'[j][m] = line'[j][n]
               PROVE m = n
    BY DEF LineDistinct
  <2>1. CASE j # k
    BY <2>1, <1>2 DEF IInv, LineDistinct
  <2>2. CASE j = k /\ m <= Len(l) /\ n <= Len(l)
    <3>1. m \in 1 .. Len(l) /\ n \in 1 .. Len(l) /\ l[m] = l[n]
      BY <2>2, <1>3
    <3> QED
      BY <3>1 DEF IInv, LineDistinct
  <2>3. CASE j = k /\ ~ (m <= Len(l) /\ n <= Len(l))
    <3>1. \A i \in 1 .. Len(l) : line'[k][i] # a
      BY <1>3, <1>4
    <3>2. m \in 1 .. Len(l) + 1 /\ n \in 1 .. Len(l) + 1 /\ line'[k][m] = line'[k][n]
      BY <2>3, <1>3
    <3> QED
      BY <2>3, <3>1, <3>2, <1>3
  <2> QED
    BY <2>1, <2>2, <2>3
<1>9. ChainLinked'
  <2> SUFFICES ASSUME NEW j \in Keys, NEW i \in 1 .. Len(line'[j])
               PROVE /\ i = 1 => TailResolved(prev[line[j][i]])'
                     /\ i > 1 => prev'[line'[j][i]] = line'[j][i - 1]
    BY DEF ChainLinked
  <2>1. \A b \in Calls : status'[b] = "done" <=> status[b] = "done"
    BY <1>2 DEF Enqueue
  <2>2. CASE i \in 1 .. Len(line[j])
    <3>1. line'[j][i] = line[j][i] /\ (i > 1 => line'[j][i - 1] = line[j][i - 1])
      BY <2>2, <1>2, <1>3
    <3>2. prev'[line'[j][i]] = prev[line[j][i]]
      BY <2>2, <3>1, <1>2, <1>4
    <3> QED
      BY <2>1, <2>2, <3>1, <3>2 DEF IInv, ChainLinked, TailResolved
  <2>3. CASE i \notin 1 .. Len(line[j])
    <3>1. j = k /\ i = Len(l) + 1 /\ line'[j][i] = a
      BY <2>3, <1>2, <1>3
    <3>2. i = 1 => tails[k] = None
      BY <3>1, <1>3 DEF IInv, TailIsLast
    <3>3. i > 1 => tails[k] = line'[k][i - 1]
      BY <3>1, <1>3 DEF IInv, TailIsLast
    <3> QED
      BY <3>1, <3>2, <3>3, <1>2, ScopeAssumption DEF TailResolved
  <2> QED
    BY <2>2, <2>3
<1>10. TailIsLast'
  BY <1>2, <1>3 DEF IInv, TailIsLast
<1>11. RunningResolved'
  BY <1>2 DEF IInv, RunningResolved, TailResolved, Enqueue
<1> QED
  BY <1>1, <1>6, <1>7, <1>8, <1>9, <1>10, <1>11 DEF IInv

(* The call that starts is the first of its line. *)
LEMMA StartIInv ==
  ASSUME IInv, NEW a \in Calls, Start(a)
  PROVE  IInv'
<1>1. Shape'
  BY DEF IInv, Shape, Statuses, Start
<1>2. /\ \A b \in Calls : Unfinished(b)' <=> Unfinished(b)
      /\ \A b \in Calls : status'[b] = "done" <=> status[b] = "done"
      /\ \A b \in Calls \ {a} : status'[b] = status[b]
      /\ TailResolved(prev[a])
  BY DEF IInv, Shape, Statuses, Start, Unfinished
<1>3. UNCHANGED <<key, prev, tails, line>>
  BY DEF Start
<1>4. KeyKnown' /\ LineExact' /\ LineDistinct' /\ TailIsLast'
  BY <1>2, <1>3 DEF IInv, KeyKnown, LineExact, LineDistinct, TailIsLast
<1>5. ChainLinked' /\ RunningResolved'
  BY <1>2, <1>3 DEF IInv, ChainLinked, RunningResolved, TailResolved
<1> QED
  BY <1>1, <1>4, <1>5 DEF IInv

(* The call that finishes is the first of its line; the next one is resolved. *)
LEMMA FinishIInv ==
  ASSUME IInv, NEW a \in Calls, Finish(a)
  PROVE  IInv' /\ line' = [line EXCEPT ![key[a]] = Tail(@)]
<1> DEFINE k == key[a]
           l == line[k]
<1>0. /\ status[a] = "running"
      /\ line \in [Keys -> Seq(Calls)]
      /\ tails \in [Keys -> Calls \cup {None}]
      /\ prev \in [Calls -> Calls \cup {None}]
      /\ status \in [Calls -> Statuses]
      /\ key \in [Calls -> Keys \cup {None}]
  BY DEF IInv, Shape, Finish
<1>1. k \in Keys /\ l \in Seq(Calls) /\ Len(l) \in Nat /\ Len(l) # 0 /\ l[1] = a
  BY <1>0, RunningIsFirst
<1>2. Without(a, l) = Tail(l)
  BY <1>1 DEF Without
<1>3. line' = [line EXCEPT ![k] = Tail(@)]
  BY <1>0, <1>1, <1>2 DEF Finish
<1>4. /\ line'[k] = Tail(l)
      /\ Len(line'[k]) = Len(l) - 1
      /\ \A i \in 1 .. Len(l) - 1 : line'[k][i] = l[i + 1]
      /\ \A j \in Keys \ {k} : line'[j] = line[j]
  BY <1>0, <1>1, <1>3
<1>5. /\ status'[a] = "done" /\ ~ Unfinished(a)'
      /\ \A b \in Calls \ {a} : status'[b] = status[b] /\ (Unfinished(b)' <=> Unfinished(b))
      /\ \A b \in Calls : status[b] = "done" => status'[b] = "done"
      /\ UNCHANGED <<key, prev>>
      /\ tails' = TailsAfter(a)
  BY <1>0 DEF Finish, Unfinished
<1>6. Shape'
  <2>1. Tail(l) \in Seq(Calls)
    BY <1>1
  <2>2. TailsAfter(a) \in [Keys -> Calls \cup {None}]
    BY <1>0 DEF TailsAfter
  <2>3. line' \in [Keys -> Seq(Calls)]
    BY <2>1, <1>0, <1>3
  <2>4. status' \in [Calls -> Statuses]
    BY <1>0 DEF Finish, Statuses
  <2> QED
    BY <2>2, <2>3, <2>4, <1>5 DEF IInv, Shape, Finish
<1>7. KeyKnown'
  BY <1>5 DEF IInv, KeyKnown
<1>8. LineExact'
  <2> SUFFICES ASSUME NEW j \in Keys, NEW b \in Calls
               PROVE (\E i \in 1 .. Len(line'[j]) : line'[j][i] = b)
                       <=> (key[b] = j /\ Unfinished(b)')
    BY <1>5 DEF LineExact
  <2>1. CASE j # k
    BY <2>1, <1>4, <1>5 DEF IInv, LineExact
  <2>2. CASE j = k /\ b = a
    <3>1. \A i \in 1 .. Len(line'[k]) : line'[k][i] # a
      BY <1>1, <1>4 DEF IInv, LineDistinct
    <3> QED
      BY <2>2, <3>1, <1>5
  <2>3. CASE j = k /\ b # a
    <3>1. (\E i \in 1 .. Len(l) : l[i] = b) => \E i \in 1 .. Len(line'[k]) : line'[k][i] = b
      <4> SUFFICES ASSUME NEW i \in 1 .. Len(l), l[i] = b
                   PROVE \E m \in 1 .. Len(line'[k]) : line'[k][m] = b
        OBVIOUS
      <4>1. i - 1 \in 1 .. Len(line'[k]) /\ line'[k][i - 1] = b
        BY <2>3, <1>1, <1>4
      <4> QED
        BY <4>1
    <3>2. (\E i \in 1 .. Len(line'[k]) : line'[k][i] = b) => \E i \in 1 .. Len(l) : l[i] = b
      BY <1>1, <1>4
    <3> QED
      BY <2>3, <3>1, <3>2, <1>1, <1>5 DEF IInv, LineExact
  <2> QED
    BY <2>1, <2>2, <2>3
<1>9. LineDistinct'
  <2> SUFFICES ASSUME NEW j \in Keys, NEW m \in 1 .. Len(line'[j]), NEW n \in 1 .. Len(line'[j]),
                      line'[j][m] = line'[j][n]
               PROVE m = n
    BY DEF LineDistinct
  <2>1. CASE j # k
    BY <2>1, <1>4 DEF IInv, LineDistinct
  <2>2. CASE j = k
    <3>1. m + 1 \in 1 .. Len(l) /\ n + 1 \in 1 .. Len(l) /\ l[m + 1] = l[n + 1]
      BY <2>2, <1>1, <1>4
    <3>2. m + 1 = n + 1
      BY <3>1, <1>1 DEF IInv, LineDistinct
    <3> QED
      BY <3>2
  <2> QED
    BY <2>1, <2>2
<1>10. ChainLinked'
  <2> SUFFICES ASSUME NEW j \in Keys, NEW i \in 1 .. Len(line'[j])
               PROVE /\ i = 1 => TailResolved(prev[line[j][i]])'
                     /\ i > 1 => prev[line'[j][i]] = line'[j][i - 1]
    BY <1>5 DEF ChainLinked
  <2>1. CASE j # k
    BY <2>1, <1>4, <1>5 DEF IInv, ChainLinked, TailResolved
  <2>2. CASE j = k
    <3>1. i + 1 \in 1 .. Len(l) /\ line'[k][i] = l[i + 1] /\ (i > 1 => line'[k][i - 1] = l[i])
      BY <2>2, <1>1, <1>4
    <3>2. prev[l[i + 1]] = l[i]
      <4>1. i + 1 > 1 /\ (i + 1) - 1 = i
        BY <3>1
      <4> QED
        BY <3>1, <4>1, <1>1 DEF IInv, ChainLinked
    <3> QED
      BY <2>2, <3>1, <3>2, <1>1, <1>5 DEF TailResolved
  <2> QED
    BY <2>1, <2>2
<1>11. TailIsLast'
  <2>1. tails[k] = l[Len(l)]
    BY <1>1 DEF IInv, TailIsLast
  <2>2. CASE Len(l) = 1
    <3>1. tails[k] = a
      BY <2>1, <2>2, <1>1
    <3>2. tails' = [tails EXCEPT ![k] = None]
      BY <3>1, <1>5 DEF TailsAfter
    <3>3. Len(line'[k]) = 0 /\ tails'[k] = None
      BY <3>2, <2>2, <1>0, <1>1, <1>4
    <3>4. \A j \in Keys \ {k} : tails'[j] = tails[j]
      BY <3>2, <1>0
    <3>5. \A j \in Keys \ {k} : line'[j] = line[j]
      BY <1>4
    <3> HIDE DEF k, l
    <3> QED
      BY <3>3, <3>4, <3>5 DEF IInv, TailIsLast
  <2>3. CASE Len(l) # 1
    <3>1. tails[k] # a
      <4>1. 1 \in 1 .. Len(l) /\ Len(l) \in 1 .. Len(l) /\ Len(l) # 1
        BY <2>3, <1>1
      <4>2. l[Len(l)] # l[1]
        BY <4>1, <1>1 DEF IInv, LineDistinct
      <4> QED
        BY <4>2, <2>1, <1>1
    <3>2. tails' = tails
      BY <3>1, <1>5 DEF TailsAfter
    <3>3. Len(line'[k]) # 0 /\ line'[k][Len(line'[k])] = l[Len(l)]
      <4> DEFINE m == Len(l) - 1
      <4>0. \A n \in Nat : n # 0 /\ n # 1 =>
              n - 1 \in 1 .. n - 1 /\ (n - 1) + 1 = n /\ n - 1 # 0
        OBVIOUS
      <4>1. m \in 1 .. Len(l) - 1 /\ m + 1 = Len(l) /\ m # 0
        <5> HIDE DEF l
        <5> QED BY <4>0, <2>3, <1>1
      <4>2. line'[k][m] = l[m + 1]
        BY <4>1, <1>4
      <4> QED
        BY <4>1, <4>2, <1>4
    <3>4. tails'[k] = line'[k][Len(line'[k])]
      BY <3>2, <3>3, <2>1
    <3>5. \A j \in Keys \ {k} : line'[j] = line[j]
      BY <1>4
    <3> HIDE DEF k, l
    <3> QED
      BY <3>2, <3>3, <3>4, <3>5 DEF IInv, TailIsLast
  <2> QED
    BY <2>2, <2>3, <1>1
<1>12. RunningResolved'
  BY <1>5 DEF IInv, RunningResolved, TailResolved
<1> QED
  BY <1>3, <1>6, <1>7, <1>8, <1>9, <1>10, <1>11, <1>12 DEF IInv

(* Nothing changes when nothing changes. *)
LEMMA StutterIInv == IInv /\ UNCHANGED vars => IInv'
BY DEF IInv, vars, Shape, KeyKnown, LineExact, LineDistinct, ChainLinked, TailIsLast,
   RunningResolved, TailResolved, Unfinished

(* Every step keeps the chain of promises and the line the same. *)
LEMMA NextIInv == IInv /\ [Next]_vars => IInv'
<1> SUFFICES ASSUME IInv, [Next]_vars PROVE IInv'
  OBVIOUS
<1>1. ASSUME NEW a \in Calls, NEW k \in Keys, NEW p \in Calls \cup {None}, NEW aw \in BOOLEAN,
             Refuse(a, k, p, aw)
      PROVE IInv'
  BY <1>1, RefuseIInv
<1>2. ASSUME NEW a \in Calls, NEW k \in Keys, NEW p \in Calls \cup {None}, NEW aw \in BOOLEAN,
             Enqueue(a, k, p, aw)
      PROVE IInv'
  BY <1>2, EnqueueIInv
<1>3. ASSUME NEW a \in Calls, Start(a) PROVE IInv'
  BY <1>3, StartIInv
<1>4. ASSUME NEW a \in Calls, Finish(a) PROVE IInv'
  BY <1>4, FinishIInv
<1>5. CASE UNCHANGED vars
  BY <1>5, StutterIInv
<1> QED
  BY <1>1, <1>2, <1>3, <1>4, <1>5 DEF Next

(* The promise chain is the line of unfinished calls in every reachable state. *)
THEOREM InductiveInvariant == Spec => []IInv
<1>1. Init => IInv
  BY InitIInv
<1>2. IInv /\ [Next]_vars => IInv'
  BY NextIInv
<1> QED
  BY <1>1, <1>2, PTL DEF Spec

(* The state keeps its shape, for any number of scopes and calls. *)
THEOREM TypeCorrect == Spec => []TypeOK
<1>1. IInv => TypeOK
  <2> SUFFICES ASSUME IInv, NEW k \in Keys, tails[k] # None PROVE Unfinished(tails[k])
    BY DEF IInv, TypeOK
  <2>1. line[k] \in Seq(Calls) /\ Len(line[k]) \in Nat
    BY DEF IInv, Shape
  <2>2. Len(line[k]) # 0 /\ tails[k] = line[k][Len(line[k])]
    BY DEF IInv, TailIsLast
  <2>3. Len(line[k]) \in 1 .. Len(line[k]) /\ tails[k] \in Calls
    BY <2>1, <2>2
  <2> QED
    BY <2>2, <2>3 DEF IInv, LineExact
<1> QED
  BY <1>1, InductiveInvariant, PTL

(* At most one operation runs under a key, whatever handlers ask for and whenever  *)
(* operations end.                                                                *)
THEOREM Exclusion == Spec => []MutualExclusion
<1>1. IInv => MutualExclusion
  <2> SUFFICES ASSUME IInv, NEW a \in Calls, NEW b \in Calls,
                      status[a] = "running", status[b] = "running", key[a] = key[b]
               PROVE a = b
    BY DEF MutualExclusion
  <2>1. line[key[a]][1] = a
    BY RunningIsFirst
  <2>2. line[key[b]][1] = b
    BY RunningIsFirst
  <2> QED
    BY <2>1, <2>2
<1> QED
  BY <1>1, InductiveInvariant, PTL

(* The map never loses a busy key and never keeps an idle one. *)
THEOREM TailsExact == Spec => []TailsAreLive
<1>1. IInv => TailsAreLive
  <2> SUFFICES ASSUME IInv, NEW k \in Keys
               PROVE (tails[k] # None) <=> \E a \in Calls : key[a] = k /\ Unfinished(a)
    BY DEF TailsAreLive
  <2>1. line[k] \in Seq(Calls) /\ Len(line[k]) \in Nat
    BY DEF IInv, Shape
  <2>2. CASE Len(line[k]) = 0
    <3>1. tails[k] = None
      BY <2>2 DEF IInv, TailIsLast
    <3>2. \A a \in Calls : ~ (\E i \in 1 .. Len(line[k]) : line[k][i] = a)
      BY <2>2
    <3> QED
      BY <3>1, <3>2 DEF IInv, LineExact
  <2>3. CASE Len(line[k]) # 0
    <3> DEFINE t == line[k][Len(line[k])]
    <3>1. t \in Calls /\ tails[k] = t /\ Len(line[k]) \in 1 .. Len(line[k])
      BY <2>1, <2>3 DEF IInv, TailIsLast
    <3>2. key[t] = k /\ Unfinished(t)
      BY <3>1 DEF IInv, LineExact
    <3> QED
      BY <3>1, <3>2, ScopeAssumption
  <2> QED
    BY <2>2, <2>3
<1> QED
  BY <1>1, InductiveInvariant, PTL

-----------------------------------------------------------------------------
(* Every step of the queue is a step of FifoLock or leaves its line alone: a call *)
(* joins at the end of the line and leaves it from the head.                      *)
THEOREM ImplementsFifoLock == Spec => Lock!LockInit /\ [][Lock!LockNext]_line
<1>1. Init => Lock!LockInit
  BY DEF Init, Lock!LockInit
<1>2. IInv /\ [Next]_vars => [Lock!LockNext]_line
  <2> SUFFICES ASSUME IInv, [Next]_vars PROVE [Lock!LockNext]_line
    OBVIOUS
  <2>1. ASSUME NEW a \in Calls, NEW k \in Keys, NEW p \in Calls \cup {None}, NEW aw \in BOOLEAN,
               Enqueue(a, k, p, aw)
        PROVE Lock!LockNext
    <3>1. ~ Unfinished(a)
      BY <2>1 DEF Enqueue, Unfinished
    <3>2. line[k] \in Seq(Calls)
      BY DEF IInv, Shape
    <3>3. ~ Lock!Waits(a, k)
      BY <3>1, <3>2 DEF Lock!Waits, IInv, LineExact
    <3>4. Lock!Enter(a, k)
      BY <2>1, <3>3 DEF Enqueue, Lock!Enter
    <3> QED
      BY <3>4 DEF Lock!LockNext
  <2>2. ASSUME NEW a \in Calls, Finish(a) PROVE Lock!LockNext
    <3>1. status[a] = "running"
      BY <2>2 DEF Finish
    <3>2. key[a] \in Keys /\ line[key[a]] \in Seq(Calls) /\ line[key[a]] # <<>>
          /\ Head(line[key[a]]) = a
      BY <3>1, RunningIsFirst DEF IInv, Shape
    <3>3. Lock!Leave(a, key[a])
      BY <2>2, <3>2, FinishIInv DEF Lock!Leave, Lock!Holds
    <3> QED
      BY <3>2, <3>3 DEF Lock!LockNext
  <2>3. ASSUME NEW a \in Calls, NEW k \in Keys, NEW p \in Calls \cup {None}, NEW aw \in BOOLEAN,
               Refuse(a, k, p, aw)
        PROVE UNCHANGED line
    BY <2>3 DEF Refuse
  <2>4. ASSUME NEW a \in Calls, Start(a) PROVE UNCHANGED line
    BY <2>4 DEF Start
  <2>5. CASE UNCHANGED vars
    BY <2>5 DEF vars
  <2> QED
    BY <2>1, <2>2, <2>3, <2>4, <2>5 DEF Next
<1> QED
  BY <1>1, <1>2, InductiveInvariant, PTL DEF Spec
-----------------------------------------------------------------------------
(* Contexts: who is refused, and who waits for whom *)

HasRun(a) == status[a] \in {"running", "done"}

(* A call that is still to come has no history. *)
NewIsFresh == \A a \in Calls : status[a] = "new" => parent[a] = None /\ held[a] = {}

(* Code runs in the context of operations that have begun. *)
ParentsRan == \A a \in Calls : parent[a] # None => HasRun(parent[a])

(* The context of a call is made of calls it descends from. *)
HeldAreAncestors == \A a \in Calls : \A s \in held[a] : HasRun(s) /\ s \in Ancestors(a)

(* Only an operation of a repository waits for another, and that is a worktree's.   *)
AwaitedBelow ==
  \A a \in Calls : awaited[a] /\ Unfinished(a) =>
    /\ parent[a] \in Calls
    /\ key[parent[a]] \in RepoKeys /\ key[a] \in WorktreeKeys

ContextInv == NewIsFresh /\ ParentsRan /\ HeldAreAncestors /\ AwaitedBelow

(* No call has a context in the beginning. *)
LEMMA ContextInvInit == Init => ContextInv
BY DEF Init, ContextInv, NewIsFresh, ParentsRan, HeldAreAncestors, AwaitedBelow, Unfinished

(* A call that is added with a parent of its own: nobody descends from it yet, and   *)
(* it descends from its parent and from what its parent descends from.              *)
LEMMA DescentGrows ==
  ASSUME IInv, ContextInv, NEW a \in Calls, status[a] = "new",
         NEW p \in Calls \cup {None}, parent' = [parent EXCEPT ![a] = p],
         p # None => HasRun(p)
  PROVE  /\ \A b \in Calls \ {a} : Ancestors(b) \subseteq Ancestors(b)'
         /\ Context(p) \subseteq Ancestors(a)'
<1>1. /\ parent'[a] = p /\ parent[a] = None
      /\ \A b \in Calls \ {a} : parent'[b] = parent[b]
  BY DEF IInv, Shape, ContextInv, NewIsFresh
<1>2. ASSUME NEW S \in SUBSET Calls, \A b \in S : parent'[b] \in S \cup {None}
      PROVE  \A b \in S : parent[b] \in S \cup {None}
  BY <1>1, <1>2
<1>3. ASSUME NEW b \in Calls \ {a}, NEW s \in Ancestors(b) PROVE s \in Ancestors(b)'
  <2> SUFFICES ASSUME NEW S \in SUBSET Calls, parent'[b] \in S \cup {None},
                      \A c \in S : parent'[c] \in S \cup {None}
               PROVE  s \in S
    BY <1>3 DEF Ancestors
  <2>1. parent[b] \in S \cup {None} /\ \A c \in S : parent[c] \in S \cup {None}
    BY <1>1, <1>2
  <2> QED BY <1>3, <2>1 DEF Ancestors
<1>4. ASSUME NEW s \in Context(p) PROVE s \in Ancestors(a)'
  <2>1. p \in Calls /\ p # None /\ s \in held[p] \cup {p}
    BY <1>4 DEF Context
  <2>2. s \in Calls
    BY <2>1 DEF IInv, Shape
  <2> SUFFICES ASSUME NEW S \in SUBSET Calls, parent'[a] \in S \cup {None},
                      \A c \in S : parent'[c] \in S \cup {None}
               PROVE  s \in S
    BY <2>2 DEF Ancestors
  <2>3. p \in S
    BY <1>1, <2>1
  <2>4. \A c \in S : parent[c] \in S \cup {None}
    BY <1>2
  <2>5. CASE s \in held[p]
    <3>1. s \in Ancestors(p)
      BY <2>1, <2>5 DEF ContextInv, HeldAreAncestors
    <3>2. parent[p] \in S \cup {None}
      BY <2>3, <2>4
    <3> QED BY <2>4, <3>1, <3>2 DEF Ancestors
  <2> QED BY <2>1, <2>3, <2>5
<1> QED BY <1>3, <1>4

(* What a call may ask for, which is not refused, when its parent waits for it.      *)
LEMMA AwaitedIsBelow ==
  ASSUME IInv, NEW k \in Keys, NEW p \in Calls \cup {None}, MayAsk(p, k, TRUE),
         ~ Refused(k, p)
  PROVE  p \in Calls /\ key[p] \in RepoKeys /\ k \in WorktreeKeys
<1>1. p \in Calls /\ status[p] = "running" /\ k \in Asks[key[p]]
  BY DEF MayAsk
<1>2. key[p] \in Keys /\ p \in LiveScopes(p)
  BY <1>1, ScopeAssumption DEF IInv, KeyKnown, Unfinished, LiveScopes, Context
<1>3. k # key[p] /\ ~ (k \in RepoKeys /\ key[p] \in WorktreeKeys)
  BY <1>2 DEF Refused, Reentrant, Inverted
<1> QED BY <1>1, <1>2, <1>3, ScopeAssumption DEF Keys

(* Every step keeps what is known of the contexts of calls. *)
LEMMA ContextInvNext ==
  ASSUME IInv, ContextInv, [Next]_vars
  PROVE  ContextInv'
<1> USE DEF ContextInv
<1>1. ASSUME NEW a \in Calls, NEW k \in Keys, NEW p \in Calls \cup {None},
             NEW aw \in BOOLEAN, Refuse(a, k, p, aw) \/ Enqueue(a, k, p, aw)
      PROVE  ContextInv'
  <2>1. /\ status[a] = "new" /\ MayAsk(p, k, aw)
        /\ parent' = [parent EXCEPT ![a] = p] /\ awaited' = [awaited EXCEPT ![a] = aw]
        /\ key' = [key EXCEPT ![a] = k]
        /\ status' = [status EXCEPT ![a] = "refused"] \/ status' = [status EXCEPT ![a] = "queued"]
    BY <1>1 DEF Refuse, Enqueue
  <2>2. p # None => p \in Calls /\ HasRun(p)
    BY <2>1 DEF MayAsk, HasRun
  <2>3. /\ \A b \in Calls \ {a} : /\ status'[b] = status[b] /\ parent'[b] = parent[b]
                                  /\ awaited'[b] = awaited[b] /\ key'[b] = key[b]
        /\ status'[a] \in {"refused", "queued"} /\ parent'[a] = p
        /\ awaited'[a] = aw /\ key'[a] = k
    BY <2>1 DEF IInv, Shape
  <2>4. /\ \A b \in Calls \ {a} : held'[b] = held[b]
        /\ held'[a] \subseteq Context(p)
    <3>1. CASE Refuse(a, k, p, aw)
      BY <2>1, <3>1 DEF Refuse, NewIsFresh
    <3>2. CASE Enqueue(a, k, p, aw)
      BY <3>2 DEF Enqueue, LiveScopes, IInv, Shape
    <3> QED BY <1>1, <3>1, <3>2
  <2>5. \A b \in Calls : HasRun(b) => b # a /\ HasRun(b)'
    BY <2>1, <2>3 DEF HasRun
  <2>6. \A s \in Context(p) : s \in Calls /\ HasRun(s)
    BY <2>2 DEF Context, HeldAreAncestors, IInv, Shape
  <2>7. NewIsFresh'
    BY <2>3, <2>4 DEF NewIsFresh
  <2>8. ParentsRan'
    <3>1. \A b \in Calls : parent[b] # None => parent[b] \in Calls
      BY DEF IInv, Shape
    <3> QED BY <2>2, <2>3, <2>5, <3>1 DEF ParentsRan, HasRun
  <2>9. HeldAreAncestors'
    <3>1. /\ \A b \in Calls \ {a} : Ancestors(b) \subseteq Ancestors(b)'
          /\ Context(p) \subseteq Ancestors(a)'
      BY <2>1, <2>2, DescentGrows
    <3>2. \A b \in Calls : held[b] \subseteq Calls
      BY DEF IInv, Shape
    <3> SUFFICES ASSUME NEW b \in Calls, NEW s \in held'[b]
                 PROVE  HasRun(s)' /\ s \in Ancestors(b)'
      BY DEF HeldAreAncestors
    <3>3. CASE b = a
      BY <2>4, <2>5, <2>6, <3>1, <3>3
    <3>4. CASE b # a
      BY <2>4, <2>5, <3>1, <3>2, <3>4 DEF HeldAreAncestors
    <3> QED BY <3>3, <3>4
  <2>10. AwaitedBelow'
    <3> SUFFICES ASSUME NEW b \in Calls, awaited'[b], Unfinished(b)'
                 PROVE  /\ parent'[b] \in Calls
                        /\ key'[parent'[b]] \in RepoKeys /\ key'[b] \in WorktreeKeys
      BY DEF AwaitedBelow
    <3>1. CASE b = a
      <4>1. Enqueue(a, k, p, aw) /\ aw = TRUE
        BY <1>1, <2>1, <2>3, <3>1 DEF Refuse, Unfinished, IInv, Shape
      <4>2. p \in Calls /\ key[p] \in RepoKeys /\ k \in WorktreeKeys
        BY <4>1, AwaitedIsBelow DEF Enqueue
      <4>3. p # a
        BY <2>2, <2>5, <4>2, ScopeAssumption
      <4> QED BY <2>3, <3>1, <4>2, <4>3
    <3>2. CASE b # a
      <4>1. /\ parent[b] \in Calls /\ key[parent[b]] \in RepoKeys /\ key[b] \in WorktreeKeys
        BY <2>3, <3>2 DEF AwaitedBelow, Unfinished
      <4>2. parent[b] # a
        BY <2>5, <4>1, ScopeAssumption DEF ParentsRan
      <4> QED BY <2>3, <3>2, <4>1, <4>2
    <3> QED BY <3>1, <3>2
  <2> QED BY <2>7, <2>8, <2>9, <2>10
<1>2. ASSUME UNCHANGED <<key, parent, awaited, held>>,
             \A b \in Calls : /\ HasRun(b) => HasRun(b)'
                              /\ Unfinished(b)' => Unfinished(b)
                              /\ status'[b] = "new" => status[b] = "new"
      PROVE  ContextInv'
  <2>1. NewIsFresh' /\ AwaitedBelow'
    BY <1>2 DEF NewIsFresh, AwaitedBelow
  <2>2. ParentsRan'
    <3>1. \A b \in Calls : parent[b] # None => parent[b] \in Calls
      BY DEF IInv, Shape
    <3> QED BY <1>2, <3>1 DEF ParentsRan, HasRun
  <2>3. HeldAreAncestors'
    <3>1. \A b \in Calls : held[b] \subseteq Calls
      BY DEF IInv, Shape
    <3> QED BY <1>2, <3>1 DEF HeldAreAncestors, Ancestors, HasRun
  <2> QED BY <2>1, <2>2, <2>3
<1>3. ASSUME NEW a \in Calls, Start(a) \/ Finish(a) PROVE ContextInv'
  <2>1. /\ UNCHANGED <<key, parent, awaited, held>>
        /\ status[a] \in {"queued", "running"}
        /\ status' = [status EXCEPT ![a] = "running"] \/ status' = [status EXCEPT ![a] = "done"]
    BY <1>3 DEF Start, Finish
  <2>2. \A b \in Calls : /\ HasRun(b) => HasRun(b)'
                         /\ Unfinished(b)' => Unfinished(b)
                         /\ status'[b] = "new" => status[b] = "new"
    BY <2>1 DEF HasRun, Unfinished, IInv, Shape
  <2> QED BY <1>2, <2>1, <2>2
<1>4. CASE UNCHANGED vars
  BY <1>2, <1>4 DEF vars, HasRun, Unfinished
<1> QED BY <1>1, <1>3, <1>4 DEF Next

(* Contexts hold calls that have begun and that the holder descends from, and waiting *)
(* inside an operation goes from a repository to a worktree only.                    *)
THEOREM ContextInvariant == Spec => []ContextInv
<1>1. Init => ContextInv
  BY ContextInvInit
<1>2. IInv /\ ContextInv /\ [Next]_vars => ContextInv'
  BY ContextInvNext
<1> QED
  BY <1>1, <1>2, InductiveInvariant, PTL DEF Spec

-----------------------------------------------------------------------------
(* A set of numbers that is not empty has a least one. *)
LEMMA LeastExists ==
  ASSUME NEW S \in SUBSET Nat, S # {}
  PROVE  \E x \in S : \A y \in S : x <= y
<1> DEFINE R == {ss \in Nat \X Nat : ss[1] < ss[2]}
<1>1. IsWellFoundedOn(R, Nat)
  BY NatLessThanWellFounded DEF OpToRel
<1> HIDE DEF R
<1>2. PICK x \in S : \A y \in S : ~ (<<y, x>> \in R)
  BY <1>1, WFMin
<1>3. \A y \in S : ~ (y < x)
  BY <1>2 DEF R
<1> QED BY <1>3

(* Of the members of a set in one line the first waits for none of them in line.     *)
LEMMA FirstOfLine ==
  ASSUME IInv, NEW k \in Keys, NEW S \in SUBSET {a \in Calls : Unfinished(a)},
         NEW m \in S, key[m] = k
  PROVE  \E a \in S : key[a] = k /\ (status[a] = "queued" => WaitsFor(a) \cap S = {})
<1> DEFINE l == line[k]
           I == {i \in 1 .. Len(l) : l[i] \in S}
<1>1. l \in Seq(Calls) /\ Len(l) \in Nat
  BY DEF IInv, Shape
<1>2. PICK j \in 1 .. Len(l) : l[j] = m
  BY DEF IInv, LineExact
<1>3. I \in SUBSET Nat /\ I # {}
  BY <1>1, <1>2
<1> HIDE DEF I
<1>4. PICK i \in I : \A n \in I : i <= n
  BY <1>3, LeastExists
<1> DEFINE a == l[i]
<1>5. i \in 1 .. Len(l) /\ a \in S /\ a \in Calls
  BY <1>4 DEF I
<1>6. key[a] = k
  BY <1>5 DEF IInv, LineExact
<1>7. ASSUME status[a] = "queued", NEW b \in WaitsFor(a) \cap S PROVE FALSE
  <2>1. b \in Calls /\ prev[a] = b /\ Unfinished(b) /\ b \in S
    BY <1>7 DEF WaitsFor
  <2>2. CASE i = 1
    <3>1. TailResolved(prev[a])
      BY <1>5, <2>2 DEF IInv, ChainLinked
    <3> QED BY <2>1, <3>1 DEF TailResolved, Unfinished
  <2>3. CASE i > 1
    <3>1. prev[a] = l[i - 1] /\ i - 1 \in 1 .. Len(l)
      BY <1>1, <1>5, <2>3 DEF IInv, ChainLinked
    <3>2. i - 1 \in I
      BY <2>1, <3>1 DEF I
    <3> QED BY <1>1, <1>4, <1>5, <3>2
  <2> QED BY <1>1, <1>5, <2>2, <2>3
<1> QED BY <1>5, <1>6, <1>7

(* However repositories and worktrees are locked inside one another, and whoever       *)
(* waits for whom, somebody can always go on: operations under a worktree wait for     *)
(* nobody, those under a repository for operations under a worktree.                 *)
THEOREM NobodyWaitsInACircle == Spec => []NoWaitCycle
<1>1. IInv /\ ContextInv => NoWaitCycle
  <2> SUFFICES ASSUME IInv, ContextInv, NEW S \in SUBSET {a \in Calls : Unfinished(a)}, S # {}
               PROVE  \E a \in S : WaitsFor(a) \cap S = {}
    BY DEF NoWaitCycle
  <2>1. \A a \in S : /\ a \in Calls /\ Unfinished(a) /\ key[a] \in Keys
                     /\ status[a] = "queued" \/ status[a] = "running"
    BY DEF IInv, KeyKnown, Unfinished
  <2>2. ASSUME NEW a \in S, NEW b \in WaitsFor(a) \cap S, status[a] = "running"
        PROVE  key[a] \in RepoKeys /\ b \in S /\ key[b] \in WorktreeKeys
    BY <2>2 DEF WaitsFor, ContextInv, AwaitedBelow
  <2>3. CASE \E m \in S : key[m] \in WorktreeKeys
    <3>1. PICK m \in S : key[m] \in WorktreeKeys
      BY <2>3
    <3>2. PICK a \in S : key[a] = key[m] /\ (status[a] = "queued" => WaitsFor(a) \cap S = {})
      BY <2>1, <3>1, FirstOfLine
    <3>3. status[a] = "running" => WaitsFor(a) \cap S = {}
      BY <2>2, <3>1, <3>2, ScopeAssumption
    <3> QED BY <2>1, <3>2, <3>3
  <2>4. CASE \A m \in S : key[m] \notin WorktreeKeys
    <3>1. PICK m \in S : TRUE
      OBVIOUS
    <3>2. PICK a \in S : key[a] = key[m] /\ (status[a] = "queued" => WaitsFor(a) \cap S = {})
      BY <2>1, <3>1, FirstOfLine
    <3>3. status[a] = "running" => WaitsFor(a) \cap S = {}
      BY <2>2, <2>4
    <3> QED BY <2>1, <3>2, <3>3
  <2> QED BY <2>3, <2>4
<1> QED
  BY <1>1, InductiveInvariant, ContextInvariant, PTL

-----------------------------------------------------------------------------
(* What RefusedOnlyByRunning asks of a step. *)
RefusesForCause ==
  \A a \in Calls : status[a] # "refused" /\ status'[a] = "refused" =>
    \E s \in Ancestors(a)' :
      /\ status[s] = "running"
      /\ key[s] = key'[a] \/ (key'[a] \in RepoKeys /\ key[s] \in WorktreeKeys)

(* The call that refuses found a scope of an ancestor that has not ended. *)
LEMMA RefusingStep ==
  ASSUME IInv, ContextInv, [Next]_vars
  PROVE  RefusesForCause
<1> SUFFICES ASSUME NEW a \in Calls, status[a] # "refused", status'[a] = "refused"
             PROVE  \E s \in Ancestors(a)' :
                      /\ status[s] = "running"
                      /\ key[s] = key'[a] \/ (key'[a] \in RepoKeys /\ key[s] \in WorktreeKeys)
  BY DEF RefusesForCause
<1>1. PICK k \in Keys, p \in Calls \cup {None}, aw \in BOOLEAN : Refuse(a, k, p, aw)
  <2>1. ASSUME NEW b \in Calls, Start(b) \/ Finish(b) PROVE FALSE
    BY <2>1 DEF Start, Finish, IInv, Shape
  <2>2. ASSUME NEW b \in Calls, NEW k \in Keys, NEW p \in Calls \cup {None},
               NEW aw \in BOOLEAN, Enqueue(b, k, p, aw)
        PROVE  FALSE
    BY <2>2 DEF Enqueue, IInv, Shape
  <2>3. ASSUME NEW b \in Calls, NEW k \in Keys, NEW p \in Calls \cup {None},
               NEW aw \in BOOLEAN, Refuse(b, k, p, aw)
        PROVE  b = a
    BY <2>3 DEF Refuse, IInv, Shape
  <2>4. ~ UNCHANGED vars
    BY DEF vars
  <2> QED BY <2>1, <2>2, <2>3, <2>4 DEF Next
<1>2. /\ status[a] = "new" /\ Refused(k, p) /\ parent' = [parent EXCEPT ![a] = p]
      /\ key'[a] = k
      /\ p # None => p \in Calls /\ HasRun(p)
  BY <1>1 DEF Refuse, MayAsk, HasRun, IInv, Shape
<1>3. PICK s \in LiveScopes(p) : key[s] = k \/ (k \in RepoKeys /\ key[s] \in WorktreeKeys)
  BY <1>2 DEF Refused, Reentrant, Inverted
<1>4. s \in Context(p) /\ status[s] # "done"
  BY <1>3 DEF LiveScopes
<1>5. HasRun(s)
  BY <1>2, <1>4 DEF Context, ContextInv, HeldAreAncestors
<1>6. s \in Ancestors(a)'
  BY <1>2, <1>4, DescentGrows
<1>7. status[s] = "running"
  BY <1>4, <1>5 DEF HasRun
<1> QED BY <1>2, <1>3, <1>6, <1>7

(* "Stale context must not refuse": whoever is refused descends, at whatever distance, *)
(* from an operation that is running at that moment.                                *)
THEOREM RefusesOnlyForTheRunning == Spec => RefusedOnlyByRunning
<1>1. IInv /\ ContextInv /\ [Next]_vars => [RefusesForCause]_vars
  BY RefusingStep
<1>2. RefusedOnlyByRunning <=> [][RefusesForCause]_vars
  BY PTL DEF RefusedOnlyByRunning, RefusesForCause
<1> QED
  BY <1>1, <1>2, InductiveInvariant, ContextInvariant, PTL DEF Spec
=============================================================================
