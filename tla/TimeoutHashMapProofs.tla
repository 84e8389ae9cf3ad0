------------------------ MODULE TimeoutHashMapProofs ------------------------
(***************************************************************************)
(* Proofs about TimeoutHashMap, for any keys, values, lifetime and bounds. *)
(* TypeOK holds for any clock; everything else needs one that is not set   *)
(* back: between the two readings of the clock in update() an entry that   *)
(* had expired would become valid again, and be put back without a queue   *)
(* element; a later update() would find an entry and an empty queue.       *)
(***************************************************************************)
EXTENDS TimeoutHashMap, SequenceTheorems, TLAPS

Element == [key : Keys, expires : Int]

\* What Covered says, of any queue.
Holds(q, k, e) == \E i \in 1..Len(q) : q[i] = [key |-> k, expires |-> e.expires]

\* put keeps the elements of the queue and adds its own as the last.
LEMMA Appended ==
    ASSUME NEW q \in Seq(Element), NEW x \in Element
    PROVE  /\ Append(q, x) \in Seq(Element)
           /\ Len(Append(q, x)) = Len(q) + 1
           /\ Len(q) \in Nat
           /\ \A i \in 1..Len(q) : Append(q, x)[i] = q[i] /\ q[i] \in Element
           /\ Append(q, x)[Len(q) + 1] = x
  BY AppendProperties, LenProperties, ElementOfSeq

\* poll keeps the other elements of the queue, in their order.
LEMMA Polled ==
    ASSUME NEW q \in Seq(Element), q # <<>>
    PROVE  /\ Head(q) \in Element /\ Head(q) = q[1]
           /\ Tail(q) \in Seq(Element)
           /\ Len(q) \in Nat \ {0}
           /\ Len(Tail(q)) = Len(q) - 1
           /\ \A i \in 1..Len(Tail(q)) : Tail(q)[i] = q[i + 1]
           /\ \A i \in 1..Len(q) : q[i] \in Element
  <1>1. Len(q) \in Nat BY LenProperties
  <1>2. Len(q) # 0 BY EmptySeq
  <1>3. QED BY <1>1, <1>2, HeadTailProperties, ElementOfSeq

-----------------------------------------------------------------------------
\* Every action keeps the types.
LEMMA TypeStep ==
    ASSUME TypeOK, [Next]_vars
    PROVE  TypeOK'
  <1> USE MapAssumption DEF TypeOK
  <1>1. ASSUME NEW k \in Keys, NEW v \in Values, Put(k, v) PROVE TypeOK'
    <2>1. [value |-> v, expires |-> now + Timeout] \in Entry
      BY DEF Entry
    <2>2. [key |-> k, expires |-> now + Timeout] \in Element
      BY DEF Element
    <2>3. timeoutQueue' \in Seq(Element)
      BY <1>1, <2>2, Appended DEF Put, Element
    <2>4. QED
      BY <1>1, <2>1, <2>3 DEF Put, Element
  <1>2. ASSUME NEW k \in Keys, Remove(k) PROVE TypeOK'
    BY <1>2 DEF Remove
  <1>3. CASE Clear
    BY <1>3 DEF Clear
  <1>4. CASE StartUpdate
    BY <1>4 DEF StartUpdate
  <1>5. CASE PollExpired
    <2>1. /\ Head(timeoutQueue).key \in Keys
          /\ timeoutQueue' \in Seq(Element)
      BY <1>5, Polled DEF PollExpired, Element
    <2>2. QED
      BY <1>5, <2>1 DEF PollExpired, Element
  <1>6. CASE Reput
    <2>1. polled \in Keys
      BY <1>6 DEF Reput
    <2>2. map' \in [Keys -> Entry \cup {NoEntry}]
      BY <1>6, <2>1 DEF Reput
    <2>3. QED
      BY <1>6, <2>2 DEF Reput
  <1>7. CASE UpdateEnds
    BY <1>7 DEF UpdateEnds
  <1>8. CASE ClockMoves
    BY <1>8 DEF ClockMoves
  <1>9. CASE UNCHANGED vars
    BY <1>9 DEF vars
  <1>10. QED
    BY <1>1, <1>2, <1>3, <1>4, <1>5, <1>6, <1>7, <1>8, <1>9 DEF Next

\* The types, and that update() holds a key exactly between its remove and its re-put.
THEOREM TypeCorrect == Spec => []TypeOK
  <1>1. Init => TypeOK
    BY MapAssumption DEF Init, TypeOK, Entry
  <1>2. QED
    BY <1>1, TypeStep, PTL DEF Spec

-----------------------------------------------------------------------------
(* The invariant.                                                          *)

\* No step sets the clock back.
LEMMA TimeAdvances ==
    ASSUME ClockSteps \subseteq Nat, TypeOK, [Next]_vars
    PROVE  now \in Int /\ now' \in Int /\ now' >= now
  <1>1. now \in Int
    BY DEF TypeOK
  <1>2. CASE ClockMoves
    <2>1. PICK d \in ClockSteps : now' = now + d
      BY <1>2 DEF ClockMoves
    <2>2. QED
      BY <1>1, <2>1
  <1>3. CASE UNCHANGED now
    BY <1>1, <1>3
  <1>4. QED
    BY <1>2, <1>3 DEF Next, Put, Remove, Clear, StartUpdate, PollExpired, Reput, UpdateEnds, vars

\* A step that leaves the queue alone keeps its order.
LEMMA OrderKept ==
    ASSUME ClockSteps \subseteq Nat, IInv, [Next]_vars, UNCHANGED timeoutQueue
    PROVE  Chronological'
  <1>1. now \in Int /\ now' \in Int /\ now' >= now
    BY TimeAdvances DEF IInv
  <1>2. \A i \in 1..Len(timeoutQueue) : timeoutQueue[i].expires \in Int
    <2>1. timeoutQueue \in Seq(Element)
      BY DEF IInv, TypeOK, Element
    <2>2. \A i \in 1..Len(timeoutQueue) : timeoutQueue[i] \in Element
      BY <2>1, ElementOfSeq
    <2>3. QED
      BY <2>2 DEF Element
  <1>3. Timeout \in Int
    BY MapAssumption
  <1>4. QED
    BY <1>1, <1>2, <1>3 DEF IInv, Chronological

\* Put: the new element covers the new entry.
LEMMA PutKeeps ==
    ASSUME IInv, NEW k \in Keys, NEW v \in Values, Put(k, v)
    PROVE  QueueCoversMap' /\ HandCovered' /\ Chronological' /\ NeverThrows'
  <1> DEFINE x == [key |-> k, expires |-> now + Timeout]
  <1>1. /\ x \in Element /\ timeoutQueue \in Seq(Element)
        /\ timeoutQueue' = Append(timeoutQueue, x)
    BY MapAssumption DEF IInv, TypeOK, Element, Put
  <1>2. /\ Len(timeoutQueue') = Len(timeoutQueue) + 1
        /\ Len(timeoutQueue) \in Nat
        /\ \A i \in 1..Len(timeoutQueue) :
              timeoutQueue'[i] = timeoutQueue[i] /\ timeoutQueue[i] \in Element
        /\ timeoutQueue'[Len(timeoutQueue) + 1] = x
    BY <1>1, Appended
  <1>3. QueueCoversMap'
    <2> SUFFICES ASSUME NEW j \in Keys, map'[j] # NoEntry PROVE Covered(j, map[j])'
      BY DEF QueueCoversMap
    <2>1. CASE j = k
      <3>1. map'[j].expires = now + Timeout
        BY <2>1 DEF Put, IInv, TypeOK
      <3>2. Len(timeoutQueue) + 1 \in 1..Len(timeoutQueue')
        BY <1>2
      <3>3. QED
        BY <2>1, <3>1, <3>2, <1>2 DEF Covered
    <2>2. CASE j # k
      <3>1. map'[j] = map[j]
        BY <2>2 DEF Put, IInv, TypeOK
      <3>2. PICK i \in 1..Len(timeoutQueue) :
                timeoutQueue[i] = [key |-> j, expires |-> map[j].expires]
        BY <3>1 DEF IInv, QueueCoversMap, Covered
      <3>3. i \in 1..Len(timeoutQueue') /\ timeoutQueue'[i] = timeoutQueue[i]
        BY <1>2
      <3>4. QED
        BY <3>1, <3>2, <3>3 DEF Covered
    <2>3. QED
      BY <2>1, <2>2
  <1>4. HandCovered'
    BY DEF HandCovered, IInv, Put
  <1>5. Chronological'
    <2>1. now \in Int /\ Timeout \in Int /\ now' = now
      BY MapAssumption DEF IInv, TypeOK, Put
    <2>2. \A i \in 1..Len(timeoutQueue) : timeoutQueue[i].expires \in Int
      BY <1>2 DEF Element
    <2>3. x.expires = now + Timeout
      OBVIOUS
    <2> HIDE DEF x
    <2>4. \A i \in 1..Len(timeoutQueue') : timeoutQueue'[i].expires <= now' + Timeout
      <3> SUFFICES ASSUME NEW i \in 1..Len(timeoutQueue')
                   PROVE  timeoutQueue'[i].expires <= now' + Timeout
        OBVIOUS
      <3>1. CASE i = Len(timeoutQueue) + 1
        BY <1>2, <2>1, <2>3, <3>1
      <3>2. CASE i # Len(timeoutQueue) + 1
        <4>1. i \in 1..Len(timeoutQueue)
          BY <1>2, <3>2
        <4>2. QED
          BY <4>1, <1>2, <2>1 DEF IInv, Chronological
      <3>3. QED
        BY <3>1, <3>2
    <2>5. ASSUME NEW i \in 1..Len(timeoutQueue'), NEW j \in 1..Len(timeoutQueue'), i <= j
          PROVE  timeoutQueue'[i].expires <= timeoutQueue'[j].expires
      <3>1. CASE j = Len(timeoutQueue) + 1
        BY <1>2, <2>1, <2>3, <2>4, <3>1
      <3>2. CASE j # Len(timeoutQueue) + 1
        <4>1. i \in 1..Len(timeoutQueue) /\ j \in 1..Len(timeoutQueue)
          BY <1>2, <2>5, <3>2
        <4>2. QED
          BY <4>1, <1>2, <2>5 DEF IInv, Chronological
      <3>3. QED
        BY <3>1, <3>2
    <2>6. QED
      BY <2>4, <2>5 DEF Chronological
  <1>6. QED
    BY <1>3, <1>4, <1>5 DEF IInv, NeverThrows, Put

\* A step that changes neither queue, map nor what update() holds, and does not set the clock
\* back, keeps the two coverings.
LEMMA CoveringKept ==
    ASSUME ClockSteps \subseteq Nat, IInv, [Next]_vars,
           UNCHANGED <<map, timeoutQueue, polled, removed>>,
           removed # NoEntry => pc' = "removed"
    PROVE  QueueCoversMap' /\ HandCovered'
  <1>1. now \in Int /\ now' \in Int /\ now' >= now
    BY TimeAdvances DEF IInv
  <1>2. QueueCoversMap'
    BY DEF IInv, QueueCoversMap, Covered
  <1>3. HandCovered'
    <2> SUFFICES ASSUME removed # NoEntry
                 PROVE  now' >= removed.expires \/ Covered(polled, removed)'
      BY DEF HandCovered
    <2>1. removed.expires \in Int
      BY DEF IInv, TypeOK, Entry
    <2>2. now >= removed.expires \/ Covered(polled, removed)
      BY DEF IInv, HandCovered
    <2>3. CASE now >= removed.expires
      BY <1>1, <2>1, <2>3
    <2>4. CASE Covered(polled, removed)
      BY <2>4 DEF Covered
    <2>5. QED
      BY <2>2, <2>3, <2>4
  <1>4. QED
    BY <1>2, <1>3

\* PollExpired: the element polled covered no entry but one for its own key, and that one is
\* now in update()'s hand and has expired, unless a later element covers it.
LEMMA PollKeeps ==
    ASSUME IInv, PollExpired
    PROVE  QueueCoversMap' /\ HandCovered' /\ Chronological' /\ NeverThrows'
  <1>1. timeoutQueue \in Seq(Element) /\ timeoutQueue # <<>>
    BY DEF IInv, TypeOK, Element, PollExpired
  <1>2. timeoutQueue' = Tail(timeoutQueue) /\ now > Head(timeoutQueue).expires
    BY DEF PollExpired
  <1>3. /\ Head(timeoutQueue) = timeoutQueue[1]
        /\ Len(timeoutQueue) \in Nat \ {0}
        /\ Len(timeoutQueue') = Len(timeoutQueue) - 1
        /\ \A i \in 1..Len(timeoutQueue') : timeoutQueue'[i] = timeoutQueue[i + 1]
        /\ \A i \in 1..Len(timeoutQueue) : timeoutQueue[i] \in Element
    BY <1>1, <1>2, Polled
  \* What was covered is still covered, or it was covered by the element polled.
  <1>4. ASSUME NEW k, NEW e, Covered(k, e)
        PROVE  Holds(timeoutQueue', k, e) \/ (k = polled' /\ now > e.expires)
    <2>1. PICK i \in 1..Len(timeoutQueue) :
              timeoutQueue[i] = [key |-> k, expires |-> e.expires]
      BY <1>4 DEF Covered
    <2>2. CASE i = 1
      BY <1>2, <1>3, <2>1, <2>2 DEF PollExpired
    <2>3. CASE i # 1
      <3>1. i - 1 \in 1..Len(timeoutQueue') /\ timeoutQueue'[i - 1] = timeoutQueue[i]
        BY <1>3, <2>3
      <3>2. QED
        BY <2>1, <3>1 DEF Holds
    <2>4. QED
      BY <2>2, <2>3
  <1>5. polled' \in Keys
    BY <1>1, Polled DEF PollExpired, Element
  <1>6. QueueCoversMap'
    <2> SUFFICES ASSUME NEW k \in Keys, map'[k] # NoEntry PROVE Covered(k, map[k])'
      BY DEF QueueCoversMap
    <2>1. k # polled' /\ map'[k] = map[k]
      BY DEF PollExpired, IInv, TypeOK
    <2>2. Covered(k, map[k])
      BY <2>1 DEF IInv, QueueCoversMap
    <2>3. Holds(timeoutQueue', k, map[k])
      BY <2>1, <2>2, <1>4
    <2>4. QED
      BY <2>1, <2>3 DEF Covered, Holds
  <1>7. HandCovered'
    <2> SUFFICES ASSUME removed' # NoEntry
                 PROVE  now' >= removed'.expires \/ Covered(polled, removed)'
      BY DEF HandCovered, PollExpired
    <2>1. removed' = map[polled'] /\ now' = now
      BY DEF PollExpired
    <2>2. Covered(polled', map[polled'])
      BY <1>5, <2>1 DEF IInv, QueueCoversMap, Covered
    <2>3. now \in Int /\ map[polled'].expires \in Int
      BY <1>5, <2>1 DEF IInv, TypeOK, Entry
    <2>4. CASE now > map[polled'].expires
      BY <2>1, <2>3, <2>4
    <2>5. CASE Holds(timeoutQueue', polled', removed')
      BY <2>5 DEF Covered, Holds
    <2>6. Holds(timeoutQueue', polled', map[polled']) \/ now > map[polled'].expires
      BY <2>2, <1>4
    <2>7. QED
      BY <2>1, <2>4, <2>5, <2>6
  <1>8. Chronological'
    <2>1. now' = now
      BY DEF PollExpired
    <2>2. \A i \in 1..Len(timeoutQueue') : i + 1 \in 1..Len(timeoutQueue)
      BY <1>3
    <2>3. \A i \in 1..Len(timeoutQueue') : timeoutQueue'[i].expires <= now' + Timeout
      BY <1>3, <2>1, <2>2 DEF IInv, Chronological
    <2>4. ASSUME NEW i \in 1..Len(timeoutQueue'), NEW j \in 1..Len(timeoutQueue'), i <= j
          PROVE  timeoutQueue'[i].expires <= timeoutQueue'[j].expires
      <3>1. i + 1 <= j + 1
        BY <2>4
      <3>2. QED
        BY <1>3, <2>2, <3>1 DEF IInv, Chronological
    <2>5. QED
      BY <2>3, <2>4 DEF Chronological
  <1>9. QED
    BY <1>6, <1>7, <1>8 DEF NeverThrows, PollExpired

\* Reput: a valid entry is covered, so putting it back keeps the covering.
LEMMA ReputKeeps ==
    ASSUME IInv, Reput
    PROVE  QueueCoversMap' /\ HandCovered' /\ NeverThrows'
  <1>1. QueueCoversMap'
    <2> SUFFICES ASSUME NEW k \in Keys, map'[k] # NoEntry PROVE Covered(k, map[k])'
      BY DEF QueueCoversMap
    <2>1. CASE map'[k] = map[k]
      BY <2>1 DEF IInv, QueueCoversMap, Covered, Reput
    <2>2. CASE map'[k] # map[k]
      <3>1. Valid(removed) /\ k = polled /\ map'[k] = removed
        BY <2>2 DEF IInv, TypeOK, Reput
      <3>2. removed # NoEntry /\ now < removed.expires
        BY <3>1 DEF Valid
      <3>3. now \in Int /\ removed.expires \in Int
        BY <3>2 DEF IInv, TypeOK, Entry
      <3>4. Covered(polled, removed)
        BY <3>2, <3>3 DEF IInv, HandCovered
      <3>5. QED
        BY <3>1, <3>4 DEF Covered, Reput
    <2>3. QED
      BY <2>1, <2>2
  <1>2. HandCovered'
    BY DEF HandCovered, Reput
  <1>3. QED
    BY <1>1, <1>2 DEF NeverThrows, Reput

\* UpdateEnds: with an empty queue the map is empty, so nothing is thrown.
LEMMA EndKeeps ==
    ASSUME IInv, UpdateEnds
    PROVE  NeverThrows'
  <1>1. CASE timeoutQueue = <<>>
    <2>1. Len(timeoutQueue) = 0
      BY <1>1, EmptySeq
    <2>2. \A i \in 1..Len(timeoutQueue) : FALSE
      BY <2>1
    <2>3. \A k \in Keys : map[k] = NoEntry
      BY <2>2 DEF IInv, QueueCoversMap, Covered
    <2>4. QED
      BY <2>3 DEF NeverThrows, UpdateEnds
  <1>2. CASE timeoutQueue # <<>>
    BY <1>2 DEF NeverThrows, UpdateEnds
  <1>3. QED
    BY <1>1, <1>2

\* Remove: there is one entry less to cover.
LEMMA RemoveKeeps ==
    ASSUME IInv, NEW k \in Keys, Remove(k)
    PROVE  QueueCoversMap' /\ HandCovered' /\ NeverThrows'
  <1>1. \A j \in Keys : map'[j] # NoEntry => map'[j] = map[j]
    BY DEF IInv, TypeOK, Remove
  <1>2. QueueCoversMap'
    BY <1>1 DEF IInv, QueueCoversMap, Covered, Remove
  <1>3. HandCovered'
    BY DEF IInv, HandCovered, Covered, Remove
  <1>4. QED
    BY <1>2, <1>3 DEF IInv, NeverThrows, Remove

\* Nothing puts the key update() holds back but update() itself.
LEMMA OutOfMapKept ==
    ASSUME IInv, [Next]_vars
    PROVE  OutOfMap'
  <1> USE DEF OutOfMap
  <1>1. ASSUME NEW k \in Keys, NEW v \in Values, Put(k, v) PROVE OutOfMap'
    BY <1>1 DEF IInv, TypeOK, Put
  <1>2. ASSUME NEW k \in Keys, Remove(k) PROVE OutOfMap'
    BY <1>2 DEF IInv, TypeOK, Remove
  <1>3. CASE Clear
    BY <1>3 DEF IInv, TypeOK, Clear
  <1>4. CASE PollExpired
    <2>1. timeoutQueue \in Seq(Element) /\ timeoutQueue # <<>>
      BY <1>4 DEF IInv, TypeOK, Element, PollExpired
    <2>2. polled' \in Keys
      BY <1>4, <2>1, Polled DEF PollExpired, Element
    <2>3. QED
      BY <1>4, <2>2 DEF IInv, TypeOK, PollExpired
  <1>5. CASE Reput
    BY <1>5 DEF Reput
  <1>6. CASE StartUpdate \/ UpdateEnds \/ ClockMoves \/ UNCHANGED vars
    BY <1>6 DEF IInv, StartUpdate, UpdateEnds, ClockMoves, vars
  <1>7. QED
    BY <1>1, <1>2, <1>3, <1>4, <1>5, <1>6 DEF Next

-----------------------------------------------------------------------------
\* The invariant holds while the clock is not set back.
THEOREM Invariance == ASSUME ClockSteps \subseteq Nat PROVE Spec => []IInv
  <1>1. Init => IInv
    <2> SUFFICES ASSUME Init PROVE IInv
      OBVIOUS
    <2>1. TypeOK
      BY MapAssumption DEF Init, TypeOK, Entry
    <2>2. QueueCoversMap /\ HandCovered /\ OutOfMap /\ NeverThrows
      BY DEF Init, QueueCoversMap, HandCovered, OutOfMap, NeverThrows
    <2>3. Len(timeoutQueue) = 0
      BY EmptySeq DEF Init
    <2>4. \A i \in 1..Len(timeoutQueue) : FALSE
      BY <2>3
    <2>5. QED
      BY <2>1, <2>2, <2>4 DEF IInv, Chronological
  <1>2. IInv /\ [Next]_vars => IInv'
    <2> SUFFICES ASSUME IInv, [Next]_vars PROVE IInv'
      OBVIOUS
    <2>1. TypeOK' /\ OutOfMap'
      BY TypeStep, OutOfMapKept DEF IInv
    <2> DEFINE Rest == QueueCoversMap' /\ HandCovered' /\ Chronological' /\ NeverThrows'
    <2> SUFFICES Rest
      BY <2>1 DEF IInv
    <2>2. ASSUME NEW k \in Keys, NEW v \in Values, Put(k, v) PROVE Rest
      BY <2>2, PutKeeps
    <2>3. ASSUME NEW k \in Keys, Remove(k) PROVE Rest
      BY <2>3, RemoveKeeps, OrderKept DEF Remove
    <2>4. CASE Clear
      <3>1. QueueCoversMap' /\ HandCovered' /\ NeverThrows'
        BY <2>4 DEF Clear, IInv, TypeOK, QueueCoversMap, HandCovered, NeverThrows
      <3>2. Len(timeoutQueue') = 0
        BY <2>4, EmptySeq DEF Clear
      <3>3. \A i \in 1..Len(timeoutQueue') : FALSE
        BY <3>2
      <3>4. QED
        BY <3>1, <3>3 DEF Chronological
    <2>5. CASE PollExpired
      BY <2>5, PollKeeps
    <2>6. CASE Reput
      BY <2>6, ReputKeeps, OrderKept DEF Reput
    <2>7. CASE UpdateEnds
      <3>1. removed = NoEntry \/ pc = "removed"
        BY DEF IInv, HandCovered
      <3>2. removed = NoEntry /\ UNCHANGED <<map, timeoutQueue, polled, removed>>
        BY <2>7, <3>1 DEF UpdateEnds
      <3>3. QED
        BY <2>7, <3>2, EndKeeps, CoveringKept, OrderKept
    <2>8. CASE StartUpdate \/ ClockMoves \/ UNCHANGED vars
      <3>1. /\ UNCHANGED <<map, timeoutQueue, polled, removed>>
            /\ pc' = pc \/ (pc = "idle" /\ pc' = "update")
        BY <2>8 DEF StartUpdate, ClockMoves, vars
      <3>2. removed # NoEntry => pc' = "removed"
        BY <3>1 DEF IInv, HandCovered
      <3>3. NeverThrows'
        BY <3>1 DEF IInv, NeverThrows
      <3>4. QED
        BY <3>1, <3>2, <3>3, CoveringKept, OrderKept
    <2>9. QED
      BY <2>2, <2>3, <2>4, <2>5, <2>6, <2>7, <2>8 DEF Next
  <1>3. QED
    BY <1>1, <1>2, PTL DEF Spec

\* What put() let in, update() will take out, overridden or not.
THEOREM MapCovered == ASSUME ClockSteps \subseteq Nat PROVE Spec => []QueueCoversMap
  <1>1. IInv => QueueCoversMap
    BY DEF IInv
  <1>2. QED
    BY <1>1, Invariance, PTL

\* While the clock is not set back, update() never throws, whatever other threads remove.
THEOREM UpdateIsSafe == ASSUME ClockSteps \subseteq Nat PROVE Spec => []NeverThrows
  <1>1. IInv => NeverThrows
    BY DEF IInv
  <1>2. QED
    BY <1>1, Invariance, PTL

\* update() leaves nothing that has expired, although it stops at the first element that
\* has not.
THEOREM NothingExpiredLeft == ASSUME ClockSteps \subseteq Nat PROVE Spec => UpdatePurges
  <1> DEFINE Purges == pc = "update" /\ pc' = "idle" =>
                        \A k \in Keys : map[k] # NoEntry => now <= map[k].expires
  <1>1. IInv /\ [Next]_vars => [Purges]_vars
    <2> SUFFICES ASSUME IInv, Next, pc = "update", pc' = "idle",
                        NEW k \in Keys, map[k] # NoEntry
                 PROVE  now <= map[k].expires
      OBVIOUS
    <2>1. UpdateEnds
      BY DEF Next, Put, Remove, Clear, StartUpdate, PollExpired, Reput, ClockMoves
    <2>2. PICK i \in 1..Len(timeoutQueue) :
              timeoutQueue[i] = [key |-> k, expires |-> map[k].expires]
      BY DEF IInv, QueueCoversMap, Covered
    <2>3. timeoutQueue \in Seq(Element)
      BY DEF IInv, TypeOK, Element
    <2>4. timeoutQueue # <<>>
      BY <2>2, EmptySeq
    <2>5. /\ Head(timeoutQueue) = timeoutQueue[1]
          /\ timeoutQueue[1] \in Element /\ timeoutQueue[i] \in Element
          /\ 1 \in 1..Len(timeoutQueue) /\ 1 <= i
      BY <2>3, <2>4, Polled
    <2>6. timeoutQueue[1].expires <= timeoutQueue[i].expires
      BY <2>5 DEF IInv, Chronological
    <2>7. now <= timeoutQueue[1].expires
      BY <2>1, <2>4, <2>5 DEF UpdateEnds
    <2>8. now \in Int /\ timeoutQueue[1].expires \in Int /\ timeoutQueue[i].expires \in Int
      BY <2>5 DEF IInv, TypeOK, Element
    <2>9. timeoutQueue[i].expires = map[k].expires
      BY <2>2
    <2>10. QED
      BY <2>6, <2>7, <2>8, <2>9
  <1>2. QED
    BY <1>1, Invariance, PTL DEF Spec, UpdatePurges

-----------------------------------------------------------------------------
(* The refinement.                                                         *)

\* A step that shows every key as holding the same entry is a stutter of the abstract map.
LEMMA SameContents ==
    ASSUME UNCHANGED now,
           \A k \in PrivateKeys : Contents'[k] = Contents[k]
    PROVE  Contents' = Contents
  BY DEF Contents

\* For the keys nobody else removes, the map is an expiring map: neither update(), nor the
\* window between its remove and its re-put, can be seen.
THEOREM MapImplemented ==
    ASSUME ClockSteps \subseteq Nat
    PROVE  Spec => ImplementsExpiringMap
  <1>1. Init => Abstract!Init
    BY MapAssumption DEF Init, Abstract!Init, Contents, OwnCalls, Valid, PrivateKeys
  <1>2. IInv /\ [Next]_vars => [Abstract!Next]_Abstract!vars
    <2> SUFFICES ASSUME IInv, [Next]_vars PROVE Abstract!Next \/ UNCHANGED Abstract!vars
      OBVIOUS
    <2> USE DEF PrivateKeys
    <2>1. ASSUME NEW k \in PrivateKeys, NEW v \in Values, Put(k, v) PROVE Abstract!Put(k, v)
      <3> DEFINE e == [value |-> v, expires |-> now + Timeout]
      <3>1. polled = NoKey /\ polled' = NoKey /\ now' = now
        BY <2>1 DEF IInv, TypeOK, Put
      <3>2. e # NoEntry /\ now' < e.expires
        BY <3>1, MapAssumption DEF IInv, TypeOK, Entry
      <3>3. map' = [map EXCEPT ![k] = e]
        BY <2>1 DEF Put
      <3> HIDE DEF e
      <3>4. Contents' = [Contents EXCEPT ![k] = e]
        BY <3>1, <3>2, <3>3, MapAssumption DEF Contents, Valid, IInv, TypeOK
      <3>5. OwnCalls' = [OwnCalls EXCEPT ![k] = "put"]
        BY <2>1 DEF Put, OwnCalls, IInv, TypeOK
      <3>6. QED
        BY <3>1, <3>4, <3>5 DEF Abstract!Put, e
    <2>2. ASSUME NEW k \in PrivateKeys, Remove(k) PROVE Abstract!Remove(k)
      <3>1. polled = NoKey /\ polled' = NoKey /\ now' = now
        BY <2>2 DEF IInv, TypeOK, Remove
      <3>2. OwnCalls' = [OwnCalls EXCEPT ![k] = "remove"]
        BY <2>2 DEF Remove, OwnCalls, IInv, TypeOK
      <3>3. Contents' = [Contents EXCEPT ![k] = NoEntry]
        BY <2>2, <3>1, MapAssumption DEF Remove, Contents, Valid, IInv, TypeOK
      <3>4. QED
        BY <3>1, <3>2, <3>3 DEF Abstract!Remove
    <2>0. ASSUME NEW k \in SharedKeys, Remove(k) \/ \E v \in Values : Put(k, v)
          PROVE  UNCHANGED Abstract!vars
      <3>1. polled' = polled /\ removed' = removed /\ now' = now
        BY <2>0 DEF Put, Remove
      <3>2. \A j \in PrivateKeys : map'[j] = map[j]
        BY <2>0 DEF Put, Remove, IInv, TypeOK
      <3>3. \A j \in PrivateKeys : Contents'[j] = Contents[j]
        BY <3>1, <3>2 DEF Contents, Valid
      <3>4. \A j \in PrivateKeys : lastCall'[j] = lastCall[j]
        BY <2>0 DEF Put, Remove, IInv, TypeOK
      <3>5. OwnCalls' = OwnCalls
        BY <3>4 DEF OwnCalls
      <3>6. QED
        BY <3>1, <3>3, <3>5, SameContents DEF Abstract!vars
    <2>3. CASE Clear
      <3>1. polled = NoKey /\ polled' = NoKey /\ now' = now
        BY <2>3 DEF IInv, TypeOK, Clear
      <3>2. Contents' = [k \in PrivateKeys |-> NoEntry]
        BY <2>3, <3>1, MapAssumption DEF Clear, Contents, Valid
      <3>3. OwnCalls' = [k \in PrivateKeys |-> "remove"]
        BY <2>3 DEF Clear, OwnCalls
      <3>4. QED
        BY <3>1, <3>2, <3>3 DEF Abstract!Next, Abstract!Clear
    <2>4. CASE PollExpired
      <3>1. polled = NoKey /\ now' = now
        BY <2>4 DEF IInv, TypeOK, PollExpired
      <3>2. \A k \in PrivateKeys : Contents'[k] = Contents[k]
        BY <2>4, <3>1, MapAssumption DEF PollExpired, Contents, Valid, IInv, TypeOK
      <3>3. OwnCalls' = OwnCalls
        BY <2>4 DEF PollExpired, OwnCalls
      <3>4. QED
        BY <3>1, <3>2, <3>3, SameContents DEF Abstract!vars
    <2>5. CASE Reput
      <3>1. polled' = NoKey /\ now' = now /\ polled \in Keys /\ map[polled] = NoEntry
        BY <2>5 DEF IInv, TypeOK, OutOfMap, Reput
      <3>2. \A k \in PrivateKeys : Contents'[k] = Contents[k]
        BY <2>5, <3>1, MapAssumption DEF Reput, Contents, Valid, IInv, TypeOK
      <3>3. OwnCalls' = OwnCalls
        BY <2>5 DEF Reput, OwnCalls
      <3>4. QED
        BY <3>1, <3>2, <3>3, SameContents DEF Abstract!vars
    <2>6. CASE StartUpdate \/ UpdateEnds \/ UNCHANGED vars
      BY <2>6 DEF StartUpdate, UpdateEnds, vars, Contents, OwnCalls, Valid, Abstract!vars
    <2>7. CASE ClockMoves
      <3>1. now \in Int /\ now' \in Int /\ now' >= now
        BY TimeAdvances DEF IInv
      <3>2. map' = map /\ removed' = removed /\ polled' = polled
        BY <2>7 DEF ClockMoves
      <3>3. \A k \in Keys : map[k] # NoEntry => map[k].expires \in Int
        BY DEF IInv, TypeOK, Entry
      <3>4. removed # NoEntry => removed.expires \in Int
        BY DEF IInv, TypeOK, Entry
      <3> DEFINE e(k) == IF polled = k THEN removed ELSE map[k]
      <3>5. \A k \in Keys : e(k) # NoEntry => e(k).expires \in Int
        BY <3>3, <3>4
      <3>6. /\ Contents = [k \in PrivateKeys |-> IF e(k) # NoEntry /\ now < e(k).expires
                                         THEN e(k) ELSE NoEntry]
            /\ Contents' = [k \in PrivateKeys |-> IF e(k) # NoEntry /\ now' < e(k).expires
                                          THEN e(k) ELSE NoEntry]
        BY <3>2 DEF Contents, Valid
      <3> HIDE DEF e
      <3>7. Contents' = [k \in PrivateKeys |->
                            IF Contents[k] # NoEntry /\ now' < Contents[k].expires
                            THEN Contents[k] ELSE NoEntry]
        BY <3>1, <3>5, <3>6
      <3>8. OwnCalls' = OwnCalls
        BY <2>7 DEF ClockMoves, OwnCalls
      <3>9. QED
        BY <3>1, <3>7, <3>8 DEF Abstract!Next, Abstract!TimePasses
    <2>8. ASSUME NEW k \in Keys, Remove(k) \/ \E v \in Values : Put(k, v)
          PROVE  Abstract!Next \/ UNCHANGED Abstract!vars
      <3>1. CASE k \in SharedKeys
        BY <2>8, <3>1, <2>0
      <3>2. CASE k \in PrivateKeys
        BY <2>8, <3>2, <2>1, <2>2 DEF Abstract!Next
      <3>3. QED
        BY <3>1, <3>2
    <2>9. QED
      BY <2>3, <2>4, <2>5, <2>6, <2>7, <2>8 DEF Next
  <1>3. QED
    BY <1>1, <1>2, Invariance, PTL DEF Spec, Abstract!Spec, ImplementsExpiringMap
=============================================================================
