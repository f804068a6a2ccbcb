---- MODULE RingWakeProofs ----
(***************************************************************************)
(* Proofs about waiting for a channel, for any number of subscribers of    *)
(* both kinds and any width of the two words.                              *)
(***************************************************************************)
EXTENDS RingWake, FiniteSetTheorems, TLAPS

(***************************************************************************)
(* Arithmetic of words that wrap.                                          *)
(***************************************************************************)
LEMMA Division ==
    ASSUME NEW a \in Int
    PROVE  /\ a \div WordMod \in Int
           /\ a % WordMod \in 0..WordMod - 1
           /\ a = (WordMod * (a \div WordMod)) + (a % WordMod)
  BY WakeAssumption

LEMMA NoSmallMultiple ==
    ASSUME NEW d \in Int, WordMod * d < WordMod
    PROVE  WordMod * d <= 0
<1> SUFFICES ASSUME d > 0 PROVE FALSE
  BY WakeAssumption
<1>1. WordMod * (d - 1) >= 0
  <2>1. d - 1 >= 0
    OBVIOUS
  <2> QED
    BY <2>1, WakeAssumption
<1>2. WordMod * d = WordMod * (d - 1) + WordMod
  BY WakeAssumption
<1> QED
  BY <1>1, <1>2, WakeAssumption

\* A word holds what was added to it and to its overflow.
LEMMA WordSum ==
    ASSUME NEW a \in Int, NEW k \in Int
    PROVE  ((a % WordMod) + k) % WordMod = (a + k) % WordMod
<1> DEFINE r == a % WordMod
           x == (r + k) % WordMod
           y == (a + k) % WordMod
           p == a \div WordMod
           s == (r + k) \div WordMod
           t == (a + k) \div WordMod
<1>1. p \in Int /\ r \in 0..WordMod - 1 /\ a = (WordMod * p) + r
  BY Division
<1>2. r \in Int
  BY <1>1
<1> HIDE DEF r
<1>3. s \in Int /\ x \in 0..WordMod - 1 /\ r + k = (WordMod * s) + x
  BY <1>2, Division
<1>4. t \in Int /\ y \in 0..WordMod - 1 /\ a + k = (WordMod * t) + y
  BY Division
<1> HIDE DEF x, y, p, s, t
<1>5. y - x = WordMod * (p + s - t)
  <2>1. WordMod * (p + s - t) = (WordMod * p) + (WordMod * s) - (WordMod * t)
    BY <1>1, <1>3, <1>4, WakeAssumption
  <2> QED
    BY <1>1, <1>2, <1>3, <1>4, <2>1, WakeAssumption
<1>6. x - y = WordMod * (t - p - s)
  <2>1. WordMod * (t - p - s) = (WordMod * t) - (WordMod * p) - (WordMod * s)
    BY <1>1, <1>3, <1>4, WakeAssumption
  <2> QED
    BY <1>1, <1>2, <1>3, <1>4, <2>1, WakeAssumption
<1>7. y - x <= 0
  <2>1. p + s - t \in Int /\ WordMod * (p + s - t) < WordMod
    BY <1>1, <1>3, <1>4, <1>5, WakeAssumption
  <2> QED
    BY <1>5, <2>1, NoSmallMultiple
<1>8. x - y <= 0
  <2>1. t - p - s \in Int /\ WordMod * (t - p - s) < WordMod
    BY <1>1, <1>3, <1>4, <1>6, WakeAssumption
  <2> QED
    BY <1>6, <2>1, NoSmallMultiple
<1>9. x = y
  BY <1>3, <1>4, <1>7, <1>8, WakeAssumption
<1> QED
  BY <1>9 DEF x, y, r

(***************************************************************************)
(* Type correctness.                                                       *)
(***************************************************************************)
LEMMA WordRange == ASSUME NEW a \in Int PROVE a % WordMod \in 0..WordMod - 1
  BY Division

LEMMA InitType == Init => TypeOK
  BY WakeAssumption DEF Init, TypeOK

LEMMA ProducerType ==
    ASSUME TypeOK, BeginPublish \/ Publish \/ Stop \/ Create
    PROVE  TypeOK'
<1> USE DEF TypeOK, header, readerVars
<1>1. CASE BeginPublish
  BY <1>1 DEF BeginPublish
<1>2. CASE StoreProducerSeq
  BY <1>2 DEF StoreProducerSeq
<1>3. CASE BumpWakeSeq
  <2>1. (wakeSeq + 1) % WordMod \in 0..WordMod - 1
    BY WordRange, WakeAssumption
  <2> QED
    BY <1>3, <2>1 DEF BumpWakeSeq
<1>4. CASE CheckWaiters
  BY <1>4 DEF CheckWaiters
<1>5. CASE FutexWakeAll
  BY <1>5 DEF FutexWakeAll
<1>6. CASE ResetWakeSeq
  BY <1>6, WakeAssumption DEF ResetWakeSeq
<1>7. CASE ResetWaiterCount
  BY <1>7, WakeAssumption DEF ResetWaiterCount
<1>8. CASE Stop
  BY <1>8 DEF Stop
<1>9. CASE Create
  BY <1>9, WakeAssumption DEF Create
<1> QED
  BY <1>1, <1>2, <1>3, <1>4, <1>5, <1>6, <1>7, <1>8, <1>9 DEF Publish

LEMMA ReaderType ==
    ASSUME TypeOK, NEW r \in Readers, Poll(r) \/ Die(r)
    PROVE  TypeOK'
<1> USE DEF TypeOK, header, Goto
<1>1. CASE Receive(r)
  <2>1. lastSeen' \in [Readers -> Int]
    BY <1>1, WakeAssumption DEF Receive, Oldest
  <2> QED
    BY <1>1, <2>1 DEF Receive
<1>2. CASE NoFrame(r)
  <2>1. lastSeen' \in [Readers -> Int]
    BY <1>2, WakeAssumption DEF NoFrame, Oldest
  <2> QED
    BY <1>2, <2>1 DEF NoFrame
<1>3. CASE Register(r)
  <2>1. (waiterCount + 1) % WordMod \in 0..WordMod - 1
    BY WordRange, WakeAssumption
  <2> QED
    BY <1>3, <2>1 DEF Register
<1>4. CASE Snapshot(r)
  BY <1>4 DEF Snapshot
<1>5. CASE FutexWait(r)
  BY <1>5 DEF FutexWait
<1>6. CASE Timeout(r)
  BY <1>6 DEF Timeout
<1>7. CASE Leave(r)
  <2>1. (waiterCount - 1) % WordMod \in 0..WordMod - 1
    BY WordRange, WakeAssumption
  <2> QED
    BY <1>7, <2>1 DEF Leave
<1>8. CASE Die(r)
  BY <1>8 DEF Die
<1> QED
  BY <1>1, <1>2, <1>3, <1>4, <1>5, <1>6, <1>7, <1>8 DEF Poll

LEMMA NextType == TypeOK /\ [Next]_vars => TypeOK'
<1> SUFFICES ASSUME TypeOK, [Next]_vars PROVE TypeOK'
  OBVIOUS
<1>1. CASE UNCHANGED vars
  BY <1>1 DEF TypeOK, vars, header, readerVars
<1>2. CASE Next
  BY <1>2, ProducerType, ReaderType DEF Next
<1> QED
  BY <1>1, <1>2

\* Every variable of the wait keeps its type: both words stay below WordMod,
\* however often they are bumped, raised, lowered and reset.
THEOREM TypeCorrect == Spec => []TypeOK
<1>1. Init => TypeOK
  BY InitType
<1>2. TypeOK /\ [Next]_vars => TypeOK'
  BY NextType
<1> QED
  BY <1>1, <1>2, PTL DEF Spec

(***************************************************************************)
(* The count of the waiters.                                               *)
(***************************************************************************)
Counted == {r \in Readers : Registered(r)} \cup leaked

\* The count is exact because those who died in the wait stay dead, and because
\* the words are reset by a restart only.
CountInv == /\ TypeOK
            /\ CountIsExact
            /\ \A r \in leaked : rpc[r] = "dead"
            /\ wpc \in {"resetWake", "resetCount"} => epoch > 1

LEMMA CountedFinite ==
    ASSUME TypeOK
    PROVE  IsFiniteSet(Counted) /\ Cardinality(Counted) \in Nat
<1>1. Counted \subseteq Readers
  BY DEF Counted, TypeOK
<1>2. IsFiniteSet(Counted)
  BY <1>1, FS_Subset, WakeAssumption
<1> QED
  BY <1>2, FS_CardinalityType

LEMMA InitCount == Init => CountInv
<1> SUFFICES ASSUME Init PROVE CountInv
  OBVIOUS
<1>1. {r \in Readers : Registered(r)} \cup leaked = {}
  BY DEF Init, Registered
<1>2. 0 % WordMod = 0
  BY WakeAssumption
<1>3. CountIsExact
  BY <1>1, <1>2, FS_EmptySet DEF Init, CountIsExact
<1> QED
  BY <1>3, InitType DEF Init, CountInv

\* A step that moves nobody in or out of the count and leaves the word alone.
LEMMA CountKept ==
    ASSUME CountInv, waiterCount' = waiterCount, epoch' = epoch,
           Counted' = Counted
    PROVE  CountIsExact'
  BY DEF CountInv, CountIsExact, Counted

LEMMA ProducerCount ==
    ASSUME CountInv, BeginPublish \/ Publish \/ Stop \/ Create
    PROVE  CountInv'
<1>1. TypeOK /\ TypeOK'
  BY ProducerType DEF CountInv
<1>2. CASE /\ UNCHANGED <<waiterCount, epoch, rpc, leaked>>
           /\ wpc' \in {"resetWake", "resetCount"} => epoch > 1
  <2>1. Counted' = Counted
    BY <1>2 DEF Counted, Registered
  <2>2. CountIsExact'
    BY <1>2, <2>1, CountKept
  <2> QED
    BY <1>1, <1>2, <2>2 DEF CountInv
<1>3. CASE BeginPublish
  BY <1>2, <1>3 DEF BeginPublish, header, readerVars
<1>4. CASE StoreProducerSeq
  BY <1>2, <1>4 DEF StoreProducerSeq, readerVars
<1>5. CASE BumpWakeSeq
  BY <1>2, <1>5 DEF BumpWakeSeq, readerVars
<1>6. CASE CheckWaiters
  BY <1>2, <1>6 DEF CheckWaiters, header, readerVars
<1>7. CASE FutexWakeAll
  <2>1. \A r \in Readers : Registered(r)' <=> Registered(r)
    BY <1>1, <1>7 DEF FutexWakeAll, Registered, TypeOK
  <2>2. Counted' = Counted
    BY <1>7, <2>1 DEF FutexWakeAll, Counted
  <2>3. CountIsExact'
    BY <1>7, <2>2, CountKept DEF FutexWakeAll, header
  <2>4. \A r \in leaked : rpc'[r] = "dead"
    BY <1>1, <1>7 DEF FutexWakeAll, CountInv, TypeOK
  <2> QED
    BY <1>1, <1>7, <2>3, <2>4 DEF FutexWakeAll, CountInv
<1>8. CASE ResetWakeSeq
  BY <1>2, <1>8 DEF ResetWakeSeq, readerVars, CountInv
<1>9. CASE ResetWaiterCount
  <2>1. epoch' > 1
    BY <1>9 DEF ResetWaiterCount, CountInv
  <2>2. CountIsExact'
    BY <2>1, <1>1 DEF CountIsExact, TypeOK
  <2> QED
    BY <1>1, <1>9, <2>2 DEF ResetWaiterCount, CountInv, readerVars
<1>10. CASE Stop
  BY <1>2, <1>10 DEF Stop, header, readerVars
<1>11. CASE Create
  <2>1. epoch' > 1
    BY <1>1, <1>11 DEF Create, TypeOK
  <2>2. CountIsExact'
    BY <1>1, <2>1 DEF CountIsExact, TypeOK
  <2> QED
    BY <1>1, <1>11, <2>1, <2>2 DEF Create, CountInv, readerVars
<1> QED
  BY <1>3, <1>4, <1>5, <1>6, <1>7, <1>8, <1>9, <1>10, <1>11 DEF Publish

LEMMA ReaderCount ==
    ASSUME CountInv, NEW r \in Readers, Poll(r) \/ Die(r)
    PROVE  CountInv'
<1>1. TypeOK /\ TypeOK'
  BY ReaderType DEF CountInv
<1>2. epoch' = epoch /\ wpc' = wpc
  BY DEF Poll, Receive, NoFrame, Register, Snapshot, FutexWait, Timeout,
         Leave, Die, header
<1>3. \A q \in Readers \ {r} : rpc'[q] = rpc[q]
  BY <1>1 DEF Poll, Receive, NoFrame, Register, Snapshot, FutexWait, Timeout,
              Leave, Die, Goto, TypeOK
<1>4. \A q \in leaked' : rpc'[q] = "dead"
  BY <1>1 DEF Poll, Receive, NoFrame, Register, Snapshot, FutexWait, Timeout,
              Leave, Die, Goto, TypeOK, CountInv
<1>5. \A q \in Readers \ {r} : Registered(q)' <=> Registered(q)
  BY <1>3 DEF Registered
<1>6. SUFFICES CountIsExact'
  BY <1>1, <1>2, <1>4 DEF CountInv
<1>7. CASE /\ UNCHANGED <<waiterCount, leaked>>
           /\ Registered(r)' <=> Registered(r)
  <2>1. Counted' = Counted
    BY <1>5, <1>7 DEF Counted
  <2> QED
    BY <1>2, <1>7, <2>1, CountKept
<1>8. CASE Receive(r)
  BY <1>7, <1>8 DEF Receive, Registered, header
<1>9. CASE NoFrame(r)
  <2>1. ~Registered(r)
    BY <1>9 DEF NoFrame, Registered
  <2>2. ~Registered(r)'
    BY <1>1, <1>9 DEF NoFrame, Goto, Registered, TypeOK, Readers
  <2> QED
    BY <1>7, <1>9, <2>1, <2>2 DEF NoFrame, header
<1>10. CASE Register(r)
  <2>1. ~Registered(r) /\ r \notin leaked
    BY <1>10 DEF Register, Registered, CountInv
  <2>2. Registered(r)'
    BY <1>1, <1>10 DEF Register, Goto, Registered, TypeOK
  <2>3. Counted' = Counted \cup {r} /\ r \notin Counted
    BY <1>5, <1>10, <2>1, <2>2 DEF Counted, Register
  <2>4. Cardinality(Counted') = Cardinality(Counted) + 1
    BY <1>1, <2>3, CountedFinite, FS_AddElement
  <2>5. Cardinality(Counted) \in Int
    BY <1>1, CountedFinite
  <2>6. ASSUME epoch = 1
        PROVE  waiterCount' = (Cardinality(Counted) + 1) % WordMod
    <3>1. waiterCount = Cardinality(Counted) % WordMod
      BY <2>6 DEF CountInv, CountIsExact, Counted
    <3> QED
      BY <1>10, <2>5, <3>1, WordSum DEF Register
  <2> QED
    BY <1>2, <2>4, <2>6 DEF CountIsExact, Counted
<1>11. CASE Snapshot(r)
  <2>1. Registered(r)' <=> Registered(r)
    BY <1>1, <1>11, WakeAssumption DEF Snapshot, Goto, Registered, TypeOK, Readers
  <2> QED
    BY <1>7, <1>11, <2>1 DEF Snapshot, header
<1>12. CASE FutexWait(r)
  <2>1. Registered(r)' <=> Registered(r)
    BY <1>1, <1>12 DEF FutexWait, Goto, Registered, TypeOK
  <2> QED
    BY <1>7, <1>12, <2>1 DEF FutexWait, header
<1>13. CASE Timeout(r)
  <2>1. Registered(r)' <=> Registered(r)
    BY <1>1, <1>13 DEF Timeout, Goto, Registered, TypeOK
  <2> QED
    BY <1>7, <1>13, <2>1 DEF Timeout, header
<1>14. CASE Leave(r)
  <2>1. Registered(r) /\ r \notin leaked
    BY <1>14 DEF Leave, Registered, CountInv
  <2>2. ~Registered(r)'
    BY <1>1, <1>14 DEF Leave, Goto, Registered, TypeOK
  <2>3. Counted' = Counted \ {r} /\ r \in Counted
    BY <1>5, <1>14, <2>1, <2>2 DEF Counted, Leave
  <2>4. Cardinality(Counted') = Cardinality(Counted) - 1
    BY <1>1, <2>3, CountedFinite, FS_RemoveElement
  <2>5. Cardinality(Counted) \in Int
    BY <1>1, CountedFinite
  <2>6. ASSUME epoch = 1
        PROVE  waiterCount' = (Cardinality(Counted) - 1) % WordMod
    <3>1. waiterCount = Cardinality(Counted) % WordMod
      BY <2>6 DEF CountInv, CountIsExact, Counted
    <3>2. waiterCount' = ((Cardinality(Counted) % WordMod) + (-1)) % WordMod
      <4>1. waiterCount - 1 = waiterCount + (-1)
        BY <1>1 DEF TypeOK
      <4> QED
        BY <1>14, <3>1, <4>1 DEF Leave
    <3>3. waiterCount' = (Cardinality(Counted) + (-1)) % WordMod
      BY <2>5, <3>2, WordSum
    <3> QED
      BY <2>5, <3>3
  <2> QED
    BY <1>2, <2>4, <2>6 DEF CountIsExact, Counted
<1>15. CASE Die(r)
  <2>1. ~Registered(r)'
    BY <1>1, <1>15 DEF Die, Goto, Registered, TypeOK
  <2>2. leaked' = IF Registered(r) THEN leaked \cup {r} ELSE leaked
    BY <1>15 DEF Die
  <2>3. Counted' = Counted
    BY <1>5, <2>1, <2>2 DEF Counted
  <2> QED
    BY <1>2, <1>15, <2>3, CountKept DEF Die, header
<1> QED
  BY <1>8, <1>9, <1>10, <1>11, <1>12, <1>13, <1>14, <1>15 DEF Poll

LEMMA NextCount == CountInv /\ [Next]_vars => CountInv'
<1> SUFFICES ASSUME CountInv, [Next]_vars PROVE CountInv'
  OBVIOUS
<1>1. CASE UNCHANGED vars
  <2>1. TypeOK'
    BY <1>1, NextType DEF CountInv
  <2>2. Counted' = Counted
    BY <1>1 DEF vars, readerVars, Counted, Registered
  <2>3. CountIsExact'
    BY <1>1, <2>2, CountKept DEF vars, header
  <2> QED
    BY <1>1, <2>1, <2>3 DEF CountInv, vars, readerVars
<1>2. CASE Next
  BY <1>2, ProducerCount, ReaderCount DEF Next
<1> QED
  BY <1>1, <1>2

\* The producer may trust waiter_count: until a restart resets it, the word is
\* the number of subscribers between their increment and their decrement, with
\* those a signal killed there, for any number of them (raccoon_ring.c:343-348).
THEOREM CountIsExactHolds == Spec => []CountIsExact
<1>1. Init => CountInv
  BY InitCount
<1>2. CountInv /\ [Next]_vars => CountInv'
  BY NextCount
<1>3. CountInv => CountIsExact
  BY DEF CountInv
<1> QED
  BY <1>1, <1>2, <1>3, PTL DEF Spec

(***************************************************************************)
(* The wake.                                                               *)
(***************************************************************************)
\* There are fewer subscribers than a 32-bit count can hold.
Few == Cardinality(Readers) < WordMod

LEMMA SleeperCounted ==
    ASSUME Few, CountInv, epoch = 1, NEW r \in Readers, rpc[r] = "asleep"
    PROVE  waiterCount > 0
<1>1. r \in Counted /\ Counted \subseteq Readers
  BY DEF Counted, Registered, CountInv, TypeOK
<1>2. Cardinality({r}) = 1 /\ Cardinality({r}) <= Cardinality(Counted)
  BY <1>1, CountedFinite, FS_Singleton, FS_Subset DEF CountInv
<1>3. Cardinality(Counted) <= Cardinality(Readers)
  BY <1>1, FS_Subset, WakeAssumption
<1>4. Cardinality(Counted) \in Nat /\ Cardinality(Readers) \in Nat
  BY CountedFinite, FS_CardinalityType, WakeAssumption DEF CountInv
<1> DEFINE n == Cardinality(Counted)
<1>5. n \in 1..WordMod - 1
  BY <1>2, <1>3, <1>4, WakeAssumption DEF Few
<1>6. waiterCount = n % WordMod
  BY DEF CountInv, CountIsExact, Counted
<1> HIDE DEF n
<1>7. n % WordMod = n
  BY <1>5, WakeAssumption
<1> QED
  BY <1>5, <1>6, <1>7

LEMMA NextWoken ==
    ASSUME Few, CountInv, SleeperIsWoken, [Next]_vars
    PROVE  SleeperIsWoken'
<1>1. TypeOK
  BY DEF CountInv
<1> SUFFICES ASSUME NEW r \in Readers,
                    epoch' = 1, rpc'[r] = "asleep", wakeSeq' # expected'[r]
             PROVE  wpc' \in {"check", "wake", "dead"}
  BY DEF SleeperIsWoken
<1>2. CASE /\ UNCHANGED <<epoch, rpc, wakeSeq, expected>>
           /\ wpc' # wpc => wpc' = "dead"
  BY <1>2 DEF SleeperIsWoken
<1>3. CASE BeginPublish
  BY <1>3 DEF BeginPublish, SleeperIsWoken, header, readerVars
<1>4. CASE StoreProducerSeq
  BY <1>4 DEF StoreProducerSeq, SleeperIsWoken, readerVars
<1>5. CASE BumpWakeSeq
  BY <1>5 DEF BumpWakeSeq
<1>6. CASE CheckWaiters
  <2>1. waiterCount > 0
    BY <1>6, SleeperCounted DEF CheckWaiters, header, readerVars
  <2> QED
    BY <1>6, <2>1 DEF CheckWaiters
<1>7. CASE FutexWakeAll
  BY <1>7 DEF FutexWakeAll
<1>8. CASE ResetWakeSeq
  BY <1>8 DEF ResetWakeSeq, CountInv
<1>9. CASE ResetWaiterCount
  BY <1>9 DEF ResetWaiterCount, CountInv
<1>10. CASE Stop
  BY <1>10 DEF Stop
<1>11. CASE Create
  BY <1>1, <1>11 DEF Create, TypeOK
<1>12. ASSUME NEW q \in Readers, Poll(q) \/ Die(q)
       PROVE  wpc' \in {"check", "wake", "dead"}
  <2>1. epoch = 1 /\ wakeSeq' = wakeSeq /\ wpc' = wpc
    BY <1>12 DEF Poll, Receive, NoFrame, Register, Snapshot, FutexWait,
                 Timeout, Leave, Die, header
  <2>2. rpc[r] = "asleep" /\ expected'[r] = expected[r]
    <3>1. CASE FutexWait(q)
      BY <1>1, <3>1 DEF FutexWait, Goto, TypeOK, header
    <3>2. CASE ~FutexWait(q)
      BY <1>1, <1>12, <3>2 DEF Poll, Receive, NoFrame, Register, Snapshot,
                               Timeout, Leave, Die, Goto, TypeOK, header
    <3> QED
      BY <3>1, <3>2
  <2> QED
    BY <2>1, <2>2 DEF SleeperIsWoken
<1>13. CASE UNCHANGED vars
  BY <1>2, <1>13 DEF vars, header, readerVars
<1> QED
  BY <1>3, <1>4, <1>5, <1>6, <1>7, <1>8, <1>9, <1>10, <1>11, <1>12, <1>13
     DEF Next, Publish

\* The handshake between the two words loses no wake-up of a subscriber that
\* sleeps: until a restart resets the words, a publish that returns leaves nobody
\* asleep on an older wake_seq (raccoon_ring.c:333-348), whatever the number of
\* subscribers, as long as waiter_count can count them.
THEOREM SleeperIsWokenHolds == ASSUME Few PROVE Spec => []SleeperIsWoken
<1>1. Init => CountInv /\ SleeperIsWoken
  BY InitCount DEF Init, SleeperIsWoken
<1>2. CountInv /\ SleeperIsWoken /\ [Next]_vars => (CountInv /\ SleeperIsWoken)'
  BY NextCount, NextWoken
<1> QED
  BY <1>1, <1>2, PTL DEF Spec
====
