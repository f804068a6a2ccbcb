---- MODULE RingProofs ----
(***************************************************************************)
(* Proofs about one channel, for any number of readers, slots, words and   *)
(* frames.                                                                 *)
(***************************************************************************)
EXTENDS RingProperties, TLAPS

(***************************************************************************)
(* Arithmetic of slot numbers.                                             *)
(***************************************************************************)
LEMMA Division ==
    ASSUME NEW a \in Int
    PROVE  /\ a \div SlotCount \in Int
           /\ a % SlotCount \in 0..SlotCount - 1
           /\ a = (SlotCount * (a \div SlotCount)) + (a % SlotCount)
  BY RingAssumption

LEMMA PositiveMultiple ==
    ASSUME NEW d \in Int, SlotCount * d > 0
    PROVE  SlotCount * d >= SlotCount
<1>1. d - 1 >= 0
  BY RingAssumption
<1>2. SlotCount * (d - 1) >= 0
  BY <1>1, RingAssumption
<1>3. SlotCount * d = SlotCount * (d - 1) + SlotCount
  BY RingAssumption
<1> QED
  BY <1>2, <1>3, RingAssumption

LEMMA SlotOfRange == ASSUME NEW n \in Int PROVE SlotOf(n) \in 0..SlotCount - 1
  BY Division DEF SlotOf

\* Two frames of one slot are a whole round of the ring apart.
LEMMA SlotGap ==
    ASSUME NEW a \in Int, NEW b \in Int, SlotOf(a) = SlotOf(b), a > b
    PROVE  a >= b + SlotCount
<1> DEFINE p == (a - 1) \div SlotCount
           q == (b - 1) \div SlotCount
           k == (a - 1) % SlotCount
<1>1. /\ p \in Int /\ q \in Int /\ k \in Int
      /\ a - 1 = (SlotCount * p) + k
      /\ b - 1 = (SlotCount * q) + k
  BY Division DEF SlotOf
<1> HIDE DEF p, q, k
<1>2. a - b = (SlotCount * p) - (SlotCount * q)
  BY <1>1, RingAssumption
<1>3. (SlotCount * p) - (SlotCount * q) = SlotCount * (p - q)
  BY <1>1, RingAssumption
<1>4. SlotCount * (p - q) >= SlotCount
  BY <1>1, <1>2, <1>3, PositiveMultiple, RingAssumption
<1> QED
  BY <1>2, <1>3, <1>4, RingAssumption

\* A slot is used again after slot_count frames.
LEMMA NextRound ==
    ASSUME NEW a \in Int
    PROVE  (a + SlotCount) % SlotCount = a % SlotCount
<1> DEFINE m == (a + SlotCount) % SlotCount
           k == a % SlotCount
           p == (a + SlotCount) \div SlotCount
           q == a \div SlotCount
<1>1. /\ p \in Int /\ q \in Int
      /\ m \in 0..SlotCount - 1 /\ k \in 0..SlotCount - 1
      /\ a + SlotCount = (SlotCount * p) + m
      /\ a = (SlotCount * q) + k
  <2>1. a + SlotCount \in Int
    BY RingAssumption
  <2>2. /\ q \in Int /\ k \in 0..SlotCount - 1
        /\ a = (SlotCount * q) + k
    BY Division
  <2> HIDE DEF q, k
  <2>3. /\ p \in Int /\ m \in 0..SlotCount - 1
        /\ a + SlotCount = (SlotCount * p) + m
    BY <2>1, Division
  <2> QED
    BY <2>2, <2>3
<1> HIDE DEF m, k, p, q
<1>2. m - k = SlotCount * (q + 1 - p)
  <2>1. SlotCount * (q + 1 - p) = (SlotCount * q) + SlotCount - (SlotCount * p)
    BY <1>1, RingAssumption
  <2> QED
    BY <1>1, <2>1, RingAssumption
<1>3. k - m = SlotCount * (p - q - 1)
  <2>1. SlotCount * (p - q - 1) = (SlotCount * p) - (SlotCount * q) - SlotCount
    BY <1>1, RingAssumption
  <2> QED
    BY <1>1, <2>1, RingAssumption
<1>4. ~(m - k > 0)
  <2> SUFFICES ASSUME m - k > 0 PROVE FALSE
    OBVIOUS
  <2>1. m - k >= SlotCount
    BY <1>1, <1>2, PositiveMultiple, RingAssumption
  <2> QED
    BY <1>1, <2>1, RingAssumption
<1>5. ~(k - m > 0)
  <2> SUFFICES ASSUME k - m > 0 PROVE FALSE
    OBVIOUS
  <2>1. k - m >= SlotCount
    BY <1>1, <1>3, PositiveMultiple, RingAssumption
  <2> QED
    BY <1>1, <2>1, RingAssumption
<1>6. m = k
  BY <1>1, <1>4, <1>5, RingAssumption
<1> QED
  BY <1>6 DEF m, k

LEMMA SlotReuse == ASSUME NEW n \in Int PROVE SlotOf(n + SlotCount) = SlotOf(n)
<1>1. ((n - 1) + SlotCount) % SlotCount = (n - 1) % SlotCount
  <2>1. n - 1 \in Int
    OBVIOUS
  <2> QED
    BY <2>1, NextRound
<1>2. (n + SlotCount) - 1 = (n - 1) + SlotCount
  BY RingAssumption
<1> QED
  BY <1>1, <1>2 DEF SlotOf

(***************************************************************************)
(* Type correctness.                                                       *)
(***************************************************************************)
LEMMA BlankTypes == /\ Blank \in Frames
                    /\ Body(Blank) \in Bodies
                    /\ EmptySlot \in Slots
  BY DEF Blank, Frame, Frames, Body, Bodies, EmptySlot, Slots

\* What a step of the producer leaves alone.
ReaderTypeOK ==
    /\ rpc \in [Readers -> {"load", "reload", "seqBefore", "copy"}]
    /\ lastSeen \in [Readers -> Nat]
    /\ rnext \in [Readers -> Nat]
    /\ attempt \in [Readers -> 1..Attempts]
    /\ retry \in [Readers -> 1..Retries]
    /\ rleft \in [Readers -> SUBSET SlotAccesses]
    /\ seqAfter \in [Readers -> Nat]
    /\ buf \in [Readers -> Bodies]

HistoryTypeOK ==
    /\ got \in [Readers -> Slots]
    /\ owed \in [Readers -> Nat]

ProducerTypeOK ==
    /\ slot \in [0..SlotCount - 1 -> Slots]
    /\ producerSeq \in Nat
    /\ epoch \in 1..MaxEpoch
    /\ wpc \in {"idle", "store", "count", "dead", "zero"}
    /\ wnext \in Nat
    /\ wleft \in SUBSET SlotAccesses

LEMMA TypeOKSplit == TypeOK <=> ProducerTypeOK /\ ReaderTypeOK /\ HistoryTypeOK
  BY DEF TypeOK, ProducerTypeOK, ReaderTypeOK, HistoryTypeOK

LEMMA ReturnType ==
    ASSUME ReaderTypeOK, NEW r \in Readers, NEW n \in Nat, Return(r, n)
    PROVE  ReaderTypeOK'
  BY BlankTypes, RingAssumption DEF ReaderTypeOK, Return

LEMMA NextAttemptType ==
    ASSUME ReaderTypeOK, NEW r \in Readers, NEW n \in Nat, NextAttempt(r, n)
    PROVE  ReaderTypeOK'
<1>1. CASE Return(r, n)
  BY <1>1, ReturnType
<1>2. CASE ~Return(r, n)
  BY <1>2, BlankTypes, RingAssumption DEF ReaderTypeOK, NextAttempt
<1> QED
  BY <1>1, <1>2

LEMMA PickFrameType ==
    ASSUME ReaderTypeOK, NEW r \in Readers, NEW p \in Nat, PickFrame(r, p)
    PROVE  ReaderTypeOK'
<1>1. CASE Return(r, 0)
  BY <1>1, ReturnType
<1>2. CASE LookFor(r, Rewound(r, p), NextFrame(p, Rewound(r, p)))
  <2>1. Rewound(r, p) \in Nat
    BY DEF Rewound, ReaderTypeOK
  <2>2. NextFrame(p, Rewound(r, p)) \in Nat
    BY <2>1, RingAssumption DEF NextFrame
  <2> QED
    BY <1>2, <2>1, <2>2 DEF LookFor, ReaderTypeOK
<1> QED
  BY <1>1, <1>2 DEF PickFrame

LEMMA InitType == Init => TypeOK
  BY BlankTypes, RingAssumption DEF Init, TypeOK

LEMMA SlotType ==
    ASSUME TypeOK, NEW n \in Int
    PROVE  /\ slot[SlotOf(n)] \in Slots
           /\ slot[SlotOf(n)].seq \in Nat
           /\ slot[SlotOf(n)].data \in Bodies
  BY SlotOfRange DEF TypeOK, Slots

LEMMA StoreType ==
    ASSUME ProducerTypeOK, NEW k \in 0..SlotCount - 1
    PROVE  /\ \A n \in Nat : [slot EXCEPT ![k].seq = n]
                                \in [0..SlotCount - 1 -> Slots]
           /\ \A i \in 1..Words, f \in Frames :
                 [slot EXCEPT ![k].data[i] = f] \in [0..SlotCount - 1 -> Slots]
  BY DEF ProducerTypeOK, Slots, Bodies

LEMMA NextType == TypeOK /\ [Next]_vars => TypeOK'
<1> SUFFICES ASSUME TypeOK, [Next]_vars PROVE TypeOK'
  OBVIOUS
<1> USE DEF SlotAccesses
<1>0. ProducerTypeOK /\ ReaderTypeOK /\ HistoryTypeOK
  BY TypeOKSplit
<1>1. ASSUME UNCHANGED <<readerVars, history>>, ProducerTypeOK' PROVE TypeOK'
  BY <1>0, <1>1 DEF TypeOK, ReaderTypeOK, HistoryTypeOK, ProducerTypeOK,
                    readerVars, copyVars, history
<1>2. ASSUME UNCHANGED <<shared, writerVars, history>>, ReaderTypeOK'
      PROVE  TypeOK'
  BY <1>0, <1>2 DEF TypeOK, ReaderTypeOK, HistoryTypeOK, ProducerTypeOK,
                    shared, writerVars, history
<1>3. CASE BeginPublish
  BY <1>0, <1>1, <1>3 DEF BeginPublish, ProducerTypeOK, shared
<1>4. ASSUME NEW i \in SlotAccesses, StoreWord(i) PROVE TypeOK'
  <2>1. SlotOf(wnext) \in 0..SlotCount - 1
    BY <1>0, SlotOfRange, SMTT(30) DEF ProducerTypeOK
  <2>2. Frame(epoch, wnext) \in Frames
    BY <1>0, RingAssumption DEF ProducerTypeOK, Frame, Frames
  <2>3. slot' \in [0..SlotCount - 1 -> Slots]
    <3>1. CASE i = 0
      BY <1>0, <1>4, <2>1, <3>1, StoreType DEF StoreWord
    <3>2. CASE i # 0
      BY <1>0, <1>4, <2>1, <2>2, <3>2, StoreType, RingAssumption, SMTT(30) DEF StoreWord
    <3> QED
      BY <3>1, <3>2
  <2> QED
    BY <1>0, <1>1, <1>4, <2>3 DEF StoreWord, ProducerTypeOK
<1>5. CASE CommitSlot
  <2>1. SlotOf(wnext) \in 0..SlotCount - 1
    BY <1>0, SlotOfRange DEF ProducerTypeOK
  <2>2. slot' \in [0..SlotCount - 1 -> Slots]
    BY <1>0, <1>5, <2>1, StoreType DEF CommitSlot, ProducerTypeOK
  <2> QED
    BY <1>0, <1>1, <1>5, <2>2 DEF CommitSlot, ProducerTypeOK
<1>6. CASE StoreProducerSeq
  BY <1>0, <1>1, <1>6 DEF StoreProducerSeq, ProducerTypeOK
<1>7. CASE Stop
  BY <1>0, <1>1, <1>7 DEF Stop, ProducerTypeOK, shared
<1>8. CASE Create
  BY <1>0, <1>1, <1>8, RingAssumption DEF Create, ProducerTypeOK
<1>9. ASSUME NEW i \in {0, 1}, ZeroWord(i) PROVE TypeOK'
  <2>1. SlotOf(wnext) \in 0..SlotCount - 1
    BY <1>0, SlotOfRange DEF ProducerTypeOK
  <2>2. slot' \in [0..SlotCount - 1 -> Slots]
    <3>1. CASE i = 0
      BY <1>0, <1>9, <2>1, <3>1, StoreType DEF ZeroWord
    <3>2. CASE i # 0
      <4>1. i \in 1..Words
        BY <3>2, RingAssumption
      <4> QED
        BY <1>0, <1>9, <2>1, <3>2, <4>1, StoreType, BlankTypes DEF ZeroWord
    <3> QED
      BY <3>1, <3>2
  <2> QED
    BY <1>0, <1>1, <1>9, <2>2 DEF ZeroWord, ProducerTypeOK
<1>10. CASE ZeroNextSlot
  BY <1>0, <1>1, <1>10, RingAssumption
     DEF ZeroNextSlot, ProducerTypeOK, shared
<1>11. ASSUME NEW r \in Readers, LoadProducer(r) PROVE TypeOK'
  <2>1. CASE PickFrame(r, producerSeq)
    BY <1>0, <1>2, <1>11, <2>1, PickFrameType DEF LoadProducer, ProducerTypeOK
  <2>2. CASE ~PickFrame(r, producerSeq)
    BY <1>0, <1>2, <1>11, <2>2 DEF LoadProducer, ReaderTypeOK, copyVars
  <2> QED
    BY <2>1, <2>2
<1>12. ASSUME NEW r \in Readers, ReloadProducer(r) PROVE TypeOK'
  <2>1. CASE PickFrame(r, producerSeq)
    BY <1>0, <1>2, <1>12, <2>1, PickFrameType
       DEF ReloadProducer, ProducerTypeOK
  <2>2. CASE Return(r, lastSeen[r])
    BY <1>0, <1>2, <1>12, <2>2, ReturnType DEF ReloadProducer, ReaderTypeOK
  <2> QED
    BY <1>12, <2>1, <2>2 DEF ReloadProducer
<1>13. ASSUME NEW r \in Readers, LoadSeqBefore(r) PROVE TypeOK'
  <2> DEFINE seqBefore == slot[SlotOf(rnext[r])].seq
  <2>1. seqBefore \in Nat /\ rnext[r] \in Nat
    BY SlotType, SMTT(30) DEF TypeOK
  <2>2. CASE Return(r, rnext[r])
    BY <1>0, <1>2, <1>13, <2>1, <2>2, ReturnType DEF LoadSeqBefore
  <2>3. CASE seqBefore > rnext[r] /\ NextAttempt(r, seqBefore - 1)
    <3>1. seqBefore - 1 \in Nat
      BY <2>1, <2>3
    <3> QED
      BY <1>0, <1>2, <1>13, <2>3, <3>1, NextAttemptType DEF LoadSeqBefore
  <2>4. CASE /\ rpc' = [rpc EXCEPT ![r] = "copy"]
             /\ rleft' = [rleft EXCEPT ![r] = SlotAccesses]
             /\ UNCHANGED <<lastSeen, attempt, rnext, retry, seqAfter, buf>>
    BY <1>0, <1>2, <1>13, <2>4 DEF LoadSeqBefore, ReaderTypeOK
  <2> QED
    BY <1>13, <2>2, <2>3, <2>4, Zenon DEF LoadSeqBefore
<1>14. ASSUME NEW r \in Readers, NEW i \in 1..Words, CopyWord(r, i)
       PROVE  TypeOK'
  <2>1. rnext[r] \in Int
    BY <1>0 DEF ReaderTypeOK
  <2>2. slot[SlotOf(rnext[r])].data[i] \in Frames
    BY <2>1, SlotType DEF Bodies
  <2> QED
    BY <1>0, <1>2, <1>14, <2>2 DEF CopyWord, ReaderTypeOK, Bodies, MayLoad
<1>15. ASSUME NEW r \in Readers, LoadSeqAfter(r) PROVE TypeOK'
  <2>1. slot[SlotOf(rnext[r])].seq \in Nat
    BY SlotType, SMTT(30) DEF TypeOK
  <2> QED
    BY <1>0, <1>2, <1>15, <2>1 DEF LoadSeqAfter, ReaderTypeOK
<1>16. ASSUME NEW r \in Readers, Accept(r) PROVE TypeOK'
  <2>1. ReaderTypeOK'
    BY <1>0, <1>16, ReturnType DEF Accept, ReaderTypeOK
  <2>2. HistoryTypeOK'
    BY <1>0, <1>16 DEF Accept, ReaderTypeOK, HistoryTypeOK, Slots
  <2>3. ProducerTypeOK'
    BY <1>0, <1>16 DEF Accept, ProducerTypeOK, shared, writerVars
  <2> QED
    BY <2>1, <2>2, <2>3 DEF TypeOK, ProducerTypeOK, ReaderTypeOK, HistoryTypeOK
<1>17. ASSUME NEW r \in Readers, Reject(r) PROVE TypeOK'
  <2>1. CASE NextAttempt(r, lastSeen[r])
    BY <1>0, <1>2, <1>17, <2>1, NextAttemptType DEF Reject, ReaderTypeOK
  <2>2. CASE ~NextAttempt(r, lastSeen[r])
    BY <1>0, <1>2, <1>17, <2>2, BlankTypes, RingAssumption
       DEF Reject, ReaderTypeOK
  <2> QED
    BY <2>1, <2>2
<1>18. ASSUME NEW r \in Readers, SeekToLatest(r) PROVE TypeOK'
  BY <1>0, <1>18 DEF SeekToLatest, SeekTo, TypeOK, shared, writerVars, copyVars
<1>19. CASE UNCHANGED vars
  BY <1>19 DEF TypeOK, vars, shared, writerVars, readerVars, copyVars, history
<1> QED
  BY <1>3, <1>4, <1>5, <1>6, <1>7, <1>8, <1>9, <1>10, <1>11, <1>12, <1>13,
     <1>14, <1>15, <1>16, <1>17, <1>18, <1>19
     DEF Next, Publish, Recreate, Recv

\* In every reachable state, restarts and relaxed memory included, each variable
\* keeps its type: no cursor underflows and no step leaves the slot array.
THEOREM TypeCorrect == Spec => []TypeOK
<1>1. Init => TypeOK
  BY InitType
<1>2. TypeOK /\ [Next]_vars => TypeOK'
  BY NextType
<1> QED
  BY <1>1, <1>2, PTL DEF Spec

(***************************************************************************)
(* The inductive invariant, for a producer that is not restarted and a     *)
(* slot whose accesses keep their order.                                   *)
(***************************************************************************)
Undisturbed == Ordered /\ MaxEpoch = 1

LEMMA InitInv == Init => RingInv
<1> SUFFICES ASSUME Init PROVE RingInv
  OBVIOUS
<1>1. TypeOK
  BY InitType
<1>2. SlotInv /\ WindowInv /\ ProducerInv
  BY RingAssumption DEF Init, SlotInv, WindowInv, ProducerInv, EmptySlot
<1>3. ASSUME NEW r \in Readers PROVE ReaderInv(r)
  BY RingAssumption DEF Init, ReaderInv, CursorInv, CopyInv, LossInv, GotInv,
                        EmptySlot
<1> QED
  BY <1>1, <1>2, <1>3 DEF RingInv

(***************************************************************************)
(* Steps of a reader.                                                      *)
(***************************************************************************)
\* What another reader's step leaves alone.
Untouched(q) ==
    /\ rpc'[q] = rpc[q] /\ lastSeen'[q] = lastSeen[q] /\ rnext'[q] = rnext[q]
    /\ rleft'[q] = rleft[q] /\ seqAfter'[q] = seqAfter[q] /\ buf'[q] = buf[q]
    /\ got'[q] = got[q] /\ owed'[q] = owed[q]

LEMMA ReaderStep ==
    ASSUME RingInv, TypeOK', NEW r \in Readers,
           UNCHANGED <<shared, writerVars>>,
           \A q \in Readers \ {r} : Untouched(q), ReaderInv(r)'
    PROVE  RingInv'
<1>1. UNCHANGED <<slot, producerSeq, epoch, wpc, wnext, wleft>>
  BY DEF shared, writerVars
<1>2. SlotInv' /\ WindowInv' /\ ProducerInv'
  BY <1>1 DEF RingInv, SlotInv, WindowInv, ProducerInv
<1>3. ASSUME NEW q \in Readers PROVE ReaderInv(q)'
  <2>1. CASE q = r
    BY <2>1
  <2>2. CASE q # r
    <3>1. Untouched(q) /\ ReaderInv(q)
      BY <2>2 DEF RingInv
    <3> QED
      BY <1>1, <3>1 DEF Untouched, ReaderInv, CursorInv, CopyInv, LossInv,
                        GotInv
  <2> QED
    BY <2>1, <2>2
<1> QED
  BY <1>2, <1>3 DEF RingInv

\* Where a call may leave last_seen.
MayRest(r, n) ==
    /\ n \in Nat
    /\ n <= producerSeq
    /\ owed[r] <= n + 1
    /\ owed[r] <= n => producerSeq + 1 >= owed[r] + SlotCount

LEMMA RestInv ==
    ASSUME RingInv, TypeOK', NEW r \in Readers, NEW n, MayRest(r, n),
           UNCHANGED <<shared, writerVars, history>>,
           Return(r, n) \/ NextAttempt(r, n)
    PROVE  RingInv'
<1>1. /\ rpc' = [rpc EXCEPT ![r] = "load"]
      /\ lastSeen' = [lastSeen EXCEPT ![r] = n]
      /\ rnext' = [rnext EXCEPT ![r] = 0]
      /\ rleft' = [rleft EXCEPT ![r] = {}]
      /\ seqAfter' = [seqAfter EXCEPT ![r] = 0]
      /\ buf' = [buf EXCEPT ![r] = Body(Blank)]
  BY DEF Return, NextAttempt
<1>2. UNCHANGED <<got, owed, producerSeq>>
  BY DEF history, shared
<1>3. \A q \in Readers \ {r} : Untouched(q)
  BY <1>1, <1>2 DEF RingInv, TypeOK, Untouched
<1>4. /\ rpc'[r] = "load" /\ lastSeen'[r] = n /\ rnext'[r] = 0
      /\ rleft'[r] = {} /\ seqAfter'[r] = 0
  BY <1>1 DEF RingInv, TypeOK
<1>5. owed[r] \in Nat /\ owed[r] >= 1 /\ ReaderInv(r)
  BY DEF RingInv, TypeOK, ReaderInv, CursorInv
<1>6. ReaderInv(r)'
  BY <1>2, <1>4, <1>5, RingAssumption
     DEF MayRest, ReaderInv, CursorInv, CopyInv, LossInv, GotInv
<1> QED
  BY <1>3, <1>6, ReaderStep

LEMMA PickInv ==
    ASSUME RingInv, TypeOK', NEW r \in Readers, rpc[r] \in {"load", "reload"},
           producerSeq # lastSeen[r], PickFrame(r, producerSeq),
           UNCHANGED <<shared, writerVars, history>>
    PROVE  RingInv'
<1> DEFINE n == NextFrame(producerSeq, lastSeen[r])
<1>1. /\ producerSeq \in Nat /\ lastSeen[r] \in Nat /\ owed[r] \in Nat
      /\ lastSeen[r] < producerSeq /\ ReaderInv(r)
  <2>1. TypeOK /\ ReaderInv(r)
    BY DEF RingInv
  <2>2. producerSeq \in Nat /\ lastSeen[r] \in Nat /\ owed[r] \in Nat
    BY <2>1 DEF TypeOK
  <2>3. lastSeen[r] <= producerSeq
    BY <2>1 DEF ReaderInv, CursorInv
  <2> QED
    BY <2>1, <2>2, <2>3
<1>2. LookFor(r, lastSeen[r], n)
  BY <1>1 DEF PickFrame, Rewound
<1>3. /\ n \in Nat /\ n > lastSeen[r] /\ n <= producerSeq
      /\ n > owed[r] => producerSeq + 1 >= owed[r] + SlotCount
  BY <1>1, RingAssumption DEF NextFrame, ReaderInv, CursorInv, LossInv
<1> HIDE DEF n
<1>4. UNCHANGED <<got, owed, producerSeq>>
  BY DEF history, shared
<1>5. \A q \in Readers \ {r} : Untouched(q)
  BY <1>2, <1>4 DEF RingInv, TypeOK, Untouched, LookFor
<1>6. /\ rpc'[r] = "seqBefore" /\ lastSeen'[r] = lastSeen[r] /\ rnext'[r] = n
      /\ rleft'[r] = rleft[r] /\ seqAfter'[r] = seqAfter[r]
  BY <1>2 DEF RingInv, TypeOK, LookFor
<1>7. ReaderInv(r)'
  BY <1>1, <1>3, <1>4, <1>6
     DEF ReaderInv, CursorInv, CopyInv, LossInv, GotInv
<1> QED
  BY <1>5, <1>7, ReaderStep

LEMMA LoadSeqBeforeInv ==
    ASSUME RingInv, TypeOK', NEW r \in Readers, LoadSeqBefore(r)
    PROVE  RingInv'
<1> DEFINE n == rnext[r]
           s == slot[SlotOf(n)].seq
<1>1. /\ n \in Nat /\ s \in Nat /\ owed[r] \in Nat /\ producerSeq \in Nat
      /\ lastSeen[r] \in Nat /\ SlotOf(n) \in 0..SlotCount - 1
  <2>0. TypeOK
    BY DEF RingInv
  <2>1. /\ n \in Nat /\ n \in Int /\ owed[r] \in Nat /\ producerSeq \in Nat
        /\ lastSeen[r] \in Nat
    BY <2>0 DEF TypeOK
  <2> HIDE DEF n
  <2>2. s \in Nat /\ SlotOf(n) \in 0..SlotCount - 1
    BY <2>0, <2>1, SlotType, SlotOfRange
  <2> QED
    BY <2>1, <2>2
<1>2. /\ rpc[r] = "seqBefore" /\ UNCHANGED <<shared, writerVars, history>>
  BY DEF LoadSeqBefore
<1>3. n > lastSeen[r] /\ n <= producerSeq /\ owed[r] <= n /\ ReaderInv(r)
  BY <1>1, <1>2 DEF RingInv, ReaderInv, CursorInv
<1>4. s > 0 => s <= producerSeq + 1
  BY <1>1 DEF RingInv, SlotInv
<1>5. s = n \/ n + SlotCount <= producerSeq + 1
  BY <1>1, <1>3 DEF RingInv, WindowInv
<1>6. s # n => MayRest(r, n)
  BY <1>1, <1>3, <1>5, RingAssumption DEF MayRest
<1>7. s > n => MayRest(r, s - 1)
  BY <1>1, <1>3, <1>4, <1>5, RingAssumption DEF MayRest
<1>8. CASE s < n /\ Return(r, n)
  BY <1>1, <1>2, <1>6, <1>8, RestInv
<1>9. CASE s > n /\ NextAttempt(r, s - 1)
  BY <1>1, <1>2, <1>7, <1>9, RestInv
<1>10. CASE /\ s = n
            /\ rpc' = [rpc EXCEPT ![r] = "copy"]
            /\ rleft' = [rleft EXCEPT ![r] = SlotAccesses]
            /\ UNCHANGED <<lastSeen, attempt, rnext, retry, seqAfter, buf>>
  <2>1. UNCHANGED <<got, owed, producerSeq, slot>>
    BY <1>2 DEF history, shared
  <2>2. \A q \in Readers \ {r} : Untouched(q)
    BY <1>10, <2>1 DEF RingInv, TypeOK, Untouched
  <2>3. rpc'[r] = "copy" /\ rleft'[r] = SlotAccesses
    BY <1>10 DEF RingInv, TypeOK
  <2>4. (1..Words) \ SlotAccesses = {} /\ 0 \in SlotAccesses
    BY RingAssumption DEF SlotAccesses
  <2>5. CopyInv(r)'
    BY <1>10, <2>1, <2>3, <2>4 DEF CopyInv
  <2>6. (CursorInv(r) /\ LossInv(r) /\ GotInv(r))'
    BY <1>2, <1>3, <1>10, <2>1, <2>3 DEF ReaderInv, CursorInv, LossInv, GotInv
  <2> QED
    BY <1>2, <2>2, <2>5, <2>6, ReaderStep DEF ReaderInv
<1> QED
  BY <1>8, <1>9, <1>10, Zenon DEF LoadSeqBefore

LEMMA CopyWordInv ==
    ASSUME RingInv, TypeOK', NEW r \in Readers, NEW i \in 1..Words,
           CopyWord(r, i)
    PROVE  RingInv'
<1> DEFINE n == rnext[r]
<1>1. /\ n \in Nat /\ n > 0 /\ SlotOf(n) \in 0..SlotCount - 1 /\ ReaderInv(r)
  <2>1. n \in Nat /\ n \in Int /\ n > 0 /\ ReaderInv(r)
    BY DEF RingInv, TypeOK, ReaderInv, CursorInv, CopyWord
  <2> HIDE DEF n
  <2> QED
    BY <2>1, SlotOfRange
<1>2. /\ rpc[r] = "copy" /\ 0 # i
      /\ buf' = [buf EXCEPT ![r][i] = slot[SlotOf(n)].data[i]]
      /\ rleft' = [rleft EXCEPT ![r] = @ \ {i}]
      /\ UNCHANGED <<slot, producerSeq, rpc, lastSeen, rnext, seqAfter, got, owed>>
  BY DEF CopyWord, shared, history
<1>3. \A q \in Readers \ {r} : Untouched(q)
  BY <1>2 DEF RingInv, TypeOK, Untouched
<1>4. /\ rleft'[r] = rleft[r] \ {i}
      /\ buf'[r] = [buf[r] EXCEPT ![i] = slot[SlotOf(n)].data[i]]
      /\ buf[r] \in [1..Words -> Frames]
  BY <1>2 DEF RingInv, TypeOK, Bodies
<1>5. slot[SlotOf(n)].seq = n => slot[SlotOf(n)].data[i] = Frame(1, n)
  <2> SUFFICES ASSUME slot[SlotOf(n)].seq = n
               PROVE  slot[SlotOf(n)].data[i] = Frame(1, n)
    OBVIOUS
  <2> HIDE DEF n
  <2>1. slot[SlotOf(n)].data = Body(Frame(1, n))
    BY <1>1 DEF RingInv, SlotInv
  <2> QED
    BY <2>1 DEF Body
<1>6. 0 \in rleft[r]
  BY <1>1, <1>2 DEF ReaderInv, CopyInv, CopyWord, MayLoad
<1>7. CopyInv(r)'
  BY <1>1, <1>2, <1>4, <1>5, <1>6, ZenonT(30) DEF ReaderInv, CopyInv
<1>8. (CursorInv(r) /\ LossInv(r) /\ GotInv(r))'
  BY <1>1, <1>2 DEF ReaderInv, CursorInv, LossInv, GotInv
<1>9. UNCHANGED <<shared, writerVars>>
  BY DEF CopyWord
<1> QED
  BY <1>3, <1>7, <1>8, <1>9, ReaderStep DEF ReaderInv

LEMMA LoadSeqAfterInv ==
    ASSUME RingInv, TypeOK', Ordered, NEW r \in Readers, LoadSeqAfter(r)
    PROVE  RingInv'
<1> DEFINE n == rnext[r]
<1>1. /\ n \in Nat /\ n > 0 /\ ReaderInv(r) /\ buf[r] \in [1..Words -> Frames]
  BY DEF RingInv, TypeOK, ReaderInv, CursorInv, LoadSeqAfter, Bodies
<1>2. /\ rpc[r] = "copy" /\ rleft[r] = {0}
      /\ seqAfter' = [seqAfter EXCEPT ![r] = slot[SlotOf(n)].seq]
      /\ rleft' = [rleft EXCEPT ![r] = @ \ {0}]
      /\ UNCHANGED <<slot, producerSeq, rpc, lastSeen, rnext, buf, got, owed>>
  BY DEF LoadSeqAfter, MayLoad, shared, history
<1>3. \A q \in Readers \ {r} : Untouched(q)
  BY <1>2 DEF RingInv, TypeOK, Untouched
<1>4. rleft'[r] = {} /\ seqAfter'[r] = slot[SlotOf(n)].seq
  BY <1>2 DEF RingInv, TypeOK
<1>5. slot[SlotOf(n)].seq = n => buf[r] = Body(Frame(1, n))
  <2> SUFFICES ASSUME slot[SlotOf(n)].seq = n
               PROVE  \A i \in 1..Words : buf[r][i] = Frame(1, n)
    BY <1>1 DEF Body
  <2>1. (1..Words) \ rleft[r] = 1..Words
    BY <1>2
  <2> QED
    BY <1>1, <1>2, <2>1 DEF ReaderInv, CopyInv
<1>6. CopyInv(r)'
  BY <1>1, <1>2, <1>4, <1>5 DEF ReaderInv, CopyInv
<1>7. (CursorInv(r) /\ LossInv(r) /\ GotInv(r))'
  BY <1>1, <1>2 DEF ReaderInv, CursorInv, LossInv, GotInv
<1>8. UNCHANGED <<shared, writerVars>>
  BY DEF LoadSeqAfter
<1> QED
  BY <1>3, <1>6, <1>7, <1>8, ReaderStep DEF ReaderInv

LEMMA AcceptInv ==
    ASSUME RingInv, TypeOK', NEW r \in Readers, Accept(r)
    PROVE  RingInv'
<1> DEFINE n == rnext[r]
<1>1. /\ n \in Nat /\ n > 0 /\ n <= producerSeq /\ producerSeq \in Nat
      /\ buf[r] = Body(Frame(1, n))
  BY SMTT(30) DEF RingInv, TypeOK, ReaderInv, CursorInv, CopyInv, Accept
<1>2. /\ rpc' = [rpc EXCEPT ![r] = "load"]
      /\ lastSeen' = [lastSeen EXCEPT ![r] = n]
      /\ rnext' = [rnext EXCEPT ![r] = 0]
      /\ rleft' = [rleft EXCEPT ![r] = {}]
      /\ seqAfter' = [seqAfter EXCEPT ![r] = 0]
      /\ buf' = [buf EXCEPT ![r] = Body(Blank)]
      /\ got' = [got EXCEPT ![r] = [seq |-> n, data |-> buf[r]]]
      /\ owed' = [owed EXCEPT ![r] = n + 1]
      /\ UNCHANGED <<shared, writerVars>>
  BY DEF Accept, Return
<1>3. \A q \in Readers \ {r} : Untouched(q)
  BY <1>2 DEF RingInv, TypeOK, Untouched
<1>4. /\ rpc'[r] = "load" /\ lastSeen'[r] = n /\ rnext'[r] = 0
      /\ rleft'[r] = {} /\ seqAfter'[r] = 0 /\ owed'[r] = n + 1
      /\ got'[r] = [seq |-> n, data |-> buf[r]]
  BY <1>2 DEF RingInv, TypeOK
<1>5. producerSeq' = producerSeq
  BY <1>2 DEF shared
<1> HIDE DEF n
<1>6. ReaderInv(r)'
  BY <1>1, <1>4, <1>5 DEF ReaderInv, CursorInv, CopyInv, LossInv, GotInv
<1> QED
  BY <1>2, <1>3, <1>6, ReaderStep

LEMMA RejectInv ==
    ASSUME RingInv, TypeOK', NEW r \in Readers, Reject(r)
    PROVE  RingInv'
<1> DEFINE n == rnext[r]
<1>1. /\ rpc[r] = "copy" /\ rleft[r] = {}
      /\ UNCHANGED <<shared, writerVars, history>>
  BY DEF Reject
<1>2. /\ lastSeen[r] \in Nat /\ lastSeen[r] <= producerSeq /\ owed[r] \in Nat
      /\ owed[r] <= lastSeen[r] + 1 /\ ReaderInv(r)
      /\ owed[r] <= lastSeen[r] => producerSeq + 1 >= owed[r] + SlotCount
  BY SMTT(30) DEF RingInv, TypeOK, ReaderInv, CursorInv, LossInv
<1>3. CASE NextAttempt(r, lastSeen[r])
  <2>1. MayRest(r, lastSeen[r])
    BY <1>2 DEF MayRest
  <2> QED
    BY <1>1, <1>3, <2>1, RestInv
<1>4. CASE /\ rpc' = [rpc EXCEPT ![r] = "seqBefore"]
           /\ seqAfter' = [seqAfter EXCEPT ![r] = 0]
           /\ buf' = [buf EXCEPT ![r] = Body(Blank)]
           /\ UNCHANGED <<lastSeen, attempt, rnext, rleft>>
  <2>1. UNCHANGED <<got, owed, producerSeq>>
    BY <1>1 DEF history, shared
  <2>2. \A q \in Readers \ {r} : Untouched(q)
    BY <1>4, <2>1 DEF RingInv, TypeOK, Untouched
  <2>3. rpc'[r] = "seqBefore" /\ seqAfter'[r] = 0 /\ rleft'[r] = {}
    BY <1>1, <1>4 DEF RingInv, TypeOK
  <2>4. ReaderInv(r)'
    BY <1>1, <1>2, <1>4, <2>1, <2>3
       DEF ReaderInv, CursorInv, CopyInv, LossInv, GotInv
  <2> QED
    BY <1>1, <2>2, <2>4, ReaderStep
<1> QED
  BY <1>3, <1>4, Zenon DEF Reject

LEMMA SeekInv ==
    ASSUME RingInv, TypeOK', NEW r \in Readers, SeekToLatest(r)
    PROVE  RingInv'
<1> DEFINE n == IF producerSeq > 0 THEN producerSeq - 1 ELSE 0
<1>1. /\ rpc[r] = "load"
      /\ lastSeen' = [lastSeen EXCEPT ![r] = n]
      /\ owed' = [owed EXCEPT ![r] = IF producerSeq > 0 THEN producerSeq ELSE 1]
      /\ UNCHANGED <<shared, writerVars, producerSeq, rpc, rnext, rleft, seqAfter,
                     buf, got>>
  BY DEF SeekToLatest, SeekTo, shared, copyVars
<1>2. \A q \in Readers \ {r} : Untouched(q)
  BY <1>1 DEF RingInv, TypeOK, Untouched
<1>3. /\ lastSeen'[r] = n
      /\ owed'[r] = IF producerSeq > 0 THEN producerSeq ELSE 1
      /\ producerSeq \in Nat /\ rnext[r] \in Nat /\ ReaderInv(r)
  BY <1>1 DEF RingInv, TypeOK
<1>4. ReaderInv(r)'
  BY <1>1, <1>3 DEF ReaderInv, CursorInv, CopyInv, LossInv, GotInv
<1> QED
  BY <1>1, <1>2, <1>4, ReaderStep

(***************************************************************************)
(* Steps of the producer.                                                  *)
(***************************************************************************)
\* What the slots' seqs become when the producer stores n into slot wnext.
SlotSeqBecomes(n) ==
    \A k \in 0..SlotCount - 1 :
        slot'[k].seq = IF k = SlotOf(wnext) THEN n ELSE slot[k].seq

\* Storing another seq than the one a reader looks for into the slot of the
\* next frame leaves every reader right: it is the slot of a frame that is a
\* round behind, or of none.
LEMMA ReadersAfterStore ==
    ASSUME RingInv, NEW n \in Nat, wnext = producerSeq + 1,
           n = 0 \/ n = wnext, SlotSeqBecomes(n),
           UNCHANGED <<producerSeq, readerVars, history>>
    PROVE  \A r \in Readers : ReaderInv(r)'
<1> SUFFICES ASSUME NEW r \in Readers PROVE ReaderInv(r)'
  OBVIOUS
<1>1. UNCHANGED <<rpc, lastSeen, rnext, rleft, seqAfter, buf, got, owed>>
  BY DEF readerVars, copyVars, history
<1>2. /\ rnext[r] \in Nat /\ rnext[r] \in Int /\ producerSeq \in Nat
      /\ wnext \in Int /\ lastSeen[r] \in Nat /\ ReaderInv(r)
  BY DEF RingInv, TypeOK
<1>3. (CursorInv(r) /\ LossInv(r) /\ GotInv(r))'
  BY <1>1, <1>2 DEF ReaderInv, CursorInv, LossInv, GotInv
<1>4. CopyInv(r)'
  <2> SUFFICES ASSUME rpc[r] = "copy" PROVE CopyInv(r)'
    BY <1>1 DEF CopyInv
  <2>1. rnext[r] > 0 /\ rnext[r] <= producerSeq
    BY <1>2 DEF ReaderInv, CursorInv
  <2>2. CASE SlotOf(rnext[r]) = SlotOf(wnext)
    <3>1. producerSeq + 1 >= rnext[r] + SlotCount
      BY <1>2, <2>1, <2>2, SlotGap
    <3>2. slot'[SlotOf(rnext[r])].seq # rnext[r]
      BY <1>2, <2>1, <2>2, SlotOfRange DEF SlotSeqBecomes
    <3> QED
      BY <1>1, <1>2, <3>1, <3>2 DEF ReaderInv, CopyInv
  <2>3. CASE SlotOf(rnext[r]) # SlotOf(wnext)
    <3>1. slot'[SlotOf(rnext[r])].seq = slot[SlotOf(rnext[r])].seq
      BY <1>2, <2>3, SlotOfRange DEF SlotSeqBecomes
    <3> QED
      BY <1>1, <1>2, <3>1 DEF ReaderInv, CopyInv
  <2> QED
    BY <2>2, <2>3
<1> QED
  BY <1>3, <1>4 DEF ReaderInv

LEMMA QuietStepInv ==
    ASSUME RingInv, TypeOK', UNCHANGED <<shared, readerVars, history>>,
           ProducerInv'
    PROVE  RingInv'
<1>1. UNCHANGED <<slot, producerSeq, rpc, lastSeen, rnext, rleft, seqAfter, buf,
                  got, owed>>
  BY DEF shared, readerVars, copyVars, history
<1>2. SlotInv' /\ WindowInv'
  BY <1>1 DEF RingInv, SlotInv, WindowInv
<1>3. ASSUME NEW r \in Readers PROVE ReaderInv(r)'
  BY <1>1 DEF RingInv, ReaderInv, CursorInv, CopyInv, LossInv, GotInv
<1> QED
  BY <1>2, <1>3 DEF RingInv

LEMMA BeginPublishInv ==
    ASSUME RingInv, TypeOK', BeginPublish
    PROVE  RingInv'
<1>1. (1..Words) \ SlotAccesses = {} /\ 0 \in SlotAccesses
  BY RingAssumption DEF SlotAccesses
<1>2. ProducerInv'
  BY <1>1 DEF RingInv, ProducerInv, BeginPublish, shared
<1> QED
  BY <1>2, QuietStepInv DEF BeginPublish

LEMMA StopInv ==
    ASSUME RingInv, TypeOK', Stop
    PROVE  RingInv'
<1>1. ProducerInv'
  BY DEF RingInv, ProducerInv, Stop, shared
<1> QED
  BY <1>1, QuietStepInv DEF Stop

LEMMA ClearInv ==
    ASSUME RingInv, TypeOK', StoreWord(0)
    PROVE  RingInv'
<1> DEFINE K == SlotOf(wnext)
<1>1. /\ wpc = "store" /\ wleft = SlotAccesses /\ wnext = producerSeq + 1
      /\ producerSeq \in Nat /\ wnext \in Nat /\ wnext \in Int
      /\ slot' = [slot EXCEPT ![K].seq = 0]
      /\ wleft' = wleft \ {0}
      /\ UNCHANGED <<producerSeq, epoch, wpc, wnext, readerVars, history>>
  BY DEF StoreWord, MayStore, RingInv, ProducerInv, TypeOK
<1>2. K \in 0..SlotCount - 1
  BY <1>1, SlotOfRange
<1>3. /\ SlotSeqBecomes(0)
      /\ \A k \in 0..SlotCount - 1 : slot'[k].data = slot[k].data
  BY <1>1, <1>2 DEF SlotSeqBecomes, RingInv, TypeOK, Slots
<1>4. SlotInv'
  BY <1>1, <1>3 DEF RingInv, SlotInv, SlotSeqBecomes
<1>5. WindowInv'
  <2> SUFFICES ASSUME NEW n \in 1..producerSeq
               PROVE  slot'[SlotOf(n)].seq = n \/ n + SlotCount <= producerSeq + 1
    BY <1>1 DEF WindowInv
  <2>1. n \in Int /\ SlotOf(n) \in 0..SlotCount - 1
    BY <1>1, SlotOfRange
  <2>2. CASE SlotOf(n) = K
    BY <1>1, <2>1, <2>2, SlotGap
  <2>3. CASE SlotOf(n) # K
    BY <1>3, <2>1, <2>3 DEF RingInv, WindowInv, SlotSeqBecomes
  <2> QED
    BY <2>2, <2>3
<1>6. ProducerInv'
  <2>1. (1..Words) \ wleft' = {} /\ 0 \notin wleft'
    BY <1>1, RingAssumption DEF SlotAccesses
  <2>2. slot'[K].seq = 0
    BY <1>2, <1>3 DEF SlotSeqBecomes
  <2> QED
    BY <1>1, <2>1, <2>2 DEF RingInv, ProducerInv
<1>7. \A r \in Readers : ReaderInv(r)'
  BY <1>1, <1>3, ReadersAfterStore
<1> QED
  BY <1>4, <1>5, <1>6, <1>7 DEF RingInv

LEMMA StoreBodyInv ==
    ASSUME RingInv, TypeOK', Ordered, NEW i \in 1..Words, StoreWord(i)
    PROVE  RingInv'
<1> DEFINE K == SlotOf(wnext)
<1>1. /\ wpc = "store" /\ 0 \notin wleft /\ i # 0 /\ epoch = 1
      /\ slot' = [slot EXCEPT ![K].data[i] = Frame(1, wnext)]
      /\ wleft' = wleft \ {i}
      /\ wnext \in Int /\ wnext = producerSeq + 1
      /\ UNCHANGED <<producerSeq, epoch, wpc, wnext, readerVars, history>>
  BY DEF StoreWord, MayStore, RingInv, ProducerInv, TypeOK
<1>2. K \in 0..SlotCount - 1 /\ slot[K].seq = 0
  BY <1>1, SlotOfRange DEF RingInv, ProducerInv
<1>3. /\ \A k \in 0..SlotCount - 1 : slot'[k].seq = slot[k].seq
      /\ \A k \in 0..SlotCount - 1 : k # K => slot'[k].data = slot[k].data
      /\ slot'[K].data = [slot[K].data EXCEPT ![i] = Frame(1, wnext)]
      /\ slot[K].data \in [1..Words -> Frames]
  BY <1>1, <1>2 DEF RingInv, TypeOK, Slots, Bodies
<1>4. SlotInv'
  BY <1>1, <1>2, <1>3 DEF RingInv, SlotInv
<1>5. WindowInv'
  <2> SUFFICES ASSUME NEW n \in 1..producerSeq
               PROVE  slot'[SlotOf(n)].seq = n \/ n + SlotCount <= producerSeq + 1
    BY <1>1 DEF WindowInv
  <2>1. SlotOf(n) \in 0..SlotCount - 1
    BY SlotOfRange
  <2>2. slot[SlotOf(n)].seq = n \/ n + SlotCount <= producerSeq + 1
    <3>1. WindowInv
      BY DEF RingInv
    <3> QED
      BY <3>1 DEF WindowInv
  <2> HIDE DEF K
  <2>3. slot'[SlotOf(n)].seq = slot[SlotOf(n)].seq
    BY <1>3, <2>1
  <2> QED
    BY <2>2, <2>3
<1>6. ProducerInv'
  <2>1. ASSUME NEW j \in (1..Words) \ wleft'
        PROVE  slot'[K].data[j] = Frame(1, wnext)
    <3>1. CASE j = i
      BY <1>3, <3>1
    <3>2. CASE j # i
      <4>1. j \in (1..Words) \ wleft
        BY <1>1, <3>2
      <4>2. slot[K].data[j] = Frame(1, wnext)
        BY <1>1, <4>1 DEF RingInv, ProducerInv
      <4> QED
        BY <1>3, <3>2, <4>2
    <3> QED
      BY <3>1, <3>2
  <2> QED
    BY <1>1, <1>2, <1>3, <2>1 DEF RingInv, ProducerInv
<1>7. ASSUME NEW r \in Readers PROVE ReaderInv(r)'
  <2>1. UNCHANGED <<rpc, lastSeen, rnext, rleft, seqAfter, buf, got, owed>>
    BY <1>1 DEF readerVars, copyVars, history
  <2>2. rnext[r] \in Int
    BY DEF RingInv, TypeOK
  <2>3. slot'[SlotOf(rnext[r])].seq = slot[SlotOf(rnext[r])].seq
    BY <1>3, <2>2, SlotOfRange
  <2> QED
    BY <1>1, <2>1, <2>3 DEF RingInv, ReaderInv, CursorInv, CopyInv, LossInv, GotInv
<1> QED
  BY <1>4, <1>5, <1>6, <1>7 DEF RingInv

LEMMA CommitSlotInv ==
    ASSUME RingInv, TypeOK', CommitSlot
    PROVE  RingInv'
<1> DEFINE K == SlotOf(wnext)
<1>1. /\ wpc = "store" /\ wleft = {} /\ wnext = producerSeq + 1 /\ epoch = 1
      /\ producerSeq \in Nat /\ wnext \in Nat /\ wnext \in Int
      /\ slot' = [slot EXCEPT ![K].seq = wnext]
      /\ wpc' = "count"
      /\ UNCHANGED <<producerSeq, epoch, wnext, wleft, readerVars, history>>
  BY DEF CommitSlot, RingInv, ProducerInv, TypeOK
<1>2. K \in 0..SlotCount - 1
  BY <1>1, SlotOfRange
<1>3. /\ SlotSeqBecomes(wnext)
      /\ \A k \in 0..SlotCount - 1 : slot'[k].data = slot[k].data
  BY <1>1, <1>2 DEF SlotSeqBecomes, RingInv, TypeOK, Slots
<1>4. slot[K].data = Body(Frame(1, wnext))
  <2>1. slot[K].data \in [1..Words -> Frames]
    BY <1>2 DEF RingInv, TypeOK, Slots, Bodies
  <2>2. \A i \in 1..Words : slot[K].data[i] = Frame(1, wnext)
    BY <1>1 DEF RingInv, ProducerInv
  <2> QED
    BY <2>1, <2>2 DEF Body
<1>5. SlotInv'
  <2> SUFFICES ASSUME NEW k \in 0..SlotCount - 1, slot'[k].seq > 0
               PROVE  /\ SlotOf(slot'[k].seq) = k
                      /\ slot'[k].seq <= producerSeq + 1
                      /\ slot'[k].seq + SlotCount >= producerSeq + 1
                      /\ slot'[k].data = Body(Frame(1, slot'[k].seq))
    BY <1>1 DEF SlotInv
  <2>1. CASE k = K
    BY <1>1, <1>3, <1>4, <2>1, RingAssumption DEF SlotSeqBecomes
  <2>2. CASE k # K
    BY <1>3, <2>2 DEF RingInv, SlotInv, SlotSeqBecomes
  <2> QED
    BY <2>1, <2>2
<1>6. WindowInv'
  <2> SUFFICES ASSUME NEW n \in 1..producerSeq
               PROVE  slot'[SlotOf(n)].seq = n \/ n + SlotCount <= producerSeq + 1
    BY <1>1 DEF WindowInv
  <2>1. n \in Int /\ SlotOf(n) \in 0..SlotCount - 1
    BY <1>1, SlotOfRange
  <2>2. CASE SlotOf(n) = K
    BY <1>1, <2>1, <2>2, SlotGap
  <2>3. CASE SlotOf(n) # K
    BY <1>3, <2>1, <2>3 DEF RingInv, WindowInv, SlotSeqBecomes
  <2> QED
    BY <2>2, <2>3
<1>7. ProducerInv'
  <2>1. slot'[K].seq = wnext
    BY <1>2, <1>3 DEF SlotSeqBecomes
  <2> QED
    BY <1>1, <2>1 DEF RingInv, ProducerInv
<1>8. \A r \in Readers : ReaderInv(r)'
  BY <1>1, <1>3, ReadersAfterStore
<1> QED
  BY <1>5, <1>6, <1>7, <1>8 DEF RingInv

LEMMA StoreProducerSeqInv ==
    ASSUME RingInv, TypeOK', StoreProducerSeq
    PROVE  RingInv'
<1> DEFINE K == SlotOf(wnext)
<1>1. /\ wpc = "count" /\ wnext = producerSeq + 1 /\ producerSeq' = producerSeq + 1
      /\ producerSeq \in Nat /\ wnext \in Int /\ slot[K].seq = wnext
      /\ wpc' = "idle"
      /\ UNCHANGED <<slot, epoch, wnext, wleft, readerVars, history>>
  BY DEF StoreProducerSeq, RingInv, ProducerInv, TypeOK
<1>2. SlotInv'
  <2> SUFFICES ASSUME NEW k \in 0..SlotCount - 1, slot[k].seq > 0
               PROVE  /\ SlotOf(slot[k].seq) = k
                      /\ slot[k].seq <= producerSeq + 2
                      /\ slot[k].seq + SlotCount >= producerSeq + 2
                      /\ slot[k].data = Body(Frame(1, slot[k].seq))
    BY <1>1 DEF SlotInv
  <2>1. /\ SlotOf(slot[k].seq) = k /\ slot[k].seq \in Nat /\ slot[k].seq \in Int
        /\ slot[k].seq <= producerSeq + 1
        /\ slot[k].seq + SlotCount >= producerSeq + 1
        /\ slot[k].data = Body(Frame(1, slot[k].seq))
    <3>1. slot[k] \in Slots
      BY DEF RingInv, TypeOK
    <3>2. slot[k].seq \in Nat
      BY <3>1 DEF Slots
    <3> QED
      BY <3>2 DEF RingInv, SlotInv
  <2>2. slot[k].seq + SlotCount # wnext
    <3> SUFFICES ASSUME slot[k].seq + SlotCount = wnext PROVE FALSE
      OBVIOUS
    <3>1. K = k
      BY <2>1, SlotReuse
    <3> QED
      BY <1>1, <2>1, <3>1, RingAssumption
  <2> QED
    BY <1>1, <2>1, <2>2, RingAssumption
<1>3. WindowInv'
  <2> SUFFICES ASSUME NEW n \in 1..(producerSeq + 1)
               PROVE  slot[SlotOf(n)].seq = n \/ n + SlotCount <= producerSeq + 2
    BY <1>1 DEF WindowInv
  <2>1. CASE n = wnext
    BY <1>1, <2>1
  <2>2. CASE n # wnext
    <3>1. n \in 1..producerSeq
      BY <1>1, <2>2
    <3> QED
      BY <1>1, <3>1, RingAssumption DEF RingInv, WindowInv
  <2> QED
    BY <2>1, <2>2
<1>4. ProducerInv'
  BY <1>1 DEF RingInv, ProducerInv
<1>5. ASSUME NEW r \in Readers PROVE ReaderInv(r)'
  <2>1. UNCHANGED <<rpc, lastSeen, rnext, rleft, seqAfter, buf, got, owed>>
    BY <1>1 DEF readerVars, copyVars, history
  <2>2. /\ rnext[r] \in Nat /\ lastSeen[r] \in Nat /\ owed[r] \in Nat
        /\ ReaderInv(r)
    BY DEF RingInv, TypeOK
  <2> QED
    BY <1>1, <2>1, <2>2, RingAssumption
       DEF ReaderInv, CursorInv, CopyInv, LossInv, GotInv
<1> QED
  BY <1>2, <1>3, <1>4, <1>5 DEF RingInv

LEMMA NextInv ==
    ASSUME Undisturbed, RingInv, [Next]_vars
    PROVE  RingInv'
<1>1. TypeOK' /\ Ordered /\ epoch = 1 /\ wpc # "zero" /\ MaxEpoch = 1
  BY NextType DEF RingInv, Undisturbed, ProducerInv
<1>2. ASSUME NEW i \in SlotAccesses, StoreWord(i) PROVE RingInv'
  <2>1. CASE i = 0
    BY <1>1, <1>2, <2>1, ClearInv
  <2>2. CASE i # 0
    BY <1>1, <1>2, <2>2, StoreBodyInv, RingAssumption DEF SlotAccesses
  <2> QED
    BY <2>1, <2>2
<1>3. ~Create /\ ~Recreate
  BY <1>1 DEF Create, Recreate, ZeroNextSlot, ZeroWord
<1>4. ASSUME NEW r \in Readers, LoadProducer(r) PROVE RingInv'
  <2>1. CASE producerSeq # lastSeen[r] /\ PickFrame(r, producerSeq)
    BY <1>1, <1>4, <2>1, PickInv DEF LoadProducer
  <2>2. CASE /\ rpc' = [rpc EXCEPT ![r] = "reload"]
             /\ UNCHANGED <<lastSeen, attempt, copyVars>>
    <3>1. /\ UNCHANGED <<shared, writerVars, got, owed, lastSeen, rnext, rleft,
                         seqAfter, buf, producerSeq>>
          /\ rpc[r] = "load"
      BY <1>4, <2>2 DEF LoadProducer, history, copyVars, shared
    <3>2. \A q \in Readers \ {r} : Untouched(q)
      BY <2>2, <3>1 DEF RingInv, TypeOK, Untouched
    <3>3. rpc'[r] = "reload"
      BY <2>2 DEF RingInv, TypeOK
    <3>4. ReaderInv(r)'
      BY <3>1, <3>3 DEF RingInv, ReaderInv, CursorInv, CopyInv, LossInv, GotInv
    <3> QED
      BY <1>1, <3>1, <3>2, <3>4, ReaderStep
  <2> QED
    BY <1>4, <2>1, <2>2 DEF LoadProducer
<1>5. ASSUME NEW r \in Readers, ReloadProducer(r) PROVE RingInv'
  <2>1. CASE producerSeq # lastSeen[r] /\ PickFrame(r, producerSeq)
    BY <1>1, <1>5, <2>1, PickInv DEF ReloadProducer
  <2>2. CASE Return(r, lastSeen[r])
    <3>1. MayRest(r, lastSeen[r])
      BY DEF RingInv, TypeOK, MayRest, ReaderInv, CursorInv, LossInv
    <3> QED
      BY <1>1, <1>5, <2>2, <3>1, RestInv DEF ReloadProducer
  <2> QED
    BY <1>5, <2>1, <2>2 DEF ReloadProducer
<1>6. ASSUME NEW r \in Readers, Recv(r) PROVE RingInv'
  BY <1>1, <1>4, <1>5, <1>6, LoadSeqBeforeInv, CopyWordInv, LoadSeqAfterInv,
     AcceptInv, RejectInv DEF Recv
<1>7. CASE UNCHANGED vars
  <2>1. UNCHANGED <<shared, readerVars, history, epoch, wpc, wnext, wleft, slot,
                    producerSeq>>
    BY <1>7 DEF vars, writerVars, shared
  <2>2. ProducerInv'
    BY <2>1 DEF RingInv, ProducerInv
  <2> QED
    BY <1>1, <2>1, <2>2, QuietStepInv
<1> QED
  BY <1>1, <1>2, <1>3, <1>6, <1>7, BeginPublishInv, StopInv, CommitSlotInv,
     StoreProducerSeqInv, SeekInv DEF Next, Publish

(***************************************************************************)
(* The properties.                                                         *)
(***************************************************************************)
\* The inductive invariant holds throughout.
THEOREM InvariantHolds == ASSUME Undisturbed PROVE Spec => []RingInv
<1>1. Init => RingInv
  BY InitInv
<1>2. RingInv /\ [Next]_vars => RingInv'
  BY NextInv
<1> QED
  BY <1>1, <1>2, PTL DEF Spec

LEMMA WholeBody ==
    ASSUME NEW n, NEW f, f.seq = n, f.data = Body(Frame(1, n))
    PROVE  Whole(f)
  BY RingAssumption DEF Whole, Body, Frame

\* While the producer is not restarted and the slot's accesses keep their order,
\* recv returns only whole frames.
THEOREM NoTornFrameHolds == ASSUME Undisturbed PROVE Spec => []NoTornFrame
<1>1. RingInv => NoTornFrame
  BY WholeBody DEF RingInv, ReaderInv, GotInv, NoTornFrame
<1> QED
  BY <1>1, InvariantHolds, PTL

\* Under the same conditions a subscriber loses frames only when the producer
\* laps it.
THEOREM LossOnlyWhenLappedHolds ==
    ASSUME Undisturbed PROVE Spec => []LossOnlyWhenLapped
<1>1. RingInv => LossOnlyWhenLapped
  BY DEF RingInv, ReaderInv, LossInv, LossOnlyWhenLapped
<1> QED
  BY <1>1, InvariantHolds, PTL

\* Only a successful recv changes what a reader was handed.
LEMMA OnlyAcceptDelivers ==
    ASSUME [Next]_vars, NEW r \in Readers, got'[r] # got[r], TypeOK
    PROVE  Accept(r)
<1>1. ASSUME NEW q \in Readers, Accept(q) PROVE Accept(r)
  BY <1>1 DEF Accept, TypeOK
<1>2. got' # got
  OBVIOUS
<1>3. ~UNCHANGED vars /\ ~UNCHANGED history
  BY <1>2 DEF vars, history
<1>4. \E q \in Readers : Accept(q)
  <2>1. CASE BeginPublish \/ Publish \/ Stop \/ Create \/ Recreate
    BY <1>3, <2>1 DEF BeginPublish, Publish, StoreWord, CommitSlot,
       StoreProducerSeq, Stop, Create, Recreate, ZeroNextSlot, ZeroWord
  <2>2. ASSUME NEW q \in Readers, SeekToLatest(q) PROVE FALSE
    BY <1>2, <2>2 DEF SeekToLatest, SeekTo
  <2>3. ASSUME NEW q \in Readers, Recv(q) PROVE Accept(q)
    BY <1>3, <2>3 DEF Recv, LoadProducer, ReloadProducer, LoadSeqBefore,
       CopyWord, LoadSeqAfter, Reject
  <2> QED
    BY <1>3, <2>1, <2>2, <2>3 DEF Next
<1> QED
  BY <1>1, <1>4

\* Frames are handed out in order, from the newest one at the last seek on.
THEOREM NeverBackwardsHolds == ASSUME Undisturbed PROVE Spec => NeverBackwards
<1>1. ASSUME RingInv, [Next]_vars, NEW r \in Readers, got'[r] # got[r]
      PROVE  got'[r].seq >= owed[r]
  <2>1. Accept(r)
    BY <1>1, OnlyAcceptDelivers DEF RingInv
  <2>2. got'[r].seq = rnext[r]
    BY <1>1, <2>1 DEF Accept, RingInv, TypeOK
  <2>3. /\ rnext[r] \in Nat /\ lastSeen[r] \in Nat /\ owed[r] \in Nat
        /\ CursorInv(r)
    BY <1>1 DEF RingInv, TypeOK, ReaderInv
  <2> QED
    BY <2>1, <2>2, <2>3 DEF Accept, CursorInv
<1>2. RingInv /\ [Next]_vars
         => [\A r \in Readers : got'[r] # got[r] => got'[r].seq >= owed[r]]_vars
  BY <1>1
<1> QED
  BY <1>2, InvariantHolds, PTL DEF Spec, NeverBackwards

\* A frame that passes the second look was not yet due to be overwritten.
THEOREM FreshDeliveryHolds == ASSUME Undisturbed PROVE Spec => FreshDelivery
<1> DEFINE Fresh(r) == seqAfter'[r] # seqAfter[r] /\ seqAfter'[r] = rnext[r]
                          => rnext[r] + SlotCount > producerSeq
<1>1. ASSUME RingInv, RingInv', [Next]_vars, NEW r \in Readers PROVE Fresh(r)
  <2> SUFFICES ASSUME seqAfter'[r] # seqAfter[r], seqAfter'[r] = rnext[r]
               PROVE  rnext[r] + SlotCount > producerSeq
    OBVIOUS
  <2>1. /\ rnext[r] \in Nat /\ rnext[r] \in Int /\ seqAfter[r] \in Nat
        /\ producerSeq \in Nat /\ CursorInv(r) /\ lastSeen[r] \in Nat
        /\ seqAfter \in [Readers -> Nat]
    BY <1>1 DEF RingInv, TypeOK, ReaderInv
  <2>2. seqAfter'[r] # 0
    BY <2>1 DEF CursorInv
  <2>3. LoadSeqAfter(r)
    <3>1. ASSUME NEW q \in Readers, NEW n, Return(q, n) \/ NextAttempt(q, n)
          PROVE  FALSE
      BY <2>1, <2>2, <3>1 DEF Return, NextAttempt
    <3>2. ASSUME NEW q \in Readers, Recv(q) PROVE LoadSeqAfter(r)
      <4>1. ASSUME NEW p, PickFrame(q, p) PROVE FALSE
        BY <3>1, <4>1 DEF PickFrame, LookFor
      <4>2. ~LoadProducer(q) /\ ~ReloadProducer(q)
        BY <3>1, <4>1 DEF LoadProducer, ReloadProducer, copyVars
      <4>3. ~LoadSeqBefore(q)
        BY <3>1 DEF LoadSeqBefore
      <4>4. ~Accept(q) /\ \A i \in 1..Words : ~CopyWord(q, i)
        BY <3>1 DEF Accept, CopyWord
      <4>5. ~Reject(q)
        BY <2>1, <2>2, <3>1 DEF Reject
      <4>6. LoadSeqAfter(q) => q = r
        BY <2>1 DEF LoadSeqAfter
      <4> QED
        BY <3>2, <4>2, <4>3, <4>4, <4>5, <4>6 DEF Recv
    <3>3. ASSUME NEW q \in Readers, SeekToLatest(q) PROVE FALSE
      BY <3>3 DEF SeekToLatest, SeekTo, copyVars
    <3>4. ~UNCHANGED readerVars /\ ~UNCHANGED vars
      BY DEF readerVars, copyVars, vars
    <3>5. ~(BeginPublish \/ Publish \/ Stop \/ Create \/ Recreate)
      BY <3>4 DEF BeginPublish, Publish, StoreWord, CommitSlot,
         StoreProducerSeq, Stop, Create, Recreate, ZeroNextSlot, ZeroWord
    <3> QED
      BY <1>1, <3>2, <3>3, <3>4, <3>5 DEF Next
  <2>4. slot[SlotOf(rnext[r])].seq = rnext[r]
    BY <2>1, <2>3 DEF LoadSeqAfter
  <2>5. SlotOf(rnext[r]) \in 0..SlotCount - 1 /\ SlotInv
    BY <1>1, <2>1, SlotOfRange DEF RingInv
  <2> QED
    BY <2>1, <2>2, <2>4, <2>5, RingAssumption DEF SlotInv
<1>2. RingInv /\ RingInv' /\ [Next]_vars => [\A r \in Readers : Fresh(r)]_vars
  BY <1>1
<1> QED
  BY <1>2, InvariantHolds, PTL DEF Spec, FreshDelivery

\* Under the same conditions the ring implements the lossy log.
THEOREM RingImplementsLog == ASSUME Undisturbed PROVE Spec => ImplementsLog
<1> DEFINE Out == [r \in Readers |-> IF got[r].seq > 0 /\ ~Whole(got[r])
                                     THEN -1 ELSE got[r].seq]
           Seqs == [r \in Readers |-> got[r].seq]
<1>1. Init => Log!LogInit
  BY DEF Init, Log!LogInit, EmptySlot
<1>2. ASSUME RingInv PROVE Out = Seqs
  <2>1. \A r \in Readers : got[r].seq > 0 => Whole(got[r])
    BY <1>2, WholeBody DEF RingInv, ReaderInv, GotInv
  <2> QED
    BY <2>1
<1>3. ASSUME RingInv' PROVE Out' = Seqs'
  <2>1. \A r \in Readers : got'[r].seq > 0 => Whole(got'[r])
    BY <1>3, WholeBody DEF RingInv, ReaderInv, GotInv
  <2> QED
    BY <2>1
<1>4. ASSUME RingInv, RingInv', [Next]_vars PROVE [Log!LogNext]_(Log!logVars)
  <2>1. /\ Out = Seqs /\ Out' = Seqs' /\ TypeOK
        /\ producerSeq \in Nat /\ DOMAIN got = Readers /\ DOMAIN got' = Readers
    BY <1>2, <1>3, <1>4 DEF RingInv, TypeOK
  <2>2. ASSUME UNCHANGED <<producerSeq, history>> PROVE UNCHANGED Log!logVars
    BY <2>1, <2>2 DEF Log!logVars, history
  <2>3. CASE StoreProducerSeq
    <3>1. /\ producerSeq' = producerSeq + 1 /\ UNCHANGED history
      BY <1>4, <2>3 DEF StoreProducerSeq, RingInv, ProducerInv
    <3>2. Log!Publish
      BY <2>1, <3>1 DEF Log!Publish, history
    <3> QED
      BY <3>2 DEF Log!LogNext
  <2>4. ASSUME NEW r \in Readers, Accept(r) PROVE Log!Deliver(r)
    <3>1. /\ rnext[r] \in Nat /\ owed[r] \in Nat /\ lastSeen[r] \in Nat
          /\ ReaderInv(r)
      BY <1>4 DEF RingInv, TypeOK
    <3>2. /\ got' = [got EXCEPT ![r] = [seq |-> rnext[r], data |-> buf[r]]]
          /\ owed' = [owed EXCEPT ![r] = rnext[r] + 1]
          /\ producerSeq' = producerSeq
          /\ rpc[r] = "copy"
      BY <2>4 DEF Accept, shared
    <3>3. /\ rnext[r] \in owed[r]..producerSeq
          /\ rnext[r] > owed[r] => producerSeq + 1 - owed[r] >= SlotCount
      BY <2>1, <3>1, <3>2, RingAssumption DEF ReaderInv, CursorInv, LossInv
    <3>4. Out' = [Out EXCEPT ![r] = rnext[r]]
      <4>1. Seqs' = [Seqs EXCEPT ![r] = rnext[r]]
        BY <2>1, <3>2
      <4> QED
        BY <2>1, <4>1
    <3> HIDE DEF Out, Seqs
    <3> QED
      BY <3>2, <3>3, <3>4 DEF Log!Deliver, Log!Unread, Out
  <2>5. ASSUME NEW r \in Readers, SeekToLatest(r) PROVE Log!SeekToLatest(r)
    <3>1. /\ producerSeq' = producerSeq /\ got' = got
          /\ owed' = [owed EXCEPT ![r] =
                          IF producerSeq > 0 THEN producerSeq ELSE 1]
      BY <2>5 DEF SeekToLatest, SeekTo, shared
    <3> QED
      BY <2>1, <3>1 DEF Log!SeekToLatest
  <2>6. ASSUME NEW r \in Readers, Recv(r), ~Accept(r)
        PROVE  UNCHANGED <<producerSeq, history>>
    BY <2>6 DEF Recv, LoadProducer, ReloadProducer, LoadSeqBefore, CopyWord,
                LoadSeqAfter, Reject, shared
  <2>7. CASE BeginPublish \/ Stop \/ CommitSlot
             \/ \E i \in SlotAccesses : StoreWord(i)
    BY <2>2, <2>7 DEF BeginPublish, Stop, CommitSlot, StoreWord, shared
  <2>8. ~Create /\ ~Recreate
    BY <1>4 DEF RingInv, ProducerInv, Undisturbed, Create, Recreate,
                ZeroNextSlot, ZeroWord
  <2>9. CASE UNCHANGED vars
    BY <2>2, <2>9 DEF vars, shared
  <2> QED
    BY <1>4, <2>2, <2>3, <2>4, <2>5, <2>6, <2>7, <2>8, <2>9
       DEF Next, Publish, Log!LogNext
<1> QED
  BY <1>1, <1>4, InvariantHolds, PTL DEF Spec, ImplementsLog, Log!LogSpec
====
