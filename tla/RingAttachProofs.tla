---- MODULE RingAttachProofs ----
(***************************************************************************)
(* Proofs about the file behind a channel: for any number of subscribers,  *)
(* files and restarts, any payloads and any sizes.                         *)
(***************************************************************************)
EXTENDS RingAttach, TLAPS

(***************************************************************************)
(* The invariant.                                                          *)
(***************************************************************************)
\* A counted frame was published by a producer that had written the header.
FileInv == \A f \in Files : file[f].producerSeq > 0 => file[f].slotCount > 0

\* What the producer has written of the header when it gets to a field.
WriterInv ==
    /\ path = None => used < MaxFiles
    /\ wpc \in Fields => layout.slotCount > 0
    /\ wpc \in {"slotSize", "maxPayload", "seq", "zero", "idle"}
           => file[wfile].slotCount > 0

\* A subscriber looks at a header only when it has one mapped, and for a slot
\* only when a frame was counted there.
ReaderInv(r) ==
    /\ rpc[r] \in Steps \cup {"header", "stat", "window", "seq", "copy"}
           => rfile[r] # None
    /\ rpc[r] \in {"attach", "header"} => resume[r] \in Steps \cup {"idle"}
    /\ rpc[r] \in {"window", "seq", "copy"} => file[rfile[r]].slotCount > 0
    /\ rpc[r] = "window" => lastSeen[r] < producer[r]
    /\ rpc[r] \in {"seq", "copy"} => rnext[r] \in 1..MaxSeq
    /\ lastSeen[r] <= MaxSeq

AttachInv == /\ TypeOK
             /\ FileInv
             /\ WriterInv
             /\ \A r \in Readers : ReaderInv(r)

(***************************************************************************)
(* Sizes.                                                                  *)
(***************************************************************************)
\* round_up does not round down.
LEMMA RoundUpBounds ==
    ASSUME NEW v \in Nat, NEW align \in Nat \ {0}
    PROVE  RoundUp(v, align) \in Nat /\ v <= RoundUp(v, align)
<1>1. \A n \in Nat, d \in Nat \ {0} : n \div d \in Int /\ n < d * (n \div d) + d
  OBVIOUS
<1>2. PICK x \in Nat : x = v + align - 1
  OBVIOUS
<1>3. PICK q \in Int : q = x \div align /\ x < align * q + align
  BY <1>1
<1>4. align * q \in Int /\ q * align = align * q
  OBVIOUS
<1>5. RoundUp(v, align) = align * q
  BY <1>2, <1>3, <1>4 DEF RoundUp
<1> QED
  BY <1>2, <1>3, <1>4, <1>5

LEMMA SlotStrideBounds ==
    ASSUME NEW payload \in Nat
    PROVE  SlotStride(payload) \in Nat /\ SlotHeader + payload <= SlotStride(payload)
  BY RoundUpBounds, AttachAssumption DEF SlotStride

LEMMA SizeRingType ==
    ASSUME NEW hint \in Hints
    PROVE  /\ SizeRing(hint) \in [slotCount : Nat \ {0}, maxPayload : Nat \ {0}]
           /\ FileSize(SizeRing(hint)) \in Nat
<1> DEFINE least == Larger(2 * hint, DefaultPayload)
           want == RoundUp(least, PayloadUnit)
           count == Smaller(Larger(Budget \div want, MinSlots), MaxSlots)
<1>1. want \in Nat \ {0}
  <2>1. least \in Nat \ {0} /\ PayloadUnit \in Nat \ {0}
    BY AttachAssumption DEF Larger
  <2> HIDE DEF least
  <2> QED
    BY <2>1, RoundUpBounds
<1>2. Budget \div want \in Int
  BY <1>1, AttachAssumption
<1>3. count \in Nat \ {0}
  BY <1>2, AttachAssumption DEF Larger, Smaller
<1>4. SizeRing(hint) = [slotCount |-> count, maxPayload |-> want]
  BY DEF SizeRing
<1> HIDE DEF want, count
<1>5. HeaderSize + count * SlotStride(want) \in Nat
  BY <1>1, <1>3, SlotStrideBounds, AttachAssumption
<1> QED
  BY <1>1, <1>3, <1>4, <1>5 DEF FileSize

LEMMA ConstantTypes ==
    /\ MaxSeq \in Nat /\ MaxCreates \in Nat
    /\ MaxFiles \in Nat \ {0} /\ Attempts \in Nat \ {0}
  BY AttachAssumption

LEMMA FileIndex ==
    ASSUME TypeOK, NEW n \in 0..used, n # None
    PROVE  n \in Files /\ file[n] \in Headers
<1>1. n \in Files
  BY AttachAssumption, SMTT(30) DEF TypeOK, Files, None
<1> QED
  BY <1>1 DEF TypeOK

\* The seq a subscriber finds is one that some frame has, or none.
LEMMA SeqFoundType ==
    ASSUME TypeOK, NEW r \in Readers, rfile[r] # None,
           file[rfile[r]].slotCount # 0, rnext[r] \in 1..MaxSeq
    PROVE  SeqFound(r) \subseteq 0..MaxSeq + 1
<1> DEFINE p == file[rfile[r]].producerSeq
           k == file[rfile[r]].slotCount
<1>1. p \in 0..MaxSeq /\ k \in Nat \ {0} /\ MaxSeq \in Nat
  <2>1. rfile[r] \in 0..used
    BY DEF TypeOK
  <2>2. file[rfile[r]] \in Headers
    BY <2>1, FileIndex
  <2> QED
    BY <2>2, AttachAssumption DEF Headers
<1> HIDE DEF p, k
<1>2. p - rnext[r] \in Int
  BY <1>1
<1>3. (p - rnext[r]) % k \in 0..k - 1
  BY <1>1, <1>2
<1>4. Larger(0, p - ((p - rnext[r]) % k)) \in 0..MaxSeq + 1
  BY <1>1, <1>3 DEF Larger
<1> QED
  BY <1>4 DEF SeqFound, InSlot, p, k

(***************************************************************************)
(* The producer.                                                           *)
(***************************************************************************)
\* Subscribers do not notice a step that takes no slot_count away.
LEMMA ReadersUndisturbed ==
    ASSUME AttachInv, UNCHANGED readerVars,
           \A f \in Files : file[f].slotCount > 0 => file'[f].slotCount > 0
    PROVE  \A r \in Readers : ReaderInv(r)'
<1> SUFFICES ASSUME NEW r \in Readers PROVE ReaderInv(r)'
  OBVIOUS
<1>1. ReaderInv(r) /\ rfile[r] \in 0..used /\ used \in 0..MaxFiles
  BY DEF AttachInv, TypeOK
<1>2. rpc' = rpc /\ rfile' = rfile /\ resume' = resume
      /\ lastSeen' = lastSeen /\ producer' = producer /\ rnext' = rnext
  BY DEF readerVars, mapping, recvVars
<1>3. rfile[r] # None => rfile[r] \in Files
  BY <1>1, AttachAssumption DEF Files, None
<1> QED
  BY <1>1, <1>2, <1>3 DEF ReaderInv, Steps

LEMMA CreateInv ==
    ASSUME AttachInv, NEW hint \in Hints, Create(hint)
    PROVE  AttachInv'
<1> DEFINE l == SizeRing(hint)
<1>1. TypeOK
  BY DEF AttachInv
<1>2. /\ l \in [slotCount : Nat \ {0}, maxPayload : Nat \ {0}]
      /\ FileSize(l) \in Nat
  BY SizeRingType
<1>3. Opened \in Files /\ Opened # None /\ Larger(used, Opened) \in 0..MaxFiles
      /\ used <= Larger(used, Opened) /\ Opened = Larger(used, Opened)
  BY <1>1, AttachAssumption, SMTT(30)
     DEF TypeOK, Opened, Larger, Files, None, AttachInv, WriterInv
<1>4. file' = [file EXCEPT ![Opened].size = FileSize(l)]
      /\ UNCHANGED readerVars /\ wpc' = "magic" /\ layout' = l
      /\ wfile' = Opened /\ path' = Opened /\ used' = Larger(used, Opened)
      /\ creates' = creates + 1 /\ creates < MaxCreates /\ relaid' \in BOOLEAN
  BY <1>1 DEF Create, TypeOK
<1> HIDE DEF l
<1>5. file' \in [Files -> Headers]
      /\ \A f \in Files : /\ file'[f].slotCount = file[f].slotCount
                          /\ file'[f].producerSeq = file[f].producerSeq
  BY <1>1, <1>2, <1>3, <1>4 DEF TypeOK, Headers
<1>6. TypeOK'
  <2>1. \A r \in Readers : rfile[r] \in 0..used'
    BY <1>1, <1>3, <1>4, AttachAssumption DEF TypeOK
  <2>2. rfile' \in [Readers -> 0..used']
    BY <1>1, <1>4, <2>1 DEF TypeOK, readerVars, mapping
  <2>3. creates' \in 0..MaxCreates
    BY <1>1, <1>4, AttachAssumption DEF TypeOK
  <2>4. wfile' \in 0..used' /\ (wfile' = None <=> wpc' = "none")
        /\ path' \in {None, used'}
    BY <1>3, <1>4, AttachAssumption DEF None, Files
  <2>5. layout' \in [slotCount : Nat, maxPayload : Nat]
    BY <1>2, <1>4
  <2> QED
    BY <1>1, <1>3, <1>4, <1>5, <2>2, <2>3, <2>4, <2>5
       DEF TypeOK, Fields, readerVars, mapping, recvVars
<1>7. FileInv'
  BY <1>5 DEF AttachInv, FileInv
<1>8. WriterInv'
  BY <1>2, <1>3, <1>4 DEF WriterInv
<1>9. \A r \in Readers : ReaderInv(r)'
  BY <1>4, <1>5, ReadersUndisturbed
<1> QED
  BY <1>6, <1>7, <1>8, <1>9 DEF AttachInv

LEMMA WriteHeaderInv ==
    ASSUME AttachInv, WriteHeader
    PROVE  AttachInv'
<1>1. TypeOK /\ wfile \in Files /\ layout \in [slotCount : Nat, maxPayload : Nat]
      /\ layout.slotCount > 0 /\ file[wfile] \in Headers
  <2>1. wpc \in Fields /\ wpc # "none"
    BY DEF WriteHeader, WriteMagic, WriteSlotCount, WriteSlotSize,
           WriteMaxPayload, ResetProducerSeq, ZeroSlots, Write, Fields
  <2>2. TypeOK /\ wfile \in 0..used /\ wfile # None
    BY <2>1 DEF AttachInv, TypeOK
  <2> QED
    BY <2>1, <2>2, FileIndex DEF AttachInv, WriterInv, TypeOK
<1>2. /\ UNCHANGED <<path, used, wfile, layout, creates, relaid, readerVars>>
      /\ wpc' \in (Fields \ {"magic"}) \cup {"idle"}
      /\ wpc # "none"
  BY DEF WriteHeader, WriteMagic, WriteSlotCount, WriteSlotSize,
         WriteMaxPayload, ResetProducerSeq, ZeroSlots, Write, Fields
<1>3. /\ file' \in [Files -> Headers]
      /\ \A f \in Files : file[f].slotCount > 0 => file'[f].slotCount > 0
      /\ FileInv'
      /\ wpc' \in {"slotSize", "maxPayload", "seq", "zero", "idle"}
             => file'[wfile].slotCount > 0
  <2> USE <1>1 DEF TypeOK, Headers, AttachInv, FileInv, WriterInv, Write
  <2>1. CASE WriteMagic
    BY <2>1 DEF WriteMagic
  <2>2. CASE WriteSlotCount
    BY <2>2 DEF WriteSlotCount
  <2>3. CASE WriteSlotSize
    <3>1. SlotStride(layout.maxPayload) \in Nat
      BY SlotStrideBounds
    <3> QED
      BY <2>3, <3>1 DEF WriteSlotSize
  <2>4. CASE WriteMaxPayload
    BY <2>4 DEF WriteMaxPayload
  <2>5. CASE ResetProducerSeq
    BY <2>5, AttachAssumption DEF ResetProducerSeq
  <2>6. CASE ZeroSlots
    BY <2>6 DEF ZeroSlots
  <2> QED
    BY <2>1, <2>2, <2>3, <2>4, <2>5, <2>6 DEF WriteHeader
<1>4. TypeOK'
  BY <1>1, <1>2, <1>3 DEF TypeOK, Fields, readerVars, mapping, recvVars
<1>5. WriterInv'
  BY <1>1, <1>2, <1>3 DEF WriterInv, AttachInv
<1>6. \A r \in Readers : ReaderInv(r)'
  BY <1>2, <1>3, ReadersUndisturbed
<1> QED
  BY <1>3, <1>4, <1>5, <1>6 DEF AttachInv

LEMMA PublishInv ==
    ASSUME AttachInv, Publish
    PROVE  AttachInv'
<1>1. TypeOK /\ wfile \in Files /\ file[wfile] \in Headers
      /\ file[wfile].slotCount > 0
  <2>1. wpc = "idle" /\ TypeOK /\ wfile \in 0..used /\ wfile # None
    BY DEF AttachInv, TypeOK, Publish
  <2> QED
    BY <2>1, FileIndex DEF AttachInv, WriterInv
<1>2. file' = [file EXCEPT ![wfile].producerSeq = @ + 1]
      /\ file[wfile].producerSeq < MaxSeq
      /\ UNCHANGED <<path, used, writerVars, readerVars>>
  BY DEF Publish
<1>3. /\ file' \in [Files -> Headers]
      /\ \A f \in Files : file'[f].slotCount = file[f].slotCount
      /\ FileInv'
  BY <1>1, <1>2, AttachAssumption DEF TypeOK, Headers, AttachInv, FileInv
<1>4. TypeOK'
  BY <1>1, <1>2, <1>3 DEF TypeOK, writerVars, readerVars, mapping, recvVars
<1>5. WriterInv'
  BY <1>1, <1>2, <1>3 DEF WriterInv, AttachInv, writerVars
<1>6. \A r \in Readers : ReaderInv(r)'
  BY <1>2, <1>3, ReadersUndisturbed
<1> QED
  BY <1>3, <1>4, <1>5, <1>6 DEF AttachInv

LEMMA StopInv ==
    ASSUME AttachInv, Stop \/ Unlink
    PROVE  AttachInv'
<1>1. TypeOK'
  BY AttachAssumption
     DEF Stop, Unlink, AttachInv, TypeOK, storage, writerVars, readerVars,
         mapping, recvVars, None
<1>2. FileInv' /\ WriterInv'
  BY DEF Stop, Unlink, AttachInv, FileInv, WriterInv, storage, writerVars, Fields
<1>3. \A r \in Readers : ReaderInv(r)'
  BY ReadersUndisturbed DEF Stop, Unlink, storage
<1> QED
  BY <1>1, <1>2, <1>3 DEF AttachInv

(***************************************************************************)
(* The subscribers.                                                        *)
(***************************************************************************)
CallType ==
    /\ rpc \in [Readers -> Steps \cup {"closed", "idle", "attach", "header", "stat",
                                       "window", "seq", "copy", "dead"}]
    /\ call \in [Readers -> {"none", "open", "recv", "seek"}]
    /\ resume \in [Readers -> Steps \cup {"none", "idle"}]
    /\ attempt \in [Readers -> 1..Attempts]
    /\ producer \in [Readers -> 0..MaxSeq]
    /\ rnext \in [Readers -> 0..MaxSeq + 2]

LEMMA ReturnType ==
    ASSUME CallType, NEW r \in Readers, Return(r)
    PROVE  CallType'
<1>1. 1 \in 1..Attempts /\ 0 \in 0..MaxSeq /\ 0 \in 0..MaxSeq + 2
  BY ConstantTypes
<1> QED
  BY <1>1 DEF CallType, Return, Goto

Local(r) == <<rpc[r], rfile[r], resume[r], lastSeen[r], producer[r], rnext[r]>>

\* A step of one subscriber leaves the others and the producer where they are.
LEMMA ReaderStep ==
    ASSUME AttachInv, UNCHANGED <<file, writerVars>>, TypeOK', WriterInv',
           NEW r \in Readers, ReaderInv(r)',
           \A q \in Readers \ {r} : Local(q)' = Local(q)
    PROVE  AttachInv'
<1>1. FileInv'
  BY DEF AttachInv, FileInv
<1>2. ASSUME NEW q \in Readers \ {r} PROVE ReaderInv(q)'
  BY <1>2 DEF AttachInv, ReaderInv, Local
<1> QED
  BY <1>1, <1>2 DEF AttachInv

LEMMA OpenInv ==
    ASSUME AttachInv, NEW r \in Readers, Open(r)
    PROVE  AttachInv'
<1>1. TypeOK /\ ReaderInv(r) /\ WriterInv
  BY DEF AttachInv
<1>2. Opened = Larger(used, Opened) /\ Larger(used, Opened) \in used..MaxFiles
      /\ Opened # None
  BY <1>1, AttachAssumption DEF TypeOK, Opened, Larger, None, WriterInv
<1>3. /\ path' = Larger(used, Opened) /\ used' = Larger(used, Opened)
      /\ UNCHANGED <<file, writerVars, rfile, rsize, stride, recvVars>>
      /\ rpc' = [rpc EXCEPT ![r] = "attach"]
      /\ resume' = [resume EXCEPT ![r] = "idle"]
      /\ call' = [call EXCEPT ![r] = "open"]
  BY <1>2 DEF Open, Attach, Goto
<1>4. used' \in 0..MaxFiles /\ used <= used' /\ used \in Nat /\ path' # None
  BY <1>1, <1>2, <1>3, AttachAssumption DEF TypeOK
<1>5. TypeOK'
  <2>1. wfile' \in 0..used' /\ (wfile' = None <=> wpc' = "none")
    BY <1>1, <1>3, <1>4, AttachAssumption DEF TypeOK, writerVars
  <2>2. \A q \in Readers : rfile[q] \in 0..used'
    BY <1>1, <1>4, AttachAssumption DEF TypeOK
  <2>3. rfile' \in [Readers -> 0..used']
    BY <1>1, <1>3, <2>2 DEF TypeOK
  <2> QED
    BY <1>1, <1>3, <1>4, <2>1, <2>3 DEF TypeOK, writerVars, recvVars
<1>6. WriterInv'
  BY <1>1, <1>3, <1>4 DEF WriterInv, writerVars
<1>7. ReaderInv(r)' /\ \A q \in Readers \ {r} : Local(q)' = Local(q)
  BY <1>1, <1>3 DEF ReaderInv, Local, TypeOK, recvVars, Steps
<1> QED
  BY <1>3, <1>5, <1>6, <1>7, ReaderStep

LEMMA IdleInv ==
    ASSUME AttachInv, NEW r \in Readers, Close(r) \/ Begin(r)
    PROVE  AttachInv'
<1>1. TypeOK /\ ReaderInv(r) /\ WriterInv /\ UNCHANGED <<storage, writerVars>>
  BY DEF AttachInv, Close, Begin
<1>2. TypeOK'
  BY <1>1, AttachAssumption
     DEF Close, Begin, Goto, Detach, Attach, TypeOK, storage, writerVars,
         recvVars, Steps, None
<1>3. WriterInv'
  BY <1>1 DEF WriterInv, storage, writerVars
<1>4. ReaderInv(r)'
  BY <1>1, AttachAssumption
     DEF Close, Begin, Goto, Detach, Attach, ReaderInv, TypeOK, storage,
         recvVars, Steps, None
<1>5. \A q \in Readers \ {r} : Local(q)' = Local(q)
  BY <1>1 DEF Close, Begin, Goto, Detach, Attach, Local, TypeOK, recvVars
<1> QED
  BY <1>1, <1>2, <1>3, <1>4, <1>5, ReaderStep DEF storage

LEMMA AttachStepInv ==
    ASSUME AttachInv, NEW r \in Readers,
           Map(r) \/ CheckHeader(r) \/ CheckSlotSize(r) \/ CheckUnlinked(r)
    PROVE  AttachInv'
<1>1. TypeOK /\ ReaderInv(r) /\ WriterInv /\ UNCHANGED <<storage, writerVars>>
  BY DEF AttachInv, Map, CheckHeader, CheckSlotSize, CheckUnlinked
<1>2. TypeOK'
  <2>1. CASE Map(r)
    <3>1. Materialised => path \in 0..used /\ path # None /\ used \in Nat
      BY <1>1 DEF Materialised, TypeOK
    <3>2. Materialised => file[path] \in Headers
      BY <1>1, <3>1, FileIndex
    <3>3. CallType'
      BY <1>1, <2>1, ReturnType DEF Map, Goto, CallType, TypeOK
    <3>4. rfile' \in [Readers -> 0..used] /\ rsize' \in [Readers -> Nat]
      BY <1>1, <2>1, <3>1, <3>2 DEF Map, TypeOK, Headers
    <3> QED
      BY <1>1, <2>1, <3>3, <3>4
         DEF Map, TypeOK, CallType, storage, writerVars
  <2>2. CASE CheckHeader(r)
    <3>1. rfile[r] \in 0..used /\ rfile[r] # None
      BY <1>1, <2>2 DEF CheckHeader, ReaderInv, TypeOK
    <3>2. file[rfile[r]] \in Headers
      BY <1>1, <3>1, FileIndex
    <3>3. resume[r] \in Steps \cup {"idle"}
      BY <1>1, <2>2 DEF CheckHeader, ReaderInv
    <3>4. CallType'
      BY <1>1, <2>2, <3>3, ReturnType DEF CheckHeader, Goto, CallType, TypeOK
    <3>5. None \in 0..used
      BY <1>1 DEF TypeOK, None
    <3>6. /\ rfile' \in [Readers -> 0..used] /\ rsize' \in [Readers -> Nat]
          /\ stride' \in [Readers -> Nat]
      BY <1>1, <2>2, <3>2, <3>5 DEF CheckHeader, TypeOK, Headers
    <3> QED
      BY <1>1, <2>2, <3>4, <3>6
         DEF CheckHeader, TypeOK, CallType, storage, writerVars
  <2>3. CASE CheckSlotSize(r) \/ CheckUnlinked(r)
    BY <1>1, <2>3, AttachAssumption
       DEF CheckSlotSize, CheckUnlinked, Goto, Detach, Attach, TypeOK, storage,
           writerVars, mapping, Steps, None
  <2> QED
    BY <2>1, <2>2, <2>3
<1>3. WriterInv'
  BY <1>1 DEF WriterInv, storage, writerVars
<1>4. ReaderInv(r)'
  <2>1. CASE Map(r)
    BY <1>1, <2>1
       DEF Map, Materialised, Goto, Return, ReaderInv, TypeOK, Steps
  <2>2. CASE CheckHeader(r)
    BY <1>1, <2>2 DEF CheckHeader, Goto, Return, ReaderInv, TypeOK, Steps
  <2>3. CASE CheckSlotSize(r) \/ CheckUnlinked(r)
    BY <1>1, <2>3, AttachAssumption
       DEF CheckSlotSize, CheckUnlinked, Goto, Detach, Attach, ReaderInv,
           TypeOK, mapping, Steps
  <2> QED
    BY <2>1, <2>2, <2>3
<1>5. \A q \in Readers \ {r} : Local(q)' = Local(q)
  BY <1>1 DEF Map, CheckHeader, CheckSlotSize, CheckUnlinked, Goto, Return,
              Detach, Attach, Local, TypeOK, mapping
<1> QED
  BY <1>1, <1>2, <1>3, <1>4, <1>5, ReaderStep DEF storage

LEMMA LoadInv ==
    ASSUME AttachInv, NEW r \in Readers,
           LoadProducer(r) \/ ReloadProducer(r) \/ SeekToLatest(r)
    PROVE  AttachInv'
<1> DEFINE p == file[rfile[r]].producerSeq
<1>1. TypeOK /\ ReaderInv(r) /\ WriterInv /\ UNCHANGED <<storage, writerVars>>
      /\ UNCHANGED <<rfile, rsize, stride>>
  BY DEF AttachInv, LoadProducer, ReloadProducer, SeekToLatest
<1>2. rfile[r] \in Files /\ p \in 0..MaxSeq
  <2>1. rfile[r] \in 0..used /\ rfile[r] # None
    BY <1>1 DEF LoadProducer, ReloadProducer, SeekToLatest, ReaderInv, TypeOK,
                Steps
  <2> QED
    BY <1>1, <2>1, FileIndex DEF Headers
<1>3. p > 0 => file[rfile[r]].slotCount > 0
  BY <1>2 DEF AttachInv, FileInv
<1>4. \/ /\ p # lastSeen[r]
         /\ Pick(r, p)
      \/ /\ rpc' \in {[rpc EXCEPT ![r] = "stat"], [rpc EXCEPT ![r] = "idle"]}
         /\ lastSeen' = [lastSeen EXCEPT ![r] =
                             IF rpc[r] # "seek" THEN @
                             ELSE IF p > 0 THEN p - 1 ELSE 0]
         /\ \/ Return(r)
            \/ UNCHANGED <<call, resume, attempt, producer, rnext>>
  BY <1>1 DEF LoadProducer, ReloadProducer, SeekToLatest, Goto, Return, TypeOK,
              recvVars
<1> HIDE DEF p
<1>5. TypeOK'
  <2>1. lastSeen' \in [Readers -> 0..MaxSeq + 1]
    BY <1>1, <1>2, <1>4, AttachAssumption DEF Pick, TypeOK
  <2>2. CallType
    BY <1>1 DEF TypeOK, CallType
  <2>3. CallType'
    <3>1. CASE Return(r)
      BY <2>2, <3>1, ReturnType
    <3>2. CASE ~Return(r)
      BY <1>2, <1>4, <2>2, <3>2 DEF Pick, Goto, CallType
    <3> QED
      BY <3>1, <3>2
  <2> QED
    BY <1>1, <2>1, <2>3 DEF TypeOK, CallType, storage, writerVars
<1>6. WriterInv'
  BY <1>1 DEF WriterInv, storage, writerVars
<1>7. lastSeen'[r] <= MaxSeq /\ (rpc'[r] = "window" => lastSeen'[r] < producer'[r])
  BY <1>1, <1>2, <1>4, AttachAssumption, SMTT(30) DEF Pick, Goto, Return, ReaderInv, TypeOK
<1>8. /\ rfile'[r] # None /\ file' = file /\ rfile' = rfile
      /\ rpc'[r] \in {"stat", "idle", "window"}
      /\ rpc'[r] = "window" => p > 0
  <2>1. rfile[r] # None
    BY <1>2, ConstantTypes DEF Files, None
  <2>2. rpc'[r] \in {"stat", "idle", "window"} /\ (rpc'[r] = "window" => p > 0)
    BY <1>1, <1>4 DEF Pick, Goto, Return, TypeOK
  <2> QED
    BY <1>1, <2>1, <2>2 DEF storage
<1>9. ReaderInv(r)'
  BY <1>3, <1>7, <1>8 DEF ReaderInv
<1>10. \A q \in Readers \ {r} : Local(q)' = Local(q)
  BY <1>1, <1>4 DEF Pick, Goto, Return, Local, TypeOK
<1> QED
  BY <1>1, <1>5, <1>6, <1>9, <1>10, ReaderStep DEF storage

LEMMA SlotStepInv ==
    ASSUME AttachInv, NEW r \in Readers,
           Window(r) \/ LoadSeq(r) \/ Copy(r) \/ Fault(r)
    PROVE  AttachInv'
<1> DEFINE n == file[rfile[r]].slotCount
<1>1. TypeOK /\ ReaderInv(r) /\ WriterInv /\ UNCHANGED <<storage, writerVars>>
      /\ UNCHANGED <<rfile, rsize, stride>>
  BY DEF AttachInv, Window, LoadSeq, Copy, Fault, mapping
<1>2. rfile[r] # None /\ n \in Nat \ {0} /\ lastSeen[r] \in 0..MaxSeq
      /\ producer[r] \in 0..MaxSeq /\ MaxSeq \in Nat
  <2>1. rfile[r] \in 0..used /\ rfile[r] # None /\ n > 0
    BY <1>1 DEF Window, LoadSeq, Copy, Fault, ReaderInv, TypeOK
  <2>2. file[rfile[r]] \in Headers
    BY <1>1, <2>1, FileIndex
  <2> QED
    BY <1>1, <2>1, <2>2, AttachAssumption DEF Headers, ReaderInv, TypeOK
<1>3. WriterInv'
  BY <1>1 DEF WriterInv, storage, writerVars
<1>4. \A q \in Readers \ {r} : Local(q)' = Local(q)
  BY <1>1 DEF Window, LoadSeq, Copy, Fault, Goto, Return, Local, TypeOK,
              mapping, recvVars
<1>5. CASE Window(r)
  <2>1. rnext'[r] \in 1..MaxSeq
    BY <1>1, <1>2, <1>5 DEF Window, ReaderInv, TypeOK
  <2>2. TypeOK'
    BY <1>1, <1>2, <1>5, <2>1, AttachAssumption
       DEF Window, Goto, TypeOK, storage, writerVars, mapping
  <2>3. ReaderInv(r)'
    BY <1>1, <1>2, <1>5, <2>1
       DEF Window, Goto, ReaderInv, TypeOK, storage, Steps
  <2> QED
    BY <1>1, <1>3, <1>4, <2>2, <2>3, ReaderStep DEF storage
<1>6. CASE LoadSeq(r)
  <2>1. rpc[r] = "seq" /\ rnext[r] \in 1..MaxSeq
    BY <1>1, <1>6 DEF LoadSeq, ReaderInv
  <2>2. PICK seq \in SeqFound(r) :
            \/ lastSeen' = [lastSeen EXCEPT ![r] = rnext[r]] /\ Return(r)
            \/ /\ seq > rnext[r]
               /\ lastSeen' = [lastSeen EXCEPT ![r] = seq - 1]
               /\ \/ Return(r)
                  \/ /\ attempt[r] < Attempts
                     /\ attempt' = [attempt EXCEPT ![r] = @ + 1]
                     /\ producer' = [producer EXCEPT ![r] = 0]
                     /\ rnext' = [rnext EXCEPT ![r] = 0]
                     /\ Goto(r, "size")
                     /\ UNCHANGED <<call, resume>>
            \/ Goto(r, "copy") /\ UNCHANGED <<call, resume, recvVars>>
    BY <1>6 DEF LoadSeq
  <2>3. seq \in 0..MaxSeq + 1
    BY <1>1, <1>2, <2>1, SeqFoundType
  <2>4. TypeOK'
    BY <1>1, <1>2, <2>1, <2>2, <2>3, AttachAssumption, SMTT(30)
       DEF Goto, Return, TypeOK, storage, writerVars, recvVars, Steps
  <2>5. ReaderInv(r)'
    BY <1>1, <1>2, <2>1, <2>2, <2>3, AttachAssumption
       DEF Goto, Return, ReaderInv, TypeOK, storage, recvVars, Steps
  <2> QED
    BY <1>1, <1>3, <1>4, <2>4, <2>5, ReaderStep DEF storage
<1>7. CASE Copy(r)
  <2>1. rnext[r] \in 1..MaxSeq
    BY <1>1, <1>7 DEF Copy, ReaderInv
  <2>2. TypeOK'
    BY <1>1, <1>2, <1>7, <2>1, AttachAssumption
       DEF Copy, Goto, Return, TypeOK, storage, writerVars
  <2>3. ReaderInv(r)'
    BY <1>1, <1>2, <1>7, <2>1, AttachAssumption
       DEF Copy, Goto, Return, ReaderInv, TypeOK, storage, Steps
  <2> QED
    BY <1>1, <1>3, <1>4, <2>2, <2>3, ReaderStep DEF storage
<1>8. CASE Fault(r)
  <2>1. TypeOK'
    BY <1>1, <1>8
       DEF Fault, Goto, TypeOK, storage, writerVars, mapping, recvVars, Steps
  <2>2. ReaderInv(r)'
    BY <1>1, <1>8
       DEF Fault, Goto, ReaderInv, TypeOK, storage, mapping, recvVars, Steps
  <2> QED
    BY <1>1, <1>3, <1>4, <2>1, <2>2, ReaderStep DEF storage
<1> QED
  BY <1>5, <1>6, <1>7, <1>8

(***************************************************************************)
(* One layout.                                                             *)
(***************************************************************************)
\* Nothing was written to the file yet.
Blank(f) == f.size = 0 /\ f.slotCount = None /\ f.slotSize = None /\ f.maxPayload = None

\* The file has the size of the layout, and its header nothing but that layout.
Fitted(f) == /\ layout # Unwanted
             /\ f.size = FileSize(layout)
             /\ f.slotCount \in {None, layout.slotCount}
             /\ f.slotSize \in {None, SlotStride(layout.maxPayload)}
             /\ f.maxPayload \in {None, layout.maxPayload}

FitReader(r) ==
    /\ rfile[r] # None => Fitted(file[rfile[r]]) /\ rsize[r] = FileSize(layout)
    /\ \/ stride[r] = 0
       \/ layout # Unwanted /\ stride[r] = SlotStride(layout.maxPayload)

LayoutInv == ~relaid =>
    /\ \A f \in Files : Blank(file[f]) \/ Fitted(file[f])
    /\ wpc # "none" => Fitted(file[wfile])
    /\ \A r \in Readers : FitReader(r)

LEMMA InitLayout == Init => LayoutInv
<1> SUFFICES ASSUME Init PROVE LayoutInv
  OBVIOUS
<1>1. \A f \in Files : Blank(file[f])
  BY DEF Init, Blank, EmptyFile
<1>2. wpc = "none" /\ \A r \in Readers : rfile[r] = None /\ stride[r] = 0
  BY DEF Init
<1> QED
  BY <1>1, <1>2 DEF LayoutInv, FitReader

\* A step that keeps to the layout disturbs no subscriber.
LEMMA KeepsLayout ==
    ASSUME AttachInv, LayoutInv, ~relaid, ~relaid', UNCHANGED readerVars,
           layout = Unwanted \/ UNCHANGED layout,
           \A f \in Files : Fitted(file[f]) => Fitted(file[f])'
    PROVE  \A r \in Readers : FitReader(r)'
<1> SUFFICES ASSUME NEW r \in Readers PROVE FitReader(r)'
  OBVIOUS
<1>1. FitReader(r) /\ UNCHANGED <<rfile, rsize, stride>>
  BY DEF LayoutInv, readerVars, mapping
<1>2. CASE layout = Unwanted
  BY <1>1, <1>2 DEF FitReader, Fitted
<1>3. CASE layout # Unwanted
  <2>1. rfile[r] # None => rfile[r] \in Files
    BY FileIndex DEF AttachInv, TypeOK
  <2> QED
    BY <1>1, <1>3, <2>1 DEF FitReader
<1> QED
  BY <1>2, <1>3

LEMMA CreateLayout ==
    ASSUME AttachInv, LayoutInv, NEW hint \in Hints, Create(hint), ~relaid'
    PROVE  LayoutInv'
<1> DEFINE l == SizeRing(hint)
<1>1. /\ ~relaid /\ layout \in {Unwanted, l} /\ layout' = l /\ l # Unwanted
      /\ UNCHANGED readerVars /\ wfile' = Opened
      /\ file' = [file EXCEPT ![Opened].size = FileSize(l)]
  <2>1. ~relaid /\ layout \in {Unwanted, l}
    BY DEF Create, AttachInv, TypeOK
  <2>2. l # Unwanted
    BY SizeRingType DEF Unwanted, None
  <2> QED
    BY <2>1, <2>2 DEF Create
<1>2. PICK g \in Files : g = Opened
  <2>1. Opened \in Files
    BY ConstantTypes DEF Create, AttachInv, WriterInv, TypeOK, Opened, Files, None
  <2> QED
    BY <2>1
<1> HIDE DEF l
<1>3. /\ file \in [Files -> Headers] /\ wfile' = g
      /\ \A f \in Files \ {g} : file'[f] = file[f]
      /\ file'[g] = [file[g] EXCEPT !.size = FileSize(l)]
  BY <1>1, <1>2 DEF AttachInv, TypeOK
<1>4. Fitted(file[g])'
  <2>1. /\ file'[g].size = FileSize(l)
        /\ file'[g].slotCount = file[g].slotCount
        /\ file'[g].slotSize = file[g].slotSize
        /\ file'[g].maxPayload = file[g].maxPayload
    BY <1>3 DEF Headers
  <2>2. Blank(file[g]) \/ Fitted(file[g])
    BY <1>1 DEF LayoutInv
  <2> QED
    BY <1>1, <2>1, <2>2 DEF Blank, Fitted
<1>5. ASSUME NEW f \in Files PROVE Fitted(file[f]) => Fitted(file[f])'
  BY <1>1, <1>3, <1>4 DEF Fitted
<1>6. ASSUME NEW f \in Files PROVE Blank(file[f])' \/ Fitted(file[f])'
  BY <1>1, <1>3, <1>4, <1>5 DEF Blank, LayoutInv
<1>7. \A r \in Readers : FitReader(r)'
  BY <1>1, <1>5, KeepsLayout
<1>8. Fitted(file[wfile])'
  BY <1>3, <1>4 DEF Fitted
<1> QED
  BY <1>6, <1>7, <1>8 DEF LayoutInv

LEMMA WriterLayout ==
    ASSUME AttachInv, LayoutInv, WriteHeader \/ Publish, ~relaid'
    PROVE  LayoutInv'
<1>1. UNCHANGED <<layout, relaid, wfile, readerVars>> /\ wpc # "none"
  BY DEF WriteHeader, WriteMagic, WriteSlotCount, WriteSlotSize,
         WriteMaxPayload, ResetProducerSeq, ZeroSlots, Write, Publish, writerVars
<1>2. wfile \in Files /\ file \in [Files -> Headers] /\ Fitted(file[wfile])
  <2>1. TypeOK /\ wfile \in 0..used /\ wfile # None
    BY <1>1 DEF AttachInv, TypeOK
  <2> QED
    BY <1>1, <2>1, FileIndex DEF TypeOK, LayoutInv
<1>3. /\ \A f \in Files \ {wfile} : file'[f] = file[f]
      /\ \E h \in Headers :
             /\ file'[wfile] = h
             /\ h.size = file[wfile].size
             /\ h.slotCount \in {file[wfile].slotCount, layout.slotCount}
             /\ h.slotSize \in {file[wfile].slotSize, SlotStride(layout.maxPayload)}
             /\ h.maxPayload \in {file[wfile].maxPayload, layout.maxPayload}
  <2>1. \A f \in Files \ {wfile} : file'[f] = file[f]
    BY <1>2 DEF WriteHeader, WriteMagic, WriteSlotCount, WriteSlotSize,
         WriteMaxPayload, ResetProducerSeq, ZeroSlots, Publish
  <2>2. file'[wfile] \in Headers
    <3>1. TypeOK'
      BY WriteHeaderInv, PublishInv DEF AttachInv
    <3> QED
      BY <1>2, <3>1 DEF TypeOK
  <2>3. /\ file'[wfile].size = file[wfile].size
        /\ file'[wfile].slotCount \in {file[wfile].slotCount, layout.slotCount}
        /\ file'[wfile].slotSize \in {file[wfile].slotSize, SlotStride(layout.maxPayload)}
        /\ file'[wfile].maxPayload \in {file[wfile].maxPayload, layout.maxPayload}
    BY <1>2 DEF WriteHeader, WriteMagic, WriteSlotCount, WriteSlotSize,
         WriteMaxPayload, ResetProducerSeq, ZeroSlots, Publish, Headers
  <2> QED
    BY <2>1, <2>2, <2>3
<1>4. Fitted(file[wfile])'
  BY <1>1, <1>2, <1>3 DEF Fitted
<1>5. ASSUME NEW f \in Files
      PROVE  /\ Fitted(file[f]) => Fitted(file[f])'
             /\ Blank(file[f])' \/ Fitted(file[f])'
  BY <1>1, <1>3, <1>4 DEF LayoutInv, Fitted, Blank
<1>6. \A r \in Readers : FitReader(r)'
  BY <1>1, <1>5, KeepsLayout
<1> QED
  BY <1>1, <1>4, <1>5, <1>6 DEF LayoutInv

\* A subscriber that maps a file or reads its header takes the layout from there.
LEMMA ReaderLayout ==
    ASSUME AttachInv, LayoutInv, NEW r \in Readers,
           Open(r) \/ Close(r) \/ Begin(r) \/ Run(r), ~relaid'
    PROVE  LayoutInv'
<1>1. UNCHANGED <<file, writerVars>>
  BY DEF Open, Close, Begin, Run, Map, CheckHeader, CheckSlotSize, LoadProducer,
         CheckUnlinked, ReloadProducer, Window, LoadSeq, Copy, Fault, SeekToLatest,
         storage
<1>2. ~relaid /\ TypeOK
  BY <1>1 DEF writerVars, AttachInv
<1>3. /\ \A f \in Files : Blank(file[f])' \/ Fitted(file[f])'
      /\ wpc' # "none" => Fitted(file[wfile])'
  BY <1>1, <1>2 DEF LayoutInv, Blank, Fitted, writerVars
<1>4. ASSUME NEW q \in Readers,
             \/ rfile'[q] = None
             \/ /\ rfile'[q] = rfile[q] /\ rsize'[q] = rsize[q]
             \/ /\ Fitted(file[rfile'[q]]) /\ rsize'[q] = file[rfile'[q]].size,
             \/ stride'[q] \in {0, stride[q]}
             \/ /\ rfile[q] # None /\ stride'[q] = file[rfile[q]].slotSize
      PROVE  FitReader(q)'
  BY <1>1, <1>2, <1>4 DEF LayoutInv, FitReader, Fitted, writerVars, None
<1>5. ASSUME NEW q \in Readers, UNCHANGED <<rfile[q], rsize[q], stride[q]>>
      PROVE  FitReader(q)'
  BY <1>4, <1>5
<1>6. ASSUME NEW q \in Readers \ {r}
      PROVE  UNCHANGED <<rfile[q], rsize[q], stride[q]>>
  BY <1>2 DEF Open, Close, Begin, Run, Map, CheckHeader, CheckSlotSize,
         LoadProducer, CheckUnlinked, ReloadProducer, Window, LoadSeq, Copy, Fault,
         SeekToLatest, Detach, mapping, TypeOK
<1>7. FitReader(r)'
  <2>1. CASE Map(r)
    <3>1. Materialised => Fitted(file[path])
      <4>1. Materialised => path \in Files /\ ~Blank(file[path])
        <5>1. Materialised => path \in Files
          BY <1>2, FileIndex DEF Materialised, TypeOK
        <5>2. HeaderSize > 0
          BY AttachAssumption
        <5> QED
          <6>1. Materialised => file[path].size >= HeaderSize
            BY DEF Materialised
          <6>2. ~ (0 >= HeaderSize)
            BY <5>2, AttachAssumption
          <6> QED
            BY <5>1, <6>1, <6>2 DEF Blank
      <4> QED
        BY <1>2, <4>1 DEF LayoutInv
    <3>2. \/ UNCHANGED <<rfile[r], rsize[r]>>
          \/ Materialised /\ rfile'[r] = path /\ rsize'[r] = file[path].size
      BY <1>2, <2>1 DEF Map, TypeOK
    <3>3. stride'[r] = stride[r]
      BY <2>1 DEF Map
    <3> QED
      BY <1>4, <3>1, <3>2, <3>3
  <2>2. CASE CheckHeader(r)
    <3>1. rfile[r] # None
      BY <2>2 DEF CheckHeader, AttachInv, ReaderInv
    <3>2. /\ rfile'[r] = None \/ UNCHANGED <<rfile[r], rsize[r]>>
          /\ stride'[r] = stride[r] \/ stride'[r] = file[rfile[r]].slotSize
      BY <1>2, <2>2 DEF CheckHeader, TypeOK
    <3> QED
      BY <1>4, <3>1, <3>2
  <2>3. CASE CheckSlotSize(r) \/ CheckUnlinked(r) \/ Close(r)
    <3>1. \/ UNCHANGED <<rfile[r], rsize[r], stride[r]>>
          \/ rfile'[r] = None /\ stride'[r] = 0
      BY <1>2, <2>3 DEF CheckSlotSize, CheckUnlinked, Close, Detach, mapping, TypeOK
    <3> QED
      BY <1>4, <1>5, <3>1
  <2>4. CASE \/ Open(r) \/ Begin(r) \/ LoadProducer(r) \/ ReloadProducer(r)
             \/ Window(r) \/ LoadSeq(r) \/ Copy(r) \/ Fault(r) \/ SeekToLatest(r)
    <3>1. UNCHANGED <<rfile, rsize, stride>>
      BY <2>4 DEF Open, Begin, LoadProducer, ReloadProducer, Window, LoadSeq, Copy,
                  Fault, SeekToLatest, mapping
    <3> QED
      BY <1>5, <3>1
  <2> QED
    BY <2>1, <2>2, <2>3, <2>4 DEF Run
<1> QED
  BY <1>3, <1>5, <1>6, <1>7 DEF LayoutInv

LEMMA NextLayout == AttachInv /\ LayoutInv /\ [Next]_vars => LayoutInv'
<1> SUFFICES ASSUME AttachInv, LayoutInv, [Next]_vars, ~relaid' PROVE LayoutInv'
  BY DEF LayoutInv
<1>1. ASSUME UNCHANGED <<file, layout, relaid, wfile, readerVars>>,
             wpc' # "none" => wpc # "none"
      PROVE  LayoutInv'
  BY <1>1 DEF LayoutInv, FitReader, Fitted, Blank, readerVars, mapping
<1>2. CASE UNCHANGED vars
  BY <1>1, <1>2 DEF vars, storage, writerVars
<1>3. CASE Stop
  BY <1>3 DEF Stop, LayoutInv, FitReader, Fitted, Blank, storage, readerVars, mapping
<1>4. CASE Unlink
  BY <1>1, <1>4 DEF Unlink, writerVars
<1>5. CASE Next
  BY <1>3, <1>4, <1>5, CreateLayout, WriterLayout, ReaderLayout DEF Next
<1> QED
  BY <1>2, <1>5

\* The last slot ends where the file does.
LEMMA SlotsFit ==
    ASSUME NEW a \in Nat, NEW n \in Nat, NEW s \in Nat, a < n
    PROVE  a * s + s <= n * s /\ a * s \in Nat /\ n * s \in Nat
<1> DEFINE d == n - a - 1
<1>1. d \in Nat /\ n = a + 1 + d
  OBVIOUS
<1> HIDE DEF d
<1>2. n * s = a * s + s + d * s
  BY <1>1
<1>3. d * s >= 0
  BY <1>1
<1>4. a * s \in Nat /\ d * s \in Nat /\ n * s \in Nat
  BY <1>1
<1> QED
  BY <1>2, <1>3, <1>4

LEMMA LayoutInBounds == AttachInv /\ LayoutInv => SameLayoutInBounds
<1> SUFFICES ASSUME AttachInv, LayoutInv, ~relaid,
                    NEW r \in Readers, rpc[r] \in {"seq", "copy"}
             PROVE  InBounds(r)
  BY DEF SameLayoutInBounds, AccessInBounds
<1> DEFINE f == file[rfile[r]]
           n == layout.slotCount
           s == SlotStride(layout.maxPayload)
           a == (rnext[r] - 1) % f.slotCount
<1>1. /\ rfile[r] # None /\ f.slotCount > 0 /\ rnext[r] \in 1..MaxSeq
      /\ layout \in [slotCount : Nat, maxPayload : Nat]
      /\ f \in Headers
  <2>1. rfile[r] # None /\ f.slotCount > 0 /\ rnext[r] \in 1..MaxSeq
    BY DEF AttachInv, ReaderInv
  <2> QED
    BY <2>1, FileIndex DEF AttachInv, TypeOK
<1>2. /\ f.slotCount \in {0, n} /\ f.maxPayload \in {0, layout.maxPayload}
      /\ f.size = FileSize(layout) /\ rsize[r] = FileSize(layout)
      /\ stride[r] \in {0, s}
  BY <1>1 DEF LayoutInv, FitReader, Fitted, None
<1>3. n \in Nat \ {0} /\ f.slotCount = n /\ layout.maxPayload \in Nat
  BY <1>1, <1>2
<1>4. /\ HeaderSize \in Nat /\ SlotHeader \in Nat /\ s \in Nat
      /\ SlotHeader + layout.maxPayload <= s /\ SlotHeader <= s
  <2>1. s \in Nat /\ SlotHeader + layout.maxPayload <= s
    BY <1>3, SlotStrideBounds
  <2> QED
    BY <1>3, <2>1, AttachAssumption
<1>5. a \in Nat /\ a < n
  <2>1. rnext[r] - 1 \in Nat
    BY <1>1, ConstantTypes
  <2> QED
    BY <1>3, <2>1
<1>6. FileSize(layout) = HeaderSize + n * s
  BY DEF FileSize
<1>7. Reach(r) = HeaderSize + a * stride[r]
                     + IF rpc[r] = "copy" THEN SlotHeader + f.maxPayload ELSE SlotHeader
  BY DEF Reach, SlotAddress
<1> HIDE DEF f, n, s, a
<1>8. a * s + s <= n * s /\ a * s \in Nat /\ n * s \in Nat
  BY <1>3, <1>4, <1>5, SlotsFit
<1>9. a * stride[r] \in {0, a * s}
  BY <1>2, <1>4, <1>5
<1>10. (IF rpc[r] = "copy" THEN SlotHeader + f.maxPayload ELSE SlotHeader) \in 0..s
  BY <1>2, <1>3, <1>4
<1>11. Reach(r) <= FileSize(layout)
  BY <1>4, <1>6, <1>7, <1>8, <1>9, <1>10
<1> QED
  BY <1>2, <1>11 DEF InBounds, f

(***************************************************************************)
(* The theorems.                                                           *)
(***************************************************************************)
LEMMA InitInv == Init => AttachInv
<1> SUFFICES ASSUME Init PROVE AttachInv
  OBVIOUS
<1>1. EmptyFile \in Headers
  BY AttachAssumption DEF EmptyFile, Headers, None
<1>2. TypeOK
  <2>1. 0 \in 0..MaxSeq /\ 0 \in 0..MaxSeq + 1 /\ 0 \in 0..MaxSeq + 2
        /\ 1 \in 1..Attempts /\ 0 \in 0..MaxCreates /\ 0 \in 0..MaxFiles
    BY ConstantTypes
  <2>2. file \in [Files -> Headers]
    BY <1>1 DEF Init
  <2>3. layout \in [slotCount : Nat, maxPayload : Nat]
    BY DEF Init, Unwanted, None
  <2>4. /\ used \in 0..MaxFiles /\ path \in {None, used}
        /\ wpc \in Fields \cup {"none", "idle"}
        /\ wfile \in 0..used /\ (wfile = None <=> wpc = "none")
        /\ creates \in 0..MaxCreates /\ relaid \in BOOLEAN
    <3>1. used = 0 /\ path = 0 /\ wpc = "none" /\ wfile = 0 /\ creates = 0
          /\ relaid = FALSE
      BY DEF Init, None
    <3>2. used \in 0..MaxFiles /\ wfile \in 0..used /\ creates \in 0..MaxCreates
      BY <2>1, <3>1
    <3>3. wfile = None <=> wpc = "none"
      BY <3>1 DEF None
    <3>4. relaid \in BOOLEAN
      BY <3>1
    <3> QED
      BY <3>1, <3>2, <3>3, <3>4 DEF None
  <2>5. CallType
    BY <2>1 DEF Init, CallType
  <2>6. rfile \in [Readers -> 0..used]
    BY DEF Init, None
  <2>7. /\ rsize \in [Readers -> Nat] /\ stride \in [Readers -> Nat]
        /\ lastSeen \in [Readers -> 0..MaxSeq + 1]
    BY <2>1 DEF Init
  <2> QED
    BY <2>2, <2>3, <2>4, <2>5, <2>6, <2>7 DEF TypeOK, CallType
<1>3. FileInv
  BY DEF Init, FileInv, EmptyFile
<1>4. WriterInv
  BY AttachAssumption DEF Init, WriterInv, Fields
<1>5. \A r \in Readers : ReaderInv(r)
  <2> SUFFICES ASSUME NEW r \in Readers PROVE ReaderInv(r)
    OBVIOUS
  <2>1. rpc[r] = "closed" /\ lastSeen[r] = 0
    BY DEF Init
  <2> QED
    BY <2>1, ConstantTypes DEF ReaderInv, Steps
<1> QED
  BY <1>2, <1>3, <1>4, <1>5 DEF AttachInv

LEMMA NextInv == AttachInv /\ [Next]_vars => AttachInv'
<1> SUFFICES ASSUME AttachInv, [Next]_vars PROVE AttachInv'
  OBVIOUS
<1>1. CASE UNCHANGED vars
  <2>1. UNCHANGED <<storage, writerVars, readerVars>>
    BY <1>1 DEF vars
  <2>2. TypeOK' /\ FileInv' /\ WriterInv'
    BY <2>1 DEF AttachInv, TypeOK, FileInv, WriterInv, storage, writerVars,
                readerVars, mapping, recvVars
  <2>3. \A r \in Readers : ReaderInv(r)'
    BY <2>1, ReadersUndisturbed DEF storage
  <2> QED
    BY <2>2, <2>3 DEF AttachInv
<1>2. CASE Next
  BY <1>2, CreateInv, WriteHeaderInv, PublishInv, StopInv, OpenInv, IdleInv,
     AttachStepInv, LoadInv, SlotStepInv DEF Next, Run
<1> QED
  BY <1>1, <1>2

\* Every variable keeps its type, however often producers create, re-create and
\* lose the file, whoever removes it, and whatever a subscriber finds there.
THEOREM TypeCorrect == Spec => []TypeOK
<1>1. AttachInv => TypeOK
  BY DEF AttachInv
<1> QED
  BY <1>1, InitInv, NextInv, PTL DEF Spec

\* recv reads slot_count anew for every slot and divides by it
\* (raccoon_ring.c:598); although the header may be half written or be written
\* again under the subscriber, the divisor is never 0.
THEOREM SlotCountIsSetHolds == Spec => []SlotCountIsSet
<1>1. AttachInv => SlotCountIsSet
  BY DEF AttachInv, SlotCountIsSet, ReaderInv
<1> QED
  BY <1>1, InitInv, NextInv, PTL DEF Spec

\* As long as every incarnation of the producer wants the same layout, recv touches
\* nothing past the end of its mapping or of the file (raccoon_ring.c:484-485,
\* 587-640), whatever is unlinked, re-created or half written meanwhile, and for
\* any sizes of headers and payloads.
THEOREM SameLayoutInBoundsHolds == Spec => []SameLayoutInBounds
<1>1. Init => AttachInv /\ LayoutInv
  BY InitInv, InitLayout
<1>2. AttachInv /\ LayoutInv /\ [Next]_vars => (AttachInv /\ LayoutInv)'
  BY NextInv, NextLayout
<1> QED
  BY <1>1, <1>2, LayoutInBounds, PTL DEF Spec
====
