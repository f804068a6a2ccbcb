---- MODULE RingProperties ----
(***************************************************************************)
(* What a channel promises its subscribers, over the steps of Ring.        *)
(***************************************************************************)
EXTENDS Ring

Frames == [epoch : Nat, seq : Nat]
Bodies == [1..Words -> Frames]
Slots  == [seq : Nat, data : Bodies]

\* Every variable keeps its type; rleft and wleft name accesses of one slot.
TypeOK ==
    /\ slot \in [0..SlotCount - 1 -> Slots]
    /\ producerSeq \in Nat
    /\ epoch \in 1..MaxEpoch
    /\ wpc \in {"idle", "store", "count", "dead", "zero"}
    /\ wnext \in Nat
    /\ wleft \in SUBSET SlotAccesses
    /\ rpc \in [Readers -> {"load", "reload", "seqBefore", "copy"}]
    /\ lastSeen \in [Readers -> Nat]
    /\ rnext \in [Readers -> Nat]
    /\ attempt \in [Readers -> 1..Attempts]
    /\ retry \in [Readers -> 1..Retries]
    /\ rleft \in [Readers -> SUBSET SlotAccesses]
    /\ seqAfter \in [Readers -> Nat]
    /\ buf \in [Readers -> Bodies]
    /\ got \in [Readers -> Slots]
    /\ owed \in [Readers -> Nat]

Whole(f) == \A i \in 1..Words : f.data[i] = Frame(f.data[i].epoch, f.seq)
                                 /\ f.data[i].epoch = f.data[1].epoch

\* A frame recv returns is one frame the producer published, under its own
\* sequence number and never a mixture of two ("Subscribers re-read the seq
\* after the copy to confirm the slot wasn't overwritten mid-copy",
\* raccoon_ring.h:37-41).
NoTornFrame == \A r \in Readers : got[r].seq > 0 => Whole(got[r])

\* recv returns no frame older than one it already returned, nor one older
\* than the newest frame at the last seek (raccoon_ring.h:200-205).
NeverBackwards ==
    [][\A r \in Readers : got'[r] # got[r] => got'[r].seq >= owed[r]]_vars

\* A reader passes over a frame, or looks for one beyond the frame owed to it,
\* only after the producer began to overwrite the frame owed: a subscriber that
\* keeps up loses nothing (raccoon_ring.h:41-43).
LossOnlyWhenLapped ==
    \A r \in Readers : lastSeen[r] >= owed[r] \/ rnext[r] > owed[r]
                           => producerSeq + 1 >= owed[r] + SlotCount

\* A frame that passes the second look at its seq is among the slot_count
\* newest ones at that moment ("subscribers always see the most recent frames",
\* raccoon_ring.h:125-127).
FreshDelivery ==
    [][\A r \in Readers : seqAfter'[r] # seqAfter[r] /\ seqAfter'[r] = rnext[r]
          => rnext[r] + SlotCount > producerSeq]_vars

\* Once the producer has no more to publish every polling subscriber gets the
\* newest frame, the one a seek asked for included (raccoon_ring.h:200-205).  A
\* producer killed in the middle of a publish is excepted: a reader that saw
\* the new slot but not the new producer_seq has given up the frame before it.
CatchesUp == \A r \in Readers :
                 <>[](wpc = "idle") => <>[](got[r].seq = producerSeq)

(***************************************************************************)
(* Why it holds while the producer is not restarted and stores and loads   *)
(* of a slot keep their order.                                             *)
(***************************************************************************)
\* A slot that shows a seq holds that whole frame, one of the slot_count
\* newest and at most the one being published.
SlotInv ==
    \A k \in 0..SlotCount - 1 : slot[k].seq > 0 =>
        /\ SlotOf(slot[k].seq) = k
        /\ slot[k].seq <= producerSeq + 1
        /\ slot[k].seq + SlotCount >= producerSeq + 1
        /\ slot[k].data = Body(Frame(1, slot[k].seq))

\* A counted frame is in its slot until the slot is needed for a newer one.
WindowInv ==
    \A n \in 1..producerSeq :
        slot[SlotOf(n)].seq = n \/ n + SlotCount <= producerSeq + 1

\* The producer only ever has its next frame in hand.
ProducerInv ==
    /\ epoch = 1 /\ wpc # "zero"
    /\ wpc \in {"store", "count"} => wnext = producerSeq + 1
    /\ wpc = "store" =>
          /\ 0 \in wleft => wleft = SlotAccesses
          /\ 0 \notin wleft => slot[SlotOf(wnext)].seq = 0
          /\ \A i \in (1..Words) \ wleft :
                slot[SlotOf(wnext)].data[i] = Frame(1, wnext)
    /\ wpc = "count" => slot[SlotOf(wnext)].seq = wnext

\* A reader looks for a counted frame that it was not handed yet.
CursorInv(r) ==
    /\ lastSeen[r] <= producerSeq
    /\ owed[r] \in 1..lastSeen[r] + 1
    /\ rpc[r] \in {"seqBefore", "copy"} =>
          rnext[r] > lastSeen[r] /\ rnext[r] <= producerSeq
    /\ rpc[r] \notin {"seqBefore", "copy"} => rnext[r] = 0
    /\ rpc[r] # "copy" => seqAfter[r] = 0 /\ rleft[r] = {}

\* What was copied so far belongs to the frame looked for, unless its slot has
\* moved on, and then it never shows that seq again.
CopyInv(r) ==
    rpc[r] = "copy" =>
        /\ \/ /\ slot[SlotOf(rnext[r])].seq = rnext[r]
              /\ \A i \in (1..Words) \ rleft[r] : buf[r][i] = Frame(1, rnext[r])
           \/ /\ slot[SlotOf(rnext[r])].seq # rnext[r]
              /\ producerSeq + 1 >= rnext[r] + SlotCount
        /\ 0 \notin rleft[r] =>
              /\ rleft[r] = {}
              /\ seqAfter[r] = rnext[r] => buf[r] = Body(Frame(1, rnext[r]))

\* A frame is passed over only when the reader was lapped.
LossInv(r) == lastSeen[r] >= owed[r] \/ rnext[r] > owed[r]
                  => producerSeq + 1 >= owed[r] + SlotCount

GotInv(r) == got[r].seq > 0 => got[r].data = Body(Frame(1, got[r].seq))

ReaderInv(r) == CursorInv(r) /\ CopyInv(r) /\ LossInv(r) /\ GotInv(r)

RingInv == /\ TypeOK
           /\ SlotInv
           /\ WindowInv
           /\ ProducerInv
           /\ \A r \in Readers : ReaderInv(r)

\* Without a restart the ring implements the lossy log.
Log == INSTANCE RingLog WITH
           Capacity <- SlotCount,
           length <- producerSeq,
           cursor <- owed,
           out <- [r \in Readers |-> IF got[r].seq > 0 /\ ~Whole(got[r])
                                     THEN -1 ELSE got[r].seq]

\* A reader is handed whole frames of an append-only log, in order, and frames
\* are dropped only from a full ring.
ImplementsLog == Log!LogSpec

\* A frame is dropped only once the producer began to overwrite that frame
\* ("Jump to the oldest still-intact slot in the ring", "same data loss policy
\* as overrun above", raccoon_ring.c:588-601).
OnlyOverwrittenFramesLost ==
    \A r \in Readers : producerSeq + 1 >= lastSeen[r] + SlotCount
                       \/ lastSeen[r] < owed[r]

\* The first frame a reader gets of a new incarnation is its first one, unless
\* that was overwritten ("so we replay every still-intact frame from the
\* restarted producer, not just the current tail", raccoon_ring.c:579-582).
RestartReplays ==
    [][\A r \in Readers :
          got[r].data[1].epoch < got'[r].data[1].epoch /\ Whole(got'[r])
          => got'[r].seq = 1 \/ producerSeq + 1 >= got'[r].seq - 1 + SlotCount
      ]_vars

\* However the producer was restarted, the cursor of a polling reader arrives
\* at the quiet producer's count, and again after every seek: it does not "sit
\* forever waiting for a seq number the new producer will never reach"
\* (raccoon_ring.c:445-451, 560-563, 579-586).
CursorConverges == \A r \in Readers :
                       <>[](wpc = "idle") => []<>(lastSeen[r] = producerSeq)
====
