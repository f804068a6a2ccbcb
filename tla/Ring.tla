---- MODULE Ring ----
(***************************************************************************)
(* One channel of cpp/src/raccoon_ring.c: a ring of slots in shared memory *)
(* written by a single producer and read by any number of subscribers,     *)
(* each slot guarded by a SeqLock.  Every load and store of shared memory  *)
(* is a step of its own.  The channel's layout is fixed here and every     *)
(* reader is attached; RingAttach models the file and its layout, RingWake *)
(* the futex that parks an idle reader.                                    *)
(***************************************************************************)
EXTENDS Integers

CONSTANTS Readers,    \* the subscribers of the channel
          SlotCount,  \* slot_count
          Words,      \* a slot's body: word 1 is len, the others the payload
          Attempts,   \* iterations of recv's outer loop (8 in the code)
          Retries,    \* iterations of its SeqLock loop (3 in the code)
          MaxEpoch,   \* bound: incarnations of the producer
          MaxSeq,     \* bound: frames published by one incarnation
          Ordered     \* the body is stored after the slot is cleared, and
                      \* loaded before its seq is read again.  FALSE: only
                      \* the order the C11 annotations ask for

ASSUME RingAssumption ==
    /\ SlotCount \in Nat \ {0}
    /\ Words \in Nat \ {0}
    /\ Attempts \in Nat \ {0}
    /\ Retries \in Nat \ {0}
    /\ MaxEpoch \in Nat \ {0}
    /\ MaxSeq \in Nat
    /\ Ordered \in BOOLEAN

VARIABLES slot,         \* the slots: seq, and for each body word its frame
          producerSeq,  \* header: producer_seq
          epoch,        \* which incarnation of the producer wrote the header
          wpc,          \* what the producer is doing
          wnext,        \* `next` in rrb_writer_publish, the slot being zeroed
                        \* (counted from 1) in shm_open_mmap
          wleft,        \* the stores to slot wnext still to be performed
          rpc,          \* where each reader is in rrb_reader_recv
          lastSeen,     \* last_seen
          rnext,        \* `next` in rrb_reader_recv
          attempt,      \* `attempt`, counted from 1
          retry,        \* `retry`, counted from 1
          rleft,        \* loads of the slot still to be performed
          seqAfter,     \* `seq_after`
          buf,          \* the caller's buffer
          got,          \* history: the frame the last successful recv returned
          owed          \* history: the first frame not yet returned or given up
                        \* by a seek

shared     == <<slot, producerSeq, epoch>>
writerVars == <<wpc, wnext, wleft>>
copyVars   == <<rnext, retry, rleft, seqAfter, buf>>
readerVars == <<rpc, lastSeen, attempt, copyVars>>
history    == <<got, owed>>
vars       == <<shared, writerVars, readerVars, history>>

\* A body word holds the identity of the frame it was written for.
Frame(e, n) == [epoch |-> e, seq |-> n]
Body(f) == [i \in 1..Words |-> f]
Blank == Frame(0, 0)

\* 0 stands for the slot's seq among the stores and loads of a slot.
SlotAccesses == 0..Words

\* seq 1 lives in slot 0, seq 2 in slot 1, ...
SlotOf(n) == (n - 1) % SlotCount

\* A slot no frame was written to; also: no frame received yet.
EmptySlot == [seq |-> 0, data |-> Body(Blank)]

Init == /\ slot = [k \in 0..SlotCount - 1 |-> EmptySlot]
        /\ producerSeq = 0
        /\ epoch = 1
        /\ wpc = "idle" /\ wnext = 0 /\ wleft = {}
        /\ rpc = [r \in Readers |-> "load"]
        /\ lastSeen = [r \in Readers |-> 0]
        /\ attempt = [r \in Readers |-> 1]
        /\ rnext = [r \in Readers |-> 0]
        /\ retry = [r \in Readers |-> 1]
        /\ rleft = [r \in Readers |-> {}]
        /\ seqAfter = [r \in Readers |-> 0]
        /\ buf = [r \in Readers |-> Body(Blank)]
        /\ got = [r \in Readers |-> EmptySlot]
        /\ owed = [r \in Readers |-> 1]

(***************************************************************************)
(* The producer: rrb_writer_publish.                                       *)
(***************************************************************************)
BeginPublish ==
    /\ wpc = "idle"
    /\ producerSeq < MaxSeq
    /\ wnext' = producerSeq + 1
    /\ wleft' = SlotAccesses
    /\ wpc' = "store"
    /\ UNCHANGED <<shared, readerVars, history>>

\* Mutant: the body may be stored before the slot is marked as being written.
MayStoreUnmarked(i) == i \in wleft

\* A release store orders the accesses before it, so the body may become
\* visible before the slot is cleared unless the machine keeps stores in order.
MayStore(i) == i \in wleft /\ (Ordered /\ i # 0 => 0 \notin wleft)

StoreWord(i) ==
    /\ wpc = "store"
    /\ MayStore(i)
    /\ slot' = IF i = 0
               THEN [slot EXCEPT ![SlotOf(wnext)].seq = 0]
               ELSE [slot EXCEPT ![SlotOf(wnext)].data[i] = Frame(epoch, wnext)]
    /\ wleft' = wleft \ {i}
    /\ UNCHANGED <<producerSeq, epoch, wpc, wnext, readerVars, history>>

CommitSlot ==
    /\ wpc = "store"
    /\ wleft = {}
    /\ slot' = [slot EXCEPT ![SlotOf(wnext)].seq = wnext]
    /\ wpc' = "count"
    /\ UNCHANGED <<producerSeq, epoch, wnext, wleft, readerVars, history>>

StoreProducerSeq ==
    /\ wpc = "count"
    /\ producerSeq' = wnext
    /\ wpc' = "idle"
    /\ UNCHANGED <<slot, epoch, wnext, wleft, readerVars, history>>

\* The process dies between any two stores, or destroys its handle between
\* two publishes: either way the file stays as it is.
Stop ==
    /\ wpc # "dead"
    /\ wpc' = "dead"
    /\ wleft' = {}
    /\ UNCHANGED <<shared, wnext, readerVars, history>>

\* rrb_writer_create on the existing file: the layout fields are rewritten
\* with the same values, producer_seq goes back to 0, then the slots are
\* cleared one after the other.
Create ==
    /\ wpc = "dead"
    /\ epoch < MaxEpoch
    /\ producerSeq' = 0
    /\ epoch' = epoch + 1
    /\ wpc' = "zero"
    /\ wnext' = 1
    /\ wleft' = {0, 1}
    /\ UNCHANGED <<slot, readerVars, history>>

\* Clears seq (0) or len (1) of the slot.
ZeroWord(i) ==
    /\ wpc = "zero"
    /\ MayStore(i)
    /\ slot' = IF i = 0
               THEN [slot EXCEPT ![SlotOf(wnext)].seq = 0]
               ELSE [slot EXCEPT ![SlotOf(wnext)].data[i] = Blank]
    /\ wleft' = wleft \ {i}
    /\ UNCHANGED <<producerSeq, epoch, wpc, wnext, readerVars, history>>

ZeroNextSlot ==
    /\ wpc = "zero"
    /\ wleft = {}
    /\ \/ /\ wnext < SlotCount
          /\ wnext' = wnext + 1
          /\ wleft' = {0, 1}
          /\ UNCHANGED wpc
       \/ /\ wnext = SlotCount
          /\ wpc' = "idle"
          /\ UNCHANGED <<wnext, wleft>>
    /\ UNCHANGED <<shared, readerVars, history>>

(***************************************************************************)
(* A reader: rrb_reader_recv.  pc "load" with attempt 1 is a reader        *)
(* between two calls.                                                      *)
(***************************************************************************)
\* The call returns with last_seen = n; its locals are forgotten.
Return(r, n) ==
    /\ rpc' = [rpc EXCEPT ![r] = "load"]
    /\ lastSeen' = [lastSeen EXCEPT ![r] = n]
    /\ attempt' = [attempt EXCEPT ![r] = 1]
    /\ rnext' = [rnext EXCEPT ![r] = 0]
    /\ retry' = [retry EXCEPT ![r] = 1]
    /\ rleft' = [rleft EXCEPT ![r] = {}]
    /\ seqAfter' = [seqAfter EXCEPT ![r] = 0]
    /\ buf' = [buf EXCEPT ![r] = Body(Blank)]

\* The outer loop goes round with last_seen = n, or gives up.
NextAttempt(r, n) ==
    \/ attempt[r] = Attempts /\ Return(r, n)
    \/ /\ attempt[r] < Attempts
       /\ attempt' = [attempt EXCEPT ![r] = @ + 1]
       /\ rpc' = [rpc EXCEPT ![r] = "load"]
       /\ lastSeen' = [lastSeen EXCEPT ![r] = n]
       /\ rnext' = [rnext EXCEPT ![r] = 0]
       /\ retry' = [retry EXCEPT ![r] = 1]
       /\ rleft' = [rleft EXCEPT ![r] = {}]
       /\ seqAfter' = [seqAfter EXCEPT ![r] = 0]
       /\ buf' = [buf EXCEPT ![r] = Body(Blank)]

\* Mutant: go for the newest frame at once.
NewestFrame(p, seen) == p

\* The frame to look for when producer_seq is p: the one after last_seen, or
\* the oldest the ring still holds when the producer has lapped the reader.
NextFrame(p, seen) ==
    IF p - seen > SlotCount - 1 THEN p - (SlotCount - 1) ELSE seen + 1

\* producer_seq moved backwards: the producer was restarted.
Rewound(r, p) == IF p < lastSeen[r] THEN 0 ELSE lastSeen[r]

LookFor(r, seen, n) ==
    /\ lastSeen' = [lastSeen EXCEPT ![r] = seen]
    /\ rnext' = [rnext EXCEPT ![r] = n]
    /\ rpc' = [rpc EXCEPT ![r] = "seqBefore"]
    /\ UNCHANGED <<attempt, retry, rleft, seqAfter, buf>>

\* Mutant: a producer that is behind the reader is taken for one without news.
PickWithoutRewind(r, p) ==
    \/ p < lastSeen[r] /\ Return(r, lastSeen[r])
    \/ p > lastSeen[r] /\ LookFor(r, lastSeen[r], NextFrame(p, lastSeen[r]))

PickFrame(r, p) ==
    \/ p = 0 /\ Return(r, 0)
    \/ p > 0 /\ LookFor(r, Rewound(r, p), NextFrame(p, Rewound(r, p)))

LoadProducer(r) ==
    /\ rpc[r] = "load"
    /\ \/ /\ producerSeq = lastSeen[r]
          /\ rpc' = [rpc EXCEPT ![r] = "reload"]
          /\ UNCHANGED <<lastSeen, attempt, copyVars>>
       \/ /\ producerSeq # lastSeen[r]
          /\ PickFrame(r, producerSeq)
    /\ UNCHANGED <<shared, writerVars, history>>

\* No news: producer_seq is read once more after the file was checked for an
\* unlink.
ReloadProducer(r) ==
    /\ rpc[r] = "reload"
    /\ \/ producerSeq = lastSeen[r] /\ Return(r, lastSeen[r])
       \/ producerSeq # lastSeen[r] /\ PickFrame(r, producerSeq)
    /\ UNCHANGED <<shared, writerVars, history>>

LoadSeqBefore(r) ==
    /\ rpc[r] = "seqBefore"
    /\ LET seqBefore == slot[SlotOf(rnext[r])].seq IN
       \/ seqBefore < rnext[r] /\ Return(r, rnext[r])
       \/ seqBefore > rnext[r] /\ NextAttempt(r, seqBefore - 1)
       \/ /\ seqBefore = rnext[r]
          /\ rpc' = [rpc EXCEPT ![r] = "copy"]
          /\ rleft' = [rleft EXCEPT ![r] = SlotAccesses]
          /\ UNCHANGED <<lastSeen, attempt, rnext, retry, seqAfter, buf>>
    /\ UNCHANGED <<shared, writerVars, history>>

\* An acquire load orders the accesses after it, so seq may be read again
\* before the body unless the machine keeps loads in order.
MayLoad(r, i) == i \in rleft[r] /\ (Ordered /\ i = 0 => rleft[r] = {0})

CopyWord(r, i) ==
    /\ rpc[r] = "copy"
    /\ i # 0
    /\ MayLoad(r, i)
    /\ buf' = [buf EXCEPT ![r][i] = slot[SlotOf(rnext[r])].data[i]]
    /\ rleft' = [rleft EXCEPT ![r] = @ \ {i}]
    /\ UNCHANGED <<shared, writerVars, rpc, lastSeen, attempt, rnext, retry,
                   seqAfter, history>>

\* Mutant: the copy is accepted without a second look at the slot.
NoSecondLook(r) ==
    /\ rpc[r] = "copy"
    /\ MayLoad(r, 0)
    /\ seqAfter' = [seqAfter EXCEPT ![r] = rnext[r]]
    /\ rleft' = [rleft EXCEPT ![r] = @ \ {0}]
    /\ UNCHANGED <<shared, writerVars, rpc, lastSeen, attempt, rnext, retry,
                   buf, history>>

LoadSeqAfter(r) ==
    /\ rpc[r] = "copy"
    /\ MayLoad(r, 0)
    /\ seqAfter' = [seqAfter EXCEPT ![r] = slot[SlotOf(rnext[r])].seq]
    /\ rleft' = [rleft EXCEPT ![r] = @ \ {0}]
    /\ UNCHANGED <<shared, writerVars, rpc, lastSeen, attempt, rnext, retry,
                   buf, history>>

\* The copy is returned.
Accept(r) ==
    /\ rpc[r] = "copy"
    /\ rleft[r] = {}
    /\ seqAfter[r] = rnext[r]
    /\ got' = [got EXCEPT ![r] = [seq |-> rnext[r], data |-> buf[r]]]
    /\ owed' = [owed EXCEPT ![r] = rnext[r] + 1]
    /\ Return(r, rnext[r])
    /\ UNCHANGED <<shared, writerVars>>

\* The slot was overwritten during the copy: read it again.
Reject(r) ==
    /\ rpc[r] = "copy"
    /\ rleft[r] = {}
    /\ seqAfter[r] # rnext[r]
    /\ \/ retry[r] = Retries /\ NextAttempt(r, lastSeen[r])
       \/ /\ retry[r] < Retries
          /\ retry' = [retry EXCEPT ![r] = @ + 1]
          /\ rpc' = [rpc EXCEPT ![r] = "seqBefore"]
          /\ seqAfter' = [seqAfter EXCEPT ![r] = 0]
          /\ buf' = [buf EXCEPT ![r] = Body(Blank)]
          /\ UNCHANGED <<lastSeen, attempt, rnext, rleft>>
    /\ UNCHANGED <<shared, writerVars, history>>

SeekTo(r, n) ==
    /\ rpc[r] = "load"
    /\ attempt[r] = 1
    /\ lastSeen' = [lastSeen EXCEPT ![r] = n]
    /\ owed' = [owed EXCEPT ![r] = IF producerSeq > 0 THEN producerSeq ELSE 1]
    /\ UNCHANGED <<shared, writerVars, rpc, attempt, copyVars, got>>

\* Mutants: the newest frame counts as seen; one frame too many is handed
\* out; an empty ring is not told apart.
SeekPastLatest(r) == SeekTo(r, producerSeq)
SeekBeforeLatest(r) == SeekTo(r, IF producerSeq > 1 THEN producerSeq - 2 ELSE 0)
SeekUnguarded(r) == SeekTo(r, producerSeq - 1)

\* rrb_reader_seek_to_latest, between two calls of recv.
SeekToLatest(r) == SeekTo(r, IF producerSeq > 0 THEN producerSeq - 1 ELSE 0)

Recv(r) == \/ LoadProducer(r)
           \/ ReloadProducer(r)
           \/ LoadSeqBefore(r)
           \/ \E i \in 1..Words : CopyWord(r, i)
           \/ LoadSeqAfter(r)
           \/ Accept(r)
           \/ Reject(r)

Publish == \/ \E i \in SlotAccesses : StoreWord(i)
           \/ CommitSlot
           \/ StoreProducerSeq

Recreate == ZeroNextSlot \/ \E i \in {0, 1} : ZeroWord(i)

Next == \/ BeginPublish
        \/ Publish
        \/ Stop
        \/ Create
        \/ Recreate
        \/ \E r \in Readers : Recv(r) \/ SeekToLatest(r)

Spec == Init /\ [][Next]_vars

\* A subscriber keeps polling, and a producer that began to publish or to
\* create the ring goes on; nothing makes it begin, stop or come back.
Fairness == /\ WF_vars(Publish)
            /\ WF_vars(Recreate)
            /\ \A r \in Readers : WF_vars(Recv(r))

LiveSpec == Spec /\ Fairness
====
