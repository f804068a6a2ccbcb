# Raccoon transport: formal models

TLA+ models of raccoon-transport, the publish/subscribe library of a robot: what
its processes do to the shared-memory ring of a channel, how idle subscribers
sleep and wake, how a channel's file is created, replaced and attached to, how
reliable commands are re-sent until they are acknowledged, how the threads of a
`Transport` start, sleep, call handlers and end, and what the Dart and Python
packages build on top or beside it. TLC checks the models on small instances; TLAPS
proves the main safety properties for every number of readers, slots, words, sizes,
threads, channels and retries.

    tlc -config <run>.cfg <MC module>     # the runs, see "Runs"
    tlapm RingProofs.tla                  # the proofs, so for the other *Proofs modules

## 1. Inventory of the system

Paths are relative to `src/`. "State" is what survives between two operations.

| Component | Source | State | Operations | Interacts with |
|---|---|---|---|---|
| Ring slots | `cpp/src/raccoon_ring.c` 304-354, 430-453, 528-639 | shared memory: `producer_seq`, per slot `seq`, `len`, payload; per reader `last_seen` | `rrb_writer_publish`, `rrb_reader_recv`, `rrb_reader_seek_to_latest`, re-creation by `rrb_writer_create` | one producer, any number of readers, other processes, no lock |
| Ring wake-up | `raccoon_ring.c` 40-95, 333-350, 641-839 | header words `wake_seq`, `waiter_count`; kernel wait queues | `recv_wait`, `recv_wait_many`, `..._with_control`, the tail of publish | kernel futexes, `Transport::spinOnce`, the Dart bridge's poll thread |
| Ring file | `raccoon_ring.c` 186-300, 366-526; `Transport.cpp` 417-490 | directory entry, file size, header; per reader a mapping with the size and stride of the time it was made | `shm_open_mmap`, `reader_attach`, `reader_detach`, `reader_reopen_if_unlinked`, placeholder, `sizeRing`, `writerFor`, `growWriter` | restarted producers, whoever unlinks the file |
| Reliable commands | `cpp/src/Transport.cpp` 193-396, 549-632; `Options.h` | `pendingReliable`, attempts, `ackReader`; per subscription `lastTs` | `publishRaw`, `reliableLoop` (`drainAcks`, `tickResends`), the wrapped handler, `publishAck` | two rings that lose frames, one reliability thread, one ACK channel shared by all processes |
| Transport life cycle | `Transport.cpp` 157-192, 668-860 | `running`, subscriber list, writers, control word, `apiMutex` | `create`, `subscribeRaw`, `spinOnce`, `spin`, `stop`, `shutdown` | handlers run without the mutex and may call back |
| Value deduplication | `cpp/include/raccoon/Dedup.h` | last payload per channel | `shouldDrop` before a publish | `publishRaw`, the bridge's `send_ex` |
| Dart bridge | `cpp/bridge/raccoon_ring_bridge.cpp` | node, channel states with a queue of 64, `subs_changed` | `node_poll_loop`, `send_ex`, `subscriber_create/receive/destroy`, `node_destroy` | a poll thread against Dart isolates |
| Dart ring transport | `dart/lib/src/ring/transport.dart` | handler lists | `spinOnce`, `subscribe`, `publish` | the bridge |
| Dart reliable delivery, retain | `dart/lib/src/reliable.dart`, `retain.dart` | pending envelopes, duplicate set of 1000 | publisher, subscriber, retain store | LCM over UDP |
| Dart LCM | `dart/lib/src/lcm/lcm.dart` | fragment buffers | send, fragment, reassemble | UDP: loss, duplication, reordering |
| Python transport | `python/raccoon_transport/transport.py` | in-process queue, pending commands, duplicate ring, retained values | publish, subscribe, spin | handlers run under its lock |
| Contract check | `cpp/src/ContractCheck.cpp` and its Python and Dart twins | none | compare two contracts | pure |
| Channel names, message types, tools, JSON library | see `PROJECT.json` | none | tables, codecs, scripts, third-party code | - |

What is hard, and what makes each part correct:

* **Ring slots.** Concurrency without locks: a reader copies a slot the producer may
  overwrite word by word. Correct means: what `recv` returns is one published
  frame; frames come in order; only a lapped reader loses any; a reader always
  arrives at the newest frame. A producer may die between two stores and start the
  sequence numbers again in the same memory.
* **Wake-up.** A publish may fall between a subscriber's last look and its sleep, and
  the producer skips the wake on a count that subscribers change. Correct means: nobody
  who slept before a publish sleeps through it, and whoever does not see a frame at
  once sees it after its timeout.
* **File.** The header is written field by field and read field by field, the file
  may shrink, grow or lose its name under a mapping. Correct means: nothing is touched
  outside the mapping, nothing is divided by a field not written yet, and readers
  find the file the producer writes.
* **Reliable commands.** Two lossy channels, retries that race acknowledgements,
  retries that overtake newer commands, subscribers that restart. Correct means:
  handled once, never cleared without being received, given up only after
  the promised number of copies, and every command ends in one of the outcomes.
* **Transport life cycle.** One thread sleeps on futexes while others subscribe, publish,
  stop and shut down, and handlers do the same from inside the spin. Correct means: a stop
  is not slept through, nothing freed is used, nothing stays open, every frame of a
  subscribed channel is handled, every thread ends.
* **Dart bridge and ring transport.** A poll thread works on a snapshot of the channels
  that a flag renews; queues outlive the handles; handlers unsubscribe and dispose. Correct
  means: the newest frame arrives, a queue has no gap, no closed reader is polled, and a
  deduplicated publish is dropped only if the ring shows its value.
* **Dart over UDP.** Datagrams are lost, duplicated and reordered; fragments share keys.
  Correct means: an envelope is handled once and whole, and every message settles.
* **Python.** Callbacks run under the lock of a queue and publish. Correct means: an
  envelope is handled once and settles, a retain request is answered.
* **The rest** is listed with its hazards, each at its line, in `PROJECT.json`.

## 2. Modules

    RingLog            what a channel promises: a lossy append-only log
    Ring               slots, one step per load and store
      RingProperties   its properties, the inductive invariant, the refinement of RingLog
      RingProofs       theorems
      MCRing           instances
    RingWake           futex word, waiter count, timeouts          MCRingWake
      RingWakeProofs   theorems
    RingAttach         file, header, mappings, growth, unlink      MCRingAttach
      RingAttachProofs theorems
    Reliable           commands, acknowledgements, retries         MCReliable
      ReliableProofs   theorems
    Lifecycle          threads, handlers, stop and shutdown        MCLifecycle
      LifecycleProofs  theorems
    Bridge             Dart bridge, ring transport, deduplication  MCBridge
      BridgeProofs     theorems
    LcmUdp             fragments over UDP
      DartTransport    reliable delivery in Dart, on LcmUdp        MCDartTransport
        DartProofs     theorems
    PyTransport        Python transport                            MCPyTransport
      PyProofs         theorems

### Ring (with RingLog and RingProperties)

`slot`, `producerSeq` are the shared memory; a payload word holds the identity of the
frame it was stored for (incarnation and number), so that a mixture of two frames is
visible. `StoreWord(0)`, `StoreWord(i)`, `CommitSlot`, `StoreProducerSeq` are the
stores of `rrb_writer_publish` in their order; `Create`, `ZeroWord`, `ZeroNextSlot`
those of `shm_open_mmap` on an existing file; `Stop` may come between any two. A
reader's `rpc` is its place in `rrb_reader_recv`: `LoadProducer`, `ReloadProducer`,
`LoadSeqBefore`, `CopyWord`, `LoadSeqAfter`, then `Accept` or `Reject`, with both loops
counted (`attempt`, `retry`) and every early return taken through `Return`.
`SeekToLatest` happens between two calls. `got` and `owed` are history.

`Ordered` says whether the machine keeps the stores and the loads of a slot in program
order. The annotations in the code do not ask for it (a release store orders what
precedes it, an acquire load what follows it, and the payload is accessed by
`memcpy`), x86 provides it. With `Ordered = FALSE` a payload store may come before
the slot is marked, and a payload load after the second look at `seq`; reorderings
across calls, and of plain accesses with other atomics, are not modelled.

Left to the other modules: the wake (RingWake), the `slot_size` comparison and the
`st_nlink` check (RingAttach). `Ring` takes an attached reader and a fixed layout.

### RingWake

A frame is its number. `Register`, `Snapshot`, `FutexWait` and `Leave` are the steps of
parking in the order of `rrb_reader_recv_wait` (count, then snapshot) for `Waiters`
and of `rrb_reader_recv_wait_many` (snapshot, then count) for `Multi`; `FutexWait`
compares and sleeps in one step, as the kernel does. `BumpWakeSeq`, `CheckWaiters`,
`FutexWakeAll` end a publish. `Create`, `ResetWakeSeq` and `ResetWaiterCount` are a
restart, `Die` a killed subscriber that stays on the count. Both words are taken
modulo `WordMod` (2^32 in the code).

### RingAttach

`file` holds every file that ever had the channel's path, with its size and header;
`path` is the one that has it now. `Create` is `open`, `ftruncate` and `mmap` with the
layout `SizeRing` chooses for a payload, which is rounded up to `PayloadUnit` (256 bytes in
the code) as a slot is to `SlotAlign` (8 bytes); `WriteMagic` ... `ZeroSlots` store the header in
the code's order. `Create` also runs from "idle" with a payload that does not fit: that
is `growWriter`. A reader maps (`Map`: `open`, `fstat`, `mmap`) and reads the header
later (`CheckHeader`); `CheckSlotSize` and `CheckUnlinked` are the two ways to notice a
replaced ring. `LoadSeq` and `Copy` touch the slot at the address computed from the
live `slot_count` and the cached `stride`; past the end of the mapping or the file,
or with a `slot_count` of 0, the process dies (`Fault`). In a slot that was not cleared
yet, or at an address where no slot begins, any `seq` may be found.

Not in it: errors of the system calls, files of another `RRB_VERSION`, and layouts with
equal `slot_size` and different `slot_count`, which `sizeRing` never chooses (the reader
cannot notice such a change).

### Reliable

A command is its timestamp, 0 one without. `sent[c]` and `acks` are the rings as
sequences; `Readable` says which frame a reader may be handed next: the one it expects,
or, once it was lapped, any of the last `SlotCount`, as in RingLog: from a quiet ring it
gets the oldest of them, so that a lapped, restarted or draining reader replays all of
them, and a busy producer may make it lose any but the last. A ring shorter than the
cursor was re-created, and the reader starts over. `Publish` is `publishRaw(reliable)` with its
re-creation of a ring that is too small (`GrowWriter`); `Tick` is one turn of `reliableLoop` under
`apiMutex` (`DrainAcks`, then `TickResends` for the commands that are due). `Receive`,
`PublishAck` and `Handle` are separate because `spinOnce` lets go of the mutex before it
calls the handler and the handler acknowledges first. `PublishAck` wipes the ACK ring
when the process creates its writer (`WriterFor`); `PublishAckTogether` are two processes that store
to the slot of the same sequence number. `Restart` kills a subscriber process, at any
step; its successor has neither `lastTs` nor a cursor and begins with the oldest frame of
the ring (`subscribeRaw` without `requestRetained`, which would seek to the newest one,
`Transport.cpp` 650). So it acknowledges and handles old commands again, and finds the one
its predecessor acknowledged and did not handle, if the ring still has it; both are part
of `AckedIsHandledOrSuperseded`, which makes no exception for restarts but for what the
ring itself lost. `FiresOnce` speaks of one life of a process.

Assumed: timestamps of one publisher are unique and ascending (`Transport.cpp` 198); a
grown ring is noticed by all its readers (RingAttach shows when they do).

### Lifecycle

Whatever is done while `apiMutex` is held is one action (`SubscribeLocked`,
`PublishLocked`, `Clear`, `Tick`, one turn of `Drain`); what lies between two critical
sections is a step of its own, above all the look at `running` with which every call
begins, and the passes of `rrb_reader_recv_wait_many_with_control` (`WaitDrain`,
`CopyHandlers`, `SnapshotWords`, `FutexWait`, `Awake`), which run without the mutex. `spc`
is the place of the spin thread, `call[t]` that of every thread in its call; a handler
(`spc = "handler"`) and an event handler (`relThread = "event"`) may begin any call, except
that an event handler does not shut down. A channel is a counter of frames, an entry the pair
of its channel and whether it was created after the clearing; `used` records where an entry was
used that had been freed, and the process then ends. `late` marks calls that passed their look
at `running` before a stop and went on after it. An entry's reader takes part in the futex
list once it has received a frame (`reader_attach` succeeded); until then only the timeout
finds its frames.

### Bridge

The poll thread (`TakeChanged`, `Rebuild`, `PollFrame`, `PollReturns`) works on `snapshot`;
`Subscribe` enters the channel under `subs_mtx` and `FlagAndStart` raises the flag after
it. `Queued` is the bounded queue. The isolate (`dart`) drains the queues handle by handle,
calls the handlers it copied, and a handler may subscribe, add or remove handlers and
dispose; a handle that is freed and received from ends the process (`"crashed"`). `Publish` is
`publisher_send_ex`: writer created or not, `shouldDrop`, publish, growth that may fail. A
behaviour either subscribes or publishes, since the two share no state. No reader is lapped
and no channel re-created: Ring and RingAttach have that.

### LcmUdp and DartTransport

A fragment is a record of its key, part, size and the message it is cut from, so a message
put together from two is visible. `inFlight` holds the datagrams the network still has:
each arrives at any time, or never, and under up to `MaxDup` keys one comes twice. A buffer
is found by `Key`, the hash of the sender's address xor the sequence number, as in
`_makeFragmentKey`: no two numbers of one sender share a key, but two processes of one host
do when their numbers are equal, and two of different hosts when their numbers differ as
their hashes do. `Hash` and `HashXor` are constants, and only the first of these three
facts is assumed of them.
What meets in a buffer is mixed if it has one size; `HandledWhole` says that nothing else
is. `BufferFor`, `Stored` and `Complete` are `_handleFragmentedMessage`; `Dispatched` keeps
the buffer when the dispatch throws, which a handler that subscribes causes.
`DartTransport` adds the pending list, the timer that is cancelled and re-armed, `_tick`
for any subset of the messages as due, acknowledgements (single datagrams that may come at
any later time, again and again, or never) and the duplicate set that all subscriptions
share.

### PyTransport

Every `Transport` has a thread and a queue with a lock; `lock[t] = t` while its thread runs
a callback, and `MemqPublish` needs the lock of the queue it appends to. Callbacks belong to
whoever subscribed, so the thread of one transport runs `OnEnvelope`, `OnAck` and
`OnRequest` of another. `_on_ack` and `_tick_reliable` read the pending list in one step
and overwrite it in another (`OnAck`/`StoreAcked`, `Tick`/`StoreKept`), and a publish
appends to it after the envelope is out (`AppendPending`).

## 3. Runs

| Run | Expect | What it shows |
|---|---|---|
| `ring_log` | pass | `NoTornFrame`, `NeverBackwards`, `LossOnlyWhenLapped`, `CatchesUp`, and that Ring implements RingLog, with a producer that may stop but is not restarted |
| `ring_restart` | pass | `CursorConverges`: whatever two incarnations leave behind, on a machine that reorders, the cursor arrives at the quiet producer's count |
| `wake` | pass | `CountIsExact`, `SleeperIsWoken` until a restart, `EveryFrameSeen` always |
| `attach` | pass | `SlotCountIsSet`, `SameLayoutInBounds`, `ReachesProducer` |
| `reliable` | pass | `FiresOnce`, `GiveUpBudget`, `AckedIsHandledOrSuperseded`, `ClearedWasReceived`, `EveryCommandSettles`, with two processes on the ACK ring, a growth and a restart |
| `lifecycle` | pass | `StopWakesSpin`, `LockedRecvIsSafe`, `ShutdownCloses`, `EveryFrameHandled`, `StopEndsThreads` |
| `bridge` | pass | `QueueHoldsNewest`, `PollUsesOpenReaders`, `DedupKeepsNewest`, `NewestArrives` |
| `dart` | pass | `HandledOnce`, `HandledWhole`, `PendingSettles` |
| `python` | pass | `HandledOnce`, `EnvelopeSettles`, `RequestAnswered` between two transports |
| `attach_shrink` | violation | `AccessInBounds` with changing layouts: the mapping has the old size, the stride is new |
| `lifecycle_freed` | violation | `EntriesOutliveUse`: shutdown frees entries under the spin thread, or under the handler that called it |
| `python_deadlock` | violation | `RequestAnswered` when one transport talks to itself: a callback publishes under its own lock |

The violation runs check what a comment, a doc or a test says; `PROJECT.json`
"findings" quotes it.

### Claims of the source that the models refute

Met on the way. The first four stay in the modules as definitions, each with the
instance in which TLC finds the counterexample; the others are remarks.

* `RingProperties!RestartReplays` (`raccoon_ring.c` 580-583, `test_producer_restart.cpp` 199):
  a restarted producer that has published as many frames as the reader had seen is taken
  for the old one, and its first frames are skipped. `ring_restart.cfg` with the property
  as its only one.
* `RingProperties!OnlyOverwrittenFramesLost` (`raccoon_ring.c` 589, 602, 616):
  `last_seen = seq_before - 1` drops frames that are still intact. `ring_log.cfg`.
* `RingWake!NoLostWakeup` (`raccoon_ring.c` 335): a frame published between `recv` and the
  snapshot of `wake_seq` is slept on until the timeout. `wake.cfg` with `MaxEpoch = 1`.
* `Reliable!AtLeastOnce` (`Options.h` 30): a re-sent command older than the newest
  handled one is acknowledged and swallowed. `reliable.cfg`.
* With `Ordered = FALSE` the reader accepts a mixed frame (`NoTornFrame` in
  `ring_restart.cfg`; `raccoon_ring.c` 316), and so it does after a restart with
  `Ordered = TRUE`, since sequence numbers repeat: a reader that copies frame n while the
  producer re-creates the ring and publishes n frames. The theorems assume neither happens.
* A producer killed between storing the slot and storing `producer_seq`: a reader
  that was lapped and found the new frame in the slot has skipped the frame before it,
  and `CatchesUp` excepts that case.
* A restart resets `waiter_count` under sleeping readers, so later publishes skip the wake
  and the count wraps below 0; `EveryFrameSeen` shows that the timeout repairs it.
* A command whose last copy is received late is both handled and reported as given
  up ("the subscriber never received it"), and a best-effort subscriber is handed the
  re-sent copy of an old command after a newer one.
* `rrb_reader_seek_to_latest` returns -2 when there is no file, where the
  header promises 0 (`raccoon_ring.h` 207-208, `raccoon_ring.c` 430-435).
* `shutdown` after `stop` does nothing (`Transport.cpp` 173): readers, writers and the
  reliability thread's handle stay. A publish that passed its look at `running` re-opens a
  writer after shutdown, and a reliable one starts the thread if it never ran
  (`Transport.cpp` 240): `late` in `ShutdownCloses`.
* Python: with one transport publishing both reliable and retained messages to another, the
  two threads can hold a lock each and wait for the other's. The `python` run keeps the
  two options apart; a retained value published while a request is answered is
  overtaken by the one before it.
* Dart: a fragment's key has neither the sender's port nor an exact address
  (`lcm.dart` 607-610), and a fragment that comes twice counts for a missing one: messages of
  one size that share a key are mixed, and a message with a duplicated fragment is handed over
  with a hole. `HandledWhole` excepts exactly these.
* Dart: all subscriptions of a process share the duplicate set, so that the second handler
  of a channel never gets a message; a reliable subscription that asks for the retained
  value gets it on the plain channel, where it does not listen (so also in Python).

### Bounds, and why they are enough

* Ring: 3 slots of 2 words (length and one payload word), 8 frames in `ring_log`: a
  reader is lapped twice over at every point of a call; two words are what a torn frame
  needs. `Attempts` and `Retries` are 2 (8 and 3 in the code): enough to go round and to
  give up. `ring_restart`: 2 slots, 2 incarnations of 3 frames, so that the new one may
  stay below, reach and pass the old count. One reader: readers touch only their own
  variables, and the proofs are for any number of them.
* RingWake: one reader of each kind, 3 frames per incarnation, 2 incarnations,
  `WordMod = 3`, so that `wake_seq` wraps within the run.
* RingAttach: slots are rounded to 2 units and payloads to 4, so that the hints 1, 3, 5
  give rings of 25, 21 and 29 units: a ring may become smaller or larger. Two files and two
  creations let every order of unlink, re-creation and attach happen; three frames reach
  every slot index of the small ring.
* Reliable: two commands, two copies each, rings of 2 slots that lap within a
  burst, one re-creation and one restart, two channels with a reliable subscriber process
  each, one of which also watches the other's channel without acknowledging.
* Lifecycle: one thread beside the spin and the reliability thread, one channel of each kind,
  two frames, three calls: a subscription, a stop or a publish and a shutdown in any order
  and from any of the threads. One user thread suffices for every race of two calls with the
  spin thread, because handlers call as well.
* Bridge: queues of one frame, two frames on one channel and one on the other, two handles:
  every queue overflows, a channel is subscribed while the other is polled, and both handles
  may be one after the other on the same channel. Three publishes of two sizes make, grow and
  fail to grow a writer.
* DartTransport: two fragments, one duplicate, two publishers with two and one attempts,
  sizes that differ or agree, a duplicate window of one envelope. The hashes are 4 and 5,
  as of neighbouring addresses: the second try of one publisher has the key of the first of
  the other, so keys collide with equal and with different sizes, and each of the two
  messages may come between the copies of the other. With equal hashes, two processes of
  one host, the same two meet at other tries. `MaxSeqno = 1` is as far as two attempts
  count. A publisher has one message pending at a time; that several are pending and go out
  at one tick, each under its own number, is left to the proofs, which bound nothing.
* PyTransport: two envelopes with two and one attempts against a window of one, one retained
  value, two threads.

Deadlock is not checked: every bounded model stops when the producer has published its
last frame and the readers have nothing to do, and a producer is never obliged to go on.

### Fairness

Only what scheduling and the kernel give: a publish or a re-creation that began goes
on; a subscriber that lives takes its next step (its loops never block but on a futex
with a timeout, which the kernel ends); a pending command becomes due again and
again, because the reliability thread runs every few milliseconds. In Lifecycle the spin thread
goes on and its handlers return, a call that began is finished, and the reliability thread
leaves its loop; in Bridge the poll thread runs, the spin timer fires and handlers return; in
Dart the retry timer fires while it is armed and the oldest message becomes due, and nothing
is assumed of the network; in Python both threads spin and a message that stays pending
is due again and again (strong fairness, because its visit is enabled only inside
`_tick_reliable`). Nothing obliges a
producer to publish, to come back or to die. In RingAttach polling is strongly fair among
the calls a subscriber makes, since it may also seek or close in between. Every liveness
property excepts the dead and, where it matters, a producer that stopped in
the middle of a step.

## 4. Proofs

Every theorem holds for all values of the constants that satisfy the module's
`...Assumption`, the bounds on incarnations, frames, files and commands included.

### Ring (`RingProofs`)

| Theorem | States | Assumes |
|---|---|---|
| `TypeCorrect` | `Spec => []TypeOK` | nothing but the constants' types |
| `InvariantHolds` | `Spec => []RingInv` | `Undisturbed` |
| `NoTornFrameHolds` | `Spec => []NoTornFrame` | `Undisturbed` |
| `LossOnlyWhenLappedHolds` | `Spec => []LossOnlyWhenLapped` | `Undisturbed` |
| `NeverBackwardsHolds` | `Spec => NeverBackwards` | `Undisturbed` |
| `FreshDeliveryHolds` | `Spec => FreshDelivery` | `Undisturbed` |
| `RingImplementsLog` | `Spec => ImplementsLog` | `Undisturbed` |

`Undisturbed` is `Ordered /\ MaxEpoch = 1`. Both are necessary: the fifth refuted claim
above has the counterexamples without them.

The argument: none of the safety properties is inductive, because whether a copy
is whole depends on what the slot held while it was made. `RingInv` says
what each actor may rely on. `SlotInv`: a slot that shows a `seq` holds exactly that
frame, one of the `slot_count` newest. `WindowInv`: a counted frame is in its slot until
the slot is needed again. `ProducerInv`: the producer marks the slot before it touches
the body. `CursorInv`: a reader looks for a counted frame it was not handed.
`CopyInv`, the heart: either the slot still shows the frame looked for and what was
copied belongs to it, or the slot has moved on and can never show that `seq` again,
since two frames of one slot are `slot_count` apart (`SlotGap`). `LossInv` and `GotInv`
carry the conclusions. Each action has a lemma; the lemmas on `%` (`Division`,
`SlotGap`, `NextRound`, `SlotReuse`) are proved from the definition of division because
`SlotCount` is a parameter.

### RingWake (`RingWakeProofs`)

| Theorem | States | Assumes |
|---|---|---|
| `TypeCorrect` | `Spec => []TypeOK` | nothing but the constants' types |
| `CountIsExactHolds` | `Spec => []CountIsExact` | the same |
| `SleeperIsWokenHolds` | `Spec => []SleeperIsWoken` | `Few`: fewer subscribers than `WordMod` |

`CountInv` adds to `CountIsExact` that those who died registered stay dead (or they would
be counted twice) and that only a restart resets the words. A subscriber that registers or
leaves changes the set of counted ones by one element, and `WordSum` shows that adding to
a wrapped word is adding to the number it stands for, below 0 too. The wake follows:
a sleeper is counted, so a producer that reads 0 leaves nobody asleep on an older word.
`Few` is what makes 0 mean nobody; with 2^32 waiters the count would wrap.

### RingAttach (`RingAttachProofs`)

| Theorem | States | Assumes |
|---|---|---|
| `TypeCorrect` | `Spec => []TypeOK` | nothing but the constants' types |
| `SlotCountIsSetHolds` | `Spec => []SlotCountIsSet` | the same |
| `SameLayoutInBoundsHolds` | `Spec => []SameLayoutInBounds` | the same |

`SlotCountIsSet` depends on another process: `FileInv` says that a counted frame implies a
written `slot_count`, `WriterInv` that the producer has written it before it gets to
the frames, `ReaderInv` that a reader looks for a slot only after it saw a counted
frame and that its frame number lies below the count it saw.
`ReadersUndisturbed` shows that no producer step takes this from a reader.

`SameLayoutInBounds` needs what the half-written header may hold: `LayoutInv` says that, as
long as no producer changed the layout, a file is blank or has the size of that layout and
each header field is either unset or that layout's, and that a mapping and a stride were
taken from such a file. The address follows from `SlotsFit`: the last slot ends where the
file does. Without the condition the finding `attach_shrink` is the counterexample.

### Reliable (`ReliableProofs`)

| Theorem | States | Assumes |
|---|---|---|
| `TypeCorrect` | `Spec => []TypeOK` | nothing but the constants' types |
| `FiresOnceHolds` | `Spec => []FiresOnce` | the same |
| `ClearedWasReceivedHolds` | `Spec => []ClearedWasReceived` | the same |
| `AckedIsHandledOrSupersededHolds` | `Spec => []AckedIsHandledOrSuperseded` | the same |
| `GiveUpBudgetHolds` | `Spec => []GiveUpBudget` | the same |

Types need that `tickResends` walks its sorted map: `InOrder` chooses an increasing
sequence, and that every set of timestamps has one (`Enumeration`) takes an induction on
their bound, done through the least counterexample (`LeastNat`, from the well-foundedness
of `<`), because the provers cannot instantiate the library's induction theorems.

`OnceInv`: what a handler was called with is not newer than the subscription's last
timestamp, and a command in a hand belongs to a reliable subscription. `ReceivedInv`
follows an acknowledgement backwards: what `drainAcks` reads was in the ACK ring, what is
in the ring was in the hand of a subscriber, what is in a hand was received. `OriginInv`
ties every frame, hand and record to the channel it was published on, which an
acknowledgement does not carry. `RingInv`: what a subscriber was handed is in its ring
still, unless the ring was filled or re-created (`Overrun`). With it `KeptStays` shows that
a command that is in a hand, was overtaken, lies ahead of a reader or may have been lost to
the ring (`Kept`) stays so: a reader that receives it takes it into its hand, one that
skips it was lapped, and one that is killed starts before it (`RestartKeeps`). `SettledInv`
says that every acknowledgement in the ring is of such a command. `BudgetInv`: `attempts`
is the number of copies in a ring that was never re-created (`CopiesConcat`: a tick adds
one copy of each command it re-sends, since `InOrder` lists each once).

### Lifecycle (`LifecycleProofs`)

| Theorem | States | Assumes |
|---|---|---|
| `TypeCorrect` | `Spec => []TypeOK` | nothing but the constants' types |
| `LockedRecvIsSafeHolds` | `Spec => []LockedRecvIsSafe` | the same |
| `StopWakesSpinHolds` | `Spec => []StopWakesSpin` | the same |
| `ShutdownClosesHolds` | `Spec => []ShutdownCloses` | the same |

`ShutdownInv`: a thread that is inside a shutdown stopped the transport before, so a pass
that finds it running under the mutex finds nothing freed. `WakeInv` covers the whole way
of the spin thread from its second look at the flag to the sleep: if the transport was
stopped meanwhile, either somebody still owes the bump (`BumpOwed`) or the control word
has moved past the value the thread expects, so that it does not fall asleep.
`CloseInv`: from the join on no reliability thread runs, unless a call went on late. The
finding `lifecycle_freed` shows what this does not cover: the passes without the mutex.

### Bridge (`BridgeProofs`)

| Theorem | States | Assumes |
|---|---|---|
| `TypeCorrect` | `Spec => []TypeOK` | nothing but the constants' types |
| `NewChannelIsPolledHolds` | `Spec => []NewChannelIsPolled` | the same |
| `PollUsesOpenReadersHolds` | `Spec => []PollUsesOpenReaders` | the same |
| `DedupKeepsNewestHolds` | `Spec => []DedupKeepsNewest` | the same |
| `QueueHoldsNewestHolds` | `Spec => []QueueHoldsNewest` | the same |

`PollInv` adds that a poll thread that was never started holds no readers, which is what
lets `node_destroy` close them without a join. `DedupKeepsNewest` is inductive. For the
queue, `Window` says what one queue is to its reader: consecutive frames that end at the
reader's place. Appending (`WindowAppend`), replacing the oldest (`WindowSlide`) and taking
the oldest (`WindowTake`) keep it.

`TypeCorrect` needs what `removeWhere` leaves of a list of handlers. `Without` is a recursive
function, and the provers cannot instantiate the library's induction theorems, so that it is
defined and of the right type at every index goes through the least index at which it
would not be (`LeastNat`, `KeepExists`, `WithoutType`).

`NewChannelIsPolled` is what `NewestArrives` rests on and fairness cannot give: while the
node lives, every channel that was subscribed is in the snapshot of the poll thread, or the
flag that renews the snapshot is up, or was just taken, or the subscription under way is
about to raise it and to start the thread. It is inductive; the order of `Subscribe` (the
channel first, then the flag) is what makes it so.

### DartTransport (`DartProofs`)

| Theorem | States | Assumes |
|---|---|---|
| `TypeCorrect` | `Spec => []TypeOK` | nothing but the constants' types |
| `InvariantHolds` | `Spec => []IInv` | the same |
| `HandledOnceHolds` | `Spec => []HandledOnce` | the same |
| `HandledWholeHolds` | `Spec => []HandledWhole` | the same |
| `NothingForgottenHolds` | `Spec => []NothingForgotten` | the same |
| `TimerRunsHolds` | `Spec => []TimerRuns` | the same |

The receiver counts fragments and does not look which it has, so the count alone says
little. `SeqInv`: a process uses each sequence number once, with several messages sent at
one tick numbered in their order (`RankInjective`). `FlightInv`: under one key there is at
most one datagram of a part of a message. `BufferInv`, the heart: what a buffer holds was
sent under its key and has its size; and while no datagram came twice under the key and only
one message of that size went out under it (`Clean`), `remaining` and the places filled add
up to the number of fragments, and a filled place has no datagram left that could be
counted for it again. A complete count then fills every place (`CompleteWhole`). Of the keys
the proof uses only that no process has one twice (`KeyInjective`): how hashes and numbers of
different processes meet is left open, as `from.hashCode ^ seqno` leaves it.

`NothingForgotten` is the safety half of `PendingSettles`: whatever was published is pending,
given up or handled. It needs `AckInv`, that an acknowledgement is of a handled message, which
holds for the acknowledgement of a duplicate as well, because the window holds handled
messages only (`InWindow`). `TimerRuns` is its other half: the timer that an empty list
cancels runs again whenever something is pending, so that `_tick` comes. The run has one
message per publisher and cannot show this.

### PyTransport (`PyProofs`)

| Theorem | States | Assumes |
|---|---|---|
| `TypeCorrect` | `Spec => []TypeOK` | nothing but the constants' types |
| `HandledOnceHolds` | `Spec => []HandledOnce` | the same |
| `EnvelopeNotLostHolds` | `Spec => []EnvelopeNotLost` | the same |

Only `_on_envelope` extends the history; `RememberedWindow` shows that its look back
reaches as far as the property does. `HandledOnce` needs nothing of the threads or the
locks: it holds whatever is sent again. The types use that there are finitely many
transports, since an acknowledgement goes to all of them in some order (`EveryoneType`).

`EnvelopeNotLost` is the safety half of `EnvelopeSettles`, and the one property here that is
about threads which replace a list that others have read: `publish` appends to `_pending`
after the envelope is out, `_on_ack` reads the list in one step and replaces it in the next, and
`_tick_reliable` does so over many steps, none of them under a common lock. A message that was
recorded is nevertheless pending, given up, handled, or in the queue of its publisher
(`Out` names the last three). `FlowInv` says what the queues hold: an envelope was sent to
somebody and waits at its publisher, an acknowledgement is of a handled message. A message is
`Out` for ever (`OutStays`). `VisitInv` and `AckedInv` say that the list a thread is about to
store has every recorded message that is not out. The delicate step is `AppendPending` while
another thread holds an older list (`AppendSettle`): that thread has an
acknowledgement, so a message of this publisher was handled, so somebody had subscribed
before it; and `AppendInv` says that a message being recorded either went to somebody or
was published when nobody had handled anything of its publisher.

### What is only model-checked

Liveness: `CatchesUp`, `CursorConverges`, `EveryFrameSeen`, `ReachesProducer`,
`EveryCommandSettles`, `EveryFrameHandled`, `StopEndsThreads`, `NewestArrives`,
`PendingSettles`, `EnvelopeSettles` and `RequestAnswered`. They need `ENABLED` and fairness,
which is out of the prover's reach; for three of them the safety fact they rest on is
proved (`NewChannelIsPolled`, `NothingForgotten`, `EnvelopeNotLost`). The properties of the
violation runs are refuted by TLC. Every invariant and every action property of a passing run is
proved, type invariants included.

## 5. Not modelled, and the plan

In the order of importance; each item names the hazard it is for.

1. The retain store of Dart over the lossy network, with the plain messages it replays.
2. Several channels with files and futex words of their own in one `futex_waitv`
   (Lifecycle has counters in their place), `waiter_count` there included.
3. Python: unsubscription against a publish of another transport (the broker's lists are
   shared, the locks are not), the deduplicate option, handlers that publish.
4. `ContractCheck`: three implementations of one comparison, as operators over bounded
   contracts.
5. Proofs of the safety facts that the other liveness properties rest on: `RequestAnswered`,
   `EveryCommandSettles`, `EveryFrameHandled`, `StopEndsThreads`.

Left out for good: statistics, channel name tables and message codecs (no control), the
command-line tools, build and release scripts, and the JSON library.
