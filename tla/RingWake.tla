---- MODULE RingWake ----
(***************************************************************************)
(* How an idle subscriber of a channel sleeps and how the producer wakes   *)
(* it (cpp/src/raccoon_ring.c): wake_seq is the futex word the producer    *)
(* bumps on every publish, waiter_count lets it skip the system call when  *)
(* nobody is parked.  A frame is only its number here, so one step stands  *)
(* for the copy Ring models in full.                                       *)
(***************************************************************************)
EXTENDS Integers, FiniteSets

CONSTANTS Waiters,    \* subscribers that call rrb_reader_recv_wait
          Multi,      \* subscribers that call rrb_reader_recv_wait_many
          SlotCount,  \* slot_count
          WordMod,    \* 2^32: wake_seq and waiter_count are uint32_t
          MaxEpoch,   \* bound: incarnations of the producer
          MaxSeq      \* bound: frames published by one incarnation

Readers == Waiters \cup Multi

ASSUME WakeAssumption ==
    /\ Waiters \cap Multi = {}
    /\ IsFiniteSet(Readers)
    /\ SlotCount \in Nat \ {0}
    /\ WordMod \in Nat \ {0}
    /\ MaxEpoch \in Nat \ {0}
    /\ MaxSeq \in Nat

VARIABLES producerSeq,  \* header: producer_seq
          wakeSeq,      \* header: wake_seq
          waiterCount,  \* header: waiter_count
          epoch,        \* incarnation of the producer
          wpc,          \* what the producer is doing
          rpc,          \* what each subscriber is doing
          lastSeen,     \* last_seen
          expected,     \* the value of wake_seq a subscriber will sleep on
          leaked        \* history: subscribers that died while registered

header     == <<producerSeq, wakeSeq, waiterCount>>
readerVars == <<rpc, lastSeen, expected, leaked>>
vars       == <<header, epoch, wpc, readerVars>>

Init == /\ producerSeq = 0 /\ wakeSeq = 0 /\ waiterCount = 0
        /\ epoch = 1
        /\ wpc = "idle"
        /\ rpc = [r \in Readers |-> "recv"]
        /\ lastSeen = [r \in Readers |-> 0]
        /\ expected = [r \in Readers |-> 0]
        /\ leaked = {}

(***************************************************************************)
(* The producer: rrb_writer_publish.                                       *)
(***************************************************************************)
BeginPublish == /\ wpc = "idle"
                /\ producerSeq < MaxSeq
                /\ wpc' = "store"
                /\ UNCHANGED <<header, epoch, readerVars>>

StoreProducerSeq == /\ wpc = "store"
                    /\ producerSeq' = producerSeq + 1
                    /\ wpc' = "bump"
                    /\ UNCHANGED <<wakeSeq, waiterCount, epoch, readerVars>>

\* Mutant: the word is not cut off at 32 bits.
BumpUnwrapped == /\ wpc = "bump"
                 /\ wakeSeq' = wakeSeq + 1
                 /\ wpc' = "check"
                 /\ UNCHANGED <<producerSeq, waiterCount, epoch, readerVars>>

BumpWakeSeq == /\ wpc = "bump"
               /\ wakeSeq' = (wakeSeq + 1) % WordMod
               /\ wpc' = "check"
               /\ UNCHANGED <<producerSeq, waiterCount, epoch, readerVars>>

\* Mutant: one waiter is not worth the system call.
CheckManyWaiters == /\ wpc = "check"
                    /\ wpc' = IF waiterCount > 1 THEN "wake" ELSE "idle"
                    /\ UNCHANGED <<header, epoch, readerVars>>

CheckWaiters == /\ wpc = "check"
                /\ wpc' = IF waiterCount > 0 THEN "wake" ELSE "idle"
                /\ UNCHANGED <<header, epoch, readerVars>>

\* FUTEX_WAKE: every subscriber asleep on the word goes on.
FutexWakeAll ==
    /\ wpc = "wake"
    /\ rpc' = [r \in Readers |-> IF rpc[r] = "asleep" THEN "leave" ELSE rpc[r]]
    /\ wpc' = "idle"
    /\ UNCHANGED <<header, epoch, lastSeen, expected, leaked>>

Stop == /\ wpc # "dead"
        /\ wpc' = "dead"
        /\ UNCHANGED <<header, epoch, readerVars>>

\* rrb_writer_create on the existing file resets the three words in this order.
Create == /\ wpc = "dead"
          /\ epoch < MaxEpoch
          /\ producerSeq' = 0
          /\ epoch' = epoch + 1
          /\ wpc' = "resetWake"
          /\ UNCHANGED <<wakeSeq, waiterCount, readerVars>>

ResetWakeSeq == /\ wpc = "resetWake"
                /\ wakeSeq' = 0
                /\ wpc' = "resetCount"
                /\ UNCHANGED <<producerSeq, waiterCount, epoch, readerVars>>

ResetWaiterCount == /\ wpc = "resetCount"
                    /\ waiterCount' = 0
                    /\ wpc' = "idle"
                    /\ UNCHANGED <<producerSeq, wakeSeq, epoch, readerVars>>

(***************************************************************************)
(* A subscriber: recv, and when there is nothing, park until woken or      *)
(* timed out; in either case it polls again.                               *)
(***************************************************************************)
Goto(r, pc) == rpc' = [rpc EXCEPT ![r] = pc]

Oldest == producerSeq - (SlotCount - 1)

\* A frame is delivered, the oldest the ring holds if the subscriber was lapped.
Receive(r) ==
    /\ rpc[r] = "recv"
    /\ producerSeq # lastSeen[r]
    /\ LET seen == IF producerSeq < lastSeen[r] THEN 0 ELSE lastSeen[r] IN
       /\ producerSeq > 0
       /\ lastSeen' = [lastSeen EXCEPT ![r] =
                          IF producerSeq - seen > SlotCount - 1
                          THEN Oldest ELSE seen + 1]
    /\ UNCHANGED <<header, epoch, wpc, rpc, expected, leaked>>

\* The call parks: recv found no new frame, or a lapped subscriber found the
\* oldest slot being overwritten and passed over it.
NoFrame(r) ==
    /\ rpc[r] = "recv"
    /\ \/ producerSeq = lastSeen[r] /\ UNCHANGED lastSeen
       \/ /\ producerSeq = 0
          /\ lastSeen[r] > 0
          /\ lastSeen' = [lastSeen EXCEPT ![r] = 0]
       \/ /\ wpc = "store"
          /\ Oldest > lastSeen[r]
          /\ lastSeen' = [lastSeen EXCEPT ![r] = Oldest]
    /\ Goto(r, IF r \in Waiters THEN "register" ELSE "snapshot")
    /\ UNCHANGED <<header, epoch, wpc, expected, leaked>>

\* waiter_count goes up: before the snapshot in recv_wait, after it in
\* recv_wait_many.
Register(r) ==
    /\ rpc[r] = "register"
    /\ waiterCount' = (waiterCount + 1) % WordMod
    /\ Goto(r, IF r \in Waiters THEN "snapshot" ELSE "futex")
    /\ UNCHANGED <<producerSeq, wakeSeq, epoch, wpc, lastSeen, expected, leaked>>

Snapshot(r) ==
    /\ rpc[r] = "snapshot"
    /\ expected' = [expected EXCEPT ![r] = wakeSeq]
    /\ Goto(r, IF r \in Waiters THEN "futex" ELSE "register")
    /\ UNCHANGED <<header, epoch, wpc, lastSeen, leaked>>

\* The kernel compares and sleeps in one step; EAGAIN when the word moved on.
FutexWait(r) ==
    /\ rpc[r] = "futex"
    /\ Goto(r, IF wakeSeq = expected[r] THEN "asleep" ELSE "leave")
    /\ UNCHANGED <<header, epoch, wpc, lastSeen, expected, leaked>>

\* Mutant: no timeout is given to the kernel.
NoTimeout(r) == FALSE /\ UNCHANGED vars

\* The timeout, or a signal, ends the sleep.
Timeout(r) ==
    /\ rpc[r] = "asleep"
    /\ Goto(r, "leave")
    /\ UNCHANGED <<header, epoch, wpc, lastSeen, expected, leaked>>

\* Mutant: the count is left up.
LeaveCounted(r) ==
    /\ rpc[r] = "leave"
    /\ Goto(r, "recv")
    /\ UNCHANGED <<header, epoch, wpc, lastSeen, expected, leaked>>

\* waiter_count goes down; the word wraps below 0.
Leave(r) ==
    /\ rpc[r] = "leave"
    /\ waiterCount' = (waiterCount - 1) % WordMod
    /\ Goto(r, "recv")
    /\ UNCHANGED <<producerSeq, wakeSeq, epoch, wpc, lastSeen, expected, leaked>>

Registered(r) == \/ rpc[r] \in {"futex", "asleep", "leave"}
                 \/ r \in Waiters /\ rpc[r] = "snapshot"

\* The subscriber's process is killed; nobody takes it off the count.
Die(r) ==
    /\ rpc[r] # "dead"
    /\ leaked' = IF Registered(r) THEN leaked \cup {r} ELSE leaked
    /\ Goto(r, "dead")
    /\ UNCHANGED <<header, epoch, wpc, lastSeen, expected>>

Poll(r) == \/ Receive(r) \/ NoFrame(r) \/ Register(r) \/ Snapshot(r)
           \/ FutexWait(r) \/ Timeout(r) \/ Leave(r)

Publish == \/ StoreProducerSeq \/ BumpWakeSeq \/ CheckWaiters \/ FutexWakeAll
           \/ ResetWakeSeq \/ ResetWaiterCount

Next == \/ BeginPublish \/ Publish \/ Stop \/ Create
        \/ \E r \in Readers : Poll(r) \/ Die(r)

Spec == Init /\ [][Next]_vars

\* A publish that began is finished, and a subscriber that lives goes on: the
\* kernel ends its sleep at the timeout at the latest.
Fairness == WF_vars(Publish) /\ \A r \in Readers : WF_vars(Poll(r))

LiveSpec == Spec /\ Fairness

(***************************************************************************)
(* Properties.                                                             *)
(***************************************************************************)
\* Every variable keeps its type.
TypeOK ==
    /\ producerSeq \in Nat
    /\ wakeSeq \in 0..WordMod - 1
    /\ waiterCount \in 0..WordMod - 1
    /\ epoch \in 1..MaxEpoch
    /\ wpc \in {"idle", "store", "bump", "check", "wake", "dead",
                "resetWake", "resetCount"}
    /\ rpc \in [Readers -> {"recv", "register", "snapshot", "futex", "asleep",
                            "leave", "dead"}]
    /\ lastSeen \in [Readers -> Int]
    /\ expected \in [Readers -> 0..WordMod - 1]
    /\ leaked \in SUBSET Readers

\* Until a restart resets it, waiter_count is the number of subscribers between
\* their increment and their decrement, those that died there included: it never
\* under-counts, which is what lets the producer skip the wake
\* (raccoon_ring.c:343-348).
CountIsExact ==
    epoch = 1 =>
        waiterCount = Cardinality({r \in Readers : Registered(r)} \cup leaked) % WordMod

\* Until a restart, no subscriber that slept before a publish is still asleep when
\* that publish returns ("if we bump the value between their snapshot and their
\* wait call the kernel returns EAGAIN", "if they see our publish, we see their
\* bump or they see our wake", raccoon_ring.c:333-348).
SleeperIsWoken ==
    \A r \in Readers : epoch = 1 /\ rpc[r] = "asleep" /\ wakeSeq # expected[r]
                           => wpc \in {"check", "wake", "dead"}

\* A subscriber never sleeps on a frame it has not seen unless the wake for that
\* frame is on its way ("no lost wakeup", raccoon_ring.c:33-38, 655-669).
NoLostWakeup ==
    \A r \in Readers : rpc[r] = "asleep" /\ lastSeen[r] < producerSeq
                           => wpc \in {"bump", "check", "wake", "dead"}

\* Nevertheless every subscriber that lives catches up with the producer again
\* and again: what a lost wakeup delays, the timeout repairs.  MaxSeq keeps the
\* producer from running away.
EveryFrameSeen ==
    \A r \in Readers : []<>(lastSeen[r] = producerSeq \/ rpc[r] = "dead")
====
