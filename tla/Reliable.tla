---- MODULE Reliable ----
(***************************************************************************)
(* Reliable commands of cpp/src/Transport.cpp: the publisher re-sends a    *)
(* command until an acknowledgement with its timestamp comes back, a       *)
(* reliable subscriber acknowledges every copy and hands the first one to  *)
(* its handler.  Data and acknowledgements travel in rings, which lose     *)
(* frames of a lapped reader (RingLog) and everything when re-created.     *)
(* A command is its timestamp; 0 stands for a message without one.         *)
(***************************************************************************)
EXTENDS Integers, Sequences, FiniteSets

CONSTANTS Channels,     \* command channels, all of one publisher
          Reliable,     \* <<process, channel>>: subscriptions with reliable = true
          BestEffort,   \* <<process, channel>>: the other subscriptions
          SlotCount,    \* slots of every ring, the ACK ring included
          MaxRetries,   \* PublishOptions::maxRetries
          MaxCommands,  \* bound: publishRaw calls
          MaxGrow,      \* bound: rings re-created because a payload outgrew them
          MaxRestarts   \* bound: subscriber processes killed and started again

Subscriptions == Reliable \cup BestEffort
Processes     == {p[1] : p \in Subscriptions}
Keys          == 1..MaxCommands

ASSUME ReliableAssumption ==
    /\ \A p \in Subscriptions : p = <<p[1], p[2]>> /\ p[2] \in Channels
    /\ Reliable \cap BestEffort = {}
    /\ SlotCount \in Nat \ {0, 1}
    /\ {MaxRetries, MaxCommands, MaxGrow, MaxRestarts} \subseteq Nat

VARIABLES home,       \* the channel of each message, by its timestamp
          pending,    \* pendingReliable: commands not acknowledged yet
          attempts,   \* PendingReliable::attempts, kept for a settled command
          gaveUp,     \* commands reported by ReliableEvent::GaveUp
          sent,       \* the ring of each channel, oldest frame first
          grown,      \* rings re-created so far
          acks,       \* the ring of Channels::Protocol::ACK
          ackCursor,  \* ackReader: the acknowledgement expected next
          ackWriter,  \* processes that created their writer of the ACK ring
          cursor,     \* each subscription: the frame its reader expects next
          hand,       \* each process: the frame between recv and the handler
          lastTs,     \* each reliable subscription: the newest command handled
          handled,    \* history: what each handler was called with
          received,   \* history: commands some reliable reader was handed
          restarts    \* processes restarted so far

publisherVars  == <<home, pending, attempts, gaveUp, sent, grown, ackCursor>>
subscriberVars == <<cursor, hand, lastTs, handled, received, restarts>>
ackRing        == <<acks, ackWriter>>
vars           == <<publisherVars, subscriberVars, ackRing>>

Idle == [stage |-> "idle"]

Init == /\ home = <<>> /\ acks = <<>>
        /\ pending = {} /\ gaveUp = {} /\ received = {} /\ ackWriter = {}
        /\ attempts = [k \in Keys |-> 0]
        /\ sent = [c \in Channels |-> <<>>]
        /\ grown = 0 /\ restarts = 0
        /\ ackCursor = 1
        /\ cursor = [p \in Subscriptions |-> 1]
        /\ hand = [s \in Processes |-> Idle]
        /\ lastTs = [p \in Reliable |-> 0]
        /\ handled = [p \in Subscriptions |-> <<>>]

\* The frames of a ring that recv may hand over to a reader that expects frame
\* "next".  It starts over when the ring is shorter than what it has seen.  Length + 1
\* means there is none.  Once lapped it falls back to the oldest intact frame, which
\* it gets from a quiet ring and may lose, like any frame but the last, to a busy one.
Readable(ring, next) ==
    LET at == IF Len(ring) < next - 1 THEN 1 ELSE next
    IN  IF Len(ring) + 1 - at < SlotCount
        THEN {at}
        ELSE Len(ring) + 1 - SlotCount .. Len(ring)

(***************************************************************************)
(* The publisher.                                                          *)
(***************************************************************************)
\* A payload the ring of c is too small for: the ring is re-created with k as its
\* first frame, and its readers start over when they see the new slot_size.
GrowWriter(c, k) ==
    /\ grown < MaxGrow
    /\ grown' = grown + 1
    /\ sent' = [sent EXCEPT ![c] = <<k>>]
    /\ cursor' = [p \in Subscriptions |-> IF p[2] = c THEN 1 ELSE cursor[p]]

\* publishRaw(reliable = true).  Key 0 is sent but not recorded for re-sending.
Publish(c) ==
    /\ Len(home) < MaxCommands
    /\ home' = Append(home, c)
    /\ \E k \in {0, Len(home) + 1} :
        /\ IF k = 0
           THEN UNCHANGED <<pending, attempts>>
           ELSE /\ pending' = pending \cup {k}
                /\ attempts' = [attempts EXCEPT ![k] = 1]
        /\ \/ /\ sent' = [sent EXCEPT ![c] = Append(@, k)]
              /\ UNCHANGED <<grown, cursor>>
           \/ GrowWriter(c, k)
    /\ UNCHANGED <<gaveUp, ackCursor, hand, lastTs, handled, received, restarts,
                   ackRing>>

\* The commands in S in the order they were published.
InOrder(S) == CHOOSE q \in [1..Cardinality(S) -> S] :
                  \A i, j \in DOMAIN q : i < j => q[i] < q[j]

\* Mutant: an acknowledgement is taken for every command up to its timestamp.
DrainAcksCumulative(from) ==
    pending \ UNION {1..acks[i] : i \in from..Len(acks)}

\* drainAcks: what is left when the acknowledgements from "from" on are read.
DrainAcks(from) == pending \ {acks[i] : i \in from..Len(acks)}

\* Mutant: gives up one copy early.
ExhaustedEarly(due) == {k \in due : attempts[k] + 1 >= MaxRetries}

Exhausted(due) == {k \in due : attempts[k] >= MaxRetries}

\* Mutant: an exhausted command is no longer re-sent, and stays.
TickResendsKeep(due) ==
    LET resent == due \ Exhausted(due)
    IN  /\ gaveUp' = gaveUp
        /\ attempts' = [k \in Keys |-> attempts[k] + IF k \in resent THEN 1 ELSE 0]
        /\ sent' = [c \in Channels |->
                       sent[c] \o InOrder({k \in resent : home[k] = c})]

\* tickResends for the commands "due", whose retryInterval has passed.
TickResends(due) ==
    LET resent == due \ Exhausted(due)
    IN  /\ gaveUp' = gaveUp \cup Exhausted(due)
        /\ attempts' = [k \in Keys |-> attempts[k] + IF k \in resent THEN 1 ELSE 0]
        /\ sent' = [c \in Channels |->
                       sent[c] \o InOrder({k \in resent : home[k] = c})]

\* One turn of reliableLoop under apiMutex, in which the commands in "due" are
\* due if they are still pending by then.
Tick(due) ==
    /\ \E k \in Keys : attempts[k] > 0
    /\ \E from \in Readable(acks, ackCursor) :
        /\ TickResends(due \cap DrainAcks(from))
        /\ pending' = DrainAcks(from) \ gaveUp'
    /\ ackCursor' = Len(acks) + 1
    /\ UNCHANGED <<home, grown, subscriberVars, ackRing>>

(***************************************************************************)
(* A subscriber process: spinOnce and the handler subscribeRaw wraps.      *)
(***************************************************************************)
\* Mutant: a message without a timestamp is acknowledged.
FirstStageAck(k) == "ack"

\* A message without a timestamp is handled and not acknowledged.
FirstStage(k) == IF k = 0 THEN "handle" ELSE "ack"

\* spinOnce takes a frame under apiMutex and lets go of it before the handler.
Receive(s, c) ==
    /\ hand[s] = Idle
    /\ \E at \in Readable(sent[c], cursor[<<s, c>>]) :
        /\ at <= Len(sent[c])
        /\ cursor' = [cursor EXCEPT ![<<s, c>>] = at + 1]
        /\ IF <<s, c>> \in BestEffort
           THEN /\ handled' = [handled EXCEPT ![<<s, c>>] = Append(@, sent[c][at])]
                /\ UNCHANGED <<hand, received>>
           ELSE /\ hand' = [hand EXCEPT ![s] =
                       [stage |-> FirstStage(sent[c][at]),
                        channel |-> c, key |-> sent[c][at]]]
                /\ received' = received \cup {sent[c][at]}
                /\ UNCHANGED handled
    /\ UNCHANGED <<publisherVars, lastTs, restarts, ackRing>>

Acked(s) == [stage |-> "handle", channel |-> hand[s].channel, key |-> hand[s].key]

\* The ACK ring as the writer of s finds it.  A process that has none yet creates
\* it, which wipes the ring: all processes write to the one ACK channel.
WriterFor(s) == IF s \in ackWriter THEN acks ELSE <<>>

PublishAck(s) ==
    /\ hand[s].stage = "ack"
    /\ acks' = Append(WriterFor(s), hand[s].key)
    /\ ackWriter' = ackWriter \cup {s}
    /\ hand' = [hand EXCEPT ![s] = Acked(s)]
    /\ UNCHANGED <<publisherVars, cursor, lastTs, handled, received, restarts>>

\* Two processes read the same producer_seq and write the same slot.
PublishAckTogether(s, t) ==
    /\ s # t
    /\ {s, t} \subseteq ackWriter
    /\ hand[s].stage = "ack" /\ hand[t].stage = "ack"
    /\ \E k \in {hand[s].key, hand[t].key} : acks' = Append(acks, k)
    /\ hand' = [hand EXCEPT ![s] = Acked(s), ![t] = Acked(t)]
    /\ UNCHANGED <<publisherVars, ackWriter, cursor, lastTs, handled, received,
                   restarts>>

Duplicate(p, k) == k # 0 /\ k <= lastTs[p]

\* Mutant: the timestamp handled last is not remembered.
HandleForgetful(s) ==
    /\ hand[s].stage = "handle"
    /\ LET p == <<s, hand[s].channel>> k == hand[s].key IN
       handled' = IF Duplicate(p, k) THEN handled
                  ELSE [handled EXCEPT ![p] = Append(@, k)]
    /\ hand' = [hand EXCEPT ![s] = Idle]
    /\ UNCHANGED <<publisherVars, cursor, lastTs, received, restarts, ackRing>>

\* The rest of the wrapped handler: a frame that is not newer than the newest
\* one handled is taken for a re-send.
Handle(s) ==
    /\ hand[s].stage = "handle"
    /\ LET p == <<s, hand[s].channel>> k == hand[s].key IN
       IF Duplicate(p, k)
       THEN UNCHANGED <<lastTs, handled>>
       ELSE /\ lastTs' = IF k = 0 THEN lastTs ELSE [lastTs EXCEPT ![p] = k]
            /\ handled' = [handled EXCEPT ![p] = Append(@, k)]
    /\ hand' = [hand EXCEPT ![s] = Idle]
    /\ UNCHANGED <<publisherVars, cursor, received, restarts, ackRing>>

\* Mutant: a new reader starts behind the newest frame.
RestartAtTail(s) ==
    /\ restarts < MaxRestarts
    /\ restarts' = restarts + 1
    /\ hand' = [hand EXCEPT ![s] = Idle]
    /\ cursor' = [p \in Subscriptions |->
                      IF p[1] = s THEN Len(sent[p[2]]) + 1 ELSE cursor[p]]
    /\ lastTs' = [p \in Reliable |-> IF p[1] = s THEN 0 ELSE lastTs[p]]
    /\ handled' = [p \in Subscriptions |-> IF p[1] = s THEN <<>> ELSE handled[p]]
    /\ ackWriter' = ackWriter \ {s}
    /\ UNCHANGED <<publisherVars, acks, received>>

\* The process is killed and a new one subscribes again.
Restart(s) ==
    /\ restarts < MaxRestarts
    /\ restarts' = restarts + 1
    /\ hand' = [hand EXCEPT ![s] = Idle]
    /\ cursor' = [p \in Subscriptions |-> IF p[1] = s THEN 1 ELSE cursor[p]]
    /\ lastTs' = [p \in Reliable |-> IF p[1] = s THEN 0 ELSE lastTs[p]]
    /\ handled' = [p \in Subscriptions |-> IF p[1] = s THEN <<>> ELSE handled[p]]
    /\ ackWriter' = ackWriter \ {s}
    /\ UNCHANGED <<publisherVars, acks, received>>

Spin(s) == \/ \E c \in Channels : <<s, c>> \in Subscriptions /\ Receive(s, c)
           \/ PublishAck(s)
           \/ \E t \in Processes : PublishAckTogether(s, t)
           \/ Handle(s)

Next == \/ \E c \in Channels : Publish(c)
        \/ \E due \in SUBSET pending : Tick(due)
        \/ \E s \in Processes : Spin(s) \/ Restart(s)

Spec == Init /\ [][Next]_vars

\* Every pending command is due again and again, and every subscriber spins.
Fairness ==
    /\ \A k \in Keys : WF_vars(\E due \in SUBSET pending : k \in due /\ Tick(due))
    /\ \A s \in Processes : WF_vars(Spin(s))

LiveSpec == Spec /\ Fairness

(***************************************************************************)
(* Properties.                                                             *)
(***************************************************************************)
Recorded == {k \in Keys : attempts[k] > 0}

\* Commands an acknowledgement took off pendingReliable.
Cleared == Recorded \ (pending \cup gaveUp)

Hands == [stage : {"ack"}, channel : Channels, key : Keys]
         \cup [stage : {"handle"}, channel : Channels, key : Keys \cup {0}]
         \cup {Idle}

\* Every variable keeps its type.
TypeOK ==
    /\ home \in Seq(Channels) /\ Len(home) <= MaxCommands
    /\ pending \subseteq Recorded /\ gaveUp \subseteq Recorded
    /\ attempts \in [Keys -> Nat]
    /\ sent \in [Channels -> Seq(Keys \cup {0})]
    /\ acks \in Seq(Keys) /\ ackCursor \in Nat \ {0}
    /\ ackWriter \subseteq Processes
    /\ cursor \in [Subscriptions -> Nat \ {0}]
    /\ hand \in [Processes -> Hands]
    /\ lastTs \in [Reliable -> Keys \cup {0}]
    /\ handled \in [Subscriptions -> Seq(Keys \cup {0})]
    /\ received \subseteq Keys \cup {0}
    /\ grown \in 0..MaxGrow /\ restarts \in 0..MaxRestarts

\* However often a command is re-sent or a ring replayed, in the life of a process its
\* handler is called with it once ("handler fires once per unique command",
\* Transport.cpp:206-208).
FiresOnce ==
    \A p \in Reliable : \A i, j \in DOMAIN handled[p] :
        i # j => handled[p][i] = 0 \/ handled[p][i] # handled[p][j]

\* Only a command that some subscriber was handed stops being re-sent before its
\* retries are used up, also when acknowledgements are lost, overwritten or come
\* back after a restart.
ClearedWasReceived == Cleared \subseteq received

\* A command is given up only after MaxRetries copies of it, the first one
\* included, went into the ring that was not re-created meanwhile.
GiveUpBudget ==
    \A k \in gaveUp :
        grown = 0 => Cardinality({i \in DOMAIN sent[home[k]] : sent[home[k]][i] = k})
                        = IF MaxRetries = 0 THEN 1 ELSE MaxRetries

Settled(k) == /\ k \in DOMAIN home
              /\ \E p \in Reliable : p[2] = home[k] /\ lastTs[p] >= k

Held(k) == \E s \in Processes : hand[s] # Idle /\ hand[s].key = k

\* A reliable subscriber of the channel of k has yet to read a copy of it.
Unread(k) == \E p \in Reliable :
    /\ p[2] = home[k]
    /\ \E i \in cursor[p]..Len(sent[home[k]]) : sent[home[k]][i] = k

\* The ring of k may have lost a frame.
Overrun(k) == grown > 0 \/ Len(sent[home[k]]) >= SlotCount

\* An acknowledged command has reached a handler, or is about to, unless a newer
\* command of its channel has been handled.  When its subscriber is killed, also
\* between the acknowledgement and the handler, the next one reads it again, unless
\* the ring has been filled or re-created (raccoon_ring.c:496-508, Transport.cpp:612-635).
AckedIsHandledOrSuperseded ==
    \A k \in Cleared : \/ Settled(k)
                       \/ Held(k)
                       \/ restarts > 0 /\ (Unread(k) \/ Overrun(k))

\* Every command leaves pendingReliable, which "can't grow without bound"
\* (Options.h:43-46), whether or not a subscriber ever answers; and while no
\* subscriber is killed it is handled, overtaken by a newer one, or reported as
\* given up.
EveryCommandSettles ==
    \A k \in Keys : attempts[k] > 0 ~>
        k \notin pending /\ (restarts > 0 \/ k \in gaveUp \/ Settled(k))

\* "At-least-once delivery: re-send until the subscriber ACKs" (Options.h:30): a
\* command that was neither given up nor is still pending reached the handler.
\* Not so: one that is lost, and re-sent after a newer one, is acknowledged and
\* swallowed as a duplicate.
AtLeastOnce ==
    \A k \in Cleared : Held(k) \/ \E p \in Reliable : \E i \in DOMAIN handled[p] :
                                                          handled[p][i] = k
====
