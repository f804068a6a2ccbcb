---- MODULE ReliableProofs ----
(***************************************************************************)
(* Proofs about reliable commands, for any channels, subscribers, ring     *)
(* sizes, retries, restarts and re-created rings: the types, that a        *)
(* handler is called once per command, that nothing is taken for           *)
(* delivered that no subscriber was handed, that an acknowledged command   *)
(* was handled or overtaken, and how many copies a given-up one got.       *)
(***************************************************************************)
EXTENDS Reliable, FiniteSetTheorems, WellFoundedInduction, TLAPS

(***************************************************************************)
(* The order of re-sending.  InOrder chooses an increasing enumeration; that *)
(* there is one takes induction on the bound of the set, as the absence of a *)
(* least counterexample.                                                   *)
(***************************************************************************)
LEMMA LeastNat ==
    ASSUME NEW T \in SUBSET Nat, T # {}
    PROVE  \E n \in T : \A m \in T : n <= m
<1>1. PICK n \in T : \A m \in T : ~ (<<m, n>> \in OpToRel(<, Nat))
  <2> DEFINE R == OpToRel(<, Nat)
  <2>1. IsWellFoundedOn(R, Nat)
    BY NatLessThanWellFounded
  <2> HIDE DEF R
  <2>2. \E n \in T : \A m \in T : ~ (<<m, n>> \in R)
    BY <2>1, WFMin
  <2> QED
    BY <2>2 DEF R
<1>2. \A m \in T : ~ (m < n)
  BY <1>1 DEF OpToRel
<1> QED
  BY <1>2

\* A list of numbers that only goes up.
Sorted(q) == \A i, j \in DOMAIN q : i < j => q[i] < q[j]

LEMMA Enumeration ==
    ASSUME NEW n \in Nat, NEW S \in SUBSET (1..n)
    PROVE  \E q \in [1..Cardinality(S) -> S] : Sorted(q)
<1> DEFINE Good(m) == \A U \in SUBSET (1..m) :
                          \E q \in [1..Cardinality(U) -> U] : Sorted(q)
           Bad == {m \in Nat : ~Good(m)}
<1>1. SUFFICES ASSUME Bad # {} PROVE FALSE
  <2>1. Good(n)
    BY <1>1
  <2> QED
    BY <2>1
<1>2. PICK m \in Bad : \A k \in Bad : m <= k
  BY <1>1, LeastNat
<1>3. m \in Nat /\ ~Good(m)
  OBVIOUS
<1>4. PICK U \in SUBSET (1..m) : ~ \E q \in [1..Cardinality(U) -> U] : Sorted(q)
  BY <1>3
<1> HIDE DEF Good
<1>5. U # {}
  <2> SUFFICES ASSUME U = {} PROVE FALSE
    OBVIOUS
  <2>1. Cardinality(U) = 0
    BY FS_EmptySet
  <2> DEFINE q == [i \in 1..Cardinality(U) |-> 1]
  <2>2. q \in [1..Cardinality(U) -> U] /\ Sorted(q)
    BY <2>1 DEF Sorted
  <2> QED
    BY <1>4, <2>2
<1>6. m > 0 /\ m - 1 \in Nat /\ Good(m - 1)
  <2>1. m > 0 /\ m - 1 \in Nat
    <3>1. PICK u \in U : u \in 1..m
      BY <1>5
    <3> QED
      BY <1>3, <3>1
  <2>2. m - 1 \notin Bad
    <3>1. m - 1 < m
      BY <2>1
    <3> QED
      BY <1>2, <2>1, <3>1
  <2> QED
    BY <2>1, <2>2
<1>7. m \in U
  <2>1. U \in SUBSET (1..m - 1) => \E q \in [1..Cardinality(U) -> U] : Sorted(q)
    BY <1>6 DEF Good
  <2> QED
    BY <1>3, <1>4, <2>1
<1> DEFINE V == U \ {m}
           c == Cardinality(V)
<1>8. c \in Nat /\ Cardinality(U) = c + 1
  <2>1. IsFiniteSet(U)
    <3>1. IsFiniteSet(1..m)
      BY <1>3, FS_Interval
    <3> QED
      BY <3>1, FS_Subset
  <2>2. IsFiniteSet(V) /\ Cardinality(V) = Cardinality(U) - 1
    BY <1>7, <2>1, FS_RemoveElement
  <2>3. Cardinality(U) \in Nat /\ Cardinality(V) \in Nat
    BY <2>1, <2>2, FS_CardinalityType
  <2> QED
    BY <2>2, <2>3
<1>9. PICK q \in [1..c -> V] : Sorted(q)
  <2>1. V \in SUBSET (1..m - 1)
    BY <1>3
  <2> QED
    BY <1>6, <2>1 DEF Good
<1> HIDE DEF c
<1> DEFINE r == [i \in 1..c + 1 |-> IF i = c + 1 THEN m ELSE q[i]]
<1>10. r \in [1..c + 1 -> U]
  BY <1>7, <1>8, <1>9
<1>11. Sorted(r)
  <2> SUFFICES ASSUME NEW i \in 1..c + 1, NEW j \in 1..c + 1, i < j
               PROVE  r[i] < r[j]
    BY DEF Sorted
  <2>1. i \in 1..c /\ r[i] = q[i] /\ q[i] \in V /\ q[i] < m
    <3>1. i \in 1..c /\ i # c + 1
      BY <1>8
    <3>2. q[i] \in V
      BY <1>9, <3>1
    <3>3. q[i] < m
      <4> HIDE DEF r
      <4>1. q[i] \in 1..m /\ q[i] # m
        BY <3>2
      <4> QED
        BY <1>3, <4>1
    <3> QED
      BY <3>1, <3>2, <3>3
  <2>2. CASE j = c + 1
    BY <2>1, <2>2
  <2>3. CASE j # c + 1
    BY <1>8, <1>9, <2>1, <2>3 DEF Sorted
  <2> QED
    BY <2>2, <2>3
<1> QED
  BY <1>4, <1>8, <1>10, <1>11

LEMMA InOrderType ==
    ASSUME NEW S \in SUBSET Keys
    PROVE  InOrder(S) \in Seq(S)
<1>1. MaxCommands \in Nat
  BY ReliableAssumption
<1>2. PICK q \in [1..Cardinality(S) -> S] : Sorted(q)
  BY <1>1, Enumeration DEF Keys
<1>3. InOrder(S) \in [1..Cardinality(S) -> S]
  BY <1>2 DEF InOrder, Sorted
<1>4. Cardinality(S) \in Nat
  <2>1. IsFiniteSet(Keys)
    BY <1>1, FS_Interval DEF Keys
  <2> QED
    BY <2>1, FS_Subset, FS_CardinalityType
<1> QED
  BY <1>3, <1>4

LEMMA SeqMonotonic ==
    ASSUME NEW S, NEW T, S \subseteq T, NEW q \in Seq(S)
    PROVE  q \in Seq(T)
  OBVIOUS

(***************************************************************************)
(* Types.                                                                  *)
(***************************************************************************)
LEMMA ReadableFrom ==
    ASSUME NEW n \in Nat, NEW next \in Nat \ {0}, NEW ring, Len(ring) = n,
           NEW at \in Readable(ring, next)
    PROVE  at \in Nat \ {0}
<1>1. SlotCount \in Nat \ {0, 1}
  BY ReliableAssumption
<1> QED
  BY <1>1 DEF Readable

LEMMA InitType == Init => TypeOK
<1> SUFFICES ASSUME Init PROVE TypeOK
  OBVIOUS
<1>1. MaxCommands \in Nat /\ MaxGrow \in Nat /\ MaxRestarts \in Nat
  BY ReliableAssumption
<1>2. /\ home \in Seq(Channels) /\ Len(home) <= MaxCommands
      /\ acks \in Seq(Keys)
      /\ sent \in [Channels -> Seq(Keys \cup {0})]
      /\ handled \in [Subscriptions -> Seq(Keys \cup {0})]
  BY <1>1 DEF Init
<1>3. /\ attempts \in [Keys -> Nat]
      /\ cursor \in [Subscriptions -> Nat \ {0}]
      /\ hand \in [Processes -> Hands]
      /\ lastTs \in [Reliable -> Keys \cup {0}]
  BY DEF Init, Hands
<1> QED
  BY <1>1, <1>2, <1>3 DEF Init, TypeOK

LEMMA PublishType ==
    ASSUME TypeOK, NEW c \in Channels, Publish(c)
    PROVE  TypeOK'
<1>1. Len(home) \in Nat /\ MaxCommands \in Nat /\ MaxGrow \in Nat
  BY ReliableAssumption DEF TypeOK
<1> DEFINE n == Len(home) + 1
<1>2. n \in Keys /\ home' \in Seq(Channels) /\ Len(home') <= MaxCommands
  BY <1>1 DEF Publish, Keys, TypeOK
<1>3. PICK k \in {0, n} :
          /\ IF k = 0
             THEN UNCHANGED <<pending, attempts>>
             ELSE /\ pending' = pending \cup {k}
                  /\ attempts' = [attempts EXCEPT ![k] = 1]
          /\ \/ /\ sent' = [sent EXCEPT ![c] = Append(@, k)]
                /\ UNCHANGED <<grown, cursor>>
             \/ /\ grown < MaxGrow
                /\ sent' = [sent EXCEPT ![c] = <<k>>]
                /\ cursor' = [p \in Subscriptions |->
                                 IF p[2] = c THEN 1 ELSE cursor[p]]
                /\ grown' = grown + 1
  BY DEF Publish, GrowWriter
<1> HIDE DEF n
<1>4. UNCHANGED <<gaveUp, ackCursor, hand, lastTs, handled, received, restarts,
                  acks, ackWriter>>
  BY DEF Publish, ackRing
<1>5. k \in Keys \cup {0}
  BY <1>2
<1>6. sent' \in [Channels -> Seq(Keys \cup {0})]
  <2>1. sent[c] \in Seq(Keys \cup {0})
    BY DEF TypeOK
  <2>2. /\ Append(sent[c], k) \in Seq(Keys \cup {0})
        /\ <<k>> \in Seq(Keys \cup {0})
    BY <1>5, <2>1
  <2>3. \E q \in Seq(Keys \cup {0}) : sent' = [sent EXCEPT ![c] = q]
    BY <1>3, <2>2
  <2> QED
    BY <2>3 DEF TypeOK
<1>7. cursor' \in [Subscriptions -> Nat \ {0}] /\ grown' \in 0..MaxGrow
  <2>1. CASE UNCHANGED <<grown, cursor>>
    BY <2>1 DEF TypeOK
  <2>2. CASE /\ grown < MaxGrow
             /\ cursor' = [p \in Subscriptions |->
                              IF p[2] = c THEN 1 ELSE cursor[p]]
             /\ grown' = grown + 1
    <3>1. \A p \in Subscriptions : cursor[p] \in Nat \ {0}
      BY DEF TypeOK
    <3> QED
      BY <1>1, <2>2, <3>1 DEF TypeOK
  <2> QED
    BY <1>3, <2>1, <2>2
<1>8. /\ attempts' \in [Keys -> Nat]
      /\ Recorded \subseteq Recorded'
      /\ pending' \subseteq Recorded'
  <2>1. CASE k = 0
    BY <1>3, <2>1 DEF TypeOK, Recorded
  <2>2. CASE k # 0
    <3>1. k \in Keys /\ pending' = pending \cup {k}
          /\ attempts' = [attempts EXCEPT ![k] = 1]
      BY <1>3, <1>5, <2>2
    <3> QED
      BY <3>1 DEF TypeOK, Recorded
  <2> QED
    BY <2>1, <2>2
<1>9. gaveUp' \subseteq Recorded'
  BY <1>4, <1>8 DEF TypeOK
<1> QED
  BY <1>2, <1>4, <1>6, <1>7, <1>8, <1>9 DEF TypeOK

LEMMA TickType ==
    ASSUME TypeOK, NEW due \in SUBSET pending, Tick(due)
    PROVE  TypeOK'
<1>1. PICK from \in Readable(acks, ackCursor) :
          /\ TickResends(due \cap DrainAcks(from))
          /\ pending' = DrainAcks(from) \ gaveUp'
  BY DEF Tick
<1> DEFINE late   == due \cap DrainAcks(from)
           resent == late \ Exhausted(late)
<1>2. /\ UNCHANGED <<home, grown, cursor, hand, lastTs, handled, received,
                     restarts, acks, ackWriter>>
      /\ ackCursor' = Len(acks) + 1
  BY DEF Tick, subscriberVars, ackRing
<1>3. /\ gaveUp' = gaveUp \cup Exhausted(late)
      /\ attempts' = [k \in Keys |-> attempts[k] + IF k \in resent THEN 1 ELSE 0]
      /\ sent' = [c \in Channels |->
                     sent[c] \o InOrder({k \in resent : home[k] = c})]
  BY <1>1 DEF TickResends
<1>4. /\ resent \subseteq pending /\ DrainAcks(from) \subseteq pending
      /\ Exhausted(late) \subseteq pending
  BY DEF DrainAcks, Exhausted
<1> HIDE DEF late, resent
<1>5. ackCursor' \in Nat \ {0}
  BY <1>2 DEF TypeOK
<1>6. pending \subseteq Keys
  BY DEF TypeOK, Recorded
<1>7. attempts' \in [Keys -> Nat] /\ Recorded \subseteq Recorded'
  BY <1>3 DEF TypeOK, Recorded
<1>8. pending' \subseteq Recorded' /\ gaveUp' \subseteq Recorded'
  BY <1>1, <1>3, <1>4, <1>7 DEF TypeOK
<1>9. sent' \in [Channels -> Seq(Keys \cup {0})]
  <2> SUFFICES ASSUME NEW c \in Channels
               PROVE  sent[c] \o InOrder({k \in resent : home[k] = c})
                          \in Seq(Keys \cup {0})
    BY <1>3
  <2> DEFINE S == {k \in resent : home[k] = c}
  <2>1. S \in SUBSET Keys
    BY <1>4, <1>6
  <2> HIDE DEF S
  <2>2. InOrder(S) \in Seq(Keys \cup {0})
    BY <2>1, InOrderType, SeqMonotonic
  <2>3. sent[c] \in Seq(Keys \cup {0})
    BY DEF TypeOK
  <2> QED
    BY <2>2, <2>3 DEF S
<1> QED
  BY <1>2, <1>5, <1>7, <1>8, <1>9 DEF TypeOK

\* What recv hands over is a frame of the ring.
LEMMA ReceivedFrame ==
    ASSUME TypeOK, NEW s \in Processes, NEW c \in Channels,
           <<s, c>> \in Subscriptions, Receive(s, c)
    PROVE  \E at \in DOMAIN sent[c] :
               /\ sent[c][at] \in Keys \cup {0}
               /\ cursor' = [cursor EXCEPT ![<<s, c>>] = at + 1]
               /\ \/ /\ <<s, c>> \in BestEffort
                     /\ handled' = [handled EXCEPT ![<<s, c>>] =
                                       Append(@, sent[c][at])]
                     /\ UNCHANGED <<hand, received>>
                  \/ /\ <<s, c>> \in Reliable
                     /\ hand' = [hand EXCEPT ![s] =
                            [stage |-> FirstStage(sent[c][at]),
                             channel |-> c, key |-> sent[c][at]]]
                     /\ received' = received \cup {sent[c][at]}
                     /\ UNCHANGED handled
<1>1. PICK at \in Readable(sent[c], cursor[<<s, c>>]) :
        /\ at <= Len(sent[c])
        /\ cursor' = [cursor EXCEPT ![<<s, c>>] = at + 1]
        /\ IF <<s, c>> \in BestEffort
           THEN /\ handled' = [handled EXCEPT ![<<s, c>>] = Append(@, sent[c][at])]
                /\ UNCHANGED <<hand, received>>
           ELSE /\ hand' = [hand EXCEPT ![s] =
                       [stage |-> FirstStage(sent[c][at]),
                        channel |-> c, key |-> sent[c][at]]]
                /\ received' = received \cup {sent[c][at]}
                /\ UNCHANGED handled
  BY DEF Receive
<1>2. /\ sent[c] \in Seq(Keys \cup {0}) /\ Len(sent[c]) \in Nat
      /\ cursor[<<s, c>>] \in Nat \ {0}
  BY DEF TypeOK
<1>3. at \in Nat \ {0}
  BY <1>2, ReadableFrom
<1>4. at \in DOMAIN sent[c] /\ sent[c][at] \in Keys \cup {0}
  BY <1>1, <1>2, <1>3
<1> QED
  BY <1>1, <1>4 DEF Subscriptions

LEMMA HandledType ==
    ASSUME TypeOK, NEW k \in Keys \cup {0}, NEW p,
           \/ UNCHANGED handled
           \/ handled' = [handled EXCEPT ![p] = Append(@, k)]
    PROVE  handled' \in [Subscriptions -> Seq(Keys \cup {0})]
<1>1. CASE UNCHANGED handled
  BY <1>1 DEF TypeOK
<1>2. CASE p \in Subscriptions /\ handled' = [handled EXCEPT ![p] = Append(@, k)]
  <2>1. handled[p] \in Seq(Keys \cup {0})
    BY <1>2 DEF TypeOK
  <2>2. Append(handled[p], k) \in Seq(Keys \cup {0})
    BY <2>1
  <2> QED
    BY <1>2, <2>2 DEF TypeOK
<1>3. CASE p \notin Subscriptions /\ handled' = [handled EXCEPT ![p] = Append(@, k)]
  BY <1>3 DEF TypeOK
<1> QED
  BY <1>1, <1>2, <1>3

LEMMA ReceiveType ==
    ASSUME TypeOK, NEW s \in Processes, NEW c \in Channels,
           <<s, c>> \in Subscriptions, Receive(s, c)
    PROVE  TypeOK'
<1>1. UNCHANGED <<home, pending, attempts, gaveUp, sent, grown, ackCursor, lastTs,
                  restarts, acks, ackWriter>>
  BY DEF Receive, publisherVars, ackRing
<1>2. PICK at \in DOMAIN sent[c] :
          /\ sent[c][at] \in Keys \cup {0}
          /\ cursor' = [cursor EXCEPT ![<<s, c>>] = at + 1]
          /\ \/ /\ handled' = [handled EXCEPT ![<<s, c>>] = Append(@, sent[c][at])]
                /\ UNCHANGED <<hand, received>>
             \/ /\ hand' = [hand EXCEPT ![s] =
                       [stage |-> FirstStage(sent[c][at]),
                        channel |-> c, key |-> sent[c][at]]]
                /\ received' = received \cup {sent[c][at]}
                /\ UNCHANGED handled
  BY ReceivedFrame
<1>3. cursor' \in [Subscriptions -> Nat \ {0}]
  <2>1. at \in Nat
    BY DEF TypeOK
  <2> QED
    BY <1>2, <2>1 DEF TypeOK
<1>4. [stage |-> FirstStage(sent[c][at]), channel |-> c, key |-> sent[c][at]] \in Hands
  <2>1. CASE sent[c][at] = 0
    BY <2>1 DEF FirstStage, Hands
  <2>2. CASE sent[c][at] # 0
    BY <1>2, <2>2 DEF FirstStage, Hands
  <2> QED
    BY <2>1, <2>2
<1>5. hand' \in [Processes -> Hands] /\ received' \subseteq Keys \cup {0}
  BY <1>2, <1>4 DEF TypeOK
<1>6. handled' \in [Subscriptions -> Seq(Keys \cup {0})]
  BY <1>2, HandledType
<1> QED
  BY <1>1, <1>3, <1>5, <1>6 DEF TypeOK, Recorded

\* A hand that holds something.
LEMMA HandType ==
    ASSUME TypeOK, NEW s \in Processes, hand[s].stage \in {"ack", "handle"}
    PROVE  /\ hand[s].channel \in Channels
           /\ hand[s].key \in Keys \cup {0}
           /\ hand[s].stage = "ack" => hand[s].key \in Keys
           /\ Acked(s) \in Hands
<1>1. hand[s] \in Hands
  BY DEF TypeOK
<1>2. hand[s] \in [stage : {"ack"}, channel : Channels, key : Keys]
      \/ hand[s] \in [stage : {"handle"}, channel : Channels, key : Keys \cup {0}]
  BY <1>1 DEF Hands, Idle
<1> QED
  BY <1>2 DEF Acked, Hands

\* publishAck appends to the ring, or starts it over.
LEMMA AckAppended ==
    ASSUME NEW s \in Processes, NEW k \in Keys, acks \in Seq(Keys)
    PROVE  /\ Append(WriterFor(s), k) \in Seq(Keys)
           /\ Append(WriterFor(s), k) \in {Append(acks, k), <<k>>}
<1>1. CASE s \in ackWriter
  BY <1>1 DEF WriterFor
<1>2. CASE s \notin ackWriter
  <2>1. WriterFor(s) = <<>>
    BY <1>2 DEF WriterFor
  <2>2. Append(<<>>, k) = <<k>> /\ <<k>> \in Seq(Keys)
    OBVIOUS
  <2> QED
    BY <2>1, <2>2
<1> QED
  BY <1>1, <1>2

LEMMA AckType ==
    ASSUME TypeOK, NEW s \in Processes, NEW t \in Processes,
           PublishAck(s) \/ PublishAckTogether(s, t)
    PROVE  TypeOK'
<1>1. UNCHANGED <<home, pending, attempts, gaveUp, sent, grown, ackCursor, cursor,
                  lastTs, handled, received, restarts>>
  BY DEF PublishAck, PublishAckTogether, publisherVars
<1>2. /\ acks' \in Seq(Keys) /\ ackWriter' \subseteq Processes
      /\ hand' \in [Processes -> Hands]
  <2>1. CASE PublishAck(s)
    <3>1. hand[s].key \in Keys /\ Acked(s) \in Hands
      BY <2>1, HandType DEF PublishAck
    <3> QED
      BY <2>1, <3>1, AckAppended DEF PublishAck, TypeOK
  <2>2. CASE PublishAckTogether(s, t)
    <3>1. /\ hand[s].key \in Keys /\ Acked(s) \in Hands
          /\ hand[t].key \in Keys /\ Acked(t) \in Hands
      BY <2>2, HandType DEF PublishAckTogether
    <3>2. PICK k \in {hand[s].key, hand[t].key} : acks' = Append(acks, k)
      BY <2>2 DEF PublishAckTogether
    <3>3. acks' \in Seq(Keys)
      BY <3>1, <3>2 DEF TypeOK
    <3> QED
      BY <2>2, <3>1, <3>3 DEF PublishAckTogether, TypeOK
  <2> QED
    BY <2>1, <2>2
<1> QED
  BY <1>1, <1>2 DEF TypeOK, Recorded

LEMMA HandleType ==
    ASSUME TypeOK, NEW s \in Processes, Handle(s)
    PROVE  TypeOK'
<1>1. UNCHANGED <<home, pending, attempts, gaveUp, sent, grown, ackCursor, cursor,
                  received, restarts, acks, ackWriter>>
  BY DEF Handle, publisherVars, ackRing
<1>2. hand[s].key \in Keys \cup {0}
  BY HandType DEF Handle
<1>3. hand' \in [Processes -> Hands]
  BY DEF Handle, TypeOK, Hands
<1> DEFINE p == <<s, hand[s].channel>>
           k == hand[s].key
<1>4. /\ \/ UNCHANGED lastTs
         \/ k # 0 /\ lastTs' = [lastTs EXCEPT ![p] = k]
      /\ \/ UNCHANGED handled
         \/ handled' = [handled EXCEPT ![p] = Append(@, k)]
  BY DEF Handle
<1> HIDE DEF p
<1>5. lastTs' \in [Reliable -> Keys \cup {0}]
  BY <1>2, <1>4 DEF TypeOK
<1>6. handled' \in [Subscriptions -> Seq(Keys \cup {0})]
  BY <1>2, <1>4, HandledType
<1> QED
  BY <1>1, <1>3, <1>5, <1>6 DEF TypeOK, Recorded

LEMMA RestartType ==
    ASSUME TypeOK, NEW s \in Processes, Restart(s)
    PROVE  TypeOK'
<1>1. UNCHANGED <<home, pending, attempts, gaveUp, sent, grown, ackCursor,
                  received, acks>>
  BY DEF Restart, publisherVars
<1>2. /\ hand' \in [Processes -> Hands]
      /\ cursor' \in [Subscriptions -> Nat \ {0}]
      /\ lastTs' \in [Reliable -> Keys \cup {0}]
  BY DEF Restart, TypeOK, Hands
<1>3. handled' \in [Subscriptions -> Seq(Keys \cup {0})]
  BY DEF Restart, TypeOK
<1>4. restarts' \in 0..MaxRestarts /\ ackWriter' \subseteq Processes
  BY ReliableAssumption DEF Restart, TypeOK
<1> QED
  BY <1>1, <1>2, <1>3, <1>4 DEF TypeOK, Recorded

LEMMA NextType == TypeOK /\ [Next]_vars => TypeOK'
<1> SUFFICES ASSUME TypeOK, [Next]_vars PROVE TypeOK'
  OBVIOUS
<1>1. CASE UNCHANGED vars
  BY <1>1 DEF vars, publisherVars, subscriberVars, ackRing, TypeOK, Recorded
<1>2. CASE Next
  BY <1>2, PublishType, TickType, ReceiveType, AckType, HandleType, RestartType
     DEF Next, Spin
<1> QED
  BY <1>1, <1>2

\* Every variable keeps its type: the resends of a tick are a sequence of recorded
\* commands, which takes the enumeration above.
THEOREM TypeCorrect == Spec => []TypeOK
<1> QED
  BY InitType, NextType, PTL DEF Spec

(***************************************************************************)
(* A handler is called once with each command.                             *)
(***************************************************************************)
\* A hand that holds something holds it for a reliable subscription, and what its
\* handler was called with is not newer than the last timestamp.
OnceInv ==
    /\ \A s \in Processes :
           hand[s].stage \in {"ack", "handle"} => <<s, hand[s].channel>> \in Reliable
    /\ \A p \in Reliable : \A i \in DOMAIN handled[p] : handled[p][i] <= lastTs[p]
    /\ FiresOnce

LEMMA InitOnce == Init => OnceInv
<1> SUFFICES ASSUME Init PROVE OnceInv
  OBVIOUS
<1>1. \A p \in Reliable : DOMAIN handled[p] = {}
  BY DEF Init, Subscriptions
<1>2. \A s \in Processes : hand[s].stage = "idle"
  BY DEF Init, Idle
<1> QED
  BY <1>1, <1>2 DEF OnceInv, FiresOnce

LEMMA ReceiveOnce ==
    ASSUME TypeOK, OnceInv, NEW s \in Processes, NEW c \in Channels,
           <<s, c>> \in Subscriptions, Receive(s, c)
    PROVE  OnceInv'
<1>1. UNCHANGED lastTs
  BY DEF Receive
<1>2. PICK at \in DOMAIN sent[c] :
          \/ /\ <<s, c>> \in BestEffort
             /\ handled' = [handled EXCEPT ![<<s, c>>] = Append(@, sent[c][at])]
             /\ UNCHANGED hand
          \/ /\ <<s, c>> \in Reliable
             /\ hand' = [hand EXCEPT ![s] =
                    [stage |-> FirstStage(sent[c][at]),
                     channel |-> c, key |-> sent[c][at]]]
             /\ UNCHANGED handled
  BY ReceivedFrame
<1>3. \A p \in Reliable : handled'[p] = handled[p]
  <2>1. handled \in [Subscriptions -> Seq(Keys \cup {0})]
    BY DEF TypeOK
  <2>2. <<s, c>> \in BestEffort => <<s, c>> \notin Reliable
    BY ReliableAssumption
  <2> QED
    BY <1>2, <2>1, <2>2 DEF Subscriptions
<1>4. ASSUME NEW t \in Processes, hand'[t].stage \in {"ack", "handle"}
      PROVE  <<t, hand'[t].channel>> \in Reliable
  <2>1. hand \in [Processes -> Hands]
    BY DEF TypeOK
  <2>2. CASE hand'[t] = hand[t]
    BY <1>4, <2>2 DEF OnceInv
  <2>3. CASE hand'[t] # hand[t]
    <3>1. t = s /\ hand'[t].channel = c /\ <<s, c>> \in Reliable
      BY <1>2, <2>1, <2>3
    <3> QED
      BY <3>1
  <2> QED
    BY <2>2, <2>3
<1> QED
  BY <1>1, <1>3, <1>4 DEF OnceInv, FiresOnce

LEMMA HandleOnce ==
    ASSUME TypeOK, OnceInv, NEW s \in Processes, Handle(s)
    PROVE  OnceInv'
<1> DEFINE p == <<s, hand[s].channel>>
           k == hand[s].key
<1>1. /\ hand' = [hand EXCEPT ![s] = Idle]
      /\ IF Duplicate(p, k)
         THEN UNCHANGED <<lastTs, handled>>
         ELSE /\ lastTs' = IF k = 0 THEN lastTs ELSE [lastTs EXCEPT ![p] = k]
              /\ handled' = [handled EXCEPT ![p] = Append(@, k)]
  BY DEF Handle
<1>2. p \in Reliable /\ p \in Subscriptions /\ k \in Keys \cup {0}
  BY HandType DEF Handle, OnceInv, Subscriptions
<1> HIDE DEF p, k
<1>3. \A t \in Processes : hand'[t].stage \in {"ack", "handle"}
                               => hand'[t] = hand[t]
  BY <1>1 DEF TypeOK, Idle
<1>4. /\ handled \in [Subscriptions -> Seq(Keys \cup {0})]
      /\ lastTs \in [Reliable -> Keys \cup {0}]
      /\ Reliable \subseteq Subscriptions
      /\ Keys \subseteq Nat
  BY ReliableAssumption DEF TypeOK, Subscriptions, Keys
<1>5. CASE Duplicate(p, k)
  BY <1>1, <1>3, <1>5 DEF OnceInv, FiresOnce
<1>6. CASE ~Duplicate(p, k)
  <2>0. /\ k \in Nat /\ lastTs[p] \in Nat
        /\ \A m \in DOMAIN handled[p] : handled[p][m] \in Nat
    <3>1. Keys \cup {0} \subseteq Nat
      BY <1>4
    <3>2. k \in Keys \cup {0} /\ lastTs[p] \in Keys \cup {0}
      BY <1>2, <1>4
    <3>3. handled[p] \in Seq(Keys \cup {0})
      BY <1>2, <1>4
    <3>4. \A m \in DOMAIN handled[p] : handled[p][m] \in Keys \cup {0}
      BY <3>3
    <3> QED
      BY <3>1, <3>2, <3>4
  <2>1. k = 0 \/ k > lastTs[p]
    BY <1>6, <2>0 DEF Duplicate
  <2>2. lastTs'[p] \in Nat /\ lastTs'[p] >= lastTs[p] /\ k <= lastTs'[p]
    <3>1. lastTs'[p] = IF k = 0 THEN lastTs[p] ELSE k
      BY <1>1, <1>2, <1>4, <1>6
    <3> QED
      BY <2>0, <2>1, <3>1
  <2>3. /\ handled[p] \in Seq(Keys \cup {0})
        /\ handled'[p] = Append(handled[p], k)
    BY <1>1, <1>2, <1>4, <1>6
  <2>4. \A q \in Reliable \ {p} : handled'[q] = handled[q] /\ lastTs'[q] = lastTs[q]
    BY <1>1, <1>4, <1>6
  <2>5. \A i \in DOMAIN handled[p] : handled[p][i] <= lastTs[p]
    BY <1>2 DEF OnceInv
  <2>6. \A i \in DOMAIN handled'[p] :
            \/ i \in DOMAIN handled[p] /\ handled'[p][i] = handled[p][i]
            \/ i = Len(handled[p]) + 1 /\ handled'[p][i] = k
    BY <2>3
  <2>7. ASSUME NEW i \in DOMAIN handled'[p] PROVE handled'[p][i] <= lastTs'[p]
    <3>1. CASE i \in DOMAIN handled[p] /\ handled'[p][i] = handled[p][i]
      BY <2>0, <2>2, <2>5, <3>1
    <3>2. CASE handled'[p][i] = k
      BY <2>2, <3>2
    <3> QED
      BY <2>6, <3>1, <3>2
  <2>8. ASSUME NEW i \in DOMAIN handled'[p], NEW j \in DOMAIN handled'[p], i # j
        PROVE  handled'[p][i] = 0 \/ handled'[p][i] # handled'[p][j]
    <3>1. CASE i \in DOMAIN handled[p] /\ j \in DOMAIN handled[p]
      BY <1>2, <2>3, <2>6, <2>8, <3>1 DEF OnceInv, FiresOnce
    <3>2. \A m \in DOMAIN handled[p] : k # 0 => handled[p][m] < k
      BY <2>0, <2>1, <2>5
    <3>3. CASE i \notin DOMAIN handled[p] \/ j \notin DOMAIN handled[p]
      <4>1. \/ handled'[p][i] = k /\ j \in DOMAIN handled[p]
                /\ handled'[p][j] = handled[p][j]
            \/ handled'[p][j] = k /\ i \in DOMAIN handled[p]
                /\ handled'[p][i] = handled[p][i]
        BY <2>6, <2>8, <3>3
      <4> QED
        BY <2>0, <3>2, <4>1
    <3> QED
      BY <3>1, <3>3
  <2> QED
    BY <1>3, <2>4, <2>7, <2>8 DEF OnceInv, FiresOnce
<1> QED
  BY <1>5, <1>6

LEMMA RestartOnce ==
    ASSUME TypeOK, OnceInv, NEW s \in Processes, Restart(s)
    PROVE  OnceInv'
<1>1. \A t \in Processes : hand'[t].stage \in {"ack", "handle"}
                               => hand'[t] = hand[t]
  BY DEF Restart, TypeOK, Idle
<1>2. \A p \in Reliable : \/ handled'[p] = <<>>
                          \/ handled'[p] = handled[p] /\ lastTs'[p] = lastTs[p]
  BY DEF Restart, Subscriptions
<1> QED
  BY <1>1, <1>2 DEF OnceInv, FiresOnce

LEMMA NextOnce == TypeOK /\ OnceInv /\ [Next]_vars => OnceInv'
<1> SUFFICES ASSUME TypeOK, OnceInv, [Next]_vars PROVE OnceInv'
  OBVIOUS
<1>1. CASE UNCHANGED <<hand, lastTs, handled>>
  BY <1>1 DEF OnceInv, FiresOnce
<1>2. ASSUME NEW s \in Processes, NEW t \in Processes,
             PublishAck(s) \/ PublishAckTogether(s, t)
      PROVE  OnceInv'
  <2>1. \A u \in Processes : /\ Acked(u).channel = hand[u].channel
                             /\ Acked(u).stage = "handle"
    BY DEF Acked
  <2>2. \A u \in Processes : \/ hand'[u] = hand[u]
                             \/ hand'[u] = Acked(u) /\ hand[u].stage = "ack"
    BY <1>2 DEF PublishAck, PublishAckTogether, TypeOK
  <2>3. UNCHANGED <<lastTs, handled>>
    BY <1>2 DEF PublishAck, PublishAckTogether
  <2> QED
    BY <2>1, <2>2, <2>3 DEF OnceInv, FiresOnce
<1>3. CASE UNCHANGED vars
  BY <1>1, <1>3 DEF vars, subscriberVars
<1>4. ASSUME NEW c \in Channels, Publish(c) PROVE OnceInv'
  BY <1>1, <1>4 DEF Publish
<1>5. ASSUME NEW due \in SUBSET pending, Tick(due) PROVE OnceInv'
  BY <1>1, <1>5 DEF Tick, subscriberVars
<1>6. CASE Next
  BY <1>2, <1>4, <1>5, <1>6, ReceiveOnce, HandleOnce, RestartOnce DEF Next, Spin
<1> QED
  BY <1>3, <1>6

\* However often a command is re-sent, and in whatever order the copies arrive, the
\* handler of a reliable subscription is called with it once (Transport.cpp:206-208,
\* 621-635), for any number of commands, channels, processes and retries.
THEOREM FiresOnceHolds == Spec => []FiresOnce
<1>1. OnceInv => FiresOnce
  BY DEF OnceInv
<1> QED
  BY <1>1, TypeCorrect, InitOnce, NextOnce, PTL DEF Spec

(***************************************************************************)
(* Acknowledgements.                                                       *)
(***************************************************************************)
\* A command leaves pendingReliable only by an acknowledgement or by giving up.
LEMMA ClearedByAck ==
    ASSUME TypeOK, [Next]_vars, NEW k \in Cleared'
    PROVE  k \in Cleared \/ \E i \in DOMAIN acks : k = acks[i]
<1>1. CASE UNCHANGED <<attempts, pending, gaveUp>>
  BY <1>1 DEF Cleared, Recorded
<1>2. ASSUME NEW c \in Channels, Publish(c) PROVE k \in Cleared
  <2> DEFINE n == Len(home) + 1
  <2>1. /\ UNCHANGED gaveUp
        /\ \/ UNCHANGED <<pending, attempts>>
           \/ /\ pending' = pending \cup {n}
              /\ attempts' = [attempts EXCEPT ![n] = 1]
    BY <1>2 DEF Publish
  <2> HIDE DEF n
  <2> QED
    BY <2>1 DEF Cleared, Recorded, TypeOK
<1>3. ASSUME NEW due \in SUBSET pending, Tick(due)
      PROVE  k \in Cleared \/ \E i \in DOMAIN acks : k = acks[i]
  <2>1. PICK from \in Readable(acks, ackCursor) :
            /\ TickResends(due \cap DrainAcks(from))
            /\ pending' = DrainAcks(from) \ gaveUp'
    BY <1>3 DEF Tick
  <2> DEFINE late   == due \cap DrainAcks(from)
             resent == late \ Exhausted(late)
  <2>2. /\ gaveUp \subseteq gaveUp'
        /\ attempts' = [j \in Keys |-> attempts[j] + IF j \in resent THEN 1 ELSE 0]
    BY <2>1 DEF TickResends
  <2>3. resent \subseteq Recorded
    BY <1>3 DEF TypeOK
  <2> HIDE DEF late, resent
  <2>4. k \in Recorded /\ k \notin gaveUp /\ k \notin DrainAcks(from)
    BY <2>1, <2>2, <2>3 DEF Cleared, Recorded, TypeOK
  <2>5. CASE k \in pending
    <3>1. PICK i \in from..Len(acks) : k = acks[i]
      BY <2>4, <2>5 DEF DrainAcks
    <3>2. ackCursor \in Nat \ {0} /\ acks \in Seq(Keys) /\ Len(acks) \in Nat
      BY DEF TypeOK
    <3>3. from \in Nat \ {0}
      BY <3>2, ReadableFrom
    <3>4. i \in DOMAIN acks
      BY <3>2, <3>3
    <3> QED
      BY <3>1, <3>4
  <2>6. CASE k \notin pending
    BY <2>4, <2>6 DEF Cleared
  <2> QED
    BY <2>5, <2>6
<1>4. ASSUME NEW s \in Processes, Spin(s) \/ Restart(s)
      PROVE  UNCHANGED <<attempts, pending, gaveUp>>
  BY <1>4 DEF Spin, Receive, PublishAck, PublishAckTogether, Handle, Restart,
              publisherVars
<1>5. CASE UNCHANGED vars
  BY <1>1, <1>5 DEF vars, publisherVars
<1>6. CASE Next
  BY <1>1, <1>2, <1>3, <1>4, <1>6 DEF Next
<1> QED
  BY <1>5, <1>6

\* A step adds no acknowledgement but that of a command in a hand.
LEMMA AddedAck ==
    ASSUME TypeOK, [Next]_vars, NEW i \in DOMAIN acks'
    PROVE  \/ \E j \in DOMAIN acks : acks'[i] = acks[j]
           \/ acks'[i] \in Keys /\ Held(acks'[i])
<1>1. acks \in Seq(Keys)
  BY DEF TypeOK
<1>2. CASE UNCHANGED acks
  BY <1>2
<1>3. ASSUME NEW s \in Processes, NEW t \in Processes,
             PublishAck(s) \/ PublishAckTogether(s, t)
      PROVE  \E k \in Keys : /\ acks' \in {Append(acks, k), <<k>>}
                             /\ Held(k)
  <2>1. \A u \in Processes : hand[u].stage = "ack" =>
            hand[u].key \in Keys /\ Held(hand[u].key)
    BY HandType DEF Held, Idle
  <2>2. CASE PublishAck(s)
    BY <2>2, <1>1, <2>1, AckAppended DEF PublishAck
  <2>3. CASE PublishAckTogether(s, t)
    BY <2>3, <2>1 DEF PublishAckTogether
  <2> QED
    BY <1>3, <2>2, <2>3
<1>4. ASSUME NEW k \in Keys, acks' \in {Append(acks, k), <<k>>}, Held(k)
      PROVE  \/ \E j \in DOMAIN acks : acks'[i] = acks[j]
             \/ acks'[i] \in Keys /\ Held(acks'[i])
  <2>1. acks'[i] = k \/ (i \in DOMAIN acks /\ acks'[i] = acks[i])
    BY <1>1, <1>4
  <2> QED
    BY <1>4, <2>1
<1>5. ASSUME NEW s \in Processes, NEW c \in Channels,
             Receive(s, c) \/ Handle(s) \/ Restart(s) \/ Publish(c)
      PROVE  UNCHANGED acks
  BY <1>5 DEF Receive, Handle, Restart, Publish, ackRing
<1>6. CASE UNCHANGED vars
  BY <1>2, <1>6 DEF vars, ackRing
<1>7. CASE Next
  <2>1. CASE \E c \in Channels : Publish(c)
    BY <1>2, <2>1 DEF Publish, ackRing
  <2>2. CASE \E due \in SUBSET pending : Tick(due)
    BY <1>2, <2>2 DEF Tick, ackRing
  <2>3. CASE \E s \in Processes : Spin(s) \/ Restart(s)
    BY <1>2, <1>3, <1>4, <2>3 DEF Spin, Receive, Handle, Restart, ackRing
  <2> QED
    BY <1>7, <2>1, <2>2, <2>3 DEF Next
<1> QED
  BY <1>6, <1>7

\* Whatever is in a hand or acknowledged in the ring was handed to a subscriber.
ReceivedInv ==
    /\ \A s \in Processes : hand[s] # Idle => hand[s].key \in received
    /\ \A i \in DOMAIN acks : acks[i] \in received
    /\ ClearedWasReceived

LEMMA InitReceived == Init => ReceivedInv
<1> SUFFICES ASSUME Init PROVE ReceivedInv
  OBVIOUS
<1>1. Cleared = {} /\ DOMAIN acks = {}
  BY DEF Init, Cleared, Recorded
<1> QED
  BY <1>1 DEF Init, ReceivedInv, ClearedWasReceived

LEMMA NextReceived == TypeOK /\ ReceivedInv /\ [Next]_vars => ReceivedInv'
<1> SUFFICES ASSUME TypeOK, ReceivedInv, [Next]_vars PROVE ReceivedInv'
  OBVIOUS
<1>1. ASSUME NEW s \in Processes, NEW c \in Channels, <<s, c>> \in Subscriptions,
             Receive(s, c), NEW t \in Processes, hand'[t] # Idle
      PROVE  received \subseteq received' /\ hand'[t].key \in received'
  <2>1. PICK at \in DOMAIN sent[c] :
            \/ UNCHANGED <<hand, received>>
            \/ /\ hand' = [hand EXCEPT ![s] =
                      [stage |-> FirstStage(sent[c][at]),
                       channel |-> c, key |-> sent[c][at]]]
               /\ received' = received \cup {sent[c][at]}
    BY <1>1, ReceivedFrame
  <2>2. CASE hand'[t] = hand[t]
    BY <1>1, <2>1, <2>2 DEF ReceivedInv
  <2>3. CASE hand'[t] # hand[t]
    <3>1. hand'[t].key = sent[c][at] /\ received' = received \cup {sent[c][at]}
      BY <2>1, <2>3 DEF TypeOK
    <3> QED
      BY <3>1
  <2> QED
    BY <2>2, <2>3
<1>2. ASSUME NEW s \in Processes, NEW t \in Processes,
             PublishAck(s) \/ PublishAckTogether(s, t)
      PROVE  \A u \in Processes :
                 hand'[u] = hand[u] \/ (hand[u] # Idle /\ hand'[u].key = hand[u].key)
  <2>1. \A u \in Processes : \/ hand'[u] = hand[u]
                             \/ hand'[u] = Acked(u) /\ hand[u].stage = "ack"
    BY <1>2 DEF PublishAck, PublishAckTogether, TypeOK
  <2>2. \A u \in Processes : Acked(u).key = hand[u].key
    BY DEF Acked
  <2> QED
    BY <2>1, <2>2 DEF Idle
<1>3. ASSUME NEW s \in Processes, Handle(s) \/ Restart(s)
      PROVE  \A u \in Processes : hand'[u] = hand[u] \/ hand'[u] = Idle
  BY <1>3 DEF Handle, Restart, TypeOK
<1>4. \A u \in Processes : hand'[u] # Idle => hand'[u].key \in received'
  <2>1. CASE UNCHANGED vars
    BY <2>1 DEF vars, subscriberVars, ReceivedInv
  <2>2. CASE \E c \in Channels : Publish(c)
    BY <2>2 DEF Publish, ReceivedInv
  <2>3. CASE \E due \in SUBSET pending : Tick(due)
    BY <2>3 DEF Tick, subscriberVars, ReceivedInv
  <2>4. ASSUME NEW s \in Processes, NEW c \in Channels, <<s, c>> \in Subscriptions,
               Receive(s, c)
        PROVE  \A u \in Processes : hand'[u] # Idle => hand'[u].key \in received'
    BY <1>1, <2>4
  <2>5. ASSUME NEW s \in Processes, NEW t \in Processes,
               PublishAck(s) \/ PublishAckTogether(s, t)
        PROVE  \A u \in Processes : hand'[u] # Idle => hand'[u].key \in received'
    <3>1. UNCHANGED received
      BY <2>5 DEF PublishAck, PublishAckTogether
    <3> QED
      BY <1>2, <2>5, <3>1 DEF ReceivedInv
  <2>6. ASSUME NEW s \in Processes, Handle(s) \/ Restart(s)
        PROVE  \A u \in Processes : hand'[u] # Idle => hand'[u].key \in received'
    <3>1. UNCHANGED received
      BY <2>6 DEF Handle, Restart
    <3> QED
      BY <1>3, <2>6, <3>1 DEF ReceivedInv
  <2>7. CASE Next
    BY <2>2, <2>3, <2>4, <2>5, <2>6, <2>7 DEF Next, Spin
  <2> QED
    BY <2>1, <2>7
<1>5. received \subseteq received'
  BY ZenonT(30) DEF Next, Spin, Publish, Tick, Receive, PublishAck, PublishAckTogether, Handle,
         Restart, vars, subscriberVars
<1>6. ASSUME NEW i \in (DOMAIN acks)' PROVE acks'[i] \in received'
  BY <1>5, AddedAck DEF ReceivedInv, Held
<1>7. ASSUME NEW k \in Cleared' PROVE k \in received'
  BY <1>5, ClearedByAck DEF ReceivedInv, ClearedWasReceived
<1> QED
  BY <1>4, <1>6, <1>7 DEF ReceivedInv, ClearedWasReceived

\* A reliable command leaves pendingReliable without a GaveUp event only when some
\* subscriber was handed it (Transport.cpp:300-323, 382-396, 619-626): whatever
\* acknowledgements are lost, overwritten by another process, wiped with their
\* ring, or sent again after a restart.
THEOREM ClearedWasReceivedHolds == Spec => []ClearedWasReceived
<1>1. ReceivedInv => ClearedWasReceived
  BY DEF ReceivedInv
<1> QED
  BY <1>1, TypeCorrect, InitReceived, NextReceived, PTL DEF Spec

(***************************************************************************)
(* An acknowledged command was handled, or overtaken by a newer one.       *)
(***************************************************************************)
\* Every frame of a ring, every hand and every record belongs to a message of its
\* channel.
Named(k, c) == k \in DOMAIN home /\ home[k] = c

OriginInv ==
    /\ Recorded \subseteq DOMAIN home
    /\ \A c \in Channels : \A i \in DOMAIN sent[c] :
           sent[c][i] = 0 \/ Named(sent[c][i], c)
    /\ \A s \in Processes :
           hand[s].stage \in {"ack", "handle"} =>
               hand[s].key = 0 \/ Named(hand[s].key, hand[s].channel)

Done(k) == Settled(k) \/ Held(k)

\* A killed subscriber is done with k only once it has read k again.
Kept(k) == Done(k) \/ (restarts > 0 /\ (Unread(k) \/ Overrun(k)))

\* What a subscriber was handed is still in its ring, for the next one to read.
RingInv ==
    \A k \in received :
        k = 0 \/ /\ k \in DOMAIN home
                 /\ \/ Overrun(k)
                    \/ \E i \in DOMAIN sent[home[k]] : sent[home[k]][i] = k

\* What is acknowledged in the ring is kept, and so is what was cleared by it.
SettledInv ==
    /\ \A i \in DOMAIN acks : Kept(acks[i])
    /\ \A k \in Cleared : Kept(k)

LEMMA InitOrigin == Init => OriginInv
<1> SUFFICES ASSUME Init PROVE OriginInv
  OBVIOUS
<1>1. Recorded = {}
  BY DEF Init, Recorded
<1>2. \A s \in Processes : hand[s].stage = "idle"
  BY DEF Init, Idle
<1>3. \A c \in Channels : DOMAIN sent[c] = {}
  BY DEF Init
<1> QED
  BY <1>1, <1>2, <1>3 DEF OriginInv

LEMMA PublishOrigin ==
    ASSUME TypeOK, OriginInv, NEW c \in Channels, Publish(c)
    PROVE  OriginInv'
<1> DEFINE n == Len(home) + 1
<1>1. PICK k \in {0, n} :
          /\ IF k = 0
             THEN UNCHANGED attempts
             ELSE attempts' = [attempts EXCEPT ![k] = 1]
          /\ \/ sent' = [sent EXCEPT ![c] = Append(@, k)]
             \/ sent' = [sent EXCEPT ![c] = <<k>>]
  BY DEF Publish, GrowWriter
<1>2. /\ home \in Seq(Channels) /\ home' = Append(home, c) /\ UNCHANGED hand
      /\ n \in Nat \ {0}
  BY DEF Publish, TypeOK
<1>3. /\ n \in DOMAIN home' /\ home'[n] = c
      /\ DOMAIN home \subseteq DOMAIN home'
      /\ \A m \in DOMAIN home : home'[m] = home[m]
  BY <1>2
<1> HIDE DEF n
<1>4. k = 0 \/ (k = n /\ Named(k, c)')
  BY <1>1, <1>3 DEF Named
<1>5. Recorded' \subseteq DOMAIN home'
  <2>1. attempts' = attempts \/ attempts' = [attempts EXCEPT ![n] = 1]
    BY <1>1, <1>4
  <2>2. Recorded' \subseteq Recorded \cup {n}
    BY <2>1 DEF Recorded, TypeOK
  <2> QED
    BY <1>3, <2>2 DEF OriginInv
<1>6. ASSUME NEW d \in Channels, NEW i \in DOMAIN sent'[d]
      PROVE  (sent[d][i] = 0 \/ Named(sent[d][i], d))'
  <2>1. sent[d] \in Seq(Keys \cup {0}) /\ sent \in [Channels -> Seq(Keys \cup {0})]
    BY DEF TypeOK
  <2>2. \/ i \in DOMAIN sent[d] /\ sent'[d][i] = sent[d][i]
        \/ d = c /\ sent'[d][i] = k
    <3>1. CASE d # c
      BY <1>1, <1>6, <2>1, <3>1
    <3>2. CASE d = c /\ sent'[d] = Append(sent[d], k)
      BY <1>6, <2>1, <3>2
    <3>3. CASE d = c /\ sent'[d] = <<k>>
      BY <1>6, <3>3
    <3> QED
      BY <1>1, <2>1, <3>1, <3>2, <3>3
  <2>3. \A j \in DOMAIN sent[d] : sent[d][j] = 0 \/ Named(sent[d][j], d)
    BY DEF OriginInv
  <2>4. CASE i \in DOMAIN sent[d] /\ sent'[d][i] = sent[d][i]
    BY <1>3, <2>3, <2>4 DEF Named
  <2>5. CASE d = c /\ sent'[d][i] = k
    BY <1>4, <2>5 DEF Named
  <2> QED
    BY <2>2, <2>4, <2>5
<1>7. \A s \in Processes :
          (hand[s].stage \in {"ack", "handle"} =>
              hand[s].key = 0 \/ Named(hand[s].key, hand[s].channel))'
  BY <1>2, <1>3 DEF OriginInv, Named
<1> QED
  BY <1>5, <1>6, <1>7 DEF OriginInv

LEMMA TickOrigin ==
    ASSUME TypeOK, OriginInv, NEW due \in SUBSET pending, Tick(due)
    PROVE  OriginInv'
<1>1. PICK from \in Readable(acks, ackCursor) :
          TickResends(due \cap DrainAcks(from))
  BY DEF Tick
<1> DEFINE late   == due \cap DrainAcks(from)
           resent == late \ Exhausted(late)
<1>2. UNCHANGED <<home, hand>>
  BY DEF Tick, subscriberVars
<1>3. /\ attempts' = [k \in Keys |-> attempts[k] + IF k \in resent THEN 1 ELSE 0]
      /\ sent' = [c \in Channels |->
                     sent[c] \o InOrder({k \in resent : home[k] = c})]
  BY <1>1 DEF TickResends
<1>4. resent \subseteq Recorded
  BY DEF TypeOK
<1> HIDE DEF late, resent
<1>5. (Recorded \subseteq DOMAIN home)'
  BY <1>2, <1>3, <1>4 DEF OriginInv, Recorded, TypeOK
<1>6. (\A c \in Channels : \A i \in DOMAIN sent[c] :
           sent[c][i] = 0 \/ Named(sent[c][i], c))'
  <2> SUFFICES ASSUME NEW c \in Channels, NEW i \in (DOMAIN sent[c])'
               PROVE  (sent[c][i] = 0 \/ Named(sent[c][i], c))'
    OBVIOUS
  <2> DEFINE S == {k \in resent : home[k] = c}
             q == InOrder(S)
  <2>1. q \in Seq(S)
    BY <1>4, InOrderType DEF Recorded
  <2>2. sent[c] \in Seq(Keys \cup {0}) /\ sent'[c] = sent[c] \o q
    BY <1>3 DEF TypeOK
  <2>3. \A k \in S : Named(k, c)
    BY <1>4 DEF OriginInv, Named
  <2> HIDE DEF S, q
  <2>4. \/ i \in DOMAIN sent[c] /\ sent'[c][i] = sent[c][i]
        \/ sent'[c][i] \in S
    BY <2>1, <2>2
  <2> QED
    BY <1>2, <2>3, <2>4 DEF OriginInv, Named
<1>7. (\A s \in Processes :
           hand[s].stage \in {"ack", "handle"} =>
               hand[s].key = 0 \/ Named(hand[s].key, hand[s].channel))'
  BY <1>2 DEF OriginInv, Named
<1> QED
  BY <1>5, <1>6, <1>7 DEF OriginInv

LEMMA ReceiveOrigin ==
    ASSUME TypeOK, OriginInv, NEW s \in Processes, NEW c \in Channels,
           <<s, c>> \in Subscriptions, Receive(s, c)
    PROVE  OriginInv'
<1>1. UNCHANGED <<home, attempts, sent>>
  BY DEF Receive, publisherVars
<1>2. PICK at \in DOMAIN sent[c] :
          \/ UNCHANGED hand
          \/ hand' = [hand EXCEPT ![s] =
                 [stage |-> FirstStage(sent[c][at]),
                  channel |-> c, key |-> sent[c][at]]]
  BY ReceivedFrame
<1>3. \A t \in Processes : \/ hand'[t] = hand[t]
                           \/ hand'[t].key = sent[c][at] /\ hand'[t].channel = c
  BY <1>2 DEF TypeOK
<1> QED
  BY <1>1, <1>3 DEF OriginInv, Named, Recorded

LEMMA NextOrigin == TypeOK /\ OriginInv /\ [Next]_vars => OriginInv'
<1> SUFFICES ASSUME TypeOK, OriginInv, [Next]_vars PROVE OriginInv'
  OBVIOUS
<1>1. ASSUME UNCHANGED <<home, attempts, sent>>,
             \A t \in Processes :
                 \/ hand'[t].stage \notin {"ack", "handle"}
                 \/ hand'[t].key = hand[t].key /\ hand'[t].channel = hand[t].channel
                    /\ hand[t].stage \in {"ack", "handle"}
      PROVE  OriginInv'
  BY <1>1 DEF OriginInv, Named, Recorded
<1>2. CASE UNCHANGED vars
  BY <1>1, <1>2 DEF vars, publisherVars, subscriberVars
<1>3. ASSUME NEW s \in Processes, NEW t \in Processes,
             PublishAck(s) \/ PublishAckTogether(s, t)
      PROVE  OriginInv'
  <2>1. UNCHANGED <<home, attempts, sent>>
    BY <1>3 DEF PublishAck, PublishAckTogether, publisherVars
  <2>2. \A u \in Processes : \/ hand'[u] = hand[u]
                             \/ hand'[u] = Acked(u) /\ hand[u].stage = "ack"
    BY <1>3 DEF PublishAck, PublishAckTogether, TypeOK
  <2>3. \A u \in Processes : /\ Acked(u).channel = hand[u].channel
                             /\ Acked(u).key = hand[u].key
    BY DEF Acked
  <2>4. \A u \in Processes :
            \/ hand'[u].stage \notin {"ack", "handle"}
            \/ /\ hand'[u].key = hand[u].key /\ hand'[u].channel = hand[u].channel
               /\ hand[u].stage \in {"ack", "handle"}
    <3> SUFFICES ASSUME NEW u \in Processes, hand'[u].stage \in {"ack", "handle"}
                 PROVE  /\ hand'[u].key = hand[u].key
                        /\ hand'[u].channel = hand[u].channel
                        /\ hand[u].stage \in {"ack", "handle"}
      OBVIOUS
    <3>1. CASE hand'[u] = hand[u]
      BY <3>1
    <3>2. CASE hand'[u] = Acked(u) /\ hand[u].stage = "ack"
      BY <2>3, <3>2
    <3> QED
      BY <2>2, <3>1, <3>2
  <2> QED
    BY <1>1, <2>1, <2>4
<1>4. ASSUME NEW s \in Processes, Handle(s) \/ Restart(s) PROVE OriginInv'
  <2>1. UNCHANGED <<home, attempts, sent>> /\ hand' = [hand EXCEPT ![s] = Idle]
    BY <1>4 DEF Handle, Restart, publisherVars
  <2>2. \A t \in Processes : hand'[t] = hand[t] \/ hand'[t].stage = "idle"
    BY <2>1 DEF TypeOK, Idle
  <2> QED
    BY <1>1, <2>1, <2>2
<1>5. CASE Next
  BY <1>3, <1>4, <1>5, PublishOrigin, TickOrigin, ReceiveOrigin DEF Next, Spin
<1> QED
  BY <1>2, <1>5

LEMMA DoneStays ==
    ASSUME TypeOK, OnceInv, OriginInv, [Next]_vars, UNCHANGED restarts,
           NEW k \in Keys, Done(k)
    PROVE  Done(k)'
<1>1. k # 0 /\ Keys \subseteq Nat
  BY ReliableAssumption DEF Keys
<1>2. ASSUME UNCHANGED lastTs, DOMAIN home \subseteq DOMAIN home',
             \A m \in DOMAIN home : home'[m] = home[m],
             \A s \in Processes : hand[s] # Idle =>
                 hand'[s] # Idle /\ hand'[s].key = hand[s].key
      PROVE  Done(k)'
  BY <1>2 DEF Done, Settled, Held
<1>3. CASE UNCHANGED <<home, lastTs, hand>>
  BY <1>2, <1>3
<1>4. ASSUME NEW c \in Channels, Publish(c) PROVE Done(k)'
  <2>1. home \in Seq(Channels) /\ home' = Append(home, c) /\ UNCHANGED <<lastTs, hand>>
    BY <1>4 DEF Publish, TypeOK
  <2>2. /\ DOMAIN home \subseteq DOMAIN home'
        /\ \A m \in DOMAIN home : home'[m] = home[m]
    BY <2>1
  <2> QED
    BY <1>2, <2>1, <2>2
<1>5. ASSUME NEW due \in SUBSET pending, Tick(due) PROVE Done(k)'
  BY <1>3, <1>5 DEF Tick, subscriberVars
<1>6. ASSUME NEW s \in Processes, NEW c \in Channels, Receive(s, c) PROVE Done(k)'
  <2>1. UNCHANGED <<home, lastTs>> /\ hand[s] = Idle
    BY <1>6 DEF Receive, publisherVars
  <2>2. \A t \in Processes \ {s} : hand'[t] = hand[t]
    BY <1>6 DEF Receive, TypeOK
  <2> QED
    BY <1>2, <2>1, <2>2
<1>7. ASSUME NEW s \in Processes, NEW t \in Processes,
             PublishAck(s) \/ PublishAckTogether(s, t)
      PROVE  Done(k)'
  <2>1. UNCHANGED <<home, lastTs>>
    BY <1>7 DEF PublishAck, PublishAckTogether, publisherVars
  <2>2. \A u \in Processes : hand'[u] = hand[u] \/ hand'[u] = Acked(u)
    BY <1>7 DEF PublishAck, PublishAckTogether, TypeOK
  <2>3. \A u \in Processes : Acked(u) # Idle /\ Acked(u).key = hand[u].key
    BY DEF Acked, Idle
  <2> QED
    BY <1>2, <2>1, <2>2, <2>3
<1>8. ASSUME NEW s \in Processes, Handle(s) PROVE Done(k)'
  <2> DEFINE p == <<s, hand[s].channel>>
             h == hand[s].key
  <2>1. /\ UNCHANGED home
        /\ hand' = [hand EXCEPT ![s] = Idle]
        /\ IF Duplicate(p, h)
           THEN UNCHANGED lastTs
           ELSE lastTs' = IF h = 0 THEN lastTs ELSE [lastTs EXCEPT ![p] = h]
    BY <1>8 DEF Handle, publisherVars
  <2>2. /\ p \in Reliable /\ h \in Keys \cup {0} /\ p[2] = hand[s].channel
        /\ h = 0 \/ Named(h, p[2])
    BY <1>8, HandType DEF Handle, OnceInv, OriginInv
  <2> HIDE DEF p, h
  <2>3. \A q \in Reliable : /\ lastTs[q] \in Nat /\ lastTs'[q] \in Nat
                            /\ lastTs'[q] >= lastTs[q]
    <3>1. lastTs \in [Reliable -> Keys \cup {0}] /\ Keys \cup {0} \subseteq Nat
      BY <1>1 DEF TypeOK
    <3>2. h \in Nat /\ \A q \in Reliable : lastTs[q] \in Nat
      BY <2>2, <3>1
    <3>3. CASE UNCHANGED lastTs
      BY <3>2, <3>3
    <3>4. CASE lastTs' = [lastTs EXCEPT ![p] = h] /\ ~Duplicate(p, h) /\ h # 0
      <4>1. h > lastTs[p]
        BY <2>2, <3>2, <3>4 DEF Duplicate
      <4>2. \A q \in Reliable : lastTs'[q] = IF q = p THEN h ELSE lastTs[q]
        BY <3>1, <3>4
      <4> QED
        BY <3>2, <4>1, <4>2
    <3> QED
      BY <2>1, <3>3, <3>4
  <2>4. CASE Settled(k)
    <3>1. PICK q \in Reliable : q[2] = home[k] /\ lastTs[q] >= k
      BY <2>4 DEF Settled
    <3>2. lastTs'[q] >= k
      BY <1>1, <2>3, <3>1
    <3> QED
      BY <2>1, <2>4, <3>1, <3>2 DEF Done, Settled
  <2>5. CASE Held(k)
    <3>1. PICK t \in Processes : hand[t] # Idle /\ hand[t].key = k
      BY <2>5 DEF Held
    <3>2. CASE t # s
      BY <2>1, <3>1, <3>2 DEF Done, Held, TypeOK
    <3>3. CASE t = s
      <4>1. h = k
        BY <3>1, <3>3 DEF h
      <4>2. Named(k, p[2])
        BY <1>1, <2>2, <4>1
      <4>3. lastTs'[p] >= k
        <5>1. CASE Duplicate(p, h)
          BY <1>1, <2>1, <2>2, <2>3, <4>1, <5>1 DEF Duplicate
        <5>2. CASE ~Duplicate(p, h)
          <6>1. lastTs' = [lastTs EXCEPT ![p] = k]
            BY <1>1, <2>1, <4>1, <5>2
          <6> QED
            BY <1>1, <2>2, <6>1 DEF TypeOK
        <5> QED
          BY <5>1, <5>2
      <4> QED
        BY <2>1, <2>2, <4>2, <4>3 DEF Done, Settled, Named
    <3> QED
      BY <3>2, <3>3
  <2> QED
    BY <2>4, <2>5 DEF Done
<1>9. ASSUME NEW s \in Processes, Restart(s) PROVE FALSE
  BY <1>9 DEF Restart, TypeOK
<1>10. CASE UNCHANGED vars
  BY <1>3, <1>10 DEF vars, publisherVars, subscriberVars
<1>11. CASE Next
  BY <1>4, <1>5, <1>6, <1>7, <1>8, <1>9, <1>11 DEF Next, Spin
<1> QED
  BY <1>10, <1>11

\* A ring that is not re-created only gets longer, and a message keeps its channel.
LEMMA RingGrows ==
    ASSUME TypeOK, [Next]_vars
    PROVE  /\ grown' >= grown
           /\ \A m \in DOMAIN home : m \in DOMAIN home' /\ home'[m] = home[m]
           /\ grown' = 0 => \A c \in Channels : \A i \in DOMAIN sent[c] :
                                i \in DOMAIN sent'[c] /\ sent'[c][i] = sent[c][i]
<1>1. /\ grown \in Nat /\ home \in Seq(Channels)
      /\ sent \in [Channels -> Seq(Keys \cup {0})]
  BY DEF TypeOK
<1>2. CASE UNCHANGED <<home, grown, sent>>
  BY <1>1, <1>2
<1>3. ASSUME NEW d \in Channels, Publish(d)
      PROVE  /\ grown' >= grown
             /\ \A m \in DOMAIN home : m \in DOMAIN home' /\ home'[m] = home[m]
             /\ grown' = 0 => \A c \in Channels : \A i \in DOMAIN sent[c] :
                                i \in DOMAIN sent'[c] /\ sent'[c][i] = sent[c][i]
  <2>1. PICK k \in {0, Len(home) + 1} :
            \/ sent' = [sent EXCEPT ![d] = Append(@, k)] /\ UNCHANGED grown
            \/ grown' = grown + 1
    BY <1>3 DEF Publish, GrowWriter
  <2>2. home' = Append(home, d)
    BY <1>3 DEF Publish
  <2>3. \A m \in DOMAIN home : m \in DOMAIN home' /\ home'[m] = home[m]
    BY <1>1, <2>2
  <2>4. grown' >= grown /\ (grown' = 0 => UNCHANGED grown)
    BY <1>1, <2>1
  <2>5. ASSUME grown' = 0, NEW c \in Channels, NEW i \in DOMAIN sent[c]
        PROVE  i \in DOMAIN sent'[c] /\ sent'[c][i] = sent[c][i]
    <3>1. sent'[c] = sent[c] \/ sent'[c] = Append(sent[c], k)
      BY <1>1, <2>1, <2>4, <2>5
    <3>2. PICK q : q = sent[c] /\ q \in Seq(Keys \cup {0})
      BY <1>1
    <3>3. i \in DOMAIN q /\ (sent'[c] = q \/ sent'[c] = Append(q, k))
      BY <2>5, <3>1, <3>2
    <3>4. i \in DOMAIN Append(q, k) /\ Append(q, k)[i] = q[i]
      BY <3>2, <3>3, SMTT(30)
    <3> QED
      BY <3>2, <3>3, <3>4
  <2> QED
    BY <2>3, <2>4, <2>5
<1>4. ASSUME NEW due \in SUBSET pending, Tick(due)
      PROVE  /\ UNCHANGED <<home, grown>>
             /\ \A c \in Channels : \A i \in DOMAIN sent[c] :
                    i \in DOMAIN sent'[c] /\ sent'[c][i] = sent[c][i]
  <2>1. PICK from \in Readable(acks, ackCursor) :
            TickResends(due \cap DrainAcks(from))
    BY <1>4 DEF Tick
  <2> DEFINE late   == due \cap DrainAcks(from)
             resent == late \ Exhausted(late)
  <2>2. sent' = [c \in Channels |->
                    sent[c] \o InOrder({k \in resent : home[k] = c})]
    BY <2>1 DEF TickResends
  <2>3. resent \subseteq Keys
    BY <1>4 DEF TypeOK, Recorded
  <2> HIDE DEF late, resent
  <2>4. ASSUME NEW c \in Channels, NEW i \in DOMAIN sent[c]
        PROVE  i \in DOMAIN sent'[c] /\ sent'[c][i] = sent[c][i]
    <3> DEFINE S == {k \in resent : home[k] = c}
               q == InOrder(S)
    <3>1. q \in Seq(S)
      BY <2>3, InOrderType
    <3>2. sent'[c] = sent[c] \o q /\ sent[c] \in Seq(Keys \cup {0})
      BY <1>1, <2>2
    <3> HIDE DEF S, q
    <3> QED
      BY <2>4, <3>1, <3>2
  <2> QED
    BY <1>4, <2>4 DEF Tick
<1>5. ASSUME NEW s \in Processes, Spin(s) \/ Restart(s)
      PROVE  UNCHANGED <<home, grown, sent>>
  BY <1>5 DEF Spin, Receive, PublishAck, PublishAckTogether, Handle, Restart,
              publisherVars
<1>6. CASE UNCHANGED vars
  BY <1>2, <1>6 DEF vars, publisherVars
<1>7. CASE Next
  <2>1. CASE \E d \in Channels : Publish(d)
    BY <1>3, <2>1
  <2>2. CASE \E due \in SUBSET pending : Tick(due)
    BY <1>1, <1>4, <2>2
  <2>3. CASE \E s \in Processes : Spin(s) \/ Restart(s)
    BY <1>2, <1>5, <2>3
  <2> QED
    BY <1>7, <2>1, <2>2, <2>3 DEF Next
<1> QED
  BY <1>6, <1>7

LEMMA OverrunStays ==
    ASSUME TypeOK, [Next]_vars, NEW k \in DOMAIN home, Overrun(k)
    PROVE  Overrun(k)'
<1>1. /\ grown \in Nat /\ home \in Seq(Channels) /\ SlotCount \in Nat \ {0, 1}
      /\ sent \in [Channels -> Seq(Keys \cup {0})]
      /\ grown' \in Nat /\ sent' \in [Channels -> Seq(Keys \cup {0})]
  <2>1. TypeOK' /\ SlotCount \in Nat \ {0, 1} /\ MaxGrow \in Nat
    BY NextType, ReliableAssumption
  <2>2. grown' \in Nat /\ sent' \in [Channels -> Seq(Keys \cup {0})]
    BY <2>1 DEF TypeOK
  <2>3. /\ grown \in Nat /\ home \in Seq(Channels)
        /\ sent \in [Channels -> Seq(Keys \cup {0})]
    BY DEF TypeOK
  <2> QED
    BY <2>1, <2>2, <2>3
<1>2. grown' >= grown /\ home'[k] = home[k] /\ home[k] \in Channels
  BY <1>1, RingGrows
<1>3. CASE grown' > 0
  BY <1>3 DEF Overrun
<1>4. CASE grown' = 0
  <2> DEFINE n == Len(sent[home[k]])
  <2>1. n \in Nat /\ n >= SlotCount
    BY <1>1, <1>2, <1>4 DEF Overrun
  <2>2. n \in DOMAIN sent[home[k]]
    BY <1>1, <1>2, <2>1
  <2>3. n \in DOMAIN sent'[home[k]]
    BY <1>2, <1>4, <2>2, RingGrows
  <2>4. Len(sent'[home[k]]) >= n
    BY <1>1, <1>2, <2>1, <2>3
  <2>5. Len(sent'[home[k]]) >= SlotCount
    BY <1>1, <1>2, <2>1, <2>4
  <2> QED
    BY <1>2, <2>5 DEF Overrun
<1> QED
  BY <1>1, <1>3, <1>4

LEMMA InitRing == Init => RingInv
  BY DEF Init, RingInv

LEMMA NextRing == TypeOK /\ OriginInv /\ RingInv /\ [Next]_vars => RingInv'
<1> SUFFICES ASSUME TypeOK, OriginInv, RingInv, [Next]_vars,
                    NEW k \in received', k # 0
             PROVE  /\ k \in DOMAIN home'
                    /\ \/ Overrun(k)'
                       \/ \E i \in DOMAIN sent'[home'[k]] : sent'[home'[k]][i] = k
  BY DEF RingInv
<1>1. k \in DOMAIN home /\ (\/ Overrun(k)
                            \/ \E i \in DOMAIN sent[home[k]] : sent[home[k]][i] = k)
  <2>1. CASE k \in received
    BY <2>1 DEF RingInv
  <2>2. CASE k \notin received
    <3>1. PICK s \in Processes, c \in Channels :
              <<s, c>> \in Subscriptions /\ Receive(s, c)
      BY <2>2 DEF Next, Spin, Publish, Tick, PublishAck, PublishAckTogether, Handle,
                  Restart, vars, subscriberVars
    <3>2. PICK at \in DOMAIN sent[c] : k = sent[c][at]
      BY <2>2, <3>1, ReceivedFrame
    <3> QED
      BY <3>2 DEF OriginInv, Named
  <2> QED
    BY <2>1, <2>2
<1>2. k \in DOMAIN home' /\ home'[k] = home[k]
  BY <1>1, RingGrows
<1>3. CASE Overrun(k)
  BY <1>1, <1>2, <1>3, OverrunStays
<1>4. ASSUME NEW i \in DOMAIN sent[home[k]], sent[home[k]][i] = k, grown' = 0
      PROVE  i \in DOMAIN sent'[home[k]] /\ sent'[home[k]][i] = k
  <2>1. home[k] \in Channels
    BY <1>1 DEF TypeOK
  <2> QED
    BY <1>4, <2>1, RingGrows
<1>5. CASE grown' # 0
  <2>1. grown' \in Nat
    BY NextType DEF TypeOK
  <2> QED
    BY <1>2, <1>5, <2>1 DEF Overrun
<1> QED
  BY <1>1, <1>2, <1>3, <1>4, <1>5

\* The restarted process reads a ring that has kept everything from the start.
LEMMA RestartKeeps ==
    ASSUME TypeOK, OnceInv, OriginInv, RingInv, NEW k \in received, k \in Keys,
           Kept(k), NEW s \in Processes, Restart(s)
    PROVE  Kept(k)'
<1>1. /\ UNCHANGED <<home, grown, sent>> /\ restarts' = restarts + 1
      /\ \A p \in Subscriptions : cursor'[p] = IF p[1] = s THEN 1 ELSE cursor[p]
      /\ \A p \in Reliable : p[1] # s => lastTs'[p] = lastTs[p]
      /\ \A t \in Processes : t # s => hand'[t] = hand[t]
  BY DEF Restart, TypeOK, publisherVars
<1>2. /\ restarts' > 0 /\ Reliable \subseteq Subscriptions
      /\ \A p \in Subscriptions : cursor[p] \in Nat \ {0}
  BY <1>1 DEF TypeOK, Subscriptions
<1>3. k # 0 /\ k \in DOMAIN home /\ home[k] \in Channels
  BY ReliableAssumption DEF RingInv, TypeOK, Keys
<1>4. sent[home[k]] \in Seq(Keys \cup {0})
  BY <1>3 DEF TypeOK
<1>5. CASE Overrun(k)
  BY <1>1, <1>2, <1>5 DEF Kept, Overrun
<1>6. ASSUME ~Overrun(k), NEW p \in Reliable, p[1] = s, p[2] = home[k]
      PROVE  Unread(k)'
  <2>1. PICK i \in DOMAIN sent[home[k]] : sent[home[k]][i] = k
    BY <1>3, <1>6 DEF RingInv
  <2>2. cursor'[p] = 1
    BY <1>1, <1>2, <1>6
  <2>3. i \in cursor'[p]..Len(sent[home[k]])
    BY <1>4, <2>1, <2>2
  <2> QED
    BY <1>1, <1>6, <2>1, <2>3 DEF Unread
<1>7. CASE ~Overrun(k) /\ Settled(k)
  <2>1. PICK p \in Reliable : p[2] = home[k] /\ lastTs[p] >= k
    BY <1>7 DEF Settled
  <2>2. CASE p[1] = s
    BY <1>2, <1>6, <1>7, <2>1, <2>2 DEF Kept
  <2>3. CASE p[1] # s
    BY <1>1, <1>3, <2>1, <2>3 DEF Kept, Done, Settled
  <2> QED
    BY <2>2, <2>3
<1>8. CASE ~Overrun(k) /\ Held(k)
  <2>1. PICK t \in Processes : hand[t] # Idle /\ hand[t].key = k
    BY <1>8 DEF Held
  <2>2. CASE t = s
    <3>1. hand[s].stage \in {"ack", "handle"}
      BY <2>1, <2>2 DEF TypeOK, Hands
    <3>2. <<s, hand[s].channel>> \in Reliable
      BY <3>1 DEF OnceInv
    <3>3. home[k] = hand[s].channel
      BY <1>3, <2>1, <2>2, <3>1 DEF OriginInv, Named
    <3> QED
      BY <1>2, <1>6, <1>8, <3>2, <3>3 DEF Kept
  <2>3. CASE t # s
    BY <1>1, <2>1, <2>3 DEF Kept, Done, Held
  <2> QED
    BY <2>2, <2>3
<1>9. CASE ~Overrun(k) /\ Unread(k)
  <2>1. PICK p \in Reliable : p[2] = home[k] /\ \E i \in cursor[p]..Len(sent[home[k]]) :
                                                    sent[home[k]][i] = k
    BY <1>9 DEF Unread
  <2>2. CASE p[1] = s
    BY <1>2, <1>6, <1>9, <2>1, <2>2 DEF Kept
  <2>3. CASE p[1] # s
    BY <1>1, <1>2, <2>1, <2>3 DEF Kept, Unread
  <2> QED
    BY <2>2, <2>3
<1> QED
  BY <1>5, <1>7, <1>8, <1>9 DEF Kept, Done

\* A reader that is not lapped reads the next frame, and keeps those behind it.
LEMMA ReceiveKeeps ==
    ASSUME TypeOK, NEW k \in Keys, k \in DOMAIN home, Unread(k), ~Overrun(k),
           NEW s \in Processes, NEW c \in Channels, Receive(s, c)
    PROVE  Held(k)' \/ Unread(k)'
<1>1. PICK p \in Reliable : /\ p[2] = home[k]
                            /\ \E i \in cursor[p]..Len(sent[home[k]]) :
                                   sent[home[k]][i] = k
  BY DEF Unread
<1>2. PICK i \in cursor[p]..Len(sent[home[k]]) : sent[home[k]][i] = k
  BY <1>1
<1>3. UNCHANGED <<home, sent>>
  BY DEF Receive, publisherVars
<1>4. /\ p \in Subscriptions /\ cursor[p] \in Nat \ {0} /\ p = <<p[1], p[2]>>
      /\ home[k] \in Channels
      /\ Len(sent[home[k]]) \in Nat /\ SlotCount \in Nat
  <2>1. p \in Subscriptions
    BY DEF Subscriptions
  <2>2. cursor[p] \in Nat \ {0} /\ home[k] \in Channels
    BY <2>1 DEF TypeOK
  <2>3. Len(sent[home[k]]) \in Nat
    BY <2>2 DEF TypeOK
  <2> QED
    BY <2>1, <2>2, <2>3, ReliableAssumption
<1>5. CASE p # <<s, c>>
  <2>1. cursor'[p] = cursor[p]
    BY <1>4, <1>5 DEF Receive, TypeOK
  <2> QED
    BY <1>1, <1>2, <1>3, <2>1 DEF Unread
<1>6. CASE p = <<s, c>>
  <2>1. c = home[k] /\ cursor[p] <= Len(sent[c])
    BY <1>1, <1>2, <1>4, <1>6
  <2>2. Len(sent[c]) < SlotCount
    BY <1>4, <2>1 DEF Overrun
  <2>3. Readable(sent[c], cursor[p]) = {cursor[p]}
    BY <1>4, <2>1, <2>2 DEF Readable
  <2>4. p \notin BestEffort
    BY ReliableAssumption
  <2>5. /\ cursor' = [cursor EXCEPT ![p] = cursor[p] + 1]
        /\ hand' = [hand EXCEPT ![s] =
               [stage |-> FirstStage(sent[c][cursor[p]]),
                channel |-> c, key |-> sent[c][cursor[p]]]]
    BY <1>6, <2>3, <2>4 DEF Receive
  <2>6. CASE i = cursor[p]
    <3>1. hand'[s].key = k /\ hand'[s].stage \in {"ack", "handle"}
      BY <1>2, <2>1, <2>5, <2>6 DEF TypeOK, FirstStage
    <3> QED
      BY <3>1 DEF Held, Idle
  <2>7. CASE i # cursor[p]
    <3>1. cursor'[p] = cursor[p] + 1
      BY <1>4, <2>5 DEF TypeOK
    <3>2. i \in cursor'[p]..Len(sent[home[k]])
      BY <1>2, <1>4, <2>7, <3>1
    <3> QED
      BY <1>1, <1>2, <1>3, <3>2 DEF Unread
  <2> QED
    BY <2>6, <2>7
<1> QED
  BY <1>5, <1>6

LEMMA KeptStays ==
    ASSUME TypeOK, OnceInv, OriginInv, RingInv, [Next]_vars, NEW k \in received,
           k \in Keys, Kept(k)
    PROVE  Kept(k)'
<1>1. CASE \E s \in Processes : Restart(s)
  BY <1>1, RestartKeeps
<1>2. ASSUME ~\E s \in Processes : Restart(s)
      PROVE  Kept(k)'
  <2>1. UNCHANGED restarts
    BY <1>2 DEF Next, Spin, Publish, Tick, Receive, PublishAck, PublishAckTogether,
                Handle, vars, subscriberVars
  <2>2. k # 0 /\ k \in DOMAIN home /\ home[k] \in Channels
    BY ReliableAssumption DEF RingInv, TypeOK, Keys
  <2>3. CASE Done(k)
    BY <2>1, <2>3, DoneStays DEF Kept
  <2>4. CASE restarts > 0 /\ Overrun(k)
    BY <2>1, <2>2, <2>4, OverrunStays DEF Kept
  <2>5. CASE restarts > 0 /\ Unread(k) /\ ~Overrun(k)
    <3>1. ASSUME NEW s \in Processes, NEW c \in Channels, Receive(s, c)
          PROVE  Kept(k)'
      BY <2>1, <2>2, <2>5, <3>1, ReceiveKeeps DEF Kept, Done
    <3>2. CASE grown' # 0
      <4>1. grown' \in Nat
        BY NextType DEF TypeOK
      <4> QED
        BY <2>1, <2>5, <3>2, <4>1 DEF Kept, Overrun
    <3>3. CASE grown' = 0 /\ UNCHANGED cursor
      <4>1. PICK p \in Reliable : /\ p[2] = home[k]
                                  /\ \E i \in cursor[p]..Len(sent[home[k]]) :
                                         sent[home[k]][i] = k
        BY <2>5 DEF Unread
      <4>2. PICK i \in cursor[p]..Len(sent[home[k]]) : sent[home[k]][i] = k
        BY <4>1
      <4>3. /\ cursor[p] \in Nat \ {0} /\ sent[home[k]] \in Seq(Keys \cup {0})
            /\ sent'[home[k]] \in Seq(Keys \cup {0})
        BY <2>2, NextType DEF TypeOK, Subscriptions
      <4>4. i \in DOMAIN sent[home[k]]
        BY <4>2, <4>3
      <4>5. i \in DOMAIN sent'[home[k]] /\ sent'[home[k]][i] = k
        BY <2>2, <3>3, <4>2, <4>4, RingGrows
      <4>6. i \in cursor[p]..Len(sent'[home[k]])
        BY <4>2, <4>3, <4>5
      <4>7. home'[k] = home[k]
        BY <2>2, RingGrows
      <4> QED
        BY <2>1, <2>5, <3>3, <4>1, <4>5, <4>6, <4>7 DEF Kept, Unread
    <3>4. \/ UNCHANGED cursor
          \/ grown' # 0
          \/ \E s \in Processes, c \in Channels : Receive(s, c)
      <4>1. CASE \E c \in Channels : Publish(c)
        <5>1. UNCHANGED cursor \/ grown' = grown + 1
          BY <4>1 DEF Publish, GrowWriter
        <5> QED
          BY <5>1 DEF TypeOK
      <4> QED
        BY <1>2, <4>1 DEF Next, Spin, Tick, PublishAck, PublishAckTogether, Handle,
                    vars, subscriberVars
    <3> QED
      BY <3>1, <3>2, <3>3, <3>4
  <2> QED
    BY <2>3, <2>4, <2>5 DEF Kept
<1> QED
  BY <1>1, <1>2

LEMMA NextSettled ==
    TypeOK /\ OnceInv /\ OriginInv /\ RingInv /\ ReceivedInv /\ SettledInv
        /\ [Next]_vars => SettledInv'
<1> SUFFICES ASSUME TypeOK, OnceInv, OriginInv, RingInv, ReceivedInv, SettledInv,
                    [Next]_vars
             PROVE  /\ (\A i \in DOMAIN acks : Kept(acks[i]))'
                    /\ (\A k \in Cleared : Kept(k))'
  BY DEF SettledInv
<1>1. /\ \A i \in DOMAIN acks : /\ acks[i] \in Keys /\ acks[i] \in received
                                /\ Kept(acks[i])
      /\ \A k \in Cleared : k \in Keys /\ k \in received /\ Kept(k)
  BY DEF SettledInv, ReceivedInv, ClearedWasReceived, TypeOK, Cleared, Recorded
<1>2. \A k \in Keys : Held(k) => k \in received
  BY DEF Held, ReceivedInv
<1>3. ASSUME NEW i \in (DOMAIN acks)' PROVE Kept(acks[i])'
  <2>1. acks'[i] \in Keys /\ acks'[i] \in received /\ Kept(acks'[i])
    BY <1>1, <1>2, AddedAck DEF Kept, Done
  <2>2. \A k \in received : k \in Keys /\ Kept(k) => Kept(k)'
    BY KeptStays
  <2> QED
    BY <2>1, <2>2
<1>4. ASSUME NEW k \in Cleared' PROVE Kept(k)'
  <2>1. k \in Keys /\ k \in received /\ Kept(k)
    BY <1>1, ClearedByAck
  <2> QED
    BY <2>1, KeptStays
<1> QED
  BY <1>3, <1>4

LEMMA InitSettled == Init => SettledInv
<1> SUFFICES ASSUME Init PROVE SettledInv
  OBVIOUS
<1>1. Cleared = {} /\ DOMAIN acks = {}
  BY DEF Init, Cleared, Recorded
<1> QED
  BY <1>1 DEF SettledInv

\* A command taken off pendingReliable by an acknowledgement has reached a handler of
\* its channel, is about to, or was overtaken there by a newer one (Transport.cpp:300-323,
\* 612-635); a subscriber killed in between finds it in the ring again, unless that was
\* filled or re-created.  Frames and acknowledgements may be lost in any number.
THEOREM AckedIsHandledOrSupersededHolds == Spec => []AckedIsHandledOrSuperseded
<1> DEFINE IInv == TypeOK /\ OnceInv /\ OriginInv /\ RingInv /\ ReceivedInv /\ SettledInv
<1>1. Init => IInv
  BY InitType, InitOnce, InitOrigin, InitRing, InitReceived, InitSettled
<1>2. IInv /\ [Next]_vars => IInv'
  BY NextType, NextOnce, NextOrigin, NextRing, NextReceived, NextSettled
<1>3. IInv => AckedIsHandledOrSuperseded
  BY DEF SettledInv, AckedIsHandledOrSuperseded, Kept, Done
<1> HIDE DEF IInv
<1> QED
  BY <1>1, <1>2, <1>3, PTL DEF Spec

(***************************************************************************)
(* The budget of copies.                                                   *)
(***************************************************************************)
\* InOrder lists every member once.
LEMMA InOrderExact ==
    ASSUME NEW S \in SUBSET Keys
    PROVE  /\ \A i, j \in DOMAIN InOrder(S) : i # j => InOrder(S)[i] # InOrder(S)[j]
           /\ \A k \in S : \E i \in DOMAIN InOrder(S) : InOrder(S)[i] = k
<1>1. MaxCommands \in Nat /\ Keys \subseteq Nat
  BY ReliableAssumption DEF Keys
<1>2. PICK q \in [1..Cardinality(S) -> S] : Sorted(q)
  BY <1>1, Enumeration DEF Keys
<1> DEFINE r == InOrder(S)
<1>3. r \in [1..Cardinality(S) -> S] /\ Sorted(r)
  BY <1>2 DEF InOrder, Sorted
<1>4. IsFiniteSet(S) /\ Cardinality(S) \in Nat
  <2>1. IsFiniteSet(Keys)
    BY <1>1, FS_Interval DEF Keys
  <2> QED
    BY <2>1, FS_Subset, FS_CardinalityType
<1> HIDE DEF r
<1>5. \A i, j \in 1..Cardinality(S) : i # j => r[i] # r[j]
  <2> SUFFICES ASSUME NEW i \in 1..Cardinality(S), NEW j \in 1..Cardinality(S), i # j
               PROVE  r[i] # r[j]
    OBVIOUS
  <2>1. r[i] \in Nat /\ r[j] \in Nat
    BY <1>1, <1>3
  <2>2. i < j \/ j < i
    BY <1>4
  <2> QED
    BY <1>3, <2>1, <2>2 DEF Sorted
<1>6. r \in Surjection(1..Cardinality(S), S)
  <2>1. r \in Injection(1..Cardinality(S), S)
    <3>1. \A a, b \in 1..Cardinality(S) : r[a] = r[b] => a = b
      BY <1>5
    <3> QED
      BY <1>3, <3>1 DEF Injection, IsInjective
  <2>2. Cardinality(1..Cardinality(S)) = Cardinality(S)
    BY <1>4, FS_Interval
  <2> QED
    BY <1>4, <2>1, <2>2, FS_Injection
<1> QED
  BY <1>3, <1>5, <1>6 DEF r, Surjection

\* Where in q the element k stands.
Copies(q, k) == {i \in DOMAIN q : q[i] = k}

LEMMA CopiesFinite ==
    ASSUME NEW S, NEW q \in Seq(S), NEW k
    PROVE  IsFiniteSet(Copies(q, k)) /\ Cardinality(Copies(q, k)) \in Nat
<1>1. DOMAIN q = 1..Len(q) /\ Len(q) \in Nat
  OBVIOUS
<1>2. IsFiniteSet(1..Len(q))
  BY <1>1, FS_Interval
<1>3. Copies(q, k) \in SUBSET (1..Len(q))
  BY <1>1 DEF Copies
<1> QED
  BY <1>2, <1>3, FS_Subset, FS_CardinalityType

\* A sequence without repetitions adds one copy of each of its elements.
LEMMA CopiesConcat ==
    ASSUME NEW S, NEW q \in Seq(S), NEW r \in Seq(S), NEW k,
           \A i, j \in DOMAIN r : i # j => r[i] # r[j]
    PROVE  Cardinality(Copies(q \o r, k)) =
               Cardinality(Copies(q, k)) + IF \E i \in DOMAIN r : r[i] = k THEN 1 ELSE 0
<1>1. /\ Len(q) \in Nat /\ Len(r) \in Nat
      /\ DOMAIN q = 1..Len(q) /\ DOMAIN r = 1..Len(r)
      /\ DOMAIN (q \o r) = 1..Len(q) + Len(r)
      /\ \A i \in 1..Len(q) : (q \o r)[i] = q[i]
      /\ \A i \in 1..Len(r) : (q \o r)[Len(q) + i] = r[i]
  OBVIOUS
<1>2. IsFiniteSet(Copies(q, k)) /\ Cardinality(Copies(q, k)) \in Nat
  BY CopiesFinite
<1> DEFINE t == q \o r
           n == Len(q)
           m == Len(r)
<1>3. \A i \in 1..n + m : i \in 1..n \/ \E j \in 1..m : i = n + j
  <2> SUFFICES ASSUME NEW i \in 1..n + m, i \notin 1..n
               PROVE  \E j \in 1..m : i = n + j
    OBVIOUS
  <2>1. i - n \in 1..m /\ i = n + (i - n)
    BY <1>1
  <2> QED
    BY <2>1
<1>4. CASE \E i \in DOMAIN r : r[i] = k
  <2>1. PICK j \in 1..m : r[j] = k
    BY <1>1, <1>4
  <2>2. Copies(t, k) = Copies(q, k) \cup {n + j}
    <3>1. ASSUME NEW i \in Copies(t, k) PROVE i \in Copies(q, k) \cup {n + j}
      <4>1. i \in 1..n + m /\ t[i] = k
        BY <1>1 DEF Copies
      <4>2. CASE i \in 1..n
        BY <1>1, <4>1, <4>2 DEF Copies
      <4>3. ASSUME NEW l \in 1..m, i = n + l PROVE i = n + j
        <5>1. t[i] = r[l]
          BY <1>1, <4>3
        <5>2. r[l] = r[j]
          BY <2>1, <4>1, <5>1
        <5>3. l \in DOMAIN r /\ j \in DOMAIN r
          BY <1>1, <2>1, <4>3
        <5>4. l = j
          BY <5>2, <5>3
        <5> QED
          BY <4>3, <5>4
      <4> QED
        BY <1>3, <4>1, <4>2, <4>3
    <3>2. n + j \in Copies(t, k)
      BY <1>1, <2>1 DEF Copies
    <3>3. Copies(q, k) \subseteq Copies(t, k)
      BY <1>1 DEF Copies
    <3> QED
      BY <3>1, <3>2, <3>3
  <2>3. n + j \notin Copies(q, k)
    BY <1>1 DEF Copies
  <2>4. Cardinality(Copies(t, k)) = Cardinality(Copies(q, k)) + 1
    BY <1>2, <2>2, <2>3, FS_AddElement
  <2> QED
    BY <1>4, <2>4
<1>5. CASE ~ \E i \in DOMAIN r : r[i] = k
  <2>1. ASSUME NEW i \in Copies(t, k) PROVE i \in Copies(q, k)
    <3>1. i \in 1..n + m /\ t[i] = k
      BY <1>1 DEF Copies
    <3>2. i \in 1..n
      BY <1>1, <1>3, <1>5, <3>1, SMTT(30)
    <3> QED
      BY <1>1, <3>1, <3>2 DEF Copies
  <2>2. Copies(q, k) \subseteq Copies(t, k)
    BY <1>1 DEF Copies
  <2>3. Copies(t, k) = Copies(q, k)
    BY <2>1, <2>2
  <2> QED
    BY <1>2, <1>5, <2>3
<1> QED
  BY <1>4, <1>5

LEMMA CopiesAppend ==
    ASSUME NEW S, NEW q \in Seq(S), NEW x \in S, NEW k
    PROVE  Cardinality(Copies(Append(q, x), k)) =
               Cardinality(Copies(q, k)) + IF k = x THEN 1 ELSE 0
<1> DEFINE r == <<x>>
<1>1. /\ r \in Seq(S) /\ Append(q, x) = q \o r
      /\ DOMAIN r = {1} /\ r[1] = x
  OBVIOUS
<1> HIDE DEF r
<1>2. \A i, j \in DOMAIN r : i # j => r[i] # r[j]
  BY <1>1
<1>3. Cardinality(Copies(q \o r, k)) =
          Cardinality(Copies(q, k)) + IF \E i \in DOMAIN r : r[i] = k THEN 1 ELSE 0
  BY <1>1, <1>2, CopiesConcat
<1>4. (\E i \in DOMAIN r : r[i] = k) <=> k = x
  BY <1>1
<1> QED
  BY <1>1, <1>3, <1>4

\* The copies of a command that is given up.
Budget == IF MaxRetries = 0 THEN 1 ELSE MaxRetries

\* "attempts" counts the copies in a ring that was never re-created, and stays
\* within the budget until the command is given up with the budget used up.
BudgetInv == grown = 0 =>
    \A k \in Recorded :
        /\ Cardinality(Copies(sent[home[k]], k)) = attempts[k]
        /\ k \in pending => k \notin gaveUp /\ attempts[k] <= Budget
        /\ k \in gaveUp => attempts[k] = Budget

LEMMA InitBudget == Init => BudgetInv
<1> SUFFICES ASSUME Init PROVE BudgetInv
  OBVIOUS
<1>1. Recorded = {}
  BY DEF Init, Recorded
<1> QED
  BY <1>1 DEF BudgetInv

LEMMA PublishBudget ==
    ASSUME TypeOK, OriginInv, BudgetInv, NEW c \in Channels, Publish(c), grown' = 0
    PROVE  BudgetInv'
<1> DEFINE n == Len(home) + 1
<1>1. PICK x \in {0, n} :
          /\ IF x = 0
             THEN UNCHANGED <<pending, attempts>>
             ELSE /\ pending' = pending \cup {x}
                  /\ attempts' = [attempts EXCEPT ![x] = 1]
          /\ \/ /\ sent' = [sent EXCEPT ![c] = Append(@, x)]
                /\ UNCHANGED grown
             \/ grown' = grown + 1
  BY DEF Publish, GrowWriter
<1>2. /\ home \in Seq(Channels) /\ home' = Append(home, c) /\ UNCHANGED gaveUp
      /\ Len(home) \in Nat /\ Len(home) < MaxCommands /\ MaxCommands \in Nat
      /\ grown \in Nat
  BY ReliableAssumption DEF Publish, TypeOK
<1>3. /\ n \in Keys /\ n # 0 /\ n \notin DOMAIN home /\ home'[n] = c
      /\ \A k \in DOMAIN home : home'[k] = home[k]
  BY <1>2 DEF Keys
<1>4. grown = 0 /\ sent' = [sent EXCEPT ![c] = Append(@, x)]
  BY <1>1, <1>2
<1> HIDE DEF n
<1>5. /\ \A d \in Channels : sent[d] \in Seq(Keys \cup {0})
      /\ \A d \in Channels : sent'[d] = IF d = c THEN Append(sent[c], x) ELSE sent[d]
      /\ x \in Keys \cup {0}
  BY <1>3, <1>4 DEF TypeOK
<1>6. ASSUME NEW k \in Recorded'
      PROVE  /\ Cardinality(Copies(sent'[home'[k]], k)) = attempts'[k]
             /\ k \in pending' => k \notin gaveUp' /\ attempts'[k] <= Budget
             /\ k \in gaveUp' => attempts'[k] = Budget
  <2>1. CASE k \in Recorded
    <3>1. /\ k \in DOMAIN home /\ k # n /\ k # 0 /\ home[k] \in Channels
          /\ attempts'[k] = attempts[k] /\ home'[k] = home[k]
          /\ k \in pending' <=> k \in pending
      <4>1. k \in DOMAIN home /\ k \in Keys
        BY <2>1 DEF OriginInv, Recorded
      <4>2. k # n /\ k # 0 /\ home[k] \in Channels /\ home'[k] = home[k]
        BY <1>2, <1>3, <4>1
      <4> QED
        BY <1>1, <4>1, <4>2 DEF TypeOK
    <3>2. Cardinality(Copies(sent'[home[k]], k)) = Cardinality(Copies(sent[home[k]], k))
      <4>1. CASE home[k] # c
        BY <1>5, <3>1, <4>1
      <4>2. CASE home[k] = c
        <5>1. k # x
          BY <3>1
        <5>2. Cardinality(Copies(sent[c], k)) \in Nat
          BY <1>5, CopiesFinite
        <5>3. Cardinality(Copies(Append(sent[c], x), k)) =
                  Cardinality(Copies(sent[c], k)) + IF k = x THEN 1 ELSE 0
          BY <1>5, CopiesAppend
        <5> QED
          BY <1>5, <4>2, <5>1, <5>2, <5>3
      <4> QED
        BY <4>1, <4>2
    <3> QED
      BY <1>2, <1>4, <2>1, <3>1, <3>2 DEF BudgetInv
  <2>2. CASE k \notin Recorded
    <3>1. x = n /\ k = n /\ attempts'[k] = 1
      BY <1>1, <1>6, <2>2 DEF Recorded, TypeOK
    <3>2. Copies(sent[c], k) = {}
      BY <1>3, <3>1 DEF Copies, OriginInv, Named
    <3>3. Cardinality(Copies(Append(sent[c], x), k)) = 1
      <4>1. Cardinality(Copies(Append(sent[c], x), k)) =
                  Cardinality(Copies(sent[c], k)) + IF k = x THEN 1 ELSE 0
        BY <1>5, CopiesAppend
      <4> QED
        BY <3>1, <3>2, <4>1, FS_EmptySet
    <3>4. k \notin gaveUp'
      BY <1>2, <2>2 DEF TypeOK
    <3>5. 1 <= Budget
      BY ReliableAssumption DEF Budget
    <3> QED
      BY <1>3, <1>5, <3>1, <3>3, <3>4, <3>5
  <2> QED
    BY <2>1, <2>2
<1> QED
  BY <1>6 DEF BudgetInv

LEMMA TickBudget ==
    ASSUME TypeOK, OriginInv, BudgetInv, NEW due \in SUBSET pending, Tick(due),
           grown' = 0
    PROVE  BudgetInv'
<1>1. PICK from \in Readable(acks, ackCursor) :
          /\ TickResends(due \cap DrainAcks(from))
          /\ pending' = DrainAcks(from) \ gaveUp'
  BY DEF Tick
<1> DEFINE late   == due \cap DrainAcks(from)
           resent == late \ Exhausted(late)
<1>2. UNCHANGED <<home, grown>> /\ grown = 0
  BY DEF Tick
<1>3. /\ gaveUp' = gaveUp \cup Exhausted(late)
      /\ attempts' = [k \in Keys |-> attempts[k] + IF k \in resent THEN 1 ELSE 0]
      /\ sent' = [c \in Channels |->
                     sent[c] \o InOrder({k \in resent : home[k] = c})]
  BY <1>1 DEF TickResends
<1>4. /\ resent \subseteq pending /\ DrainAcks(from) \subseteq pending
      /\ Exhausted(late) \subseteq pending
      /\ \A k \in Exhausted(late) : k \notin resent /\ attempts[k] >= MaxRetries
      /\ \A k \in resent : ~ (attempts[k] >= MaxRetries)
  BY DEF DrainAcks, Exhausted
<1> HIDE DEF late, resent
<1>5. MaxRetries \in Nat /\ Budget \in Nat
  BY ReliableAssumption DEF Budget
<1>6. ASSUME NEW k \in Recorded'
      PROVE  /\ Cardinality(Copies(sent'[home'[k]], k)) = attempts'[k]
             /\ k \in pending' => k \notin gaveUp' /\ attempts'[k] <= Budget
             /\ k \in gaveUp' => attempts'[k] = Budget
  <2>1. k \in Recorded /\ k \in Keys /\ attempts[k] \in Nat /\ attempts[k] > 0
    BY <1>3, <1>4, <1>6 DEF Recorded, TypeOK
  <2>2. /\ attempts'[k] = attempts[k] + IF k \in resent THEN 1 ELSE 0
        /\ home'[k] = home[k] /\ home[k] \in Channels
    BY <1>2, <1>3, <2>1 DEF OriginInv, TypeOK
  <2>3. /\ Cardinality(Copies(sent[home[k]], k)) = attempts[k]
        /\ k \in pending => k \notin gaveUp /\ attempts[k] <= Budget
        /\ k \in gaveUp => attempts[k] = Budget
    BY <1>2, <2>1 DEF BudgetInv
  <2>4. Cardinality(Copies(sent'[home[k]], k)) =
            attempts[k] + IF k \in resent THEN 1 ELSE 0
    <3> DEFINE S == {m \in resent : home[m] = home[k]}
               r == InOrder(S)
    <3>1. S \in SUBSET Keys
      BY <1>4 DEF TypeOK, Recorded
    <3>2. sent'[home[k]] = sent[home[k]] \o r
      BY <1>3, <2>2
    <3>3. k \in S <=> k \in resent
      OBVIOUS
    <3> HIDE DEF S
    <3>4. r \in Seq(Keys \cup {0}) /\ \A i \in DOMAIN r : r[i] \in S
      <4>1. r \in Seq(S)
        BY <3>1, InOrderType
      <4> QED
        BY <3>1, <4>1, SeqMonotonic
    <3>5. /\ \A i, j \in DOMAIN r : i # j => r[i] # r[j]
          /\ \A m \in S : \E i \in DOMAIN r : r[i] = m
      BY <3>1, InOrderExact
    <3> HIDE DEF r
    <3>6. (\E i \in DOMAIN r : r[i] = k) <=> k \in resent
      BY <3>3, <3>4, <3>5
    <3>7. sent[home[k]] \in Seq(Keys \cup {0})
      BY <2>2 DEF TypeOK
    <3>8. Cardinality(Copies(sent[home[k]] \o r, k)) =
              Cardinality(Copies(sent[home[k]], k))
                  + IF \E i \in DOMAIN r : r[i] = k THEN 1 ELSE 0
      BY <3>4, <3>5, <3>7, CopiesConcat
    <3> QED
      BY <2>3, <3>2, <3>6, <3>8
  <2>5. k \in pending' => k \notin gaveUp' /\ attempts'[k] <= Budget
    <3> SUFFICES ASSUME k \in pending' PROVE attempts'[k] <= Budget
      BY <1>1
    <3>1. k \in pending
      BY <1>1, <1>4
    <3>2. CASE k \in resent
      BY <1>4, <1>5, <2>1, <2>2, <3>2 DEF Budget
    <3>3. CASE k \notin resent
      BY <2>1, <2>2, <2>3, <3>1, <3>3
    <3> QED
      BY <3>2, <3>3
  <2>6. k \in gaveUp' => attempts'[k] = Budget
    <3>1. CASE k \in gaveUp
      <4>1. k \notin resent
        BY <1>4, <2>3, <3>1
      <4> QED
        BY <2>1, <2>2, <2>3, <3>1, <4>1
    <3>2. CASE k \in Exhausted(late)
      <4>1. k \in pending /\ k \notin resent /\ attempts[k] >= MaxRetries
        BY <1>4, <3>2
      <4> QED
        BY <1>5, <2>1, <2>2, <2>3, <4>1 DEF Budget
    <3> QED
      BY <1>3, <3>1, <3>2
  <2> QED
    BY <2>2, <2>4, <2>5, <2>6
<1> QED
  BY <1>6 DEF BudgetInv

LEMMA NextBudget ==
    TypeOK /\ OriginInv /\ BudgetInv /\ [Next]_vars => BudgetInv'
<1> SUFFICES ASSUME TypeOK, OriginInv, BudgetInv, [Next]_vars, grown' = 0
             PROVE  BudgetInv'
  BY DEF BudgetInv
<1>1. CASE UNCHANGED publisherVars
  BY <1>1 DEF publisherVars, BudgetInv, Recorded
<1>2. ASSUME NEW s \in Processes, Spin(s) \/ Restart(s)
      PROVE  UNCHANGED publisherVars
  BY <1>2 DEF Spin, Receive, PublishAck, PublishAckTogether, Handle, Restart
<1>3. CASE UNCHANGED vars
  BY <1>1, <1>3 DEF vars
<1>4. CASE Next
  BY <1>1, <1>2, <1>4, PublishBudget, TickBudget DEF Next
<1> QED
  BY <1>3, <1>4

\* A command is given up (ReliableEvent::GaveUp, Transport.cpp:325-363) after
\* exactly its budget of copies went into a ring that was not re-created: the first
\* one counts, and maxRetries = 0 still sends that one.
THEOREM GiveUpBudgetHolds == Spec => []GiveUpBudget
<1> DEFINE IInv == TypeOK /\ OriginInv /\ BudgetInv
<1>1. Init => IInv
  BY InitType, InitOrigin, InitBudget
<1>2. IInv /\ [Next]_vars => IInv'
  BY NextType, NextOrigin, NextBudget
<1>3. IInv => GiveUpBudget
  BY DEF TypeOK, BudgetInv, GiveUpBudget, Copies, Budget
<1> HIDE DEF IInv
<1> QED
  BY <1>1, <1>2, <1>3, PTL DEF Spec
====
