---- MODULE PyProofs ----
(***************************************************************************)
(* Proofs about the Python transport, for any transports, options and      *)
(* limits: it hands an envelope to a subscriber once, it keeps its types,  *)
(* and it loses no envelope, whichever of _on_ack and _tick_reliable       *)
(* overwrites what the other stored.                                       *)
(***************************************************************************)
EXTENDS PyTransport, SequenceTheorems, FiniteSetTheorems, TLAPS

\* The history of each subscriber is a sequence, of whatever was handled so far.
HandledInv == /\ \E S : handled \in [Transports -> Seq(S)]
              /\ HandledOnce

LEMMA MaxOfTwo ==
    ASSUME NEW a \in Int, NEW b \in Int
    PROVE  Max({a, b}) = IF a >= b THEN a ELSE b
<1>1. PICK x \in {a, b} : \A y \in {a, b} : x >= y
  OBVIOUS
<1>2. Max({a, b}) \in {a, b} /\ \A y \in {a, b} : Max({a, b}) >= y
  BY <1>1 DEF Max
<1> QED
  BY <1>2

\* The window has every envelope that the dedup capacity reaches back to.
LEMMA RememberedWindow ==
    ASSUME NEW S, NEW s \in Transports, handled[s] \in Seq(S),
           NEW i \in 1..Len(handled[s]), Len(handled[s]) + 1 <= i + DedupCapacity
    PROVE  handled[s][i] \in Remembered(s)
<1> DEFINE h == handled[s]
           n == Len(h)
           a == 1 + Max({0, n - DedupCapacity})
<1>1. n \in Nat /\ DedupCapacity \in Nat \ {0}
  BY PyAssumption
<1>2. a \in 1..i
  <2>1. Max({0, n - DedupCapacity}) = IF 0 >= n - DedupCapacity THEN 0 ELSE n - DedupCapacity
    BY <1>1, MaxOfTwo
  <2> QED
    BY <1>1, <2>1
<1> HIDE DEF a
<1>3. a \in 1..(n + 1) /\ a <= n
  BY <1>1, <1>2
<1>4. /\ DOMAIN SubSeq(h, a, n) = 1..(n - a + 1)
      /\ SubSeq(h, a, n)[i - a + 1] = h[i]
  <2>1. /\ SubSeq(h, a, n) \in Seq(S) /\ Len(SubSeq(h, a, n)) = n - a + 1
        /\ \A k \in 1..(n - a + 1) : SubSeq(h, a, n)[k] = h[a + k - 1]
    BY <1>1, <1>3, SubSeqProperties
  <2>2. i - a + 1 \in 1..(n - a + 1) /\ a + (i - a + 1) - 1 = i
    BY <1>1, <1>2
  <2> QED
    BY <2>1, <2>2
<1>5. i - a + 1 \in 1..(n - a + 1)
  BY <1>1, <1>2
<1> QED
  BY <1>4, <1>5 DEF Remembered, Range, a

LEMMA OnEnvelopeHandled ==
    ASSUME HandledInv, NEW t \in Transports, OnEnvelope(t)
    PROVE  HandledInv'
<1> DEFINE s == item[t].to
           m == item[t].msg
<1>1. handled' = IF m \in Remembered(s) THEN handled ELSE [handled EXCEPT ![s] = Append(@, m)]
  BY DEF OnEnvelope
<1>2. CASE m \in Remembered(s) \/ s \notin Transports
  <2>1. handled' = handled
    BY <1>1, <1>2 DEF HandledInv
  <2> QED
    BY <2>1 DEF HandledInv, HandledOnce
<1>3. CASE m \notin Remembered(s) /\ s \in Transports
  <2>1. PICK S : handled \in [Transports -> Seq(S)]
    BY DEF HandledInv
  <2> HIDE DEF s, m
  <2>2. handled' = [handled EXCEPT ![s] = Append(@, m)]
    BY <1>1, <1>3
  <2>3. handled \in [Transports -> Seq(S \cup {m})] /\ m \in S \cup {m}
    BY <2>1
  <2>4. handled' \in [Transports -> Seq(S \cup {m})]
    BY <1>3, <2>2, <2>3
  <2> DEFINE h == handled[s]
             n == Len(h)
  <2>5. /\ h \in Seq(S) /\ n \in Nat /\ DedupCapacity \in Nat \ {0}
        /\ DOMAIN h = 1..n
        /\ handled'[s] = Append(h, m) /\ DOMAIN handled'[s] = 1..(n + 1)
        /\ handled'[s][n + 1] = m
        /\ \A i \in 1..n : handled'[s][i] = h[i]
    BY <1>3, <2>1, <2>2, PyAssumption
  <2>6. ASSUME NEW u \in Transports, NEW i \in DOMAIN handled'[u], NEW j \in DOMAIN handled'[u],
               i < j, j <= i + DedupCapacity
        PROVE  handled'[u][i] # handled'[u][j]
    <3>1. CASE u # s
      <4>1. handled'[u] = handled[u]
        BY <2>1, <2>2, <3>1
      <4> QED
        BY <4>1, <2>6 DEF HandledInv, HandledOnce
    <3>2. CASE u = s /\ j = n + 1
      <4>1. i \in 1..n /\ n + 1 <= i + DedupCapacity
        BY <2>5, <2>6, <3>2
      <4>2. h[i] \in Remembered(s)
        BY <4>1, <2>5, <1>3, RememberedWindow
      <4> QED
        BY <4>1, <4>2, <2>5, <3>2, <1>3
    <3>3. CASE u = s /\ j # n + 1
      <4>1. i \in 1..n /\ j \in 1..n
        BY <2>5, <2>6, <3>3
      <4>2. h[i] # h[j]
        BY <4>1, <2>5, <2>6, <1>3 DEF HandledInv, HandledOnce
      <4> QED
        BY <4>1, <4>2, <2>5, <3>3
    <3> QED
      BY <3>1, <3>2, <3>3
  <2> QED
    BY <2>4, <2>6 DEF HandledInv, HandledOnce
<1> QED
  BY <1>2, <1>3

LEMMA OthersKeepHandled ==
    ASSUME [Next]_vars, \A t \in Transports : ~OnEnvelope(t)
    PROVE  handled' = handled
<1>1. CASE UNCHANGED vars
  BY <1>1 DEF vars
<1>2. ASSUME NEW t \in Transports, SubscribeReliable(t) \/ SubscribeRetained(t)
      PROVE  handled' = handled
  BY <1>2 DEF SubscribeReliable, SubscribeRetained
<1>3. ASSUME NEW t \in Transports, NEW options, Publish(t, options)
      PROVE  handled' = handled
  BY <1>3 DEF Publish
<1>4. ASSUME NEW t \in Transports, CallStep(t)
      PROVE  handled' = handled
  BY <1>4 DEF CallStep, Ask, AppendPending, Cache
<1>5. ASSUME NEW t \in Transports, SpinStep(t)
      PROVE  handled' = handled
  BY <1>5 DEF SpinStep, Pop, PopNothing, OnForeignAck, OnAck, StoreAcked, OnRequest, Replay,
         OnValue, NotDue, Due, GiveUp, Retry, StoreKept
<1> QED
  BY <1>1, <1>2, <1>3, <1>4, <1>5 DEF Next

\* However the threads interleave, an envelope is handled once while it is remembered.
THEOREM HandledOnceHolds == Spec => []HandledOnce
<1>1. Init => HandledInv
  <2> SUFFICES ASSUME Init PROVE HandledInv
    OBVIOUS
  <2>1. handled = [t \in Transports |-> <<>>]
    BY DEF Init
  <2>2. handled \in [Transports -> Seq({})]
    BY <2>1
  <2>3. HandledOnce
    BY <2>1 DEF HandledOnce
  <2> QED
    BY <2>2, <2>3 DEF HandledInv
<1>2. HandledInv /\ [Next]_vars => HandledInv'
  <2> SUFFICES ASSUME HandledInv, [Next]_vars PROVE HandledInv'
    OBVIOUS
  <2>1. CASE \E t \in Transports : OnEnvelope(t)
    BY <2>1, OnEnvelopeHandled
  <2>2. CASE \A t \in Transports : ~OnEnvelope(t)
    BY <2>2, OthersKeepHandled DEF HandledInv, HandledOnce
  <2> QED
    BY <2>1, <2>2
<1>3. HandledInv => HandledOnce
  BY DEF HandledInv
<1> QED
  BY <1>1, <1>2, <1>3, PTL DEF Spec

(***************************************************************************)
(* Types.                                                                  *)
(***************************************************************************)
Item == [to : Transports, kind : {"envelope", "ack", "value"}, msg : Message]
        \cup [to : Transports, kind : {"request"}, msg : {<<>>}]

Callback == {"envelope", "ack", "value", "request"}

Label == Callback \cup {"idle", "ask", "append", "append and cache", "cache", "acked",
                        "replay", "visit"}

SubInv == listening \in Seq(Listeners) /\ asked \in Seq(Askers)

QueueInv == /\ queue \in [Transports -> Seq(Item)]
            /\ lock \in [Transports -> Transports \cup {"free"}]

\* A thread in a callback has the item it was called with.
ThreadInv ==
    /\ pc \in [Transports -> Label] /\ item \in [Transports -> Item \cup {NoItem}]
    /\ \A t \in Transports :
          /\ pc[t] \in Callback => item[t] \in Item /\ item[t].kind = pc[t]
          /\ pc[t] \in {"acked", "replay"} => item[t] \in Item

MessagesOf == [Transports -> SUBSET Message]

SetInv == /\ local \in MessagesOf /\ cache \in MessagesOf /\ pending \in MessagesOf
          /\ todo \in MessagesOf /\ kept \in MessagesOf /\ seen \in MessagesOf
          /\ gaveUp \subseteq Message /\ handled \in [Transports -> Seq(Message)]

CountInv == /\ published \in [Publishers -> Nat]
            /\ \A p \in Publishers : published[p] <= MaxPublished[p]
            /\ attempts \in [Message -> Nat]
            /\ \A m \in Message : attempts[m] <= MaxRetries[m]

TypeInv == SubInv /\ QueueInv /\ ThreadInv /\ SetInv /\ CountInv

\* Everyone lists the transports: there are finitely many.
LEMMA EveryoneType == Everyone \in Seq(Transports)
<1>1. PICK n \in Nat : n = Cardinality(Transports)
  BY FS_CardinalityType, PyAssumption
<1>2. ExistsBijection(1..n, Transports)
  BY <1>1, FS_CardinalityType, PyAssumption
<1>3. \E f \in [1..n -> Transports] : IsInjective(f)
  BY <1>2 DEF ExistsBijection, Bijection, Injection
<1>4. Everyone = CHOOSE f \in [1..n -> Transports] : IsInjective(f)
  BY <1>1 DEF Everyone, SetToSeq
<1>5. Everyone \in [1..n -> Transports]
  <2> HIDE DEF IsInjective
  <2> QED
    BY <1>3, <1>4, Zenon
<1> QED
  BY <1>5

LEMMA ForType ==
    ASSUME NEW subs \in Seq(Transports), NEW kind, NEW m,
           \/ kind \in {"envelope", "ack", "value"} /\ m \in Message
           \/ kind = "request" /\ m = <<>>
    PROVE  For(subs, kind, m) \in Seq(Item)
<1>1. \A i \in 1..Len(subs) : [to |-> subs[i], kind |-> kind, msg |-> m] \in Item
  BY DEF Item
<1> QED
  BY <1>1 DEF For

LEMMA PublishQueue ==
    ASSUME QueueInv, NEW t, NEW subs \in Seq(Transports), NEW kind, NEW m,
           \/ kind \in {"envelope", "ack", "value"} /\ m \in Message
           \/ kind = "request" /\ m = <<>>,
           MemqPublish(t, subs, kind, m)
    PROVE  queue' \in [Transports -> Seq(Item)]
<1>1. PICK new : new = For(subs, kind, m)
  OBVIOUS
<1>2. new \in Seq(Item)
  BY <1>1, ForType
<1>3. queue' = [queue EXCEPT ![t] = @ \o new]
  BY <1>1 DEF MemqPublish
<1>4. \A u \in Transports : queue[u] \o new \in Seq(Item)
  BY <1>2 DEF QueueInv
<1> QED
  BY <1>3, <1>4 DEF QueueInv

LEMMA SubsType == SubInv => listening \in Seq(Transports) /\ asked \in Seq(Transports)
  BY PyAssumption DEF SubInv

(***************************************************************************)
(* The application.                                                        *)
(***************************************************************************)
LEMMA SubscribeTypes ==
    ASSUME TypeInv, NEW t \in Transports, SubscribeReliable(t) \/ SubscribeRetained(t)
    PROVE  TypeInv'
<1>1. UNCHANGED <<queue, lock, item, local, published, cache, pending, attempts, gaveUp, todo,
                  kept, handled, seen>>
  BY DEF SubscribeReliable, SubscribeRetained, pubVars, relVars
<1>2. SubInv'
  BY SMTT(30) DEF TypeInv, SubInv, SubscribeReliable, SubscribeRetained
<1>3. ThreadInv'
  <2>1. pc' = pc \/ pc' = [pc EXCEPT ![t] = "ask"]
    BY DEF SubscribeReliable, SubscribeRetained, Goto
  <2> QED
    BY <1>1, <2>1 DEF TypeInv, ThreadInv, Label, Callback
<1> QED
  BY <1>1, <1>2, <1>3 DEF TypeInv, QueueInv, SetInv, CountInv

LEMMA AskTypes ==
    ASSUME TypeInv, NEW t \in Transports, Ask(t)
    PROVE  TypeInv'
<1>1. UNCHANGED <<listening, asked, lock, item, local, published, cache, pending, attempts, gaveUp,
                  todo, kept, handled, seen>>
  BY DEF Ask, subVars, pubVars, relVars
<1>2. QueueInv'
  <2>1. queue' \in [Transports -> Seq(Item)]
    BY PublishQueue, EveryoneType DEF Ask, TypeInv
  <2> QED
    BY <1>1, <2>1 DEF TypeInv, QueueInv
<1>3. ThreadInv'
  <2>1. pc' = [pc EXCEPT ![t] = "idle"]
    BY DEF Ask, Goto
  <2> QED
    BY <1>1, <2>1 DEF TypeInv, ThreadInv, Label, Callback
<1> QED
  BY <1>1, <1>2, <1>3 DEF TypeInv, SubInv, SetInv, CountInv

LEMMA PublishTypes ==
    ASSUME TypeInv, NEW t \in Publishers, NEW options, Publish(t, options)
    PROVE  TypeInv'
<1>1. PICK m : m = <<t, published[t] + 1>>
  OBVIOUS
<1>2. /\ UNCHANGED <<listening, asked, lock, item, cache, pending, attempts, gaveUp, todo, kept,
                     handled, seen>>
      /\ pc[t] = "idle" /\ published[t] < MaxPublished[t]
      /\ published' = [published EXCEPT ![t] = @ + 1]
      /\ \/ MemqPublish(t, listening, "envelope", m) \/ MemqPublish(t, asked, "value", m)
      /\ local' = local \/ local' = [local EXCEPT ![t] = {m}]
      /\ \E l \in {"idle", "append", "cache", "append and cache"} : pc' = [pc EXCEPT ![t] = l]
  BY <1>1 DEF Publish, Goto, subVars, relVars
<1>3. m \in Message /\ t \in Transports
  <2>1. published[t] + 1 \in 1..MaxPublished[t]
    <3>1. published[t] \in Nat /\ MaxPublished[t] \in Nat
      BY PyAssumption DEF TypeInv, CountInv
    <3>2. published[t] < MaxPublished[t]
      BY <1>2
    <3> QED
      BY <3>1, <3>2
  <2>2. m \in {t} \X (1..MaxPublished[t])
    BY <1>1, <2>1
  <2> QED
    BY <2>2, PyAssumption DEF Message
<1>4. QueueInv'
  <2>1. queue' \in [Transports -> Seq(Item)]
    BY <1>2, <1>3, SubsType, PublishQueue DEF TypeInv
  <2> QED
    BY <1>2, <2>1 DEF TypeInv, QueueInv
<1>5. ThreadInv'
  BY <1>2, <1>3 DEF TypeInv, ThreadInv, Label, Callback
<1>6. SetInv'
  <2>1. local' \in MessagesOf
    <3>1. local \in MessagesOf /\ {m} \subseteq Message
      BY <1>3 DEF TypeInv, SetInv
    <3>2. local' = local \/ local' = [local EXCEPT ![t] = {m}]
      BY <1>2
    <3> QED
      BY <3>1, <3>2, <1>3 DEF MessagesOf
  <2> QED
    BY <1>2, <2>1 DEF TypeInv, SetInv
<1>7. CountInv'
  <2>1. published \in [Publishers -> Nat] /\ MaxPublished \in [Publishers -> Nat]
        /\ \A p \in Publishers : published[p] <= MaxPublished[p]
    BY PyAssumption DEF TypeInv, CountInv
  <2>2. published' = [published EXCEPT ![t] = @ + 1] /\ published[t] < MaxPublished[t]
    BY <1>2
  <2>3. /\ published' \in [Publishers -> Nat]
        /\ \A p \in Publishers : published'[p] <= MaxPublished[p]
    BY <2>1, <2>2
  <2> QED
    BY <1>2, <2>3 DEF TypeInv, CountInv
<1> QED
  BY <1>2, <1>4, <1>5, <1>6, <1>7 DEF TypeInv, SubInv

LEMMA AppendTypes ==
    ASSUME TypeInv, NEW t \in Transports, AppendPending(t) \/ Cache(t)
    PROVE  TypeInv'
<1>1. UNCHANGED <<listening, asked, queue, lock, item, published, gaveUp, todo, kept, handled, seen>>
  BY DEF AppendPending, Cache, subVars, pubVars, relVars
<1>2. ThreadInv'
  <2>1. \E l \in {"idle", "cache"} : pc' = [pc EXCEPT ![t] = l]
    BY DEF AppendPending, Cache, Goto
  <2> QED
    BY <1>1, <2>1 DEF TypeInv, ThreadInv, Label, Callback
<1>3. SetInv'
  <2>1. /\ pending' = pending \/ pending' = [pending EXCEPT ![t] = @ \cup local[t]]
        /\ cache' = cache \/ cache' = [cache EXCEPT ![t] = local[t]]
        /\ local' = local \/ local' = [local EXCEPT ![t] = {}]
    BY DEF AppendPending, Cache, pubVars, relVars
  <2> QED
    BY <1>1, <2>1, ZenonT(30) DEF TypeInv, SetInv, MessagesOf
<1>4. CountInv'
  <2>1. attempts' = attempts
        \/ attempts' = [m \in Message |-> IF m \in local[t] THEN 1 ELSE attempts[m]]
    BY DEF AppendPending, Cache, relVars
  <2> QED
    BY <1>1, <2>1, RetriesAssumption DEF TypeInv, CountInv
<1> QED
  BY <1>1, <1>2, <1>3, <1>4 DEF TypeInv, SubInv, QueueInv

(***************************************************************************)
(* The callbacks.                                                          *)
(***************************************************************************)
LEMMA TickTypes ==
    ASSUME ThreadInv, todo \in MessagesOf, pending' \in MessagesOf, NEW t \in Transports, Tick(t)
    PROVE  /\ todo' \in MessagesOf
           /\ pc' \in [Transports -> Label] /\ pc'[t] \in {"idle", "visit"}
           /\ \A u \in Transports : u # t => pc'[u] = pc[u]
<1>1. PICK ms : ms = pending'[t]
  OBVIOUS
<1>2. ms \subseteq Message
  BY <1>1 DEF MessagesOf
<1>3. todo' = [todo EXCEPT ![t] = ms] /\ \E l \in {"idle", "visit"} : pc' = [pc EXCEPT ![t] = l]
  BY <1>1 DEF Tick, Goto
<1> QED
  BY <1>2, <1>3 DEF ThreadInv, MessagesOf, Label

\* What Return leaves to show of a callback: the queue, the lists and the history.
LEMMA ReturnTypes ==
    ASSUME TypeInv, NEW t \in Transports, Return(t),
           UNCHANGED <<listening, asked, published, cache, attempts, gaveUp, kept>>,
           queue' \in [Transports -> Seq(Item)], pending' \in MessagesOf, seen' \in MessagesOf,
           handled' \in [Transports -> Seq(Message)]
    PROVE  TypeInv'
<1>1. /\ lock' = [lock EXCEPT ![t] = "free"] /\ item' = [item EXCEPT ![t] = NoItem]
      /\ local' = [local EXCEPT ![t] = {}] /\ Tick(t)
  BY DEF Return
<1>2. /\ todo' \in MessagesOf
      /\ pc' \in [Transports -> Label] /\ pc'[t] \in {"idle", "visit"}
      /\ \A u \in Transports : u # t => pc'[u] = pc[u]
  BY <1>1, TickTypes DEF TypeInv, SetInv
<1>3. ThreadInv'
  <2>1. item' \in [Transports -> Item \cup {NoItem}]
    BY <1>1 DEF TypeInv, ThreadInv
  <2>2. ASSUME NEW u \in Transports
        PROVE  /\ pc'[u] \in Callback => item'[u] \in Item /\ item'[u].kind = pc'[u]
               /\ pc'[u] \in {"acked", "replay"} => item'[u] \in Item
    BY <1>1, <1>2 DEF TypeInv, ThreadInv, Callback
  <2> QED
    BY <1>2, <2>1, <2>2 DEF ThreadInv
<1>4. QueueInv' /\ SetInv'
  BY <1>1, <1>2 DEF TypeInv, QueueInv, SetInv, MessagesOf
<1> QED
  BY <1>3, <1>4 DEF TypeInv, SubInv, CountInv

LEMMA PopTypes ==
    ASSUME TypeInv, NEW t \in Transports, Pop(t)
    PROVE  TypeInv'
<1>1. PICK q : q = queue[t]
  OBVIOUS
<1>2. PICK x : x = Head(q)
  OBVIOUS
<1>3. q \in Seq(Item) /\ q # <<>>
  BY <1>1 DEF Pop, TypeInv, QueueInv
<1>4. x \in Item /\ Tail(q) \in Seq(Item)
  BY <1>2, <1>3
<1>5. /\ UNCHANGED <<listening, asked, local, published, cache, pending, attempts, gaveUp, todo,
                     kept, handled, seen>>
      /\ lock' = [lock EXCEPT ![t] = t] /\ item' = [item EXCEPT ![t] = x]
      /\ queue' = [queue EXCEPT ![t] = Tail(q)] /\ pc' = [pc EXCEPT ![t] = x.kind]
  BY <1>1, <1>2 DEF Pop, Goto, subVars, pubVars, relVars
<1>6. x.kind \in Callback
  BY <1>4 DEF Item, Callback
<1>7. ThreadInv'
  BY <1>4, <1>5, <1>6 DEF TypeInv, ThreadInv, Label
<1>8. QueueInv'
  BY <1>4, <1>5 DEF TypeInv, QueueInv
<1> QED
  BY <1>5, <1>7, <1>8 DEF TypeInv, SubInv, SetInv, CountInv

LEMMA PopNothingTypes ==
    ASSUME TypeInv, NEW t \in Transports, PopNothing(t)
    PROVE  TypeInv'
<1>1. /\ UNCHANGED <<listening, asked, queue, lock, item, local, published, cache, pending, attempts,
                     gaveUp, kept, handled, seen>>
      /\ Tick(t)
  BY DEF PopNothing, subVars, pubVars, relVars
<1>2. /\ todo' \in MessagesOf
      /\ pc' \in [Transports -> Label] /\ pc'[t] \in {"idle", "visit"}
      /\ \A u \in Transports : u # t => pc'[u] = pc[u]
  BY <1>1, TickTypes DEF TypeInv, SetInv
<1>3. ThreadInv'
  BY <1>1, <1>2 DEF TypeInv, ThreadInv, Callback
<1> QED
  BY <1>1, <1>2, <1>3 DEF TypeInv, SubInv, QueueInv, SetInv, CountInv

LEMMA OnEnvelopeTypes ==
    ASSUME TypeInv, NEW t \in Transports, OnEnvelope(t)
    PROVE  TypeInv'
<1>1. PICK s : s = item[t].to
  OBVIOUS
<1>2. PICK m : m = item[t].msg
  OBVIOUS
<1>3. s \in Transports /\ m \in Message
  <2>1. item[t] \in Item /\ item[t].kind = "envelope"
    BY DEF OnEnvelope, TypeInv, ThreadInv, Callback
  <2> QED
    BY <1>1, <1>2, <2>1 DEF Item
<1>4. /\ UNCHANGED <<listening, asked, published, cache, pending, attempts, gaveUp, kept, seen>>
      /\ MemqPublish(s, Everyone, "ack", m) /\ Return(t)
      /\ handled' = handled \/ handled' = [handled EXCEPT ![s] = Append(@, m)]
  BY <1>1, <1>2 DEF OnEnvelope, subVars, pubVars, relVars
<1>5. queue' \in [Transports -> Seq(Item)]
  BY <1>3, <1>4, PublishQueue, EveryoneType DEF TypeInv
<1>6. handled' \in [Transports -> Seq(Message)]
  <2>1. handled \in [Transports -> Seq(Message)]
    BY DEF TypeInv, SetInv
  <2>2. Append(handled[s], m) \in Seq(Message)
    BY <1>3, <2>1
  <2> QED
    BY <1>3, <1>4, <2>1, <2>2
<1> QED
  BY <1>4, <1>5, <1>6, ReturnTypes DEF TypeInv, SetInv

LEMMA OnForeignAckTypes ==
    ASSUME TypeInv, NEW t \in Transports, OnForeignAck(t)
    PROVE  TypeInv'
  BY ReturnTypes DEF OnForeignAck, subVars, pubVars, relVars, TypeInv, QueueInv, SetInv

LEMMA OnAckTypes ==
    ASSUME TypeInv, NEW t \in Transports, OnAck(t)
    PROVE  TypeInv'
<1>1. PICK ms : ms = pending[item[t].to] \ {item[t].msg}
  OBVIOUS
<1>2. /\ UNCHANGED <<listening, asked, queue, lock, item, published, cache, pending, attempts,
                     gaveUp, todo, kept, handled, seen>>
      /\ pc[t] = "ack" /\ local' = [local EXCEPT ![t] = ms] /\ pc' = [pc EXCEPT ![t] = "acked"]
  BY <1>1 DEF OnAck, Goto, subVars, pubVars, relVars
<1>3. item[t] \in Item
  BY <1>2 DEF TypeInv, ThreadInv, Callback
<1>4. ms \subseteq Message
  <2>1. item[t].to \in Transports
    BY <1>3 DEF Item
  <2> QED
    BY <1>1, <2>1 DEF TypeInv, SetInv, MessagesOf
<1>5. ThreadInv'
  BY <1>2, <1>3 DEF TypeInv, ThreadInv, Label, Callback
<1>6. SetInv'
  BY <1>2, <1>4 DEF TypeInv, SetInv, MessagesOf
<1> QED
  BY <1>2, <1>5, <1>6 DEF TypeInv, SubInv, QueueInv, CountInv

LEMMA StoreAckedTypes ==
    ASSUME TypeInv, NEW t \in Transports, StoreAcked(t)
    PROVE  TypeInv'
<1>1. /\ UNCHANGED <<listening, asked, queue, published, cache, attempts, gaveUp, kept, handled, seen>>
      /\ Return(t) /\ pending' = [pending EXCEPT ![item[t].to] = local[t]]
  BY DEF StoreAcked, subVars, pubVars
<1>2. pending' \in MessagesOf
  BY <1>1 DEF TypeInv, SetInv, MessagesOf
<1> QED
  BY <1>1, <1>2, ReturnTypes DEF TypeInv, QueueInv, SetInv

LEMMA OnRequestTypes ==
    ASSUME TypeInv, NEW t \in Transports, OnRequest(t)
    PROVE  TypeInv'
<1>1. /\ UNCHANGED <<listening, asked, queue, published, cache, pending, attempts, gaveUp, kept,
                     handled, seen>>
      /\ pc[t] = "request"
  BY DEF OnRequest, subVars, pubVars, relVars
<1>2. item[t] \in Item
  BY <1>1 DEF TypeInv, ThreadInv, Callback
<1>3. PICK ms : ms = cache[item[t].to]
  OBVIOUS
<1>4. ms \subseteq Message
  <2>1. item[t].to \in Transports
    BY <1>2 DEF Item
  <2> QED
    BY <1>3, <2>1 DEF TypeInv, SetInv, MessagesOf
<1>5. CASE Return(t)
  BY <1>1, <1>5, ReturnTypes DEF TypeInv, QueueInv, SetInv
<1>6. CASE /\ local' = [local EXCEPT ![t] = ms] /\ pc' = [pc EXCEPT ![t] = "replay"]
           /\ UNCHANGED <<lock, item, todo>>
  <2>1. ThreadInv'
    BY <1>2, <1>6 DEF TypeInv, ThreadInv, Label, Callback
  <2>2. SetInv'
    BY <1>1, <1>4, <1>6 DEF TypeInv, SetInv, MessagesOf
  <2> QED
    BY <1>1, <1>6, <2>1, <2>2 DEF TypeInv, SubInv, QueueInv, CountInv
<1> QED
  BY <1>3, <1>5, <1>6 DEF OnRequest, Goto

LEMMA ReplayTypes ==
    ASSUME TypeInv, NEW t \in Transports, Replay(t)
    PROVE  TypeInv'
<1>1. PICK m \in local[t] : MemqPublish(item[t].to, asked, "value", m)
  BY DEF Replay
<1>2. m \in Message
  BY <1>1 DEF TypeInv, SetInv, MessagesOf
<1>3. queue' \in [Transports -> Seq(Item)]
  BY <1>1, <1>2, SubsType, PublishQueue DEF TypeInv
<1> QED
  BY <1>3, ReturnTypes DEF Replay, subVars, pubVars, relVars, TypeInv, SetInv

LEMMA OnValueTypes ==
    ASSUME TypeInv, NEW t \in Transports, OnValue(t)
    PROVE  TypeInv'
<1>1. PICK m : m = item[t].msg
  OBVIOUS
<1>2. m \in Message
  <2>1. item[t] \in Item /\ item[t].kind = "value"
    BY DEF OnValue, TypeInv, ThreadInv, Callback
  <2> QED
    BY <1>1, <2>1 DEF Item
<1>3. seen' \in MessagesOf
  BY <1>1, <1>2 DEF OnValue, TypeInv, SetInv, MessagesOf
<1> QED
  BY <1>3, ReturnTypes DEF OnValue, subVars, pubVars, relVars, TypeInv, QueueInv, SetInv

(***************************************************************************)
(* _tick_reliable.                                                         *)
(***************************************************************************)
LEMMA VisitTypes ==
    ASSUME TypeInv, NEW t \in Transports,
           NotDue(t) \/ (\E m \in todo[t] : Due(t, m)) \/ StoreKept(t)
    PROVE  TypeInv'
<1>1. /\ UNCHANGED <<listening, asked, lock, item, local, published, cache, handled, seen>>
      /\ pc' = pc \/ pc' = [pc EXCEPT ![t] = "idle"]
  BY DEF NotDue, Due, GiveUp, Retry, StoreKept, Goto, subVars, pubVars
<1>2. ThreadInv'
  BY <1>1 DEF TypeInv, ThreadInv, Label, Callback
<1>3. CASE StoreKept(t)
  <2>1. SetInv'
    BY <1>1, <1>3 DEF StoreKept, TypeInv, SetInv, MessagesOf
  <2> QED
    BY <1>1, <1>2, <1>3, <2>1 DEF StoreKept, TypeInv, SubInv, QueueInv, CountInv
<1>4. ASSUME NEW m \in todo[t], Visited(t, m),
             UNCHANGED pending, kept' = kept \/ kept' = [kept EXCEPT ![t] = @ \cup {m}],
             gaveUp' \subseteq gaveUp \cup {m}
      PROVE  SetInv'
  <2>1. todo' = [todo EXCEPT ![t] = @ \ {m}] /\ m \in Message
    BY <1>4 DEF Visited, TypeInv, SetInv, MessagesOf
  <2> QED
    BY <1>1, <1>4, <2>1 DEF TypeInv, SetInv, MessagesOf
<1>5. CASE NotDue(t)
  <2>1. SetInv'
    BY <1>4, <1>5 DEF NotDue, relVars
  <2> QED
    BY <1>1, <1>2, <1>5, <2>1 DEF NotDue, relVars, TypeInv, SubInv, QueueInv, CountInv
<1>6. ASSUME NEW m \in todo[t], GiveUp(t, m) PROVE TypeInv'
  <2>1. SetInv'
    BY <1>4, <1>6 DEF GiveUp
  <2> QED
    BY <1>1, <1>2, <1>6, <2>1 DEF GiveUp, TypeInv, SubInv, QueueInv, CountInv
<1>7. ASSUME NEW m \in todo[t], Retry(t, m) PROVE TypeInv'
  <2>1. SetInv' /\ m \in Message
    BY <1>4, <1>7 DEF Retry, TypeInv, SetInv, MessagesOf
  <2>2. queue' \in [Transports -> Seq(Item)]
    BY <1>7, <2>1, SubsType, PublishQueue DEF Retry, TypeInv
  <2>3. CountInv'
    <3>1. attempts[m] < MaxRetries[m] /\ attempts' = [attempts EXCEPT ![m] = @ + 1]
      BY <1>7 DEF Retry
    <3>2. \A o \in Message : attempts[o] \in Nat /\ MaxRetries[o] \in Nat
      BY RetriesAssumption DEF TypeInv, CountInv
    <3> QED
      BY <1>1, <2>1, <3>1, <3>2 DEF TypeInv, CountInv
  <2> QED
    BY <1>1, <1>2, <2>1, <2>2, <2>3 DEF TypeInv, SubInv, QueueInv
<1> QED
  BY <1>3, <1>5, <1>6, <1>7 DEF Due

LEMMA TypeStep == TypeInv /\ [Next]_vars => TypeInv'
<1> SUFFICES ASSUME TypeInv, [Next]_vars PROVE TypeInv'
  OBVIOUS
<1>1. CASE UNCHANGED vars
  BY <1>1 DEF vars, subVars, pubVars, relVars, TypeInv, SubInv, QueueInv, ThreadInv, SetInv, CountInv
<1>2. ASSUME NEW t \in Transports, CallStep(t) PROVE TypeInv'
  BY <1>2, AskTypes, AppendTypes DEF CallStep
<1>3. ASSUME NEW t \in Transports, SpinStep(t) PROVE TypeInv'
  BY <1>3, PopTypes, PopNothingTypes, OnEnvelopeTypes, OnForeignAckTypes, OnAckTypes,
     StoreAckedTypes, OnRequestTypes, ReplayTypes, OnValueTypes, VisitTypes DEF SpinStep
<1> QED
  BY <1>1, <1>2, <1>3, SubscribeTypes, PublishTypes DEF Next

LEMMA TypeInvHolds == Spec => []TypeInv
<1>1. Init => TypeInv
  <2> SUFFICES ASSUME Init PROVE TypeInv
    OBVIOUS
  <2>1. SubInv /\ QueueInv /\ SetInv
    BY DEF Init, SubInv, QueueInv, SetInv, MessagesOf
  <2>2. ThreadInv
    BY DEF Init, ThreadInv, Label, Callback
  <2>3. CountInv
    BY PyAssumption, RetriesAssumption DEF Init, CountInv
  <2> QED
    BY <2>1, <2>2, <2>3 DEF TypeInv
<1> QED
  BY <1>1, TypeStep, PTL DEF Spec

\* Every variable of the Python transport keeps its type: in particular a callback is
\* called with an item of its own kind, and no message is sent more often than its limit.
THEOREM TypeCorrect == Spec => []TypeOK
<1>1. TypeInv => TypeOK
  <2> SUFFICES ASSUME TypeInv PROVE TypeOK
    OBVIOUS
  <2>1. ASSUME NEW t \in Transports, NEW i \in DOMAIN queue[t]
        PROVE  /\ queue[t][i].to \in Transports
               /\ queue[t][i].kind \in {"envelope", "ack", "request", "value"}
               /\ queue[t][i].msg \in Message \cup {<<>>}
    <3>1. queue[t][i] \in Item
      BY <2>1 DEF TypeInv, QueueInv
    <3> QED
      BY <3>1 DEF Item
  <2>2. ASSUME NEW t \in Transports
        PROVE  /\ \A s \in {local[t], cache[t], pending[t], todo[t], kept[t]} : s \subseteq Message
               /\ handled[t] \in Seq(Message) /\ seen[t] \subseteq Message
               /\ lock[t] \in Transports \cup {"free"}
    BY DEF TypeInv, SetInv, MessagesOf, QueueInv
  <2>3. \A p \in Publishers : published[p] \in 0..MaxPublished[p]
    BY PyAssumption DEF TypeInv, CountInv
  <2>4. \A m \in Message : attempts[m] \in 0..MaxRetries[m]
    BY RetriesAssumption DEF TypeInv, CountInv
  <2> QED
    BY <2>1, <2>2, <2>3, <2>4 DEF TypeOK, TypeInv, SubInv, SetInv
<1> QED
  BY <1>1, TypeInvHolds, PTL

(***************************************************************************)
(* No envelope is lost: what EnvelopeSettles rests on.                     *)
(***************************************************************************)
\* The items of t that wait or that its callback was called with.
Held(t) == Range(queue[t]) \cup {item[t]}

WasHandled(m) == \E s \in Transports : m \in Range(handled[s])

OnItsWay(m) == \E x \in Held(m[1]) : x.kind = "envelope" /\ x.msg = m

Out(m) == m \in gaveUp \/ WasHandled(m) \/ OnItsWay(m)

\* Whatever _on_ack and _tick_reliable overwrite, a message that was recorded is still
\* in _pending, or given up, or handled, or in the queue to be handled
\* (transport.py:134-192).
EnvelopeNotLost ==
    \A m \in Message : attempts[m] > 0 => m \in pending[m[1]] \/ Out(m)

\* An envelope waits at its publisher and was sent to somebody; an acknowledgement is
\* of a message that was handled.
Good(t, x) == /\ x.kind = "envelope" => listening # <<>> /\ x.msg[1] = t
              /\ x.kind = "ack" => WasHandled(x.msg)

Busy == Callback \cup {"acked", "replay"}

\* A callback that is not over still has the item it was called with.
Calling(t) == /\ pc[t] = "acked" => item[t].kind = "ack" /\ item[t].to = item[t].msg[1]
              /\ pc[t] = "replay" => item[t].kind = "request"

FlowInv ==
    /\ \A t \in Transports : \A x \in Held(t) : Good(t, x)
    /\ \A m : WasHandled(m) => listening # <<>>
    /\ \A t \in Transports : (pc[t] \notin Busy => item[t] = NoItem) /\ Calling(t)

\* While _tick_reliable runs, the lists it builds its result from lose nothing.
VisitInv(t) ==
    pc[t] = "visit" => \A m \in Message :
        m[1] = t /\ attempts[m] > 0 => m \in todo[t] \cup kept[t] \/ Out(m)

\* Nor does the list _on_ack is about to store, whatever is recorded meanwhile.
AckedInv(t) ==
    pc[t] = "acked" =>
        /\ \A m \in local[t] : attempts[m] > 0 /\ m[1] = item[t].to
        /\ \A m \in Message :
              m[1] = item[t].to /\ attempts[m] > 0 => m \in local[t] \/ Out(m)

\* What is published and not recorded yet is in the queue, or nobody has handled
\* anything of this publisher: then no acknowledgement is on its way.
AppendInv(t) ==
    pc[t] \in {"append", "append and cache"} => \A m \in local[t] :
        m[1] = t /\ (Out(m) \/ \A o \in Message : WasHandled(o) => o[1] # t)

\* A list has messages of its own publisher, that were recorded.
RecordedInv ==
    \A t \in Transports : \A m \in pending[t] \cup todo[t] \cup kept[t] :
        attempts[m] > 0 /\ m[1] = t

SettleInv == /\ EnvelopeNotLost /\ RecordedInv
             /\ \A t \in Transports : VisitInv(t) /\ AckedInv(t) /\ AppendInv(t)

\* A message that is out of danger stays so.
OutStays == \A m \in Message : Out(m) => Out(m)'

\* What a step of any thread has to show of the items and of who handled what.
LEMMA FlowFrame ==
    ASSUME FlowInv, gaveUp \subseteq gaveUp',
           listening # <<>> => listening' # <<>>,
           \A m : WasHandled(m) => WasHandled(m)',
           \A m : WasHandled(m)' => listening' # <<>>,
           \A u \in Transports : \A x \in Range(queue'[u]) : x \in Held(u) \/ Good(u, x)',
           \A u \in Transports : item'[u] \in Held(u) \cup {NoItem},
           \A u \in Transports : \A x \in Held(u) :
               x.kind = "envelope" => x \in Held(u)' \/ WasHandled(x.msg)',
           \A u \in Transports : pc'[u] \notin Busy => item'[u] = NoItem,
           \A u \in Transports : Calling(u)'
    PROVE  FlowInv' /\ OutStays
<1>1. ASSUME NEW u \in Transports, NEW x, x \in Held(u)'
      PROVE  Good(u, x)'
  <2>1. ASSUME Good(u, x) PROVE Good(u, x)'
    BY <2>1 DEF Good
  <2>2. CASE x = NoItem
    BY <2>2 DEF NoItem, Good
  <2> QED
    BY <1>1, <2>1, <2>2 DEF Held, FlowInv
<1>2. ASSUME NEW m \in Message, Out(m) PROVE Out(m)'
  <2>1. m[1] \in Transports
    BY PyAssumption DEF Message
  <2>2. CASE OnItsWay(m)
    <3>1. PICK x \in Held(m[1]) : x.kind = "envelope" /\ x.msg = m
      BY <2>2 DEF OnItsWay
    <3>2. x \in Held(m[1])' \/ WasHandled(m)'
      BY <2>1, <3>1
    <3> QED
      BY <3>1, <3>2 DEF OnItsWay, Out
  <2> QED
    BY <1>2, <2>2 DEF Out
<1>3. \A u \in Transports : \A x \in Held(u)' : Good(u, x)'
  BY <1>1
<1> QED
  BY <1>2, <1>3 DEF FlowInv, OutStays

\* One item for each subscription, behind what waits already.
LEMMA PublishHeld ==
    ASSUME QueueInv, NEW t \in Transports, NEW subs \in Seq(Transports), NEW kind, NEW m,
           \/ kind \in {"envelope", "ack", "value"} /\ m \in Message
           \/ kind = "request" /\ m = <<>>,
           MemqPublish(t, subs, kind, m)
    PROVE  /\ \A u \in Transports : Range(queue[u]) \subseteq Range(queue'[u])
           /\ \A u \in Transports : \A x \in Range(queue'[u]) :
                 \/ x \in Range(queue[u])
                 \/ u = t /\ x.kind = kind /\ x.msg = m /\ subs # <<>>
           /\ subs # <<>> => \E x \in Range(queue'[t]) : x.kind = kind /\ x.msg = m
<1>1. PICK new : new = For(subs, kind, m)
  OBVIOUS
<1>2. PICK q : q = queue[t]
  OBVIOUS
<1>3. /\ new \in Seq(Item) /\ q \in Seq(Item)
      /\ queue' = [queue EXCEPT ![t] = q \o new]
  BY <1>1, <1>2, ForType DEF MemqPublish, QueueInv
<1>4. PICK n \in Nat : n = Len(subs) /\ DOMAIN subs = 1..n
  OBVIOUS
<1>5. /\ Len(new) = n /\ DOMAIN new = 1..n
      /\ \A i \in 1..n : new[i].kind = kind /\ new[i].msg = m
  BY <1>1, <1>4 DEF For
<1>6. PICK k \in Nat : k = Len(q) /\ DOMAIN q = 1..k
  BY <1>3
<1>7. /\ DOMAIN (q \o new) = 1..(k + n)
      /\ \A i \in 1..k : (q \o new)[i] = q[i]
      /\ \A i \in 1..n : (q \o new)[k + i] = new[i]
  <2>1. Len(q \o new) = k + n /\ q \o new \in Seq(Item)
    BY <1>3, <1>5, <1>6, ConcatProperties
  <2>2. \A i \in 1..(k + n) : (q \o new)[i] = IF i <= k THEN q[i] ELSE new[i - k]
    BY <1>3, <1>5, <1>6, ConcatProperties
  <2>3. \A i \in 1..k : i \in 1..(k + n) /\ i <= k
    OBVIOUS
  <2>4. \A i \in 1..n : k + i \in 1..(k + n) /\ ~(k + i <= k) /\ k + i - k = i
    OBVIOUS
  <2> QED
    BY <2>1, <2>2, <2>3, <2>4
<1>8. Range(q) \subseteq Range(q \o new)
  <2>1. 1..k \subseteq 1..(k + n)
    OBVIOUS
  <2> QED
    BY <1>6, <1>7, <2>1 DEF Range
<1>9. ASSUME NEW x \in Range(q \o new)
      PROVE  x \in Range(q) \/ (x.kind = kind /\ x.msg = m /\ subs # <<>>)
  <2>1. PICK i \in 1..(k + n) : x = (q \o new)[i]
    BY <1>7 DEF Range
  <2>2. CASE i <= k
    BY <1>6, <1>7, <2>1, <2>2 DEF Range
  <2>3. CASE i > k
    <3>1. i - k \in 1..n /\ k + (i - k) = i
      BY <2>1, <2>3
    <3>2. x = new[i - k]
      BY <1>7, <2>1, <3>1
    <3>3. subs # <<>>
      BY <1>4, <3>1
    <3> QED
      BY <1>5, <3>1, <3>2, <3>3
  <2> QED
    BY <2>2, <2>3
<1>10. ASSUME subs # <<>> PROVE \E x \in Range(q \o new) : x.kind = kind /\ x.msg = m
  <2>1. n > 0
    BY <1>4, <1>10
  <2>2. 1 \in 1..n /\ k + 1 \in 1..(k + n)
    BY <2>1
  <2>3. (q \o new)[k + 1] = new[1] /\ (q \o new)[k + 1] \in Range(q \o new)
    BY <1>7, <2>2 DEF Range
  <2> QED
    BY <1>5, <2>2, <2>3
<1> HIDE DEF Range
<1>11. /\ queue'[t] = q \o new
       /\ \A u \in Transports : u # t => queue'[u] = queue[u]
  BY <1>3 DEF QueueInv
<1> QED
  BY <1>2, <1>8, <1>9, <1>10, <1>11

LEMMA MessageOwner == \A m \in Message : m[1] \in Transports
  BY PyAssumption DEF Message

\* Nothing leaves a queue, and what comes is in order.
QueueGrows ==
    \A u \in Transports :
        /\ Range(queue[u]) \subseteq Range(queue'[u])
        /\ \A x \in Range(queue'[u]) : x \in Range(queue[u]) \/ Good(u, x)'

LEMMA SendGrows ==
    ASSUME QueueInv, NEW t \in Transports, NEW subs \in Seq(Transports), NEW kind, NEW m,
           \/ kind \in {"envelope", "ack", "value"} /\ m \in Message
           \/ kind = "request" /\ m = <<>>,
           MemqPublish(t, subs, kind, m),
           kind = "envelope" /\ subs # <<>> => listening' # <<>> /\ m[1] = t,
           kind = "ack" => WasHandled(m)'
    PROVE  QueueGrows
<1>1. /\ \A u \in Transports : Range(queue[u]) \subseteq Range(queue'[u])
      /\ \A u \in Transports : \A x \in Range(queue'[u]) :
            \/ x \in Range(queue[u])
            \/ u = t /\ x.kind = kind /\ x.msg = m /\ subs # <<>>
  BY PublishHeld
<1>2. ASSUME NEW x, x.kind = kind, x.msg = m, subs # <<>> PROVE Good(t, x)'
  BY <1>2 DEF Good
<1> QED
  BY <1>1, <1>2 DEF QueueGrows

\* A step of t that ends no callback and starts none.
LEMMA StayFlow ==
    ASSUME TypeInv, FlowInv, NEW t \in Transports, UNCHANGED <<item, handled>>,
           gaveUp \subseteq gaveUp', listening # <<>> => listening' # <<>>, QueueGrows,
           \A u \in Transports : u # t => pc'[u] = pc[u],
           pc'[t] \notin Busy => pc[t] \notin Busy,
           pc'[t] = "acked" => pc[t] = "ack" /\ item[t].to = item[t].msg[1],
           pc'[t] = "replay" => pc[t] = "request"
    PROVE  FlowInv' /\ OutStays
<1>1. \A m : WasHandled(m)' <=> WasHandled(m)
  BY DEF WasHandled
<1>2. /\ \A u \in Transports : \A x \in Range(queue'[u]) : x \in Held(u) \/ Good(u, x)'
      /\ \A u \in Transports : item'[u] \in Held(u)
      /\ \A u \in Transports : \A x \in Held(u) : x \in Held(u)'
  BY DEF QueueGrows, Held
<1>3. \A u \in Transports : pc'[u] \notin Busy => item'[u] = NoItem
  BY DEF FlowInv
<1>4. ASSUME NEW u \in Transports PROVE Calling(u)'
  <2>1. CASE u = t
    BY <1>4, <2>1 DEF TypeInv, ThreadInv, Callback, Calling
  <2>2. CASE u # t
    BY <1>4, <2>2 DEF FlowInv, Calling
  <2> QED
    BY <2>1, <2>2
<1>5. \A m : WasHandled(m)' => listening' # <<>>
  BY <1>1 DEF FlowInv
<1> QED
  BY <1>1, <1>2, <1>3, <1>4, <1>5, FlowFrame

LEMMA SameQueue == queue' = queue => QueueGrows
  BY DEF QueueGrows

\* A callback that returns.
LEMMA ReturnFlow ==
    ASSUME TypeInv, FlowInv, NEW t \in Transports, Return(t), UNCHANGED <<listening, gaveUp>>,
           QueueGrows,
           \A m : WasHandled(m) => WasHandled(m)',
           \A m : WasHandled(m)' => listening # <<>>,
           \A m : item[t].kind = "envelope" /\ m = item[t].msg => WasHandled(m)'
    PROVE  FlowInv' /\ OutStays
<1>1. /\ item' = [item EXCEPT ![t] = NoItem]
      /\ \E l \in {"idle", "visit"} : pc' = [pc EXCEPT ![t] = l]
  BY DEF Return, Tick, Goto
<1>2. /\ item'[t] = NoItem /\ \A u \in Transports : u # t => item'[u] = item[u]
      /\ pc'[t] \in {"idle", "visit"} /\ \A u \in Transports : u # t => pc'[u] = pc[u]
  BY <1>1 DEF TypeInv, ThreadInv
<1>3. \A u \in Transports : \A x \in Range(queue'[u]) : x \in Held(u) \/ Good(u, x)'
  BY DEF QueueGrows, Held
<1>4. \A u \in Transports : item'[u] \in Held(u) \cup {NoItem}
  BY <1>2 DEF Held
<1>5. ASSUME NEW u \in Transports, NEW x \in Held(u), x.kind = "envelope"
      PROVE  x \in Held(u)' \/ WasHandled(x.msg)'
  <2>1. CASE x \in Range(queue[u])
    BY <2>1 DEF QueueGrows, Held
  <2>2. CASE x = item[u] /\ u # t
    BY <1>2, <2>2 DEF Held
  <2>3. CASE x = item[u] /\ u = t
    BY <1>5, <2>3
  <2> QED
    BY <2>1, <2>2, <2>3 DEF Held
<1>6. \A u \in Transports : pc'[u] \notin Busy => item'[u] = NoItem
  BY <1>2 DEF FlowInv
<1>7. \A u \in Transports : Calling(u)'
  BY <1>2 DEF FlowInv, Calling
<1> QED
  BY <1>3, <1>4, <1>5, <1>6, <1>7, FlowFrame

LEMMA PopFlow ==
    ASSUME TypeInv, FlowInv, NEW t \in Transports, Pop(t)
    PROVE  FlowInv' /\ OutStays
<1>1. PICK q : q = queue[t]
  OBVIOUS
<1>2. PICK x : x = Head(q)
  OBVIOUS
<1>3. q \in Seq(Item) /\ q # <<>>
  BY <1>1 DEF Pop, TypeInv, QueueInv
<1>4. /\ UNCHANGED <<listening, gaveUp, handled>> /\ pc[t] = "idle"
      /\ item' = [item EXCEPT ![t] = x]
      /\ queue' = [queue EXCEPT ![t] = Tail(q)] /\ pc' = [pc EXCEPT ![t] = x.kind]
  BY <1>1, <1>2 DEF Pop, Goto, subVars, relVars
<1>5. /\ x \in Range(q) /\ Range(Tail(q)) \subseteq Range(q)
      /\ Range(q) \subseteq Range(Tail(q)) \cup {x}
  <2>1. PICK n \in Nat : n = Len(q) /\ n > 0 /\ DOMAIN q = 1..n
    BY <1>3
  <2>2. /\ x = q[1] /\ DOMAIN Tail(q) = 1..(n - 1)
        /\ \A i \in 1..(n - 1) : Tail(q)[i] = q[i + 1]
    BY <1>2, <1>3, <2>1
  <2>3. x \in Range(q)
    BY <2>1, <2>2 DEF Range
  <2>4. ASSUME NEW y \in Range(Tail(q)) PROVE y \in Range(q)
    <3>1. PICK i \in 1..(n - 1) : y = q[i + 1]
      BY <2>2 DEF Range
    <3>2. i + 1 \in 1..n
      BY <2>1
    <3> QED
      BY <2>1, <3>1, <3>2 DEF Range
  <2>5. ASSUME NEW y \in Range(q), y # x PROVE y \in Range(Tail(q))
    <3>1. PICK i \in 1..n : y = q[i]
      BY <2>1 DEF Range
    <3>2. i # 1
      BY <2>2, <2>5, <3>1
    <3>3. i - 1 \in 1..(n - 1) /\ (i - 1) + 1 = i
      BY <2>1, <3>2
    <3>4. Tail(q)[i - 1] = y
      BY <2>2, <3>1, <3>3
    <3> QED
      BY <2>2, <3>3, <3>4 DEF Range
  <2> QED
    BY <2>3, <2>4, <2>5
<1>6. x.kind \in Callback
  <2>1. x \in Item
    BY <1>2, <1>3
  <2> QED
    BY <2>1 DEF Item, Callback
<1>7. item[t] = NoItem
  BY <1>4 DEF FlowInv, Busy, Callback
<1>8. /\ item'[t] = x /\ queue'[t] = Tail(q) /\ pc'[t] = x.kind
      /\ \A u \in Transports : u # t =>
            item'[u] = item[u] /\ queue'[u] = queue[u] /\ pc'[u] = pc[u]
  BY <1>4 DEF TypeInv, QueueInv, ThreadInv
<1>9. \A m : WasHandled(m)' <=> WasHandled(m)
  BY <1>4 DEF WasHandled
<1>10. ASSUME NEW u \in Transports
       PROVE  /\ \A y \in Range(queue'[u]) : y \in Held(u)
              /\ item'[u] \in Held(u)
              /\ \A y \in Held(u) : y \in Held(u)' \/ y = NoItem
  <2>1. CASE u = t
    BY <1>1, <1>5, <1>7, <1>8, <2>1 DEF Held
  <2>2. CASE u # t
    BY <1>8, <2>2 DEF Held
  <2> QED
    BY <2>1, <2>2
<1>11. \A u \in Transports : \A y \in Held(u) :
           y.kind = "envelope" => y \in Held(u)' \/ WasHandled(y.msg)'
  BY <1>10 DEF NoItem
<1>12. \A u \in Transports : pc'[u] \notin Busy => item'[u] = NoItem
  BY <1>6, <1>8 DEF FlowInv, Busy
<1>13. \A u \in Transports : Calling(u)'
  BY <1>6, <1>8 DEF FlowInv, Callback, Calling
<1>14. \A m : WasHandled(m)' => listening' # <<>>
  BY <1>4, <1>9 DEF FlowInv
<1> QED
  BY <1>4, <1>9, <1>10, <1>11, <1>12, <1>13, <1>14, FlowFrame

LEMMA RememberedHandled ==
    ASSUME NEW S, NEW s \in Transports, handled[s] \in Seq(S)
    PROVE  Remembered(s) \subseteq Range(handled[s])
<1> DEFINE h == handled[s]
           n == Len(h)
           a == 1 + Max({0, n - DedupCapacity})
<1>1. n \in Nat /\ DedupCapacity \in Nat \ {0} /\ DOMAIN h = 1..n
  BY PyAssumption
<1>2. a \in Nat \ {0} /\ a <= n + 1
  <2>1. Max({0, n - DedupCapacity}) = IF 0 >= n - DedupCapacity THEN 0 ELSE n - DedupCapacity
    BY <1>1, MaxOfTwo
  <2> QED
    BY <1>1, <2>1
<1> HIDE DEF a
<1>3. /\ DOMAIN SubSeq(h, a, n) = 1..(n - a + 1)
      /\ \A k \in 1..(n - a + 1) : SubSeq(h, a, n)[k] = h[a + k - 1]
  <2>1. CASE a <= n
    <3>1. a \in 1..(n + 1) /\ n \in (a - 1)..n
      BY <1>1, <1>2
    <3>2. /\ SubSeq(h, a, n) \in Seq(S) /\ Len(SubSeq(h, a, n)) = n - a + 1
          /\ \A k \in 1..(n - a + 1) : SubSeq(h, a, n)[k] = h[a + k - 1]
      BY <1>1, <3>1, SubSeqProperties
    <3> QED
      BY <3>2
  <2>2. CASE a = n + 1
    <3>1. SubSeq(h, a, n) = <<>> /\ 1..(n - a + 1) = {}
      BY <1>1, <2>2
    <3> QED
      BY <3>1
  <2> QED
    BY <1>1, <1>2, <2>1, <2>2
<1>4. ASSUME NEW m \in Range(SubSeq(h, a, n)) PROVE m \in Range(h)
  <2>1. PICK k \in 1..(n - a + 1) : m = h[a + k - 1]
    BY <1>3, <1>4 DEF Range
  <2>2. a + k - 1 \in 1..n
    BY <1>1, <1>2, <2>1
  <2> QED
    BY <1>1, <2>1, <2>2 DEF Range
<1> QED
  BY <1>4 DEF Remembered, a

\* After _on_envelope the message was handled, and nothing else is new.
LEMMA OnEnvelopeHandles ==
    ASSUME TypeInv, NEW t \in Transports, OnEnvelope(t)
    PROVE  \A o : WasHandled(o)' <=> WasHandled(o) \/ o = item[t].msg
<1>1. PICK s : s = item[t].to
  OBVIOUS
<1>2. PICK m : m = item[t].msg
  OBVIOUS
<1>3. s \in Transports /\ m \in Message
  <2>1. item[t] \in Item /\ item[t].kind = "envelope"
    BY DEF OnEnvelope, TypeInv, ThreadInv, Callback
  <2> QED
    BY <1>1, <1>2, <2>1 DEF Item
<1>4. /\ handled \in [Transports -> Seq(Message)]
      /\ handled' = IF m \in Remembered(s) THEN handled ELSE [handled EXCEPT ![s] = Append(@, m)]
  BY <1>1, <1>2 DEF OnEnvelope, TypeInv, SetInv
<1>5. CASE m \in Remembered(s)
  <2>1. m \in Range(handled[s])
    <3>1. handled[s] \in Seq(Message)
      BY <1>3, <1>4
    <3> QED
      BY <1>3, <1>5, <3>1, RememberedHandled
  <2>2. WasHandled(m) /\ handled' = handled
    BY <1>3, <1>4, <1>5, <2>1 DEF WasHandled
  <2> QED
    BY <1>2, <2>2 DEF WasHandled
<1>6. CASE m \notin Remembered(s)
  <2>1. PICK h : h = handled[s]
    OBVIOUS
  <2>2. h \in Seq(Message) /\ handled' = [handled EXCEPT ![s] = Append(h, m)]
    BY <1>3, <1>4, <1>6, <2>1
  <2>3. Range(Append(h, m)) = Range(h) \cup {m}
    <3>1. PICK n \in Nat : n = Len(h) /\ DOMAIN h = 1..n
      BY <2>2
    <3>2. /\ DOMAIN Append(h, m) = 1..(n + 1)
          /\ Append(h, m)[n + 1] = m
          /\ \A i \in 1..n : Append(h, m)[i] = h[i]
      BY <1>3, <2>2, <3>1
    <3>3. /\ \A i \in 1..(n + 1) : i \in 1..n \/ i = n + 1
          /\ \A i \in 1..n : i \in 1..(n + 1)
          /\ n + 1 \in 1..(n + 1)
      OBVIOUS
    <3> QED
      BY <3>1, <3>2, <3>3 DEF Range
  <2>4. /\ Range(handled'[s]) = Range(handled[s]) \cup {m}
        /\ \A u \in Transports : u # s => handled'[u] = handled[u]
    BY <1>3, <1>4, <2>1, <2>2, <2>3
  <2> QED
    BY <1>2, <1>3, <2>4 DEF WasHandled
<1> QED
  BY <1>5, <1>6

(***************************************************************************)
(* The items after each action.                                            *)
(***************************************************************************)
LEMMA CallFlow ==
    ASSUME TypeInv, FlowInv, NEW t \in Transports,
           SubscribeReliable(t) \/ SubscribeRetained(t) \/ CallStep(t)
    PROVE  FlowInv' /\ OutStays
<1>1. /\ UNCHANGED <<item, handled, gaveUp>>
      /\ listening' = listening \/ listening' = Append(listening, t)
      /\ pc[t] \in {"idle", "ask", "append", "append and cache", "cache"}
      /\ \E l \in {"idle", "ask", "cache"} : pc' = [pc EXCEPT ![t] = l]
  <2>1. pc = [pc EXCEPT ![t] = pc[t]]
    BY DEF TypeInv, ThreadInv
  <2> QED
    BY <2>1 DEF SubscribeReliable, SubscribeRetained, CallStep, Ask, AppendPending, Cache, Goto,
       subVars, relVars
<1>2. /\ pc[t] \notin Busy /\ pc'[t] \notin Busy
      /\ \A u \in Transports : u # t => pc'[u] = pc[u]
  BY <1>1 DEF TypeInv, ThreadInv, Busy, Callback
<1>3. listening # <<>> => listening' # <<>>
  <2>1. listening \in Seq(Transports)
    BY SubsType DEF TypeInv
  <2>2. Append(listening, t) # <<>>
    <3>1. Len(Append(listening, t)) = Len(listening) + 1 /\ Len(listening) \in Nat
      BY <2>1
    <3>2. Len(<<>>) = 0
      OBVIOUS
    <3> QED
      BY <3>1, <3>2
  <2> QED
    BY <1>1, <2>2
<1>4. QueueGrows
  <2>1. CASE Ask(t)
    <3>1. MemqPublish(t, Everyone, "request", <<>>)
      BY <2>1 DEF Ask
    <3> QED
      BY <3>1, EveryoneType, SendGrows DEF TypeInv
  <2>2. CASE ~Ask(t)
    BY <2>2, SameQueue DEF SubscribeReliable, SubscribeRetained, CallStep, AppendPending, Cache
  <2> QED
    BY <2>1, <2>2
<1> QED
  BY <1>1, <1>2, <1>3, <1>4, StayFlow DEF Busy

LEMMA PublishFlow ==
    ASSUME TypeInv, FlowInv, NEW t \in Publishers, NEW options, Publish(t, options)
    PROVE  FlowInv' /\ OutStays
<1>1. PICK m : m = <<t, published[t] + 1>>
  OBVIOUS
<1>2. /\ UNCHANGED <<listening, item, handled, gaveUp>>
      /\ pc[t] = "idle" /\ published[t] < MaxPublished[t]
      /\ \/ MemqPublish(t, listening, "envelope", m) \/ MemqPublish(t, asked, "value", m)
      /\ \E l \in {"idle", "append", "cache", "append and cache"} : pc' = [pc EXCEPT ![t] = l]
  BY <1>1 DEF Publish, Goto, subVars, relVars
<1>3. m \in Message /\ t \in Transports /\ m[1] = t
  <2>1. published[t] + 1 \in 1..MaxPublished[t]
    <3>1. published[t] \in Nat /\ MaxPublished[t] \in Nat
      BY PyAssumption DEF TypeInv, CountInv
    <3>2. published[t] < MaxPublished[t]
      BY <1>2
    <3> QED
      BY <3>1, <3>2
  <2>2. m \in {t} \X (1..MaxPublished[t])
    BY <1>1, <2>1
  <2> QED
    BY <1>1, <2>2, PyAssumption DEF Message
<1>4. QueueGrows
  BY <1>2, <1>3, SubsType, SendGrows DEF TypeInv
<1>5. /\ pc[t] \notin Busy /\ pc'[t] \notin Busy
      /\ \A u \in Transports : u # t => pc'[u] = pc[u]
  BY <1>2, <1>3 DEF TypeInv, ThreadInv, Busy, Callback
<1> QED
  BY <1>2, <1>3, <1>4, <1>5, StayFlow DEF Busy

LEMMA VisitFlow ==
    ASSUME TypeInv, FlowInv, RecordedInv, NEW t \in Transports,
           \/ PopNothing(t) \/ NotDue(t) \/ (\E m \in todo[t] : Due(t, m)) \/ StoreKept(t)
    PROVE  FlowInv' /\ OutStays
<1>1. /\ UNCHANGED <<listening, item, handled>> /\ gaveUp \subseteq gaveUp'
      /\ pc[t] \in {"idle", "visit"}
      /\ \E l \in {"idle", "visit"} : pc' = [pc EXCEPT ![t] = l]
  <2>1. pc = [pc EXCEPT ![t] = pc[t]]
    BY DEF TypeInv, ThreadInv
  <2> QED
    BY <2>1 DEF PopNothing, Tick, NotDue, Due, GiveUp, Retry, Visited, StoreKept, Goto, subVars,
       relVars
<1>2. /\ pc[t] \notin Busy /\ pc'[t] \notin Busy
      /\ \A u \in Transports : u # t => pc'[u] = pc[u]
  BY <1>1 DEF TypeInv, ThreadInv, Busy, Callback
<1>3. QueueGrows
  <2>1. ASSUME NEW m \in todo[t], Retry(t, m) PROVE QueueGrows
    <3>1. m \in Message /\ MemqPublish(t, listening, "envelope", m)
      BY <2>1 DEF Retry, TypeInv, SetInv, MessagesOf
    <3>2. m[1] = t
      BY <2>1 DEF RecordedInv
    <3> QED
      BY <1>1, <3>1, <3>2, SubsType, SendGrows DEF TypeInv
  <2>2. CASE \A m \in todo[t] : ~Retry(t, m)
    BY <2>2, SameQueue DEF PopNothing, NotDue, Due, GiveUp, StoreKept
  <2> QED
    BY <2>1, <2>2
<1> QED
  BY <1>1, <1>2, <1>3, StayFlow DEF Busy

LEMMA CallbackFlow ==
    ASSUME TypeInv, FlowInv, NEW t \in Transports,
           OnForeignAck(t) \/ StoreAcked(t) \/ OnValue(t) \/ Replay(t)
    PROVE  FlowInv' /\ OutStays
<1>1. Return(t) /\ UNCHANGED <<listening, gaveUp, handled>>
  BY DEF OnForeignAck, StoreAcked, OnValue, Replay, subVars, relVars
<1>2. QueueGrows
  <2>1. CASE Replay(t)
    <3>1. PICK m \in local[t] : MemqPublish(item[t].to, asked, "value", m)
      BY <2>1 DEF Replay
    <3>2. m \in Message /\ item[t].to \in Transports
      BY <2>1, <3>1 DEF Replay, TypeInv, SetInv, MessagesOf, ThreadInv, Item
    <3> QED
      BY <3>1, <3>2, SubsType, SendGrows DEF TypeInv
  <2>2. CASE ~Replay(t)
    BY <2>2, SameQueue DEF OnForeignAck, StoreAcked, OnValue
  <2> QED
    BY <2>1, <2>2
<1>3. \A m : WasHandled(m)' <=> WasHandled(m)
  BY <1>1 DEF WasHandled
<1>4. item[t].kind # "envelope"
  <2>1. item[t].kind \in {"ack", "value"} \/ Replay(t)
    BY DEF OnForeignAck, StoreAcked, OnValue, TypeInv, ThreadInv, Callback, FlowInv, Calling
  <2>2. Replay(t) => item[t].kind = "request"
    BY DEF Replay, FlowInv, Calling
  <2> QED
    BY <2>1, <2>2
<1> QED
  BY <1>1, <1>2, <1>3, <1>4, ReturnFlow DEF FlowInv

LEMMA OnAckFlow ==
    ASSUME TypeInv, FlowInv, NEW t \in Transports, OnAck(t)
    PROVE  FlowInv' /\ OutStays
<1>1. /\ UNCHANGED <<listening, item, queue, handled, gaveUp>>
      /\ pc[t] = "ack" /\ item[t].to = item[t].msg[1]
      /\ pc' = [pc EXCEPT ![t] = "acked"]
  BY DEF OnAck, Goto, subVars, relVars
<1>2. pc'[t] = "acked" /\ \A u \in Transports : u # t => pc'[u] = pc[u]
  BY <1>1 DEF TypeInv, ThreadInv
<1> QED
  BY <1>1, <1>2, SameQueue, StayFlow DEF Busy

LEMMA OnRequestFlow ==
    ASSUME TypeInv, FlowInv, NEW t \in Transports, OnRequest(t)
    PROVE  FlowInv' /\ OutStays
<1>1. UNCHANGED <<listening, queue, handled, gaveUp>> /\ pc[t] = "request"
  BY DEF OnRequest, subVars, relVars
<1>2. CASE Return(t)
  <2>1. \A m : WasHandled(m)' <=> WasHandled(m)
    BY <1>1 DEF WasHandled
  <2>2. item[t].kind # "envelope"
    BY <1>1 DEF TypeInv, ThreadInv, Callback
  <2> QED
    BY <1>1, <1>2, <2>1, <2>2, SameQueue, ReturnFlow DEF FlowInv
<1>3. CASE UNCHANGED item /\ pc' = [pc EXCEPT ![t] = "replay"]
  <2>1. pc'[t] = "replay" /\ \A u \in Transports : u # t => pc'[u] = pc[u]
    BY <1>3 DEF TypeInv, ThreadInv
  <2> QED
    BY <1>1, <1>3, <2>1, SameQueue, StayFlow DEF Busy
<1> QED
  BY <1>2, <1>3 DEF OnRequest, Goto

LEMMA OnEnvelopeFlow ==
    ASSUME TypeInv, FlowInv, NEW t \in Transports, OnEnvelope(t)
    PROVE  FlowInv' /\ OutStays
<1>1. PICK s : s = item[t].to
  OBVIOUS
<1>2. PICK m : m = item[t].msg
  OBVIOUS
<1>3. s \in Transports /\ m \in Message /\ item[t].kind = "envelope"
  <2>1. item[t] \in Item /\ item[t].kind = "envelope"
    BY DEF OnEnvelope, TypeInv, ThreadInv, Callback
  <2> QED
    BY <1>1, <1>2, <2>1 DEF Item
<1>4. UNCHANGED <<listening, gaveUp>> /\ Return(t) /\ MemqPublish(s, Everyone, "ack", m)
  BY <1>1, <1>2 DEF OnEnvelope, subVars, relVars
<1>5. \A o : WasHandled(o)' <=> WasHandled(o) \/ o = m
  BY <1>2, OnEnvelopeHandles
<1>6. QueueGrows
  BY <1>3, <1>4, <1>5, EveryoneType, SendGrows DEF TypeInv
<1>7. listening # <<>>
  BY <1>3 DEF FlowInv, Good, Held
<1> QED
  BY <1>2, <1>4, <1>5, <1>6, <1>7, ReturnFlow DEF FlowInv

LEMMA FlowStep ==
    ASSUME TypeInv, FlowInv, RecordedInv, [Next]_vars
    PROVE  FlowInv' /\ OutStays
<1>1. CASE UNCHANGED vars
  <2>1. UNCHANGED <<listening, queue, item, pc, handled, gaveUp>>
    BY <1>1 DEF vars, subVars, relVars
  <2>2. \A m : WasHandled(m)' <=> WasHandled(m)
    BY <2>1 DEF WasHandled
  <2>3. \A u \in Transports : Held(u)' = Held(u)
    BY <2>1 DEF Held
  <2>4. ASSUME NEW m \in Message, OnItsWay(m) PROVE OnItsWay(m)'
    BY <2>3, <2>4, MessageOwner DEF OnItsWay
  <2> QED
    BY <2>1, <2>2, <2>3, <2>4 DEF FlowInv, OutStays, Out, Good, Calling
<1>2. ASSUME NEW t \in Transports, SpinStep(t) PROVE FlowInv' /\ OutStays
  BY <1>2, PopFlow, VisitFlow, CallbackFlow, OnAckFlow, OnRequestFlow, OnEnvelopeFlow
     DEF SpinStep
<1> QED
  BY <1>1, <1>2, CallFlow, PublishFlow DEF Next

(***************************************************************************)
(* The lists after each action.                                            *)
(***************************************************************************)
\* A step of t leaves the threads of the others where they are.
OwnStep(t) ==
    \A u \in Transports : u # t =>
        /\ pc'[u] = pc[u] /\ item'[u] = item[u] /\ local'[u] = local[u]
        /\ todo'[u] = todo[u] /\ kept'[u] = kept[u]

\* Whoever has read the list of t has read it before t records another message.
NoReader(t) == \A u \in Transports : pc[u] = "acked" => item[u].to # t

\* What the others rely on holds on, if t records only messages of its own, and those
\* are out already unless nobody has read t's list.
LEMMA OthersKeep ==
    ASSUME TypeInv, FlowInv, SettleInv, OutStays, NEW t \in Transports, OwnStep(t),
           \A m \in Message : attempts[m] > 0 => attempts'[m] > 0,
           \A m \in Message : attempts'[m] > 0 =>
               attempts[m] > 0 \/ (m[1] = t /\ (Out(m)' \/ NoReader(t))),
           \A m \in Message : WasHandled(m)' => WasHandled(m) \/ m[1] = t
    PROVE  \A u \in Transports : u # t => VisitInv(u)' /\ AckedInv(u)' /\ AppendInv(u)'
<1> SUFFICES ASSUME NEW u \in Transports, u # t
             PROVE  VisitInv(u)' /\ AckedInv(u)' /\ AppendInv(u)'
  OBVIOUS
<1>1. /\ pc'[u] = pc[u] /\ item'[u] = item[u] /\ local'[u] = local[u]
      /\ todo'[u] = todo[u] /\ kept'[u] = kept[u]
  BY DEF OwnStep
<1>2. \A m \in Message : Out(m) => Out(m)'
  BY DEF OutStays
<1>3. VisitInv(u)'
  <2> SUFFICES ASSUME pc[u] = "visit", NEW m \in Message, m[1] = u, attempts'[m] > 0
               PROVE  m \in todo[u] \cup kept[u] \/ Out(m)'
    BY <1>1 DEF VisitInv
  <2>1. attempts[m] > 0
    OBVIOUS
  <2> QED
    BY <1>2, <2>1 DEF SettleInv, VisitInv
<1>4. AckedInv(u)'
  <2> SUFFICES ASSUME pc[u] = "acked"
               PROVE  /\ \A m \in local[u] : attempts'[m] > 0 /\ m[1] = item[u].to
                      /\ \A m \in Message : m[1] = item[u].to /\ attempts'[m] > 0 =>
                             m \in local[u] \/ Out(m)'
    BY <1>1 DEF AckedInv
  <2>1. ASSUME NEW m \in local[u] PROVE attempts'[m] > 0 /\ m[1] = item[u].to
    <3>1. m \in Message
      BY DEF TypeInv, SetInv, MessagesOf
    <3> QED
      BY <3>1 DEF SettleInv, AckedInv
  <2>2. ASSUME NEW m \in Message, m[1] = item[u].to, attempts'[m] > 0
        PROVE  m \in local[u] \/ Out(m)'
    <3>1. CASE attempts[m] > 0
      BY <1>2, <2>2, <3>1 DEF SettleInv, AckedInv
    <3>2. CASE m[1] = t /\ (Out(m)' \/ NoReader(t))
      BY <2>2, <3>2 DEF NoReader
    <3> QED
      BY <2>2, <3>1, <3>2
  <2> QED
    BY <2>1, <2>2
<1>5. AppendInv(u)'
  <2> SUFFICES ASSUME pc[u] \in {"append", "append and cache"}, NEW m \in local[u]
               PROVE  m[1] = u /\ (Out(m)' \/ \A o \in Message : WasHandled(o)' => o[1] # u)
    BY <1>1 DEF AppendInv
  <2>1. m[1] = u /\ (Out(m) \/ \A o \in Message : WasHandled(o) => o[1] # u)
    BY DEF SettleInv, AppendInv
  <2>2. m \in Message
    BY DEF TypeInv, SetInv, MessagesOf
  <2> QED
    BY <1>2, <2>1, <2>2
<1> QED
  BY <1>3, <1>4, <1>5

\* A step that leaves the lists of pending messages alone.
LEMMA QuietSettle ==
    ASSUME TypeInv, FlowInv, SettleInv, OutStays, NEW t \in Transports, OwnStep(t),
           UNCHANGED <<pending, todo, kept, attempts, handled>>,
           pc'[t] \notin {"visit", "acked"}, AppendInv(t)'
    PROVE  SettleInv'
<1>1. \A m : WasHandled(m)' => WasHandled(m)
  BY DEF WasHandled
<1>2. \A u \in Transports : u # t => VisitInv(u)' /\ AckedInv(u)' /\ AppendInv(u)'
  BY <1>1, OthersKeep
<1>3. VisitInv(t)' /\ AckedInv(t)'
  BY DEF VisitInv, AckedInv
<1>4. EnvelopeNotLost' /\ RecordedInv'
  BY DEF SettleInv, EnvelopeNotLost, RecordedInv, OutStays
<1> QED
  BY <1>2, <1>3, <1>4 DEF SettleInv

\* A step that starts _tick_reliable, from the list as it is then.
LEMMA TickSettle ==
    ASSUME TypeInv, FlowInv, SettleInv, OutStays, NEW t \in Transports, OwnStep(t), Tick(t),
           UNCHANGED <<kept, attempts>>, EnvelopeNotLost', pending' \in MessagesOf,
           \A u \in Transports : \A m \in pending'[u] : attempts[m] > 0 /\ m[1] = u,
           \A m \in Message : WasHandled(m)' => WasHandled(m) \/ m[1] = t
    PROVE  SettleInv'
<1>1. \A u \in Transports : u # t => VisitInv(u)' /\ AckedInv(u)' /\ AppendInv(u)'
  BY OthersKeep
<1>2. PICK ms : ms = pending'[t]
  OBVIOUS
<1>3. todo' = [todo EXCEPT ![t] = ms] /\ \E l \in {"idle", "visit"} : pc' = [pc EXCEPT ![t] = l]
  BY <1>2 DEF Tick, Goto
<1>4. todo'[t] = pending'[t] /\ pc'[t] \in {"idle", "visit"}
  BY <1>2, <1>3 DEF TypeInv, SetInv, MessagesOf, ThreadInv
<1>5. VisitInv(t)' /\ AckedInv(t)' /\ AppendInv(t)'
  BY <1>4 DEF VisitInv, AckedInv, AppendInv, EnvelopeNotLost
<1>6. RecordedInv'
  <2> SUFFICES ASSUME NEW u \in Transports, NEW m \in pending'[u] \cup todo'[u] \cup kept'[u]
               PROVE  attempts'[m] > 0 /\ m[1] = u
    BY DEF RecordedInv
  <2>1. CASE m \in pending'[u]
    BY <2>1
  <2>2. CASE m \in todo'[u]
    BY <1>4, <2>1, <2>2 DEF OwnStep, SettleInv, RecordedInv
  <2>3. CASE m \in kept'[u]
    BY <2>3 DEF SettleInv, RecordedInv
  <2> QED
    BY <2>1, <2>2, <2>3
<1> QED
  BY <1>1, <1>5, <1>6 DEF SettleInv

LEMMA QuietCallSettle ==
    ASSUME TypeInv, FlowInv, SettleInv, OutStays, NEW t \in Transports,
           SubscribeReliable(t) \/ SubscribeRetained(t) \/ Ask(t) \/ Cache(t) \/ Pop(t)
    PROVE  SettleInv'
<1>1. /\ UNCHANGED <<pending, todo, kept, attempts, handled>>
      /\ local' = local \/ local' = [local EXCEPT ![t] = {}]
  BY DEF SubscribeReliable, SubscribeRetained, Ask, Cache, Pop, pubVars, relVars
<1>2. \E l \in {"idle", "ask"} \cup Callback : pc' = [pc EXCEPT ![t] = l]
  <2>1. CASE Pop(t)
    <3>1. PICK q : q = queue[t]
      OBVIOUS
    <3>2. Head(q) \in Item /\ pc' = [pc EXCEPT ![t] = Head(q).kind]
      BY <2>1, <3>1 DEF Pop, Goto, TypeInv, QueueInv
    <3> QED
      BY <3>2 DEF Item, Callback
  <2>2. CASE ~Pop(t)
    <3>1. SubscribeReliable(t) => pc' = [pc EXCEPT ![t] = "idle"]
      BY DEF SubscribeReliable, TypeInv, ThreadInv
    <3> QED
      BY <2>2, <3>1 DEF SubscribeRetained, Ask, Cache, Goto
  <2> QED
    BY <2>1, <2>2
<1>3. /\ pc'[t] \notin {"visit", "acked", "append", "append and cache"}
      /\ \A u \in Transports : u # t => pc'[u] = pc[u]
  BY <1>2 DEF TypeInv, ThreadInv, Callback
<1>4. \A u \in Transports : u # t => item'[u] = item[u]
  <2>1. item' = item \/ \E x : item' = [item EXCEPT ![t] = x]
    BY DEF SubscribeReliable, SubscribeRetained, Ask, Cache, Pop
  <2> QED
    BY <2>1 DEF TypeInv, ThreadInv
<1>5. OwnStep(t)
  BY <1>1, <1>3, <1>4 DEF OwnStep, TypeInv, SetInv, MessagesOf
<1> QED
  BY <1>1, <1>3, <1>5, QuietSettle DEF AppendInv

LEMMA EnvelopeHeld ==
    ASSUME QueueInv, NEW t \in Transports, NEW m \in Message, listening \in Seq(Transports),
           MemqPublish(t, listening, "envelope", m), listening # <<>>
    PROVE  \E x \in Range(queue'[t]) : x.kind = "envelope" /\ x.msg = m
<1>1. PICK subs : subs = listening
  OBVIOUS
<1>2. PICK kind : kind = "envelope"
  OBVIOUS
<1>3. MemqPublish(t, subs, kind, m) /\ subs \in Seq(Transports) /\ subs # <<>>
  BY <1>1, <1>2
<1>4. subs # <<>> => \E x \in Range(queue'[t]) : x.kind = kind /\ x.msg = m
  BY <1>2, <1>3, PublishHeld
<1> QED
  BY <1>2, <1>3, <1>4

\* An envelope goes out before it is recorded: to nobody only if nobody subscribed yet.
LEMMA PublishSettle ==
    ASSUME TypeInv, FlowInv, SettleInv, OutStays, NEW t \in Publishers,
           NEW options \in Options[t], Publish(t, options)
    PROVE  SettleInv'
<1>1. PICK m : m = <<t, published[t] + 1>>
  OBVIOUS
<1>2. /\ UNCHANGED <<listening, item, pending, todo, kept, attempts, handled>>
      /\ published[t] < MaxPublished[t]
      /\ "reliable" \in options => MemqPublish(t, listening, "envelope", m)
      /\ options # {} => local' = [local EXCEPT ![t] = {m}]
      /\ local' = local \/ local' = [local EXCEPT ![t] = {m}]
  BY <1>1 DEF Publish, subVars, relVars
<1>3. PICK l : /\ pc' = [pc EXCEPT ![t] = l]
               /\ l \in {"idle", "append", "cache", "append and cache"}
               /\ l \in {"append", "append and cache"} => "reliable" \in options /\ options # {}
  <2>1. PICK l : l = CASE options = {} -> "idle"
                       [] options = {"reliable"} -> "append"
                       [] options = {"retained"} -> "cache"
                       [] OTHER -> "append and cache"
    OBVIOUS
  <2>2. pc' = [pc EXCEPT ![t] = l]
    BY <2>1 DEF Publish, Goto
  <2>3. options \subseteq {"reliable", "retained"}
    BY PyAssumption
  <2>4. CASE options = {} \/ options = {"retained"}
    <3>1. {"retained"} # {"reliable"} /\ {"retained"} # {} /\ {"reliable"} # {}
      OBVIOUS
    <3>2. l \in {"idle", "cache"}
      BY <2>1, <2>4, <3>1
    <3> QED
      BY <2>2, <3>2
  <2>5. CASE options # {} /\ options # {"retained"}
    <3>1. "reliable" \in options
      BY <2>3, <2>5
    <3>2. l \in {"append", "append and cache"}
      BY <2>1, <2>5
    <3> QED
      BY <2>2, <3>1, <3>2
  <2> QED
    BY <2>4, <2>5
<1>4. m \in Message /\ t \in Transports /\ m[1] = t
  <2>1. published[t] + 1 \in 1..MaxPublished[t]
    <3>1. published[t] \in Nat /\ MaxPublished[t] \in Nat
      BY PyAssumption DEF TypeInv, CountInv
    <3> QED
      BY <1>2, <3>1
  <2>2. m \in {t} \X (1..MaxPublished[t])
    BY <1>1, <2>1
  <2> QED
    BY <1>1, <2>2, PyAssumption DEF Message
<1>5. /\ pc'[t] = l /\ \A u \in Transports : u # t => pc'[u] = pc[u]
  BY <1>3, <1>4 DEF TypeInv, ThreadInv
<1>6. OwnStep(t)
  BY <1>2, <1>4, <1>5 DEF OwnStep, TypeInv, SetInv, MessagesOf
<1>7. AppendInv(t)'
  <2> SUFFICES ASSUME l \in {"append", "append and cache"}, NEW o \in local'[t]
               PROVE  o[1] = t /\ (Out(o)' \/ \A w \in Message : WasHandled(w)' => w[1] # t)
    BY <1>5 DEF AppendInv
  <2>1. o = m
    <3>1. local' = [local EXCEPT ![t] = {m}]
      BY <1>2, <1>3
    <3> QED
      BY <1>4, <3>1 DEF TypeInv, SetInv, MessagesOf
  <2>2. CASE listening = <<>>
    <3>1. \A w : ~WasHandled(w)
      BY <2>2 DEF FlowInv
    <3>2. \A w : ~WasHandled(w)'
      BY <1>2, <3>1 DEF WasHandled
    <3> QED
      BY <1>4, <2>1, <3>2
  <2>3. CASE listening # <<>>
    <3>1. MemqPublish(t, listening, "envelope", m)
      BY <1>2, <1>3
    <3>2. QueueInv /\ listening \in Seq(Transports)
      BY SubsType DEF TypeInv
    <3>3. \E x \in Range(queue'[t]) : x.kind = "envelope" /\ x.msg = m
      BY <1>4, <2>3, <3>1, <3>2, EnvelopeHeld
    <3> QED
      BY <1>4, <2>1, <3>3 DEF Out, OnItsWay, Held
  <2> QED
    BY <2>2, <2>3
<1> QED
  BY <1>2, <1>3, <1>4, <1>5, <1>6, <1>7, QuietSettle

\* Recording a message that _on_ack, in another thread, is about to overwrite: somebody
\* acknowledged a message of t, so this one is out.
LEMMA AppendSettle ==
    ASSUME TypeInv, FlowInv, SettleInv, OutStays, NEW t \in Transports, AppendPending(t)
    PROVE  SettleInv'
<1>1. PICK ms : ms = local[t]
  OBVIOUS
<1>2. /\ UNCHANGED <<item, todo, kept, handled>>
      /\ pc[t] \in {"append", "append and cache"}
      /\ pending' = [pending EXCEPT ![t] = @ \cup ms]
      /\ attempts' = [m \in Message |-> IF m \in ms THEN 1 ELSE attempts[m]]
      /\ local' = local \/ local' = [local EXCEPT ![t] = {}]
      /\ \E l \in {"idle", "cache"} : pc' = [pc EXCEPT ![t] = l]
  BY <1>1 DEF AppendPending, Goto
<1>3. ms \subseteq Message /\ \A m \in ms : m[1] = t
  BY <1>1, <1>2 DEF TypeInv, SetInv, MessagesOf, SettleInv, AppendInv
<1>4. /\ pc'[t] \in {"idle", "cache"} /\ \A u \in Transports : u # t => pc'[u] = pc[u]
      /\ pending'[t] = pending[t] \cup ms
      /\ \A u \in Transports : u # t => pending'[u] = pending[u]
  BY <1>2 DEF TypeInv, ThreadInv, SetInv, MessagesOf
<1>5. OwnStep(t)
  BY <1>2, <1>4 DEF OwnStep, TypeInv, SetInv, MessagesOf
<1>6. \A m \in Message : attempts'[m] > 0 <=> attempts[m] > 0 \/ m \in ms
  <2>1. \A m \in Message : attempts'[m] = IF m \in ms THEN 1 ELSE attempts[m]
    BY <1>2
  <2> QED
    BY <2>1
<1>7. ASSUME NEW m \in ms PROVE Out(m)' \/ NoReader(t)
  <2> SUFFICES ASSUME NEW u \in Transports, pc[u] = "acked", item[u].to = t
               PROVE  Out(m)'
    BY DEF NoReader
  <2>1. item[u].kind = "ack" /\ item[u].msg[1] = t
    BY DEF FlowInv, Calling
  <2>2. item[u].msg \in Message
    BY <2>1 DEF TypeInv, ThreadInv, Item
  <2>3. WasHandled(item[u].msg)
    BY <2>1 DEF FlowInv, Good, Held
  <2>4. Out(m)
    BY <1>1, <1>2, <2>1, <2>2, <2>3 DEF SettleInv, AppendInv
  <2> QED
    BY <1>3, <2>4 DEF OutStays
<1>8. \A m : WasHandled(m)' => WasHandled(m)
  BY <1>2 DEF WasHandled
<1>9. \A u \in Transports : u # t => VisitInv(u)' /\ AckedInv(u)' /\ AppendInv(u)'
  BY <1>3, <1>5, <1>6, <1>7, <1>8, OthersKeep
<1>10. VisitInv(t)' /\ AckedInv(t)' /\ AppendInv(t)'
  BY <1>4 DEF VisitInv, AckedInv, AppendInv
<1>11. EnvelopeNotLost'
  <2> SUFFICES ASSUME NEW m \in Message, attempts'[m] > 0
               PROVE  m \in pending'[m[1]] \/ Out(m)'
    BY DEF EnvelopeNotLost
  <2>1. CASE m \in ms
    BY <1>3, <1>4, <2>1
  <2>2. CASE attempts[m] > 0
    BY <1>4, <2>2, MessageOwner DEF SettleInv, EnvelopeNotLost, OutStays
  <2> QED
    BY <1>6, <2>1, <2>2
<1>12. RecordedInv'
  <2> SUFFICES ASSUME NEW u \in Transports, NEW m \in pending'[u] \cup todo'[u] \cup kept'[u]
               PROVE  attempts'[m] > 0 /\ m[1] = u
    BY DEF RecordedInv
  <2>1. m \in Message
    BY <1>2, <1>3, <1>4 DEF TypeInv, SetInv, MessagesOf
  <2>2. CASE m \in pending[u] \cup todo[u] \cup kept[u]
    BY <1>6, <2>1, <2>2 DEF SettleInv, RecordedInv
  <2>3. CASE m \in ms /\ u = t
    BY <1>3, <1>6, <2>1, <2>3
  <2> QED
    BY <1>2, <1>4, <2>2, <2>3
<1> QED
  BY <1>9, <1>10, <1>11, <1>12 DEF SettleInv

LEMMA ReturnOwn ==
    ASSUME TypeInv, NEW t \in Transports, Return(t), UNCHANGED kept
    PROVE  OwnStep(t)
<1>1. PICK ms : ms = pending'[t]
  OBVIOUS
<1>2. /\ item' = [item EXCEPT ![t] = NoItem] /\ local' = [local EXCEPT ![t] = {}]
      /\ todo' = [todo EXCEPT ![t] = ms]
      /\ \E l \in {"idle", "visit"} : pc' = [pc EXCEPT ![t] = l]
  BY <1>1 DEF Return, Tick, Goto
<1> QED
  BY <1>2 DEF OwnStep, TypeInv, ThreadInv, SetInv, MessagesOf

\* A callback that returns without a change of the lists of pending messages.
LEMMA ReturnSettle ==
    ASSUME TypeInv, FlowInv, SettleInv, OutStays, NEW t \in Transports, Return(t),
           UNCHANGED <<pending, kept, attempts>>,
           \A m \in Message : WasHandled(m)' => WasHandled(m) \/ m[1] = t
    PROVE  SettleInv'
<1>1. OwnStep(t) /\ Tick(t)
  BY ReturnOwn DEF Return
<1>2. EnvelopeNotLost'
  BY DEF SettleInv, EnvelopeNotLost, OutStays
<1>3. /\ pending' \in MessagesOf
      /\ \A u \in Transports : \A m \in pending'[u] : attempts[m] > 0 /\ m[1] = u
  BY DEF TypeInv, SetInv, SettleInv, RecordedInv
<1> QED
  BY <1>1, <1>2, <1>3, TickSettle

LEMMA CallbackSettle ==
    ASSUME TypeInv, FlowInv, SettleInv, OutStays, NEW t \in Transports,
           OnEnvelope(t) \/ OnForeignAck(t) \/ OnRequest(t) \/ Replay(t) \/ OnValue(t)
    PROVE  SettleInv'
<1>1. UNCHANGED <<pending, kept, attempts>>
  BY DEF OnEnvelope, OnForeignAck, OnRequest, Replay, OnValue, relVars
<1>2. \A m \in Message : WasHandled(m)' => WasHandled(m) \/ m[1] = t
  <2>1. CASE OnEnvelope(t)
    <3>1. item[t].kind = "envelope"
      BY <2>1 DEF OnEnvelope, TypeInv, ThreadInv, Callback
    <3>2. item[t].msg[1] = t
      BY <3>1 DEF FlowInv, Good, Held
    <3> QED
      BY <2>1, <3>2, OnEnvelopeHandles
  <2>2. CASE ~OnEnvelope(t)
    <3>1. handled' = handled
      BY <2>2 DEF OnForeignAck, OnRequest, Replay, OnValue
    <3> QED
      BY <3>1 DEF WasHandled
  <2> QED
    BY <2>1, <2>2
<1>3. CASE Return(t)
  BY <1>1, <1>2, <1>3, ReturnSettle
<1>4. CASE OnRequest(t) /\ ~Return(t)
  <2>1. PICK ms : ms = cache[item[t].to]
    OBVIOUS
  <2>2. /\ UNCHANGED <<item, todo, handled>> /\ local' = [local EXCEPT ![t] = ms]
        /\ pc' = [pc EXCEPT ![t] = "replay"]
    BY <1>4, <2>1 DEF OnRequest, Goto
  <2>3. pc'[t] = "replay" /\ OwnStep(t)
    BY <1>1, <2>2 DEF OwnStep, TypeInv, ThreadInv, SetInv, MessagesOf
  <2>4. AppendInv(t)'
    BY <2>3 DEF AppendInv
  <2> QED
    BY <1>1, <2>2, <2>3, <2>4, QuietSettle
<1> QED
  BY <1>3, <1>4 DEF OnEnvelope, OnForeignAck, Replay, OnValue

LEMMA PopNothingSettle ==
    ASSUME TypeInv, FlowInv, SettleInv, OutStays, NEW t \in Transports, PopNothing(t)
    PROVE  SettleInv'
<1>1. UNCHANGED <<item, local, pending, attempts, kept, handled>> /\ Tick(t)
  BY DEF PopNothing, relVars
<1>2. PICK ms : ms = pending'[t]
  OBVIOUS
<1>3. todo' = [todo EXCEPT ![t] = ms] /\ \E l \in {"idle", "visit"} : pc' = [pc EXCEPT ![t] = l]
  BY <1>1, <1>2 DEF Tick, Goto
<1>4. OwnStep(t)
  BY <1>1, <1>3 DEF OwnStep, TypeInv, ThreadInv, SetInv, MessagesOf
<1>5. EnvelopeNotLost'
  BY <1>1 DEF SettleInv, EnvelopeNotLost, OutStays
<1>6. /\ pending' \in MessagesOf
      /\ \A u \in Transports : \A m \in pending'[u] : attempts[m] > 0 /\ m[1] = u
  BY <1>1 DEF TypeInv, SetInv, SettleInv, RecordedInv
<1>7. \A m : WasHandled(m)' => WasHandled(m)
  BY <1>1 DEF WasHandled
<1> QED
  BY <1>1, <1>4, <1>5, <1>6, <1>7, TickSettle

\* _on_ack removes one message, and that one was handled.
LEMMA OnAckSettle ==
    ASSUME TypeInv, FlowInv, SettleInv, OutStays, NEW t \in Transports, OnAck(t)
    PROVE  SettleInv'
<1>1. PICK x : x = item[t]
  OBVIOUS
<1>2. PICK ms : ms = pending[x.to] \ {x.msg}
  OBVIOUS
<1>3. /\ UNCHANGED <<item, pending, todo, kept, attempts, handled>>
      /\ pc[t] = "ack" /\ x.to = x.msg[1] /\ local' = [local EXCEPT ![t] = ms]
      /\ pc' = [pc EXCEPT ![t] = "acked"]
  BY <1>1, <1>2 DEF OnAck, Goto, relVars
<1>4. x \in Item /\ x.kind = "ack" /\ x.to \in Transports
  <2>1. x \in Item /\ x.kind = "ack"
    BY <1>1, <1>3 DEF TypeInv, ThreadInv, Callback
  <2> QED
    BY <2>1 DEF Item
<1>5. WasHandled(x.msg)
  BY <1>1, <1>4 DEF FlowInv, Good, Held
<1>6. /\ pc'[t] = "acked" /\ local'[t] = ms /\ item'[t] = x
      /\ OwnStep(t)
  BY <1>1, <1>3 DEF OwnStep, TypeInv, ThreadInv, SetInv, MessagesOf
<1>7. AckedInv(t)'
  <2> SUFFICES /\ \A m \in ms : attempts[m] > 0 /\ m[1] = x.to
               /\ \A m \in Message : m[1] = x.to /\ attempts[m] > 0 => m \in ms \/ Out(m)'
    BY <1>3, <1>6 DEF AckedInv
  <2>1. \A m \in ms : attempts[m] > 0 /\ m[1] = x.to
    BY <1>2, <1>4 DEF SettleInv, RecordedInv
  <2>2. ASSUME NEW m \in Message, m[1] = x.to, attempts[m] > 0 PROVE m \in ms \/ Out(m)'
    <3>1. m \in pending[x.to] \/ Out(m)
      BY <2>2 DEF SettleInv, EnvelopeNotLost
    <3>2. m = x.msg => Out(m)
      BY <1>5 DEF Out
    <3> QED
      BY <1>2, <3>1, <3>2 DEF OutStays
  <2> QED
    BY <2>1, <2>2
<1>8. \A u \in Transports : u # t => VisitInv(u)' /\ AckedInv(u)' /\ AppendInv(u)'
  <2>1. \A m : WasHandled(m)' => WasHandled(m)
    BY <1>3 DEF WasHandled
  <2> QED
    BY <1>3, <1>6, <2>1, OthersKeep
<1>9. VisitInv(t)' /\ AppendInv(t)'
  BY <1>6 DEF VisitInv, AppendInv
<1>10. EnvelopeNotLost' /\ RecordedInv'
  BY <1>3 DEF SettleInv, EnvelopeNotLost, RecordedInv, OutStays
<1> QED
  BY <1>7, <1>8, <1>9, <1>10 DEF SettleInv

\* What _on_ack stores is complete, whatever was recorded after it read the list.
LEMMA StoreAckedSettle ==
    ASSUME TypeInv, FlowInv, SettleInv, OutStays, NEW t \in Transports, StoreAcked(t)
    PROVE  SettleInv'
<1>1. PICK p : p = item[t].to
  OBVIOUS
<1>2. PICK ms : ms = local[t]
  OBVIOUS
<1>3. /\ UNCHANGED <<attempts, kept, handled>> /\ Return(t) /\ pc[t] = "acked"
      /\ pending' = [pending EXCEPT ![p] = ms]
  BY <1>1, <1>2 DEF StoreAcked
<1>4. p \in Transports /\ ms \subseteq Message
  <2>1. item[t] \in Item
    BY <1>3 DEF TypeInv, ThreadInv
  <2> QED
    BY <1>1, <1>2, <2>1 DEF Item, TypeInv, SetInv, MessagesOf
<1>5. /\ \A m \in ms : attempts[m] > 0 /\ m[1] = p
      /\ \A m \in Message : m[1] = p /\ attempts[m] > 0 => m \in ms \/ Out(m)
  BY <1>1, <1>2, <1>3 DEF SettleInv, AckedInv
<1>6. /\ pending' \in MessagesOf
      /\ pending'[p] = ms /\ \A u \in Transports : u # p => pending'[u] = pending[u]
  BY <1>3, <1>4 DEF TypeInv, SetInv, MessagesOf
<1>7. OwnStep(t) /\ Tick(t)
  BY <1>3, ReturnOwn DEF Return
<1>8. EnvelopeNotLost'
  <2> SUFFICES ASSUME NEW m \in Message, attempts[m] > 0
               PROVE  m \in pending'[m[1]] \/ Out(m)'
    BY <1>3 DEF EnvelopeNotLost
  <2>1. CASE m[1] = p
    BY <1>5, <1>6, <2>1 DEF OutStays
  <2>2. CASE m[1] # p
    BY <1>6, <2>2, MessageOwner DEF SettleInv, EnvelopeNotLost, OutStays
  <2> QED
    BY <2>1, <2>2
<1>9. \A u \in Transports : \A m \in pending'[u] : attempts[m] > 0 /\ m[1] = u
  BY <1>5, <1>6 DEF SettleInv, RecordedInv
<1>10. \A m : WasHandled(m)' => WasHandled(m)
  BY <1>3 DEF WasHandled
<1> QED
  BY <1>3, <1>6, <1>7, <1>8, <1>9, <1>10, TickSettle

\* A visit takes a message off the list it works on, and keeps it or lets it go.
LEMMA VisitSettle ==
    ASSUME TypeInv, FlowInv, SettleInv, OutStays, NEW t \in Transports, NEW m \in todo[t],
           Visited(t, m), UNCHANGED <<pc, item, local, pending, handled>>,
           \A o \in Message : attempts'[o] > 0 <=> attempts[o] > 0,
           \/ kept' = [kept EXCEPT ![t] = @ \cup {m}]
           \/ kept' = kept /\ m \in gaveUp'
    PROVE  SettleInv'
<1>1. pc[t] = "visit" /\ todo' = [todo EXCEPT ![t] = @ \ {m}]
  BY DEF Visited
<1>2. /\ todo'[t] = todo[t] \ {m} /\ kept'[t] \in {kept[t], kept[t] \cup {m}}
      /\ kept[t] \subseteq kept'[t]
      /\ OwnStep(t)
  BY <1>1 DEF OwnStep, TypeInv, SetInv, MessagesOf
<1>3. m \in kept'[t] \/ Out(m)'
  BY DEF Out, TypeInv, SetInv, MessagesOf
<1>4. \A u \in Transports : u # t => VisitInv(u)' /\ AckedInv(u)' /\ AppendInv(u)'
  <2>1. \A o : WasHandled(o)' => WasHandled(o)
    BY DEF WasHandled
  <2> QED
    BY <1>2, <2>1, OthersKeep
<1>5. VisitInv(t)'
  <2> SUFFICES ASSUME NEW o \in Message, o[1] = t, attempts'[o] > 0
               PROVE  o \in todo'[t] \cup kept'[t] \/ Out(o)'
    BY DEF VisitInv
  <2>1. o \in todo[t] \cup kept[t] \/ Out(o)
    BY <1>1 DEF SettleInv, VisitInv
  <2> QED
    BY <1>2, <1>3, <2>1 DEF OutStays
<1>6. AckedInv(t)' /\ AppendInv(t)'
  BY <1>1 DEF AckedInv, AppendInv
<1>7. EnvelopeNotLost'
  BY DEF SettleInv, EnvelopeNotLost, OutStays
<1>8. RecordedInv'
  <2> SUFFICES ASSUME NEW u \in Transports, NEW o \in pending'[u] \cup todo'[u] \cup kept'[u]
               PROVE  attempts'[o] > 0 /\ o[1] = u
    BY DEF RecordedInv
  <2>1. o \in pending[u] \cup todo[u] \cup kept[u]
    BY <1>2 DEF OwnStep
  <2>2. o \in Message
    BY <2>1 DEF TypeInv, SetInv, MessagesOf
  <2> QED
    BY <2>1, <2>2 DEF SettleInv, RecordedInv
<1> QED
  BY <1>4, <1>5, <1>6, <1>7, <1>8 DEF SettleInv

LEMMA TodoSettle ==
    ASSUME TypeInv, FlowInv, SettleInv, OutStays, NEW t \in Transports,
           NotDue(t) \/ \E m \in todo[t] : Due(t, m)
    PROVE  SettleInv'
<1>1. CASE NotDue(t)
  BY <1>1, VisitSettle DEF NotDue, relVars
<1>2. ASSUME NEW m \in todo[t], GiveUp(t, m) PROVE SettleInv'
  BY <1>2, VisitSettle DEF GiveUp
<1>3. ASSUME NEW m \in todo[t], Retry(t, m) PROVE SettleInv'
  <2>1. /\ UNCHANGED <<pc, item, local, pending, handled>> /\ Visited(t, m)
        /\ attempts' = [attempts EXCEPT ![m] = @ + 1]
        /\ kept' = [kept EXCEPT ![t] = @ \cup {m}]
    BY <1>3 DEF Retry
  <2>2. m \in Message /\ attempts[m] > 0 /\ attempts \in [Message -> Nat]
    BY DEF TypeInv, SetInv, CountInv, MessagesOf, SettleInv, RecordedInv
  <2>3. \A o \in Message : attempts'[o] > 0 <=> attempts[o] > 0
    BY <2>1, <2>2
  <2> QED
    BY <2>1, <2>3, VisitSettle
<1> QED
  BY <1>1, <1>2, <1>3 DEF Due

\* What _tick_reliable stores is complete, whatever _on_ack stored meanwhile.
LEMMA StoreKeptSettle ==
    ASSUME TypeInv, FlowInv, SettleInv, OutStays, NEW t \in Transports, StoreKept(t)
    PROVE  SettleInv'
<1>1. PICK ms : ms = kept[t]
  OBVIOUS
<1>2. /\ UNCHANGED <<item, local, todo, attempts, handled>>
      /\ pc[t] = "visit" /\ todo[t] = {}
      /\ pending' = [pending EXCEPT ![t] = ms] /\ kept' = [kept EXCEPT ![t] = {}]
      /\ pc' = [pc EXCEPT ![t] = "idle"]
  BY <1>1 DEF StoreKept, Goto
<1>3. /\ pc'[t] = "idle" /\ OwnStep(t) /\ pending'[t] = ms /\ kept'[t] = {}
      /\ \A u \in Transports : u # t => pending'[u] = pending[u]
  BY <1>2 DEF OwnStep, TypeInv, ThreadInv, SetInv, MessagesOf
<1>4. \A u \in Transports : u # t => VisitInv(u)' /\ AckedInv(u)' /\ AppendInv(u)'
  <2>1. \A m : WasHandled(m)' => WasHandled(m)
    BY <1>2 DEF WasHandled
  <2> QED
    BY <1>2, <1>3, <2>1, OthersKeep
<1>5. VisitInv(t)' /\ AckedInv(t)' /\ AppendInv(t)'
  BY <1>3 DEF VisitInv, AckedInv, AppendInv
<1>6. EnvelopeNotLost'
  <2> SUFFICES ASSUME NEW m \in Message, attempts[m] > 0
               PROVE  m \in pending'[m[1]] \/ Out(m)'
    BY <1>2 DEF EnvelopeNotLost
  <2>1. CASE m[1] = t
    <3>1. m \in ms \/ Out(m)
      BY <1>1, <1>2, <2>1 DEF SettleInv, VisitInv
    <3> QED
      BY <1>3, <2>1, <3>1 DEF OutStays
  <2>2. CASE m[1] # t
    BY <1>3, <2>2, MessageOwner DEF SettleInv, EnvelopeNotLost, OutStays
  <2> QED
    BY <2>1, <2>2
<1>7. RecordedInv'
  <2> SUFFICES ASSUME NEW u \in Transports, NEW m \in pending'[u] \cup todo'[u] \cup kept'[u]
               PROVE  attempts[m] > 0 /\ m[1] = u
    BY <1>2 DEF RecordedInv
  <2>1. m \in pending[u] \cup todo[u] \cup kept[u]
    BY <1>1, <1>2, <1>3 DEF OwnStep
  <2> QED
    BY <2>1 DEF SettleInv, RecordedInv
<1> QED
  BY <1>4, <1>5, <1>6, <1>7 DEF SettleInv

LEMMA SettleStep ==
    ASSUME TypeInv, FlowInv, SettleInv, OutStays, [Next]_vars
    PROVE  SettleInv'
<1>1. CASE UNCHANGED vars
  <2>1. UNCHANGED <<pc, item, local, pending, attempts, todo, kept, handled>>
    BY <1>1 DEF vars, relVars
  <2>2. \A m : WasHandled(m)' => WasHandled(m)
    BY <2>1 DEF WasHandled
  <2> QED
    BY <2>1, <2>2 DEF SettleInv, EnvelopeNotLost, RecordedInv, VisitInv, AckedInv, AppendInv,
       OutStays, TypeInv, SetInv, MessagesOf
<1>2. ASSUME NEW t \in Transports, CallStep(t) PROVE SettleInv'
  BY <1>2, QuietCallSettle, AppendSettle DEF CallStep
<1>3. ASSUME NEW t \in Transports, SpinStep(t) PROVE SettleInv'
  BY <1>3, QuietCallSettle, PopNothingSettle, CallbackSettle, OnAckSettle, StoreAckedSettle,
     TodoSettle, StoreKeptSettle DEF SpinStep
<1>4. ASSUME NEW t \in Publishers, NEW options \in Options[t], Publish(t, options)
      PROVE  SettleInv'
  BY <1>4, PublishSettle
<1> QED
  BY <1>1, <1>2, <1>3, <1>4, QuietCallSettle DEF Next

\* No interleaving of publish, _on_ack and _tick_reliable, in threads that replace the
\* list the others have read, loses a message: one that was recorded is pending, given
\* up, handled, or waits in the queue of its publisher.
THEOREM EnvelopeNotLostHolds == Spec => []EnvelopeNotLost
<1>1. Init => FlowInv /\ SettleInv
  <2> SUFFICES ASSUME Init PROVE FlowInv /\ SettleInv
    OBVIOUS
  <2>1. \A t \in Transports :
            /\ queue[t] = <<>> /\ item[t] = NoItem /\ pc[t] = "idle" /\ handled[t] = <<>>
            /\ pending[t] = {} /\ todo[t] = {} /\ kept[t] = {}
    BY DEF Init
  <2>2. \A m : ~WasHandled(m)
    BY <2>1 DEF WasHandled, Range
  <2>3. \A t \in Transports : Held(t) = {NoItem}
    BY <2>1 DEF Held, Range
  <2>4. FlowInv
    BY <2>1, <2>2, <2>3 DEF FlowInv, Calling, Good, NoItem
  <2>5. EnvelopeNotLost
    BY DEF Init, EnvelopeNotLost
  <2>6. RecordedInv /\ \A t \in Transports : VisitInv(t) /\ AckedInv(t) /\ AppendInv(t)
    BY <2>1 DEF RecordedInv, VisitInv, AckedInv, AppendInv
  <2> QED
    BY <2>4, <2>5, <2>6 DEF SettleInv
<1>2. TypeInv /\ FlowInv /\ SettleInv /\ [Next]_vars => FlowInv' /\ SettleInv'
  <2> SUFFICES ASSUME TypeInv, FlowInv, SettleInv, [Next]_vars PROVE FlowInv' /\ SettleInv'
    OBVIOUS
  <2>1. FlowInv' /\ OutStays
    BY FlowStep DEF SettleInv
  <2> QED
    BY <2>1, SettleStep
<1>3. SettleInv => EnvelopeNotLost
  BY DEF SettleInv
<1> QED
  BY <1>1, <1>2, <1>3, TypeInvHolds, PTL DEF Spec
====
