---- MODULE BridgeProofs ----
(***************************************************************************)
(* Proofs about one node of the ring bridge, for any channels, values and  *)
(* limits: the poll thread polls open readers only and every channel that  *)
(* is subscribed, the queues hold the newest frames, deduplication never   *)
(* hides the newest value, and every variable keeps its type.              *)
(***************************************************************************)
EXTENDS Bridge, WellFoundedInduction, TLAPS

(***************************************************************************)
(* The readers of the poll thread.                                         *)
(***************************************************************************)
\* A poll thread that has not started has nothing to poll; node_destroy closes the
\* readers of one that has ended.
PollInv == /\ poll = "none" => snapshot = {}
           /\ poll \in {"loop", "rebuild", "wait"} => snapshot \subseteq opened

LEMMA PollInvStep == PollInv /\ [Next]_vars => PollInv'
<1> SUFFICES ASSUME PollInv, [Next]_vars PROVE PollInv'
  OBVIOUS
<1>1. CASE PollStep
  <2>1. opened' = opened /\ poll # "none"
    BY <1>1 DEF PollStep, PollEnds, TakeChanged, Rebuild, PollFrame, PollReturns, PollUnchanged
  <2>2. poll' # "none" /\ snapshot' \in {snapshot, opened}
    BY <1>1 DEF PollStep, PollEnds, TakeChanged, Rebuild, PollFrame, PollReturns
  <2>3. poll = "ended" => poll' = "ended"
    BY <1>1 DEF PollStep, PollEnds, TakeChanged, Rebuild, PollFrame, PollReturns
  <2>4. poll = "ended" \/ snapshot' \subseteq opened'
    BY <1>1, <2>1, <2>2
    DEF PollInv, PollStep, PollEnds, TakeChanged, Rebuild, PollFrame, PollReturns
  <2> QED
    BY <2>2, <2>3, <2>4 DEF PollInv
<1>2. CASE NodeDestroy
  <2>1. poll' = poll /\ snapshot' = snapshot /\ poll \in {"none", "ended"}
    BY <1>2 DEF NodeDestroy, Closed, pollVars
  <2> QED
    BY <2>1 DEF PollInv
<1>3. CASE FlagAndStart
  <2>1. opened' = opened /\ snapshot' = snapshot
        /\ poll' = IF poll = "none" THEN "loop" ELSE poll
    BY <1>3 DEF FlagAndStart
  <2> QED
    BY <2>1 DEF PollInv
<1>4. ASSUME ~PollStep, ~NodeDestroy, ~FlagAndStart
      PROVE  poll' = poll /\ snapshot' = snapshot /\ opened \subseteq opened'
  BY <1>4 DEF Next, DartStep, SpinOnce, Dispose, RemotePublish, AddHandler, Subscribe,
         Unsubscribe, Publish, Receive, HandlerReturns, PassDone, DartUnchanged, pollVars,
         dartVars, vars
<1> QED
  BY <1>1, <1>2, <1>3, <1>4 DEF PollInv

\* The poll thread never polls a reader that node_destroy has closed.
THEOREM PollUsesOpenReadersHolds == Spec => []PollUsesOpenReaders
<1>1. Init => PollInv
  BY DEF Init, PollInv
<1>2. PollInv => PollUsesOpenReaders
  BY DEF PollInv, PollUsesOpenReaders
<1> QED
  BY <1>1, <1>2, PollInvStep, PTL DEF Spec

(***************************************************************************)
(* A new channel is polled: what NewestArrives rests on.                   *)
(***************************************************************************)
\* While a node is not stopped, the poll thread polls every channel that was
\* subscribed to, or will build its list anew before it waits again: the flag is
\* set, it was just taken, or subscriber_create is about to set it and to start the
\* thread (raccoon_ring_bridge.cpp:149-166, 315-353).
NewChannelIsPolled ==
    ~stopping =>
        /\ opened \subseteq snapshot \/ changed \/ poll = "rebuild" \/ dart = "flag"
        /\ poll = "none" => opened = {} \/ dart = "flag"
        /\ poll # "ended"

LEMMA PolledStep == NewChannelIsPolled /\ [Next]_vars => NewChannelIsPolled'
<1> SUFFICES ASSUME NewChannelIsPolled, [Next]_vars, ~stopping' PROVE NewChannelIsPolled'
  BY DEF NewChannelIsPolled
<1>1. CASE PollStep
  <2>1. /\ opened' = opened /\ dart' = dart /\ ~stopping /\ poll # "none"
        /\ poll' \in {"loop", "rebuild", "wait"}
    BY <1>1 DEF PollStep, PollEnds, TakeChanged, Rebuild, PollFrame, PollReturns, PollUnchanged
  <2>2. \/ changed' = changed /\ snapshot' = snapshot /\ poll # "rebuild"
        \/ changed' = FALSE /\ snapshot' = snapshot
           /\ poll = "loop" /\ poll' = IF changed THEN "rebuild" ELSE "wait"
        \/ snapshot' = opened
    BY <1>1, <2>1 DEF PollStep, PollEnds, TakeChanged, Rebuild, PollFrame, PollReturns
  <2> QED
    BY <2>1, <2>2 DEF NewChannelIsPolled
<1>2. CASE FlagAndStart
  <2>1. /\ changed' = TRUE /\ ~stopping
        /\ poll' = IF poll = "none" THEN "loop" ELSE poll
    BY <1>2 DEF FlagAndStart
  <2> QED
    BY <2>1 DEF NewChannelIsPolled
<1>3. CASE \E c \in Subscribed, h \in Handlers : Subscribe(c, h)
  <2>1. /\ snapshot' = snapshot /\ changed' = changed /\ poll' = poll /\ ~stopping
        /\ dart # "flag"
        /\ dart' = "flag" \/ opened' = opened
    BY <1>3 DEF Subscribe, MayCall, DartUnchanged, pollVars
  <2> QED
    BY <2>1 DEF NewChannelIsPolled
<1>4. ASSUME ~PollStep, ~FlagAndStart, ~\E c \in Subscribed, h \in Handlers : Subscribe(c, h)
      PROVE  /\ snapshot' = snapshot /\ changed' = changed /\ poll' = poll /\ ~stopping
             /\ opened' = {} \/ opened' = opened
             /\ dart = "flag" => dart' = "flag"
  BY <1>4 DEF Next, DartStep, SpinOnce, Dispose, RemotePublish, AddHandler, Unsubscribe,
         Publish, Receive, HandlerReturns, PassDone, NodeDestroy, Closed, MayCall,
         DartUnchanged, pollVars, dartVars, vars
<1> QED
  BY <1>1, <1>2, <1>3, <1>4 DEF NewChannelIsPolled

\* No subscription is made behind the back of the poll thread.
THEOREM NewChannelIsPolledHolds == Spec => []NewChannelIsPolled
<1>1. Init => NewChannelIsPolled
  BY DEF Init, NewChannelIsPolled
<1> QED
  BY <1>1, PolledStep, PTL DEF Spec

(***************************************************************************)
(* Deduplication.                                                          *)
(***************************************************************************)
LEMMA PublishDedup ==
    ASSUME DedupKeepsNewest, NEW v \in Values, NEW dedup \in BOOLEAN, Publish(v, dedup)
    PROVE  DedupKeepsNewest'
<1>1. plain' = (plain \/ ~dedup)
  BY DEF Publish
<1>2. CASE UNCHANGED <<pub, newest>>
  BY <1>1, <1>2 DEF DedupKeepsNewest
<1>3. CASE pub' = NoPub
  BY <1>3 DEF DedupKeepsNewest, NoPub
<1>4. CASE newest' = v /\ \E n : pub' = [size |-> n, last |-> Remember(v, dedup)]
  <2>1. dedup => pub'.last = v
    BY <1>4 DEF Remember
  <2> QED
    BY <1>1, <1>4, <2>1 DEF DedupKeepsNewest
<1> QED
  BY <1>2, <1>3, <1>4 DEF Publish, GrowFails

\* A publish that is dropped as a repeat says what the ring already shows.
THEOREM DedupKeepsNewestHolds == Spec => []DedupKeepsNewest
<1>1. Init => DedupKeepsNewest
  BY DEF Init, DedupKeepsNewest, NoPub
<1>2. DedupKeepsNewest /\ [Next]_vars => DedupKeepsNewest'
  <2> SUFFICES ASSUME DedupKeepsNewest, [Next]_vars PROVE DedupKeepsNewest'
    OBVIOUS
  <2>1. CASE \E v \in Values, dedup \in BOOLEAN : Publish(v, dedup)
    BY <2>1, PublishDedup
  <2>2. CASE NodeDestroy
    BY <2>2 DEF NodeDestroy, Closed, NoPub, DedupKeepsNewest
  <2>3. ASSUME ~(\E v \in Values, dedup \in BOOLEAN : Publish(v, dedup)), ~NodeDestroy
        PROVE  UNCHANGED <<pub, newest, plain>>
    BY <2>3 DEF Next, PollStep, PollEnds, TakeChanged, Rebuild, PollFrame, PollReturns,
           PollUnchanged, DartStep, FlagAndStart, SpinOnce, Dispose, RemotePublish, AddHandler,
           Subscribe, Unsubscribe, Receive, HandlerReturns, PassDone, DartUnchanged, pubVars,
           vars
  <2> QED
    BY <2>1, <2>2, <2>3 DEF DedupKeepsNewest
<1> QED
  BY <1>1, <1>2, PTL DEF Spec

(***************************************************************************)
(* The queue of a channel.                                                 *)
(***************************************************************************)
\* What QueueHoldsNewest says of one queue q, its reader's place p and the frame t that
\* was taken last, and the limit of the queue.
Window(q, p, t, exact) ==
    /\ q \in Seq(Nat) /\ Len(q) <= MaxQueue
    /\ p \in Nat /\ t \in Nat
    /\ \A i \in 1..Len(q) : q[i] = p - Len(q) + i
    /\ t <= p - Len(q)
    /\ exact => t = p - Len(q)

QueueInv ==
    /\ DOMAIN queue = Subscribed /\ DOMAIN pos = Subscribed /\ DOMAIN taken = Subscribed
    /\ \A c \in Subscribed : Window(queue[c], pos[c], taken[c], c \notin overflown)

LEMMA TailFacts ==
    ASSUME NEW q \in Seq(Nat), q # <<>>
    PROVE  /\ Len(q) \in Nat \ {0} /\ Head(q) = q[1] /\ Head(q) \in Nat
           /\ Tail(q) \in Seq(Nat) /\ Len(Tail(q)) = Len(q) - 1
           /\ \A i \in 1..(Len(q) - 1) : Tail(q)[i] = q[i + 1]
  OBVIOUS

LEMMA AppendFacts ==
    ASSUME NEW q \in Seq(Nat), NEW x \in Nat
    PROVE  /\ Len(q) \in Nat
           /\ Append(q, x) \in Seq(Nat) /\ Len(Append(q, x)) = Len(q) + 1
           /\ Append(q, x)[Len(q) + 1] = x
           /\ \A i \in 1..Len(q) : Append(q, x)[i] = q[i]
  OBVIOUS

LEMMA EmptyWindow == Window(<<>>, 0, 0, TRUE)
<1>1. <<>> \in Seq(Nat)
  OBVIOUS
<1>2. Len(<<>>) = 0
  OBVIOUS
<1>3. 0 <= MaxQueue
  BY BridgeAssumption
<1>4. ASSUME NEW e, e \in Seq(Nat), Len(e) = 0 PROVE Window(e, 0, 0, TRUE)
  BY <1>3, <1>4 DEF Window
<1> QED
  BY <1>1, <1>2, <1>4, Zenon

\* The next frame joins a queue that has room...
LEMMA WindowAppend ==
    ASSUME NEW q, NEW p, NEW t, NEW exact, Window(q, p, t, exact), Len(q) < MaxQueue
    PROVE  Window(Append(q, p + 1), p + 1, t, exact)
<1>1. q \in Seq(Nat) /\ p \in Nat /\ t \in Nat /\ p + 1 \in Nat /\ MaxQueue \in Nat
  BY BridgeAssumption DEF Window
<1>2. PICK r : r = Append(q, p + 1)
  OBVIOUS
<1>3. PICK n \in Nat : n = Len(q)
  BY <1>1, AppendFacts
<1>4. r \in Seq(Nat) /\ Len(r) = n + 1 /\ r[n + 1] = p + 1 /\ \A i \in 1..n : r[i] = q[i]
  BY <1>1, <1>2, <1>3, AppendFacts
<1>5. \A i \in 1..n : q[i] = p - n + i
  BY <1>3 DEF Window
<1>6. \A i \in 1..(n + 1) : r[i] = (p + 1) - (n + 1) + i
  <2> TAKE i \in 1..(n + 1)
  <2>1. CASE i = n + 1
    BY <2>1, <1>1, <1>4
  <2>2. CASE i # n + 1
    <3>1. i \in 1..n
      BY <2>2
    <3> QED
      BY <3>1, <1>1, <1>4, <1>5
  <2> QED
    BY <2>1, <2>2
<1>7. t <= p - n /\ (exact => t = p - n) /\ n < MaxQueue
  BY <1>3 DEF Window
<1>8. Window(r, p + 1, t, exact)
  BY <1>1, <1>4, <1>6, <1>7 DEF Window
<1> QED
  BY <1>2, <1>8

\* ...and takes the place of the oldest in one that has not.
LEMMA WindowSlide ==
    ASSUME NEW q, NEW p, NEW t, NEW exact, Window(q, p, t, exact), Len(q) >= MaxQueue
    PROVE  Window(Append(Tail(q), p + 1), p + 1, t, FALSE)
<1>1. /\ q \in Seq(Nat) /\ p \in Nat /\ t \in Nat /\ p + 1 \in Nat /\ MaxQueue \in Nat \ {0}
      /\ Len(q) \in Nat /\ q # <<>>
  <2>1. q \in Seq(Nat) /\ p \in Nat /\ t \in Nat /\ MaxQueue \in Nat \ {0}
    BY BridgeAssumption DEF Window
  <2>2. Len(q) \in Nat /\ Len(q) # 0
    BY <2>1
  <2> QED
    BY <2>1, <2>2
<1>2. PICK r : r = Append(Tail(q), p + 1)
  OBVIOUS
<1>3. PICK n \in Nat \ {0} : n = Len(q)
  BY <1>1, TailFacts
<1>4. /\ Tail(q) \in Seq(Nat) /\ Len(Tail(q)) = n - 1
      /\ \A i \in 1..(n - 1) : Tail(q)[i] = q[i + 1]
  BY <1>1, <1>3, TailFacts
<1>5. r \in Seq(Nat) /\ Len(r) = n /\ r[n] = p + 1 /\ \A i \in 1..(n - 1) : r[i] = q[i + 1]
  <2>1. n - 1 \in Nat /\ (n - 1) + 1 = n
    BY <1>3
  <2> QED
    BY <1>1, <1>2, <1>4, <2>1, AppendFacts
<1>6. \A i \in 1..n : q[i] = p - n + i
  BY <1>3 DEF Window
<1>7. \A i \in 1..n : r[i] = (p + 1) - n + i
  <2> TAKE i \in 1..n
  <2>1. CASE i = n
    BY <2>1, <1>1, <1>5
  <2>2. CASE i # n
    <3>1. i \in 1..(n - 1) /\ i + 1 \in 1..n
      BY <2>2
    <3>2. r[i] = q[i + 1] /\ q[i + 1] = p - n + (i + 1)
      BY <3>1, <1>5, <1>6
    <3> QED
      BY <3>2, <1>1
  <2> QED
    BY <2>1, <2>2
<1>8. t <= p - n /\ n <= MaxQueue
  BY <1>3 DEF Window
<1>9. Window(r, p + 1, t, FALSE)
  BY <1>1, <1>5, <1>7, <1>8 DEF Window
<1> QED
  BY <1>2, <1>9

\* The isolate takes the oldest.
LEMMA WindowTake ==
    ASSUME NEW q, NEW p, NEW t, NEW exact, Window(q, p, t, exact), q # <<>>
    PROVE  Window(Tail(q), p, Head(q), TRUE)
<1>1. q \in Seq(Nat) /\ p \in Nat /\ MaxQueue \in Nat
  BY BridgeAssumption DEF Window
<1>2. PICK r : r = Tail(q)
  OBVIOUS
<1>3. PICK n \in Nat \ {0} : n = Len(q)
  BY <1>1, TailFacts
<1>4. /\ r \in Seq(Nat) /\ Len(r) = n - 1
      /\ \A i \in 1..(n - 1) : r[i] = q[i + 1]
      /\ Head(q) = q[1] /\ Head(q) \in Nat
  BY <1>1, <1>2, <1>3, TailFacts
<1>5. \A i \in 1..n : q[i] = p - n + i
  BY <1>3 DEF Window
<1>6. \A i \in 1..(n - 1) : r[i] = p - (n - 1) + i
  <2> TAKE i \in 1..(n - 1)
  <2>1. i + 1 \in 1..n
    OBVIOUS
  <2>2. r[i] = q[i + 1] /\ q[i + 1] = p - n + (i + 1)
    BY <2>1, <1>4, <1>5
  <2> QED
    BY <2>2, <1>1
<1>7. Head(q) = p - (n - 1)
  <2>1. 1 \in 1..n
    OBVIOUS
  <2>2. q[1] = p - n + 1
    BY <2>1, <1>5
  <2> QED
    BY <2>2, <1>1, <1>4
<1>8. n - 1 <= MaxQueue
  BY <1>1, <1>3 DEF Window
<1>9. Window(r, p, Head(q), TRUE)
  BY <1>1, <1>4, <1>6, <1>7, <1>8 DEF Window
<1> QED
  BY <1>2, <1>9

LEMMA PollFrameQueue ==
    ASSUME QueueInv, PollFrame
    PROVE  QueueInv'
<1>1. PICK c \in snapshot :
          /\ pos' = [pos EXCEPT ![c] = @ + 1]
          /\ queue' = [queue EXCEPT ![c] = Queued(c, pos[c] + 1)]
          /\ overflown' = IF Len(queue[c]) >= MaxQueue
                          THEN overflown \cup {c} ELSE overflown
  BY DEF PollFrame
<1>2. taken' = taken
  BY DEF PollFrame, PollUnchanged, dartVars
<1>3. DOMAIN queue' = Subscribed /\ DOMAIN pos' = Subscribed /\ DOMAIN taken' = Subscribed
  BY <1>1, <1>2 DEF QueueInv
<1>4. ASSUME NEW d \in Subscribed
      PROVE  Window(queue'[d], pos'[d], taken'[d], d \notin overflown')
  <2>1. Window(queue[d], pos[d], taken[d], d \notin overflown)
    BY DEF QueueInv
  <2>2. CASE d # c
    <3>1. queue'[d] = queue[d] /\ pos'[d] = pos[d] /\ (d \in overflown' <=> d \in overflown)
      BY <1>1, <2>2 DEF QueueInv
    <3> QED
      BY <2>1, <3>1, <1>2
  <2>3. CASE d = c
    <3>1. queue'[d] = Queued(d, pos[d] + 1) /\ pos'[d] = pos[d] + 1
      BY <1>1, <2>3 DEF QueueInv
    <3>2. MaxQueue \in Nat /\ Len(queue[d]) \in Nat
      BY <2>1, BridgeAssumption DEF Window
    <3>3. CASE Len(queue[d]) >= MaxQueue
      <4>1. queue'[d] = Append(Tail(queue[d]), pos[d] + 1) /\ d \in overflown'
        BY <3>1, <3>3, <1>1, <2>3 DEF Queued
      <4> QED
        BY <4>1, <3>1, <2>1, <3>3, <1>2, WindowSlide
    <3>4. CASE Len(queue[d]) < MaxQueue
      <4>1. queue'[d] = Append(queue[d], pos[d] + 1) /\ (d \in overflown' <=> d \in overflown)
        BY <3>1, <3>2, <3>4, <1>1, <2>3 DEF Queued
      <4> QED
        BY <4>1, <3>1, <2>1, <3>4, <1>2, WindowAppend
    <3> QED
      BY <3>2, <3>3, <3>4
  <2> QED
    BY <2>2, <2>3
<1> QED
  BY <1>3, <1>4 DEF QueueInv

LEMMA ReceiveQueue ==
    ASSUME QueueInv, Receive
    PROVE  QueueInv'
<1>1. PICK c : \/ UNCHANGED <<queue, taken>>
               \/ /\ queue[c] # <<>>
                  /\ queue' = [queue EXCEPT ![c] = Tail(@)]
                  /\ taken' = [taken EXCEPT ![c] = Head(queue[c])]
  BY DEF Receive
<1>2. pos' = pos /\ overflown' = overflown
  BY DEF Receive, DartUnchanged, pollVars
<1>3. DOMAIN queue' = Subscribed /\ DOMAIN pos' = Subscribed /\ DOMAIN taken' = Subscribed
  BY <1>1, <1>2 DEF QueueInv
<1>4. ASSUME NEW d \in Subscribed
      PROVE  Window(queue'[d], pos'[d], taken'[d], d \notin overflown')
  <2>1. Window(queue[d], pos[d], taken[d], d \notin overflown)
    BY DEF QueueInv
  <2>2. CASE queue'[d] = queue[d] /\ taken'[d] = taken[d]
    BY <2>1, <2>2, <1>2
  <2>3. CASE queue[d] # <<>> /\ queue'[d] = Tail(queue[d]) /\ taken'[d] = Head(queue[d])
    <3>1. Window(queue'[d], pos'[d], taken'[d], TRUE)
      BY <2>1, <2>3, <1>2, WindowTake
    <3> QED
      BY <3>1 DEF Window
  <2> QED
    BY <1>1, <2>2, <2>3 DEF QueueInv
<1> QED
  BY <1>3, <1>4 DEF QueueInv

LEMMA InitQueue == Init => QueueInv
<1> SUFFICES ASSUME Init PROVE QueueInv
  OBVIOUS
<1>1. \A c \in Subscribed : queue[c] = <<>> /\ pos[c] = 0 /\ taken[c] = 0
  BY DEF Init
<1>2. Window(<<>>, 0, 0, TRUE)
  BY EmptyWindow
<1>3. \A c \in Subscribed : Window(queue[c], pos[c], taken[c], c \notin overflown)
  BY <1>1, <1>2 DEF Window
<1> QED
  BY <1>3 DEF Init, QueueInv

LEMMA QueueInvStep == QueueInv /\ [Next]_vars => QueueInv'
<1> SUFFICES ASSUME QueueInv, [Next]_vars PROVE QueueInv'
  OBVIOUS
<1>1. CASE PollFrame
  BY <1>1, PollFrameQueue
<1>2. CASE Receive
  BY <1>2, ReceiveQueue
<1>3. ASSUME ~PollFrame, ~Receive
      PROVE  UNCHANGED <<queue, pos, taken, overflown>>
  BY <1>3 DEF Next, PollStep, PollEnds, TakeChanged, Rebuild, PollReturns,
         PollUnchanged, DartStep, FlagAndStart, SpinOnce, Dispose, RemotePublish, AddHandler,
         Subscribe, Unsubscribe, HandlerReturns, PassDone, NodeDestroy, Closed, Publish,
         DartUnchanged, pollVars, dartVars, vars
<1> QED
  BY <1>1, <1>2, <1>3 DEF QueueInv

\* The queues hold the newest frames drained, without a gap, within their limit.
THEOREM QueueHoldsNewestHolds == Spec => []QueueHoldsNewest
<1>1. QueueInv => QueueHoldsNewest
  BY DEF QueueInv, Window, QueueHoldsNewest
<1> QED
  BY <1>1, InitQueue, QueueInvStep, PTL DEF Spec

(***************************************************************************)
(* Handlers that are taken off a list.                                     *)
(***************************************************************************)
\* A number with a property has a least one below it.
LEMMA LeastNat ==
    ASSUME NEW S \in SUBSET Nat, S # {}
    PROVE  \E n \in S : \A m \in S : n <= m
<1>1. PICK n \in S : \A m \in S : ~ (<<m, n>> \in OpToRel(<, Nat))
  <2> DEFINE R == OpToRel(<, Nat)
  <2>1. IsWellFoundedOn(R, Nat)
    BY NatLessThanWellFounded
  <2> HIDE DEF R
  <2>2. \E n \in S : \A m \in S : ~ (<<m, n>> \in R)
    BY <2>1, WFMin
  <2> QED
    BY <2>2 DEF R
<1>2. \A m \in S : ~ (m < n)
  BY <1>1 DEF OpToRel
<1> QED
  BY <1>2

\* What Without computes for the first n handlers of hs.
Keep(f, hs, h, n) ==
    f = [i \in 0..n |-> IF i = 0 THEN <<>>
                        ELSE IF hs[i] = h THEN f[i - 1] ELSE Append(f[i - 1], hs[i])]

LEMMA KeepExists ==
    ASSUME NEW hs, NEW h, NEW n \in Nat
    PROVE  \E f : Keep(f, hs, h, n)
<1> DEFINE Stuck == {m \in Nat : ~ \E f : Keep(f, hs, h, m)}
<1>1. 0 \notin Stuck
  <2>1. Keep([i \in 0..0 |-> <<>>], hs, h, 0)
    BY DEF Keep
  <2> QED
    BY <2>1
<1>2. ASSUME NEW m \in Nat, m \notin Stuck PROVE m + 1 \notin Stuck
  <2>1. PICK f : Keep(f, hs, h, m)
    BY <1>2
  <2> DEFINE x == IF hs[m + 1] = h THEN f[m] ELSE Append(f[m], hs[m + 1])
             g == [i \in 0..(m + 1) |-> IF i = m + 1 THEN x ELSE f[i]]
  <2>2. \A i \in 0..m : g[i] = f[i]
    OBVIOUS
  <2>3. g[m + 1] = x
    OBVIOUS
  <2>4. ASSUME NEW i \in 0..(m + 1)
        PROVE  g[i] = IF i = 0 THEN <<>>
                      ELSE IF hs[i] = h THEN g[i - 1] ELSE Append(g[i - 1], hs[i])
    <3>1. CASE i = m + 1
      <4>1. i - 1 = m /\ i # 0 /\ g[i - 1] = f[m]
        BY <3>1
      <4> HIDE DEF g
      <4> QED
        BY <3>1, <4>1, <2>3
    <3>2. CASE i # m + 1
      <4>1. i \in 0..m /\ (i # 0 => i - 1 \in 0..m)
        BY <3>2
      <4>2. f[i] = IF i = 0 THEN <<>>
                   ELSE IF hs[i] = h THEN f[i - 1] ELSE Append(f[i - 1], hs[i])
        BY <2>1, <4>1 DEF Keep
      <4> HIDE DEF g
      <4> QED
        BY <4>1, <4>2, <2>2
    <3> QED
      BY <3>1, <3>2
  <2>5. g = [i \in 0..(m + 1) |-> g[i]]
    OBVIOUS
  <2> HIDE DEF g
  <2>6. Keep(g, hs, h, m + 1)
    BY <2>4, <2>5 DEF Keep
  <2> QED
    BY <2>6
<1>3. Stuck = {}
  <2> SUFFICES ASSUME Stuck # {} PROVE FALSE
    OBVIOUS
  <2>1. PICK m \in Stuck : \A k \in Stuck : m <= k
    <3> HIDE DEF Stuck
    <3>1. Stuck \in SUBSET Nat
      BY DEF Stuck
    <3> QED
      BY <3>1, LeastNat
  <2>2. m \in Nat /\ m # 0 /\ m - 1 \in Nat /\ m - 1 \notin Stuck /\ (m - 1) + 1 = m
    BY <1>1, <2>1
  <2> HIDE DEF Stuck
  <2> QED
    BY <1>2, <2>1, <2>2
<1> QED
  BY <1>3

\* What is left of a list of handlers is one, without the handler taken off.
LEMMA WithoutType ==
    ASSUME NEW hs \in Seq(Handlers), NEW h
    PROVE  /\ Without(hs, h) \in Seq(Handlers)
           /\ \A i \in DOMAIN Without(hs, h) : Without(hs, h)[i] # h
<1> DEFINE n == Len(hs)
           kept == CHOOSE f : Keep(f, hs, h, n)
<1>1. n \in Nat
  OBVIOUS
<1>2. Without(hs, h) = kept[n]
  BY DEF Without, Keep
<1>3. Keep(kept, hs, h, n)
  BY <1>1, KeepExists
<1> HIDE DEF kept
<1> DEFINE Good(q) == q \in Seq(Handlers) /\ \A i \in DOMAIN q : q[i] # h
           Bad == {m \in 0..n : ~Good(kept[m])}
<1>4. Good(kept[0])
  <2>1. kept[0] = <<>>
    BY <1>1, <1>3 DEF Keep
  <2> QED
    BY <2>1
<1>5. ASSUME NEW m \in 1..n, Good(kept[m - 1]) PROVE Good(kept[m])
  <2>1. /\ kept[m] = IF hs[m] = h THEN kept[m - 1] ELSE Append(kept[m - 1], hs[m])
        /\ hs[m] \in Handlers
    <3>1. m \in 0..n /\ m # 0 /\ hs[m] \in Handlers
      BY <1>1
    <3> QED
      BY <3>1, <1>3 DEF Keep
  <2>2. PICK q : q = kept[m - 1]
    OBVIOUS
  <2>3. q \in Seq(Handlers) /\ \A i \in DOMAIN q : q[i] # h
    BY <1>5, <2>2
  <2>4. hs[m] # h => Good(Append(q, hs[m]))
    <3>1. /\ Append(q, hs[m]) \in Seq(Handlers) /\ DOMAIN Append(q, hs[m]) = 1..(Len(q) + 1)
          /\ DOMAIN q = 1..Len(q) /\ Len(q) \in Nat
          /\ \A i \in 1..Len(q) : Append(q, hs[m])[i] = q[i]
          /\ Append(q, hs[m])[Len(q) + 1] = hs[m]
      BY <2>1, <2>3
    <3> QED
      BY <2>3, <3>1
  <2> QED
    BY <2>1, <2>2, <2>3, <2>4
<1>6. Bad = {}
  <2> SUFFICES ASSUME Bad # {} PROVE FALSE
    OBVIOUS
  <2>1. PICK m \in Bad : \A k \in Bad : m <= k
    <3>1. Bad \in SUBSET Nat
      BY <1>1
    <3> HIDE DEF Bad
    <3> QED
      BY <3>1, LeastNat
  <2> HIDE DEF Good
  <2>2. m \in 1..n /\ m - 1 \in 0..n /\ m - 1 \notin Bad
    BY <1>1, <1>4, <2>1
  <2>3. Good(kept[m - 1])
    BY <2>2
  <2> QED
    BY <1>5, <2>1, <2>2, <2>3
<1> QED
  BY <1>1, <1>2, <1>6

(***************************************************************************)
(* Types.                                                                  *)
(***************************************************************************)
\* No reader is ahead of its ring.
FrameInv ==
    /\ published \in [Subscribed -> Nat]
    /\ \A c \in Subscribed : pos[c] <= published[c] /\ published[c] <= MaxSeq[c]

ThreadInv ==
    /\ opened \subseteq Subscribed /\ snapshot \subseteq Subscribed
    /\ overflown \subseteq Subscribed
    /\ changed \in BOOLEAN /\ stopping \in BOOLEAN
    /\ poll \in {"none", "loop", "rebuild", "wait", "ended"}

\* A handle has a list of handlers, and is freed once the list is empty.
HandleInv ==
    /\ chan \in Seq(Subscribed) /\ Len(chan) <= MaxHandles
    /\ handlers \in Seq(Seq(Handlers)) /\ Len(handlers) = Len(chan)
    /\ entry \in [Subscribed -> 0..Len(chan)]
    /\ freed \subseteq 1..Len(chan) /\ todo \subseteq 1..Len(chan)
    /\ \A k \in 1..Len(chan) : k \notin freed => handlers[k] # <<>>

\* While the isolate is in a handler, also in a call it makes there, that handler is
\* the first of those still to be called.
InHandler == \/ dart = "handler"
             \/ dart \in {"flag", "joining"} /\ back = "handler"

CallInv ==
    /\ dart \in {"idle", "flag", "receive", "handler", "joining", "disposed", "crashed"}
    /\ back \in {"idle", "handler"}
    /\ calling \in Seq(Handlers)
    /\ InHandler => calling # <<>>

SendInv == /\ pub \in {NoPub} \cup [size : Range(Size), last : Values \cup {"none"}]
           /\ newest \in Values \cup {"none"} /\ plain \in BOOLEAN /\ sends \in 0..MaxSends

TypeInv == FrameInv /\ ThreadInv /\ HandleInv /\ CallInv /\ SendInv

LEMMA PollTypes == QueueInv /\ TypeInv /\ PollStep => TypeInv'
<1> SUFFICES ASSUME QueueInv, TypeInv, PollStep PROVE TypeInv'
  OBVIOUS
<1>1. UNCHANGED <<published, opened, stopping, dart, dartVars, pubVars>>
  BY DEF PollStep, PollEnds, TakeChanged, Rebuild, PollFrame, PollReturns, PollUnchanged
<1>2. HandleInv' /\ CallInv' /\ SendInv'
  BY <1>1 DEF TypeInv, HandleInv, CallInv, InHandler, SendInv, dartVars, pubVars
<1>3. ThreadInv'
  BY <1>1 DEF TypeInv, ThreadInv, PollStep, PollEnds, TakeChanged, Rebuild, PollFrame, PollReturns
<1>4. FrameInv'
  <2>1. CASE PollFrame
    <3>1. PICK c \in snapshot : pos[c] < published[c] /\ pos' = [pos EXCEPT ![c] = @ + 1]
      BY <2>1 DEF PollFrame
    <3>2. ASSUME NEW d \in Subscribed PROVE pos'[d] <= published[d]
      <4>1. pos[d] \in Nat /\ published[d] \in Nat /\ pos[d] <= published[d]
        BY DEF QueueInv, Window, TypeInv, FrameInv
      <4>2. pos'[d] = IF d = c THEN pos[d] + 1 ELSE pos[d]
        BY <3>1 DEF QueueInv
      <4> QED
        BY <3>1, <4>1, <4>2
    <3> QED
      BY <1>1, <3>2 DEF TypeInv, FrameInv
  <2>2. CASE ~PollFrame
    <3>1. pos' = pos
      BY <2>2 DEF PollStep, PollEnds, TakeChanged, Rebuild, PollReturns
    <3> QED
      BY <1>1, <3>1 DEF TypeInv, FrameInv
  <2> QED
    BY <2>1, <2>2
<1> QED
  BY <1>2, <1>3, <1>4 DEF TypeInv

\* Steps of the isolate that change no list of handlers.
LEMMA DartTypes == QueueInv /\ TypeInv /\ (DartStep \/ SpinOnce \/ Dispose) => TypeInv'
<1> SUFFICES ASSUME QueueInv, TypeInv, DartStep \/ SpinOnce \/ Dispose PROVE TypeInv'
  OBVIOUS
<1>1. UNCHANGED <<published, pos, snapshot, overflown, chan, handlers, newest, plain, sends>>
  BY DEF DartStep, FlagAndStart, Receive, HandlerReturns, PassDone, NodeDestroy, Closed,
         SpinOnce, Dispose, DartUnchanged, pollVars, pubVars
<1>2. FrameInv'
  BY <1>1 DEF TypeInv, FrameInv
<1>3. ThreadInv'
  BY <1>1 DEF TypeInv, ThreadInv, DartStep, FlagAndStart, Receive, HandlerReturns, PassDone,
     NodeDestroy, Closed, SpinOnce, Dispose, DartUnchanged, pollVars
<1>4. SendInv'
  BY <1>1 DEF TypeInv, SendInv, DartStep, FlagAndStart, Receive, HandlerReturns, PassDone,
     NodeDestroy, Closed, SpinOnce, Dispose, DartUnchanged, pubVars
<1>5. HandleInv'
  <2>1. Len(chan) \in Nat /\ Live \subseteq 1..Len(chan)
    BY DEF TypeInv, HandleInv, Live
  <2>2. freed \subseteq freed' /\ freed' \subseteq freed \cup Live
    BY DEF DartStep, FlagAndStart, Receive, HandlerReturns, PassDone, NodeDestroy, Closed,
           SpinOnce, Dispose
  <2>3. todo' \subseteq todo \cup Live
    BY DEF DartStep, FlagAndStart, Receive, HandlerReturns, PassDone, NodeDestroy, Closed,
           SpinOnce, Dispose
  <2>4. entry' = entry \/ entry' = [c \in Subscribed |-> 0]
    BY DEF DartStep, FlagAndStart, Receive, HandlerReturns, PassDone, NodeDestroy, Closed,
           SpinOnce, Dispose
  <2>5. entry' \in [Subscribed -> 0..Len(chan)]
    <3>1. entry \in [Subscribed -> 0..Len(chan)] /\ 0 \in 0..Len(chan)
      BY <2>1 DEF TypeInv, HandleInv
    <3> QED
      BY <3>1, <2>4
  <2>6. freed' \subseteq 1..Len(chan) /\ todo' \subseteq 1..Len(chan)
    BY <2>1, <2>2, <2>3 DEF TypeInv, HandleInv
  <2>7. \A k \in 1..Len(chan) : k \notin freed' => handlers[k] # <<>>
    BY <2>2 DEF TypeInv, HandleInv
  <2> QED
    BY <1>1, <2>5, <2>6, <2>7 DEF TypeInv, HandleInv
<1>6. CallInv'
  <2>1. CASE FlagAndStart
    BY <2>1 DEF TypeInv, CallInv, InHandler, FlagAndStart
  <2>2. CASE Receive
    <3>1. /\ back' = back /\ dart = "receive"
          /\ \/ dart' = "crashed" /\ calling' = calling
             \/ dart' = dart /\ calling' = calling
             \/ \E k \in todo : k \notin freed /\ calling' = handlers[k] /\ dart' = "handler"
      BY <2>2 DEF Receive
    <3>2. \A k \in todo : k \notin freed => handlers[k] \in Seq(Handlers) /\ handlers[k] # <<>>
      BY DEF TypeInv, HandleInv
    <3> QED
      BY <3>1, <3>2 DEF TypeInv, CallInv, InHandler
  <2>3. CASE HandlerReturns
    <3>1. calling \in Seq(Handlers) /\ calling # <<>> /\ back' = back /\ calling' = Tail(calling)
          /\ dart' = IF Len(calling) = 1 THEN "receive" ELSE "handler"
      BY <2>3 DEF HandlerReturns, TypeInv, CallInv, InHandler
    <3>2. PICK q : q = calling
      OBVIOUS
    <3>3. Tail(q) \in Seq(Handlers) /\ Len(q) \in Nat \ {0} /\ Len(Tail(q)) = Len(q) - 1
      BY <3>1, <3>2
    <3>4. ASSUME Tail(q) = <<>> PROVE Len(q) = 1
      <4>1. Len(<<>>) = 0
        OBVIOUS
      <4>2. Len(Tail(q)) = 0
        BY <3>4, <4>1, Zenon
      <4>3. \A m, n : n \in Nat /\ m = n - 1 /\ m = 0 => n = 1
        OBVIOUS
      <4> QED
        BY <3>3, <4>2, <4>3, Zenon
    <3> QED
      BY <3>1, <3>2, <3>3, <3>4 DEF TypeInv, CallInv, InHandler
  <2>4. CASE PassDone
    BY <2>4 DEF PassDone, TypeInv, CallInv, InHandler
  <2>5. CASE NodeDestroy
    BY <2>5 DEF NodeDestroy, Closed, TypeInv, CallInv, InHandler
  <2>6. CASE SpinOnce
    BY <2>6 DEF SpinOnce, TypeInv, CallInv, InHandler
  <2>7. CASE Dispose
    BY <2>7 DEF Dispose, MayCall, TypeInv, CallInv, InHandler
  <2> QED
    BY <2>1, <2>2, <2>3, <2>4, <2>5, <2>6, <2>7 DEF DartStep
<1> QED
  BY <1>2, <1>3, <1>4, <1>5, <1>6 DEF TypeInv

\* What a subscription leaves alone.
SubscriptionFrame == UNCHANGED <<published, pos, snapshot, overflown, changed, stopping, poll,
                                 todo, calling, pub, newest, plain, sends>>

LEMMA SubscriptionTypes ==
    ASSUME TypeInv, SubscriptionFrame, opened' \subseteq Subscribed, HandleInv', CallInv'
    PROVE  TypeInv'
  BY DEF TypeInv, SubscriptionFrame, FrameInv, ThreadInv, SendInv

LEMMA AddHandlerTypes ==
    ASSUME TypeInv, NEW c \in Subscribed, NEW h \in Handlers, AddHandler(c, h)
    PROVE  TypeInv'
<1>1. /\ SubscriptionFrame /\ opened' = opened
      /\ UNCHANGED <<dart, back, entry, chan, freed>>
      /\ entry[c] # 0 /\ handlers' = [handlers EXCEPT ![entry[c]] = Append(@, h)]
  BY DEF AddHandler, SubscriptionFrame, DartUnchanged, pollVars, pubVars
<1>2. PICK k \in 1..Len(chan) : k = entry[c]
  BY <1>1 DEF TypeInv, HandleInv
<1>3. handlers[k] \in Seq(Handlers)
  BY <1>2 DEF TypeInv, HandleInv
<1>4. Append(handlers[k], h) \in Seq(Handlers) /\ Append(handlers[k], h) # <<>>
  BY <1>3
<1>5. PICK l : l = Append(handlers[k], h)
  OBVIOUS
<1>6. handlers' = [handlers EXCEPT ![k] = l]
  BY <1>1, <1>2, <1>5
<1>7. HandleInv'
  <2>1. l \in Seq(Handlers) /\ l # <<>>
    BY <1>4, <1>5
  <2>2. /\ handlers' \in Seq(Seq(Handlers)) /\ Len(handlers') = Len(chan)
        /\ \A j \in 1..Len(chan) : handlers'[j] = IF j = k THEN l ELSE handlers[j]
    BY <1>6, <2>1 DEF TypeInv, HandleInv
  <2>3. \A j \in 1..Len(chan) : j \notin freed => handlers'[j] # <<>>
    BY <2>1, <2>2 DEF TypeInv, HandleInv
  <2> QED
    BY <1>1, <2>2, <2>3 DEF TypeInv, HandleInv, SubscriptionFrame
<1>8. CallInv'
  BY <1>1 DEF TypeInv, CallInv, InHandler, SubscriptionFrame
<1> QED
  BY <1>1, <1>7, <1>8, SubscriptionTypes DEF TypeInv, ThreadInv

LEMMA SubscribeTypes ==
    ASSUME TypeInv, NEW c \in Subscribed, NEW h \in Handlers, Subscribe(c, h)
    PROVE  TypeInv'
<1>1. /\ SubscriptionFrame /\ opened' = opened \cup {c}
      /\ freed' = freed /\ dart \in {"idle", "handler"} /\ Len(chan) < MaxHandles
      /\ entry' = [entry EXCEPT ![c] = Len(chan) + 1]
      /\ chan' = Append(chan, c) /\ handlers' = Append(handlers, <<h>>)
      /\ \/ dart' = dart /\ back' = back
         \/ dart' = "flag" /\ back' = dart
  BY DEF Subscribe, MayCall, SubscriptionFrame, DartUnchanged, pollVars, pubVars
<1>2. PICK n \in Nat : n = Len(chan)
  BY DEF TypeInv, HandleInv
<1>3. chan' \in Seq(Subscribed) /\ Len(chan') = n + 1 /\ n + 1 <= MaxHandles
  BY <1>1, <1>2, BridgeAssumption DEF TypeInv, HandleInv
<1>4. PICK l : l = <<h>>
  OBVIOUS
<1>5. l \in Seq(Handlers) /\ l # <<>>
  BY <1>4
<1>6. /\ handlers' \in Seq(Seq(Handlers)) /\ Len(handlers') = n + 1
      /\ handlers'[n + 1] = l /\ \A k \in 1..n : handlers'[k] = handlers[k]
  BY <1>1, <1>2, <1>4, <1>5 DEF TypeInv, HandleInv
<1>7. HandleInv'
  <2>1. entry' \in [Subscribed -> 0..(n + 1)]
    BY <1>1, <1>2 DEF TypeInv, HandleInv
  <2>2. freed' \subseteq 1..(n + 1) /\ todo' \subseteq 1..(n + 1)
    BY <1>1, <1>2 DEF TypeInv, HandleInv, SubscriptionFrame
  <2>3. \A k \in 1..(n + 1) : k \notin freed' => handlers'[k] # <<>>
    <3> TAKE k \in 1..(n + 1)
    <3>1. k = n + 1 \/ k \in 1..n
      OBVIOUS
    <3> QED
      BY <3>1, <1>1, <1>2, <1>5, <1>6 DEF TypeInv, HandleInv
  <2> QED
    BY <1>3, <1>6, <2>1, <2>2, <2>3 DEF HandleInv
<1>8. CallInv'
  BY <1>1 DEF TypeInv, CallInv, InHandler, SubscriptionFrame
<1> QED
  BY <1>1, <1>7, <1>8, SubscriptionTypes DEF TypeInv, ThreadInv

LEMMA UnsubscribeTypes ==
    ASSUME TypeInv, NEW c \in Subscribed, NEW h \in Handlers, Unsubscribe(c, h)
    PROVE  TypeInv'
<1>1. PICK k \in 1..Len(chan) : k = entry[c]
  BY DEF Unsubscribe, TypeInv, HandleInv
<1>2. PICK left : left = Without(handlers[k], h)
  OBVIOUS
<1>3. /\ SubscriptionFrame /\ UNCHANGED <<opened, dart, back, chan>>
      /\ handlers' = [handlers EXCEPT ![k] = left]
      /\ entry' = [entry EXCEPT ![c] = IF left = <<>> THEN 0 ELSE k]
      /\ freed' = IF left = <<>> THEN freed \cup {k} ELSE freed
  BY <1>1, <1>2 DEF Unsubscribe, SubscriptionFrame, DartUnchanged, pollVars, pubVars
<1>4. left \in Seq(Handlers)
  BY <1>2, WithoutType DEF TypeInv, HandleInv
<1>5. HandleInv'
  <2>1. handlers' \in Seq(Seq(Handlers)) /\ Len(handlers') = Len(chan)
        /\ \A j \in 1..Len(chan) : handlers'[j] = IF j = k THEN left ELSE handlers[j]
    BY <1>3, <1>4, SMTT(30) DEF TypeInv, HandleInv
  <2>2. entry' \in [Subscribed -> 0..Len(chan)] /\ freed' \subseteq 1..Len(chan)
    BY <1>3 DEF TypeInv, HandleInv
  <2>3. \A j \in 1..Len(chan) : j \notin freed' => handlers'[j] # <<>>
    BY <1>3, <2>1 DEF TypeInv, HandleInv
  <2> QED
    BY <1>3, <2>1, <2>2, <2>3 DEF TypeInv, HandleInv, SubscriptionFrame
<1>6. CallInv'
  BY <1>3 DEF TypeInv, CallInv, InHandler, SubscriptionFrame
<1> QED
  BY <1>3, <1>5, <1>6, SubscriptionTypes DEF TypeInv, ThreadInv

LEMMA PublishTypes ==
    ASSUME TypeInv, NEW v \in Values, NEW dedup \in BOOLEAN, Publish(v, dedup)
    PROVE  TypeInv'
<1>1. /\ UNCHANGED <<published, opened, changed, stopping, queue, dart, pollVars, dartVars>>
      /\ sends < MaxSends /\ sends' = sends + 1 /\ plain' = (plain \/ ~dedup)
  BY DEF Publish
<1>2. Size[v] \in Range(Size) /\ Remember(v, dedup) \in {v, pub.last}
  BY BridgeAssumption DEF Range, Remember
<1>3. pub.last \in Values \cup {"none"} /\ (pub # NoPub => pub.size \in Range(Size))
  BY DEF TypeInv, SendInv, NoPub
<1>4. newest' \in {newest, v}
      /\ \/ pub' \in {pub, NoPub}
         \/ \E n \in Range(Size) : pub' = [size |-> n, last |-> Remember(v, dedup)]
  BY <1>2, <1>3 DEF Publish, GrowFails
<1>5. SendInv'
  BY <1>1, <1>2, <1>3, <1>4, BridgeAssumption DEF TypeInv, SendInv
<1> QED
  BY <1>1, <1>5 DEF TypeInv, FrameInv, ThreadInv, HandleInv, CallInv, InHandler, pollVars, dartVars

LEMMA RemotePublishTypes ==
    ASSUME QueueInv, TypeInv, NEW c \in Subscribed, RemotePublish(c)
    PROVE  TypeInv'
<1>1. /\ published[c] < MaxSeq[c] /\ published' = [published EXCEPT ![c] = @ + 1]
      /\ UNCHANGED <<opened, changed, stopping, queue, dart, pollVars, dartVars, pubVars>>
  BY DEF RemotePublish
<1>2. FrameInv'
  <2>1. published' \in [Subscribed -> Nat]
    BY <1>1 DEF TypeInv, FrameInv
  <2>2. ASSUME NEW d \in Subscribed PROVE pos'[d] <= published'[d] /\ published'[d] <= MaxSeq[d]
    <3>1. /\ pos[d] \in Nat /\ published[d] \in Nat /\ MaxSeq[d] \in Nat
          /\ pos[d] <= published[d] /\ published[d] <= MaxSeq[d]
      BY BridgeAssumption DEF QueueInv, Window, TypeInv, FrameInv
    <3>2. published'[d] = IF d = c THEN published[d] + 1 ELSE published[d]
      BY <1>1 DEF TypeInv, FrameInv
    <3> QED
      BY <1>1, <3>1, <3>2 DEF pollVars
  <2> QED
    BY <2>1, <2>2 DEF FrameInv
<1> QED
  BY <1>1, <1>2 DEF TypeInv, ThreadInv, HandleInv, CallInv, InHandler, SendInv, pollVars,
     dartVars, pubVars

LEMMA TypeStep == QueueInv /\ TypeInv /\ [Next]_vars => TypeInv'
<1> SUFFICES ASSUME QueueInv, TypeInv, [Next]_vars PROVE TypeInv'
  OBVIOUS
<1>1. CASE UNCHANGED vars
  BY <1>1, SMTT(30) DEF vars, pollVars, dartVars, pubVars, TypeInv, FrameInv, ThreadInv,
     HandleInv, CallInv, InHandler, SendInv
<1> QED
  BY <1>1, PollTypes, DartTypes, RemotePublishTypes, AddHandlerTypes, SubscribeTypes,
     UnsubscribeTypes, PublishTypes DEF Next

\* Every variable of the bridge and of the isolate keeps its type: in particular a frame
\* in a queue is one that was published, and an entry is a handle that was made.
THEOREM TypeCorrect == Spec => []TypeOK
<1>1. Init => TypeInv
  <2> SUFFICES ASSUME Init PROVE TypeInv
    OBVIOUS
  <2>1. FrameInv
    <3>1. /\ published = [c \in Subscribed |-> 0] /\ pos = [c \in Subscribed |-> 0]
          /\ \A c \in Subscribed : MaxSeq[c] \in Nat
      BY BridgeAssumption DEF Init
    <3> QED
      BY <3>1 DEF FrameInv
  <2>2. HandleInv
    <3>1. /\ chan \in Seq(Subscribed) /\ Len(chan) = 0
          /\ handlers \in Seq(Seq(Handlers)) /\ Len(handlers) = 0
      BY DEF Init
    <3>2. entry \in [Subscribed -> 0..0] /\ freed = {} /\ todo = {}
      BY DEF Init
    <3> QED
      BY <3>1, <3>2, BridgeAssumption DEF HandleInv
  <2>3. ThreadInv /\ CallInv
    <3>1. calling \in Seq(Handlers) /\ dart = "idle" /\ back = "idle"
      BY DEF Init
    <3>2. opened = {} /\ snapshot = {} /\ overflown = {} /\ changed = FALSE /\ stopping = FALSE
          /\ poll = "none"
      BY DEF Init
    <3> QED
      BY <3>1, <3>2 DEF ThreadInv, CallInv, InHandler
  <2>4. SendInv
    <3>1. pub = NoPub /\ newest = "none" /\ plain = FALSE /\ sends = 0 /\ 0 \in 0..MaxSends
      BY BridgeAssumption DEF Init
    <3> QED
      BY <3>1 DEF SendInv
  <2> QED
    BY <2>1, <2>2, <2>3, <2>4 DEF TypeInv
<1>2. QueueInv /\ TypeInv => TypeOK
  <2> SUFFICES ASSUME QueueInv, TypeInv PROVE TypeOK
    OBVIOUS
  <2>1. ASSUME NEW c \in Subscribed
        PROVE  /\ published[c] \in 0..MaxSeq[c] /\ pos[c] \in 0..MaxSeq[c]
               /\ taken[c] \in 0..MaxSeq[c]
               /\ queue[c] \in Seq(1..MaxSeq[c]) /\ Len(queue[c]) <= MaxQueue
    <3>1. PICK q : q = queue[c]
      OBVIOUS
    <3>2. PICK p : p = pos[c]
      OBVIOUS
    <3>3. PICK t : t = taken[c]
      OBVIOUS
    <3>4. /\ q \in Seq(Nat) /\ Len(q) \in Nat /\ Len(q) <= MaxQueue /\ p \in Nat /\ t \in Nat
          /\ \A i \in 1..Len(q) : q[i] = p - Len(q) + i
          /\ t <= p - Len(q)
      BY <3>1, <3>2, <3>3 DEF QueueInv, Window
    <3>5. published[c] \in Nat /\ MaxSeq[c] \in Nat /\ p <= published[c] /\ published[c] <= MaxSeq[c]
      BY <3>2, BridgeAssumption DEF TypeInv, FrameInv
    <3>6. \A i \in 1..Len(q) : q[i] \in 1..MaxSeq[c]
      BY <3>4, <3>5
    <3>7. q \in Seq(1..MaxSeq[c])
      <4> DEFINE r == [i \in 1..Len(q) |-> q[i]]
      <4>1. r \in Seq(1..MaxSeq[c])
        BY <3>4, <3>6
      <4>2. q = r
        BY <3>4
      <4> QED
        BY <4>1, <4>2
    <3> QED
      BY <3>1, <3>2, <3>3, <3>4, <3>5, <3>7
  <2>2. handlers \in [DOMAIN chan -> Seq(Handlers)] /\ DOMAIN chan = 1..Len(chan)
    BY DEF TypeInv, HandleInv
  <2> QED
    BY <2>1, <2>2 DEF TypeOK, TypeInv, ThreadInv, HandleInv, CallInv, SendInv
<1> QED
  BY <1>1, <1>2, InitQueue, QueueInvStep, TypeStep, PTL DEF Spec
====
