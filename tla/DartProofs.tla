---- MODULE DartProofs ----
(***************************************************************************)
(* Proofs about reliable delivery in the Dart package, for any processes,  *)
(* hashes, messages, fragments and limits: an envelope is handled once     *)
(* while it is remembered, what is handled is whole unless a duplicate or  *)
(* a message of its size met it in its buffer, what is published is not    *)
(* forgotten before it was handled or given up, and while it is pending    *)
(* the retry timer runs.                                                   *)
(***************************************************************************)
EXTENDS DartTransport, FiniteSetTheorems, TLAPS

Keys     == {Key(p, n) : p \in Senders, n \in 0..MaxSeqno}
Datagram == [key : Keys, part : 1..Fragments, size : Nat, msg : Message]
Buffer   == [size : Nat, remaining : Int, parts : [1..Fragments -> Message \cup {Hole}]]

(***************************************************************************)
(* Sending.                                                                *)
(***************************************************************************)
\* A process uses each of its sequence numbers once.
SeqInv ==
    /\ seqno \in [Senders -> 0..(MaxSeqno + 1)]
    /\ \A u \in used : \E p \in Senders, n \in 0..MaxSeqno, x \in Nat :
          /\ u = <<Key(p, n), <<p, x>>>> /\ <<p, x>> \in Message
          /\ n < seqno[p]
    /\ \A u, v \in used : u[1] = v[1] /\ u[2][1] = v[2][1] => u = v

\* There is one datagram of a part of a message under a key.
FlightInv ==
    /\ inFlight \subseteq Datagram
    /\ \A d \in inFlight : <<d.key, d.msg>> \in used
    /\ \A d, e \in inFlight : d.key = e.key /\ d.part = e.part /\ d.msg = e.msg => d = e

\* What a publisher may send again are messages of its own.
PendingInv ==
    /\ size \in [Message -> Nat]
    /\ pending \in [Senders -> SUBSET Message]
    /\ \A p \in Senders : /\ pending[p] \subseteq Message
                          /\ pending[p] \subseteq {p} \X Nat
                          /\ IsFiniteSet(pending[p])
                          /\ \A m \in pending[p] : m[2] <= published[p]
    /\ published \in [Senders -> Nat]

\* What was sent has been published, and its fragments tell its size.
SizeInv == /\ \A u \in used : u[2][2] <= published[u[2][1]]
           /\ \A d \in inFlight : d.size = size[d.msg]

\* A step that keeps the size of what was sent.
KeepSizes == \A u \in used : size'[u[2]] = size[u[2]]

\* The numbers of one process have different keys.
LEMMA KeyInjective ==
    ASSUME NEW p \in Senders, NEW n \in 0..MaxSeqno, NEW k \in 0..MaxSeqno,
           Key(p, n) = Key(p, k)
    PROVE  n = k
  BY LcmAssumption

Own(p, ms) == ms \subseteq Message /\ ms \subseteq {p} \X Nat /\ IsFiniteSet(ms)

LEMMA RankType ==
    ASSUME NEW p, NEW ms, Own(p, ms), NEW m \in ms
    PROVE  Rank(m, ms) \in Nat /\ Rank(m, ms) < Cardinality(ms)
<1> DEFINE before == {o \in ms : o[2] < m[2]}
<1>1. before \in SUBSET ms /\ m \notin before /\ m[2] \in Nat
  BY DEF Own
<1>2. /\ IsFiniteSet(before) /\ Cardinality(before) <= Cardinality(ms)
      /\ Cardinality(ms) = Cardinality(before) => ms = before
  BY <1>1, FS_Subset DEF Own
<1>3. Cardinality(before) \in Nat /\ Cardinality(ms) \in Nat
  BY <1>2, FS_CardinalityType DEF Own
<1>4. ms # before
  BY <1>1
<1> QED
  BY <1>2, <1>3, <1>4 DEF Rank

LEMMA RankOrder ==
    ASSUME NEW p, NEW ms, Own(p, ms), NEW m \in ms, NEW o \in ms, m[2] < o[2]
    PROVE  Rank(m, ms) < Rank(o, ms)
<1> DEFINE before(x) == {y \in ms : y[2] < x[2]}
<1>1. \A y \in ms : y[2] \in Nat
  BY DEF Own
<1>2. before(m) \in SUBSET before(o) /\ m \in before(o) /\ m \notin before(m)
  BY <1>1
<1>3. IsFiniteSet(before(m)) /\ IsFiniteSet(before(o))
  <2>1. before(m) \in SUBSET ms /\ before(o) \in SUBSET ms
    OBVIOUS
  <2> QED
    BY <2>1, FS_Subset DEF Own
<1>4. /\ Cardinality(before(m)) <= Cardinality(before(o))
      /\ Cardinality(before(o)) = Cardinality(before(m)) => before(o) = before(m)
  BY <1>2, <1>3, FS_Subset
<1>5. Cardinality(before(m)) \in Nat /\ Cardinality(before(o)) \in Nat
  BY <1>3, FS_CardinalityType
<1> QED
  BY <1>2, <1>4, <1>5 DEF Rank

\* Different messages get different numbers.
LEMMA RankInjective ==
    ASSUME NEW p, NEW ms, Own(p, ms), NEW m \in ms, NEW o \in ms, Rank(m, ms) = Rank(o, ms)
    PROVE  m = o
<1>1. m[2] \in Nat /\ o[2] \in Nat /\ m = <<p, m[2]>> /\ o = <<p, o[2]>>
  BY DEF Own
<1>2. Rank(m, ms) \in Nat /\ Rank(o, ms) \in Nat
  BY RankType
<1>3. ~(m[2] < o[2]) /\ ~(o[2] < m[2])
  BY <1>2, RankOrder
<1> QED
  BY <1>1, <1>3

LEMMA NumberFits ==
    ASSUME SeqInv, NEW p \in Senders, NEW ms, Own(p, ms), NEW sz, Send(p, ms, sz),
           NEW m \in ms
    PROVE  seqno[p] + Rank(m, ms) \in 0..MaxSeqno
<1>1. Rank(m, ms) \in Nat /\ Rank(m, ms) < Cardinality(ms) /\ Cardinality(ms) \in Nat
  BY RankType, FS_CardinalityType DEF Own
<1>2. seqno[p] \in Nat /\ MaxSeqno \in Nat
  BY LcmAssumption DEF SeqInv
<1>3. seqno[p] + Cardinality(ms) <= MaxSeqno + 1
  BY DEF Send
<1> QED
  BY <1>1, <1>2, <1>3

\* What Send puts under way: new keys of the sender, each for one message.
LEMMA SendUses ==
    ASSUME SeqInv, NEW p \in Senders, NEW ms, Own(p, ms), NEW sz, Send(p, ms, sz),
           NEW u \in used' \ used
    PROVE  \E m \in ms : /\ u = <<Key(p, seqno[p] + Rank(m, ms)), m>>
                         /\ m = <<p, m[2]>> /\ m[2] \in Nat
                         /\ Rank(m, ms) \in Nat /\ Rank(m, ms) < Cardinality(ms)
                         /\ seqno[p] + Rank(m, ms) \in 0..MaxSeqno
<1>1. PICK m \in ms : u = <<Key(p, seqno[p] + Rank(m, ms)), m>>
  BY DEF Send
<1>2. m = <<p, m[2]>> /\ m[2] \in Nat
  BY DEF Own
<1> QED
  BY <1>1, <1>2, RankType, NumberFits

LEMMA SendSeq ==
    ASSUME SeqInv, NEW p \in Senders, NEW ms, Own(p, ms), NEW sz, Send(p, ms, sz)
    PROVE  SeqInv'
<1>1. Cardinality(ms) \in Nat
  BY FS_CardinalityType DEF Own
<1>2. /\ seqno' = [seqno EXCEPT ![p] = @ + Cardinality(ms)]
      /\ seqno[p] + Cardinality(ms) <= MaxSeqno + 1
      /\ MaxSeqno \in Nat
  BY LcmAssumption DEF Send
<1>3. /\ seqno' \in [Senders -> 0..(MaxSeqno + 1)] /\ seqno \in [Senders -> Nat]
      /\ seqno'[p] = seqno[p] + Cardinality(ms)
      /\ \A q \in Senders : seqno[q] <= seqno'[q] /\ seqno'[q] \in Nat
  BY <1>1, <1>2 DEF SeqInv
<1>4. ASSUME NEW u \in used'
      PROVE  \E q \in Senders, n \in 0..MaxSeqno, x \in Nat :
                /\ u = <<Key(q, n), <<q, x>>>> /\ <<q, x>> \in Message
                /\ n < seqno'[q]
  <2>1. CASE u \in used
    <3>1. PICK q \in Senders, n \in 0..MaxSeqno, x \in Nat :
                /\ u = <<Key(q, n), <<q, x>>>> /\ <<q, x>> \in Message
                /\ n < seqno[q]
      BY <2>1 DEF SeqInv
    <3>2. n < seqno'[q]
      BY <3>1, <1>3
    <3> QED
      BY <3>1, <3>2
  <2>2. CASE u \notin used
    <3>1. PICK m \in ms : /\ u = <<Key(p, seqno[p] + Rank(m, ms)), m>>
                          /\ m = <<p, m[2]>> /\ m[2] \in Nat
                          /\ Rank(m, ms) \in Nat /\ Rank(m, ms) < Cardinality(ms)
                          /\ seqno[p] + Rank(m, ms) \in 0..MaxSeqno
      BY <2>2, SendUses
    <3>2. seqno[p] + Rank(m, ms) < seqno'[p]
      BY <3>1, <1>1, <1>3
    <3>3. m \in Message
      BY DEF Own
    <3> QED
      BY <3>1, <3>2, <3>3
  <2> QED
    BY <2>1, <2>2
<1>5. ASSUME NEW u \in used', NEW v \in used' \ used, u[1] = v[1], u[2][1] = v[2][1]
      PROVE  u = v
  <2>1. PICK m \in ms : /\ v = <<Key(p, seqno[p] + Rank(m, ms)), m>>
                        /\ m = <<p, m[2]>> /\ m[2] \in Nat /\ Rank(m, ms) \in Nat
                        /\ seqno[p] + Rank(m, ms) \in 0..MaxSeqno
    BY SendUses
  <2>2. CASE u \in used
    <3>1. PICK q \in Senders, n \in 0..MaxSeqno, x \in Nat :
                u = <<Key(q, n), <<q, x>>>> /\ n < seqno[q]
      BY <2>2 DEF SeqInv
    <3>2. q = p
      <4>1. u[2][1] = q
        BY <3>1
      <4>2. v[2][1] = p
        BY <2>1
      <4> QED
        BY <4>1, <4>2, <1>5
    <3>3. n = seqno[p] + Rank(m, ms)
      <4>1. u[1] = Key(q, n)
        BY <3>1
      <4>2. v[1] = Key(p, seqno[p] + Rank(m, ms))
        BY <2>1
      <4> QED
        BY <4>1, <4>2, <3>2, <2>1, <1>5, KeyInjective
    <3> QED
      BY <3>1, <3>2, <3>3, <2>1, <1>3
  <2>3. CASE u \notin used
    <3>1. PICK o \in ms : /\ u = <<Key(p, seqno[p] + Rank(o, ms)), o>>
                          /\ Rank(o, ms) \in Nat
                          /\ seqno[p] + Rank(o, ms) \in 0..MaxSeqno
      BY <2>3, SendUses
    <3>2. seqno[p] + Rank(m, ms) = seqno[p] + Rank(o, ms)
      <4>1. u[1] = Key(p, seqno[p] + Rank(o, ms))
        BY <3>1
      <4>2. v[1] = Key(p, seqno[p] + Rank(m, ms))
        BY <2>1
      <4> QED
        BY <4>1, <4>2, <3>1, <2>1, <1>5, KeyInjective
    <3>3. Rank(m, ms) = Rank(o, ms)
      BY <3>1, <3>2, <2>1, <1>3
    <3> QED
      BY <3>1, <3>3, <2>1, RankInjective
  <2> QED
    BY <2>2, <2>3
<1>6. ASSUME NEW u \in used', NEW v \in used', u[1] = v[1], u[2][1] = v[2][1]
      PROVE  u = v
  <2>1. CASE u \in used /\ v \in used
    BY <2>1, <1>6 DEF SeqInv
  <2> QED
    BY <2>1, <1>5, <1>6
<1> QED
  BY <1>3, <1>4, <1>6 DEF SeqInv

\* What a fragment of a new datagram tells of it.
LEMMA SendFragments ==
    ASSUME SeqInv, NEW p \in Senders, NEW ms, Own(p, ms), NEW sz \in [Message -> Nat],
           Send(p, ms, sz), NEW d \in inFlight' \ inFlight
    PROVE  \E m \in ms, i \in 1..Fragments :
              /\ d = [key |-> Key(p, seqno[p] + Rank(m, ms)), part |-> i,
                      size |-> sz[m], msg |-> m]
              /\ d \in Datagram
              /\ <<d.key, d.msg>> \in used' \ used
<1>1. PICK m \in ms : d \in Fragment(p, seqno[p] + Rank(m, ms), m, sz[m])
  BY DEF Send
<1>2. PICK i \in 1..Fragments :
          d = [key |-> Key(p, seqno[p] + Rank(m, ms)), part |-> i,
               size |-> sz[m], msg |-> m]
  BY <1>1 DEF Fragment
<1>3. /\ m \in Message /\ m = <<p, m[2]>> /\ sz[m] \in Nat /\ Rank(m, ms) \in Nat
      /\ seqno[p] \in Nat /\ seqno[p] + Rank(m, ms) \in 0..MaxSeqno
  <2>1. m \in Message /\ m = <<p, m[2]>>
    BY DEF Own
  <2>2. Rank(m, ms) \in Nat /\ seqno[p] + Rank(m, ms) \in 0..MaxSeqno
    BY RankType, NumberFits
  <2>3. seqno[p] \in Nat
    BY LcmAssumption DEF SeqInv
  <2> QED
    BY <2>1, <2>2, <2>3
<1>4. Key(p, seqno[p] + Rank(m, ms)) \in Keys
  BY <1>3 DEF Keys
<1>5. d \in Datagram
  BY <1>2, <1>3, <1>4 DEF Datagram
<1>6. <<d.key, d.msg>> \in used'
  BY <1>2 DEF Send
<1>7. <<d.key, d.msg>> \notin used
  <2> SUFFICES ASSUME <<d.key, d.msg>> \in used PROVE FALSE
    OBVIOUS
  <2>1. PICK q \in Senders, n \in 0..MaxSeqno, x \in Nat :
            <<d.key, d.msg>> = <<Key(q, n), <<q, x>>>> /\ n < seqno[q]
    BY DEF SeqInv
  <2>2. q = p /\ n = seqno[p] + Rank(m, ms)
    <3>1. d.msg = <<q, x>> /\ d.key = Key(q, n)
      BY <2>1
    <3>2. d.msg = <<p, m[2]>> /\ d.key = Key(p, seqno[p] + Rank(m, ms))
      BY <1>2, <1>3
    <3>3. q = p
      BY <3>1, <3>2
    <3> QED
      BY <3>1, <3>2, <3>3, <1>3, KeyInjective
  <2> QED
    BY <2>1, <2>2, <1>3
<1> QED
  BY <1>2, <1>5, <1>6, <1>7

LEMMA SendFlight ==
    ASSUME SeqInv, FlightInv, NEW p \in Senders, NEW ms, Own(p, ms),
           NEW sz \in [Message -> Nat], Send(p, ms, sz)
    PROVE  FlightInv'
<1>0. \A d \in inFlight' \ inFlight : \E m \in ms, i \in 1..Fragments :
          d = [key |-> Key(p, seqno[p] + Rank(m, ms)), part |-> i,
               size |-> sz[m], msg |-> m]
  <2> TAKE d \in inFlight' \ inFlight
  <2>1. PICK m \in ms, i \in 1..Fragments :
            /\ d = [key |-> Key(p, seqno[p] + Rank(m, ms)), part |-> i,
                    size |-> sz[m], msg |-> m]
            /\ <<d.key, d.msg>> \notin used
    BY SendFragments
  <2> QED
    BY <2>1
<1>1. used \subseteq used'
  BY DEF Send
<1>2. inFlight' \subseteq Datagram
  BY SendFragments DEF FlightInv
<1>3. \A d \in inFlight' : <<d.key, d.msg>> \in used'
  BY <1>1, SendFragments DEF FlightInv
<1>4. ASSUME NEW d \in inFlight', NEW e \in inFlight' \ inFlight,
             d.key = e.key, d.part = e.part, d.msg = e.msg
      PROVE  d = e
  <2>1. PICK m \in ms, i \in 1..Fragments :
            /\ e = [key |-> Key(p, seqno[p] + Rank(m, ms)), part |-> i,
                    size |-> sz[m], msg |-> m]
            /\ <<e.key, e.msg>> \notin used
    BY SendFragments
  <2>2. d \notin inFlight
    BY <2>1, <1>4 DEF FlightInv
  <2>3. PICK o \in ms, j \in 1..Fragments :
            d = [key |-> Key(p, seqno[p] + Rank(o, ms)), part |-> j,
                 size |-> sz[o], msg |-> o]
    BY <2>2, <1>0
  <2>4. o = m /\ i = j
    <3>1. d.msg = o /\ d.part = j
      BY <2>3
    <3>2. e.msg = m /\ e.part = i
      BY <2>1
    <3> QED
      BY <3>1, <3>2, <1>4
  <2> QED
    BY <2>1, <2>3, <2>4
<1>5. ASSUME NEW d \in inFlight', NEW e \in inFlight',
             d.key = e.key, d.part = e.part, d.msg = e.msg
      PROVE  d = e
  <2>1. CASE d \in inFlight /\ e \in inFlight
    BY <2>1, <1>5 DEF FlightInv
  <2> QED
    BY <2>1, <1>4, <1>5
<1> QED
  BY <1>2, <1>3, <1>5 DEF FlightInv

(***************************************************************************)
(* Putting together.                                                       *)
(***************************************************************************)
\* Only one message of the size z was sent under the key k.
Clean(k, z) ==
    \A u, v \in used : u[1] = k /\ v[1] = k /\ size[u[2]] = z /\ size[v[2]] = z => u = v

Filled(parts) == {j \in 1..Fragments : parts[j] # Hole}

\* A buffer b for the key k holds fragments of messages of its size sent under k.
\* While no datagram came twice under k, and no two such messages were sent, it counts
\* them, and holds none that is under way.
BufferOk(k, b) ==
    /\ b \in Buffer
    /\ \A j \in 1..Fragments :
          b.parts[j] # Hole => <<k, b.parts[j]>> \in used /\ size[b.parts[j]] = b.size
    /\ k \notin dups /\ Clean(k, b.size) =>
          /\ b.remaining + Cardinality(Filled(b.parts)) = Fragments
          /\ \A d \in inFlight : d.key = k /\ d.size = b.size => b.parts[d.part] = Hole

BufferInv == \A k \in DOMAIN buffers : BufferOk(k, buffers[k])

LEMMA FilledFinite ==
    ASSUME NEW parts
    PROVE  IsFiniteSet(Filled(parts)) /\ Cardinality(Filled(parts)) \in Nat
<1>1. IsFiniteSet(1..Fragments)
  BY LcmAssumption, FS_Interval
<1>2. Filled(parts) \in SUBSET (1..Fragments)
  BY DEF Filled
<1>3. IsFiniteSet(Filled(parts))
  BY <1>1, <1>2, FS_Subset
<1> QED
  BY <1>3, FS_CardinalityType

LEMMA SendSizes ==
    ASSUME SeqInv, FlightInv, SizeInv, PendingInv, NEW p \in Senders, NEW ms, Own(p, ms),
           size' \in [Message -> Nat], Send(p, ms, size'), KeepSizes,
           published' \in [Senders -> Nat],
           \A q \in Senders : published[q] <= published'[q],
           \A m \in ms : m[2] <= published'[p]
    PROVE  SizeInv'
<1>1. ASSUME NEW u \in used' PROVE u[2][2] <= published'[u[2][1]]
  <2>1. CASE u \in used
    <3>1. PICK q \in Senders, n \in 0..MaxSeqno, x \in Nat :
              /\ u = <<Key(q, n), <<q, x>>>> /\ <<q, x>> \in Message
              /\ n < seqno[q]
      BY <2>1 DEF SeqInv
    <3>2. x <= published[q]
      BY <2>1, <3>1 DEF SizeInv
    <3>3. published[q] \in Nat /\ published'[q] \in Nat /\ published[q] <= published'[q]
      BY DEF PendingInv
    <3> QED
      BY <3>1, <3>2, <3>3
  <2>2. CASE u \notin used
    <3>1. PICK m \in ms : u = <<Key(p, seqno[p] + Rank(m, ms)), m>> /\ m = <<p, m[2]>>
      BY <2>2, SendUses
    <3> QED
      BY <3>1
  <2> QED
    BY <2>1, <2>2
<1>2. ASSUME NEW d \in inFlight' PROVE d.size = size'[d.msg]
  <2>1. CASE d \in inFlight
    <3>1. <<d.key, d.msg>> \in used /\ d.size = size[d.msg]
      BY <2>1 DEF FlightInv, SizeInv
    <3> QED
      BY <3>1 DEF KeepSizes
  <2>2. CASE d \notin inFlight
    <3>1. PICK m \in ms, i \in 1..Fragments :
              /\ d = [key |-> Key(p, seqno[p] + Rank(m, ms)), part |-> i,
                      size |-> size'[m], msg |-> m]
              /\ d \in Datagram
              /\ <<d.key, d.msg>> \in used' \ used
      <4>1. PICK sz \in [Message -> Nat] : sz = size'
        OBVIOUS
      <4>2. Send(p, ms, sz)
        BY <4>1
      <4> QED
        BY <2>2, <4>1, <4>2, SendFragments
    <3> QED
      BY <3>1
  <2> QED
    BY <2>1, <2>2
<1> QED
  BY <1>1, <1>2 DEF SizeInv

LEMMA SendBuffers ==
    ASSUME SeqInv, FlightInv, SizeInv, SizeInv', BufferInv, NEW p \in Senders, NEW ms,
           Own(p, ms), size' \in [Message -> Nat], Send(p, ms, size'), KeepSizes,
           UNCHANGED <<buffers, dups>>
    PROVE  BufferInv'
<1>1. used \subseteq used'
  BY DEF Send
<1>2. ASSUME NEW k \in DOMAIN buffers PROVE BufferOk(k, buffers[k])'
  <2> DEFINE b == buffers[k]
  <2>1. BufferOk(k, b) /\ buffers' = buffers
    BY DEF BufferInv
  <2>2. \A j \in 1..Fragments :
            b.parts[j] # Hole => <<k, b.parts[j]>> \in used' /\ size'[b.parts[j]] = b.size
    <3> TAKE j \in 1..Fragments
    <3> HAVE b.parts[j] # Hole
    <3>1. <<k, b.parts[j]>> \in used /\ size[b.parts[j]] = b.size
      BY <2>1 DEF BufferOk
    <3>2. <<k, b.parts[j]>>[2] = b.parts[j]
      OBVIOUS
    <3>3. size'[b.parts[j]] = size[b.parts[j]]
      BY <3>1, <3>2 DEF KeepSizes
    <3> QED
      BY <1>1, <3>1, <3>3
  <2>3. ASSUME k \notin dups', Clean(k, b.size)'
        PROVE  /\ b.remaining + Cardinality(Filled(b.parts)) = Fragments
               /\ \A d \in inFlight' : d.key = k /\ d.size = b.size => b.parts[d.part] = Hole
    <3>1. k \notin dups /\ Clean(k, b.size)
      <4>1. \A u, v \in used' : u[1] = k /\ v[1] = k
                /\ size'[u[2]] = b.size /\ size'[v[2]] = b.size => u = v
        BY <2>1, <2>3 DEF Clean
      <4> QED
        BY <1>1, <2>3, <4>1 DEF Clean, KeepSizes
    <3>2. ASSUME NEW d \in inFlight' \ inFlight, d.key = k, d.size = b.size,
                 b.parts[d.part] # Hole
          PROVE  FALSE
      <4>1. d.part \in 1..Fragments /\ <<d.key, d.msg>> \in used' /\ <<d.key, d.msg>> \notin used
        BY SendFragments DEF Datagram
      <4>2. <<k, b.parts[d.part]>> \in used /\ <<k, b.parts[d.part]>> \in used'
            /\ size'[b.parts[d.part]] = b.size
        BY <4>1, <3>2, <2>1, <2>2, <1>1 DEF BufferOk
      <4>3. size'[d.msg] = b.size
        BY <3>2 DEF SizeInv
      <4>4. \A u, v \in used' : u[1] = k /\ v[1] = k
                /\ size'[u[2]] = b.size /\ size'[v[2]] = b.size => u = v
        BY <2>1, <2>3 DEF Clean
      <4>5. <<k, b.parts[d.part]>> = <<d.key, d.msg>>
        <5>1. /\ <<d.key, d.msg>>[1] = k /\ <<k, b.parts[d.part]>>[1] = k
              /\ <<d.key, d.msg>>[2] = d.msg
              /\ <<k, b.parts[d.part]>>[2] = b.parts[d.part]
          BY <3>2
        <5> QED
          BY <5>1, <4>1, <4>2, <4>3, <4>4
      <4> QED
        BY <4>1, <4>2, <4>5
    <3> QED
      BY <3>1, <3>2, <2>1 DEF BufferOk
  <2> QED
    BY <2>1, <2>2, <2>3 DEF BufferOk
<1> QED
  BY <1>2 DEF BufferInv

LEMMA MessageIsNoHole ==
    ASSUME SeqInv, NEW u \in used
    PROVE  u[2] \in Message /\ u[2] # Hole
<1>1. PICK p \in Senders, n \in 0..MaxSeqno, x \in Nat :
          u = <<Key(p, n), <<p, x>>>> /\ <<p, x>> \in Message
  BY DEF SeqInv
<1>2. u[2] = <<p, x>>
  BY <1>1
<1>3. <<p, x>> # <<>>
  OBVIOUS
<1> QED
  BY <1>1, <1>2, <1>3 DEF Hole

\* What a datagram that arrives leaves behind.
LEMMA ArrivesKeeps ==
    ASSUME NEW d, Arrives(d)
    PROVE  /\ d \in inFlight /\ inFlight' \subseteq inFlight /\ UNCHANGED <<seqno, used>>
           /\ dups \subseteq dups'
           /\ d.key \notin dups' => inFlight' = inFlight \ {d}
  BY DEF Arrives

LEMMA ArrivesOk ==
    ASSUME NEW d, Arrives(d), UNCHANGED size, NEW k, NEW b, BufferOk(k, b)
    PROVE  BufferOk(k, b)'
<1>1. used' = used /\ inFlight' \subseteq inFlight /\ dups \subseteq dups'
  BY ArrivesKeeps
<1> QED
  BY <1>1 DEF BufferOk, Clean

LEMMA BufferForOk ==
    ASSUME FlightInv, BufferInv, NEW d \in inFlight
    PROVE  BufferOk(d.key, BufferFor(d))
<1>1. CASE d.key \in DOMAIN buffers /\ buffers[d.key].size = d.size
  BY <1>1 DEF BufferFor, BufferInv
<1>2. CASE ~(d.key \in DOMAIN buffers /\ buffers[d.key].size = d.size)
  <2>1. BufferFor(d) = FreshBuffer(d)
    BY <1>2 DEF BufferFor
  <2>2. Fragments \in Nat /\ d.size \in Nat
    BY LcmAssumption DEF FlightInv, Datagram
  <2>3. FreshBuffer(d) \in Buffer
    BY <2>2 DEF FreshBuffer, Buffer
  <2>4. /\ FreshBuffer(d).remaining = Fragments
        /\ \A j \in 1..Fragments : FreshBuffer(d).parts[j] = Hole
    BY DEF FreshBuffer
  <2>5. Filled(FreshBuffer(d).parts) = {}
    BY <2>4 DEF Filled
  <2>6. \A e \in inFlight : e.part \in 1..Fragments
    BY DEF FlightInv, Datagram
  <2>7. FreshBuffer(d).remaining + Cardinality(Filled(FreshBuffer(d).parts)) = Fragments
    BY <2>2, <2>4, <2>5, FS_EmptySet
  <2> QED
    BY <2>1, <2>3, <2>4, <2>6, <2>7 DEF BufferOk
<1> QED
  BY <1>1, <1>2

\* A fragment joins the buffer: on a clean key the place it takes was free, and no
\* other datagram is left for it.
LEMMA StoredOk ==
    ASSUME SeqInv, FlightInv, SizeInv, BufferInv, NEW d, Arrives(d), UNCHANGED size,
           NEW b, b = Stored(d)
    PROVE  BufferOk(d.key, b)'
<1> DEFINE a == BufferFor(d)
<1>1. /\ d \in inFlight /\ inFlight' \subseteq inFlight /\ UNCHANGED used
      /\ d.key \notin dups' => d.key \notin dups /\ inFlight' = inFlight \ {d}
  BY ArrivesKeeps
<1>2. BufferOk(d.key, a) /\ a.size = d.size
  BY <1>1, BufferForOk DEF BufferFor, FreshBuffer
<1>3. /\ d.part \in 1..Fragments /\ <<d.key, d.msg>> \in used
      /\ d.msg \in Message /\ d.size = size[d.msg]
  BY <1>1 DEF FlightInv, Datagram, SizeInv
<1>4. d.msg # Hole
  <2>1. <<d.key, d.msg>>[2] = d.msg
    OBVIOUS
  <2> QED
    BY <1>3, <2>1, MessageIsNoHole
<1>5. a \in Buffer
  BY <1>2 DEF BufferOk
<1> HIDE DEF a
<1>6. b = [a EXCEPT !.parts[d.part] = d.msg, !.remaining = @ - 1]
  BY DEF Stored, a
<1>7. /\ b \in Buffer /\ b.remaining = a.remaining - 1 /\ b.size = a.size
      /\ b.parts = [a.parts EXCEPT ![d.part] = d.msg]
      /\ a.remaining \in Int /\ DOMAIN a.parts = 1..Fragments
  <2>1. a.remaining \in Int /\ a.parts \in [1..Fragments -> Message \cup {Hole}]
    BY <1>5 DEF Buffer
  <2>2. [a.parts EXCEPT ![d.part] = d.msg] \in [1..Fragments -> Message \cup {Hole}]
    BY <1>3, <2>1
  <2>3. PICK r, ps : r = a.remaining - 1 /\ ps = [a.parts EXCEPT ![d.part] = d.msg]
    OBVIOUS
  <2>4. r \in Int /\ ps \in [1..Fragments -> Message \cup {Hole}]
    BY <2>1, <2>2, <2>3
  <2>5. b = [a EXCEPT !.parts = ps, !.remaining = r]
    BY <1>6, <2>3
  <2>6. b \in Buffer /\ b.remaining = r /\ b.parts = ps /\ b.size = a.size
    BY <1>5, <2>4, <2>5 DEF Buffer
  <2> QED
    BY <2>1, <2>3, <2>6
<1>8. b.parts[d.part] = d.msg /\ \A j \in 1..Fragments : j # d.part => b.parts[j] = a.parts[j]
  BY <1>3, <1>7
<1>9. \A j \in 1..Fragments :
          b.parts[j] # Hole => <<d.key, b.parts[j]>> \in used /\ size[b.parts[j]] = b.size
  BY <1>2, <1>3, <1>7, <1>8 DEF BufferOk
<1>10. ASSUME d.key \notin dups', Clean(d.key, b.size)'
       PROVE  /\ b.remaining + Cardinality(Filled(b.parts)) = Fragments
              /\ \A e \in inFlight' :
                     e.key = d.key /\ e.size = b.size => b.parts[e.part] = Hole
  <2>1. d.key \notin dups /\ Clean(d.key, a.size) /\ inFlight' = inFlight \ {d}
    <3>1. Clean(d.key, a.size)
      BY <1>1, <1>7, <1>10 DEF Clean
    <3> QED
      BY <1>1, <1>10, <3>1
  <2>2. /\ a.remaining + Cardinality(Filled(a.parts)) = Fragments
        /\ \A e \in inFlight : e.key = d.key /\ e.size = a.size => a.parts[e.part] = Hole
    BY <1>2, <2>1 DEF BufferOk
  <2>3. d.part \notin Filled(a.parts)
    BY <1>1, <1>2, <2>2 DEF Filled
  <2>4. Filled(b.parts) = Filled(a.parts) \cup {d.part}
    BY <1>3, <1>4, <1>8 DEF Filled
  <2>5. Cardinality(Filled(b.parts)) = Cardinality(Filled(a.parts)) + 1
    BY <2>3, <2>4, FilledFinite, FS_AddElement
  <2>6. b.remaining + Cardinality(Filled(b.parts)) = Fragments
    BY <1>7, <2>2, <2>5, FilledFinite
  <2>7. ASSUME NEW e \in inFlight', e.key = d.key, e.size = b.size
        PROVE  b.parts[e.part] = Hole
    <3>1. /\ e \in inFlight /\ e # d /\ e.part \in 1..Fragments
          /\ <<e.key, e.msg>> \in used /\ e.size = size[e.msg]
      BY <2>1, <2>7 DEF FlightInv, Datagram, SizeInv
    <3>2. e.msg = d.msg
      <4>1. /\ <<e.key, e.msg>>[1] = d.key /\ <<d.key, d.msg>>[1] = d.key
            /\ <<e.key, e.msg>>[2] = e.msg /\ <<d.key, d.msg>>[2] = d.msg
        BY <2>7
      <4>2. size[e.msg] = a.size /\ size[d.msg] = a.size
        BY <1>2, <1>3, <1>7, <2>7, <3>1
      <4>3. <<e.key, e.msg>> = <<d.key, d.msg>>
        BY <3>1, <4>1, <4>2, <1>3, <2>1 DEF Clean
      <4> QED
        BY <4>3
    <3>3. e.part # d.part
      BY <1>1, <3>1, <3>2, <2>7 DEF FlightInv
    <3> QED
      BY <3>1, <3>3, <1>7, <1>8, <2>2, <2>7
  <2> QED
    BY <2>6, <2>7
<1> QED
  BY <1>1, <1>7, <1>9, <1>10 DEF BufferOk

LEMMA KeepOk ==
    ASSUME SeqInv, FlightInv, SizeInv, BufferInv, NEW d, Arrives(d), UNCHANGED size,
           KeepBuffer(d)
    PROVE  BufferInv'
<1>1. PICK b : b = Stored(d)
  OBVIOUS
<1>2. BufferOk(d.key, b)'
  BY <1>1, StoredOk
<1>3. /\ DOMAIN buffers' = DOMAIN buffers \cup {d.key}
      /\ buffers'[d.key] = b
      /\ \A k \in DOMAIN buffers \ {d.key} : buffers'[k] = buffers[k]
  BY <1>1 DEF KeepBuffer
<1>4. ASSUME NEW k \in DOMAIN buffers' PROVE BufferOk(k, buffers[k])'
  <2>1. CASE k = d.key
    BY <2>1, <1>2, <1>3
  <2>2. CASE k # d.key
    <3>1. k \in DOMAIN buffers /\ buffers'[k] = buffers[k]
      BY <2>2, <1>3
    <3>2. PICK c : c = buffers[k]
      OBVIOUS
    <3>3. BufferOk(k, c)'
      BY <3>1, <3>2, ArrivesOk DEF BufferInv
    <3> QED
      BY <3>1, <3>2, <3>3
  <2> QED
    BY <2>1, <2>2
<1> QED
  BY <1>4 DEF BufferInv

LEMMA DropOk ==
    ASSUME BufferInv, NEW d, Arrives(d), UNCHANGED size, DropBuffer(d)
    PROVE  BufferInv'
<1>1. /\ DOMAIN buffers' \subseteq DOMAIN buffers
      /\ \A k \in DOMAIN buffers' : buffers'[k] = buffers[k]
  BY DEF DropBuffer
<1>2. ASSUME NEW k \in DOMAIN buffers' PROVE BufferOk(k, buffers[k])'
  <2>1. PICK c : c = buffers[k]
    OBVIOUS
  <2>2. BufferOk(k, c)'
    BY <1>1, <2>1, ArrivesOk DEF BufferInv
  <2> QED
    BY <1>1, <2>1, <2>2
<1> QED
  BY <1>2 DEF BufferInv

LEMMA ArrivesFlight ==
    ASSUME SeqInv, FlightInv, SizeInv, NEW d, Arrives(d), UNCHANGED <<size, published>>
    PROVE  SeqInv' /\ FlightInv' /\ SizeInv'
  BY ArrivesKeeps DEF SeqInv, FlightInv, SizeInv

(***************************************************************************)
(* Handling.                                                               *)
(***************************************************************************)
\* What HandledWhole says of one entry h of the history, which was sent itself.
WholeEntry(h) ==
    /\ h.env \in Alike(h.key, h.env)
    /\ \A j \in 1..Fragments :
          \/ h.parts[j] \in Alike(h.key, h.env)
          \/ /\ h.parts[j] = Hole
             /\ h.key \in dups \/ Alike(h.key, h.env) # {h.env}

HandledInv == /\ \E S : handled \in Seq(S)
              /\ \A i \in DOMAIN handled : WholeEntry(handled[i])
              /\ HandledOnce

\* When the count says that a message is complete it is, unless a datagram came twice
\* under its key or another message of its size was sent under it.
LEMMA CompleteWhole ==
    ASSUME SeqInv, FlightInv, SizeInv, BufferInv, NEW d, Arrives(d), UNCHANGED size,
           Complete(d), Named(d),
           NEW h, h = [env |-> Stored(d).parts[1], key |-> d.key, parts |-> Stored(d).parts]
    PROVE  WholeEntry(h)'
<1>1. PICK b : b = Stored(d)
  OBVIOUS
<1>2. BufferOk(d.key, b)'
  BY <1>1, StoredOk
<1>3. used' = used
  BY ArrivesKeeps
<1>4. /\ h.env = b.parts[1] /\ h.key = d.key /\ h.parts = b.parts
      /\ b.remaining = 0 /\ b.parts[1] # Hole
  BY <1>1 DEF Complete, Named
<1>5. 1 \in 1..Fragments /\ Fragments \in Nat
  BY LcmAssumption
<1>6. \A j \in 1..Fragments :
          b.parts[j] # Hole => <<d.key, b.parts[j]>> \in used /\ size[b.parts[j]] = b.size
  BY <1>2, <1>3 DEF BufferOk
<1>7. PICK alike : /\ alike = Alike(h.key, h.env)'
                   /\ alike = {o \in Message : <<d.key, o>> \in used /\ size[o] = b.size}
  BY <1>3, <1>4, <1>5, <1>6 DEF Alike
<1>8. ASSUME NEW j \in 1..Fragments, b.parts[j] # Hole PROVE b.parts[j] \in alike
  <2>1. <<d.key, b.parts[j]>>[2] = b.parts[j]
    OBVIOUS
  <2> QED
    BY <1>6, <1>7, <1>8, <2>1, MessageIsNoHole
<1>9. ASSUME NEW j \in 1..Fragments, b.parts[j] = Hole, d.key \notin dups', alike = {h.env}
      PROVE  FALSE
  <2>1. ASSUME NEW u \in used, u[1] = d.key, size[u[2]] = b.size
        PROVE  u = <<d.key, h.env>>
    <3>1. PICK p \in Senders, n \in 0..MaxSeqno, x \in Nat :
              /\ u = <<Key(p, n), <<p, x>>>> /\ <<p, x>> \in Message
              /\ n < seqno[p]
      BY <2>1 DEF SeqInv
    <3>2. u = <<d.key, u[2]>>
      BY <2>1, <3>1
    <3>3. u[2] \in alike
      BY <2>1, <3>2, <1>7, MessageIsNoHole
    <3> QED
      BY <3>2, <3>3, <1>9
  <2>2. Clean(d.key, b.size)'
    BY <2>1, <1>3 DEF Clean
  <2>3. Cardinality(Filled(b.parts)) = Fragments
    BY <1>2, <1>4, <1>5, <1>9, <2>2, FilledFinite DEF BufferOk
  <2>4. Filled(b.parts) = 1..Fragments
    <3>1. Filled(b.parts) \in SUBSET (1..Fragments)
      BY DEF Filled
    <3>2. IsFiniteSet(1..Fragments) /\ Cardinality(1..Fragments) = Fragments
      BY <1>5, FS_Interval
    <3> QED
      BY <2>3, <3>1, <3>2, FS_Subset
  <2> QED
    BY <2>4, <1>9 DEF Filled
<1>10. h.env \in alike
  BY <1>4, <1>5, <1>8
<1>11. \A j \in 1..Fragments :
           \/ h.parts[j] \in alike
           \/ h.parts[j] = Hole /\ (h.key \in dups' \/ alike # {h.env})
  BY <1>4, <1>8, <1>9
<1> QED
  BY <1>7, <1>10, <1>11 DEF WholeEntry

LEMMA RememberedWindow ==
    ASSUME NEW S, handled \in Seq(S), NEW i \in 1..Len(handled),
           Len(handled) + 1 <= i + DedupCapacity
    PROVE  handled[i].env \in Remembered
<1> DEFINE n == Len(handled)
<1>1. n \in Nat /\ DedupCapacity \in Nat \ {0}
  BY DartAssumption
<1>2. PICK k : k = Max({0, n - DedupCapacity})
  OBVIOUS
<1>3. k = IF 0 >= n - DedupCapacity THEN 0 ELSE n - DedupCapacity
  <2>1. PICK x \in {0, n - DedupCapacity} : \A y \in {0, n - DedupCapacity} : x >= y
    BY <1>1
  <2>2. k \in {0, n - DedupCapacity} /\ \A y \in {0, n - DedupCapacity} : k >= y
    BY <1>2, <2>1 DEF Max
  <2> QED
    BY <1>1, <2>2
<1>4. i \in (1 + k)..n
  BY <1>1, <1>3
<1> QED
  BY <1>2, <1>4 DEF Remembered

LEMMA EntryStays ==
    ASSUME used \subseteq used', dups \subseteq dups', KeepSizes, NEW h, WholeEntry(h)
    PROVE  WholeEntry(h)'
<1>1. /\ h.env \in Message /\ <<h.key, h.env>> \in used
      /\ \A o \in Message : <<h.key, o>> \in used => size'[o] = size[o]
  <2>1. \A o : <<h.key, o>>[2] = o
    OBVIOUS
  <2>2. ASSUME NEW o \in Message, <<h.key, o>> \in used PROVE size'[o] = size[o]
    BY <2>1, <2>2 DEF KeepSizes
  <2> QED
    BY <2>2 DEF WholeEntry, Alike
<1>2. PICK old : old = Alike(h.key, h.env)
  OBVIOUS
<1>3. PICK new : /\ new = Alike(h.key, h.env)'
                 /\ new = {o \in Message : <<h.key, o>> \in used' /\ size'[o] = size'[h.env]}
  BY DEF Alike
<1>4. old \subseteq new /\ h.env \in old
  BY <1>1, <1>2, <1>3 DEF Alike, WholeEntry
<1>5. \A j \in 1..Fragments :
          \/ h.parts[j] \in new
          \/ h.parts[j] = Hole /\ (h.key \in dups' \/ new # {h.env})
  BY <1>2, <1>4 DEF WholeEntry
<1> QED
  BY <1>3, <1>4, <1>5 DEF WholeEntry

LEMMA EnvelopeHandled ==
    ASSUME SeqInv, FlightInv, SizeInv, BufferInv, HandledInv, NEW d, NEW subscribes,
           EnvelopeArrives(d, subscribes)
    PROVE  HandledInv'
<1>1. Arrives(d) /\ Complete(d) /\ Named(d) /\ UNCHANGED size
  BY DEF EnvelopeArrives, Dispatched, pubVars
<1>2. PICK h : h = [env |-> Stored(d).parts[1], key |-> d.key, parts |-> Stored(d).parts]
  OBVIOUS
<1>3. /\ handled' = handled \/ (h.env \notin Remembered /\ handled' = Append(handled, h))
      /\ h.env = Stored(d).parts[1]
  BY <1>2 DEF EnvelopeArrives
<1>4. WholeEntry(h)'
  BY <1>1, <1>2, CompleteWhole
<1>5. used' = used /\ dups \subseteq dups' /\ KeepSizes
  BY <1>1, ArrivesKeeps DEF KeepSizes
<1>6. \A i \in DOMAIN handled : WholeEntry(handled[i])
  BY DEF HandledInv
<1>7. CASE handled' = handled
  <2>1. \A i \in DOMAIN handled' : WholeEntry(handled[i])'
    <3> TAKE i \in DOMAIN handled'
    <3>1. PICK e : e = handled[i]
      OBVIOUS
    <3>2. WholeEntry(e)'
      BY <1>5, <1>6, <1>7, <3>1, EntryStays
    <3> QED
      BY <1>7, <3>1, <3>2
  <2> QED
    BY <1>7, <2>1 DEF HandledInv, HandledOnce
<1>8. CASE h.env \notin Remembered /\ handled' = Append(handled, h)
  <2>1. PICK S : handled \in Seq(S)
    BY DEF HandledInv
  <2>2. PICK n \in Nat : n = Len(handled)
    BY <2>1
  <2>3. handled \in Seq(S \cup {h}) /\ h \in S \cup {h}
    BY <2>1
  <2>4. /\ handled' \in Seq(S \cup {h})
        /\ DOMAIN handled = 1..n /\ DOMAIN handled' = 1..(n + 1)
        /\ handled'[n + 1] = h
        /\ \A i \in 1..n : handled'[i] = handled[i]
    BY <1>8, <2>2, <2>3
  <2>5. ASSUME NEW i \in DOMAIN handled' PROVE WholeEntry(handled[i])'
    <3>1. CASE i = n + 1
      BY <3>1, <2>4, <1>4
    <3>2. CASE i # n + 1
      <4>1. i \in 1..n
        BY <3>2, <2>4
      <4>2. PICK e : e = handled[i]
        OBVIOUS
      <4>3. WholeEntry(e)'
        BY <4>1, <4>2, <2>4, <1>5, <1>6, EntryStays
      <4> QED
        BY <4>1, <4>2, <4>3, <2>4
    <3> QED
      BY <3>1, <3>2
  <2>6. ASSUME NEW i \in DOMAIN handled', NEW j \in DOMAIN handled',
               i < j, j <= i + DedupCapacity
        PROVE  handled'[i].env # handled'[j].env
    <3>1. DedupCapacity \in Nat
      BY DartAssumption
    <3>2. CASE j = n + 1
      <4>1. i \in 1..n /\ n + 1 <= i + DedupCapacity
        BY <2>4, <2>6, <3>2
      <4>2. handled[i].env \in Remembered
        BY <4>1, <2>1, <2>2, RememberedWindow
      <4> QED
        BY <4>1, <4>2, <2>4, <3>2, <1>8
    <3>3. CASE j # n + 1
      <4>1. i \in 1..n /\ j \in 1..n
        BY <2>4, <2>6, <3>3
      <4>2. handled[i].env # handled[j].env
        BY <4>1, <2>4, <2>6 DEF HandledInv, HandledOnce
      <4> QED
        BY <4>1, <4>2, <2>4
    <3> QED
      BY <3>2, <3>3
  <2> QED
    BY <2>4, <2>5, <2>6 DEF HandledInv, HandledOnce
<1> QED
  BY <1>3, <1>7, <1>8

\* Any other step leaves the history alone.
LEMMA HandledStays ==
    ASSUME HandledInv, handled' = handled, used \subseteq used', dups \subseteq dups',
           KeepSizes
    PROVE  HandledInv'
<1>1. \A i \in DOMAIN handled' : WholeEntry(handled[i])'
  <2> TAKE i \in DOMAIN handled'
  <2>1. PICK e : e = handled[i]
    OBVIOUS
  <2>2. WholeEntry(e)'
    BY <2>1, EntryStays DEF HandledInv
  <2> QED
    BY <2>1, <2>2
<1> QED
  BY <1>1 DEF HandledInv, HandledOnce

(***************************************************************************)
(* The invariant.                                                          *)
(***************************************************************************)
IInv == SeqInv /\ FlightInv /\ SizeInv /\ PendingInv /\ BufferInv /\ HandledInv

LEMMA InitInv == Init => IInv
<1> SUFFICES ASSUME Init PROVE IInv
  OBVIOUS
<1>1. SeqInv /\ FlightInv /\ SizeInv
  BY LcmAssumption DEF Init, LcmInit, SeqInv, FlightInv, SizeInv
<1>2. PendingInv
  BY FS_EmptySet DEF Init, PendingInv
<1>3. BufferInv
  <2>1. DOMAIN buffers = {}
    BY DEF Init, LcmInit
  <2> QED
    BY <2>1 DEF Init, LcmInit, BufferInv
<1>4. HandledInv
  <2>1. handled \in Seq({}) /\ DOMAIN handled = {}
    BY DEF Init
  <2> QED
    BY <2>1 DEF HandledInv, HandledOnce
<1> QED
  BY <1>1, <1>2, <1>3, <1>4 DEF IInv

\* A step that sends messages of p.
LEMMA SendInv ==
    ASSUME IInv, PendingInv', NEW p \in Senders, NEW ms, Own(p, ms), Send(p, ms, size'),
           KeepSizes, UNCHANGED <<buffers, dups, handled>>,
           \A q \in Senders : published[q] <= published'[q],
           \A m \in ms : m[2] <= published'[p]
    PROVE  IInv'
<1>0. size' \in [Message -> Nat] /\ published' \in [Senders -> Nat]
  BY DEF PendingInv
<1>1. SeqInv' /\ FlightInv' /\ SizeInv'
  BY <1>0, SendSeq, SendFlight, SendSizes DEF IInv
<1>2. used \subseteq used'
  BY DEF Send
<1>3. HandledInv'
  BY <1>2, HandledStays DEF IInv
<1>4. BufferInv'
  BY <1>0, <1>1, SendBuffers DEF IInv
<1> QED
  BY <1>1, <1>3, <1>4 DEF IInv

LEMMA PublishInv ==
    ASSUME IInv, NEW p \in Senders, NEW z \in Sizes[p], Publish(p, z)
    PROVE  IInv'
<1>1. PICK m : m = <<p, published[p] + 1>>
  OBVIOUS
<1>2. /\ m \in Message /\ published' = [published EXCEPT ![p] = @ + 1]
      /\ size' = [size EXCEPT ![m] = z]
      /\ Send(p, {m}, size')
      /\ pending' = [pending EXCEPT ![p] = @ \cup {m}]
      /\ UNCHANGED <<buffers, dups, handled>>
  BY <1>1 DEF Publish, subVars
<1>3. z \in Nat /\ size' \in [Message -> Nat]
  BY <1>2, DartAssumption DEF IInv, PendingInv
<1>4. m \in {p} \X Nat
  BY <1>1 DEF IInv, PendingInv
<1>5. Own(p, {m})
  BY <1>2, <1>4, FS_Singleton DEF Own
<1>6. PendingInv'
  <2>1. published' \in [Senders -> Nat] /\ pending' \in [Senders -> SUBSET Message]
    BY <1>2 DEF IInv, PendingInv
  <2>2. ASSUME NEW q \in Senders
        PROVE  /\ pending'[q] \subseteq Message /\ pending'[q] \subseteq {q} \X Nat
               /\ IsFiniteSet(pending'[q]) /\ \A o \in pending'[q] : o[2] <= published'[q]
    <3>1. CASE q = p
      <4>1. pending'[p] = pending[p] \cup {m}
        BY <1>2 DEF IInv, PendingInv
      <4>3. \A o \in pending'[p] : o[2] <= published'[p]
        <5>1. published'[p] = published[p] + 1 /\ published[p] \in Nat /\ m[2] = published[p] + 1
          BY <1>1, <1>2 DEF IInv, PendingInv
        <5>2. \A o \in pending[p] : o[2] \in Nat /\ o[2] <= published[p]
          BY DEF IInv, PendingInv
        <5> QED
          BY <4>1, <5>1, <5>2
      <4>2. IsFiniteSet(pending[p] \cup {m})
        BY FS_AddElement DEF IInv, PendingInv
      <4> QED
        BY <3>1, <4>1, <4>2, <4>3, <1>2, <1>4 DEF IInv, PendingInv
    <3>2. CASE q # p
      BY <3>2, <1>2 DEF IInv, PendingInv
    <3> QED
      BY <3>1, <3>2
  <2> QED
    BY <1>3, <2>1, <2>2 DEF PendingInv
<1>7. KeepSizes
  <2> SUFFICES ASSUME NEW u \in used PROVE u[2] # m
    BY <1>2 DEF KeepSizes, IInv, PendingInv
  <2>1. u[2][2] <= published[u[2][1]]
    BY DEF IInv, SizeInv
  <2>2. m[1] = p /\ m[2] = published[p] + 1 /\ published[p] \in Nat
    BY <1>1 DEF IInv, PendingInv
  <2> QED
    BY <2>1, <2>2
<1>8. /\ \A q \in Senders : published[q] <= published'[q]
      /\ \A o \in {m} : o[2] <= published'[p]
  BY <1>1, <1>2 DEF IInv, PendingInv
<1>9. PICK ms : ms = {m}
  OBVIOUS
<1>10. Own(p, ms) /\ Send(p, ms, size') /\ \A o \in ms : o[2] <= published'[p]
  BY <1>2, <1>5, <1>8, <1>9
<1>11. UNCHANGED <<buffers, dups, handled>>
  BY <1>2
<1> QED
  BY <1>6, <1>7, <1>8, <1>10, <1>11, SendInv

\* Fewer messages are pending.
LEMMA LeftPending ==
    ASSUME PendingInv, NEW p \in Senders, NEW ms \in SUBSET pending[p], Left(p, ms),
           UNCHANGED <<size, published>>
    PROVE  PendingInv'
<1>1. pending' = [pending EXCEPT ![p] = ms]
  BY DEF Left
<1>2. IsFiniteSet(ms)
  BY FS_Subset DEF PendingInv
<1>3. ASSUME NEW q \in Senders
      PROVE  /\ pending'[q] \subseteq Message /\ pending'[q] \subseteq {q} \X Nat
             /\ IsFiniteSet(pending'[q]) /\ \A m \in pending'[q] : m[2] <= published'[q]
  BY <1>1, <1>2 DEF PendingInv
<1> QED
  BY <1>1, <1>3 DEF PendingInv

LEMMA TickInv ==
    ASSUME IInv, NEW p \in Senders, NEW due \in SUBSET pending[p], Tick(p, due)
    PROVE  IInv'
<1>1. PICK out \in SUBSET due : out = {m \in due : Exhausted(m)}
  OBVIOUS
<1>2. /\ Send(p, due \ out, size) /\ Left(p, pending[p] \ out)
      /\ UNCHANGED <<buffers, dups, size, published, handled>>
  BY <1>1 DEF Tick, subVars
<1>3. Own(p, due \ out)
  <2>1. due \ out \in SUBSET pending[p]
    OBVIOUS
  <2> QED
    BY <2>1, FS_Subset DEF Own, IInv, PendingInv
<1>4. PendingInv'
  <2>1. pending[p] \ out \in SUBSET pending[p]
    OBVIOUS
  <2> QED
    BY <2>1, <1>2, LeftPending DEF IInv
<1>5. /\ KeepSizes /\ \A q \in Senders : published[q] <= published'[q]
      /\ \A m \in due \ out : m[2] <= published'[p]
  BY <1>2 DEF KeepSizes, IInv, PendingInv
<1>6. Send(p, due \ out, size')
  BY <1>2
<1> QED
  BY <1>2, <1>3, <1>4, <1>5, <1>6, SendInv

\* Steps that neither send nor receive a fragment.
LEMMA QuietInv ==
    ASSUME IInv, UNCHANGED <<lcmVars, handled, size, published>>, PendingInv'
    PROVE  IInv'
<1>1. UNCHANGED <<seqno, inFlight, buffers, dups, used>>
  BY DEF lcmVars
<1>2. SeqInv' /\ FlightInv' /\ SizeInv' /\ BufferInv'
  BY <1>1 DEF IInv, SeqInv, FlightInv, SizeInv, BufferInv, BufferOk, Clean
<1>3. HandledInv'
  BY <1>1, HandledStays DEF IInv, KeepSizes
<1> QED
  BY <1>2, <1>3 DEF IInv

LEMMA OnAckInv ==
    ASSUME IInv, NEW p \in Senders, NEW m \in Message, OnAck(p, m)
    PROVE  IInv'
<1>1. PICK ms \in SUBSET pending[p] : Left(p, ms)
  BY DEF OnAck, Cleared
<1>2. PendingInv'
  BY <1>1, LeftPending DEF OnAck, IInv
<1> QED
  BY <1>2, QuietInv DEF OnAck, subVars

LEMMA ArriveInv ==
    ASSUME IInv, NEW d \in inFlight, NEW b \in BOOLEAN,
           FragmentArrives(d) \/ EnvelopeArrives(d, b)
    PROVE  IInv'
<1>1. /\ Arrives(d) /\ (KeepBuffer(d) \/ DropBuffer(d))
      /\ UNCHANGED pubVars /\ UNCHANGED <<size, published>>
  BY DEF FragmentArrives, FragmentKept, EnvelopeArrives, Dispatched, pubVars
<1>2. SeqInv' /\ FlightInv' /\ SizeInv' /\ BufferInv'
  BY <1>1, ArrivesFlight, KeepOk, DropOk DEF IInv
<1>3. PendingInv'
  BY <1>1 DEF pubVars, IInv, PendingInv
<1>4. HandledInv'
  <2>1. CASE EnvelopeArrives(d, b)
    BY <2>1, EnvelopeHandled DEF IInv
  <2>2. CASE FragmentArrives(d)
    <3>2. used' = used /\ dups \subseteq dups' /\ KeepSizes
      BY <1>1, ArrivesKeeps DEF KeepSizes
    <3>3. handled' = handled
      BY <2>2 DEF FragmentArrives, subVars
    <3> QED
      BY <3>2, <3>3, HandledStays DEF IInv
  <2> QED
    BY <2>1, <2>2
<1> QED
  BY <1>2, <1>3, <1>4 DEF IInv

LEMMA NextInv == IInv /\ [Next]_vars => IInv'
<1> SUFFICES ASSUME IInv, [Next]_vars PROVE IInv'
  OBVIOUS
<1>1. ASSUME UNCHANGED <<lcmVars, handled, size, published, pending>> PROVE IInv'
  <2>1. PendingInv'
    BY <1>1 DEF IInv, PendingInv
  <2> QED
    BY <1>1, <2>1, QuietInv
<1>2. CASE Subscribe
  BY <1>1, <1>2 DEF Subscribe, pubVars
<1>3. CASE \E p \in Senders : Dispose(p)
  BY <1>1, <1>3 DEF Dispose, subVars
<1>4. CASE UNCHANGED vars
  BY <1>1, <1>4 DEF vars, pubVars, subVars
<1> QED
  BY <1>2, <1>3, <1>4, PublishInv, OnAckInv, TickInv, ArriveInv DEF Next

\* Whatever the network does to the datagrams, sequence numbers, datagrams under way,
\* fragment buffers and the messages handled stay consistent with each other.
THEOREM InvariantHolds == Spec => []IInv
  BY InitInv, NextInv, PTL DEF Spec

\* An envelope is handled once while it is remembered.
THEOREM HandledOnceHolds == Spec => []HandledOnce
<1>1. IInv => HandledOnce
  BY DEF IInv, HandledInv
<1> QED
  BY <1>1, InvariantHolds, PTL

\* What is handled was put together from messages of one size sent under one key, and
\* has a hole only where there were two of those, or where a datagram came twice.
THEOREM HandledWholeHolds == Spec => []HandledWhole
<1>1. IInv => HandledWhole
  BY DEF IInv, HandledInv, WholeEntry, HandledWhole
<1> QED
  BY <1>1, InvariantHolds, PTL

(***************************************************************************)
(* Types.                                                                  *)
(***************************************************************************)
\* What TypeOK says of the rest of the publishers and of the subscriber.
PublisherTypes ==
    /\ \A m \in Message : size[m] \in Sizes[m[1]] \cup {0}
    /\ attempts \in [Message -> Nat]
    /\ \A m \in Message : attempts[m] <= MaxRetries[m]
    /\ disposed \subseteq Senders /\ timer \subseteq Senders \ disposed
    /\ gaveUp \subseteq Message

SubscriberTypes ==
    /\ acks \subseteq Message
    /\ handlers \in 0..MaxHandlers
    /\ \A i \in DOMAIN handled : handled[i].env \in Message

TypeInv == /\ IsFiniteSet(dups) /\ Cardinality(dups) <= MaxDup
           /\ PublisherTypes /\ SubscriberTypes

LEMMA PublishTypes ==
    ASSUME IInv, PublisherTypes, NEW p \in Senders, NEW z \in Sizes[p], Publish(p, z)
    PROVE  PublisherTypes'
<1>1. PICK m : m = <<p, published[p] + 1>>
  OBVIOUS
<1>2. /\ m \in Message /\ m[1] = p /\ p \notin disposed
      /\ size' = [size EXCEPT ![m] = z] /\ attempts' = [attempts EXCEPT ![m] = 1]
      /\ timer' = timer \cup {p} /\ UNCHANGED <<disposed, gaveUp>>
  BY <1>1 DEF Publish, EnsureTimer
<1>3. size \in [Message -> Nat] /\ MaxRetries \in [Message -> Nat \ {0}]
  BY DartAssumption DEF IInv, PendingInv
<1>4. \A o \in Message : size'[o] \in Sizes[o[1]] \cup {0}
  BY <1>2, <1>3 DEF PublisherTypes
<1>5. attempts' \in [Message -> Nat] /\ \A o \in Message : attempts'[o] <= MaxRetries[o]
  BY <1>2, <1>3 DEF PublisherTypes
<1> QED
  BY <1>2, <1>4, <1>5 DEF PublisherTypes

LEMMA TickTypes ==
    ASSUME IInv, PublisherTypes, NEW p \in Senders, NEW due \in SUBSET pending[p], Tick(p, due)
    PROVE  PublisherTypes'
<1>1. PICK out \in SUBSET due : out = {m \in due : Exhausted(m)}
  OBVIOUS
<1>2. /\ attempts' = [m \in Message |-> attempts[m] + (IF m \in due \ out THEN 1 ELSE 0)]
      /\ gaveUp' = gaveUp \cup out /\ timer' \subseteq timer /\ UNCHANGED <<size, disposed>>
  BY <1>1 DEF Tick, Left
<1>3. due \subseteq Message /\ MaxRetries \in [Message -> Nat \ {0}]
  BY DartAssumption DEF IInv, PendingInv
<1>4. ASSUME NEW m \in Message PROVE attempts'[m] \in Nat /\ attempts'[m] <= MaxRetries[m]
  <2>1. attempts[m] \in Nat /\ MaxRetries[m] \in Nat /\ attempts[m] <= MaxRetries[m]
    BY <1>3 DEF PublisherTypes
  <2>2. m \in due \ out => attempts[m] < MaxRetries[m]
    BY <1>1, <2>1 DEF Exhausted
  <2>3. attempts'[m] = attempts[m] + (IF m \in due \ out THEN 1 ELSE 0)
    BY <1>2
  <2> QED
    BY <2>1, <2>2, <2>3
<1>5. attempts' \in [Message -> Nat]
  BY <1>2, <1>4
<1> QED
  BY <1>2, <1>3, <1>4, <1>5 DEF PublisherTypes

\* An envelope that is handled names a message: the first fragment is there.
LEMMA EnvelopeTypes ==
    ASSUME IInv, SubscriberTypes, NEW d \in inFlight, NEW subscribes \in BOOLEAN,
           EnvelopeArrives(d, subscribes)
    PROVE  SubscriberTypes'
<1>1. PICK b : b = Stored(d)
  OBVIOUS
<1>2. PICK h : h = [env |-> b.parts[1], key |-> d.key, parts |-> b.parts]
  OBVIOUS
<1>3. b.parts[1] \in Message /\ h.env = b.parts[1]
  <2>1. BufferOk(d.key, b)'
    BY <1>1, StoredOk DEF EnvelopeArrives, Dispatched, IInv, pubVars
  <2>2. b.parts \in [1..Fragments -> Message \cup {Hole}] /\ 1 \in 1..Fragments
    BY <2>1, LcmAssumption DEF BufferOk, Buffer
  <2>3. b.parts[1] # Hole
    BY <1>1 DEF EnvelopeArrives, Dispatched, Named
  <2> QED
    BY <2>2, <2>3, <1>2
<1>4. /\ acks' \in {acks, acks \cup {b.parts[1]}}
      /\ handled' \in {handled, Append(handled, h)}
      /\ handlers' \in {handlers, handlers + 1}
      /\ handlers' = handlers + 1 => handlers < MaxHandlers \/ handlers' = handlers
  BY <1>1, <1>2 DEF EnvelopeArrives
<1>5. handlers' \in 0..MaxHandlers
  BY <1>4, DartAssumption DEF SubscriberTypes
<1>6. ASSUME NEW i \in DOMAIN handled' PROVE handled'[i].env \in Message
  <2>1. PICK S : handled \in Seq(S)
    BY DEF IInv, HandledInv
  <2>2. handled \in Seq(S \cup {h})
    BY <2>1
  <2>3. CASE handled' = Append(handled, h)
    <3>1. \/ i \in DOMAIN handled /\ handled'[i] = handled[i]
          \/ handled'[i] = h
      BY <2>2, <2>3
    <3> QED
      BY <3>1, <1>3 DEF SubscriberTypes
  <2> QED
    BY <1>4, <2>3 DEF SubscriberTypes
<1> QED
  BY <1>3, <1>4, <1>5, <1>6 DEF SubscriberTypes

LEMMA TypeStep == IInv /\ TypeInv /\ [Next]_vars => TypeInv'
<1> SUFFICES ASSUME IInv, TypeInv, [Next]_vars PROVE TypeInv'
  OBVIOUS
<1> USE DEF TypeInv
<1>1. ASSUME UNCHANGED <<dups, acks, handlers, handled>>, PublisherTypes' PROVE TypeInv'
  BY <1>1 DEF SubscriberTypes
<1>2. ASSUME NEW p \in Senders, NEW z \in Sizes[p], Publish(p, z) PROVE TypeInv'
  BY <1>1, <1>2, PublishTypes DEF Publish, subVars
<1>3. ASSUME NEW p \in Senders, NEW due \in SUBSET pending[p], Tick(p, due) PROVE TypeInv'
  BY <1>1, <1>3, TickTypes DEF Tick, subVars
<1>4. ASSUME NEW p \in Senders, NEW m \in Message, OnAck(p, m) PROVE TypeInv'
  BY <1>1, <1>4 DEF OnAck, Cleared, Left, lcmVars, subVars, PublisherTypes
<1>5. ASSUME NEW p \in Senders, Dispose(p) PROVE TypeInv'
  BY <1>1, <1>5 DEF Dispose, lcmVars, subVars, PublisherTypes
<1>6. CASE Subscribe
  BY <1>6, DartAssumption DEF Subscribe, lcmVars, pubVars, PublisherTypes, SubscriberTypes
<1>7. ASSUME NEW d \in inFlight, NEW b \in BOOLEAN, FragmentArrives(d) \/ EnvelopeArrives(d, b)
      PROVE  TypeInv'
  <2>1. Arrives(d) /\ UNCHANGED pubVars
    BY <1>7 DEF FragmentArrives, FragmentKept, EnvelopeArrives, Dispatched
  <2>2. PublisherTypes'
    BY <2>1 DEF pubVars, PublisherTypes
  <2>3. IsFiniteSet(dups') /\ Cardinality(dups') <= MaxDup
    <3>1. CASE UNCHANGED dups
      BY <3>1
    <3>2. CASE dups' = dups \cup {d.key} /\ d.key \notin dups /\ Cardinality(dups) < MaxDup
      BY <3>2, LcmAssumption, FS_AddElement, FS_CardinalityType
    <3> QED
      BY <2>1, <3>1, <3>2 DEF Arrives
  <2>4. SubscriberTypes'
    BY <1>7, EnvelopeTypes DEF FragmentArrives, subVars, SubscriberTypes
  <2> QED
    BY <2>2, <2>3, <2>4
<1>8. CASE UNCHANGED vars
  BY <1>8 DEF vars, lcmVars, pubVars, subVars, PublisherTypes, SubscriberTypes
<1> QED
  BY <1>2, <1>3, <1>4, <1>5, <1>6, <1>7, <1>8 DEF Next

LEMMA TypeInvHolds == Spec => []TypeInv
<1>1. Init => TypeInv
  <2> SUFFICES ASSUME Init PROVE TypeInv
    OBVIOUS
  <2>1. IsFiniteSet(dups) /\ Cardinality(dups) <= MaxDup /\ 0 \in 0..MaxHandlers
    BY LcmAssumption, DartAssumption, FS_EmptySet DEF Init, LcmInit
  <2>2. PublisherTypes
    BY DartAssumption DEF Init, PublisherTypes
  <2>3. SubscriberTypes
    <3>1. DOMAIN handled = {}
      BY DEF Init
    <3> QED
      BY <2>1, <3>1 DEF Init, SubscriberTypes
  <2> QED
    BY <2>1, <2>2, <2>3 DEF TypeInv
<1> QED
  BY <1>1, InvariantHolds, TypeStep, PTL DEF Spec

\* Every variable of the Dart package's reliable delivery keeps its type.
THEOREM TypeCorrect == Spec => []TypeOK
<1>1. IInv /\ TypeInv => TypeOK
  <2> SUFFICES ASSUME IInv, TypeInv PROVE TypeOK
    OBVIOUS
  <2>1. /\ seqno \in [Senders -> 0..(MaxSeqno + 1)]
        /\ \A d \in inFlight : d.part \in 1..Fragments /\ d.size \in Nat /\ d.msg \in Message
    BY DEF IInv, SeqInv, FlightInv, Datagram
  <2>2. \A k \in DOMAIN buffers : /\ buffers[k].size \in Nat
                                  /\ buffers[k].parts \in [1..Fragments -> Message \cup {Hole}]
    BY DEF IInv, BufferInv, BufferOk, Buffer
  <2>3. published \in [Senders -> Nat] /\ pending \in [Senders -> SUBSET Message]
    BY DEF IInv, PendingInv
  <2>4. \A m \in Message : attempts[m] \in 0..MaxRetries[m]
    BY DartAssumption DEF TypeInv, PublisherTypes
  <2> QED
    BY <2>1, <2>2, <2>3, <2>4 DEF TypeOK, TypeInv, PublisherTypes, SubscriberTypes
<1> QED
  BY <1>1, InvariantHolds, TypeInvHolds, PTL

(***************************************************************************)
(* No message is forgotten: what PendingSettles rests on.                  *)
(***************************************************************************)
WasHandled(m) == \E i \in DOMAIN handled : handled[i].env = m

\* A message that was published is still in _pending, unless its attempts ran out or
\* a subscriber handled it: no acknowledgement clears a message that none has
\* (reliable.dart:221-261, 293-320).
NothingForgotten ==
    \A m \in Message :
        attempts[m] > 0 => m \in pending[m[1]] \/ m \in gaveUp \/ WasHandled(m)

\* Only what was handled is acknowledged.
AckInv == \A m \in acks : WasHandled(m)

LEMMA InWindow ==
    ASSUME NEW S, handled \in Seq(S), NEW m \in Remembered
    PROVE  WasHandled(m)
<1>1. PICK n \in Nat : n = Len(handled) /\ DOMAIN handled = 1..n
  OBVIOUS
<1>2. PICK x \in {0, n - DedupCapacity} : \A y \in {0, n - DedupCapacity} : x >= y
  BY <1>1, DartAssumption
<1>3. Max({0, n - DedupCapacity}) \in {0, n - DedupCapacity}
      /\ Max({0, n - DedupCapacity}) >= 0
  BY <1>2 DEF Max
<1>4. PICK i \in (1 + Max({0, n - DedupCapacity}))..n : handled[i].env = m
  BY <1>1 DEF Remembered
<1>5. i \in 1..n
  BY <1>1, <1>3, <1>4, DartAssumption
<1> QED
  BY <1>1, <1>4, <1>5 DEF WasHandled

LEMMA AppendHandled ==
    ASSUME NEW S, handled \in Seq(S), NEW h, handled' = Append(handled, h)
    PROVE  /\ WasHandled(h.env)'
           /\ \A m : WasHandled(m) => WasHandled(m)'
<1>1. PICK n \in Nat : n = Len(handled) /\ DOMAIN handled = 1..n
  OBVIOUS
<1>2. /\ DOMAIN handled' = 1..(n + 1) /\ handled'[n + 1] = h
      /\ \A i \in 1..n : handled'[i] = handled[i]
  <2>1. handled \in Seq(S \cup {h}) /\ h \in S \cup {h}
    OBVIOUS
  <2> QED
    BY <1>1, <2>1
<1>3. n + 1 \in 1..(n + 1) /\ 1..n \subseteq 1..(n + 1)
  OBVIOUS
<1> QED
  BY <1>1, <1>2, <1>3 DEF WasHandled

LEMMA ArriveForgets ==
    ASSUME IInv, AckInv, NothingForgotten, NEW d, NEW b \in BOOLEAN, EnvelopeArrives(d, b)
    PROVE  AckInv' /\ NothingForgotten'
<1>1. PICK h : h = [env |-> Stored(d).parts[1], key |-> d.key, parts |-> Stored(d).parts]
  OBVIOUS
<1>2. PICK S : handled \in Seq(S)
  BY DEF IInv, HandledInv
<1>3. /\ h.env = Stored(d).parts[1]
      /\ acks' = acks \/ (handlers > 0 /\ acks' = acks \cup {h.env})
      /\ \/ handled' = Append(handled, h)
         \/ handled' = handled /\ (handlers > 0 => h.env \in Remembered)
      /\ UNCHANGED <<attempts, pending, gaveUp>>
  BY <1>1 DEF EnvelopeArrives, pubVars
<1>4. /\ \A m : WasHandled(m) => WasHandled(m)'
      /\ handlers > 0 => WasHandled(h.env)'
  <2>1. CASE handled' = Append(handled, h)
    BY <1>2, <2>1, AppendHandled
  <2>2. CASE handled' = handled /\ (handlers > 0 => h.env \in Remembered)
    <3>1. \A m : WasHandled(m) => WasHandled(m)'
      BY <2>2 DEF WasHandled
    <3> QED
      BY <1>2, <2>2, <3>1, InWindow
  <2> QED
    BY <1>3, <2>1, <2>2
<1>5. AckInv'
  BY <1>3, <1>4 DEF AckInv
<1> QED
  BY <1>3, <1>4, <1>5 DEF NothingForgotten

LEMMA TickForgets ==
    ASSUME IInv, NothingForgotten, NEW p \in Senders, NEW due \in SUBSET pending[p],
           attempts \in [Message -> Nat], Tick(p, due)
    PROVE  NothingForgotten'
<1>1. PICK out \in SUBSET due : out = {m \in due : Exhausted(m)}
  OBVIOUS
<1>2. /\ attempts' = [m \in Message |-> attempts[m] + (IF m \in due \ out THEN 1 ELSE 0)]
      /\ gaveUp' = gaveUp \cup out
      /\ pending' = [pending EXCEPT ![p] = @ \ out]
      /\ handled' = handled
  BY <1>1 DEF Tick, Left, subVars
<1>3. pending \in [Senders -> SUBSET Message] /\ pending[p] \subseteq {p} \X Nat
  BY DEF IInv, PendingInv
<1>4. ASSUME NEW m \in Message, attempts'[m] > 0
      PROVE  m \in pending'[m[1]] \/ m \in gaveUp' \/ WasHandled(m)'
  <2>1. m[1] \in Senders
    BY DartAssumption
  <2>2. CASE m \in due
    <3>1. m \in pending[p] /\ m[1] = p
      BY <1>3, <2>2
    <3> QED
      BY <1>2, <1>3, <3>1
  <2>3. CASE m \notin due
    <3>1. attempts[m] > 0
      BY <1>2, <1>4, <2>3
    <3>2. CASE WasHandled(m)
      BY <1>2, <3>2 DEF WasHandled
    <3> QED
      BY <1>1, <1>2, <1>3, <2>1, <2>3, <3>1, <3>2 DEF NothingForgotten
  <2> QED
    BY <2>2, <2>3
<1> QED
  BY <1>4 DEF NothingForgotten

LEMMA OnAckForgets ==
    ASSUME IInv, AckInv, NothingForgotten, NEW p \in Senders, NEW m \in Message, OnAck(p, m)
    PROVE  NothingForgotten'
<1>1. /\ m \in acks /\ m[1] = p
      /\ pending' = [pending EXCEPT ![p] = {o \in pending[p] : o[2] # m[2]}]
      /\ UNCHANGED <<attempts, gaveUp, handled>>
  BY DEF OnAck, Cleared, Left, subVars
<1>2. pending \in [Senders -> SUBSET Message]
  BY DEF IInv, PendingInv
<1>3. ASSUME NEW o \in Message, o[1] = p, o[2] = m[2]
      PROVE  WasHandled(o)
  <2>1. o = m
    BY <1>1, <1>3, DartAssumption
  <2> QED
    BY <1>1, <2>1 DEF AckInv
<1>4. ASSUME NEW o \in Message, attempts[o] > 0
      PROVE  o \in pending'[o[1]] \/ o \in gaveUp \/ WasHandled(o)
  <2>1. o[1] \in Senders
    BY DartAssumption
  <2>2. o \in pending[o[1]] \/ o \in gaveUp \/ WasHandled(o)
    BY <1>4 DEF NothingForgotten
  <2> QED
    BY <1>1, <1>2, <1>3, <2>1, <2>2
<1>5. \A o : WasHandled(o) => WasHandled(o)'
  BY <1>1 DEF WasHandled
<1> QED
  BY <1>1, <1>4, <1>5 DEF NothingForgotten

LEMMA PublishForgets ==
    ASSUME IInv, NothingForgotten, NEW p \in Senders, NEW z \in Sizes[p],
           attempts \in [Message -> Nat], Publish(p, z)
    PROVE  NothingForgotten'
<1>1. PICK m \in Message :
          /\ m[1] = p
          /\ pending' = [pending EXCEPT ![p] = @ \cup {m}]
          /\ attempts' = [attempts EXCEPT ![m] = 1]
          /\ UNCHANGED <<gaveUp, handled>>
  <2>1. PICK m : m = <<p, published[p] + 1>>
    OBVIOUS
  <2> QED
    BY <2>1 DEF Publish, subVars
<1>2. pending \in [Senders -> SUBSET Message]
  BY DEF IInv, PendingInv
<1>3. ASSUME NEW o \in Message, attempts'[o] > 0
      PROVE  o \in pending'[o[1]] \/ o \in gaveUp \/ WasHandled(o)
  <2>1. o[1] \in Senders
    BY DartAssumption
  <2>2. CASE o = m
    BY <1>1, <1>2, <2>2
  <2>3. CASE o # m
    BY <1>1, <1>2, <1>3, <2>1, <2>3 DEF NothingForgotten
  <2> QED
    BY <2>2, <2>3
<1>4. \A o : WasHandled(o) => WasHandled(o)'
  BY <1>1 DEF WasHandled
<1> QED
  BY <1>1, <1>3, <1>4 DEF NothingForgotten

LEMMA ForgottenStep ==
    IInv /\ TypeInv /\ AckInv /\ NothingForgotten /\ [Next]_vars
        => AckInv' /\ NothingForgotten'
<1> SUFFICES ASSUME IInv, TypeInv, AckInv, NothingForgotten, [Next]_vars
             PROVE  AckInv' /\ NothingForgotten'
  OBVIOUS
<1>1. attempts \in [Message -> Nat]
  BY DEF TypeInv, PublisherTypes
<1>2. ASSUME handled' = handled, acks' = acks PROVE AckInv'
  BY <1>2 DEF AckInv, WasHandled
<1>3. ASSUME UNCHANGED <<attempts, pending, gaveUp, handled, acks>>
      PROVE  AckInv' /\ NothingForgotten'
  BY <1>3 DEF AckInv, WasHandled, NothingForgotten
<1>4. CASE Subscribe
  BY <1>3, <1>4 DEF Subscribe, pubVars
<1>5. CASE \E p \in Senders : Dispose(p)
  BY <1>3, <1>5 DEF Dispose, subVars
<1>6. CASE UNCHANGED vars
  BY <1>3, <1>6 DEF vars, pubVars, subVars
<1>7. CASE \E d \in inFlight : FragmentArrives(d)
  BY <1>3, <1>7 DEF FragmentArrives, pubVars, subVars
<1>8. CASE \E d \in inFlight, b \in BOOLEAN : EnvelopeArrives(d, b)
  BY <1>8, ArriveForgets
<1>9. ASSUME NEW p \in Senders, NEW z \in Sizes[p], Publish(p, z)
      PROVE  AckInv' /\ NothingForgotten'
  BY <1>1, <1>2, <1>9, PublishForgets DEF Publish, subVars
<1>10. ASSUME NEW p \in Senders, NEW m \in Message, OnAck(p, m)
       PROVE  AckInv' /\ NothingForgotten'
  BY <1>2, <1>10, OnAckForgets DEF OnAck, subVars
<1>11. ASSUME NEW p \in Senders, NEW due \in SUBSET pending[p], Tick(p, due)
       PROVE  AckInv' /\ NothingForgotten'
  BY <1>1, <1>2, <1>11, TickForgets DEF Tick, subVars
<1> QED
  BY <1>4, <1>5, <1>6, <1>7, <1>8, <1>9, <1>10, <1>11 DEF Next

\* A publisher stops re-sending only what was handled or has been given up.
THEOREM NothingForgottenHolds == Spec => []NothingForgotten
<1>1. Init => AckInv /\ NothingForgotten
  BY DEF Init, AckInv, NothingForgotten
<1> QED
  BY <1>1, InvariantHolds, TypeInvHolds, ForgottenStep, PTL DEF Spec

(***************************************************************************)
(* The retry timer.                                                        *)
(***************************************************************************)
\* A publisher that has pending messages and was not disposed of retries.
TimerRuns == \A p \in Senders : pending[p] # {} /\ p \notin disposed => p \in timer

\* What takes messages from a list stops the timer with the last of them.
LEMMA LeftKeepsTimer ==
    ASSUME TimerRuns, PendingInv, NEW p \in Senders, NEW ms \in SUBSET pending[p],
           Left(p, ms), UNCHANGED disposed
    PROVE  TimerRuns'
<1>1. pending' = [pending EXCEPT ![p] = ms]
  BY DEF Left
<1>2. ASSUME NEW q \in Senders, pending'[q] # {}, q \notin disposed' PROVE q \in timer'
  <2>1. CASE q = p
    <3>1. ms # {} /\ pending[p] # {}
      BY <1>1, <1>2, <2>1 DEF PendingInv
    <3>2. p \in timer /\ timer' = timer
      BY <1>2, <2>1, <3>1 DEF TimerRuns, Left
    <3> QED
      BY <2>1, <3>2
  <2>2. CASE q # p
    <3>1. pending'[q] = pending[q]
      BY <1>1, <2>2 DEF PendingInv
    <3>2. q \in timer /\ timer' \in {timer, timer \ {p}}
      BY <1>2, <3>1 DEF TimerRuns, Left
    <3> QED
      BY <2>2, <3>2
  <2> QED
    BY <2>1, <2>2
<1> QED
  BY <1>2 DEF TimerRuns

LEMMA TimerStep == IInv /\ TimerRuns /\ [Next]_vars => TimerRuns'
<1> SUFFICES ASSUME IInv, TimerRuns, [Next]_vars PROVE TimerRuns'
  OBVIOUS
<1>1. ASSUME UNCHANGED <<pending, timer, disposed>> PROVE TimerRuns'
  BY <1>1 DEF TimerRuns
<1>2. CASE Subscribe \/ UNCHANGED vars
  BY <1>1, <1>2 DEF Subscribe, pubVars, vars
<1>3. CASE \E d \in inFlight :
              FragmentArrives(d) \/ \E b \in BOOLEAN : EnvelopeArrives(d, b)
  BY <1>1, <1>3 DEF FragmentArrives, EnvelopeArrives, pubVars
<1>4. ASSUME NEW p \in Senders, NEW z \in Sizes[p], Publish(p, z) PROVE TimerRuns'
  <2>1. timer' = timer \cup {p} /\ UNCHANGED disposed
    BY <1>4 DEF Publish, EnsureTimer
  <2>2. \A q \in Senders : q # p => pending'[q] = pending[q]
    BY <1>4 DEF Publish, IInv, PendingInv
  <2> QED
    BY <2>1, <2>2 DEF TimerRuns
<1>5. ASSUME NEW p \in Senders, NEW m \in Message, OnAck(p, m) PROVE TimerRuns'
  BY <1>5, LeftKeepsTimer DEF OnAck, Cleared, IInv
<1>6. ASSUME NEW p \in Senders, NEW due \in SUBSET pending[p], Tick(p, due)
      PROVE  TimerRuns'
  BY <1>6, LeftKeepsTimer DEF Tick, IInv
<1>7. ASSUME NEW p \in Senders, Dispose(p) PROVE TimerRuns'
  BY <1>7 DEF Dispose, TimerRuns
<1> QED
  BY <1>2, <1>3, <1>4, <1>5, <1>6, <1>7 DEF Next

\* The timer that an empty list cancels is armed again by the next publish: while a
\* message is pending and its publisher not disposed of, the timer runs, so that
\* _tick sees the message again (reliable.dart:217, 226-237, 257-260).
THEOREM TimerRunsHolds == Spec => []TimerRuns
<1>1. Init => TimerRuns
  BY DEF Init, TimerRuns
<1> QED
  BY <1>1, InvariantHolds, TimerStep, PTL DEF Spec
====
