---- MODULE LcmUdp ----
(***************************************************************************)
(* LCM over UDP multicast as the Dart package implements it                *)
(* (dart/lib/src/lcm/lcm.dart): a message that does not fit in one         *)
(* datagram is cut into fragments, and the receiver puts them together in  *)
(* buffers keyed by the hash of its address and the sequence number.       *)
(* Datagrams arrive in any order, twice, or never: a lost one stays in     *)
(* flight.  The content of a fragment is the message it is cut from:       *)
(* <<sender, number>>.                                                     *)
(***************************************************************************)
EXTENDS Integers, FiniteSets

CONSTANTS Senders,   \* processes that send
          Hash,      \* hashCode of the address of each, which a host's processes share
          HashXor(_, _), \* ^ on a hash and a number
          Fragments, \* fragments of a message
          MaxSeqno,  \* bound: numbers have 32 bits and do not wrap
          MaxDup     \* bound: keys under which the network duplicates a datagram

\* _makeFragmentKey.  Senders share a key when their numbers differ by their hashes.
Key(s, n) == HashXor(Hash[s], n)

ASSUME LcmAssumption ==
    /\ Fragments \in Nat \ {0}
    /\ DOMAIN Hash = Senders
    /\ {MaxSeqno, MaxDup} \subseteq Nat
    /\ \A s \in Senders : \A n, k \in 0..MaxSeqno : Key(s, n) = Key(s, k) => n = k

VARIABLES seqno,    \* _messageSequenceNumber of each sender
          inFlight, \* fragments the network still has
          buffers,  \* _fragmentBuffers of the receiver
          dups,     \* keys under which a datagram was duplicated
          used      \* history: the messages sent under each key

lcmVars == <<seqno, inFlight, buffers, dups, used>>

Hole == <<>>

LcmInit == /\ seqno = [s \in Senders |-> 0]
           /\ inFlight = {}
           /\ buffers = <<>>
           /\ dups = {}
           /\ used = {}

Fragment(s, n, m, size) ==
    {[key |-> Key(s, n), part |-> i, size |-> size, msg |-> m] : i \in 1..Fragments}

\* How many of ms go out before m.
Rank(m, ms) == Cardinality({o \in ms : o[2] < m[2]})

\* publish, once for each of ms in the order of their numbers: a sequence number and
\* the fragments.
Send(s, ms, size) ==
    /\ seqno[s] + Cardinality(ms) <= MaxSeqno + 1
    /\ seqno' = [seqno EXCEPT ![s] = @ + Cardinality(ms)]
    /\ inFlight' = inFlight \cup
           UNION {Fragment(s, seqno[s] + Rank(m, ms), m, size[m]) : m \in ms}
    /\ used' = used \cup {<<Key(s, seqno[s] + Rank(m, ms)), m>> : m \in ms}

\* The network hands d over; it may come again.
Arrives(d) == /\ d \in inFlight
              /\ \/ inFlight' = inFlight \ {d} /\ UNCHANGED dups
                 \/ /\ d.key \notin dups /\ Cardinality(dups) < MaxDup
                    /\ dups' = dups \cup {d.key}
                    /\ UNCHANGED inFlight
              /\ UNCHANGED <<seqno, used>>

FreshBuffer(d) ==
    [size |-> d.size, remaining |-> Fragments, parts |-> [i \in 1..Fragments |-> Hole]]

\* Mutant: the size of the message is not compared.
BufferOfAnySize(d) ==
    IF d.key \in DOMAIN buffers THEN buffers[d.key] ELSE FreshBuffer(d)

\* The buffer d goes to: one of another size is given up.
BufferFor(d) ==
    IF d.key \in DOMAIN buffers /\ buffers[d.key].size = d.size THEN buffers[d.key]
    ELSE FreshBuffer(d)

\* It counts fragments, and does not look whether it has this one.
Stored(d) == [BufferFor(d) EXCEPT !.parts[d.part] = d.msg, !.remaining = @ - 1]

KeepBuffer(d) ==
    buffers' = [k \in DOMAIN buffers \cup {d.key} |->
                   IF k = d.key THEN Stored(d) ELSE buffers[k]]

DropBuffer(d) == buffers' = [k \in DOMAIN buffers \ {d.key} |-> buffers[k]]

\* The message is complete when the count is; its channel is in the first fragment.
Complete(d) == Stored(d).remaining = 0
Named(d)    == Stored(d).parts[1] # Hole

\* _handleFragmentedMessage, short of the dispatch of a complete message; one without
\* a channel throws, and its buffer stays.
FragmentKept(d) == /\ Arrives(d)
                   /\ ~(Complete(d) /\ Named(d))
                   /\ KeepBuffer(d)

\* The buffer goes after the dispatch, if that did not throw.
Dispatched(d, throws) == /\ Arrives(d)
                         /\ Complete(d) /\ Named(d)
                         /\ IF throws THEN KeepBuffer(d) ELSE DropBuffer(d)
====
