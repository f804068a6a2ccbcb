---- MODULE DartTransport ----
(***************************************************************************)
(* Reliable delivery in the Dart package (dart/lib/src/reliable.dart) over *)
(* its own LCM: publishers retry an envelope until an acknowledgement      *)
(* arrives or the attempts run out, one subscribing process acknowledges   *)
(* every envelope and hands each to its handlers once.  Envelopes are      *)
(* fragmented, acknowledgements fit in a datagram.  One channel; every     *)
(* process runs a single isolate, so that a callback is one step.          *)
(***************************************************************************)
EXTENDS LcmUdp, Sequences, FiniteSetsExt

CONSTANTS MaxRetries,    \* maxRetries of each message
          Sizes,         \* data sizes each publisher uses
          DedupCapacity, \* _dedupCapacity: 1000
          MaxHandlers    \* bound: reliable subscriptions

Message == DOMAIN MaxRetries

ASSUME DartAssumption ==
    /\ \A m \in Message : m = <<m[1], m[2]>> /\ m[1] \in Senders /\ m[2] \in Nat \ {0}
    /\ Sizes \in [Senders -> SUBSET (Nat \ {0})]
    /\ MaxRetries \in [Message -> Nat \ {0}]
    /\ DedupCapacity \in Nat \ {0} /\ MaxHandlers \in Nat

VARIABLES published, \* _seqNum of each publisher: messages published
          size,      \* the size of each message
          pending,   \* _pending of each publisher, which keeps the order of publishing
          attempts,  \* attempts of each message
          timer,     \* publishers whose _retryTimer runs
          disposed,  \* publishers that were disposed of
          acks,      \* acknowledgements sent: each may arrive at any time, or never
          handlers,  \* reliable subscriptions of the subscribing process
          handled,   \* the envelopes handled and their fragments, in order
          gaveUp     \* history: messages whose attempts ran out

pubVars == <<published, size, pending, attempts, timer, disposed, gaveUp>>
subVars == <<acks, handlers, handled>>
vars    == <<lcmVars, pubVars, subVars>>

Init == /\ LcmInit
        /\ published = [p \in Senders |-> 0]
        /\ size = [m \in Message |-> 0]
        /\ pending = [p \in Senders |-> {}]
        /\ attempts = [m \in Message |-> 0]
        /\ timer = {} /\ disposed = {} /\ gaveUp = {}
        /\ acks = {} /\ handlers = 0 /\ handled = <<>>

(***************************************************************************)
(* ReliablePublisher.                                                      *)
(***************************************************************************)
EnsureTimer(p) == timer \cup {p}

Publish(p, z) ==
    LET m == <<p, published[p] + 1>> IN
    /\ m \in Message /\ p \notin disposed
    /\ published' = [published EXCEPT ![p] = @ + 1]
    /\ size' = [size EXCEPT ![m] = z]
    /\ Send(p, {m}, size')
    /\ pending' = [pending EXCEPT ![p] = @ \cup {m}]
    /\ attempts' = [attempts EXCEPT ![m] = 1]
    /\ timer' = EnsureTimer(p)
    /\ UNCHANGED <<buffers, dups, disposed, gaveUp, subVars>>

\* What is left of _pending; an empty list cancels the timer.
Left(p, ms) == /\ pending' = [pending EXCEPT ![p] = ms]
               /\ timer' = IF ms = {} THEN timer \ {p} ELSE timer

\* Mutant: the publisher of the acknowledged message is not compared.
AnyPublisher(p, m) == Left(p, {o \in pending[p] : o[2] # m[2]})

Cleared(p, m) == /\ m[1] = p
                 /\ Left(p, {o \in pending[p] : o[2] # m[2]})

OnAck(p, m) ==
    /\ m \in acks /\ p \notin disposed
    /\ Cleared(p, m)
    /\ UNCHANGED <<lcmVars, published, size, attempts, disposed, gaveUp, subVars>>

\* Mutant: one attempt too many.
ExhaustedLate(m) == attempts[m] > MaxRetries[m]

Exhausted(m) == attempts[m] >= MaxRetries[m]

\* _tick: the messages that are due, a matter of time, are sent again or given up.
Tick(p, due) ==
    LET out    == {m \in due : Exhausted(m)}
        resent == due \ out
    IN  /\ p \in timer
        /\ Send(p, resent, size)
        /\ attempts' = [m \in Message |-> attempts[m] + (IF m \in resent THEN 1 ELSE 0)]
        /\ gaveUp' = gaveUp \cup out
        /\ Left(p, pending[p] \ out)
        /\ UNCHANGED <<buffers, dups, published, size, disposed, subVars>>

\* dispose cancels the timer and the subscription, and leaves _pending alone.
Dispose(p) ==
    /\ p \notin disposed
    /\ disposed' = disposed \cup {p}
    /\ timer' = timer \ {p}
    /\ UNCHANGED <<lcmVars, published, size, pending, attempts, gaveUp, subVars>>

(***************************************************************************)
(* ReliableSubscriber.                                                     *)
(***************************************************************************)
Subscribe == /\ handlers < MaxHandlers
             /\ handlers' = handlers + 1
             /\ UNCHANGED <<lcmVars, pubVars, acks, handled>>

FragmentArrives(d) == FragmentKept(d) /\ UNCHANGED <<pubVars, subVars>>

\* Mutant: the window is one envelope short.
RememberedShort ==
    LET n == Len(handled)
    IN  {handled[i].env : i \in (2 + Max({0, n - DedupCapacity}))..n}

\* _dedupSet, which all subscriptions of the process share.
Remembered ==
    LET n == Len(handled)
    IN  {handled[i].env : i \in (1 + Max({0, n - DedupCapacity}))..n}

\* _dispatchMessage calls _onEnvelope once per subscription: each acknowledges, the
\* first hands the envelope on.  The header of an envelope is in its first fragment.
\* A handler that subscribes modifies the list that is iterated: the dispatch throws.
EnvelopeArrives(d, subscribes) ==
    LET parts == Stored(d).parts
        new   == handlers > 0 /\ parts[1] \notin Remembered
    IN  /\ subscribes => new /\ handlers < MaxHandlers
        /\ Dispatched(d, subscribes)
        /\ acks' = IF handlers > 0 THEN acks \cup {parts[1]} ELSE acks
        /\ handled' = IF new THEN Append(handled, [env |-> parts[1], key |-> d.key, parts |-> parts])
                      ELSE handled
        /\ handlers' = IF subscribes THEN handlers + 1 ELSE handlers
        /\ UNCHANGED pubVars

Next == \/ Subscribe
        \/ \E p \in Senders :
              \/ \E z \in Sizes[p] : Publish(p, z)
              \/ \E m \in Message : OnAck(p, m)
              \/ \E due \in SUBSET pending[p] : due # {} /\ Tick(p, due)
              \/ Dispose(p)
        \/ \E d \in inFlight : FragmentArrives(d) \/ \E b \in BOOLEAN : EnvelopeArrives(d, b)

Spec == Init /\ [][Next]_vars

\* The timer fires while it runs, and the oldest message is due again and again;
\* nothing is assumed of the network.
LiveSpec == /\ Spec
            /\ \A p \in Senders :
                   WF_vars(\E due \in SUBSET pending[p] :
                              /\ \E m \in due : \A o \in pending[p] : m[2] <= o[2]
                              /\ Tick(p, due))

(***************************************************************************)
(* Properties.                                                             *)
(***************************************************************************)
\* Every variable keeps its type.
TypeOK ==
    /\ seqno \in [Senders -> 0..(MaxSeqno + 1)]
    /\ IsFiniteSet(dups) /\ Cardinality(dups) <= MaxDup
    /\ \A d \in inFlight : d.part \in 1..Fragments /\ d.size \in Nat /\ d.msg \in Message
    /\ \A k \in DOMAIN buffers : buffers[k].size \in Nat
                                 /\ buffers[k].parts \in [1..Fragments -> Message \cup {Hole}]
    /\ published \in [Senders -> Nat]
    /\ \A m \in Message : size[m] \in Sizes[m[1]] \cup {0}
    /\ pending \in [Senders -> SUBSET Message]
    /\ \A m \in Message : attempts[m] \in 0..MaxRetries[m]
    /\ timer \subseteq Senders \ disposed /\ disposed \subseteq Senders
    /\ acks \subseteq Message /\ gaveUp \subseteq Message
    /\ handlers \in 0..MaxHandlers
    /\ \A i \in DOMAIN handled : handled[i].env \in Message

\* However often an envelope is retried, duplicated or delayed, and whichever
\* subscriptions were made meanwhile, it is handled once while it is remembered
\* (reliable.dart:293-320).
HandledOnce ==
    \A i, j \in DOMAIN handled :
        i < j /\ j <= i + DedupCapacity => handled[i].env # handled[j].env

\* The messages of the size of m that were sent under the key k.
Alike(k, m) == {o \in Message : <<k, o>> \in used /\ size[o] = size[m]}

\* Senders share fragment buffers when their hashes and numbers meet, and a fragment
\* that comes twice counts for a missing one.  Still, what is handled was put together
\* only from messages of one size that went out under one key, and it has a hole only
\* where there were two of those, or where one had a datagram duplicated
\* (lcm.dart:534-610); all other envelopes are handled as they were sent.
HandledWhole ==
    \A i \in DOMAIN handled :
        LET h     == handled[i]
            alike == Alike(h.key, h.env)
        IN  \A j \in 1..Fragments :
                \/ h.parts[j] \in alike
                \/ h.parts[j] = Hole /\ (h.key \in dups \/ alike # {h.env})

\* Every message published leaves _pending, unless its transport is disposed of, and
\* by then it was handled or its attempts had run out (reliable.dart:192-261).
PendingSettles ==
    \A m \in Message :
        attempts[m] > 0 ~>
            \/ m[1] \in disposed
            \/ /\ m \notin pending[m[1]]
               /\ m \in gaveUp \/ \E i \in DOMAIN handled : handled[i].env = m
====
