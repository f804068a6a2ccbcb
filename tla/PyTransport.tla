---- MODULE PyTransport ----
(***************************************************************************)
(* The Python transport (python/raccoon_transport/transport.py): an        *)
(* in-process broker, a queue per Transport that holds what this Transport *)
(* published, and a thread per Transport that runs the callbacks of        *)
(* whoever subscribed, under the lock of its own queue.  One application   *)
(* channel; envelopes travel on its reliable channel, values on the plain  *)
(* one.  A message is identified by the order it was published in, and     *)
(* subscriptions are never given up.                                       *)
(***************************************************************************)
EXTENDS Integers, Sequences, SequencesExt, FiniteSetsExt

CONSTANTS Transports,
          Publishers,    \* transports whose application publishes
          Listeners,     \* transports whose application subscribes reliably
          Askers,        \* transports whose application asks for the retained value
          Options,       \* what each publisher asks for: sets of "reliable" and "retained"
          DedupCapacity, \* maxlen of _dedup_ring: 1000
          MaxRetries,    \* max_retries of each message
          MaxPublished   \* bound: messages of each publisher

ASSUME PyAssumption ==
    /\ IsFiniteSet(Transports) /\ "free" \notin Transports
    /\ Publishers \subseteq Transports /\ Listeners \subseteq Transports
    /\ Askers \subseteq Transports
    /\ Options \in [Publishers -> SUBSET SUBSET {"reliable", "retained"}]
    /\ DedupCapacity \in Nat \ {0} /\ MaxPublished \in [Publishers -> Nat]

VARIABLES listening, \* transports subscribed to the reliable channel, in order
          asked,     \* transports subscribed to the plain channel, in order
          queue,     \* _Memq._queue of each transport
          lock,      \* _Memq._lock: the transport whose thread holds it, or "free"
          pc,        \* where the thread of each transport is
          item,      \* the message its callback is called with
          local,     \* the value a method has read and not used yet
          published, \* messages published
          cache,     \* _retain_cache: the value retained, 0 for none
          pending,   \* _pending
          attempts,  \* "attempts" of each message ever pending
          todo,      \* pending messages _tick_reliable has still to visit
          kept,      \* remaining
          handled,   \* _dedup_ring without its limit: envelopes handled, in order
          seen,      \* values handled
          gaveUp     \* history: messages whose retries were exhausted

subVars == <<listening, asked>>
pubVars == <<published, cache>>
relVars == <<pending, attempts, gaveUp>>
vars    == <<subVars, queue, lock, pc, item, local, pubVars, relVars, todo, kept, handled,
             seen>>

Message == UNION {{p} \X (1..MaxPublished[p]) : p \in Publishers}

ASSUME RetriesAssumption == MaxRetries \in [Message -> Nat \ {0}]

NoItem  == [to |-> "free", kind |-> "none", msg |-> <<>>]

Init == /\ listening = <<>> /\ asked = <<>>
        /\ queue = [t \in Transports |-> <<>>]
        /\ lock = [t \in Transports |-> "free"]
        /\ pc = [t \in Transports |-> "idle"]
        /\ item = [t \in Transports |-> NoItem]
        /\ local = [t \in Transports |-> {}]
        /\ published = [p \in Publishers |-> 0]
        /\ cache = [t \in Transports |-> {}]
        /\ pending = [t \in Transports |-> {}]
        /\ attempts = [m \in Message |-> 0]
        /\ todo = [t \in Transports |-> {}] /\ kept = [t \in Transports |-> {}]
        /\ handled = [t \in Transports |-> <<>>]
        /\ seen = [t \in Transports |-> {}]
        /\ gaveUp = {}

(***************************************************************************)
(* _Memq.publish: one item for every subscription, on the queue of the     *)
(* transport t that publishes.  It needs t's lock, whichever thread calls. *)
(***************************************************************************)
For(subs, kind, m) == [i \in 1..Len(subs) |-> [to |-> subs[i], kind |-> kind, msg |-> m]]

Everyone == SetToSeq(Transports)

MemqPublish(t, subs, kind, m) ==
    /\ lock[t] = "free"
    /\ queue' = [queue EXCEPT ![t] = @ \o For(subs, kind, m)]

Goto(t, l) == pc' = [pc EXCEPT ![t] = l]

(***************************************************************************)
(* The application, between two calls of spin_once.                        *)
(***************************************************************************)
SubscribeReliable(t) ==
    /\ pc[t] = "idle" /\ lock[t] = "free"
    /\ t \in Listeners /\ ~Contains(listening, t)
    /\ listening' = Append(listening, t)
    /\ UNCHANGED <<asked, queue, lock, pc, item, local, pubVars, relVars, todo, kept,
                   handled, seen>>

SubscribeRetained(t) ==
    /\ pc[t] = "idle" /\ lock[t] = "free"
    /\ t \in Askers /\ ~Contains(asked, t)
    /\ asked' = Append(asked, t)
    /\ Goto(t, "ask")
    /\ UNCHANGED <<listening, queue, lock, item, local, pubVars, relVars, todo, kept,
                   handled, seen>>

\* _send_retain_request.
Ask(t) == /\ pc[t] = "ask"
          /\ MemqPublish(t, Everyone, "request", <<>>)
          /\ Goto(t, "idle")
          /\ UNCHANGED <<subVars, lock, item, local, pubVars, relVars, todo, kept, handled,
                         seen>>

\* publish, up to the queue: the envelope or the value is out before the message is
\* pending or cached.
Publish(t, options) ==
    /\ pc[t] = "idle"
    /\ published[t] < MaxPublished[t]
    /\ LET m == <<t, published[t] + 1>> IN
          /\ IF "reliable" \in options THEN MemqPublish(t, listening, "envelope", m)
                                       ELSE MemqPublish(t, asked, "value", m)
          /\ local' = IF options = {} THEN local ELSE [local EXCEPT ![t] = {m}]
    /\ published' = [published EXCEPT ![t] = @ + 1]
    /\ Goto(t, CASE options = {} -> "idle"
                 [] options = {"reliable"} -> "append"
                 [] options = {"retained"} -> "cache"
                 [] OTHER -> "append and cache")
    /\ UNCHANGED <<subVars, lock, item, cache, relVars, todo, kept, handled, seen>>

AppendPending(t) ==
    /\ pc[t] \in {"append", "append and cache"}
    /\ pending' = [pending EXCEPT ![t] = @ \cup local[t]]
    /\ attempts' = [m \in Message |-> IF m \in local[t] THEN 1 ELSE attempts[m]]
    /\ local' = IF pc[t] = "append" THEN [local EXCEPT ![t] = {}] ELSE local
    /\ Goto(t, IF pc[t] = "append" THEN "idle" ELSE "cache")
    /\ UNCHANGED <<subVars, queue, lock, item, pubVars, gaveUp, todo, kept, handled,
                   seen>>

Cache(t) == /\ pc[t] = "cache"
            /\ cache' = [cache EXCEPT ![t] = local[t]]
            /\ local' = [local EXCEPT ![t] = {}]
            /\ Goto(t, "idle")
            /\ UNCHANGED <<subVars, queue, lock, item, published, relVars,
                           todo, kept, handled, seen>>

(***************************************************************************)
(* spin_once: handle_timeout calls one callback under the lock of the      *)
(* queue it came from, then _tick_reliable runs.                           *)
(***************************************************************************)
Pop(t) == /\ pc[t] = "idle" /\ lock[t] = "free"
          /\ queue[t] # <<>>
          /\ lock' = [lock EXCEPT ![t] = t]
          /\ item' = [item EXCEPT ![t] = Head(queue[t])]
          /\ queue' = [queue EXCEPT ![t] = Tail(@)]
          /\ Goto(t, Head(queue[t]).kind)
          /\ UNCHANGED <<subVars, local, pubVars, relVars, todo, kept, handled, seen>>

\* _tick_reliable begins with the list as it is once handle_timeout is over.
Tick(t) == /\ todo' = [todo EXCEPT ![t] = pending'[t]]
           /\ Goto(t, IF pending'[t] = {} THEN "idle" ELSE "visit")

PopNothing(t) == /\ pc[t] = "idle" /\ lock[t] = "free"
                 /\ queue[t] = <<>> /\ pending[t] # {}
                 /\ UNCHANGED <<subVars, queue, lock, item, local, pubVars, relVars, kept,
                                handled, seen>>
                 /\ Tick(t)

\* The callback returns, and its locals are gone.
Return(t) == /\ lock' = [lock EXCEPT ![t] = "free"]
             /\ item' = [item EXCEPT ![t] = NoItem]
             /\ local' = [local EXCEPT ![t] = {}]
             /\ Tick(t)

\* Mutant: the window is one envelope short.
RememberedShort(s) ==
    LET h == handled[s] n == Len(h)
    IN  Range(SubSeq(h, 2 + Max({0, n - DedupCapacity}), n))

Remembered(s) ==
    LET h == handled[s] n == Len(h) IN Range(SubSeq(h, 1 + Max({0, n - DedupCapacity}), n))

\* _on_envelope of the subscriber: the acknowledgement needs the subscriber's lock,
\* and goes out before the duplicate is recognised.
OnEnvelope(t) ==
    /\ pc[t] = "envelope"
    /\ LET s == item[t].to m == item[t].msg IN
          /\ MemqPublish(s, Everyone, "ack", m)
          /\ handled' = IF m \in Remembered(s) THEN handled
                        ELSE [handled EXCEPT ![s] = Append(@, m)]
    /\ UNCHANGED <<subVars, pubVars, relVars, kept, seen>>
    /\ Return(t)

OnForeignAck(t) ==
    /\ pc[t] = "ack"
    /\ item[t].to # item[t].msg[1]
    /\ UNCHANGED <<subVars, queue, pubVars, relVars, kept, handled, seen>>
    /\ Return(t)

\* _on_ack builds the new list...
OnAck(t) ==
    /\ pc[t] = "ack"
    /\ item[t].to = item[t].msg[1]
    /\ local' = [local EXCEPT ![t] = pending[item[t].to] \ {item[t].msg}]
    /\ Goto(t, "acked")
    /\ UNCHANGED <<subVars, queue, lock, item, pubVars, relVars, todo, kept, handled, seen>>

\* ...and then replaces the old one.
StoreAcked(t) ==
    /\ pc[t] = "acked"
    /\ pending' = [pending EXCEPT ![item[t].to] = local[t]]
    /\ UNCHANGED <<subVars, queue, pubVars, attempts, gaveUp, kept,
                   handled, seen>>
    /\ Return(t)

\* _on_retain_request reads the cache, then publishes what it read.
OnRequest(t) ==
    /\ pc[t] = "request"
    /\ UNCHANGED <<subVars, queue, pubVars, relVars, kept, handled, seen>>
    /\ LET p == item[t].to IN
          IF cache[p] = {} THEN Return(t)
          ELSE /\ local' = [local EXCEPT ![t] = cache[p]]
               /\ Goto(t, "replay")
               /\ UNCHANGED <<lock, item, todo>>

\* Mutant: the value goes out on the reliable channel.
ReplayReliably(t) ==
    /\ pc[t] = "replay"
    /\ \E m \in local[t] : MemqPublish(item[t].to, listening, "value", m)
    /\ UNCHANGED <<subVars, pubVars, relVars, kept, handled, seen>>
    /\ Return(t)

Replay(t) ==
    /\ pc[t] = "replay"
    /\ \E m \in local[t] : MemqPublish(item[t].to, asked, "value", m)
    /\ UNCHANGED <<subVars, pubVars, relVars, kept, handled, seen>>
    /\ Return(t)

OnValue(t) ==
    /\ pc[t] = "value"
    /\ seen' = [seen EXCEPT ![item[t].to] = @ \cup {item[t].msg}]
    /\ UNCHANGED <<subVars, queue, pubVars, relVars, kept, handled>>
    /\ Return(t)

(***************************************************************************)
(* _tick_reliable: which messages are due is a matter of time.             *)
(***************************************************************************)
First(s) == CHOOSE m \in s : \A o \in s : m[2] <= o[2]

Visited(t, m) == /\ pc[t] = "visit" /\ todo[t] # {}
                 /\ m = First(todo[t])
                 /\ todo' = [todo EXCEPT ![t] = @ \ {m}]

NotDue(t) == \E m \in todo[t] :
    /\ Visited(t, m)
    /\ kept' = [kept EXCEPT ![t] = @ \cup {m}]
    /\ UNCHANGED <<subVars, queue, lock, pc, item, local, pubVars, relVars, handled, seen>>

\* Mutant: a message whose retries are exhausted stays pending.
KeepsTrying(t, m) ==
    /\ Visited(t, m)
    /\ attempts[m] >= MaxRetries[m]
    /\ kept' = [kept EXCEPT ![t] = @ \cup {m}]
    /\ UNCHANGED <<subVars, queue, lock, pc, item, local, pubVars, relVars, handled, seen>>

GiveUp(t, m) ==
    /\ Visited(t, m)
    /\ attempts[m] >= MaxRetries[m]
    /\ gaveUp' = gaveUp \cup {m}
    /\ UNCHANGED <<subVars, queue, lock, pc, item, local, pubVars, pending, attempts, kept,
                   handled, seen>>

\* Mutant: the attempts are not compared with the limit.
RetryAnyway(t, m) ==
    /\ Visited(t, m)
    /\ MemqPublish(t, listening, "envelope", m)
    /\ attempts' = [attempts EXCEPT ![m] = @ + 1]
    /\ kept' = [kept EXCEPT ![t] = @ \cup {m}]
    /\ UNCHANGED <<subVars, lock, pc, item, local, pubVars, pending, gaveUp, handled, seen>>

Retry(t, m) ==
    /\ Visited(t, m)
    /\ attempts[m] < MaxRetries[m]
    /\ MemqPublish(t, listening, "envelope", m)
    /\ attempts' = [attempts EXCEPT ![m] = @ + 1]
    /\ kept' = [kept EXCEPT ![t] = @ \cup {m}]
    /\ UNCHANGED <<subVars, lock, pc, item, local, pubVars, pending, gaveUp, handled, seen>>

StoreKept(t) ==
    /\ pc[t] = "visit" /\ todo[t] = {}
    /\ pending' = [pending EXCEPT ![t] = kept[t]]
    /\ kept' = [kept EXCEPT ![t] = {}]
    /\ Goto(t, "idle")
    /\ UNCHANGED <<subVars, queue, lock, item, local, pubVars, attempts, gaveUp, todo,
                   handled, seen>>

Due(t, m) == GiveUp(t, m) \/ Retry(t, m)

CallStep(t) == Ask(t) \/ AppendPending(t) \/ Cache(t)

SpinStep(t) == \/ Pop(t) \/ PopNothing(t)
               \/ OnEnvelope(t) \/ OnForeignAck(t) \/ OnAck(t) \/ StoreAcked(t)
               \/ OnRequest(t) \/ Replay(t) \/ OnValue(t)
               \/ NotDue(t) \/ (\E m \in todo[t] : Due(t, m)) \/ StoreKept(t)

Next == \E t \in Transports :
            \/ SubscribeReliable(t) \/ SubscribeRetained(t)
            \/ t \in Publishers /\ \E options \in Options[t] : Publish(t, options)
            \/ CallStep(t) \/ SpinStep(t)

Spec == Init /\ [][Next]_vars

\* Every thread spins on, and a message that stays pending is due time and again.
LiveSpec == /\ Spec
            /\ \A t \in Transports : WF_vars(CallStep(t) \/ SpinStep(t))
            /\ \A m \in Message : SF_vars(Due(m[1], m))

(***************************************************************************)
(* Properties.                                                             *)
(***************************************************************************)
\* Every variable keeps its type.
TypeOK ==
    /\ listening \in Seq(Listeners) /\ asked \in Seq(Askers)
    /\ \A t \in Transports :
          /\ lock[t] \in Transports \cup {"free"}
          /\ \A i \in DOMAIN queue[t] :
                /\ queue[t][i].to \in Transports
                /\ queue[t][i].kind \in {"envelope", "ack", "request", "value"}
                /\ queue[t][i].msg \in Message \cup {<<>>}
          /\ \A s \in {local[t], cache[t], pending[t], todo[t], kept[t]} : s \subseteq Message
          /\ handled[t] \in Seq(Message) /\ seen[t] \subseteq Message
    /\ \A p \in Publishers : published[p] \in 0..MaxPublished[p]
    /\ \A m \in Message : attempts[m] \in 0..MaxRetries[m]
    /\ gaveUp \subseteq Message

\* An envelope is handled once, also when _on_ack and _tick_reliable, in two threads,
\* overwrite each other's list and a message that was acknowledged is sent again, as
\* long as the window remembers it (transport.py:163-192, 227-234).
HandledOnce ==
    \A t \in Transports : \A i, j \in DOMAIN handled[t] :
        i < j /\ j <= i + DedupCapacity => handled[t][i] # handled[t][j]

\* Whatever is published reliably is handled by a subscriber or given up after
\* MaxRetries attempts, and is not pending for ever, also when the list that it was
\* appended to had just been replaced (transport.py:134-192).
EnvelopeSettles ==
    \A m \in Message :
        attempts[m] > 0 ~>
            /\ m \in gaveUp \/ \E s \in Listeners : Contains(handled[s], m)
            /\ m \notin pending[m[1]]

\* A subscriber that asks for the retained value after its publisher has cached one
\* is called with a value (transport.py:194-204, 242-256; README.md:159).
RequestAnswered ==
    \A s \in Askers, p \in Publishers :
        pc[s] = "ask" /\ cache[p] # {} ~> seen[s] # {}
====
