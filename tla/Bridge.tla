---- MODULE Bridge ----
(***************************************************************************)
(* One node of the ring bridge (cpp/bridge/raccoon_ring_bridge.cpp) and    *)
(* the Dart isolate on top of it (dart/lib/src/ring): the shared poll      *)
(* thread drains the rings into a queue per channel, the isolate drains    *)
(* the queues into handlers, and publishes with deduplication.  What goes  *)
(* on inside a ring is left to Ring and RingWake; no reader is lapped.     *)
(***************************************************************************)
EXTENDS Integers, Sequences, SequencesExt, FiniteSets

CONSTANTS Subscribed,  \* channels the isolate may subscribe to
          Handlers,    \* Dart handlers
          Values,      \* what the isolate publishes, apart from the timestamp
          Size,        \* the ring a value needs, by ring_dims
          MaxQueue,    \* kMaxQueue
          MaxReaders,  \* rings recv_wait_many takes: 128
          MaxSeq,      \* bound: frames of each subscribed channel
          MaxHandles,  \* bound: BridgeSubscriber handles
          MaxSends     \* bound: frames the isolate publishes

ASSUME BridgeAssumption ==
    /\ MaxQueue \in Nat \ {0} /\ MaxReaders \in Nat
    /\ Size \in [Values -> Nat \ {0}] /\ "none" \notin Values
    /\ MaxSeq \in [Subscribed -> Nat] /\ MaxHandles \in Nat /\ MaxSends \in Nat

VARIABLES published, \* header of each ring: producer_seq
          opened,    \* node->subs: channels with a state and an open reader
          changed,   \* subs_changed
          snapshot,  \* subs_snapshot and readers[] of the poll thread
          poll,      \* what the poll thread is doing
          stopping,  \* stop_thread
          pos,       \* last_seen of each reader
          queue,     \* SubChannelState::queue
          overflown, \* history: channels whose queue dropped a frame
          entry,     \* _subscribers: the handle of each channel, 0 for none
          chan,      \* the channel of each handle
          handlers,  \* _SubEntry._handlers of each handle
          freed,     \* handles that were disposed of
          dart,      \* what the isolate is doing
          back,      \* where it goes on after the call it is in
          todo,      \* handles spinOnce has still to drain
          calling,   \* handlers that are still to be called with the frame
          taken,     \* the last frame the isolate took of each channel
          pub,       \* pubs: the writer's ring and the value remembered
          newest,    \* the newest value in the isolate's own ring
          plain,     \* history: it was also published without deduplication
          sends      \* calls of publish

pollVars  == <<snapshot, poll, pos, overflown>>
dartVars  == <<entry, chan, handlers, freed, back, todo, calling, taken>>
pubVars   == <<pub, newest, plain, sends>>
vars      == <<published, opened, changed, stopping, queue, dart, pollVars, dartVars,
               pubVars>>

Handles == 1..MaxHandles
NoPub   == [size |-> 0, last |-> "none"]

Init == /\ published = [c \in Subscribed |-> 0]
        /\ opened = {} /\ changed = FALSE
        /\ snapshot = {} /\ poll = "none" /\ stopping = FALSE
        /\ pos = [c \in Subscribed |-> 0]
        /\ queue = [c \in Subscribed |-> <<>>]
        /\ overflown = {}
        /\ entry = [c \in Subscribed |-> 0]
        /\ chan = <<>> /\ handlers = <<>> /\ freed = {}
        /\ dart = "idle" /\ back = "idle"
        /\ todo = {} /\ calling = <<>>
        /\ taken = [c \in Subscribed |-> 0]
        /\ pub = NoPub /\ newest = "none" /\ plain = FALSE /\ sends = 0

RemotePublish(c) == /\ published[c] < MaxSeq[c]
                    /\ published' = [published EXCEPT ![c] = @ + 1]
                    /\ UNCHANGED <<opened, changed, stopping, queue, dart, pollVars,
                                   dartVars, pubVars>>

(***************************************************************************)
(* The poll thread: node_poll_loop.                                        *)
(***************************************************************************)
PollUnchanged == UNCHANGED <<published, opened, stopping, dart, dartVars, pubVars>>

PollEnds == /\ poll = "loop"
            /\ stopping
            /\ poll' = "ended"
            /\ UNCHANGED <<changed, snapshot, pos, queue, overflown>>
            /\ PollUnchanged

\* subs_changed.exchange(false).
TakeChanged == /\ poll = "loop"
               /\ ~stopping
               /\ changed' = FALSE
               /\ poll' = IF changed THEN "rebuild" ELSE "wait"
               /\ UNCHANGED <<snapshot, pos, queue, overflown>>
               /\ PollUnchanged

Rebuild == /\ poll = "rebuild"
           /\ snapshot' = opened
           /\ poll' = "wait"
           /\ UNCHANGED <<changed, pos, queue, overflown>>
           /\ PollUnchanged

\* Mutant: a full queue does not take the newest frame.
DropNewest(c, f) == IF Len(queue[c]) >= MaxQueue THEN queue[c] ELSE Append(queue[c], f)

\* Mutant: the queue has no limit.
Unlimited(c, f) == Append(queue[c], f)

\* sub_multi_handler: a full queue drops its oldest frame.
Queued(c, f) ==
    Append(IF Len(queue[c]) >= MaxQueue THEN Tail(queue[c]) ELSE queue[c], f)

\* recv_wait_many, which refuses to poll more rings than it can wait for.
PollFrame == /\ poll = "wait"
             /\ Cardinality(snapshot) <= MaxReaders
             /\ \E c \in snapshot :
                   /\ pos[c] < published[c]
                   /\ pos' = [pos EXCEPT ![c] = @ + 1]
                   /\ queue' = [queue EXCEPT ![c] = Queued(c, pos[c] + 1)]
                   /\ overflown' = IF Len(queue[c]) >= MaxQueue
                                   THEN overflown \cup {c} ELSE overflown
             /\ UNCHANGED <<changed, snapshot, poll>>
             /\ PollUnchanged

\* Mutant: the flag is cleared at the end of a pass, not before the list is built.
ReturnsAndClears == /\ poll = "wait"
                    /\ \/ Cardinality(snapshot) > MaxReaders
                       \/ \A c \in snapshot : pos[c] = published[c]
                    /\ poll' = "loop"
                    /\ changed' = FALSE
                    /\ UNCHANGED <<snapshot, pos, queue, overflown>>
                    /\ PollUnchanged

\* It returns at once when it refuses, and otherwise once all rings are drained,
\* at its 50 ms heartbeat at the latest.
PollReturns == /\ poll = "wait"
               /\ \/ Cardinality(snapshot) > MaxReaders
                  \/ \A c \in snapshot : pos[c] = published[c]
               /\ poll' = "loop"
               /\ UNCHANGED <<changed, snapshot, pos, queue, overflown>>
               /\ PollUnchanged

(***************************************************************************)
(* The Dart isolate calls the transport between two spins or in a handler, *)
(* and no more once it has disposed of it.  What it publishes shares no    *)
(* state with what it subscribes to: a behaviour does the one or the other *)
(* (a bound).                                                              *)
(***************************************************************************)
MayCall == dart \in {"idle", "handler"} /\ ~stopping

DartUnchanged == UNCHANGED <<published, stopping, pollVars, pubVars>>

\* A second handler of a channel shares its handle.
AddHandler(c, h) ==
    /\ MayCall
    /\ entry[c] # 0
    /\ Len(handlers[entry[c]]) < Cardinality(Handlers)
    /\ handlers' = [handlers EXCEPT ![entry[c]] = Append(@, h)]
    /\ UNCHANGED <<opened, changed, poll, queue, dart, entry, chan, freed, back, todo,
                   calling, taken>>
    /\ DartUnchanged

\* subscriber_create: the channel's state outlives its handles.
Subscribe(c, h) ==
    /\ MayCall
    /\ entry[c] = 0
    /\ Len(chan) < MaxHandles
    /\ sends = 0
    /\ entry' = [entry EXCEPT ![c] = Len(chan) + 1]
    /\ chan' = Append(chan, c)
    /\ handlers' = Append(handlers, <<h>>)
    /\ opened' = opened \cup {c}
    /\ dart' = IF c \in opened THEN dart ELSE "flag"
    /\ back' = IF c \in opened THEN back ELSE dart
    /\ UNCHANGED <<changed, queue, freed, todo, calling, taken>>
    /\ DartUnchanged

\* The rest of it for a fresh channel: after the mutex is released.
FlagAndStart == /\ dart = "flag"
                /\ changed' = TRUE
                /\ poll' = IF poll = "none" THEN "loop" ELSE poll
                /\ dart' = back
                /\ UNCHANGED <<published, opened, stopping, queue, snapshot, pos,
                               overflown, entry, chan, handlers, freed, back, todo,
                               calling, taken, pubVars>>

\* removeWhere: the handlers other than h, in order.
Without(hs, h) ==
    LET kept[n \in 0..Len(hs)] ==
            IF n = 0 THEN <<>>
            ELSE IF hs[n] = h THEN kept[n - 1] ELSE Append(kept[n - 1], hs[n])
    IN  kept[Len(hs)]

\* The last handler takes the handle with it.
Unsubscribe(c, h) ==
    /\ MayCall
    /\ entry[c] # 0
    /\ LET k == entry[c]
           left == Without(handlers[k], h)
       IN  /\ handlers' = [handlers EXCEPT ![k] = left]
           /\ entry' = [entry EXCEPT ![c] = IF left = <<>> THEN 0 ELSE k]
           /\ freed' = IF left = <<>> THEN freed \cup {k} ELSE freed
    /\ UNCHANGED <<opened, changed, queue, dart, chan, back, todo, calling, taken>>
    /\ DartUnchanged

Live == {entry[c] : c \in Subscribed} \ {0}

SpinOnce == /\ dart = "idle"
            /\ ~stopping
            /\ todo' = Live
            /\ dart' = "receive"
            /\ UNCHANGED <<opened, changed, queue, entry, chan, handlers, freed, back,
                           calling, taken>>
            /\ DartUnchanged

\* subscriber_receive, for the oldest handle of the list that spinOnce took; the handle
\* may be one a handler has disposed of.
Receive ==
    /\ dart = "receive"
    /\ \E k \in todo : LET c == chan[k] IN
       /\ \A j \in todo : k <= j
       /\ \/ /\ k \in freed
             /\ dart' = "crashed"
             /\ UNCHANGED <<queue, todo, calling, taken>>
          \/ /\ k \notin freed /\ queue[c] = <<>>
             /\ todo' = todo \ {k}
             /\ UNCHANGED <<queue, dart, calling, taken>>
          \/ /\ k \notin freed /\ queue[c] # <<>>
             /\ queue' = [queue EXCEPT ![c] = Tail(@)]
             /\ taken' = [taken EXCEPT ![c] = Head(queue[c])]
             /\ calling' = handlers[k]
             /\ dart' = "handler"
             /\ UNCHANGED todo
    /\ UNCHANGED <<opened, changed, entry, chan, handlers, freed, back>>
    /\ DartUnchanged

HandlerReturns ==
    /\ dart = "handler"
    /\ calling' = Tail(calling)
    /\ dart' = IF Len(calling) = 1 THEN "receive" ELSE "handler"
    /\ UNCHANGED <<opened, changed, queue, entry, chan, handlers, freed, back, todo, taken>>
    /\ DartUnchanged

PassDone == /\ dart = "receive"
            /\ todo = {}
            /\ dart' = IF stopping THEN "disposed" ELSE "idle"
            /\ UNCHANGED <<opened, changed, queue, entry, chan, handlers, freed, back,
                           todo, calling, taken>>
            /\ DartUnchanged

Dispose == /\ MayCall
           /\ stopping' = TRUE
           /\ freed' = freed \cup Live
           /\ entry' = [c \in Subscribed |-> 0]
           /\ back' = dart
           /\ dart' = "joining"
           /\ UNCHANGED <<published, opened, changed, queue, pollVars, chan, handlers, todo,
                          calling, taken, pubVars>>

Closed == /\ opened' = {}
          /\ pub' = NoPub
          /\ dart' = IF back = "handler" THEN "handler" ELSE "disposed"
          /\ UNCHANGED <<published, changed, stopping, queue, pollVars, entry, chan,
                         handlers, freed, back, todo, calling, taken, newest, plain, sends>>

\* Mutant: the node is destroyed under the poll thread.
DestroyAtOnce == dart = "joining" /\ Closed

\* node_destroy joins the poll thread and closes the readers.
NodeDestroy == dart = "joining" /\ poll \in {"none", "ended"} /\ Closed

(***************************************************************************)
(* publisher_send_ex, all of it under pubs_mtx.                            *)
(***************************************************************************)
Dropped(v, dedup) == dedup /\ pub.last = v

Remember(v, dedup) == IF dedup THEN v ELSE pub.last

\* Mutant: a writer that cannot be re-created is kept in the map.
GrowKept(v, dedup) == pub' = [pub EXCEPT !.last = Remember(v, dedup)] /\ UNCHANGED newest

GrowFails(v, dedup) == pub' = NoPub /\ UNCHANGED newest

\* Creating the writer may fail; so may re-creating it for a larger value.
Publish(v, dedup) ==
    /\ MayCall
    /\ chan = <<>>
    /\ sends < MaxSends
    /\ sends' = sends + 1
    /\ plain' = (plain \/ ~dedup)
    /\ \/ pub = NoPub /\ UNCHANGED <<pub, newest>>
       \/ pub # NoPub /\ Dropped(v, dedup) /\ UNCHANGED <<pub, newest>>
       \/ /\ ~Dropped(v, dedup)
          /\ pub # NoPub => Size[v] <= pub.size
          /\ pub' = [size |-> IF pub = NoPub THEN Size[v] ELSE pub.size,
                     last |-> Remember(v, dedup)]
          /\ newest' = v
       \/ /\ pub # NoPub /\ ~Dropped(v, dedup) /\ Size[v] > pub.size
          /\ \/ GrowFails(v, dedup)
             \/ pub' = [size |-> Size[v], last |-> Remember(v, dedup)] /\ newest' = v
    /\ UNCHANGED <<published, opened, changed, stopping, queue, dart, pollVars, dartVars>>

PollStep == PollEnds \/ TakeChanged \/ Rebuild \/ PollFrame \/ PollReturns

DartStep == FlagAndStart \/ Receive \/ HandlerReturns \/ PassDone \/ NodeDestroy

Next == \/ PollStep \/ DartStep \/ SpinOnce \/ Dispose
        \/ \E c \in Subscribed : RemotePublish(c)
        \/ \E c \in Subscribed, h \in Handlers :
              AddHandler(c, h) \/ Subscribe(c, h) \/ Unsubscribe(c, h)
        \/ \E v \in Values, dedup \in BOOLEAN : Publish(v, dedup)

Spec == Init /\ [][Next]_vars

\* The poll thread runs, the spin timer fires, and handlers return.
LiveSpec == Spec /\ WF_vars(PollStep) /\ WF_vars(DartStep) /\ WF_vars(SpinOnce)

(***************************************************************************)
(* Properties.                                                             *)
(***************************************************************************)
\* Every variable keeps its type.
TypeOK ==
    /\ \A c \in Subscribed :
          /\ published[c] \in 0..MaxSeq[c] /\ pos[c] \in 0..MaxSeq[c]
          /\ taken[c] \in 0..MaxSeq[c]
          /\ queue[c] \in Seq(1..MaxSeq[c]) /\ Len(queue[c]) <= MaxQueue
    /\ opened \subseteq Subscribed /\ snapshot \subseteq Subscribed
    /\ overflown \subseteq Subscribed
    /\ changed \in BOOLEAN /\ stopping \in BOOLEAN /\ plain \in BOOLEAN
    /\ poll \in {"none", "loop", "rebuild", "wait", "ended"}
    /\ entry \in [Subscribed -> 0..Len(chan)]
    /\ chan \in Seq(Subscribed) /\ Len(chan) <= MaxHandles
    /\ handlers \in [DOMAIN chan -> Seq(Handlers)]
    /\ freed \subseteq DOMAIN chan
    /\ dart \in {"idle", "flag", "receive", "handler", "joining", "disposed", "crashed"}
    /\ back \in {"idle", "handler"}
    /\ todo \subseteq DOMAIN chan /\ calling \in Seq(Handlers)
    /\ pub \in {NoPub} \cup [size : Range(Size), last : Values \cup {"none"}]
    /\ newest \in Values \cup {"none"}
    /\ sends \in 0..MaxSends

\* The queue of a channel holds the newest frames drained, without a gap; the
\* isolate takes them in order and misses one only after the queue was full, also
\* over an unsubscribe and a new subscription
\* (raccoon_ring_bridge.cpp:133-140, 384-390).
QueueHoldsNewest ==
    \A c \in Subscribed : LET n == Len(queue[c]) IN
        /\ \A i \in 1..n : queue[c][i] = pos[c] - n + i
        /\ taken[c] <= pos[c] - n
        /\ c \notin overflown => taken[c] = pos[c] - n

\* The poll thread never polls a reader that node_destroy has closed
\* (raccoon_ring_bridge.cpp:203-216).
PollUsesOpenReaders == poll \in {"rebuild", "wait"} => snapshot \subseteq opened

\* While the isolate deduplicates all it publishes, the ring shows the value a
\* repeat would be compared with: a dropped publish says nothing new, whichever
\* of the writer's creations failed meanwhile (raccoon_ring_bridge.cpp:269-298,
\* Dedup.h:39-56).
DedupKeepsNewest == pub.last # "none" /\ ~plain => newest = pub.last

\* The newest frame of every subscribed channel reaches its handlers, whenever the
\* subscription was made, as long as the poll thread can wait for all rings at
\* once and no handler disposed of the handle it was called from
\* (raccoon_ring_bridge.cpp:149-179, 339-352, transport.dart:67-92).
NewestArrives ==
    []<>(\/ dart \in {"crashed", "joining", "disposed"} \/ stopping
         \/ Cardinality(opened) > MaxReaders
         \/ \A c \in Subscribed : entry[c] # 0 => taken[c] = published[c])
====
