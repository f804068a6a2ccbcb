---- MODULE Lifecycle ----
(***************************************************************************)
(* The threads of one raccoon::Transport (cpp/src/Transport.cpp) and its   *)
(* life: the thread in spin(), the threads that call the API, handlers     *)
(* that call it back, and the reliability thread.  Everything done while   *)
(* apiMutex is held is one action.  A channel is a counter of frames; Ring *)
(* and RingWake model what happens inside it.                              *)
(***************************************************************************)
EXTENDS Integers, Sequences, SequencesExt

CONSTANTS Users,     \* threads that call the API
          Own,       \* channels this transport publishes on
          Remote,    \* channels another process publishes on
          MaxSeq,    \* bound: frames of a channel
          MaxCalls   \* bound: calls of the API

Channels == Own \cup Remote
Threads  == Users \cup {"spin", "reliability"}

ASSUME LifecycleAssumption ==
    /\ Own \cap Remote = {}
    /\ Users \cap {"spin", "reliability"} = {}
    /\ MaxSeq \in Nat
    /\ MaxCalls \in Nat

VARIABLES running,    \* Impl::running
          controlSeq, \* Impl::controlSeq
          subs,       \* Impl::subscribers: the entries, in order of creation
          writers,    \* Impl::publishers: the channels with an open writer
          pending,    \* Impl::pendingReliable: the channels of its commands
          relRun,     \* Impl::reliableThreadRun
          relThread,  \* the reliability thread
          cleared,    \* a shutdown has closed everything and freed the entries
          call,       \* how far each thread is in its call of the API
          calls,      \* calls begun
          published,  \* header of each channel: producer_seq
          spc,        \* what the spin thread is doing
          phase,      \* which of spinOnce's three passes over the readers
          snap,       \* subsSnapshot
          todo,       \* the entries the pass has still to drain
          ctl,        \* controlExpected
          words,      \* the wake_seq values the thread goes to sleep on
          delivered,  \* delivered > 0
          pos,        \* last_seen of the reader of each entry
          used,       \* history: where something freed or torn was used
          late        \* history: a call went on after the transport had stopped

api    == <<call, calls>>
entry  == <<subs, pos>>
rel    == <<pending, relRun, relThread>>
spin   == <<spc, phase, snap, todo, ctl, words, delivered>>
shared == <<running, controlSeq, writers, cleared, published>>
vars   == <<shared, rel, api, entry, spin, used, late>>

\* An entry is a channel and whether it was created after the clearing.
Entries  == Channels \X BOOLEAN
Freed(e) == cleared /\ ~e[2]

Init == /\ running = TRUE
        /\ controlSeq = 0
        /\ subs = <<>> /\ writers = {} /\ pending = {}
        /\ relRun = FALSE /\ relThread = "none"
        /\ cleared = FALSE
        /\ call = [t \in Threads |-> "none"] /\ calls = 0
        /\ published = [c \in Channels |-> 0]
        /\ spc = "top" /\ phase = "drain"
        /\ snap = <<>> /\ todo = <<>>
        /\ ctl = 0 /\ words = <<>>
        /\ delivered = FALSE
        /\ pos = [e \in Entries |-> 0]
        /\ used = {} /\ late = FALSE

(***************************************************************************)
(* A frame enters a channel and wakes the spin thread if it sleeps on it.  *)
(***************************************************************************)
Frame(c) ==
    /\ published[c] < MaxSeq
    /\ published' = [published EXCEPT ![c] = @ + 1]
    /\ spc' = IF spc = "asleep" /\ \E e \in DOMAIN words : e[1] = c
              THEN "awake" ELSE spc
    /\ UNCHANGED <<phase, snap, todo, ctl, words, delivered>>

RemotePublish(c) ==
    /\ Frame(c)
    /\ UNCHANGED <<running, controlSeq, writers, cleared, rel, api, entry, used, late>>

(***************************************************************************)
(* Calls of the API.  A call that finds the transport not alive does       *)
(* nothing; the others go on to their critical section.                    *)
(***************************************************************************)
InHandler == spc = "handler"

CanCall(t) == /\ call[t] = "none"
              /\ calls < MaxCalls
              /\ t = "spin" => InHandler
              /\ t = "reliability" => relThread = "event"

Goto(t, pc) == call' = [call EXCEPT ![t] = pc]

Begin(t, pc) == /\ CanCall(t)
                /\ Goto(t, pc)
                /\ calls' = calls + 1
                /\ UNCHANGED <<rel, entry, spin, used, late>>

Subscribe(t) == /\ Begin(t, "subscribe")
                /\ running
                /\ UNCHANGED shared

\* Mutant: the seek does not ask whether there is a frame.
EmptySeek(c, retained) == IF retained THEN published[c] - 1 ELSE 0

\* The reader of a fresh entry starts at the oldest frame, or at the newest one
\* when the retained frame is asked for.
FirstSeen(c, retained) == IF retained /\ published[c] > 0 THEN published[c] - 1 ELSE 0

\* subscriberFor finds an entry.
Subscribed(c) == \E e \in Range(subs) : e[1] = c

SubscribeLocked(t) ==
    /\ call[t] = "subscribe"
    /\ \E c \in Channels, retained \in BOOLEAN :
          IF Subscribed(c)
          THEN /\ Goto(t, "none")
               /\ used' = IF spc = "copy" /\ Head(todo)[1] = c
                          THEN used \cup {"handlers"} ELSE used
               /\ UNCHANGED entry
          ELSE /\ subs' = Append(subs, <<c, cleared>>)
               /\ pos' = [pos EXCEPT ![<<c, cleared>>] = FirstSeen(c, retained)]
               /\ Goto(t, "bump")
               /\ UNCHANGED used
    /\ late' = (late \/ ~running)
    /\ UNCHANGED <<shared, rel, calls, spin>>

Publish(t) == /\ Begin(t, "publish")
              /\ running
              /\ UNCHANGED shared

\* The reliability thread is started once.
EnsureReliableStarted ==
    /\ relRun' = (relRun \/ relThread = "none")
    /\ relThread' = IF relThread = "none" THEN "tick" ELSE relThread

RecordReliable(c) == pending' = pending \cup {c} /\ EnsureReliableStarted

\* writerFor and the publish.
PublishLocked(t) ==
    /\ call[t] = "publish"
    /\ \E c \in Own, reliable \in BOOLEAN :
          /\ IF published[c] < MaxSeq THEN Frame(c) ELSE UNCHANGED <<published, spin>>
          /\ writers' = writers \cup {c}
          /\ IF reliable THEN RecordReliable(c) ELSE UNCHANGED rel
    /\ Goto(t, "none")
    /\ late' = (late \/ ~running)
    /\ UNCHANGED <<running, controlSeq, cleared, calls, entry, used>>

Stop(t) == /\ Begin(t, "bump")
           /\ running' = FALSE
           /\ UNCHANGED <<controlSeq, writers, cleared, published>>

WakeControl(t) == Begin(t, "bump") /\ UNCHANGED shared

\* A reliability-thread handler that shuts down would join itself; the header
\* allows it cheap, thread-safe calls only.
Shutdown(t) == /\ t # "reliability"
               /\ Begin(t, IF running THEN "join" ELSE "bump")
               /\ running' = FALSE
               /\ UNCHANGED <<controlSeq, writers, cleared, published>>

StopReliability(t) ==
    /\ call[t] = "join"
    /\ relRun' = FALSE
    /\ Goto(t, "joining")
    /\ UNCHANGED <<shared, pending, relThread, calls, entry, spin, used, late>>

\* Mutant: the thread is left to itself.
DoNotJoin(t) ==
    /\ call[t] = "joining"
    /\ Goto(t, "clear")
    /\ UNCHANGED <<shared, rel, calls, entry, spin, used, late>>

\* joinable() is asked without the mutex: a thread started later is missed.
Join(t) ==
    /\ call[t] = "joining"
    /\ relThread \in {"none", "exited"}
    /\ relThread' = IF relThread = "none" THEN "none" ELSE "joined"
    /\ Goto(t, "clear")
    /\ UNCHANGED <<shared, pending, relRun, calls, entry, spin, used, late>>

Clear(t) ==
    /\ call[t] = "clear"
    /\ writers' = {}
    /\ subs' = <<>>
    /\ cleared' = TRUE
    /\ Goto(t, "bump")
    /\ UNCHANGED <<running, controlSeq, published, rel, calls, pos, spin, used, late>>

Bump(t) ==
    /\ call[t] = "bump"
    /\ controlSeq' = controlSeq + 1
    /\ spc' = IF spc = "asleep" THEN "awake" ELSE spc
    /\ Goto(t, "none")
    /\ UNCHANGED <<running, writers, cleared, published, rel, calls, entry,
                   phase, snap, todo, ctl, words, delivered, used, late>>

(***************************************************************************)
(* The reliability thread: reliableLoop.                                   *)
(***************************************************************************)
\* A command is acknowledged or given up, or sent again; what there is to
\* report is reported without the mutex.
Tick == /\ relThread = "tick"
        /\ relRun /\ running
        /\ \E c \in pending :
              \/ /\ pending' = pending \ {c}
                 /\ UNCHANGED <<writers, published, spin>>
              \/ /\ Frame(c)
                 /\ writers' = writers \cup {c}
                 /\ UNCHANGED pending
        /\ relThread' \in {"tick", "event"}
        /\ UNCHANGED <<running, controlSeq, cleared, relRun, api, entry, used, late>>

EventsFired == /\ relThread = "event"
               /\ call["reliability"] = "none"
               /\ relThread' = "tick"
               /\ UNCHANGED <<shared, pending, relRun, api, entry, spin, used, late>>

\* Mutant: only shutdown ends the loop.
LoopEndsOnFlag == /\ relThread = "tick"
                  /\ ~relRun
                  /\ relThread' = "exited"
                  /\ UNCHANGED <<shared, pending, relRun, api, entry, spin, used, late>>

LoopEnds == /\ relThread = "tick"
            /\ ~(relRun /\ running)
            /\ relThread' = "exited"
            /\ UNCHANGED <<shared, pending, relRun, api, entry, spin, used, late>>

(***************************************************************************)
(* The spin thread: spin() calls spinOnce until the transport is stopped.  *)
(***************************************************************************)
SpinGoto(pc) == spc' = pc

SpinUnchanged == UNCHANGED <<shared, rel, api, subs, late>>

Top == /\ spc = "top"
       /\ SpinGoto(IF running THEN "snapshot" ELSE "out")
       /\ UNCHANGED <<phase, snap, todo, ctl, words, delivered, pos, used>>
       /\ SpinUnchanged

Snapshot == /\ spc = "snapshot"
            /\ snap' = subs /\ todo' = subs
            /\ phase' = "drain"
            /\ delivered' = FALSE
            /\ SpinGoto("read")
            /\ UNCHANGED <<ctl, words, pos, used>>
            /\ SpinUnchanged

\* An entry that was freed is used: the process ends.
Crash(where) == used' = used \cup {where} /\ SpinGoto("crashed")

\* rrb_reader_recv on the next entry: a frame is kept for the handlers, or there
\* is none and the pass goes on to the next entry.
Recv(where, pc) ==
    LET e == Head(todo) IN
    IF Freed(e) THEN Crash(where) /\ UNCHANGED <<todo, pos>>
    ELSE /\ IF pos[e] < published[e[1]]
            THEN /\ pos' = [pos EXCEPT ![e] = @ + 1]
                 /\ SpinGoto(pc)
                 /\ UNCHANGED todo
            ELSE todo' = Tail(todo) /\ UNCHANGED <<spc, pos>>
         /\ UNCHANGED used

\* Mutant: the drain does not look again whether the transport is alive.
DrainUnchecked ==
    /\ spc = "read" /\ phase = "drain" /\ todo # <<>>
    /\ Recv("recv", "handler")
    /\ UNCHANGED <<phase, snap, ctl, words, delivered>>
    /\ SpinUnchanged

\* The first pass, under the mutex, which is also when the handlers are copied.
Drain ==
    /\ spc = "read" /\ phase = "drain" /\ todo # <<>>
    /\ IF running THEN Recv("recv", "handler")
       ELSE SpinGoto("out") /\ UNCHANGED <<todo, pos, used>>
    /\ UNCHANGED <<phase, snap, ctl, words, delivered>>
    /\ SpinUnchanged

\* The passes of recv_wait_many, without the mutex.
WaitDrain ==
    /\ spc = "read" /\ phase # "drain" /\ todo # <<>>
    /\ Recv("park", "copy")
    /\ UNCHANGED <<phase, snap, ctl, words, delivered>>
    /\ SpinUnchanged

\* handlersCopy in the callback of recv_wait_many: not under the mutex.
CopyHandlers ==
    /\ spc = "copy"
    /\ IF Freed(Head(todo)) THEN Crash("park")
       ELSE SpinGoto("handler") /\ UNCHANGED used
    /\ UNCHANGED <<phase, snap, todo, ctl, words, delivered, pos>>
    /\ SpinUnchanged

\* The handlers have returned; recordCallback reads the entry's channel.
HandlersReturn ==
    /\ InHandler
    /\ call["spin"] = "none"
    /\ IF Freed(Head(todo)) THEN Crash("account")
       ELSE SpinGoto("read") /\ UNCHANGED used
    /\ delivered' = TRUE
    /\ UNCHANGED <<phase, snap, todo, ctl, words, pos>>
    /\ SpinUnchanged

PassDone == /\ spc = "read"
            /\ todo = <<>>
            /\ SpinGoto(IF phase = "pass3" \/ delivered THEN "top"
                        ELSE IF phase = "drain" THEN "load" ELSE "words")
            /\ UNCHANGED <<phase, snap, todo, ctl, words, delivered, pos, used>>
            /\ SpinUnchanged

LoadControl == /\ spc = "load"
               /\ ctl' = controlSeq
               /\ SpinGoto("readers")
               /\ UNCHANGED <<phase, snap, todo, words, delivered, pos, used>>
               /\ SpinUnchanged

\* Mutant: whether the transport is alive is not asked after the load.
ReadersUnchecked ==
    /\ spc = "readers"
    /\ words' = <<>>
    /\ todo' = snap
    /\ phase' = "pass1"
    /\ SpinGoto(IF snap = <<>> THEN "futex" ELSE "read")
    /\ UNCHANGED <<snap, ctl, delivered, pos, used>>
    /\ SpinUnchanged

\* Without a reader the thread sleeps on the control word alone.
CopyReaders ==
    /\ spc = "readers"
    /\ words' = <<>>
    /\ todo' = snap
    /\ phase' = "pass1"
    /\ SpinGoto(IF ~running THEN "out" ELSE IF snap = <<>> THEN "futex" ELSE "read")
    /\ UNCHANGED <<snap, ctl, delivered, pos, used>>
    /\ SpinUnchanged

\* The wake words, of the readers that have found their producer's file: those
\* that have received a frame.
SnapshotWords ==
    /\ spc = "words"
    /\ IF \E e \in Range(snap) : Freed(e)
       THEN Crash("park") /\ UNCHANGED words
       ELSE /\ words' = [e \in {f \in Range(snap) : pos[f] > 0} |-> published[e[1]]]
            /\ SpinGoto("futex")
            /\ UNCHANGED used
    /\ UNCHANGED <<phase, snap, todo, ctl, delivered, pos>>
    /\ SpinUnchanged

FutexWait ==
    /\ spc = "futex"
    /\ SpinGoto(IF controlSeq = ctl /\ \A e \in DOMAIN words : published[e[1]] = words[e]
                THEN "asleep" ELSE "awake")
    /\ UNCHANGED <<phase, snap, todo, ctl, words, delivered, pos, used>>
    /\ SpinUnchanged

\* Mutant: no timeout is given to the kernel.
NoTimeout == FALSE /\ UNCHANGED vars

Timeout == /\ spc = "asleep"
           /\ SpinGoto("awake")
           /\ UNCHANGED <<phase, snap, todo, ctl, words, delivered, pos, used>>
           /\ SpinUnchanged

\* waiter_count goes down again, and the last pass begins.
Awake == /\ spc = "awake"
         /\ IF \E e \in Range(snap) : Freed(e) THEN Crash("park")
            ELSE SpinGoto("read") /\ UNCHANGED used
         /\ phase' = "pass3"
         /\ todo' = snap
         /\ UNCHANGED <<snap, ctl, words, delivered, pos>>
         /\ SpinUnchanged

SpinStep == \/ Top \/ Snapshot \/ Drain \/ WaitDrain \/ CopyHandlers
            \/ HandlersReturn \/ PassDone \/ LoadControl \/ CopyReaders
            \/ SnapshotWords \/ FutexWait \/ Timeout \/ Awake

RelStep == Tick \/ EventsFired \/ LoopEnds

CallStep(t) == \/ SubscribeLocked(t) \/ PublishLocked(t) \/ StopReliability(t)
               \/ Join(t) \/ Clear(t) \/ Bump(t)

BeginCall(t) == Subscribe(t) \/ Publish(t) \/ Stop(t) \/ WakeControl(t) \/ Shutdown(t)

Next == \/ SpinStep \/ RelStep
        \/ \E t \in Threads : BeginCall(t) \/ CallStep(t)
        \/ \E c \in Remote : RemotePublish(c)

Spec == Init /\ [][Next]_vars

\* Threads that can go on do: the kernel ends a sleep at the timeout, handlers
\* return, and a call that began is finished.
LiveSpec == /\ Spec
            /\ WF_vars(SpinStep)
            /\ WF_vars(EventsFired) /\ WF_vars(LoopEnds)
            /\ \A t \in Threads : WF_vars(CallStep(t))

(***************************************************************************)
(* Properties.                                                             *)
(***************************************************************************)
\* Every variable keeps its type.
TypeOK ==
    /\ running \in BOOLEAN /\ cleared \in BOOLEAN
    /\ controlSeq \in Nat /\ ctl \in Nat
    /\ subs \in Seq(Entries) /\ snap \in Seq(Entries) /\ todo \in Seq(Entries)
    /\ writers \subseteq Own /\ pending \subseteq Own
    /\ relRun \in BOOLEAN
    /\ relThread \in {"none", "tick", "event", "exited", "joined"}
    /\ call \in [Threads -> {"none", "subscribe", "publish", "join", "joining",
                             "clear", "bump"}]
    /\ calls \in 0..MaxCalls
    /\ published \in [Channels -> 0..MaxSeq]
    /\ spc \in {"top", "snapshot", "read", "copy", "handler", "load", "readers",
                "words", "futex", "asleep", "awake", "out", "crashed"}
    /\ phase \in {"drain", "pass1", "pass3"}
    /\ \A e \in DOMAIN words : e \in Entries /\ words[e] \in 0..MaxSeq
    /\ delivered \in BOOLEAN /\ late \in BOOLEAN
    /\ pos \in [Entries -> 0..MaxSeq]
    /\ used \subseteq {"recv", "park", "account", "handlers"}

\* The spin thread does not sleep through a stop: while it sleeps on a stopped
\* transport the thread that stopped it has the wake still ahead of it
\* (Transport.cpp:834-848, 762-763; "unblock any thread parked in spinOnce").
StopWakesSpin ==
    spc = "asleep" /\ ~running =>
        \E t \in Threads : call[t] \in {"join", "joining", "clear", "bump"}

\* The first pass never reads a ring that a shutdown has closed, however the two
\* threads interleave: it asks whether the transport is alive under the mutex
\* shutdown frees the entries under (Transport.cpp:698-708, 173-191).
LockedRecvIsSafe == "recv" \notin used

\* A shutdown that found the transport running leaves no reader, no writer and
\* no reliability thread behind, but for what a call does that was already past
\* its own look at the running flag (include/raccoon/Transport.h:207-217).
ShutdownCloses ==
    cleared /\ ~late => subs = <<>> /\ writers = {}
                        /\ relThread \in {"none", "joined"}

\* As long as the transport runs, every frame of a subscribed channel reaches
\* the handlers, the subscription made while the thread goes to sleep and the
\* channel whose producer comes later included: what no wake announces the
\* timeout finds (Transport.cpp:606-659, raccoon_ring.c:711-725).
EveryFrameHandled ==
    []<>(~running \/ used # {} \/ \A e \in Range(subs) : pos[e] = published[e[1]])

\* After stop() or shutdown() every thread of the transport ends, and a shutdown
\* that joins returns (Transport.cpp:171-191, 248-256, 826-832).
StopEndsThreads ==
    ~running ~> \/ used # {}
                \/ /\ spc = "out"
                   /\ relThread \notin {"tick", "event"}
                   /\ \A t \in Threads : call[t] # "joining"

\* What the spin thread holds of an entry is never used after another thread
\* freed it ("every public method is safe to call from any thread",
\* include/raccoon/Transport.h:75; "anyone still parked in spinOnce", Transport.cpp:845).
EntriesOutliveUse == used \cap {"park", "account"} = {}
====
