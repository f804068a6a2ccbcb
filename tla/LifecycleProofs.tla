---- MODULE LifecycleProofs ----
(***************************************************************************)
(* Proofs about the threads of one transport, for any set of user threads  *)
(* and channels and any number of frames and calls: the spin thread does   *)
(* not sleep through a stop, its locked pass never reads a closed ring,    *)
(* and a shutdown closes what it found.                                    *)
(***************************************************************************)
EXTENDS Lifecycle, TLAPS

(***************************************************************************)
(* What the proofs rest on.                                                *)
(***************************************************************************)
Stages == {"none", "subscribe", "publish", "join", "joining", "clear", "bump"}

\* The types the other parts need.
Typed ==
    /\ call \in [Threads -> Stages]
    /\ controlSeq \in Nat /\ ctl \in Nat
    /\ running \in BOOLEAN
    /\ phase \in {"drain", "pass1", "pass3"}

\* A thread that is in shutdown stopped the transport before.
ShutdownInv ==
    /\ cleared => ~running
    /\ \A t \in Threads : call[t] \in {"join", "joining", "clear"} => ~running

\* A thread that has not bumped the control word yet after it stopped the transport.
BumpOwed == \E t \in Threads : call[t] \in {"join", "joining", "clear", "bump"}

\* The spin thread that looked at the running flag before the stop goes to sleep on
\* a control word that the stopping thread is still to bump or has bumped.
WakeInv ==
    /\ ctl <= controlSeq
    /\ spc \in {"words", "futex", "asleep"} => phase = "pass1"
    /\ spc = "asleep" => controlSeq = ctl
    /\ ~running /\ phase = "pass1"
           /\ spc \in {"read", "copy", "handler", "words", "futex", "asleep"} =>
         BumpOwed \/ ctl < controlSeq

\* From the join on, no reliability thread runs.
CloseInv ==
    ~late => /\ (cleared \/ \E t \in Threads : call[t] = "clear") =>
                    relThread \in {"none", "joined"}
             /\ cleared => subs = <<>> /\ writers = {}

IInv == Typed /\ ShutdownInv /\ WakeInv /\ LockedRecvIsSafe /\ CloseInv

LEMMA InitInv == Init => IInv
  BY DEF Init, IInv, Typed, Stages, ShutdownInv, WakeInv, LockedRecvIsSafe, CloseInv

(***************************************************************************)
(* Steps of the spin thread: they change neither the calls nor the flags.  *)
(***************************************************************************)
LEMMA SpinKeeps ==
    ASSUME IInv, SpinStep
    PROVE  /\ UNCHANGED <<call, running, controlSeq, cleared, late, relThread, subs, writers>>
           /\ BumpOwed' = BumpOwed
           /\ ShutdownInv' /\ CloseInv'
<1>1. UNCHANGED <<call, running, controlSeq, cleared, late, relThread, subs, writers>>
  BY DEF SpinStep, Top, Snapshot, Drain, WaitDrain, CopyHandlers, HandlersReturn, PassDone,
         LoadControl, CopyReaders, SnapshotWords, FutexWait, Timeout, Awake, SpinUnchanged,
         shared, rel, api
<1> QED
  BY <1>1 DEF IInv, ShutdownInv, CloseInv, BumpOwed

LEMMA SpinTyped ==
    ASSUME IInv, SpinStep
    PROVE  Typed'
<1>1. UNCHANGED <<call, running, controlSeq>>
  BY SpinKeeps
<1>2. ctl' \in {ctl, controlSeq} /\ phase' \in {phase, "drain", "pass1", "pass3"}
  BY DEF SpinStep, Top, Snapshot, Drain, WaitDrain, CopyHandlers, HandlersReturn, PassDone,
         LoadControl, CopyReaders, SnapshotWords, FutexWait, Timeout, Awake
<1> QED
  BY <1>1, <1>2 DEF IInv, Typed

LEMMA SpinWake ==
    ASSUME IInv, SpinStep
    PROVE  WakeInv'
<1> USE DEF SpinGoto
<1>0. /\ UNCHANGED <<running, controlSeq>>
      /\ BumpOwed' = BumpOwed
      /\ controlSeq \in Nat /\ ctl \in Nat /\ phase \in {"drain", "pass1", "pass3"}
      /\ WakeInv
  BY SpinKeeps DEF IInv, Typed
<1> HIDE DEF BumpOwed
<1>1. CASE Top
  BY <1>0, <1>1 DEF Top, WakeInv
<1>2. CASE Snapshot
  BY <1>0, <1>2 DEF Snapshot, WakeInv
<1>3. CASE Drain
  <2>1. phase' = "drain" /\ ctl' = ctl /\ spc' \in {spc, "out", "crashed", "handler"}
    BY <1>3 DEF Drain, Recv, Crash
  <2> QED
    BY <2>1, <1>0, <1>3 DEF Drain, WakeInv
<1>4. CASE WaitDrain
  <2>1. phase' = phase /\ ctl' = ctl /\ spc' \in {spc, "crashed", "copy"}
    BY <1>4 DEF WaitDrain, Recv, Crash
  <2> QED
    BY <2>1, <1>0, <1>4 DEF WaitDrain, WakeInv
<1>5. CASE CopyHandlers
  BY <1>0, <1>5 DEF CopyHandlers, Crash, WakeInv
<1>6. CASE HandlersReturn
  BY <1>0, <1>6 DEF HandlersReturn, InHandler, Crash, WakeInv
<1>7. CASE PassDone
  BY <1>0, <1>7 DEF PassDone, WakeInv
<1>8. CASE LoadControl
  BY <1>0, <1>8 DEF LoadControl, WakeInv
<1>9. CASE CopyReaders
  BY <1>0, <1>9 DEF CopyReaders, WakeInv
<1>10. CASE SnapshotWords
  <2>1. phase' = phase /\ ctl' = ctl /\ spc' \in {"crashed", "futex"}
    BY <1>10 DEF SnapshotWords, Crash
  <2> QED
    BY <2>1, <1>0, <1>10 DEF SnapshotWords, WakeInv
<1>11. CASE FutexWait
  <2>1. phase' = phase /\ ctl' = ctl
        /\ spc' \in {"asleep", "awake"} /\ (spc' = "asleep" => controlSeq = ctl)
    BY <1>11 DEF FutexWait
  <2> QED
    BY <2>1, <1>0, <1>11 DEF FutexWait, WakeInv
<1>12. CASE Timeout
  BY <1>0, <1>12 DEF Timeout, WakeInv
<1>13. CASE Awake
  BY <1>0, <1>13 DEF Awake, Crash, WakeInv
<1> QED
  BY <1>1, <1>2, <1>3, <1>4, <1>5, <1>6, <1>7, <1>8, <1>9, <1>10, <1>11, <1>12, <1>13
  DEF SpinStep

\* The locked pass asks whether the transport runs: then nothing has been freed.
LEMMA SpinRecv ==
    ASSUME IInv, SpinStep
    PROVE  LockedRecvIsSafe'
<1>1. CASE Drain
  <2>1. running => \A e : ~Freed(e)
    BY DEF IInv, ShutdownInv, Freed
  <2>2. used' = used
    BY <1>1, <2>1 DEF Drain, Recv
  <2> QED
    BY <2>2 DEF IInv, LockedRecvIsSafe
<1>2. CASE ~Drain
  <2>1. used' \in {used, used \cup {"park"}, used \cup {"account"}}
    BY <1>2 DEF SpinStep, Top, Snapshot, WaitDrain, CopyHandlers, HandlersReturn,
           PassDone, LoadControl, CopyReaders, SnapshotWords, FutexWait, Timeout, Awake,
           Recv, Crash
  <2> QED
    BY <2>1 DEF IInv, LockedRecvIsSafe
<1> QED
  BY <1>1, <1>2

LEMMA SpinInv == ASSUME IInv, SpinStep PROVE IInv'
  BY SpinKeeps, SpinTyped, SpinWake, SpinRecv DEF IInv

(***************************************************************************)
(* A frame only wakes the spin thread.                                     *)
(***************************************************************************)
LEMMA FrameKeeps ==
    ASSUME NEW c \in Channels, Frame(c)
    PROVE  UNCHANGED <<phase, ctl>> /\ spc' \in {spc, "awake"}
  BY DEF Frame

\* Steps that leave the control word and the spin thread's registers alone, let
\* nobody forget the bump it owes, and stop the transport only with a bump to come.
LEMMA WakeKept ==
    ASSUME IInv, UNCHANGED <<controlSeq, phase, ctl>>, spc' \in {spc, "awake"},
           BumpOwed => BumpOwed', running' # running => BumpOwed'
    PROVE  WakeInv'
  BY DEF IInv, WakeInv

LEMMA RemotePublishInv ==
    ASSUME IInv, NEW c \in Remote, RemotePublish(c)
    PROVE  IInv'
<1>1. c \in Channels
  BY DEF Channels
<1>2. UNCHANGED <<phase, ctl>> /\ spc' \in {spc, "awake"}
  BY <1>1, FrameKeeps DEF RemotePublish
<1>3. UNCHANGED <<call, running, controlSeq, cleared, late, relThread, subs, writers, used>>
  BY DEF RemotePublish, rel, api, entry
<1>4. WakeInv'
  BY <1>2, <1>3, WakeKept DEF BumpOwed
<1> QED
  BY <1>2, <1>3, <1>4
  DEF IInv, Typed, ShutdownInv, CloseInv, LockedRecvIsSafe

(***************************************************************************)
(* The reliability thread.                                                 *)
(***************************************************************************)
LEMMA RelInv ==
    ASSUME IInv, RelStep
    PROVE  IInv'
<1>1. UNCHANGED <<call, running, controlSeq, cleared, late, subs, used, phase, ctl>>
      /\ spc' \in {spc, "awake"}
  BY DEF RelStep, Tick, EventsFired, LoopEnds, Frame, shared, api, entry, spin
<1>2. relThread \in {"tick", "event"}
  BY DEF RelStep, Tick, EventsFired, LoopEnds
<1>3. WakeInv'
  BY <1>1, WakeKept DEF BumpOwed
<1>4. CloseInv'
  BY <1>1, <1>2 DEF IInv, CloseInv
<1> QED
  BY <1>1, <1>3, <1>4 DEF IInv, Typed, ShutdownInv, LockedRecvIsSafe

(***************************************************************************)
(* Calls of the API.                                                       *)
(***************************************************************************)
\* A call that begins, for stop and shutdown with the flag cleared.
LEMMA BeginInv ==
    ASSUME IInv, NEW t \in Threads, BeginCall(t)
    PROVE  IInv'
<1>1. UNCHANGED <<controlSeq, cleared, late, relThread, subs, writers, used, phase, ctl, spc>>
  BY DEF BeginCall, Subscribe, Publish, Stop, WakeControl, Shutdown, Begin, shared, rel,
         entry, spin
<1>2. PICK pc \in Stages \ {"none", "joining", "clear"} :
          /\ call[t] = "none" /\ call' = [call EXCEPT ![t] = pc]
          /\ running' \in BOOLEAN /\ (running' => running)
          /\ pc = "join" => ~running'
          /\ running' # running => pc \in {"join", "bump"}
  <2> USE DEF Begin, CanCall, Goto, Stages, shared, IInv, Typed
  <2>1. CASE Subscribe(t)
    BY <2>1 DEF Subscribe
  <2>2. CASE Publish(t)
    BY <2>2 DEF Publish
  <2>3. CASE Stop(t)
    BY <2>3 DEF Stop
  <2>4. CASE WakeControl(t)
    BY <2>4 DEF WakeControl
  <2>5. CASE Shutdown(t)
    BY <2>5 DEF Shutdown
  <2> QED
    BY <2>1, <2>2, <2>3, <2>4, <2>5 DEF BeginCall
<1>3. DOMAIN call = Threads /\ call'[t] = pc /\ \A u \in Threads \ {t} : call'[u] = call[u]
  BY <1>2 DEF IInv, Typed
<1>4. Typed' /\ ShutdownInv' /\ LockedRecvIsSafe'
  BY <1>1, <1>2, <1>3 DEF IInv, Typed, ShutdownInv, LockedRecvIsSafe
<1>5. WakeInv'
  <2>1. (BumpOwed => BumpOwed') /\ (running' # running => BumpOwed')
    BY <1>2, <1>3 DEF BumpOwed
  <2> QED
    BY <2>1, <1>1, WakeKept
<1>6. CloseInv'
  BY <1>1, <1>2, <1>3 DEF IInv, CloseInv
<1> QED
  BY <1>4, <1>5, <1>6 DEF IInv

\* The steps of a call but the last: where they lead, and what they must see to.
LEMMA CallMoves ==
    ASSUME IInv, NEW t \in Threads, NEW pc \in Stages, call' = [call EXCEPT ![t] = pc],
           UNCHANGED <<running, controlSeq, used, phase, ctl>>, spc' \in {spc, "awake"},
           call[t] \in {"join", "joining", "clear", "bump"} =>
               pc \in {"joining", "clear", "bump"},
           pc \in {"join", "joining", "clear"} =>
               call[t] \in {"join", "joining", "clear"},
           cleared' => cleared \/ call[t] = "clear",
           CloseInv'
    PROVE  IInv'
<1>1. DOMAIN call = Threads /\ call'[t] = pc /\ \A u \in Threads \ {t} : call'[u] = call[u]
  BY DEF IInv, Typed
<1>2. Typed' /\ LockedRecvIsSafe'
  BY <1>1 DEF IInv, Typed, LockedRecvIsSafe
<1>3. ShutdownInv'
  BY <1>1 DEF IInv, ShutdownInv
<1>4. BumpOwed => BumpOwed'
  BY <1>1 DEF BumpOwed
<1>5. WakeInv'
  BY <1>4, WakeKept
<1> QED
  BY <1>2, <1>3, <1>5 DEF IInv

\* A call that goes on after the transport was cleared is late.
LEMMA SubscribeLockedInv ==
    ASSUME IInv, NEW t \in Threads, SubscribeLocked(t)
    PROVE  IInv'
<1>1. PICK pc \in {"none", "bump"} : call' = [call EXCEPT ![t] = pc]
  BY DEF SubscribeLocked, Goto
<1>2. UNCHANGED <<running, controlSeq, cleared, relThread, writers, phase, ctl, spc>>
      /\ call[t] = "subscribe" /\ late' = (late \/ ~running)
  BY DEF SubscribeLocked, shared, rel, spin
<1>3. used' \in {used, used \cup {"handlers"}}
  BY DEF SubscribeLocked
<1>4. DOMAIN call = Threads /\ call'[t] = pc /\ \A u \in Threads \ {t} : call'[u] = call[u]
  BY <1>1 DEF IInv, Typed
<1>5. CloseInv'
  BY <1>1, <1>2, <1>4 DEF IInv, CloseInv, ShutdownInv
<1>6. Typed' /\ ShutdownInv' /\ LockedRecvIsSafe'
  BY <1>1, <1>2, <1>3, <1>4 DEF IInv, Typed, Stages, ShutdownInv, LockedRecvIsSafe
<1>7. WakeInv'
  <2>1. BumpOwed => BumpOwed'
    BY <1>2, <1>4 DEF BumpOwed
  <2> QED
    BY <2>1, <1>2, WakeKept
<1> QED
  BY <1>5, <1>6, <1>7 DEF IInv

LEMMA PublishLockedInv ==
    ASSUME IInv, NEW t \in Threads, PublishLocked(t)
    PROVE  IInv'
<1>1. call' = [call EXCEPT ![t] = "none"] /\ call[t] = "publish"
      /\ UNCHANGED <<running, controlSeq, cleared, subs, used>>
      /\ late' = (late \/ ~running)
  BY DEF PublishLocked, Goto, entry
<1>2. UNCHANGED <<phase, ctl>> /\ spc' \in {spc, "awake"}
  BY FrameKeeps DEF PublishLocked, Frame, spin
<1>3. DOMAIN call = Threads /\ call'[t] = "none"
      /\ \A u \in Threads \ {t} : call'[u] = call[u]
  BY <1>1 DEF IInv, Typed
<1>4. CloseInv'
  BY <1>1, <1>3 DEF IInv, CloseInv, ShutdownInv
<1> QED
  BY <1>1, <1>2, <1>4, CallMoves DEF Stages

LEMMA ShutdownStepsInv ==
    ASSUME IInv, NEW t \in Threads, StopReliability(t) \/ Join(t) \/ Clear(t)
    PROVE  IInv'
<1>0. UNCHANGED <<running, controlSeq, used, late, phase, ctl, spc>>
  BY DEF StopReliability, Join, Clear, shared, spin
<1>1. CASE StopReliability(t)
  <2>1. call' = [call EXCEPT ![t] = "joining"] /\ call[t] = "join"
        /\ UNCHANGED <<cleared, relThread, subs, writers>>
    BY <1>1 DEF StopReliability, Goto, shared, entry
  <2>2. CloseInv'
    BY <2>1, <1>0 DEF IInv, Typed, CloseInv
  <2> QED
    BY <2>1, <2>2, <1>0, CallMoves DEF Stages
<1>2. CASE Join(t)
  <2>1. call' = [call EXCEPT ![t] = "clear"] /\ call[t] = "joining"
        /\ UNCHANGED <<cleared, subs, writers>> /\ relThread' \in {"none", "joined"}
    BY <1>2 DEF Join, Goto, shared, entry
  <2>2. CloseInv'
    BY <2>1, <1>0 DEF IInv, CloseInv
  <2> QED
    BY <2>1, <2>2, <1>0, CallMoves DEF Stages
<1>3. CASE Clear(t)
  <2>1. call' = [call EXCEPT ![t] = "bump"] /\ call[t] = "clear"
        /\ UNCHANGED relThread /\ subs' = <<>> /\ writers' = {}
    BY <1>3 DEF Clear, Goto, rel
  <2>2. CloseInv'
    BY <2>1, <1>0 DEF IInv, CloseInv
  <2> QED
    BY <2>1, <2>2, <1>0, CallMoves DEF Stages
<1> QED
  BY <1>1, <1>2, <1>3

\* The bump that a stop owes is what the spin thread's expectation is compared with.
LEMMA BumpInv ==
    ASSUME IInv, NEW t \in Threads, Bump(t)
    PROVE  IInv'
<1>1. /\ UNCHANGED <<running, cleared, relThread, subs, writers, used, late, phase, ctl>>
      /\ controlSeq' = controlSeq + 1
      /\ spc' = IF spc = "asleep" THEN "awake" ELSE spc
      /\ call' = [call EXCEPT ![t] = "none"]
  BY DEF Bump, Goto, rel, entry
<1>2. DOMAIN call = Threads /\ call'[t] = "none"
      /\ \A u \in Threads \ {t} : call'[u] = call[u]
  BY <1>1 DEF IInv, Typed
<1>3. Typed' /\ ShutdownInv' /\ LockedRecvIsSafe' /\ CloseInv'
  BY <1>1, <1>2 DEF IInv, Typed, Stages, ShutdownInv, LockedRecvIsSafe, CloseInv
<1>4. WakeInv'
  <2>1. ctl < controlSeq'
    BY <1>1 DEF IInv, Typed, WakeInv
  <2>2. ctl' = ctl /\ ctl' <= controlSeq' /\ ctl' < controlSeq'
    BY <2>1, <1>1 DEF IInv, Typed
  <2> QED
    BY <2>2, <1>1 DEF IInv, WakeInv
<1> QED
  BY <1>3, <1>4 DEF IInv

LEMMA NextInv == IInv /\ [Next]_vars => IInv'
<1> SUFFICES ASSUME IInv, [Next]_vars PROVE IInv'
  OBVIOUS
<1>1. CASE SpinStep
  BY <1>1, SpinInv
<1>2. CASE RelStep
  BY <1>2, RelInv
<1>3. CASE \E t \in Threads : BeginCall(t) \/ CallStep(t)
  BY <1>3, BeginInv, SubscribeLockedInv, PublishLockedInv, ShutdownStepsInv, BumpInv
  DEF CallStep
<1>4. CASE \E c \in Remote : RemotePublish(c)
  BY <1>4, RemotePublishInv
<1>5. CASE UNCHANGED vars
  BY <1>5 DEF vars, shared, rel, api, entry, spin, IInv, Typed, ShutdownInv, WakeInv, BumpOwed,
         LockedRecvIsSafe, CloseInv
<1> QED
  BY <1>1, <1>2, <1>3, <1>4, <1>5 DEF Next

\* Whatever the threads and handlers of a transport call, types, entries, wake-ups and
\* shutdowns stay consistent with each other: the other theorems are parts of it.
THEOREM InvariantHolds == Spec => []IInv
  BY InitInv, NextInv, PTL DEF Spec

\* The locked pass of the spin thread never reads a ring that a shutdown has closed.
THEOREM LockedRecvIsSafeHolds == Spec => []LockedRecvIsSafe
<1>1. IInv => LockedRecvIsSafe
  BY DEF IInv
<1> QED
  BY <1>1, InvariantHolds, PTL

\* Whoever stops the transport has the wake of a sleeping spin thread still to do.
THEOREM StopWakesSpinHolds == Spec => []StopWakesSpin
<1>1. IInv => StopWakesSpin
  BY DEF IInv, Typed, WakeInv, BumpOwed, StopWakesSpin
<1> QED
  BY <1>1, InvariantHolds, PTL

\* A shutdown leaves no reader, no writer and no reliability thread behind.
THEOREM ShutdownClosesHolds == Spec => []ShutdownCloses
<1>1. IInv => ShutdownCloses
  BY DEF IInv, CloseInv, ShutdownCloses
<1> QED
  BY <1>1, InvariantHolds, PTL

(***************************************************************************)
(* Types.                                                                  *)
(***************************************************************************)
LEMMA InitTypeOK == Init => TypeOK
<1> SUFFICES ASSUME Init PROVE TypeOK
  OBVIOUS
<1>1. published \in [Channels -> 0..MaxSeq] /\ pos \in [Entries -> 0..MaxSeq] /\ calls \in 0..MaxCalls
  BY LifecycleAssumption DEF Init
<1>2. words = <<>> /\ DOMAIN words = {}
  BY DEF Init
<1>3. subs \in Seq(Entries) /\ snap \in Seq(Entries) /\ todo \in Seq(Entries)
  BY DEF Init
<1>4. call \in [Threads -> Stages]
  BY DEF Init, Stages
<1> QED
  BY <1>1, <1>2, <1>3, <1>4 DEF Init, TypeOK, Stages

\* What a frame does, and what it leaves alone.
LEMMA FrameTypes ==
    ASSUME TypeOK, NEW c \in Channels, Frame(c)
    PROVE  /\ published' \in [Channels -> 0..MaxSeq] /\ spc' \in {spc, "awake"}
           /\ UNCHANGED <<phase, snap, todo, ctl, words, delivered>>
<1>1. published' = [published EXCEPT ![c] = @ + 1] /\ published[c] < MaxSeq
      /\ published[c] \in 0..MaxSeq
  BY DEF Frame, TypeOK
<1>2. published[c] + 1 \in 0..MaxSeq
  BY <1>1, LifecycleAssumption
<1> QED
  BY <1>1, <1>2 DEF Frame, TypeOK

LEMMA RemoteTypes ==
    ASSUME TypeOK, NEW c \in Remote, RemotePublish(c)
    PROVE  TypeOK'
<1>1. c \in Channels /\ Frame(c)
  BY DEF RemotePublish, Channels
<1> QED
  BY <1>1, FrameTypes DEF RemotePublish, rel, api, entry, TypeOK

LEMMA RelTypes ==
    ASSUME TypeOK, RelStep
    PROVE  TypeOK'
<1>1. CASE Tick
  <2>1. PICK c \in pending :
            \/ pending' = pending \ {c} /\ UNCHANGED <<writers, published, spin>>
            \/ Frame(c) /\ writers' = writers \cup {c} /\ UNCHANGED pending
    BY <1>1 DEF Tick
  <2>2. c \in Own /\ c \in Channels
    BY DEF TypeOK, Channels
  <2>3. /\ published' \in [Channels -> 0..MaxSeq] /\ spc' \in {spc, "awake"}
        /\ UNCHANGED <<phase, snap, todo, ctl, words, delivered>>
        /\ pending' \subseteq Own /\ writers' \subseteq Own
    BY <2>1, <2>2, FrameTypes DEF TypeOK, spin
  <2> QED
    BY <1>1, <2>3 DEF Tick, api, entry, TypeOK
<1>2. CASE EventsFired
  BY <1>2 DEF EventsFired, shared, api, entry, spin, TypeOK
<1>3. CASE LoopEnds
  BY <1>3 DEF LoopEnds, shared, api, entry, spin, TypeOK
<1> QED
  BY <1>1, <1>2, <1>3 DEF RelStep

LEMMA BeginTypes ==
    ASSUME TypeOK, NEW t \in Threads, BeginCall(t)
    PROVE  TypeOK'
<1>1. PICK pc \in {"subscribe", "publish", "bump", "join"} : Begin(t, pc)
  BY DEF BeginCall, Subscribe, Publish, Stop, WakeControl, Shutdown
<1>2. running' \in BOOLEAN /\ UNCHANGED <<controlSeq, writers, cleared, published>>
  BY DEF BeginCall, Subscribe, Publish, Stop, WakeControl, Shutdown, shared, TypeOK
<1>3. calls' \in 0..MaxCalls
  BY <1>1, LifecycleAssumption DEF Begin, CanCall, TypeOK
<1> QED
  BY <1>1, <1>2, <1>3 DEF Begin, Goto, rel, entry, spin, TypeOK

LEMMA CallTypes ==
    ASSUME TypeOK, NEW t \in Threads, CallStep(t)
    PROVE  TypeOK'
<1> USE DEF Goto
<1>1. CASE SubscribeLocked(t)
  <2>1. PICK c \in Channels, retained \in BOOLEAN :
            \/ call' = [call EXCEPT ![t] = "none"] /\ UNCHANGED entry
               /\ used' \in {used, used \cup {"handlers"}}
            \/ /\ subs' = Append(subs, <<c, cleared>>)
               /\ pos' = [pos EXCEPT ![<<c, cleared>>] = FirstSeen(c, retained)]
               /\ call' = [call EXCEPT ![t] = "bump"]
               /\ UNCHANGED used
    BY <1>1 DEF SubscribeLocked
  <2>2. <<c, cleared>> \in Entries
    BY DEF Entries, TypeOK
  <2>3. FirstSeen(c, retained) \in 0..MaxSeq
    BY LifecycleAssumption DEF FirstSeen, TypeOK
  <2>4. pos' \in [Entries -> 0..MaxSeq]
    BY <2>1, <2>2, <2>3 DEF TypeOK, entry
  <2>5. subs' \in Seq(Entries)
    <3>1. subs \in Seq(Entries)
      BY DEF TypeOK
    <3>2. subs' \in {subs, Append(subs, <<c, cleared>>)}
      BY <2>1 DEF entry
    <3> QED
      BY <2>2, <3>1, <3>2
  <2>6. call' \in [Threads -> Stages] /\ used' \subseteq used \cup {"handlers"}
    BY <2>1 DEF TypeOK, Stages
  <2>7. UNCHANGED <<shared, rel, calls, spin>> /\ late' = (late \/ ~running)
    BY <1>1 DEF SubscribeLocked
  <2> QED
    BY <2>4, <2>5, <2>6, <2>7 DEF shared, rel, spin, TypeOK, Stages
<1>2. CASE PublishLocked(t)
  <2>1. PICK c \in Own, reliable \in BOOLEAN :
          /\ IF published[c] < MaxSeq THEN Frame(c) ELSE UNCHANGED <<published, spin>>
          /\ writers' = writers \cup {c}
          /\ IF reliable THEN RecordReliable(c) ELSE UNCHANGED rel
    BY <1>2 DEF PublishLocked
  <2>2. c \in Channels
    BY DEF Channels
  <2>3. /\ published' \in [Channels -> 0..MaxSeq] /\ spc' \in {spc, "awake"}
        /\ UNCHANGED <<phase, snap, todo, ctl, words, delivered>>
    BY <2>1, <2>2, FrameTypes DEF spin, TypeOK
  <2>4. /\ writers' \subseteq Own /\ pending' \subseteq Own
        /\ relRun' \in BOOLEAN
        /\ relThread' \in {relThread, "tick"}
    BY <2>1 DEF RecordReliable, EnsureReliableStarted, rel, TypeOK
  <2> QED
    BY <1>2, <2>3, <2>4 DEF PublishLocked, entry, TypeOK
<1>3. CASE StopReliability(t)
  <2>1. call' \in [Threads -> Stages] /\ relRun' \in BOOLEAN
    BY <1>3 DEF StopReliability, TypeOK, Stages
  <2> QED
    BY <1>3, <2>1 DEF StopReliability, shared, entry, spin, TypeOK, Stages
<1>4. CASE Join(t)
  BY <1>4 DEF Join, shared, entry, spin, TypeOK
<1>5. CASE Clear(t)
  <2>1. writers' \subseteq Own /\ subs' \in Seq(Entries)
    BY <1>5 DEF Clear
  <2> QED
    BY <1>5, <2>1 DEF Clear, rel, spin, TypeOK
<1>6. CASE Bump(t)
  <2>1. controlSeq' \in Nat /\ spc' \in {spc, "awake"}
    BY <1>6 DEF Bump, TypeOK
  <2> QED
    BY <1>6, <2>1 DEF Bump, rel, entry, TypeOK
<1> QED
  BY <1>1, <1>2, <1>3, <1>4, <1>5, <1>6 DEF CallStep

\* rrb_reader_recv counts the reader on, and never past what was published.
LEMMA RecvTypes ==
    ASSUME TypeOK, todo # <<>>, NEW where, NEW pc, Recv(where, pc)
    PROVE  /\ pos' \in [Entries -> 0..MaxSeq] /\ todo' \in Seq(Entries)
           /\ spc' \in {spc, pc, "crashed"} /\ used' \subseteq used \cup {where}
<1> DEFINE e == Head(todo)
<1>1. e \in Entries /\ e[1] \in Channels /\ Tail(todo) \in Seq(Entries)
  BY DEF TypeOK, Entries
<1>2. pos[e] < published[e[1]] => pos[e] + 1 \in 0..MaxSeq
  BY <1>1, LifecycleAssumption DEF TypeOK
<1>3. pos' = pos \/ (pos[e] < published[e[1]] /\ pos' = [pos EXCEPT ![e] = @ + 1])
  BY DEF Recv, Crash
<1>4. pos' \in [Entries -> 0..MaxSeq]
  BY <1>1, <1>2, <1>3 DEF TypeOK
<1>5. todo' \in {todo, Tail(todo)}
  BY DEF Recv, Crash
<1>6. spc' \in {spc, pc, "crashed"} /\ used' \subseteq used \cup {where}
  BY DEF Recv, Crash, SpinGoto
<1> QED
  BY <1>1, <1>4, <1>5, <1>6 DEF TypeOK

LEMMA SpinTypes ==
    ASSUME TypeOK, SpinStep
    PROVE  TypeOK'
<1> USE DEF SpinGoto, Crash
<1>1. UNCHANGED <<running, controlSeq, writers, cleared, published, pending, relRun, relThread,
                  call, calls, subs, late>>
  BY DEF SpinStep, Top, Snapshot, Drain, WaitDrain, CopyHandlers, HandlersReturn, PassDone,
         LoadControl, CopyReaders, SnapshotWords, FutexWait, Timeout, Awake, SpinUnchanged,
         shared, rel, api
<1>2. CASE Top \/ Snapshot
  BY <1>1, <1>2, ZenonT(30) DEF Top, Snapshot, TypeOK
<1>3. CASE Drain
  BY <1>1, <1>3, RecvTypes, ZenonT(30) DEF Drain, TypeOK
<1>4. CASE WaitDrain
  BY <1>1, <1>4, RecvTypes, ZenonT(30) DEF WaitDrain, TypeOK
<1>5. CASE CopyHandlers \/ HandlersReturn
  BY <1>1, <1>5, ZenonT(30) DEF CopyHandlers, HandlersReturn, TypeOK
<1>6. CASE PassDone \/ LoadControl
  BY <1>1, <1>6, ZenonT(30) DEF PassDone, LoadControl, TypeOK
<1>7. CASE CopyReaders
  BY <1>1, <1>7 DEF CopyReaders, TypeOK
<1>8. CASE SnapshotWords
  <2>1. Range(snap) \subseteq Entries
    BY DEF TypeOK, Range
  <2>2. \A e \in Entries : published[e[1]] \in 0..MaxSeq
    BY DEF TypeOK, Entries
  <2>3. \/ words' = words
        \/ words' = [e \in {f \in Range(snap) : pos[f] > 0} |-> published[e[1]]]
    BY <1>8 DEF SnapshotWords
  <2>4. \A e \in DOMAIN words' : e \in Entries /\ words'[e] \in 0..MaxSeq
    BY <2>1, <2>2, <2>3, ZenonT(30) DEF TypeOK
  <2>5. spc' \in {"crashed", "futex"} /\ used' \subseteq used \cup {"park"}
    BY <1>8 DEF SnapshotWords
  <2>6. UNCHANGED <<phase, snap, todo, ctl, delivered, pos>>
    BY <1>8 DEF SnapshotWords
  <2> QED
    BY <1>1, <2>4, <2>5, <2>6 DEF TypeOK
<1>9. CASE FutexWait \/ Timeout
  BY <1>1, <1>9, ZenonT(30) DEF FutexWait, Timeout, TypeOK
<1>10. CASE Awake
  BY <1>1, <1>10 DEF Awake, TypeOK
<1> QED
  BY <1>2, <1>3, <1>4, <1>5, <1>6, <1>7, <1>8, <1>9, <1>10 DEF SpinStep

\* Every variable keeps its type.
THEOREM TypeCorrect == Spec => []TypeOK
<1>1. TypeOK /\ [Next]_vars => TypeOK'
  <2> SUFFICES ASSUME TypeOK, [Next]_vars PROVE TypeOK'
    OBVIOUS
  <2>1. CASE UNCHANGED vars
    BY <2>1 DEF vars, shared, rel, api, entry, spin, TypeOK
  <2> QED
    BY <2>1, SpinTypes, RelTypes, BeginTypes, CallTypes, RemoteTypes DEF Next
<1> QED
  BY <1>1, InitTypeOK, PTL DEF Spec
====
