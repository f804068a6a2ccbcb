---- MODULE RingAttach ----
(***************************************************************************)
(* The file behind a channel: how a producer creates it, re-creates it in  *)
(* place or grows it, and how subscribers attach to it, notice that it was *)
(* replaced and attach again (cpp/src/raccoon_ring.c, with the sizes       *)
(* Transport::Impl chooses).  A mapping has the size the file had when it  *)
(* was made; the header is written field by field and read field by field. *)
(* Ring models the frames; here a slot has an address, which may lie past  *)
(* the end of the mapping or of the file.                                  *)
(***************************************************************************)
EXTENDS Integers

CONSTANTS Readers,         \* the subscribers of the channel
          Hints,           \* payload sizes a producer may start or go on with
          HeaderSize,      \* sizeof(ring_hdr_t)
          SlotHeader,      \* sizeof(slot_hdr_t)
          SlotAlign,       \* slots begin at multiples of it (8)
          DefaultPayload,  \* RRB_DEFAULT_MAX_PAYLOAD
          PayloadUnit,     \* sizes of payloads are multiples of it (256)
          Budget,          \* bytes a ring should take (128 KiB)
          MinSlots,        \* at least so many slots (4)
          MaxSlots,        \* RRB_DEFAULT_SLOT_COUNT
          Attempts,        \* iterations of recv's outer loop (8 in the code)
          MaxFiles,        \* bound: files that ever had the channel's path
          MaxCreates,      \* bound: calls of rrb_writer_create
          MaxSeq           \* bound: frames published after one of them

Files == 1..MaxFiles
None == 0  \* no such file; of a field: not written yet

ASSUME AttachAssumption ==
    /\ {MaxCreates, MaxSeq} \subseteq Nat
    /\ {HeaderSize, SlotHeader, SlotAlign, DefaultPayload, PayloadUnit, Budget,
        MinSlots, MaxSlots, Attempts, MaxFiles} \subseteq Nat \ {0}
    /\ Hints \subseteq Nat \ {0}
    /\ MinSlots <= MaxSlots

VARIABLES file,      \* size and header of each file
          path,      \* the file the channel's path names
          used,      \* files created so far
          wpc,       \* what the producer is doing; the field it writes next
          wfile,     \* the file the producer has open
          layout,    \* the layout the producer wants
          creates,   \* calls of rrb_writer_create so far
          relaid,    \* history: two of those calls wanted different layouts
          rpc,       \* where each reader is
          call,      \* the call a reader is in
          rfile,     \* the file the reader has open and mapped
          rsize,     \* size of its mapping
          stride,    \* the slot_size it took when it attached
          resume,    \* where it goes on when it has attached
          lastSeen,  \* last_seen
          attempt,   \* `attempt` in rrb_reader_recv, counted from 1
          producer,  \* `producer` in rrb_reader_recv
          rnext      \* `next` in rrb_reader_recv

storage    == <<file, path, used>>
writerVars == <<wpc, wfile, layout, creates, relaid>>
mapping    == <<rfile, rsize, stride, resume>>
recvVars   == <<lastSeen, attempt, producer, rnext>>
readerVars == <<rpc, call, mapping, recvVars>>
vars       == <<storage, writerVars, readerVars>>

Larger(a, b) == IF a < b THEN b ELSE a
Smaller(a, b) == IF a < b THEN a ELSE b

RoundUp(v, align) == ((v + align - 1) \div align) * align

SlotStride(payload) == RoundUp(SlotHeader + payload, SlotAlign)

\* sizeRing: twice the payload of the first frame, as many slots as fit.
SizeRing(hint) ==
    LET want == RoundUp(Larger(2 * hint, DefaultPayload), PayloadUnit)
    IN  [slotCount |-> Smaller(Larger(Budget \div want, MinSlots), MaxSlots),
         maxPayload |-> want]

FileSize(l) == HeaderSize + l.slotCount * SlotStride(l.maxPayload)

\* The size of a file and its ring_hdr_t.  "clean": every slot carries a frame of
\* this incarnation or none.
Headers == [size : Nat, magic : BOOLEAN, slotCount : Nat, slotSize : Nat,
            maxPayload : Nat, producerSeq : 0..MaxSeq, clean : BOOLEAN]

\* rrb_reader_open's placeholder.
EmptyFile == [size |-> 0, magic |-> FALSE, slotCount |-> None, slotSize |-> None,
              maxPayload |-> None, producerSeq |-> 0, clean |-> TRUE]

Unwanted == [slotCount |-> None, maxPayload |-> None]

Init == /\ file = [f \in Files |-> EmptyFile]
        /\ path = None /\ used = 0
        /\ wpc = "none" /\ wfile = None /\ layout = Unwanted
        /\ creates = 0 /\ relaid = FALSE
        /\ rpc = [r \in Readers |-> "closed"]
        /\ call = [r \in Readers |-> "none"]
        /\ rfile = [r \in Readers |-> None]
        /\ rsize = [r \in Readers |-> 0]
        /\ stride = [r \in Readers |-> 0]
        /\ resume = [r \in Readers |-> "none"]
        /\ lastSeen = [r \in Readers |-> 0]
        /\ attempt = [r \in Readers |-> 1]
        /\ producer = [r \in Readers |-> 0]
        /\ rnext = [r \in Readers |-> 0]

\* open with O_CREAT: the file the path names afterwards.
Opened == IF path = None THEN used + 1 ELSE path

(***************************************************************************)
(* The producer.                                                           *)
(***************************************************************************)
\* rrb_writer_create up to its mmap, for a first frame (writerFor) or for one
\* the ring is too small for (growWriter).
Create(hint) ==
    /\ \/ wpc = "none"
       \/ wpc = "idle" /\ hint > file[wfile].maxPayload
    /\ creates < MaxCreates
    /\ creates' = creates + 1
    /\ layout' = SizeRing(hint)
    /\ relaid' = (relaid \/ layout \notin {Unwanted, SizeRing(hint)})
    /\ wfile' = Opened /\ path' = Opened /\ used' = Larger(used, Opened)
    /\ file' = [file EXCEPT ![Opened].size = FileSize(SizeRing(hint))]
    /\ wpc' = "magic"
    /\ UNCHANGED readerVars

\* One header field is stored, and the next one is due.
Write(field, next) ==
    /\ wpc = field
    /\ wpc' = next
    /\ UNCHANGED <<path, used, wfile, layout, creates, relaid, readerVars>>

WriteMagic == /\ Write("magic", "slotCount")
              /\ file' = [file EXCEPT ![wfile].magic = TRUE]

WriteSlotCount ==
    /\ Write("slotCount", "slotSize")
    /\ file' = [file EXCEPT ![wfile].slotCount = layout.slotCount,
                            ![wfile].clean = FALSE]

WriteSlotSize ==
    /\ Write("slotSize", "maxPayload")
    /\ file' = [file EXCEPT ![wfile].slotSize = SlotStride(layout.maxPayload)]

WriteMaxPayload ==
    /\ Write("maxPayload", "seq")
    /\ file' = [file EXCEPT ![wfile].maxPayload = layout.maxPayload]

ResetProducerSeq == /\ Write("seq", "zero")
                    /\ file' = [file EXCEPT ![wfile].producerSeq = 0]

ZeroSlots == /\ Write("zero", "idle")
             /\ file' = [file EXCEPT ![wfile].clean = TRUE]

\* rrb_writer_publish of a payload that fits; Ring has its single stores.
Publish ==
    /\ wpc = "idle"
    /\ file[wfile].producerSeq < MaxSeq
    /\ file' = [file EXCEPT ![wfile].producerSeq = @ + 1]
    /\ UNCHANGED <<path, used, writerVars, readerVars>>

\* The producer destroys its handle or dies, at any point.
Stop ==
    /\ wpc # "none"
    /\ wpc' = "none" /\ wfile' = None
    /\ UNCHANGED <<storage, layout, creates, relaid, readerVars>>

\* Somebody removes the file, the producer itself perhaps.
Unlink ==
    /\ path # None
    /\ used < MaxFiles
    /\ path' = None
    /\ UNCHANGED <<file, used, writerVars, readerVars>>

(***************************************************************************)
(* A subscriber.  pc "idle" is a reader between two calls.                 *)
(***************************************************************************)
Goto(r, pc) == rpc' = [rpc EXCEPT ![r] = pc]

\* The call of r is over, its locals are forgotten.
Return(r) ==
    /\ Goto(r, "idle")
    /\ call' = [call EXCEPT ![r] = "none"]
    /\ resume' = [resume EXCEPT ![r] = "none"]
    /\ attempt' = [attempt EXCEPT ![r] = 1]
    /\ producer' = [producer EXCEPT ![r] = 0]
    /\ rnext' = [rnext EXCEPT ![r] = 0]

Attach(r, next) == /\ Goto(r, "attach")
                   /\ resume' = [resume EXCEPT ![r] = next]

\* reader_detach.
Detach(r) ==
    /\ rfile' = [rfile EXCEPT ![r] = None]
    /\ rsize' = [rsize EXCEPT ![r] = 0]
    /\ stride' = [stride EXCEPT ![r] = 0]
    /\ lastSeen' = [lastSeen EXCEPT ![r] = 0]

\* rrb_reader_open: touches the file, then tries to attach.
Open(r) ==
    /\ rpc[r] = "closed"
    /\ path' = Opened /\ used' = Larger(used, Opened)
    /\ call' = [call EXCEPT ![r] = "open"]
    /\ Attach(r, "idle")
    /\ UNCHANGED <<file, writerVars, rfile, rsize, stride, recvVars>>

Close(r) ==
    /\ rpc[r] = "idle"
    /\ Goto(r, "closed")
    /\ Detach(r)
    /\ UNCHANGED <<storage, writerVars, call, resume, attempt, producer, rnext>>

\* rrb_reader_recv, and rrb_reader_seek_to_latest; both attach a lazy reader.
Begin(r) ==
    /\ rpc[r] = "idle"
    /\ \E c \in {"recv", "seek"} :
        /\ call' = [call EXCEPT ![r] = c]
        /\ LET first == IF c = "recv" THEN "size" ELSE "seek" IN
           \/ rfile[r] = None /\ Attach(r, first)
           \/ rfile[r] # None /\ Goto(r, first) /\ UNCHANGED resume
    /\ UNCHANGED <<storage, writerVars, rfile, rsize, stride, recvVars>>

\* Mutant: whatever the path names is mapped, a placeholder too.
MapPlaceholder(r) ==
    /\ rpc[r] = "attach"
    /\ \/ path = None /\ Return(r) /\ UNCHANGED <<rfile, rsize>>
       \/ /\ path # None
          /\ rfile' = [rfile EXCEPT ![r] = path]
          /\ rsize' = [rsize EXCEPT ![r] = file[path].size]
          /\ Goto(r, "header")
          /\ UNCHANGED <<call, resume, attempt, producer, rnext>>
    /\ UNCHANGED <<storage, writerVars, stride, lastSeen>>

Materialised == path # None /\ file[path].size >= HeaderSize

\* reader_attach: open, fstat and mmap.  Nothing there, or only a placeholder:
\* the reader stays lazy.
Map(r) ==
    /\ rpc[r] = "attach"
    /\ \/ /\ ~Materialised
          /\ Return(r)
          /\ UNCHANGED <<rfile, rsize>>
       \/ /\ Materialised
          /\ rfile' = [rfile EXCEPT ![r] = path]
          /\ rsize' = [rsize EXCEPT ![r] = file[path].size]
          /\ Goto(r, "header")
          /\ UNCHANGED <<call, resume, attempt, producer, rnext>>
    /\ UNCHANGED <<storage, writerVars, stride, lastSeen>>

\* The rest of it: without the magic number the mapping is given up again.
CheckHeader(r) ==
    /\ rpc[r] = "header"
    /\ \/ /\ ~file[rfile[r]].magic
          /\ Return(r)
          /\ rfile' = [rfile EXCEPT ![r] = None]
          /\ rsize' = [rsize EXCEPT ![r] = 0]
          /\ UNCHANGED stride
       \/ /\ file[rfile[r]].magic
          /\ stride' = [stride EXCEPT ![r] = file[rfile[r]].slotSize]
          /\ IF resume[r] = "idle" THEN Return(r)
             ELSE Goto(r, resume[r]) /\ UNCHANGED <<call, resume, attempt, producer, rnext>>
          /\ UNCHANGED <<rfile, rsize>>
    /\ UNCHANGED <<storage, writerVars, lastSeen>>

\* The header's slot_size is compared with the stride taken on attach: a ring
\* that was grown is attached to again.
CheckSlotSize(r) ==
    /\ rpc[r] = "size"
    /\ \/ /\ file[rfile[r]].slotSize = stride[r]
          /\ Goto(r, "load")
          /\ UNCHANGED <<mapping, lastSeen>>
       \/ /\ file[rfile[r]].slotSize # stride[r]
          /\ Detach(r)
          /\ Attach(r, "load")
    /\ UNCHANGED <<storage, writerVars, call, attempt, producer, rnext>>

\* What recv does when producer_seq is p # last_seen.
Pick(r, p) ==
    /\ lastSeen' = [lastSeen EXCEPT ![r] = IF p < @ THEN 0 ELSE @]
    /\ \/ p = 0 /\ Return(r)
       \/ /\ p > 0
          /\ Goto(r, "window")
          /\ producer' = [producer EXCEPT ![r] = p]
          /\ UNCHANGED <<call, resume, attempt, rnext>>

\* Mutant: recv does not stop at "no new data".
LoadUnchecked(r) ==
    /\ rpc[r] = "load"
    /\ Goto(r, "window")
    /\ producer' = [producer EXCEPT ![r] = file[rfile[r]].producerSeq]
    /\ UNCHANGED <<storage, writerVars, call, mapping, lastSeen, attempt, rnext>>

LoadProducer(r) ==
    /\ rpc[r] = "load"
    /\ \/ /\ file[rfile[r]].producerSeq = lastSeen[r]
          /\ Goto(r, "stat")
          /\ UNCHANGED <<call, resume, recvVars>>
       \/ /\ file[rfile[r]].producerSeq # lastSeen[r]
          /\ Pick(r, file[rfile[r]].producerSeq)
    /\ UNCHANGED <<storage, writerVars, rfile, rsize, stride>>

\* Mutant: the file is never looked at again.
TrustFile(r) ==
    /\ rpc[r] = "stat"
    /\ Goto(r, "reload")
    /\ UNCHANGED <<storage, writerVars, call, mapping, recvVars>>

\* reader_reopen_if_unlinked: no news, and the file has no name any more.
CheckUnlinked(r) ==
    /\ rpc[r] = "stat"
    /\ \/ /\ path = rfile[r]
          /\ Goto(r, "reload")
          /\ UNCHANGED <<mapping, lastSeen>>
       \/ /\ path # rfile[r]
          /\ Detach(r)
          /\ Attach(r, "reload")
    /\ UNCHANGED <<storage, writerVars, call, attempt, producer, rnext>>

ReloadProducer(r) ==
    /\ rpc[r] = "reload"
    /\ \/ /\ file[rfile[r]].producerSeq = lastSeen[r]
          /\ Return(r)
          /\ UNCHANGED lastSeen
       \/ /\ file[rfile[r]].producerSeq # lastSeen[r]
          /\ Pick(r, file[rfile[r]].producerSeq)
    /\ UNCHANGED <<storage, writerVars, rfile, rsize, stride>>

\* The frame to look for; slot_count is read from the header each time, and 0
\* makes the unsigned window as large as can be.
Window(r) ==
    /\ rpc[r] = "window"
    /\ LET n == file[rfile[r]].slotCount IN
       rnext' = [rnext EXCEPT ![r] =
           IF n > 0 /\ producer[r] - lastSeen[r] > n - 1
           THEN producer[r] - (n - 1) ELSE lastSeen[r] + 1]
    /\ Goto(r, "seq")
    /\ UNCHANGED <<storage, writerVars, call, mapping, lastSeen, attempt, producer>>

\* Where recv's pointer to the slot of frame rnext leads.
SlotAddress(r) ==
    HeaderSize + ((rnext[r] - 1) % file[rfile[r]].slotCount) * stride[r]

\* The end of what recv touches there.
Reach(r) == SlotAddress(r) + IF rpc[r] = "copy"
                             THEN SlotHeader + file[rfile[r]].maxPayload
                             ELSE SlotHeader

InBounds(r) == Reach(r) <= rsize[r] /\ Reach(r) <= file[rfile[r]].size

\* The newest frame in the slot of frame n, 0 if there is none.
InSlot(f, n) == Larger(0, f.producerSeq - ((f.producerSeq - n) % f.slotCount))

\* The seq recv finds: any at all in a slot that was not cleared yet, or at an
\* address where no slot begins.
SeqFound(r) ==
    LET f == file[rfile[r]] IN
    IF f.clean /\ stride[r] = f.slotSize THEN {InSlot(f, rnext[r])} ELSE 0..MaxSeq + 1

LoadSeq(r) ==
    /\ rpc[r] = "seq"
    /\ file[rfile[r]].slotCount # 0
    /\ InBounds(r)
    /\ \E seq \in SeqFound(r) :
        \/ /\ seq < rnext[r]
           /\ lastSeen' = [lastSeen EXCEPT ![r] = rnext[r]]
           /\ Return(r)
        \/ /\ seq > rnext[r]
           /\ lastSeen' = [lastSeen EXCEPT ![r] = seq - 1]
           /\ \/ attempt[r] = Attempts /\ Return(r)
              \/ /\ attempt[r] < Attempts
                 /\ attempt' = [attempt EXCEPT ![r] = @ + 1]
                 /\ producer' = [producer EXCEPT ![r] = 0]
                 /\ rnext' = [rnext EXCEPT ![r] = 0]
                 /\ Goto(r, "size")
                 /\ UNCHANGED <<call, resume>>
        \/ /\ seq = rnext[r]
           /\ Goto(r, "copy")
           /\ UNCHANGED <<call, resume, recvVars>>
    /\ UNCHANGED <<storage, writerVars, rfile, rsize, stride>>

\* The copy that Ring models word by word.
Copy(r) ==
    /\ rpc[r] = "copy"
    /\ InBounds(r)
    /\ lastSeen' = [lastSeen EXCEPT ![r] = rnext[r]]
    /\ Return(r)
    /\ UNCHANGED <<storage, writerVars, rfile, rsize, stride>>

\* SIGBUS, SIGSEGV or SIGFPE: the process dies on the slot's address.
Fault(r) ==
    /\ rpc[r] \in {"seq", "copy"}
    /\ file[rfile[r]].slotCount = 0 \/ ~InBounds(r)
    /\ Goto(r, "dead")
    /\ UNCHANGED <<storage, writerVars, call, mapping, recvVars>>

\* Mutant: an empty ring is not told apart.
SeekUnguarded(r) ==
    /\ rpc[r] = "seek"
    /\ lastSeen' = [lastSeen EXCEPT ![r] = file[rfile[r]].producerSeq - 1]
    /\ Return(r)
    /\ UNCHANGED <<storage, writerVars, rfile, rsize, stride>>

SeekToLatest(r) ==
    /\ rpc[r] = "seek"
    /\ LET p == file[rfile[r]].producerSeq IN
       lastSeen' = [lastSeen EXCEPT ![r] = IF p > 0 THEN p - 1 ELSE 0]
    /\ Return(r)
    /\ UNCHANGED <<storage, writerVars, rfile, rsize, stride>>

WriteHeader == \/ WriteMagic \/ WriteSlotCount \/ WriteSlotSize
               \/ WriteMaxPayload \/ ResetProducerSeq \/ ZeroSlots

\* The steps of a call.
Run(r) == \/ Map(r) \/ CheckHeader(r) \/ CheckSlotSize(r) \/ LoadProducer(r)
          \/ CheckUnlinked(r) \/ ReloadProducer(r) \/ Window(r)
          \/ LoadSeq(r) \/ Copy(r) \/ Fault(r) \/ SeekToLatest(r)

Next == \/ \E hint \in Hints : Create(hint)
        \/ WriteHeader \/ Publish \/ Stop \/ Unlink
        \/ \E r \in Readers : Open(r) \/ Close(r) \/ Begin(r) \/ Run(r)

Spec == Init /\ [][Next]_vars

\* A producer that began to create the ring goes on; a subscriber finishes its
\* calls and polls again and again, whatever it does in between.
Fairness ==
    /\ WF_vars(WriteHeader)
    /\ \A r \in Readers :
        /\ WF_vars(Run(r))
        /\ SF_vars(Begin(r) /\ call'[r] = "recv")

LiveSpec == Spec /\ Fairness

(***************************************************************************)
(* Properties.                                                             *)
(***************************************************************************)
Fields == {"magic", "slotCount", "slotSize", "maxPayload", "seq", "zero"}

Steps == {"size", "load", "reload", "seek"}

\* Every variable keeps its type.
TypeOK ==
    /\ file \in [Files -> Headers]
    /\ used \in 0..MaxFiles /\ path \in {None, used}
    /\ wpc \in Fields \cup {"none", "idle"}
    /\ wfile \in 0..used /\ (wfile = None <=> wpc = "none")
    /\ layout \in [slotCount : Nat, maxPayload : Nat]
    /\ creates \in 0..MaxCreates /\ relaid \in BOOLEAN
    /\ rpc \in [Readers -> Steps \cup {"closed", "idle", "attach", "header", "stat",
                                       "window", "seq", "copy", "dead"}]
    /\ call \in [Readers -> {"none", "open", "recv", "seek"}]
    /\ rfile \in [Readers -> 0..used]
    /\ rsize \in [Readers -> Nat]
    /\ stride \in [Readers -> Nat]
    /\ resume \in [Readers -> Steps \cup {"none", "idle"}]
    /\ lastSeen \in [Readers -> 0..MaxSeq + 1]
    /\ attempt \in [Readers -> 1..Attempts]
    /\ producer \in [Readers -> 0..MaxSeq]
    /\ rnext \in [Readers -> 0..MaxSeq + 2]

\* The header is read while it is being written, but recv never divides by a
\* slot_count that was not written yet: the frame it looks for was counted after
\* the whole header was there.
SlotCountIsSet ==
    \A r \in Readers : rpc[r] \in {"seq", "copy"} => file[rfile[r]].slotCount # 0

\* "we never mmap an uninitialised file and so can't be SIGBUS'd by a later
\* producer ftruncate" (raccoon_ring.c:484-485): recv touches nothing past the end
\* of its mapping or of the file.
AccessInBounds == \A r \in Readers : rpc[r] \in {"seq", "copy"} => InBounds(r)

\* So it is as long as every incarnation of the producer wants the same layout,
\* whatever is unlinked, re-created or still being written meanwhile.
SameLayoutInBounds == relaid \/ AccessInBounds

Ready == wpc = "idle" /\ path = wfile

Current(r) == /\ Ready
              /\ rfile[r] = wfile
              /\ stride[r] = file[wfile].slotSize
              /\ lastSeen[r] = file[wfile].producerSeq

\* Once a producer stays with the file the path names, a subscriber that polls,
\* does not seek any more (subscribeRaw does once) and has not died ends up in that
\* file, with its layout, and sees every frame ("old readers see no new data ...
\* triggers a transparent re-attach", raccoon_ring.c:463-466, and the grow
\* detection at 546-564).
ReachesProducer ==
    \A r \in Readers :
        <>[](Ready /\ call[r] # "seek") => []<>(Current(r) \/ rpc[r] \in {"closed", "dead"})
====
