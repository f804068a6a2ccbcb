---- MODULE RingLog ----
(***************************************************************************)
(* What one channel promises while its producer is not restarted: an       *)
(* append-only log of frames, and for every reader a cursor that moves     *)
(* forward.  A reader that the producer has not lapped is handed the next  *)
(* frame; a reader that was lapped may lose frames, never an old or a      *)
(* mixed one.  Ring implements this specification with a SeqLock per slot  *)
(* of a fixed array.                                                       *)
(***************************************************************************)
EXTENDS Integers

CONSTANTS Readers,  \* the subscribers of the channel
          Capacity  \* a reader with fewer unread frames loses none

VARIABLES length,   \* frames published so far; frame n is the n-th
          cursor,   \* cursor[r]: the next frame owed to reader r
          out       \* out[r]: the frame handed to r last, 0 before the first

logVars == <<length, cursor, out>>

LogInit == /\ length = 0
           /\ cursor = [r \in Readers |-> 1]
           /\ out = [r \in Readers |-> 0]

Publish == /\ length' = length + 1
           /\ UNCHANGED <<cursor, out>>

Unread(r) == length + 1 - cursor[r]

\* Frame n is handed over whole; frames before it may be lost only when the
\* reader has let the unread frames fill the ring.
Deliver(r) == \E n \in cursor[r]..length :
    /\ n > cursor[r] => Unread(r) >= Capacity
    /\ out' = [out EXCEPT ![r] = n]
    /\ cursor' = [cursor EXCEPT ![r] = n + 1]
    /\ UNCHANGED length

\* The reader asks for the newest frame instead of the oldest one.
SeekToLatest(r) ==
    /\ cursor' = [cursor EXCEPT ![r] = IF length > 0 THEN length ELSE 1]
    /\ UNCHANGED <<length, out>>

LogNext == Publish \/ \E r \in Readers : Deliver(r) \/ SeekToLatest(r)

LogSpec == LogInit /\ [][LogNext]_logVars
====
