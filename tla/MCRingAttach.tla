---- MODULE MCRingAttach ----
(* The instances of RingAttach that TLC checks.  The hints 1, 3 and 5 make   *)
(* rings of 4, 2 and 2 slots that take 25, 21 and 29 units: as with the      *)
(* sizes of the code, a ring for larger payloads may be a smaller file.      *)
EXTENDS RingAttach

CONSTANTS r1

OneReader == {r1}
SomeHints == {1, 3, 5}
====
