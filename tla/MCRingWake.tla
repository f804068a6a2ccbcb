---- MODULE MCRingWake ----
(* The instances of RingWake that TLC checks. *)
EXTENDS RingWake

CONSTANTS r1, r2

OneWaiter == {r1}
OneMulti == {r2}
Nobody == {}
====
