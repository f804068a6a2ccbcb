---- MODULE MCRing ----
(* The instances of Ring that TLC checks. *)
EXTENDS RingProperties

CONSTANTS r1

OneReader == {r1}
====
