---- MODULE MCReliable ----
(* The instance of Reliable that TLC checks. *)
EXTENDS Reliable

CONSTANTS s1, s2, c1, c2

TwoChannels == {c1, c2}
Crossed == {<<s1, c1>>, <<s2, c2>>}
Observer == {<<s2, c1>>}
====
