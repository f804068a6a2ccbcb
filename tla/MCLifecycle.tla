---- MODULE MCLifecycle ----
(* The instances of Lifecycle that TLC checks. *)
EXTENDS Lifecycle

CONSTANTS u1, u2, c1, c2

OneUser == {u1}
TwoUsers == {u1, u2}
OwnChannel == {c1}
RemoteChannel == {c2}
====
