---- MODULE MCDartTransport ----
(* The instance of DartTransport that TLC checks. *)
EXTENDS DartTransport, TLC, Bitwise

CONSTANTS p1, p2

\* Two processes on different hosts, whose hashes differ in the last bit: the first
\* message of each meets the second try of the other's.
Processes == {p1, p2}
Hashes == (p1 :> 4) @@ (p2 :> 5)
XorBits(a, b) == a ^^ b
Retries == (<<p1, 1>> :> 2) @@ (<<p2, 1>> :> 1)
DataSizes == (p1 :> {1}) @@ (p2 :> {1, 2})
====
