---- MODULE MCPyTransport ----
(* The instances of PyTransport that TLC checks. *)
EXTENDS PyTransport

CONSTANTS t1, t2

\* t1 publishes reliably for t2, and t2 retained values for t1.
Both == {t1, t2}
Sender == {t1}
Receiver == {t2}
OptionEach == (t1 :> {{"reliable"}}) @@ (t2 :> {{"retained"}})
TwoAndOne == (t1 :> 2) @@ (t2 :> 1)
Retries == (<<t1, 1>> :> 2) @@ (<<t1, 2>> :> 1) @@ (<<t2, 1>> :> 1)

\* One transport that talks to itself, as in the unit tests.
Alone == {t1}
BothOptions == t1 :> SUBSET {"reliable", "retained"}
One == t1 :> 1
Twice == <<t1, 1>> :> 2
====
