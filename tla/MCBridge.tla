---- MODULE MCBridge ----
(* The instance of Bridge that TLC checks. *)
EXTENDS Bridge

CONSTANTS c1, c2, h1, h2, small, large

TwoChannels == {c1, c2}
TwoHandlers == {h1, h2}
SmallAndLarge == {small, large}
Frames == (c1 :> 2) @@ (c2 :> 1)
Sizes == (small :> 1) @@ (large :> 2)
====
