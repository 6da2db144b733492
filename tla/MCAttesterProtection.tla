------------------------ MODULE MCAttesterProtection ------------------------
EXTENDS AttesterProtection, TLC

CONSTANTS k1, k2

Vote(s, t, b) == [source |-> s, target |-> t, block |-> b]

\* Two epochs: double votes only.
TwoEpochs == {Vote(0, 1, "a"), Vote(0, 1, "b"), Vote(1, 2, "a"), Vote(0, 2, "b")}

\* The second key votes once: its flush may answer the first.
TwoThenOne == (k1 :> 2) @@ (k2 :> 1)
=============================================================================
