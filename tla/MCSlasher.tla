----------------------------- MODULE MCSlasher -----------------------------
(***************************************************************************)
(* Attestations for the slasher on which it disagrees with its             *)
(* documentation.                                                          *)
(***************************************************************************)
EXTENDS Slasher

Att(s, t, b, vs) == [source |-> s, target |-> t, block |-> b, indices |-> vs]

\* In the second round of a circular array of six epochs, the first vote
\* surrounds the second; their sources lie in two chunks.
SecondRound == {Att(5, 9, "a", {0}), Att(7, 8, "a", {0})}

\* In the first round, both in one batch; their sources lie in two chunks.
SingleStep == {Att(3, 4, "a", {0}), Att(0, 5, "a", {0})}

\* Validator 0 signs a surround vote; validator 1 signs the data of one of
\* the two.
SharedData == {Att(0, 3, "a", {0}), Att(1, 2, "a", {0}), Att(1, 2, "a", {1})}
=============================================================================
