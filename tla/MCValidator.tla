----------------------------- MODULE MCValidator -----------------------------
(***************************************************************************)
(* The slashing protection databases of the validator, the slasher, and    *)
(* the fork choice tree while justified balances cannot always be read.    *)
(* They share no state: a behaviour picks one of them and leaves the       *)
(* others at rest, so that one run explores each of them completely.       *)
(***************************************************************************)
EXTENDS MCForkChoiceTree, AttesterProtection, ProposerProtection, MinimalProtection,
        Slasher

CONSTANTS k1, k2

VARIABLE part  \* what this behaviour is about

Vote(s, t, b) == [source |-> s, target |-> t, block |-> b]

\* Three epochs, the last vote surrounding the second, and a double vote.
Surround == {Vote(0, 1, "a"), Vote(1, 2, "a"), Vote(1, 2, "b"), Vote(0, 3, "a")}

\* The second key votes once: its flush may answer the first.
ThreeThenOne == (k1 :> 3) @@ (k2 :> 1)

\* Every vote of three epochs, two blocks per target.
Votes == {a \in [source : 0 .. 2, target : 1 .. 3, block : {"a", "b"}] : a.source < a.target}

\* Two blocks for each of two slots, and of three epochs of two slots.
TwoSlots == [slot : 1 .. 2, block : {"a", "b"}]
SixSlots == [slot : 0 .. 5, block : {"a", "b"}]

(***************************************************************************)
(* Slasher: votes that surround and are surrounded within a chunk of two  *)
(* epochs and across chunks, double votes, and votes of the second round   *)
(* of the circular array of six epochs.                                    *)
(***************************************************************************)
Att(s, t, b, vs) == [source |-> s, target |-> t, block |-> b, indices |-> vs]
Atts == {Att(1, 5, "a", {0}), Att(3, 4, "a", {0, 1}), Att(3, 4, "b", {0}),
         Att(4, 5, "a", {0}), Att(6, 7, "a", {0})}

MCInit ==
  /\ part \in {"attester", "proposer", "minimal", "slasher", "tree"}
  /\ AttesterInit /\ ProposerInit /\ MinimalInit /\ SlasherInit /\ Init
  /\ part # "tree" => store.optimistic = {}

MCNext ==
  \/ /\ part = "attester" /\ AttesterNext
     /\ UNCHANGED <<part, proposerVars, minimalVars, slasherVars, vars>>
  \/ /\ part = "proposer" /\ ProposerNext
     /\ UNCHANGED <<part, attesterVars, minimalVars, slasherVars, vars>>
  \/ /\ part = "minimal" /\ MinimalNext
     /\ UNCHANGED <<part, attesterVars, proposerVars, slasherVars, vars>>
  \/ /\ part = "slasher" /\ SlasherNext
     /\ UNCHANGED <<part, attesterVars, proposerVars, minimalVars, vars>>
  \/ /\ part = "tree" /\ Next
     /\ UNCHANGED <<part, attesterVars, proposerVars, minimalVars, slasherVars>>

MCSpec ==
  MCInit /\ [][MCNext]_<<part, attesterVars, proposerVars, minimalVars, slasherVars, vars>>
==============================================================================
