------------------------------ MODULE MCBeacon ------------------------------
(***************************************************************************)
(* Two parts of fork choice that share no state: the tree with an engine   *)
(* whose answers are arbitrary, and votes and head.  A behaviour picks one *)
(* of them and leaves the other at rest, so that one run explores each     *)
(* completely.                                                             *)
(***************************************************************************)
EXTENDS MCForkChoiceTree, ForkChoiceVotes

VARIABLE part  \* what this behaviour is about

(***************************************************************************)
(* Votes: g-f-a and two tips, b and c, of which only b votes with the      *)
(* second checkpoint; adopting it changes the balances of both voters and  *)
(* finalizes f.                                                            *)
(***************************************************************************)
VBlocks == {"g", "f", "a", "b", "c"}
VParent == [f |-> "g", a |-> "f", b |-> "a", c |-> "a"]
VSlot   == [g |-> 0, f |-> 2, a |-> 4, b |-> 6, c |-> 5]
VSource == [g |-> 0, f |-> 0, a |-> 0, b |-> 2, c |-> 0]
VRank   == [g |-> 1, f |-> 2, a |-> 3, b |-> 5, c |-> 4]
VCheckpoints ==
  <<[epoch |-> 0, root |-> "g", finalized |-> "g", balances |-> <<10, 20>>],
    [epoch |-> 2, root |-> "a", finalized |-> "f", balances |-> <<20, 10>>]>>

MCInit ==
  /\ part \in {"tree", "votes"}
  /\ Init /\ VotesInit
  /\ part # "tree" => store.optimistic = {}

MCNext ==
  \/ part = "tree" /\ Next /\ UNCHANGED <<part, voteVars>>
  \/ part = "votes" /\ VotesNext /\ UNCHANGED <<part, vars>>

MCSpec == MCInit /\ [][MCNext]_<<part, vars, voteVars>>
=============================================================================
