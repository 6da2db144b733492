------------------------------ MODULE Slashings ------------------------------
(***************************************************************************)
(* What counts as slashable: two attestations (core/blocks and the         *)
(* slashings package), or two block proposals, of one validator.           *)
(***************************************************************************)
EXTENDS Integers

IsSurround(a, b) == a.source < b.source /\ b.target < a.target

IsDoubleVote(a, b) == a # b /\ a.target = b.target

IsSlashableAttestationData(a, b) == IsDoubleVote(a, b) \/ IsSurround(a, b)

IsDoubleProposal(a, b) == a # b /\ a.slot = b.slot
=============================================================================
