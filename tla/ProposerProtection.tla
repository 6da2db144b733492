------------------------- MODULE ProposerProtection -------------------------
(***************************************************************************)
(* The complete slashing protection of block proposals (validator/db/kv).  *)
(* ProposeBlock holds a lock per key: it checks the block against the      *)
(* signed blocks of the key, saves it, prunes what is older than the weak  *)
(* subjectivity period, and only then submits the block.                   *)
(* A signing root, a hash of the block, is the proposal itself.            *)
(***************************************************************************)
EXTENDS Slashings

CONSTANTS ProposerKeys,
          Proposals,              \* block proposals, with slot and block
          SlotsPerEpoch,
          WeakSubjectivityPeriod  \* in epochs

ASSUME ProposerAssumption ==
  /\ Proposals \subseteq [slot : Nat, block : STRING]
  /\ SlotsPerEpoch \in Nat \ {0}
  /\ WeakSubjectivityPeriod \in Nat \ {0}

VARIABLES
  signed,    \* signed[k]: historicProposalsBucket of the key
  lowest,    \* lowestSignedProposalsBucket
  highest,   \* highestSignedProposalsBucket
  pending,   \* pending[k]: the proposal, if any, saved and not yet submitted
  submitted   \* submitted[k]: blocks handed to the beacon node

proposerVars == <<signed, lowest, highest, pending, submitted>>

\* A slot of a bucket without an entry for the key.
NoSlot == -1

ToEpoch(slot) == slot \div SlotsPerEpoch

\* A slot is a weak subjectivity period older than the newest one.
IsOld(slot, newest) == ToEpoch(slot) + WeakSubjectivityPeriod <= ToEpoch(newest)

ProposerInit ==
  /\ signed = [k \in ProposerKeys |-> {}]
  /\ lowest = [k \in ProposerKeys |-> NoSlot]
  /\ highest = [k \in ProposerKeys |-> NoSlot]
  /\ pending = [k \in ProposerKeys |-> {}]
  /\ submitted = [k \in ProposerKeys |-> {}]

\* Is there an entry for the slot of b, and is it the one of b?
ProposalAtSlotExists(k, b) == \E p \in signed[k] : p.slot = b.slot

\* Mutant of IsSafeProposal: only the lowest slot is protected.
IsSafeProposal_LowestOnly(k, b) ==
  lowest[k] # NoSlot => b.slot >= lowest[k] /\ (b.slot = lowest[k] => b \in signed[k])

\* Nothing in the buckets of the key forbids the block.
IsSafeProposal(k, b) ==
  /\ lowest[k] # NoSlot => b.slot >= lowest[k] /\ (b.slot = lowest[k] => b \in signed[k])
  /\ ProposalAtSlotExists(k, b) => b \in signed[k]

\* pruneProposalHistoryBySlot after a block of slot newest was saved.
Prunable(slot, newest) == ToEpoch(slot) + WeakSubjectivityPeriod <= ToEpoch(newest)

\* SaveProposalHistoryForSlot: one transaction.
SaveProposal(k, b) ==
  /\ signed' = [signed EXCEPT ![k] =
                  {p \in {q \in @ : q.slot # b.slot} \union {b} : ~Prunable(p.slot, b.slot)}]
  /\ lowest' = [lowest EXCEPT ![k] = IF @ = NoSlot \/ b.slot < @ THEN b.slot ELSE @]
  /\ highest' = [highest EXCEPT ![k] = IF b.slot > @ THEN b.slot ELSE @]

\* SlashableProposalCheck of a block that passes.  Blocks are submitted for
\* slots that are not a weak subjectivity period older than the newest.
CheckProposal(k, b) ==
  /\ pending[k] = {}
  /\ ~IsOld(b.slot, highest[k])
  /\ IsSafeProposal(k, b)
  /\ SaveProposal(k, b)
  /\ pending' = [pending EXCEPT ![k] = {b}]
  /\ UNCHANGED submitted

\* ProposeBeaconBlock.
SubmitProposal(k) ==
  /\ pending[k] # {}
  /\ submitted' = [submitted EXCEPT ![k] = @ \union pending[k]]
  /\ pending' = [pending EXCEPT ![k] = {}]
  /\ UNCHANGED <<signed, lowest, highest>>

\* The process stops: what was saved and not submitted is never submitted.
ProposerCrash ==
  /\ pending' = [k \in ProposerKeys |-> {}]
  /\ UNCHANGED <<signed, lowest, highest, submitted>>

ProposerNext ==
  \/ \E k \in ProposerKeys, b \in Proposals : CheckProposal(k, b)
  \/ \E k \in ProposerKeys : SubmitProposal(k)
  \/ ProposerCrash

ProposerSpec == ProposerInit /\ [][ProposerNext]_proposerVars

-----------------------------------------------------------------------------
(* Properties. *)

\* The variables have the types of their declarations; at most one check
\* of a key is between its save and its submission.
ProposerTypeOK ==
  /\ signed \in [ProposerKeys -> SUBSET Proposals]
  /\ lowest \in [ProposerKeys -> Nat \union {NoSlot}]
  /\ highest \in [ProposerKeys -> Nat \union {NoSlot}]
  /\ pending \in [ProposerKeys -> {{}} \union {{b} : b \in Proposals}]
  /\ submitted \in [ProposerKeys -> SUBSET Proposals]

\* Whatever was submitted is in the database until it is older than the weak
\* subjectivity period: pruneProposalHistoryBySlot deletes nothing younger.
RecentAreKept ==
  \A k \in ProposerKeys : \A b \in submitted[k] \union pending[k] :
    b \in signed[k] \/ IsOld(b.slot, highest[k])

\* SlashableProposalCheck implements slashing protection: no second block is
\* submitted for a slot of a key.
ProposalHistory == INSTANCE SigningHistory
  WITH PubKeys <- ProposerKeys, Messages <- Proposals, published <- submitted, Slashable <- IsDoubleProposal
NoSecondProposal == ProposalHistory!Spec
=============================================================================
