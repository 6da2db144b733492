---------------------------- MODULE Justification ----------------------------
(***************************************************************************)
(* The justification and finalization of epochs by a beacon state          *)
(* (core/epoch/precompute/justification_finalization.go), run on the last  *)
(* slot of each epoch.                                                     *)
(*                                                                         *)
(* The state belongs to one chain, on which an epoch has one checkpoint: a *)
(* checkpoint is its epoch.  The balances that voted for the target of the *)
(* current and of the previous epoch are inputs.  An attestation is only   *)
(* counted when its source is the state's current justified checkpoint, if *)
(* its target is the current epoch, or the previous justified one, if its  *)
(* target is the previous epoch (core/blocks/attestation.go).  So two      *)
(* thirds of the balance make a supermajority link between two epochs; the *)
(* links and the epochs they justify are kept as history.                  *)
(***************************************************************************)
EXTENDS Integers

CONSTANTS
  TotalActiveBalance,  \* of every epoch
  MaxJustifyEpoch      \* bound: the last epoch that is processed

ASSUME JustificationAssumption ==
  TotalActiveBalance \in Nat \ {0} /\ MaxJustifyEpoch \in Nat

VARIABLES
  currentEpoch,       \* the epoch of the state, not yet processed
  justificationBits,  \* bit i: epoch currentEpoch - 1 - i is justified
  previousJustified, currentJustified, finalized,
  links,              \* history: <<source, target>> with two thirds of the balance
  justifiedEpochs     \* history: genesis and the targets of the links

justificationVars == <<currentEpoch, justificationBits, previousJustified, currentJustified,
                       finalized, links, justifiedEpochs>>

Supermajority(balance) == 3 * balance >= 2 * TotalActiveBalance

\* processJustificationBits
NewBits(previousBalance, currentBalance) ==
  [i \in 0 .. 3 |->
     CASE i = 0 -> Supermajority(currentBalance)
       [] i = 1 -> justificationBits[0] \/ Supermajority(previousBalance)
       [] OTHER -> justificationBits[i - 1]]

\* Mutant: the previous epoch takes precedence.
Justified_PreviousFirst(bits) ==
  IF bits[1] THEN currentEpoch - 1
  ELSE IF bits[0] THEN currentEpoch
  ELSE currentJustified

\* The justified checkpoint of computeCheckpoints.
Justified(bits) ==
  IF bits[0] /\ currentEpoch >= currentJustified THEN currentEpoch
  ELSE IF bits[1] /\ currentEpoch - 1 >= currentJustified THEN currentEpoch - 1
  ELSE currentJustified

\* Mutant: two epochs apart without the one between them.
Finalized_SkipsMiddle(bits) ==
  IF bits[0] /\ bits[1] /\ currentJustified + 1 = currentEpoch THEN currentJustified
  ELSE IF bits[0] /\ bits[2] /\ currentJustified + 2 = currentEpoch THEN currentJustified
  ELSE IF bits[1] /\ bits[2] /\ previousJustified + 2 = currentEpoch THEN previousJustified
  ELSE IF bits[1] /\ bits[2] /\ bits[3] /\ previousJustified + 3 = currentEpoch THEN previousJustified
  ELSE finalized

\* Mutant: the checkpoint justified by this transition is finalized, not the one before it.
Finalized_New(bits) ==
  IF bits[0] /\ bits[1] /\ currentJustified + 1 = currentEpoch THEN currentEpoch
  ELSE IF bits[0] /\ bits[1] /\ bits[2] /\ currentJustified + 2 = currentEpoch THEN currentEpoch
  ELSE IF bits[1] /\ bits[2] /\ previousJustified + 2 = currentEpoch THEN previousJustified
  ELSE IF bits[1] /\ bits[2] /\ bits[3] /\ previousJustified + 3 = currentEpoch THEN previousJustified
  ELSE finalized

\* The finalized checkpoint of computeCheckpoints; a later rule overrides an earlier one.
Finalized(bits) ==
  IF bits[0] /\ bits[1] /\ currentJustified + 1 = currentEpoch THEN currentJustified
  ELSE IF bits[0] /\ bits[1] /\ bits[2] /\ currentJustified + 2 = currentEpoch THEN currentJustified
  ELSE IF bits[1] /\ bits[2] /\ previousJustified + 2 = currentEpoch THEN previousJustified
  ELSE IF bits[1] /\ bits[2] /\ bits[3] /\ previousJustified + 3 = currentEpoch THEN previousJustified
  ELSE finalized

(* UnrealizedCheckpoints: what the fork choice computes for a block in the  *)
(* middle of an epoch, from the votes the block's state has counted so far. *)
UnrealizedJustified(previousBalance, currentBalance) ==
  IF currentEpoch <= 1 THEN currentJustified ELSE Justified(NewBits(previousBalance, currentBalance))
UnrealizedFinalized(previousBalance, currentBalance) ==
  IF currentEpoch <= 1 THEN finalized ELSE Finalized(NewBits(previousBalance, currentBalance))

(* The links the votes of the state's two epochs amount to. *)
NewLinks(previousBalance, currentBalance) ==
  {l \in {<<previousJustified, currentEpoch - 1>>, <<currentJustified, currentEpoch>>} :
     3 * (IF l[2] = currentEpoch THEN currentBalance ELSE previousBalance) >= 2 * TotalActiveBalance}

(* ProcessJustificationAndFinalizationPreCompute returns early up to the    *)
(* first slot of epoch 2: epochs 0 and 1 end before it.                     *)
EarlyEpoch ==
  /\ currentEpoch < 2
  /\ currentEpoch' = currentEpoch + 1
  /\ UNCHANGED <<justificationBits, previousJustified, currentJustified, finalized, links,
                 justifiedEpochs>>

ProcessEpoch(previousBalance, currentBalance) ==
  /\ currentEpoch >= 2
  /\ currentEpoch <= MaxJustifyEpoch
  /\ LET bits == NewBits(previousBalance, currentBalance)
     IN  /\ justificationBits' = bits
         /\ previousJustified' = currentJustified
         /\ currentJustified' = Justified(bits)
         /\ finalized' = Finalized(bits)
  /\ links' = links \cup NewLinks(previousBalance, currentBalance)
  /\ justifiedEpochs' = justifiedEpochs \cup {l[2] : l \in NewLinks(previousBalance, currentBalance)}
  /\ currentEpoch' = currentEpoch + 1

JustificationInit ==
  /\ currentEpoch = 0
  /\ justificationBits = [i \in 0 .. 3 |-> FALSE]
  /\ previousJustified = 0 /\ currentJustified = 0 /\ finalized = 0
  /\ links = {}
  /\ justifiedEpochs = {0}

JustificationNext ==
  \/ EarlyEpoch
  \/ \E previousBalance, currentBalance \in 0 .. TotalActiveBalance :
        ProcessEpoch(previousBalance, currentBalance)

JustificationSpec == JustificationInit /\ [][JustificationNext]_justificationVars

-----------------------------------------------------------------------------
(* Properties *)

(* A finalized epoch is the source of a supermajority link to one of the   *)
(* next two epochs, and every epoch from source to target is justified:    *)
(* the bits and the two justified epochs are enough to tell, although the  *)
(* state does not keep the links (computeCheckpoints).                     *)
FinalizedByLink ==
  finalized # 0 =>
    \E k \in {1, 2} : /\ <<finalized, finalized + k>> \in links
                      /\ \A e \in finalized .. finalized + k : e \in justifiedEpochs

(* Every justified epoch is the target of a link from an earlier justified *)
(* epoch, so that a chain of links leads back to genesis.                  *)
JustifiedByLink ==
  \A t \in justifiedEpochs \ {0} : \E s \in justifiedEpochs : s < t /\ <<s, t>> \in links

(* The checkpoints of the state are justified epochs in their order, the   *)
(* current justified one is the latest of all, and the current epoch is    *)
(* ahead of them.                                                          *)
CheckpointsInOrder ==
  /\ finalized <= previousJustified /\ previousJustified <= currentJustified
  /\ {finalized, previousJustified, currentJustified} \subseteq justifiedEpochs
  /\ \A e \in justifiedEpochs : e <= currentJustified
  /\ currentJustified < currentEpoch \/ currentEpoch = 0

(* The unrealized checkpoints of a block are never ahead of those of a     *)
(* later block of the epoch, or of the epoch transition, on its chain:     *)
(* more votes only move both checkpoints forward.  The store realizes the  *)
(* unrealized checkpoints at the end of the epoch and must not overtake    *)
(* the states it will then see (UnrealizedCheckpoints, pullTips).          *)
UnrealizedIsBehind ==
  \A p2, c2 \in 0 .. TotalActiveBalance : \A p \in 0 .. p2, c \in 0 .. c2 :
    /\ UnrealizedJustified(p, c) <= UnrealizedJustified(p2, c2)
    /\ UnrealizedFinalized(p, c) <= UnrealizedFinalized(p2, c2)

(* No epoch transition takes finality or justification back.               *)
NeverTakenBack ==
  [][finalized' >= finalized /\ currentJustified' >= currentJustified]_justificationVars
=============================================================================
