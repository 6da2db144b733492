---------------------- MODULE ForkChoiceFinalityProofs ----------------------
(***************************************************************************)
(* Proofs about the finalized checkpoint of ForkChoiceTree: it only moves  *)
(* forward, along one chain, and blocks leave the store only if they are   *)
(* dead.                                                                   *)
(*                                                                         *)
(* updateUnrealizedCheckpoints replaces the finalized checkpoint by the    *)
(* store's unrealized one whenever SOME node is ahead of it, without       *)
(* comparing the two checkpoints.  That this never goes back rests on an   *)
(* invariant no line of the code states: no node is ahead of both.  A      *)
(* batch import that fails to read the justified balances breaks it, so    *)
(* the theorems exclude that combination.                                  *)
(***************************************************************************)
EXTENDS ForkChoiceTreeProofs

\* Most leaves are first-order; the solver takes the arithmetic ones.
USE ZenonT(10), SMTT(20), ZenonT(30), SMTT(40)

StartCheckpoint == [epoch |-> AnchorEpoch, root |-> Anchor]

NoCheckpoint == [epoch |-> 0, root |-> ZeroHash]

(* Node n is not ahead of both checkpoints.                                *)
NotAhead(S, n) ==
    \/ S.unrealizedFinalizedEpoch[n] <= S.finalizedCheckpoint.epoch
    \/ S.unrealizedFinalizedEpoch[n] <= S.unrealizedFinalizedCheckpoint.epoch

Provenance(S) ==
    /\ S.finalizedCheckpoint \in FinalizedCheckpoints
    /\ S.unrealizedFinalizedCheckpoint \in {NoCheckpoint} \cup {UF[b] : b \in Block}

FinalSound(S) == Provenance(S) /\ \A n \in S.nodeByRoot : NotAhead(S, n)

(* A step may leave the finalized checkpoint, or take a later one.         *)
Advances(S, T) ==
    \/ T.finalizedCheckpoint = S.finalizedCheckpoint
    \/ /\ T.finalizedCheckpoint \in FinalizedCheckpoints
       /\ T.finalizedCheckpoint.epoch > S.finalizedCheckpoint.epoch

(* T has no nodes that S has not, and the same unrealized finality.        *)
SameUnrealized(S, T) ==
    /\ T.nodeByRoot \subseteq S.nodeByRoot
    /\ T.unrealizedFinalizedEpoch = S.unrealizedFinalizedEpoch
    /\ T.unrealizedFinalizedCheckpoint = S.unrealizedFinalizedCheckpoint

-----------------------------------------------------------------------------
(* The checkpoints of blocks *)

(* A checkpoint that can be finalized is one, no older than the anchor.    *)
LEMMA FinalizedType ==
    ASSUME NEW c \in FinalizedCheckpoints
    PROVE  /\ c \in Checkpoint /\ c.epoch \in Nat /\ c.epoch >= AnchorEpoch
           /\ c.root \in Block
<1>1. AnchorEpoch \in Nat /\ Anchor \in Block
  BY ConstantTypes
<1>2. CASE c = StartCheckpoint
  BY <1>1, <1>2, SMT, SMTT(20) DEF StartCheckpoint, Checkpoint, Root
<1>3. ASSUME NEW b \in Block, UF[b].epoch >= AnchorEpoch, c = UF[b]
      PROVE  /\ c \in Checkpoint /\ c.epoch \in Nat /\ c.epoch >= AnchorEpoch
             /\ c.root \in Block
  <2>1. c \in Checkpoint /\ c.epoch \in Nat
    BY <1>3, CheckpointTypes DEF Checkpoint
  <2>2. IF c.epoch < AnchorEpoch THEN c.root = ZeroHash
        ELSE IsCheckpointBlock(c.root, b, c.epoch)
    BY <1>3, CheckpointsOfTheState
  <2>3. c.root \in Chain[b]
    BY <1>1, <1>3, <2>1, <2>2, SMT, SMTT(20) DEF IsCheckpointBlock
  <2> QED
    BY <1>1, <1>3, <2>1, <2>3, ChainFacts
<1> QED
  BY <1>2, <1>3 DEF FinalizedCheckpoints, StartCheckpoint

(* The anchor's checkpoint and an unrealized one after it can be finalized. *)
LEMMA CanBeFinalized ==
    /\ StartCheckpoint \in FinalizedCheckpoints
    /\ \A b \in Block : UF[b].epoch > AnchorEpoch => UF[b] \in FinalizedCheckpoints
<1>1. StartCheckpoint \in FinalizedCheckpoints
  BY DEF StartCheckpoint, FinalizedCheckpoints
<1>2. ASSUME NEW b \in Block, UF[b].epoch > AnchorEpoch
      PROVE  UF[b] \in FinalizedCheckpoints
  <2>1. UF[b].epoch >= AnchorEpoch
    BY <1>2, ConstantTypes, CheckpointTypes, SMT, SMTT(20) DEF Checkpoint
  <2> QED
    BY <2>1 DEF FinalizedCheckpoints
<1> QED
  BY <1>1, <1>2

(* Accountable safety, for all checkpoints that can be finalized.          *)
LEMMA FinalizedAgree ==
    ASSUME NEW c \in FinalizedCheckpoints, NEW d \in FinalizedCheckpoints, d.epoch > c.epoch
    PROVE  c.root \in Chain[d.root]
  BY FinalityIsSafe DEF JustifiedCheckpoints, IsCheckpointBlock

(* The finalized checkpoint of a post-state is the anchor's or an          *)
(* unrealized one of an ancestor, so it can be finalized if it is later    *)
(* than the anchor's.                                                      *)
LEMMA RealizedAreFinal ==
    ASSUME NEW b \in Block, FC[b].epoch > AnchorEpoch
    PROVE  FC[b] \in FinalizedCheckpoints
<1> DEFINE odd == {x \in Block : FC[x].epoch > AnchorEpoch /\ \A c \in Block : FC[x] # UF[c]}
<1>1. Anchor \notin odd
  <2>1. FC[Anchor].epoch <= JC[Anchor].epoch /\ JC[Anchor].epoch <= AnchorEpoch
    BY CheckpointsOfTheState
  <2>2. /\ FC[Anchor].epoch \in Nat /\ JC[Anchor].epoch \in Nat /\ AnchorEpoch \in Nat
    BY ConstantTypes, CheckpointTypes DEF Checkpoint
  <2> QED
    BY <2>1, <2>2, SMT, SMTT(20)
<1>2. \A x \in odd \ {Anchor} : Parent[x] \in odd
  <2> SUFFICES ASSUME NEW x \in odd \ {Anchor}
               PROVE  Parent[x] \in odd
    OBVIOUS
  <2>1. Parent[x] \in Block
    BY BlocksFormATree
  <2>2. FC[x] = FC[Parent[x]] \/ FC[x] = UF[Parent[x]]
    BY CheckpointsOfTheState
  <2> QED
    BY <2>1, <2>2
<1>3. b \notin odd
  <2> SUFFICES ASSUME b \in odd
               PROVE  FALSE
    OBVIOUS
  <2>1. Chain[b] \subseteq odd
    BY <1>2, ChainLeast
  <2> QED
    BY <1>1, <2>1, BlocksFormATree
<1> QED
  BY <1>3, CanBeFinalized

-----------------------------------------------------------------------------
(* What the operations do to finality *)

(* All epochs that are compared are natural numbers.                       *)
LEMMA EpochsAreNat ==
    ASSUME NEW S \in Store
    PROVE  /\ S.finalizedCheckpoint.epoch \in Nat
           /\ S.unrealizedFinalizedCheckpoint.epoch \in Nat
           /\ \A n \in Block : S.unrealizedFinalizedEpoch[n] \in Nat
           /\ S.nodeByRoot \subseteq Block
  BY DEF Store, Checkpoint

(* Nodes may leave and the finalized checkpoint may advance.               *)
LEMMA FinalSoundFrame ==
    ASSUME NEW S \in Store, NEW T \in Store, FinalSound(S),
           SameUnrealized(S, T), Advances(S, T)
    PROVE  FinalSound(T)
<1>1. Provenance(T)
  BY DEF FinalSound, Provenance, SameUnrealized, Advances
<1>2. T.finalizedCheckpoint.epoch >= S.finalizedCheckpoint.epoch
  BY EpochsAreNat, SMT, SMTT(20) DEF Advances
<1>3. ASSUME NEW n \in T.nodeByRoot
      PROVE  NotAhead(T, n)
  <2>1. n \in S.nodeByRoot /\ n \in Block
    BY EpochsAreNat DEF SameUnrealized
  <2>2. NotAhead(S, n)
    BY <2>1 DEF FinalSound
  <2> QED
    BY <1>2, <2>1, <2>2, EpochsAreNat, SMT, SMTT(20) DEF NotAhead, SameUnrealized
<1> QED
  BY <1>1, <1>3 DEF FinalSound

(* Store.prune moves no checkpoint and no node's unrealized epochs.        *)
LEMMA PruneFinality ==
    ASSUME NEW S \in Store
    PROVE  /\ SameUnrealized(S, Prune(S))
           /\ Prune(S).finalizedCheckpoint = S.finalizedCheckpoint
<1>1. CASE PruneFails(S) \/ S.parent[S.finalizedCheckpoint.root] = ZeroHash
  BY <1>1 DEF Prune, SameUnrealized
<1>2. CASE ~(PruneFails(S) \/ S.parent[S.finalizedCheckpoint.root] = ZeroHash)
  <2>1. /\ Prune(S).nodeByRoot \subseteq S.nodeByRoot
        /\ Prune(S).unrealizedFinalizedEpoch = S.unrealizedFinalizedEpoch
        /\ Prune(S).unrealizedFinalizedCheckpoint = S.unrealizedFinalizedCheckpoint
        /\ Prune(S).finalizedCheckpoint = S.finalizedCheckpoint
    BY <1>2 DEF Prune, Store
  <2> QED
    BY <2>1 DEF SameUnrealized
<1> QED
  BY <1>1, <1>2

(* Store.removeNode moves no checkpoint and no node's unrealized epochs.   *)
LEMMA RemoveNodeFinality ==
    ASSUME NEW S \in Store, NEW n \in Block
    PROVE  /\ SameUnrealized(S, RemoveNode(S, n))
           /\ RemoveNode(S, n).finalizedCheckpoint = S.finalizedCheckpoint
<1>1. CASE n \notin S.optimistic \/ S.parent[n] = ZeroHash
  BY <1>1 DEF RemoveNode, SameUnrealized
<1>2. CASE ~(n \notin S.optimistic \/ S.parent[n] = ZeroHash)
  <2>1. Removed(S, n, RemoveNode(S, n))
    BY <1>2, RemoveNodeFields, Zenon, ZenonT(20)
  <2> QED
    BY <2>1 DEF Removed, SameUnrealized
<1> QED
  BY <1>1, <1>2

(* Marking nodes as validated moves no checkpoint.                         *)
LEMMA ValidFinality ==
    ASSUME NEW S \in Store, NEW n \in Block
    PROVE  /\ SameUnrealized(S, SetOptimisticToValid(S, n))
           /\ SetOptimisticToValid(S, n).finalizedCheckpoint = S.finalizedCheckpoint
  BY DEF SetOptimisticToValid, SameUnrealized, Store

(* Removing invalid nodes moves no checkpoint.                             *)
LEMMA InvalidFinality ==
    ASSUME NEW S, Sound(S), NEW b \in Block, NEW lvh \in Root
    PROVE  /\ SameUnrealized(S, SetOptimisticToInvalid(S, b, lvh))
           /\ SetOptimisticToInvalid(S, b, lvh).finalizedCheckpoint = S.finalizedCheckpoint
<1>1. S \in Store /\ S.nodeByRoot \subseteq Block
  BY DEF Sound, Store
<1>2. \/ SetOptimisticToInvalid(S, b, lvh) = S
      \/ \E n \in S.nodeByRoot : SetOptimisticToInvalid(S, b, lvh) = RemoveNode(S, n)
  BY FirstInvalidKnown DEF SetOptimisticToInvalid
<1> QED
  BY <1>1, <1>2, RemoveNodeFinality, SMT, SMTT(20) DEF SameUnrealized

(* updateCheckpoints finalizes a later checkpoint, unless the balances     *)
(* could not be read.                                                      *)
LEMMA UpdateFinality ==
    ASSUME NEW S \in Store, NEW jc \in Checkpoint, NEW fc \in Checkpoint, NEW ok \in BOOLEAN
    PROVE  /\ SameUnrealized(S, UpdateCheckpoints(S, jc, fc, ok))
           /\ UpdateCheckpoints(S, jc, fc, ok).finalizedCheckpoint =
                  IF (Justifies(S, jc) /\ ~ok) \/ ~Finalizes(S, fc)
                  THEN S.finalizedCheckpoint ELSE fc
<1> DEFINE J == SetJustified(S, jc)
           F == [J EXCEPT !.finalizedCheckpoint = fc]
           T == UpdateCheckpoints(S, jc, fc, ok)
<1>1. J \in Store /\ SameUnrealized(S, J) /\ J.finalizedCheckpoint = S.finalizedCheckpoint
  BY DEF SetJustified, SameUnrealized, Store
<1> HIDE DEF J
<1>2. F \in Store /\ SameUnrealized(J, F) /\ F.finalizedCheckpoint = fc
  BY <1>1 DEF SameUnrealized, Store
<1> HIDE DEF F
<1>3. CASE (Justifies(S, jc) /\ ~ok) \/ ~Finalizes(S, fc)
  <2>1. T = J
    BY <1>3 DEF UpdateCheckpoints, J
  <2> QED
    BY <1>1, <1>3, <2>1
<1>4. CASE ~((Justifies(S, jc) /\ ~ok) \/ ~Finalizes(S, fc))
  <2>1. T = Prune(F)
    BY <1>4 DEF UpdateCheckpoints, J, F
  <2>2. SameUnrealized(F, T) /\ T.finalizedCheckpoint = fc
    BY <1>2, <2>1, PruneFinality
  <2> HIDE DEF T
  <2>3. SameUnrealized(S, T)
    BY <1>1, <1>2, <2>2 DEF SameUnrealized
  <2> QED
    BY <1>4, <2>2, <2>3 DEF T
<1> QED
  BY <1>3, <1>4

(* When they could be read, the later of the two checkpoints is in force.  *)
LEMMA UpdateFinalizes ==
    ASSUME NEW S \in Store, NEW jc \in Checkpoint, NEW fc \in Checkpoint,
           NEW ok \in BOOLEAN, ok
    PROVE  /\ SameUnrealized(S, UpdateCheckpoints(S, jc, fc, ok))
           /\ Finalizes(S, fc) => UpdateCheckpoints(S, jc, fc, ok).finalizedCheckpoint = fc
           /\ ~Finalizes(S, fc) => UpdateCheckpoints(S, jc, fc, ok).finalizedCheckpoint
                                     = S.finalizedCheckpoint
  BY UpdateFinality

(* What the checkpoint updates of the code are called with.                *)
LEMMA UpdateAdvances ==
    ASSUME NEW S \in Store, NEW jc \in Checkpoint, NEW fc \in Checkpoint, NEW ok \in BOOLEAN,
           Provenance(S), fc.epoch > AnchorEpoch => fc \in FinalizedCheckpoints
    PROVE  Advances(S, UpdateCheckpoints(S, jc, fc, ok))
<1>1. UpdateCheckpoints(S, jc, fc, ok).finalizedCheckpoint \in {S.finalizedCheckpoint, fc}
  BY UpdateFinality
<1>2. UpdateCheckpoints(S, jc, fc, ok).finalizedCheckpoint = S.finalizedCheckpoint
          \/ Finalizes(S, fc)
  BY UpdateFinality
<1>3. /\ S.finalizedCheckpoint.epoch >= AnchorEpoch
      /\ S.finalizedCheckpoint.epoch \in Nat /\ fc.epoch \in Nat /\ AnchorEpoch \in Nat
  BY FinalizedType, ConstantTypes DEF Provenance, Checkpoint
<1>4. Finalizes(S, fc) => fc \in FinalizedCheckpoints
  BY <1>3, SMT, SMTT(20) DEF Finalizes
<1> QED
  BY <1>1, <1>2, <1>4 DEF Advances, Finalizes

(* I is S after the insertion of b, which alone may be ahead, and then by  *)
(* its realized epoch; b has a parent in the store, or was its root.       *)
OneAhead(S, b, I) ==
    /\ Provenance(I)
    /\ I.finalizedCheckpoint = S.finalizedCheckpoint
    /\ \A n \in I.nodeByRoot \ {b} : NotAhead(I, n)
    /\ NotAhead(I, b) \/ I.unrealizedFinalizedEpoch[b] = FC[b].epoch
    /\ I.parent[b] \in I.nodeByRoot \ {b} \/ (NotAhead(I, b) /\ I.parent[b] = ZeroHash)

(* Store.insert puts the new node ahead at most.                           *)
LEMMA InsertFinality ==
    ASSUME NEW S, Sound(S), FinalSound(S), NEW b \in Block \ {Anchor}, ~InsertFails(S, b)
    PROVE  OneAhead(S, b, Insert(S, b, JC[b].epoch, FC[b].epoch))
<1> DEFINE I == Insert(S, b, JC[b].epoch, FC[b].epoch)
<1>1. S \in Store /\ Linked(S) /\ S.nodeByRoot \subseteq Block
  BY DEF Sound, Store
<1>2. CASE b \in S.nodeByRoot
  <2>1. I = S
    BY <1>2 DEF Insert
  <2>2. S.parent[b] \in S.nodeByRoot \ {b} \/ S.parent[b] = ZeroHash
    <3>1. CASE b = S.treeRootNode
      BY <1>1, <3>1 DEF Linked
    <3>2. CASE b # S.treeRootNode
      <4>1. S.parent[b] = Parent[b] /\ Parent[b] \in S.nodeByRoot
        BY <1>1, <1>2, <3>2 DEF Linked
      <4>2. Slot[Parent[b]] < Slot[b] /\ Slot[b] \in Nat
        BY BlocksFormATree, ConstantTypes
      <4> QED
        BY <4>1, <4>2, SMT, SMTT(20)
    <3> QED
      BY <3>1, <3>2
  <2>3. OneAhead(S, b, S)
    BY <1>2, <2>2 DEF FinalSound, OneAhead
  <2> QED
    BY <2>1, <2>3
<1>3. CASE b \notin S.nodeByRoot
  <2>1. Parent[b] \in S.nodeByRoot
    BY <1>3 DEF InsertFails
  <2>2. JC[b].epoch \in Nat /\ FC[b].epoch \in Nat
    BY CheckpointTypes DEF Checkpoint
  <2>3. Inserted(S, b, FC[b].epoch, I)
    BY <1>1, <1>3, <2>1, <2>2, InsertFields, Zenon, ZenonT(20)
  <2> HIDE DEF I
  <2>4. Provenance(I) /\ I.finalizedCheckpoint = S.finalizedCheckpoint
    BY <2>3 DEF FinalSound, Provenance, Inserted
  <2>5. \A n \in I.nodeByRoot \ {b} : NotAhead(I, n)
    BY <1>1, <2>3 DEF FinalSound, NotAhead, Inserted
  <2>6. I.parent[b] \in I.nodeByRoot \ {b} /\ I.unrealizedFinalizedEpoch[b] = FC[b].epoch
    BY <1>3, <2>1, <2>3 DEF Inserted
  <2>7. OneAhead(S, b, I)
    BY <2>4, <2>5, <2>6 DEF OneAhead
  <2> QED
    BY <2>7 DEF I
<1> QED
  BY <1>2, <1>3

(* pullTips records the unrealized finality of the node in the store, or   *)
(* gives the node that of its parent: it is then ahead no more.            *)
LEMMA PullTipsFinality ==
    ASSUME NEW I \in Store, NEW b \in Block, Provenance(I),
           \A n \in I.nodeByRoot \ {b} : NotAhead(I, n),
           I.parent[b] \in I.nodeByRoot \ {b} \/ (NotAhead(I, b) /\ I.parent[b] = ZeroHash)
    PROVE  FinalSound(PullTips(I, b))
<1> DEFINE p == I.parent[b]
           P == PullTips(I, b)
           R == RecordUnrealized(I, UJ[b], UF[b])
<1>1. OnlyPulled(I, P)
  BY PullTipsFrame
<1>2. /\ UF[b] \in Checkpoint /\ UF[b].epoch \in Nat
      /\ UJ[b] \in Checkpoint /\ UJ[b].epoch \in Nat
  BY CheckpointTypes DEF Checkpoint
<1>3. /\ I.finalizedCheckpoint.epoch \in Nat
      /\ I.unrealizedFinalizedCheckpoint.epoch \in Nat
      /\ \A n \in Block : I.unrealizedFinalizedEpoch[n] \in Nat
      /\ I.nodeByRoot \subseteq Block
  BY EpochsAreNat
<1>4. ZeroHash \notin Block
  BY ConstantTypes DEF ZeroHash
<1>5. CASE p = ZeroHash
  <2>1. P = I
    BY <1>5 DEF PullTips
  <2> QED
    BY <1>3, <1>4, <1>5, <2>1 DEF FinalSound
<1>6. CASE p # ZeroHash /\ ExitsEarly(I, b)
  <2>1. /\ P.unrealizedFinalizedEpoch =
               [I.unrealizedFinalizedEpoch EXCEPT ![b] = I.unrealizedFinalizedEpoch[p]]
        /\ P.unrealizedFinalizedCheckpoint = I.unrealizedFinalizedCheckpoint
    BY <1>6 DEF PullTips, Store
  <2> HIDE DEF P
  <2>2. /\ \A n \in Block \ {b} : P.unrealizedFinalizedEpoch[n] = I.unrealizedFinalizedEpoch[n]
        /\ P.unrealizedFinalizedEpoch[b] = I.unrealizedFinalizedEpoch[p]
    BY <2>1 DEF Store
  <2>3. NotAhead(I, p) /\ p \in I.nodeByRoot \ {b}
    BY <1>6
  <2>4. \A n \in P.nodeByRoot : NotAhead(P, n)
    BY <1>1, <1>3, <2>1, <2>2, <2>3 DEF NotAhead, OnlyPulled, SameTree
  <2>5. Provenance(P)
    BY <1>1, <2>1 DEF Provenance, OnlyPulled
  <2> QED
    BY <2>4, <2>5 DEF FinalSound, P
<1>7. CASE p # ZeroHash /\ ~ExitsEarly(I, b)
  <2>1. /\ R \in Store
        /\ R.unrealizedFinalizedEpoch = I.unrealizedFinalizedEpoch
        /\ R.unrealizedFinalizedCheckpoint =
               IF UF[b].epoch > I.unrealizedFinalizedCheckpoint.epoch
               THEN UF[b] ELSE I.unrealizedFinalizedCheckpoint
    BY <1>2 DEF RecordUnrealized, Store
  <2>2. P = [R EXCEPT
            !.unrealizedJustifiedEpoch[b] = UJ[b].epoch,
            !.unrealizedFinalizedEpoch[b] = UF[b].epoch,
            !.justifiedEpoch[b] = IF IsPulled(I, b) THEN UJ[b].epoch ELSE @,
            !.finalizedEpoch[b] = IF IsPulled(I, b) THEN UF[b].epoch ELSE @]
    BY <1>7 DEF PullTips
  <2> HIDE DEF P, R
  <2>3. /\ P.unrealizedFinalizedEpoch = [I.unrealizedFinalizedEpoch EXCEPT ![b] = UF[b].epoch]
        /\ P.unrealizedFinalizedCheckpoint = R.unrealizedFinalizedCheckpoint
    BY <2>1, <2>2 DEF Store
  <2>4. /\ \A n \in Block \ {b} : P.unrealizedFinalizedEpoch[n] = I.unrealizedFinalizedEpoch[n]
        /\ P.unrealizedFinalizedEpoch[b] = UF[b].epoch
    BY <2>3 DEF Store
  <2>5. /\ P.unrealizedFinalizedCheckpoint.epoch >= UF[b].epoch
        /\ P.unrealizedFinalizedCheckpoint.epoch >= I.unrealizedFinalizedCheckpoint.epoch
        /\ P.unrealizedFinalizedCheckpoint.epoch \in Nat
    BY <1>2, <1>3, <2>1, <2>3, SMT, SMTT(20)
  <2>6. \A n \in P.nodeByRoot : NotAhead(P, n)
    BY <1>1, <1>2, <1>3, <2>4, <2>5, SMT, SMTT(20) DEF NotAhead, OnlyPulled, SameTree
  <2>7. Provenance(P)
    BY <1>1, <2>1, <2>3 DEF Provenance, OnlyPulled
  <2> QED
    BY <2>6, <2>7 DEF FinalSound, P
<1> QED
  BY <1>5, <1>6, <1>7

(* ForkChoice.InsertNode, failing or not.                                  *)
LEMMA InsertNodeFinality ==
    ASSUME NEW S, Sound(S), FinalSound(S), NEW b \in Block \ {Anchor}, NEW ok \in BOOLEAN
    PROVE  FinalSound(InsertNode(S, b, ok)) /\ Advances(S, InsertNode(S, b, ok))
<1> DEFINE I == Insert(S, b, JC[b].epoch, FC[b].epoch)
           P == PullTips(I, b)
           c == NodeCheckpoints(I, b)
           U == UpdateCheckpoints(P, c.jc, c.fc, ok)
           T == InsertNode(S, b, ok)
<1>1. CASE InsertFails(S, b)
  BY <1>1 DEF InsertNode, Advances
<1>2. CASE ~InsertFails(S, b)
  <2>1. /\ JC[b].epoch \in Nat /\ FC[b].epoch \in Nat
        /\ c.jc \in Checkpoint /\ c.fc \in Checkpoint
        /\ c.fc.epoch > AnchorEpoch => c.fc \in FinalizedCheckpoints
    BY CheckpointTypes, RealizedAreFinal, CanBeFinalized DEF NodeCheckpoints, Checkpoint
  <2>2. Sound(I) /\ OneAhead(S, b, I)
    BY <1>2, <2>1, InsertSound, InsertFinality
  <2>3. T \in {U, RemoveNode(U, b)}
    BY <1>2 DEF InsertNode
  <2>4. Sound(T)
    BY InsertNodeSound
  <2> HIDE DEF I, c, T
  <2>5. OnlyPulled(I, P) /\ FinalSound(P)
    BY <2>2, PullTipsFrame, PullTipsFinality DEF Sound, OneAhead
  <2> HIDE DEF P
  <2>6. Sound(P) /\ P \in Store
    BY <2>2, <2>5, SameTreeSound DEF OnlyPulled
  <2>7. Sound(U) /\ U \in Store
    BY <2>1, <2>6, UpdateCheckpointsSound DEF Sound
  <2>8. SameUnrealized(P, U) /\ Advances(P, U)
    BY <2>1, <2>5, <2>6, UpdateFinality, UpdateAdvances DEF FinalSound
  <2> HIDE DEF U
  <2>9. SameUnrealized(U, RemoveNode(U, b)) /\ RemoveNode(U, b).finalizedCheckpoint = U.finalizedCheckpoint
    BY <2>7, RemoveNodeFinality
  <2>10. SameUnrealized(P, T) /\ Advances(P, T)
    BY <2>3, <2>8, <2>9 DEF SameUnrealized, Advances
  <2>11. FinalSound(T)
    BY <2>4, <2>5, <2>6, <2>10, FinalSoundFrame DEF Sound
  <2>12. Advances(S, T)
    BY <2>2, <2>5, <2>10 DEF Advances, OneAhead, OnlyPulled
  <2> QED
    BY <2>11, <2>12 DEF T
<1> QED
  BY <1>1, <1>2

(* ForkChoice.InsertChain, unless it fails to read the balances.           *)
LEMMA InsertChainFinality ==
    ASSUME NEW S, Sound(S), FinalSound(S), NEW b \in Block \ {Anchor},
           NEW ok \in BOOLEAN, ok
    PROVE  FinalSound(InsertChain(S, b, ok)) /\ Advances(S, InsertChain(S, b, ok))
<1> DEFINE I == Insert(S, b, JC[b].epoch, FC[b].epoch)
           T == UpdateCheckpoints(I, JC[b], FC[b], ok)
<1>1. CASE InsertFails(S, b)
  BY <1>1 DEF InsertChain, Advances
<1>2. CASE ~InsertFails(S, b)
  <2>1. /\ JC[b].epoch \in Nat /\ FC[b].epoch \in Nat
        /\ JC[b] \in Checkpoint /\ FC[b] \in Checkpoint
        /\ FC[b].epoch > AnchorEpoch => FC[b] \in FinalizedCheckpoints
    BY CheckpointTypes, RealizedAreFinal DEF Checkpoint
  <2>2. Sound(I) /\ OneAhead(S, b, I)
    BY <1>2, <2>1, InsertSound, InsertFinality
  <2>3. InsertChain(S, b, ok) = T
    BY <1>2 DEF InsertChain
  <2> HIDE DEF I
  <2>4. /\ I \in Store /\ I.finalizedCheckpoint.epoch \in Nat
        /\ I.nodeByRoot \subseteq Block
        /\ I.unrealizedFinalizedCheckpoint.epoch \in Nat
        /\ \A n \in Block : I.unrealizedFinalizedEpoch[n] \in Nat
    BY <2>2, EpochsAreNat DEF Sound
  <2>5. /\ SameUnrealized(I, T)
        /\ Finalizes(I, FC[b]) => T.finalizedCheckpoint = FC[b]
        /\ ~Finalizes(I, FC[b]) => T.finalizedCheckpoint = I.finalizedCheckpoint
    BY <2>1, <2>4, UpdateFinalizes
  <2>6. Advances(I, T)
    BY <2>1, <2>2, <2>4, UpdateAdvances DEF OneAhead
  <2> HIDE DEF T
  <2>7. /\ T.finalizedCheckpoint.epoch >= FC[b].epoch
        /\ T.finalizedCheckpoint.epoch >= I.finalizedCheckpoint.epoch
        /\ T.finalizedCheckpoint.epoch \in Nat
    BY <2>1, <2>4, <2>5, SMT, SMTT(20) DEF Finalizes
  <2>8. Provenance(T)
    <3>1. Provenance(I)
      BY <2>2 DEF OneAhead
    <3> QED
      BY <2>5, <2>6, <3>1 DEF Provenance, SameUnrealized, Advances
  <2>9. ASSUME NEW n \in T.nodeByRoot
        PROVE  NotAhead(T, n)
    <3>1. n \in I.nodeByRoot /\ n \in Block
      BY <2>4, <2>5 DEF SameUnrealized
    <3>2. NotAhead(I, n) \/ I.unrealizedFinalizedEpoch[n] = FC[b].epoch
      BY <2>2, <3>1 DEF OneAhead
    <3> QED
      BY <2>1, <2>4, <2>5, <2>7, <3>1, <3>2, SMT, SMTT(20) DEF NotAhead, SameUnrealized
  <2>10. FinalSound(T)
    BY <2>8, <2>9 DEF FinalSound
  <2>11. Advances(S, T)
    BY <2>2, <2>6 DEF Advances, OneAhead
  <2> QED
    BY <2>3, <2>10, <2>11
<1> QED
  BY <1>1, <1>2

(* A node ahead of the finalized checkpoint shows that the store's         *)
(* unrealized checkpoint is later, and that it can be finalized.           *)
LEMMA AheadIsLater ==
    ASSUME NEW S \in Store, FinalSound(S), AheadFinalized(S) # {}
    PROVE  /\ S.unrealizedFinalizedCheckpoint \in FinalizedCheckpoints
           /\ S.unrealizedFinalizedCheckpoint.epoch > S.finalizedCheckpoint.epoch
<1> DEFINE uf == S.unrealizedFinalizedCheckpoint
           fc == S.finalizedCheckpoint
<1>1. PICK n \in S.nodeByRoot : S.unrealizedFinalizedEpoch[n] > fc.epoch
  BY DEF AheadFinalized
<1>2. /\ fc.epoch \in Nat /\ uf.epoch \in Nat /\ S.unrealizedFinalizedEpoch[n] \in Nat
      /\ fc.epoch >= AnchorEpoch /\ AnchorEpoch \in Nat
  BY EpochsAreNat, FinalizedType, ConstantTypes DEF FinalSound, Provenance
<1>3. uf.epoch > fc.epoch
  BY <1>1, <1>2, SMT, SMTT(20) DEF FinalSound, NotAhead
<1>4. uf # NoCheckpoint
  BY <1>2, <1>3, SMT, SMTT(20) DEF NoCheckpoint
<1>5. PICK b \in Block : uf = UF[b]
  BY <1>4 DEF FinalSound, Provenance
<1>6. UF[b].epoch > AnchorEpoch
  BY <1>2, <1>3, <1>5, SMT, SMTT(20)
<1> QED
  BY <1>3, <1>5, <1>6, CanBeFinalized

(* The turn of an epoch, when all nodes are visited and when the balances  *)
(* cannot be read half-way: nodes that lead take the unrealized checkpoint *)
(* only if some node is ahead.                                             *)
LEMMA RealizeFinality ==
    ASSUME NEW S, Sound(S), FinalSound(S), NEW nodes, NEW jc \in Checkpoint,
           NEW fc \in Checkpoint,
           \/ fc = S.finalizedCheckpoint
           \/ (fc = S.unrealizedFinalizedCheckpoint /\ AheadFinalized(ClearBoost(S)) # {}),
           NEW U, U = [Realize(ClearBoost(S), nodes) EXCEPT !.justifiedCheckpoint = jc,
                                                            !.finalizedCheckpoint = fc]
    PROVE  Sound(U) /\ FinalSound(U) /\ Advances(S, U)
<1> DEFINE C == ClearBoost(S)
           R == Realize(C, nodes)
<1>1. /\ C \in Store /\ SameTree(S, C) /\ SameUnrealized(S, C)
      /\ C.finalizedCheckpoint = S.finalizedCheckpoint
  BY DEF Sound, Store, ClearBoost, SameTree, SameUnrealized, Root
<1> HIDE DEF C
<1>2. Sound(C) /\ FinalSound(C) /\ S \in Store
  BY <1>1, SameTreeSound, FinalSoundFrame DEF Advances, Sound
<1>3. SameUnrealized(C, R)
  BY <1>1 DEF Realize, SameUnrealized, Store
<1>4. U = [R EXCEPT !.justifiedCheckpoint = jc, !.finalizedCheckpoint = fc]
  BY DEF C
<1>5. U \in Store /\ SameTree(C, U)
  BY <1>1, <1>4, RealizeFrame
<1>6. R \in Store
  <2> DEFINE js == [x \in Block |-> IF x \in nodes THEN C.unrealizedJustifiedEpoch[x]
                                                   ELSE C.justifiedEpoch[x]]
             fs == [x \in Block |-> IF x \in nodes THEN C.unrealizedFinalizedEpoch[x]
                                                   ELSE C.finalizedEpoch[x]]
  <2>1. js \in [Block -> Nat] /\ fs \in [Block -> Nat]
    BY <1>1 DEF Store
  <2>2. R = [C EXCEPT !.justifiedEpoch = js, !.finalizedEpoch = fs]
    BY DEF Realize
  <2> HIDE DEF js, fs, R
  <2> QED
    BY <1>1, <2>1, <2>2 DEF Store
<1> HIDE DEF R
<1>7. SameUnrealized(C, U) /\ U.finalizedCheckpoint = fc
  BY <1>3, <1>4, <1>6 DEF SameUnrealized, Store
<1>8. Advances(C, U)
  <2>1. AheadFinalized(C) # {} =>
          /\ C.unrealizedFinalizedCheckpoint \in FinalizedCheckpoints
          /\ C.unrealizedFinalizedCheckpoint.epoch > C.finalizedCheckpoint.epoch
    BY <1>1, <1>2, AheadIsLater
  <2> QED
    BY <1>1, <1>7, <2>1 DEF Advances, C, SameUnrealized
<1> QED
  BY <1>1, <1>2, <1>5, <1>7, <1>8, SameTreeSound, FinalSoundFrame DEF Advances

(* ForkChoice.NewSlot lets the finalized checkpoint only advance.          *)
LEMMA NewSlotFinality ==
    ASSUME NEW S, Sound(S), FinalSound(S), NEW s
    PROVE  FinalSound(NewSlot(S, s)) /\ Advances(S, NewSlot(S, s))
<1> DEFINE C == ClearBoost(S)
           U == UpdateUnrealizedCheckpoints(C)
           jc == IF AheadJustified(C) # {} THEN C.unrealizedJustifiedCheckpoint
                                           ELSE C.justifiedCheckpoint
           fc == IF AheadFinalized(C) # {} THEN C.unrealizedFinalizedCheckpoint
                                           ELSE C.finalizedCheckpoint
<1>1. /\ C \in Store /\ SameUnrealized(S, C) /\ C.finalizedCheckpoint = S.finalizedCheckpoint
      /\ S \in Store
  BY DEF Sound, Store, ClearBoost, SameUnrealized, Root
<1>2. FinalSound(C)
  BY <1>1, FinalSoundFrame DEF Advances
<1>3. jc \in Checkpoint /\ fc \in Checkpoint
  <2> HIDE DEF C
  <2> QED
    BY <1>1 DEF Store
<1>4. U = [Realize(C, C.nodeByRoot) EXCEPT !.justifiedCheckpoint = jc, !.finalizedCheckpoint = fc]
  <2> HIDE DEF C
  <2>1. /\ Realize(C, C.nodeByRoot).justifiedCheckpoint = C.justifiedCheckpoint
        /\ Realize(C, C.nodeByRoot).finalizedCheckpoint = C.finalizedCheckpoint
    BY <1>1 DEF Realize, Store
  <2> QED
    BY <2>1 DEF UpdateUnrealizedCheckpoints
<1>5. \/ fc = S.finalizedCheckpoint
      \/ fc = S.unrealizedFinalizedCheckpoint /\ AheadFinalized(ClearBoost(S)) # {}
  BY <1>1 DEF SameUnrealized
<1> HIDE DEF U, jc, fc
<1>6. Sound(U) /\ FinalSound(U) /\ Advances(S, U)
  BY <1>3, <1>4, <1>5, RealizeFinality
<1>7. NewSlot(S, s) \in {C, Prune(U)}
  BY DEF NewSlot, C, U
<1>8. /\ SameUnrealized(U, Prune(U)) /\ Prune(U).finalizedCheckpoint = U.finalizedCheckpoint
      /\ U \in Store /\ Prune(U) \in Store
  BY <1>6, PruneFinality, PruneSound DEF Sound
<1>9. FinalSound(Prune(U)) /\ Advances(S, Prune(U))
  BY <1>6, <1>8, FinalSoundFrame DEF Advances
<1> HIDE DEF C
<1> QED
  BY <1>1, <1>2, <1>7, <1>9 DEF Advances

(* So does a NewSlot that stops in the middle of its loop.                 *)
LEMMA NewSlotFailingFinality ==
    ASSUME NEW S, Sound(S), FinalSound(S), NEW done, NEW n
    PROVE  FinalSound(NewSlotFailing(S, done, n)) /\ Advances(S, NewSlotFailing(S, done, n))
<1> DEFINE C == ClearBoost(S)
           U == UpdateUnrealizedCheckpointsFailing(C, done, n)
           jc == C.unrealizedJustifiedCheckpoint
           fc == IF AheadFinalized(C) \cap done # {} THEN C.unrealizedFinalizedCheckpoint
                                                     ELSE C.finalizedCheckpoint
<1>1. /\ C \in Store /\ SameUnrealized(S, C) /\ C.finalizedCheckpoint = S.finalizedCheckpoint
      /\ S \in Store
  BY DEF Sound, Store, ClearBoost, SameUnrealized, Root
<1>3. jc \in Checkpoint /\ fc \in Checkpoint
  <2> HIDE DEF C
  <2> QED
    BY <1>1 DEF Store
<1>4. U = [Realize(C, done \cup {n}) EXCEPT !.justifiedCheckpoint = jc, !.finalizedCheckpoint = fc]
  <2> HIDE DEF C
  <2>1. Realize(C, done \cup {n}).finalizedCheckpoint = C.finalizedCheckpoint
    BY <1>1 DEF Realize, Store
  <2> QED
    BY <2>1 DEF UpdateUnrealizedCheckpointsFailing
<1>5. \/ fc = S.finalizedCheckpoint
      \/ fc = S.unrealizedFinalizedCheckpoint /\ AheadFinalized(ClearBoost(S)) # {}
  BY <1>1 DEF SameUnrealized
<1> HIDE DEF U, jc, fc
<1>6. Sound(U) /\ FinalSound(U) /\ Advances(S, U)
  BY <1>3, <1>4, <1>5, RealizeFinality
<1> QED
  BY <1>6 DEF NewSlotFailing, U, C

-----------------------------------------------------------------------------
(* The finalized checkpoint is final *)

(* No batch import fails half-way.                                         *)
NoFailedBatch == ~Batches \/ ~BalancesMayFail

FInv == IInv /\ FinalSound(store)

(* Start-up: the anchor is the finalized checkpoint, and not ahead of it.  *)
LEMMA InitFInv ==
    Init => FInv
<1> SUFFICES ASSUME Init PROVE FInv
  OBVIOUS
<1>1. PICK opt \in {{}, {Anchor}} : store = InitStore(opt)
  BY DEF Init
<1>2. /\ store.finalizedCheckpoint = StartCheckpoint
      /\ store.unrealizedFinalizedCheckpoint = NoCheckpoint
      /\ store.nodeByRoot = {Anchor}
      /\ store.unrealizedFinalizedEpoch =
             [b \in Block |-> IF b = Anchor THEN FC[Anchor].epoch ELSE 0]
  BY <1>1 DEF InitStore, StartCheckpoint, NoCheckpoint
<1>3. /\ FC[Anchor].epoch <= JC[Anchor].epoch /\ JC[Anchor].epoch <= AnchorEpoch
      /\ FC[Anchor].epoch \in Nat /\ JC[Anchor].epoch \in Nat /\ AnchorEpoch \in Nat
      /\ Anchor \in Block
  BY CheckpointsOfTheState, ConstantTypes, CheckpointTypes DEF Checkpoint
<1>4. NotAhead(store, Anchor)
  <2>1. store.unrealizedFinalizedEpoch[Anchor] = FC[Anchor].epoch
    BY <1>2, <1>3
  <2>2. store.finalizedCheckpoint.epoch = AnchorEpoch
    BY <1>2, SMT, SMTT(20) DEF StartCheckpoint
  <2>3. FC[Anchor].epoch <= AnchorEpoch
    BY <1>3, SMT, SMTT(20)
  <2> QED
    BY <2>1, <2>2, <2>3 DEF NotAhead
<1>5. FinalSound(store)
  BY <1>2, <1>4, CanBeFinalized DEF FinalSound, Provenance
<1> QED
  BY <1>5, InitIInv DEF FInv

(* Every step keeps the invariant and advances the finalized checkpoint.   *)
LEMMA NextFInv ==
    ASSUME NoFailedBatch, FInv, [Next]_vars
    PROVE  FInv' /\ Advances(store, store')
<1>1. IInv'
  BY NextIInv DEF FInv
<1>2. Sound(store) /\ FinalSound(store) /\ Sound(store') /\ store \in Store /\ store' \in Store
  BY <1>1 DEF FInv, IInv, Sound
<1>3. CASE store' = store
  BY <1>1, <1>2, <1>3 DEF FInv, Advances
<1>4. ASSUME SameUnrealized(store, store'),
             store'.finalizedCheckpoint = store.finalizedCheckpoint
      PROVE  FInv' /\ Advances(store, store')
  <2>1. Advances(store, store')
    BY <1>4 DEF Advances
  <2>2. FinalSound(store')
    BY <1>2, <1>4, <2>1, FinalSoundFrame
  <2> QED
    BY <1>1, <2>1, <2>2 DEF FInv
<1>5. CASE OnTick
  BY <1>1, <1>2, <1>5, NewSlotFinality DEF OnTick, FInv
<1>6. CASE OnTickFailing
  <2>1. PICK n \in store.nodeByRoot, done \in SUBSET store.nodeByRoot :
          store' = NewSlotFailing(store, done, n)
    BY <1>6 DEF OnTickFailing
  <2> QED
    BY <1>1, <1>2, <2>1, NewSlotFailingFinality DEF FInv
<1>7. ASSUME NEW i \in importing, NEW ok \in BalancesOutcomes, FinishImport(i, ok)
      PROVE  FInv' /\ Advances(store, store')
  <2> DEFINE S == InsertNode(store, i.block, ok)
  <2>1. i.block \in Block \ {Anchor}
    BY DEF FInv, IInv, Waiting
  <2>ok. ok \in BOOLEAN
    BY DEF BalancesOutcomes
  <2>2. Sound(S) /\ FinalSound(S) /\ Advances(store, S) /\ S \in Store
    BY <1>2, <2>1, <2>ok, InsertNodeSound, InsertNodeFinality DEF Sound
  <2>3. store' \in {S, SetOptimisticToValid(S, i.block)}
    BY <1>7 DEF FinishImport
  <2> HIDE DEF S
  <2>4. SameUnrealized(S, store') /\ store'.finalizedCheckpoint = S.finalizedCheckpoint
    BY <2>1, <2>2, <2>3, ValidFinality DEF SameUnrealized
  <2>5. FinalSound(store') /\ Advances(store, store')
    BY <1>2, <2>2, <2>4, FinalSoundFrame DEF Advances
  <2> QED
    BY <1>1, <2>5 DEF FInv
<1>8. ASSUME NEW b \in Block \ {Anchor}, NEW valid \in BOOLEAN, NEW ok \in BalancesOutcomes,
             ImportBatch(b, valid, ok)
      PROVE  FInv' /\ Advances(store, store')
  <2> DEFINE S == InsertChain(store, b, ok)
  <2>1. ok \in BOOLEAN /\ ok
    BY <1>8, ConstantTypes DEF ImportBatch, NoFailedBatch, BalancesOutcomes
  <2>2. Sound(S) /\ FinalSound(S) /\ Advances(store, S) /\ S \in Store
    BY <1>2, <2>1, InsertChainSound, InsertChainFinality DEF Sound
  <2>3. store' \in {S, SetOptimisticToValid(S, b)}
    BY <1>8 DEF ImportBatch
  <2> HIDE DEF S
  <2>4. SameUnrealized(S, store') /\ store'.finalizedCheckpoint = S.finalizedCheckpoint
    BY <2>2, <2>3, ValidFinality DEF SameUnrealized
  <2>5. FinalSound(store') /\ Advances(store, store')
    BY <1>2, <2>2, <2>4, FinalSoundFrame DEF Advances
  <2> QED
    BY <1>1, <2>5 DEF FInv
<1>9. ASSUME NEW n \in Block, PayloadValid(n)
      PROVE  FInv' /\ Advances(store, store')
  BY <1>2, <1>4, <1>9, ValidFinality DEF PayloadValid
<1>10. ASSUME NEW b \in Bad, NEW lvh \in LatestValidHashes(b), PayloadInvalid(b, lvh)
       PROVE  FInv' /\ Advances(store, store')
  <2>1. b \in Block /\ lvh \in Root
    BY ConstantTypes, LatestValidHashesType
  <2> QED
    BY <1>2, <1>4, <1>10, <2>1, InvalidFinality DEF PayloadInvalid
<1> QED
  BY <1>3, <1>5, <1>6, <1>7, <1>8, <1>9, <1>10
  DEF Next, NextSlot, Deadline, StartImport, vars

(* What advancing means for the two checkpoints.                           *)
LEMMA AdvancingIsForward ==
    ASSUME NEW S \in Store, NEW T \in Store, Provenance(S), Advances(S, T)
    PROVE  /\ T.finalizedCheckpoint.epoch >= S.finalizedCheckpoint.epoch
           /\ S.finalizedCheckpoint.root \in Chain[T.finalizedCheckpoint.root]
<1>1. /\ S.finalizedCheckpoint \in FinalizedCheckpoints
      /\ S.finalizedCheckpoint.epoch \in Nat /\ T.finalizedCheckpoint.epoch \in Nat
  BY EpochsAreNat DEF Provenance
<1>2. S.finalizedCheckpoint.root \in Block
  BY <1>1, FinalizedType
<1>3. CASE T.finalizedCheckpoint = S.finalizedCheckpoint
  BY <1>1, <1>2, <1>3, ChainFacts, SMT, SMTT(20)
<1>4. CASE /\ T.finalizedCheckpoint \in FinalizedCheckpoints
           /\ T.finalizedCheckpoint.epoch > S.finalizedCheckpoint.epoch
  BY <1>1, <1>4, FinalizedAgree, SMT, SMTT(20)
<1> QED
  BY <1>3, <1>4 DEF Advances

(***************************************************************************)
(* Finality is final: whatever blocks, ticks and answers of the engine     *)
(* come in whatever order, the finalized checkpoint never goes back and a  *)
(* new one descends from the previous one (updateCheckpoints and           *)
(* updateUnrealizedCheckpoints), unless a batch import fails half-way.     *)
(***************************************************************************)
THEOREM FinalityIsFinal ==
    ASSUME NoFailedBatch
    PROVE  Spec => FinalizedMonotone
<1>1. Init => FInv
  BY InitFInv
<1>2. ASSUME FInv, [Next]_vars
      PROVE  /\ FInv'
             /\ [/\ store'.finalizedCheckpoint.epoch >= store.finalizedCheckpoint.epoch
                 /\ store.finalizedCheckpoint.root \in Chain[store'.finalizedCheckpoint.root]]_vars
  <2>1. FInv' /\ Advances(store, store')
    BY <1>2, NextFInv
  <2>2. store \in Store /\ store' \in Store /\ Provenance(store)
    BY <1>2, <2>1 DEF FInv, IInv, Sound, FinalSound
  <2> QED
    BY <2>1, <2>2, AdvancingIsForward
<1> QED
  BY <1>1, <1>2, PTL DEF Spec, FinalizedMonotone

-----------------------------------------------------------------------------
(* The checkpoints a block carries *)

(* A later epoch starts later.                                             *)
LEMMA EpochStartOrder ==
    ASSUME NEW d \in Nat, NEW e \in Nat, d <= e
    PROVE  /\ EpochStart(d) \in Nat /\ EpochStart(e) \in Nat
           /\ EpochStart(d) <= EpochStart(e)
           /\ d < e => EpochStart(d) + SLOTS_PER_EPOCH <= EpochStart(e)
<1> DEFINE N == SLOTS_PER_EPOCH
<1>1. N \in Nat
  BY ConstantTypes
<1> HIDE DEF N
<1>2. d * N <= e * N /\ d * N \in Nat /\ e * N \in Nat
  BY <1>1, SMTT(30), SMTT(50)
<1>3. ASSUME d < e PROVE d * N + N <= e * N
  <2>1. (d + 1) * N <= e * N
    BY <1>1, <1>3, SMTT(30), SMTT(50)
  <2>2. (d + 1) * N = d * N + N
    BY <1>1, SMT, SMTT(20)
  <2> QED
    BY <2>1, <2>2
<1> QED
  BY <1>2, <1>3 DEF EpochStart, N

(* The justified epoch of a state is no later than that of the parent.     *)
LEMMA JustifiedBeforeParent ==
    ASSUME NEW b \in Block \ {Anchor}
    PROVE  JC[b].epoch <= Epoch(Slot[Parent[b]])
<1> DEFINE p == Parent[b]
<1>1. p \in Block /\ Slot[p] \in Nat
  BY BlocksFormATree, ConstantTypes
<1>2. JC[b] = JC[p] \/ JC[b] = UJ[p]
  BY CheckpointsOfTheState
<1>3. JC[p].epoch <= UJ[p].epoch /\ UJ[p].epoch <= Epoch(Slot[p])
  BY <1>1, CheckpointsOfTheState
<1>4. JC[p].epoch \in Nat /\ UJ[p].epoch \in Nat /\ Epoch(Slot[p]) \in Nat
  BY <1>1, CheckpointTypes, EpochFacts DEF Checkpoint
<1> QED
  BY <1>2, <1>3, <1>4, SMT, SMTT(20)

(***************************************************************************)
(* A block is not itself the block of a checkpoint that its state          *)
(* justifies: the first block of an epoch cannot hold the votes for it.    *)
(***************************************************************************)
LEMMA OwnCheckpoints ==
    ASSUME NEW b \in Block \ {Anchor}, NEW c \in {UJ[b], UF[b]}, c.epoch >= AnchorEpoch
    PROVE  c.root \in Chain[Parent[b]]
<1> DEFINE p == Parent[b]
           N == SLOTS_PER_EPOCH
           E == Epoch(Slot[b])
<1>1. /\ p \in Block /\ Slot[b] \in Nat /\ Slot[p] \in Nat /\ Slot[p] < Slot[b]
      /\ N \in Nat \ {0} /\ AnchorEpoch \in Nat
  BY BlocksFormATree, ConstantTypes
<1>2. /\ c.epoch \in Nat /\ UJ[b].epoch \in Nat /\ UF[b].epoch \in Nat /\ JC[b].epoch \in Nat
  BY CheckpointTypes DEF Checkpoint
<1>3. IF c.epoch < AnchorEpoch THEN c.root = ZeroHash ELSE IsCheckpointBlock(c.root, b, c.epoch)
  BY CheckpointsOfTheState
<1>4. c.root \in Chain[b] /\ Slot[c.root] <= EpochStart(c.epoch)
  BY <1>1, <1>2, <1>3, SMT, SMTT(20) DEF IsCheckpointBlock
<1>5. ASSUME c.root = b PROVE FALSE
  <2>1. /\ UJ[b].epoch <= E /\ UF[b].epoch <= JC[b].epoch /\ JC[b].epoch <= UJ[b].epoch
        /\ UJ[b].epoch = E /\ JC[b].epoch < UJ[b].epoch => SinceEpochStarts(Slot[b]) * 3 >= N * 2
    BY CheckpointsOfTheState
  <2>2. /\ E \in Nat /\ SinceEpochStarts(Slot[b]) \in Nat /\ Epoch(Slot[p]) \in Nat
        /\ Slot[b] = EpochStart(E) + SinceEpochStarts(Slot[b])
        /\ Slot[p] = EpochStart(Epoch(Slot[p])) + SinceEpochStarts(Slot[p])
        /\ SinceEpochStarts(Slot[p]) \in Nat
        /\ EpochStart(Epoch(Slot[p])) \in Nat /\ EpochStart(E) \in Nat
    BY <1>1, EpochFacts
  <2>3. JC[b].epoch <= Epoch(Slot[p])
    BY JustifiedBeforeParent
  <2> HIDE DEF E
  <2>4. ASSUME NEW e \in Nat, e <= Epoch(Slot[p]) PROVE EpochStart(e) < Slot[b]
    BY <1>1, <2>2, <2>4, EpochStartOrder, SMT, SMTT(20)
  <2>5. c.epoch > JC[b].epoch
    BY <1>2, <1>4, <1>5, <1>1, <2>2, <2>3, <2>4, EpochStartOrder, SMT, SMTT(20)
  <2>6. c.epoch = UJ[b].epoch
    BY <1>2, <2>1, <2>5, SMT, SMTT(20)
  <2>7. c.epoch = E
    <3>1. ASSUME c.epoch < E PROVE FALSE
      <4>1. EpochStart(c.epoch) + N <= EpochStart(E) /\ EpochStart(c.epoch) \in Nat
        BY <1>2, <2>2, <3>1, EpochStartOrder, SMT, SMTT(20)
      <4> QED
        BY <1>1, <1>4, <1>5, <2>2, <4>1, SMT, SMTT(20)
    <3> QED
      BY <1>2, <2>1, <2>2, <2>6, <3>1, SMTT(20), SMTT(40)
  <2>8. SinceEpochStarts(Slot[b]) = 0
    BY <1>1, <1>4, <1>5, <2>2, <2>7, SMT, SMTT(20)
  <2> QED
    BY <1>1, <1>2, <2>1, <2>5, <2>6, <2>7, <2>8, SMT, SMTT(20)
<1> QED
  BY <1>4, <1>5, ChainFacts

(* A checkpoint that the state of a block has justified or finalized was   *)
(* an unrealized one of an ancestor.                                       *)
LEMMA RealizedWereUnrealized ==
    ASSUME NEW b \in Block
    PROVE  /\ JC[b].epoch > AnchorEpoch =>
                  b # Anchor /\ \E c \in Chain[Parent[b]] : JC[b] = UJ[c]
           /\ FC[b].epoch > AnchorEpoch =>
                  b # Anchor /\ \E c \in Chain[Parent[b]] : FC[b] = UF[c]
<1> DEFINE oddJ == {x \in Block : /\ JC[x].epoch > AnchorEpoch
                                  /\ ~\E c \in Chain[Parent[x]] : JC[x] = UJ[c]}
           oddF == {x \in Block : /\ FC[x].epoch > AnchorEpoch
                                  /\ ~\E c \in Chain[Parent[x]] : FC[x] = UF[c]}
<1>1. ~(JC[Anchor].epoch > AnchorEpoch) /\ ~(FC[Anchor].epoch > AnchorEpoch)
  <2>1. FC[Anchor].epoch <= JC[Anchor].epoch /\ JC[Anchor].epoch <= AnchorEpoch
    BY CheckpointsOfTheState
  <2>2. /\ FC[Anchor].epoch \in Nat /\ JC[Anchor].epoch \in Nat /\ AnchorEpoch \in Nat
    BY ConstantTypes, CheckpointTypes DEF Checkpoint
  <2> QED
    BY <2>1, <2>2, SMT, SMTT(20)
<1>2. ASSUME NEW x \in Block \ {Anchor}
      PROVE  /\ Parent[x] \in Block /\ Parent[x] \in Chain[Parent[x]]
             /\ Parent[x] # Anchor => Chain[Parent[Parent[x]]] \subseteq Chain[Parent[x]]
             /\ JC[x] = JC[Parent[x]] \/ JC[x] = UJ[Parent[x]]
             /\ FC[x] = FC[Parent[x]] \/ FC[x] = UF[Parent[x]]
  <2>1. Parent[x] \in Block
    BY BlocksFormATree
  <2>2. /\ JC[x] = JC[Parent[x]] \/ JC[x] = UJ[Parent[x]]
        /\ FC[x] = FC[Parent[x]] \/ FC[x] = UF[Parent[x]]
    BY CheckpointsOfTheState
  <2> QED
    BY <2>1, <2>2, ChainFacts
<1>3. \A x \in oddJ \ {Anchor} : Parent[x] \in oddJ
  BY <1>1, <1>2
<1>4. \A x \in oddF \ {Anchor} : Parent[x] \in oddF
  BY <1>1, <1>2
<1>5. Anchor \notin oddJ /\ Anchor \notin oddF /\ Anchor \in Chain[b]
  BY <1>1, BlocksFormATree
<1>6. oddJ \in SUBSET Block /\ oddF \in SUBSET Block
  OBVIOUS
<1>7. b \notin oddJ
  <2> HIDE DEF oddJ
  <2> QED
    BY <1>3, <1>5, <1>6, ChainLeast
<1>8. b \notin oddF
  <2> HIDE DEF oddF
  <2> QED
    BY <1>4, <1>5, <1>6, ChainLeast
<1> QED
  BY <1>1, <1>7, <1>8

(* c can be justified, and its block is on the chain of p.                 *)
JustifiedBelow(c, p) == c \in JustifiedCheckpoints /\ c.root \in Chain[p]

FinalizedBelow(c, p) == c \in FinalizedCheckpoints /\ c.root \in Chain[p]

(* The checkpoints of a block, once past the anchor, have their blocks on  *)
(* the chain of its parent.                                                *)
LEMMA CarriedBelow ==
    ASSUME NEW b \in Block \ {Anchor}
    PROVE  /\ \A c \in {JC[b], UJ[b]} : c.epoch > AnchorEpoch => JustifiedBelow(c, Parent[b])
           /\ \A c \in {FC[b], UF[b]} : c.epoch > AnchorEpoch => FinalizedBelow(c, Parent[b])
<1> DEFINE p == Parent[b]
<1>1. p \in Block /\ AnchorEpoch \in Nat /\ Chain[p] \subseteq Block
  BY BlocksFormATree, ConstantTypes, ChainFacts
<1>2. \A x \in Block : /\ JC[x].epoch \in Nat /\ UJ[x].epoch \in Nat
                       /\ FC[x].epoch \in Nat /\ UF[x].epoch \in Nat
  BY CheckpointTypes DEF Checkpoint
<1>3. ASSUME NEW x \in Block, NEW c \in {UJ[x], UF[x]}, c.epoch > AnchorEpoch
      PROVE  c.root \in Chain[x]
  <2>1. IF c.epoch < AnchorEpoch THEN c.root = ZeroHash ELSE IsCheckpointBlock(c.root, x, c.epoch)
    BY CheckpointsOfTheState
  <2>2. c.epoch \in Nat
    BY <1>2
  <2> QED
    BY <1>1, <1>3, <2>1, <2>2, SMT, SMTT(20) DEF IsCheckpointBlock
<1>4. \A x \in Chain[p] : Chain[x] \subseteq Chain[p]
  BY <1>1, ChainFacts
<1>5. \A x \in Block : UJ[x] \in JustifiedCheckpoints
  BY DEF JustifiedCheckpoints
<1>6. UJ[b].epoch > AnchorEpoch => UJ[b].root \in Chain[p]
  BY <1>1, <1>2, OwnCheckpoints, SMT, SMTT(20)
<1>7. UF[b].epoch > AnchorEpoch => UF[b].root \in Chain[p]
  BY <1>1, <1>2, OwnCheckpoints, SMT, SMTT(20)
<1>8. JC[b].epoch > AnchorEpoch => JustifiedBelow(JC[b], p)
  <2> SUFFICES ASSUME JC[b].epoch > AnchorEpoch PROVE JustifiedBelow(JC[b], p)
    OBVIOUS
  <2>1. PICK x \in Chain[p] : JC[b] = UJ[x]
    BY RealizedWereUnrealized
  <2> QED
    BY <1>1, <1>3, <1>4, <1>5, <2>1 DEF JustifiedBelow
<1>9. FC[b].epoch > AnchorEpoch => FinalizedBelow(FC[b], p)
  <2> SUFFICES ASSUME FC[b].epoch > AnchorEpoch PROVE FinalizedBelow(FC[b], p)
    OBVIOUS
  <2>1. PICK x \in Chain[p] : FC[b] = UF[x]
    BY RealizedWereUnrealized
  <2> QED
    BY <1>1, <1>3, <1>4, <2>1, CanBeFinalized DEF FinalizedBelow
<1>10. UJ[b].epoch > AnchorEpoch => JustifiedBelow(UJ[b], p)
  BY <1>5, <1>6 DEF JustifiedBelow
<1>11. UF[b].epoch > AnchorEpoch => FinalizedBelow(UF[b], p)
  BY <1>7, CanBeFinalized DEF FinalizedBelow
<1> QED
  BY <1>8, <1>9, <1>10, <1>11

-----------------------------------------------------------------------------
(* The blocks of checkpoints stay in the store *)

(* The block of a checkpoint that can be justified is on its own chain up  *)
(* to the checkpoint, and its payload is valid.                            *)
LEMMA JustifiedType ==
    ASSUME NEW d \in JustifiedCheckpoints, d.epoch >= AnchorEpoch
    PROVE  /\ d \in Checkpoint /\ d.epoch \in Nat /\ d.root \in Block
           /\ d.root \notin Bad
           /\ Slot[d.root] <= EpochStart(d.epoch)
<1>1. AnchorEpoch \in Nat /\ Anchor \in Block
  BY ConstantTypes
<1>2. CASE d = StartCheckpoint
  <2>1. d.epoch = AnchorEpoch /\ d.root = Anchor /\ d \in Checkpoint
    BY <1>1, <1>2 DEF StartCheckpoint, Checkpoint, Root
  <2> QED
    BY <1>1, <2>1, BlocksFormATree, InvalidityOfPayloads
<1>3. ASSUME NEW b \in Block, d \in {UJ[b], UF[b]}
      PROVE  /\ d \in Checkpoint /\ d.epoch \in Nat /\ d.root \in Block
             /\ d.root \notin Bad
             /\ Slot[d.root] <= EpochStart(d.epoch)
  <2>1. d \in Checkpoint /\ d.epoch \in Nat
    BY <1>3, CheckpointTypes DEF Checkpoint
  <2>2. IF d.epoch < AnchorEpoch THEN d.root = ZeroHash ELSE IsCheckpointBlock(d.root, b, d.epoch)
    BY <1>3, CheckpointsOfTheState
  <2>3. d.root \in Chain[b] /\ Slot[d.root] <= EpochStart(d.epoch)
    BY <1>1, <2>1, <2>2, SMT, SMTT(20) DEF IsCheckpointBlock
  <2>4. d.root \notin Bad
    BY <1>3, InvalidityOfPayloads
  <2> QED
    BY <2>1, <2>3, <2>4, ChainFacts
<1> QED
  BY <1>2, <1>3 DEF JustifiedCheckpoints, FinalizedCheckpoints, StartCheckpoint

(* A justified checkpoint that is not older than a finalized one has its   *)
(* block on the chain.                                                     *)
LEMMA JustifiedAgree ==
    ASSUME NEW c \in FinalizedCheckpoints, NEW d \in JustifiedCheckpoints, d.epoch >= c.epoch
    PROVE  IsCheckpointBlock(c.root, d.root, c.epoch)
<1>1. c.epoch \in Nat /\ c.epoch >= AnchorEpoch /\ c \in JustifiedCheckpoints
  BY FinalizedType DEF JustifiedCheckpoints
<1>a. AnchorEpoch \in Nat
  BY ConstantTypes
<1>2. CASE d.epoch > c.epoch
  BY <1>2, FinalityIsSafe
<1>3. CASE d.epoch = c.epoch
  <2>1. d = c
    BY <1>1, <1>3, FinalityIsSafe
  <2>2. c.root \in Block /\ Slot[c.root] <= EpochStart(c.epoch)
    BY <1>1, JustifiedType
  <2>3. \A x \in Chain[c.root] : Slot[x] <= Slot[c.root]
    <3> TAKE x \in Chain[c.root]
    <3>1. x \in Block /\ (x = c.root \/ Slot[x] < Slot[c.root])
      BY <2>2, ChainFacts
    <3>2. Slot[x] \in Nat /\ Slot[c.root] \in Nat
      BY <2>2, <3>1, ConstantTypes
    <3> QED
      BY <3>1, <3>2, SMT, SMTT(20)
  <2>4. c.root \in Chain[c.root]
    BY <2>2, ChainFacts
  <2> QED
    BY <2>1, <2>2, <2>3, <2>4 DEF IsCheckpointBlock
<1>4. d.epoch \in Nat
  <2>1. d \in Checkpoint
    BY CheckpointTypes, FinalizedType DEF JustifiedCheckpoints
  <2> QED
    BY <2>1 DEF Checkpoint
<1> QED
  BY <1>1, <1>2, <1>3, <1>4, SMT, SMTT(20)

(* A block leaves only if its payload is invalid or the finalized          *)
(* checkpoint excludes it.                                                 *)
OnlyDeadLeave(S, T) ==
    \A n \in S.nodeByRoot \ T.nodeByRoot :
        \/ n \in Bad
        \/ ~IsCheckpointBlock(T.finalizedCheckpoint.root, n, T.finalizedCheckpoint.epoch)

(* So the block of a checkpoint that can be justified, not older than the  *)
(* finalized one, stays.                                                   *)
LEMMA RootsStay ==
    ASSUME NEW S, NEW T, T.finalizedCheckpoint \in FinalizedCheckpoints, OnlyDeadLeave(S, T),
           NEW d \in JustifiedCheckpoints, d.epoch >= T.finalizedCheckpoint.epoch,
           d.root \in S.nodeByRoot
    PROVE  d.root \in T.nodeByRoot
<1> DEFINE fc == T.finalizedCheckpoint
<1>1. IsCheckpointBlock(fc.root, d.root, fc.epoch)
  BY JustifiedAgree
<1>2. d.epoch >= AnchorEpoch
  <2>1. fc.epoch >= AnchorEpoch /\ fc.epoch \in Nat /\ AnchorEpoch \in Nat
    BY FinalizedType, ConstantTypes
  <2>2. d \in Checkpoint
    BY CheckpointTypes, FinalizedType DEF JustifiedCheckpoints
  <2> QED
    BY <2>1, <2>2, SMT, SMTT(20) DEF Checkpoint
<1>3. d.root \notin Bad
  BY <1>2, JustifiedType
<1> QED
  BY <1>1, <1>3 DEF OnlyDeadLeave

(* The block of a later checkpoint on the chain of a known node is known.  *)
LEMMA RootsKnown ==
    ASSUME NEW S, Sound(S), S.finalizedCheckpoint \in FinalizedCheckpoints,
           S.finalizedCheckpoint.root \in S.nodeByRoot,
           NEW c \in JustifiedCheckpoints, c.epoch >= S.finalizedCheckpoint.epoch,
           NEW n \in S.nodeByRoot, c.root \in Chain[n]
    PROVE  c.root \in S.nodeByRoot
<1> DEFINE fc == S.finalizedCheckpoint
<1>1. fc.root \in Chain[c.root]
  BY JustifiedAgree DEF IsCheckpointBlock
<1>2. S.treeRootNode \in Chain[fc.root] /\ n \in Block
  BY DEF Sound, Linked, Store
<1>3. c.root \in Block
  BY <1>2, ChainFacts
<1>4. S.treeRootNode \in Chain[c.root]
  BY <1>1, <1>2, <1>3, ChainFacts
<1> QED
  BY <1>4, AncestorsKnown

(* A later checkpoint c that a new block brings: its block is known.       *)
BroughtJustified(S, c) ==
    c.epoch > S.finalizedCheckpoint.epoch =>
        c \in JustifiedCheckpoints /\ c.root \in S.nodeByRoot

BroughtFinalized(S, c) ==
    c.epoch > S.finalizedCheckpoint.epoch =>
        c \in FinalizedCheckpoints /\ c.root \in S.nodeByRoot

(* The blocks of the checkpoints of a block that can be inserted are known *)
(* before the block is.                                                    *)
LEMMA CarriedKnown ==
    ASSUME NEW S, Sound(S), S.finalizedCheckpoint \in FinalizedCheckpoints,
           S.finalizedCheckpoint.root \in S.nodeByRoot,
           NEW b \in Block \ {Anchor}, ~InsertFails(S, b)
    PROVE  /\ BroughtJustified(S, JC[b]) /\ BroughtJustified(S, UJ[b])
           /\ BroughtFinalized(S, FC[b]) /\ BroughtFinalized(S, UF[b])
<1> DEFINE fc == S.finalizedCheckpoint
           p == Parent[b]
<1>1. PICK n \in S.nodeByRoot : Chain[p] \subseteq Chain[n]
  BY ChainFacts DEF InsertFails
<1>2. fc.epoch \in Nat /\ fc.epoch >= AnchorEpoch /\ AnchorEpoch \in Nat
  BY FinalizedType, ConstantTypes
<1>3. /\ JC[b].epoch \in Nat /\ UJ[b].epoch \in Nat
      /\ FC[b].epoch \in Nat /\ UF[b].epoch \in Nat
  BY CheckpointTypes DEF Checkpoint
<1>4. ASSUME NEW c \in {JC[b], UJ[b]}, c.epoch > fc.epoch
      PROVE  c \in JustifiedCheckpoints /\ c.root \in S.nodeByRoot
  <2>1. c.epoch \in Nat /\ c.epoch > AnchorEpoch /\ c.epoch >= fc.epoch
    BY <1>2, <1>3, <1>4, SMT, SMTT(20)
  <2>2. JustifiedBelow(c, p)
    BY <2>1, CarriedBelow
  <2>3. c \in JustifiedCheckpoints /\ c.root \in Chain[n]
    BY <1>1, <2>2 DEF JustifiedBelow
  <2> QED
    BY <2>1, <2>3, RootsKnown
<1>5. ASSUME NEW c \in {FC[b], UF[b]}, c.epoch > fc.epoch
      PROVE  c \in FinalizedCheckpoints /\ c.root \in S.nodeByRoot
  <2>1. c.epoch \in Nat /\ c.epoch > AnchorEpoch /\ c.epoch >= fc.epoch
    BY <1>2, <1>3, <1>5, SMT, SMTT(20)
  <2>2. FinalizedBelow(c, p)
    BY <2>1, CarriedBelow
  <2>3. c \in FinalizedCheckpoints /\ c.root \in Chain[n]
    BY <1>1, <2>2 DEF FinalizedBelow
  <2>4. c \in JustifiedCheckpoints
    BY <2>3 DEF JustifiedCheckpoints
  <2> QED
    BY <2>1, <2>3, <2>4, RootsKnown
<1> QED
  BY <1>4, <1>5 DEF BroughtJustified, BroughtFinalized

-----------------------------------------------------------------------------
(* Which blocks leave *)

(* Store.prune removes what the finalized checkpoint excludes.             *)
LEMMA PruneLeave ==
    ASSUME NEW S, Sound(S), S.finalizedCheckpoint \in FinalizedCheckpoints
    PROVE  OnlyDeadLeave(S, Prune(S))
<1> DEFINE fc == S.finalizedCheckpoint
           fin == S.finalizedCheckpoint.root
           T == Prune(S)
<1>1. CASE PruneFails(S) \/ S.parent[fin] = ZeroHash
  BY <1>1 DEF Prune, OnlyDeadLeave
<1>2. CASE ~(PruneFails(S) \/ S.parent[fin] = ZeroHash)
  <2> DEFINE above == PrunedFrom(S, {S.treeRootNode})
             beside == PrunedFrom(S, IncompatibleChildren(S))
             down == [x \in Block |-> S.children[x] \ {fin}]
  <2>1. S \in Store /\ Linked(S) /\ S.treeRootNode \in Block
    BY DEF Sound, Store
  <2>2. fin \in S.nodeByRoot /\ fin \in Block /\ fin # S.treeRootNode
    BY <1>2, <2>1 DEF PruneFails, Store, Linked
  <2>3. T.nodeByRoot = S.nodeByRoot \ (above \cup beside) /\ T.finalizedCheckpoint = fc
    BY <1>2, <2>1, PruneFields
  <2>4. \A x \in Block : down[x] \subseteq Block
    BY <2>1 DEF Store
  <2>5. \A x \in Block : \A c \in down[x] : c \in Block /\ c # Anchor /\ Parent[c] = x /\ c # fin
    BY <2>1, <2>4 DEF Linked
  <2> HIDE DEF down
  <2>6. ASSUME NEW n \in above PROVE fin \notin Chain[n]
    <3> DEFINE X == {x \in Block : fin \notin Chain[x]}
    <3>1. S.treeRootNode \in X
      <4>1. S.treeRootNode \in Chain[fin]
        BY <2>1, <2>2 DEF Linked
      <4> QED
        BY <2>1, <2>2, <4>1, ChainAntisymmetric
    <3>2. Closed(down, X)
      <4> SUFFICES ASSUME NEW x \in X, NEW c \in down[x] PROVE c \in X
        BY DEF Closed
      <4>1. c \in Block /\ c # Anchor /\ Parent[c] = x /\ c # fin
        BY <2>5
      <4> QED
        BY <4>1, ChainFacts
    <3>3. {S.treeRootNode} \ {fin} \subseteq Block /\ {S.treeRootNode} \ {fin} \subseteq X
      BY <2>1, <3>1
    <3>4. above = Reach(down, {S.treeRootNode} \ {fin})
      BY DEF PrunedFrom, down
    <3> HIDE DEF X, above
    <3>5. above \subseteq X
      BY <2>4, <3>2, <3>3, <3>4, ReachFacts, SMT, SMTT(20)
    <3> QED
      BY <3>5 DEF X
  <2>7. ASSUME NEW n \in beside
        PROVE  \E c \in Chain[n] : Slot[c] <= EpochStart(fc.epoch) /\ ~(Slot[c] <= Slot[fin])
    <3> DEFINE bad(c) == Slot[c] <= EpochStart(fc.epoch) /\ ~(Slot[c] <= Slot[fin])
               X == {x \in Block : \E c \in Chain[x] : bad(c)}
               start == IncompatibleChildren(S) \ {fin}
    <3>1. start \subseteq X
      <4> SUFFICES ASSUME NEW c \in start PROVE c \in X
        OBVIOUS
      <4>1. c \in S.children[fin] /\ Slot[c] <= EpochStart(fc.epoch)
        BY DEF IncompatibleChildren
      <4>2. c \in Block /\ c # Anchor /\ Parent[c] = fin
        BY <2>1, <2>2, <4>1, SMT, SMTT(20) DEF Linked, Store
      <4>3. Slot[fin] < Slot[c] /\ Slot[fin] \in Nat /\ Slot[c] \in Nat
        BY <2>2, <4>2, BlocksFormATree, ConstantTypes
      <4>4. ~(Slot[c] <= Slot[fin])
        BY <4>3, SMT, SMTT(20)
      <4> QED
        BY <4>1, <4>2, <4>4, ChainFacts
    <3>2. Closed(down, X)
      <4> SUFFICES ASSUME NEW x \in X, NEW c \in down[x] PROVE c \in X
        BY DEF Closed
      <4>1. c \in Block /\ c # Anchor /\ Parent[c] = x
        BY <2>5
      <4>2. Chain[x] \subseteq Chain[c]
        BY <4>1, ChainFacts
      <4>3. PICK y \in Chain[x] : bad(y)
        OBVIOUS
      <4> QED
        BY <4>1, <4>2, <4>3
    <3>3. start \subseteq Block
      BY <3>1
    <3>4. beside = Reach(down, start)
      BY DEF PrunedFrom, down
    <3> HIDE DEF X, start, beside
    <3>5. beside \subseteq X
      BY <2>4, <3>1, <3>2, <3>3, <3>4, ReachFacts
    <3> QED
      BY <3>5 DEF X
  <2> HIDE DEF above, beside, T
  <2>8. ASSUME NEW n \in S.nodeByRoot \ T.nodeByRoot
        PROVE  ~IsCheckpointBlock(fin, n, fc.epoch)
    BY <2>3, <2>6, <2>7 DEF IsCheckpointBlock
  <2> QED
    BY <2>3, <2>8 DEF OnlyDeadLeave, T
<1> QED
  BY <1>1, <1>2

(* A payload below an invalid one is invalid.                              *)
LEMMA BadDescends ==
    ASSUME NEW m \in Block, NEW n \in Chain[m], n \in Bad
    PROVE  m \in Bad
<1> SUFFICES ASSUME m \notin Bad PROVE FALSE
  OBVIOUS
<1> DEFINE X == Block \ Bad
<1>1. \A x \in X \ {Anchor} : Parent[x] \in X
  BY BlocksFormATree, InvalidityOfPayloads
<1>2. Chain[m] \subseteq X
  BY <1>1, ChainLeast
<1> QED
  BY <1>2

(* removeNode of an invalid node takes out invalid nodes only.             *)
LEMMA RemoveBadLeave ==
    ASSUME NEW S, Sound(S), NEW n \in S.nodeByRoot, n \in Bad
    PROVE  OnlyDeadLeave(S, RemoveNode(S, n))
<1>1. S \in Store /\ S.nodeByRoot \subseteq Block
  BY DEF Sound, Store
<1>2. S.nodeByRoot \ RemoveNode(S, n).nodeByRoot \subseteq Subtree(S, n)
  BY <1>1 DEF RemoveNode, Store
<1>3. Subtree(S, n) \subseteq {m \in Block : n \in Chain[m]}
  BY SubtreeFacts
<1> QED
  BY <1>1, <1>2, <1>3, BadDescends DEF OnlyDeadLeave

(* An INVALID answer with the true latest valid hash, or with none, takes  *)
(* out invalid nodes only.                                                 *)
LEMMA InvalidLeave ==
    ASSUME TrueLVH, NEW S, Sound(S), NEW b \in Bad, NEW lvh \in LatestValidHashes(b)
    PROVE  OnlyDeadLeave(S, SetOptimisticToInvalid(S, b, lvh))
<1> DEFINE node == IF b \in S.nodeByRoot THEN b ELSE Parent[b]
           first == FirstInvalid(S, node, lvh)
           T == SetOptimisticToInvalid(S, b, lvh)
<1>1. /\ S \in Store /\ Linked(S) /\ b \in Block \ {Anchor} /\ lvh \in Root
      /\ lvh \in LatestValid(b) \cup {ZeroHash}
  BY ConstantTypes, InvalidityOfPayloads, LatestValidHashesType DEF Sound, LatestValidHashes
<1>2. \/ T = S
      \/ b \in S.nodeByRoot /\ T = RemoveNode(S, b)
      \/ node \in S.nodeByRoot /\ S.parent[first] # ZeroHash /\ T = RemoveNode(S, first)
  BY DEF SetOptimisticToInvalid
<1>3. ASSUME node \in S.nodeByRoot, S.parent[first] # ZeroHash
      PROVE  first \in S.nodeByRoot /\ first \in Bad
  <2>1. first \in S.nodeByRoot /\ first \in Chain[node] /\ S.parent[first] \in {ZeroHash, lvh}
    BY <1>1, <1>3, FirstInvalidKnown
  <2>2. node \in Block /\ Chain[node] \subseteq Chain[b]
    BY <1>1, <1>3, BlocksFormATree, ChainFacts
  <2> HIDE DEF first
  <2>3. first \in Block /\ S.parent[first] = Parent[first] /\ Parent[first] = lvh /\ lvh # ZeroHash
    BY <1>1, <1>3, <2>1 DEF Linked, Store
  <2>4. first # Anchor /\ lvh \in LatestValid(b)
    BY <1>1, <2>3, BlocksFormATree
  <2>5. Slot[lvh] < Slot[first] /\ Slot[lvh] \in Nat /\ Slot[first] \in Nat
    BY <2>3, <2>4, BlocksFormATree, ConstantTypes
  <2>6. first \in Chain[b] \ Bad => Slot[first] <= Slot[lvh]
    BY <2>4 DEF LatestValid
  <2> QED
    BY <2>1, <2>2, <2>5, <2>6, SMT, SMTT(20)
<1>4. OnlyDeadLeave(S, S)
  BY DEF OnlyDeadLeave
<1> QED
  BY <1>2, <1>3, <1>4, RemoveBadLeave

(* updateCheckpoints prunes only, and does not when it fails to read the   *)
(* balances.                                                               *)
LEMMA UpdateLeave ==
    ASSUME NEW S, Sound(S), S.finalizedCheckpoint \in FinalizedCheckpoints,
           NEW jc \in Checkpoint, NEW fc \in Checkpoint, NEW ok \in BOOLEAN,
           BroughtFinalized(S, fc)
    PROVE  /\ OnlyDeadLeave(S, UpdateCheckpoints(S, jc, fc, ok))
           /\ Justifies(S, jc) /\ ~ok => SameTree(S, UpdateCheckpoints(S, jc, fc, ok))
<1> DEFINE J == SetJustified(S, jc)
           F == [J EXCEPT !.finalizedCheckpoint = fc]
           T == UpdateCheckpoints(S, jc, fc, ok)
<1>1. S \in Store
  BY DEF Sound
<1>2. J \in Store /\ SameTree(S, J)
  BY <1>1 DEF SetJustified, SameTree, Store
<1> HIDE DEF J
<1>3. F \in Store /\ SameTree(J, F) /\ F.finalizedCheckpoint = fc
  BY <1>2 DEF SameTree, Store
<1>4. Sound(J)
  BY <1>2, SameTreeSound
<1> HIDE DEF F
<1>5. Sound(F)
  BY <1>3, <1>4, SameTreeSound
<1>6. CASE (Justifies(S, jc) /\ ~ok) \/ ~Finalizes(S, fc)
  <2>1. T = J
    BY <1>6 DEF UpdateCheckpoints, J
  <2> HIDE DEF T
  <2> QED
    BY <1>2, <2>1 DEF OnlyDeadLeave, SameTree, T
<1>7. CASE ~((Justifies(S, jc) /\ ~ok) \/ ~Finalizes(S, fc))
  <2>1. T = Prune(F)
    BY <1>7 DEF UpdateCheckpoints, J, F
  <2>2. fc \in FinalizedCheckpoints
    BY <1>7 DEF Finalizes, BroughtFinalized
  <2>3. OnlyDeadLeave(F, T)
    BY <1>3, <1>5, <2>1, <2>2, PruneLeave
  <2>4. S.nodeByRoot = F.nodeByRoot
    BY <1>2, <1>3 DEF SameTree
  <2> HIDE DEF T
  <2>5. OnlyDeadLeave(S, T)
    BY <2>3, <2>4 DEF OnlyDeadLeave
  <2> QED
    BY <1>7, <2>5 DEF T
<1> QED
  BY <1>6, <1>7

(* P is S with b in it: Store.insert and Store.pullTips move no checkpoint *)
(* that is in force.                                                       *)
WithNode(S, b, P) ==
    /\ Sound(P)
    /\ S.nodeByRoot \subseteq P.nodeByRoot /\ b \in P.nodeByRoot
    /\ P.nodeByRoot \subseteq S.nodeByRoot \cup {b}
    /\ b \notin S.nodeByRoot => P.children[b] = {}
    /\ P.justifiedCheckpoint = S.justifiedCheckpoint
    /\ P.finalizedCheckpoint = S.finalizedCheckpoint

(* Store.insert.                                                           *)
LEMMA InsertWithNode ==
    ASSUME NEW S, Sound(S), NEW b \in Block \ {Anchor}, ~InsertFails(S, b)
    PROVE  WithNode(S, b, Insert(S, b, JC[b].epoch, FC[b].epoch))
<1> DEFINE I == Insert(S, b, JC[b].epoch, FC[b].epoch)
<1>1. JC[b].epoch \in Nat /\ FC[b].epoch \in Nat /\ S \in Store
  BY CheckpointTypes DEF Checkpoint, Sound
<1>2. Sound(I)
  BY <1>1, InsertSound
<1>3. CASE b \in S.nodeByRoot
  <2>1. I = S
    BY <1>3 DEF Insert
  <2> QED
    BY <1>3, <2>1 DEF WithNode
<1>4. CASE b \notin S.nodeByRoot
  <2>1. Parent[b] \in S.nodeByRoot
    BY <1>4 DEF InsertFails
  <2>2. Inserted(S, b, FC[b].epoch, I)
    BY <1>1, <1>4, <2>1, InsertFields, Zenon, ZenonT(20)
  <2>3. InsertedToo(S, b, JC[b].epoch, I)
    BY <1>1, <1>4, <2>1, InsertRest, Zenon, ZenonT(20)
  <2> HIDE DEF I
  <2>4. WithNode(S, b, I)
    BY <1>2, <2>2, <2>3 DEF WithNode, Inserted, InsertedToo
  <2> QED
    BY <2>4 DEF I
<1> QED
  BY <1>3, <1>4

(* pullTips.                                                               *)
LEMMA PullTipsWithNode ==
    ASSUME NEW S, NEW b \in Block, NEW I, WithNode(S, b, I)
    PROVE  WithNode(S, b, PullTips(I, b))
<1> DEFINE P == PullTips(I, b)
<1>1. OnlyPulled(I, P) /\ Sound(I)
  BY PullTipsFrame DEF WithNode, Sound
<1> HIDE DEF P
<1>2. Sound(P)
  BY <1>1, SameTreeSound DEF OnlyPulled
<1>3. WithNode(S, b, P)
  BY <1>1, <1>2 DEF WithNode, OnlyPulled, SameTree
<1> QED
  BY <1>3 DEF P

(* T is P after updateCheckpoints with jc and fc, and with b taken out     *)
(* again if that has failed; nodes of S have left for a reason.            *)
Outcome(S, P, jc, fc, T) ==
    /\ \/ T.finalizedCheckpoint = P.finalizedCheckpoint
       \/ Finalizes(P, fc) /\ T.finalizedCheckpoint = fc
    /\ Justifies(P, jc) => T.justifiedCheckpoint = jc
    /\ ~Justifies(P, jc) => T.justifiedCheckpoint = P.justifiedCheckpoint
    /\ T.unrealizedJustifiedCheckpoint = P.unrealizedJustifiedCheckpoint
    /\ T.unrealizedFinalizedCheckpoint = P.unrealizedFinalizedCheckpoint
    /\ T.unrealizedJustifiedEpoch = P.unrealizedJustifiedEpoch
    /\ T.nodeByRoot \subseteq P.nodeByRoot
    /\ OnlyDeadLeave(S, T)

(* updateCheckpoints, whether or not the balances can be read.             *)
LEMMA UpdateOutcome ==
    ASSUME NEW S, NEW b \in Block, NEW P, WithNode(S, b, P),
           P.finalizedCheckpoint \in FinalizedCheckpoints,
           NEW jc \in Checkpoint, NEW fc \in Checkpoint, NEW ok \in BOOLEAN,
           BroughtFinalized(P, fc)
    PROVE  Outcome(S, P, jc, fc, UpdateCheckpoints(P, jc, fc, ok))
<1> DEFINE U == UpdateCheckpoints(P, jc, fc, ok)
<1>1. Sound(P) /\ P \in Store /\ S.nodeByRoot \subseteq P.nodeByRoot
  BY DEF WithNode, Sound
<1>2. OnlyDeadLeave(P, U)
  BY <1>1, UpdateLeave
<1>3. /\ SameUnrealized(P, U)
      /\ \/ U.finalizedCheckpoint = P.finalizedCheckpoint
         \/ Finalizes(P, fc) /\ U.finalizedCheckpoint = fc
  BY <1>1, UpdateFinality
<1>4. /\ U.unrealizedJustifiedEpoch = P.unrealizedJustifiedEpoch
      /\ Justifies(P, jc) => U.justifiedCheckpoint = jc
      /\ ~Justifies(P, jc) => U.justifiedCheckpoint = P.justifiedCheckpoint
      /\ U.unrealizedJustifiedCheckpoint = P.unrealizedJustifiedCheckpoint
  BY <1>1, UpdateRest, SMT, SMTT(20)
<1> HIDE DEF U
<1>5. OnlyDeadLeave(S, U)
  BY <1>1, <1>2 DEF OnlyDeadLeave
<1>6. Outcome(S, P, jc, fc, U)
  BY <1>3, <1>4, <1>5 DEF Outcome, SameUnrealized
<1> QED
  BY <1>6 DEF U

(***************************************************************************)
(* InsertNode.  It fails only where the balances cannot be read, since the *)
(* blocks of the checkpoints it brings are known; and then it takes out    *)
(* the new node, which has no children yet.                                *)
(***************************************************************************)
LEMMA InsertNodeOutcome ==
    ASSUME NEW S, Sound(S), S.finalizedCheckpoint \in FinalizedCheckpoints,
           S.finalizedCheckpoint.root \in S.nodeByRoot,
           NEW b \in Block \ {Anchor}, ~InsertFails(S, b), NEW ok \in BOOLEAN,
           ok \/ b \notin S.nodeByRoot
    PROVE  LET I == Insert(S, b, JC[b].epoch, FC[b].epoch)
               c == NodeCheckpoints(I, b)
           IN  Outcome(S, PullTips(I, b), c.jc, c.fc, InsertNode(S, b, ok))
<1> DEFINE I == Insert(S, b, JC[b].epoch, FC[b].epoch)
           P == PullTips(I, b)
           c == NodeCheckpoints(I, b)
           U == UpdateCheckpoints(P, c.jc, c.fc, ok)
           T == InsertNode(S, b, ok)
<1>1. WithNode(S, b, I)
  BY InsertWithNode
<1>2. WithNode(S, b, P)
  <2> HIDE DEF I
  <2> QED
    BY <1>1, PullTipsWithNode
<1>3. /\ c.jc \in Checkpoint /\ c.fc \in Checkpoint
      /\ c.fc \in {FC[b], UF[b]}
  BY CheckpointTypes DEF NodeCheckpoints
<1>4. BroughtFinalized(S, c.fc)
  BY <1>3, CarriedKnown
<1>5. BroughtFinalized(P, c.fc)
  <2> HIDE DEF P, c
  <2> QED
    BY <1>2, <1>4 DEF BroughtFinalized, WithNode
<1>6. T = IF UpdateCheckpointsFails(I, c.jc, c.fc, ok) THEN RemoveNode(U, b) ELSE U
  BY DEF InsertNode, InsertNodeFails
<1> HIDE DEF I, c, P, T
<1>7. Sound(P) /\ P \in Store /\ P.finalizedCheckpoint \in FinalizedCheckpoints
  BY <1>2 DEF WithNode, Sound
<1>8. Outcome(S, P, c.jc, c.fc, U)
  BY <1>2, <1>3, <1>5, <1>7, UpdateOutcome
<1>9. CASE ~UpdateCheckpointsFails(I, c.jc, c.fc, ok)
  BY <1>6, <1>8, <1>9 DEF T, P, c, I
<1>10. CASE UpdateCheckpointsFails(I, c.jc, c.fc, ok)
  <2>1. Justifies(P, c.jc) /\ ~ok
    <3>1. Finalizes(I, c.fc) => c.fc.root \in I.nodeByRoot
      BY <1>1, <1>4 DEF Finalizes, BroughtFinalized, WithNode
    <3> QED
      BY <1>1, <1>2, <1>10, <3>1 DEF UpdateCheckpointsFails, Justifies, WithNode
  <2>2. SameTree(P, U) /\ Sound(U)
    BY <1>3, <1>5, <1>7, <2>1, UpdateLeave, UpdateCheckpointsSound
  <2> HIDE DEF U
  <2>3. b \in U.nodeByRoot /\ U.children[b] = {} /\ U \in Store /\ S.nodeByRoot \subseteq U.nodeByRoot
    BY <1>2, <2>1, <2>2 DEF SameTree, WithNode, Sound
  <2>4. Subtree(U, b) \subseteq {b}
    <3>1. {b} \subseteq Block /\ \A x \in Block : U.children[x] \subseteq Block
      BY <2>3 DEF Store
    <3>2. Closed(U.children, {b})
      BY <2>3 DEF Closed
    <3> QED
      BY <3>1, <3>2, ReachFacts DEF Subtree
  <2>5. T = RemoveNode(U, b)
    BY <1>6, <1>10
  <2>6. S.nodeByRoot \subseteq T.nodeByRoot
    <3>1. U.nodeByRoot \ {b} \subseteq T.nodeByRoot
      BY <2>3, <2>4, <2>5 DEF RemoveNode, Store
    <3> QED
      BY <2>1, <2>3, <3>1
  <2>7. SameUnrealized(U, T) /\ T.finalizedCheckpoint = U.finalizedCheckpoint
    BY <2>3, <2>5, RemoveNodeFinality
  <2>8. /\ T.unrealizedJustifiedEpoch = U.unrealizedJustifiedEpoch
        /\ T.justifiedCheckpoint = U.justifiedCheckpoint
        /\ T.unrealizedJustifiedCheckpoint = U.unrealizedJustifiedCheckpoint
    BY <2>3, <2>5, RemoveNodeRest, SMT, SMTT(20)
  <2>9. OnlyDeadLeave(S, T)
    BY <2>6 DEF OnlyDeadLeave
  <2>10. Outcome(S, P, c.jc, c.fc, T)
    BY <1>8, <2>7, <2>8, <2>9 DEF Outcome, SameUnrealized
  <2> QED
    BY <2>10 DEF T, P, c, I
<1> QED
  BY <1>9, <1>10

(* InsertChain, with the checkpoints of the state of the block.            *)
LEMMA InsertChainOutcome ==
    ASSUME NEW S, Sound(S), S.finalizedCheckpoint \in FinalizedCheckpoints,
           S.finalizedCheckpoint.root \in S.nodeByRoot,
           NEW b \in Block \ {Anchor}, ~InsertFails(S, b), NEW ok \in BOOLEAN
    PROVE  Outcome(S, Insert(S, b, JC[b].epoch, FC[b].epoch), JC[b], FC[b], InsertChain(S, b, ok))
<1> DEFINE I == Insert(S, b, JC[b].epoch, FC[b].epoch)
<1>1. WithNode(S, b, I)
  BY InsertWithNode
<1>2. JC[b] \in Checkpoint /\ FC[b] \in Checkpoint /\ BroughtFinalized(S, FC[b])
  BY CheckpointTypes, CarriedKnown
<1>3. InsertChain(S, b, ok) = UpdateCheckpoints(I, JC[b], FC[b], ok)
  BY DEF InsertChain
<1> HIDE DEF I
<1>4. BroughtFinalized(I, FC[b]) /\ I.finalizedCheckpoint \in FinalizedCheckpoints
  BY <1>1, <1>2 DEF BroughtFinalized, WithNode
<1>5. Outcome(S, I, JC[b], FC[b], InsertChain(S, b, ok))
  BY <1>1, <1>2, <1>3, <1>4, UpdateOutcome
<1> QED
  BY <1>5 DEF I

-----------------------------------------------------------------------------
(* The block of the finalized checkpoint is always known *)

(* The block of the finalized checkpoint of S is among the nodes, and that *)
(* of the unrealized one, if it is later.                                  *)
FinalRootedIn(nodes, S) ==
    /\ S.finalizedCheckpoint.root \in nodes
    /\ S.unrealizedFinalizedCheckpoint.epoch > S.finalizedCheckpoint.epoch =>
           S.unrealizedFinalizedCheckpoint.root \in nodes

FinalRooted(S) == FinalRootedIn(S.nodeByRoot, S)

(* A later unrealized finalized checkpoint can be finalized.               *)
LEMMA UnrealizedIsFinal ==
    ASSUME NEW S \in Store, Provenance(S),
           S.unrealizedFinalizedCheckpoint.epoch > S.finalizedCheckpoint.epoch
    PROVE  S.unrealizedFinalizedCheckpoint \in FinalizedCheckpoints
<1> DEFINE uf == S.unrealizedFinalizedCheckpoint
           fc == S.finalizedCheckpoint
<1>1. /\ fc.epoch \in Nat /\ uf.epoch \in Nat /\ fc.epoch >= AnchorEpoch /\ AnchorEpoch \in Nat
  BY EpochsAreNat, FinalizedType, ConstantTypes DEF Provenance
<1>2. uf # NoCheckpoint
  BY <1>1, SMT, SMTT(20) DEF NoCheckpoint
<1>3. PICK b \in Block : uf = UF[b]
  BY <1>2 DEF Provenance
<1>4. UF[b].epoch > AnchorEpoch
  BY <1>1, <1>3, SMT, SMTT(20)
<1> QED
  BY <1>3, <1>4, CanBeFinalized

(* The blocks of the finalized checkpoints are not among those that leave. *)
LEMMA FinalRootedStays ==
    ASSUME NEW S, NEW T \in Store, Provenance(T), OnlyDeadLeave(S, T),
           FinalRootedIn(S.nodeByRoot, T)
    PROVE  FinalRooted(T)
<1> DEFINE uf == T.unrealizedFinalizedCheckpoint
           fc == T.finalizedCheckpoint
<1>1. fc \in FinalizedCheckpoints /\ fc \in JustifiedCheckpoints
  BY DEF Provenance, JustifiedCheckpoints
<1>2. fc.epoch \in Nat /\ uf.epoch \in Nat
  BY EpochsAreNat
<1>3. fc.root \in T.nodeByRoot
  BY <1>1, <1>2, RootsStay, SMT, SMTT(20) DEF FinalRootedIn
<1>4. ASSUME uf.epoch > fc.epoch PROVE uf.root \in T.nodeByRoot
  <2>1. uf \in JustifiedCheckpoints
    BY <1>4, UnrealizedIsFinal DEF JustifiedCheckpoints
  <2>2. uf.epoch >= fc.epoch /\ uf.root \in S.nodeByRoot
    BY <1>2, <1>4, SMT, SMTT(20) DEF FinalRootedIn
  <2> QED
    BY <1>1, <2>1, <2>2, RootsStay
<1> QED
  BY <1>3, <1>4 DEF FinalRooted, FinalRootedIn

(* Whatever updateCheckpoints has taken over from the block.               *)
LEMMA OutcomeRooted ==
    ASSUME NEW S \in Store, FinalSound(S), FinalRooted(S), NEW b \in Block,
           NEW P \in Store, P.finalizedCheckpoint = S.finalizedCheckpoint,
           P.unrealizedFinalizedCheckpoint \in {S.unrealizedFinalizedCheckpoint, UF[b]},
           NEW jc, NEW fc \in Checkpoint, BroughtFinalized(S, fc), BroughtFinalized(S, UF[b]),
           NEW T \in Store, FinalSound(T), Outcome(S, P, jc, fc, T)
    PROVE  FinalRooted(T)
<1>1. /\ S.finalizedCheckpoint.epoch \in Nat /\ T.finalizedCheckpoint.epoch \in Nat
      /\ T.unrealizedFinalizedCheckpoint.epoch \in Nat /\ fc.epoch \in Nat
  BY EpochsAreNat DEF Checkpoint
<1>2. /\ T.finalizedCheckpoint = S.finalizedCheckpoint
         \/ (T.finalizedCheckpoint = fc /\ fc.epoch > S.finalizedCheckpoint.epoch)
      /\ T.unrealizedFinalizedCheckpoint = P.unrealizedFinalizedCheckpoint
      /\ OnlyDeadLeave(S, T)
  BY DEF Outcome, Finalizes
<1>3. T.finalizedCheckpoint.root \in S.nodeByRoot
  BY <1>2 DEF BroughtFinalized, FinalRooted, FinalRootedIn
<1>4. T.finalizedCheckpoint.epoch >= S.finalizedCheckpoint.epoch
  BY <1>1, <1>2, SMT, SMTT(20)
<1>5. ASSUME T.unrealizedFinalizedCheckpoint.epoch > T.finalizedCheckpoint.epoch
      PROVE  T.unrealizedFinalizedCheckpoint.root \in S.nodeByRoot
  <2>1. T.unrealizedFinalizedCheckpoint.epoch > S.finalizedCheckpoint.epoch
    BY <1>1, <1>4, <1>5, SMT, SMTT(20)
  <2> QED
    BY <1>2, <2>1 DEF BroughtFinalized, FinalRooted, FinalRootedIn
<1>6. FinalRootedIn(S.nodeByRoot, T)
  BY <1>3, <1>5 DEF FinalRootedIn
<1> QED
  BY <1>2, <1>6, FinalRootedStays DEF FinalSound

(* What Store.insert and Store.pullTips do to the unrealized finalized     *)
(* checkpoint.                                                             *)
LEMMA InsertUnrealized ==
    ASSUME NEW S, Sound(S), NEW b \in Block \ {Anchor}, ~InsertFails(S, b)
    PROVE  LET I == Insert(S, b, JC[b].epoch, FC[b].epoch)
           IN  /\ I.unrealizedFinalizedCheckpoint = S.unrealizedFinalizedCheckpoint
               /\ I.unrealizedJustifiedCheckpoint = S.unrealizedJustifiedCheckpoint
               /\ PullTips(I, b).unrealizedFinalizedCheckpoint
                      \in {S.unrealizedFinalizedCheckpoint, UF[b]}
<1> DEFINE I == Insert(S, b, JC[b].epoch, FC[b].epoch)
           P == PullTips(I, b)
<1>1. JC[b].epoch \in Nat /\ FC[b].epoch \in Nat /\ S \in Store
  BY CheckpointTypes DEF Checkpoint, Sound
<1>2. /\ I.unrealizedFinalizedCheckpoint = S.unrealizedFinalizedCheckpoint
      /\ I.unrealizedJustifiedCheckpoint = S.unrealizedJustifiedCheckpoint
  <2>1. CASE b \in S.nodeByRoot
    BY <2>1 DEF Insert
  <2>2. CASE b \notin S.nodeByRoot
    <3>1. Parent[b] \in S.nodeByRoot
      BY <2>2 DEF InsertFails
    <3>2. Inserted(S, b, FC[b].epoch, I) /\ InsertedToo(S, b, JC[b].epoch, I)
      BY <1>1, <2>2, <3>1, InsertFields, InsertRest, Zenon, ZenonT(20)
    <3> HIDE DEF I
    <3> QED
      BY <3>2 DEF Inserted, InsertedToo
  <2> QED
    BY <2>1, <2>2
<1>3. I \in Store
  BY <1>1, InsertSound DEF Sound
<1> HIDE DEF I
<1>4. P = I \/ PulledEarly(I, b, P) \/ PulledFully(I, b, P)
  BY <1>3, PullTipsFields
<1> HIDE DEF P
<1>5. P.unrealizedFinalizedCheckpoint \in {I.unrealizedFinalizedCheckpoint, UF[b]}
  BY <1>4 DEF PulledEarly, PulledFully
<1> QED
  BY <1>2, <1>5 DEF P, I

(* InsertNode lets dead blocks leave only, and adds one block at most.     *)
LEMMA InsertNodeRooted ==
    ASSUME NEW S, Sound(S), FinalSound(S), FinalRooted(S), NEW b \in Block \ {Anchor},
           NEW ok \in BOOLEAN, ok \/ b \notin S.nodeByRoot
    PROVE  /\ OnlyDeadLeave(S, InsertNode(S, b, ok))
           /\ FinalRooted(InsertNode(S, b, ok))
           /\ InsertNode(S, b, ok).nodeByRoot \subseteq S.nodeByRoot \cup {b}
<1> DEFINE I == Insert(S, b, JC[b].epoch, FC[b].epoch)
           P == PullTips(I, b)
           c == NodeCheckpoints(I, b)
           T == InsertNode(S, b, ok)
<1>1. CASE InsertFails(S, b)
  BY <1>1 DEF InsertNode, OnlyDeadLeave
<1>2. CASE ~InsertFails(S, b)
  <2>1. S \in Store /\ S.finalizedCheckpoint \in FinalizedCheckpoints
    BY DEF Sound, FinalSound, Provenance
  <2>2. S.finalizedCheckpoint.root \in S.nodeByRoot
    BY DEF FinalRooted, FinalRootedIn
  <2>3. Outcome(S, P, c.jc, c.fc, T)
    BY <1>2, <2>1, <2>2, InsertNodeOutcome
  <2>4. c.fc \in {FC[b], UF[b]} /\ c.fc \in Checkpoint
    BY CheckpointTypes DEF NodeCheckpoints
  <2>5. BroughtFinalized(S, c.fc) /\ BroughtFinalized(S, UF[b])
    BY <1>2, <2>1, <2>2, <2>4, CarriedKnown
  <2>6. P.unrealizedFinalizedCheckpoint \in {S.unrealizedFinalizedCheckpoint, UF[b]}
    BY <1>2, InsertUnrealized
  <2>7. WithNode(S, b, I)
    BY <1>2, InsertWithNode
  <2>8. Sound(T) /\ FinalSound(T) /\ T \in Store
    BY InsertNodeSound, InsertNodeFinality DEF Sound
  <2> HIDE DEF I, c, T
  <2>9. WithNode(S, b, P)
    BY <2>7, PullTipsWithNode
  <2> HIDE DEF P
  <2>10. P \in Store /\ P.finalizedCheckpoint = S.finalizedCheckpoint
    BY <2>9 DEF WithNode, Sound
  <2>11. FinalRooted(T)
    BY <2>1, <2>3, <2>4, <2>5, <2>6, <2>8, <2>10, OutcomeRooted
  <2>12. OnlyDeadLeave(S, T) /\ T.nodeByRoot \subseteq S.nodeByRoot \cup {b}
    BY <2>3, <2>9 DEF Outcome, WithNode
  <2> QED
    BY <2>11, <2>12 DEF T
<1> QED
  BY <1>1, <1>2

(* InsertChain, while the balances can be read.                            *)
LEMMA InsertChainRooted ==
    ASSUME NEW S, Sound(S), FinalSound(S), FinalRooted(S), NEW b \in Block \ {Anchor},
           NEW ok \in BOOLEAN, ok
    PROVE  /\ OnlyDeadLeave(S, InsertChain(S, b, ok))
           /\ FinalRooted(InsertChain(S, b, ok))
<1> DEFINE I == Insert(S, b, JC[b].epoch, FC[b].epoch)
           T == InsertChain(S, b, ok)
<1>1. CASE InsertFails(S, b)
  BY <1>1 DEF InsertChain, OnlyDeadLeave
<1>2. CASE ~InsertFails(S, b)
  <2>1. S \in Store /\ S.finalizedCheckpoint \in FinalizedCheckpoints
    BY DEF Sound, FinalSound, Provenance
  <2>2. S.finalizedCheckpoint.root \in S.nodeByRoot
    BY DEF FinalRooted, FinalRootedIn
  <2>3. Outcome(S, I, JC[b], FC[b], T)
    BY <1>2, <2>1, <2>2, InsertChainOutcome
  <2>4. BroughtFinalized(S, FC[b]) /\ BroughtFinalized(S, UF[b]) /\ FC[b] \in Checkpoint
    BY <1>2, <2>1, <2>2, CarriedKnown, CheckpointTypes
  <2>5. I.unrealizedFinalizedCheckpoint \in {S.unrealizedFinalizedCheckpoint, UF[b]}
    BY <1>2, InsertUnrealized
  <2>6. WithNode(S, b, I)
    BY <1>2, InsertWithNode
  <2>7. Sound(T) /\ FinalSound(T) /\ T \in Store
    BY InsertChainSound, InsertChainFinality DEF Sound
  <2> HIDE DEF I, T
  <2>8. I \in Store /\ I.finalizedCheckpoint = S.finalizedCheckpoint
    BY <2>6 DEF WithNode, Sound
  <2>9. FinalRooted(T)
    BY <2>1, <2>3, <2>4, <2>5, <2>7, <2>8, OutcomeRooted
  <2>10. OnlyDeadLeave(S, T)
    BY <2>3 DEF Outcome
  <2> QED
    BY <2>9, <2>10 DEF T
<1> QED
  BY <1>1, <1>2

(* What the reset of the boost leaves.                                     *)
SameButBoost(S, C) ==
    /\ C \in Store /\ SameTree(S, C)
    /\ C.target = S.target
    /\ C.unrealizedJustifiedEpoch = S.unrealizedJustifiedEpoch
    /\ C.unrealizedFinalizedEpoch = S.unrealizedFinalizedEpoch
    /\ C.justifiedCheckpoint = S.justifiedCheckpoint
    /\ C.finalizedCheckpoint = S.finalizedCheckpoint
    /\ C.unrealizedJustifiedCheckpoint = S.unrealizedJustifiedCheckpoint
    /\ C.unrealizedFinalizedCheckpoint = S.unrealizedFinalizedCheckpoint

(* NewSlot begins with that reset.                                         *)
LEMMA ClearBoostRest ==
    ASSUME NEW S \in Store
    PROVE  SameButBoost(S, ClearBoost(S))
<1>1. ZeroHash \in Root
  BY DEF Root
<1> QED
  BY <1>1 DEF SameButBoost, SameTree, ClearBoost, Store

(* The turn of an epoch, also one that stops half-way: the block of the    *)
(* checkpoint that becomes finalized is known.                             *)
LEMMA TurnRooted ==
    ASSUME NEW S \in Store, FinalSound(S), FinalRooted(S), NEW done, NEW jc, NEW U,
           Turned(S, jc, TurnedFinalized(S, done), U)
    PROVE  FinalRooted(U) /\ U.finalizedCheckpoint \in FinalizedCheckpoints
<1> DEFINE uf == S.unrealizedFinalizedCheckpoint
           fc == S.finalizedCheckpoint
<1>1. /\ U.nodeByRoot = S.nodeByRoot /\ U.unrealizedFinalizedCheckpoint = uf
      /\ U.finalizedCheckpoint = TurnedFinalized(S, done)
  BY DEF Turned, SameTree
<1>2. fc \in FinalizedCheckpoints /\ uf.epoch \in Nat
  BY EpochsAreNat DEF FinalSound, Provenance
<1>3. CASE AheadFinalized(S) \cap done = {}
  BY <1>1, <1>2, <1>3 DEF TurnedFinalized, FinalRooted, FinalRootedIn
<1>4. CASE AheadFinalized(S) \cap done # {}
  <2>1. U.finalizedCheckpoint = uf
    BY <1>1, <1>4 DEF TurnedFinalized
  <2>2. uf \in FinalizedCheckpoints /\ uf.epoch > fc.epoch
    BY <1>4, AheadIsLater
  <2>3. ~(uf.epoch > uf.epoch)
    BY <1>2, SMTT(20), SMTT(40)
  <2> QED
    BY <1>1, <2>1, <2>2, <2>3 DEF FinalRooted, FinalRootedIn
<1> QED
  BY <1>3, <1>4

(* NewSlot, with or without the turn of an epoch.                          *)
LEMMA NewSlotRooted ==
    ASSUME NEW S, Sound(S), FinalSound(S), FinalRooted(S), NEW s
    PROVE  OnlyDeadLeave(S, NewSlot(S, s)) /\ FinalRooted(NewSlot(S, s))
<1> DEFINE C == ClearBoost(S)
           U == UpdateUnrealizedCheckpoints(C)
           T == NewSlot(S, s)
<1>1. S \in Store
  BY DEF Sound
<1>2. SameButBoost(S, C)
  BY <1>1, ClearBoostRest
<1>3. T = C \/ T = Prune(U)
  BY DEF NewSlot
<1>4. T \in Store /\ FinalSound(T)
  BY NewSlotSound, NewSlotFinality DEF Sound
<1> HIDE DEF C
<1>5. Sound(C) /\ C \in Store
  BY <1>2, SameTreeSound DEF SameButBoost
<1>6. FinalSound(C) /\ FinalRooted(C)
  BY <1>2 DEF SameButBoost, SameTree, FinalSound, Provenance, NotAhead, FinalRooted, FinalRootedIn
<1>7. Turned(C, TurnedJustified(C), TurnedFinalized(C, C.nodeByRoot), U)
  BY <1>5, UpdateUnrealizedTurns
<1> HIDE DEF U, T
<1>8. FinalRooted(U) /\ U.finalizedCheckpoint \in FinalizedCheckpoints /\ U \in Store
  BY <1>5, <1>6, <1>7, TurnRooted DEF Turned
<1>9. Sound(U) /\ U.nodeByRoot = S.nodeByRoot
  BY <1>2, <1>5, <1>7, SameTreeSound DEF Turned, SameButBoost, SameTree
<1>10. CASE T = C
  BY <1>2, <1>6, <1>10 DEF OnlyDeadLeave, SameButBoost, SameTree, T
<1>11. CASE T = Prune(U)
  <2>1. OnlyDeadLeave(U, T)
    BY <1>8, <1>9, <1>11, PruneLeave
  <2>2. OnlyDeadLeave(S, T)
    BY <1>9, <2>1 DEF OnlyDeadLeave
  <2>3. /\ T.finalizedCheckpoint = U.finalizedCheckpoint
        /\ T.unrealizedFinalizedCheckpoint = U.unrealizedFinalizedCheckpoint
    BY <1>8, <1>11, PruneFinality DEF SameUnrealized
  <2>4. FinalRootedIn(U.nodeByRoot, T)
    BY <1>8, <2>3 DEF FinalRooted, FinalRootedIn
  <2>5. FinalRooted(T)
    BY <1>4, <2>1, <2>4, FinalRootedStays DEF FinalSound
  <2> QED
    BY <2>2, <2>5 DEF T
<1> QED
  BY <1>3, <1>10, <1>11

(* NewSlot with a turn that stops where the balances cannot be read.       *)
LEMMA NewSlotFailingRooted ==
    ASSUME NEW S, Sound(S), FinalSound(S), FinalRooted(S), NEW done, NEW n
    PROVE  /\ OnlyDeadLeave(S, NewSlotFailing(S, done, n))
           /\ FinalRooted(NewSlotFailing(S, done, n))
<1> DEFINE C == ClearBoost(S)
           T == NewSlotFailing(S, done, n)
<1>1. S \in Store
  BY DEF Sound
<1>2. SameButBoost(S, C)
  BY <1>1, ClearBoostRest
<1>3. T = UpdateUnrealizedCheckpointsFailing(C, done, n)
  BY DEF NewSlotFailing
<1> HIDE DEF C, T
<1>4. C \in Store
  BY <1>2 DEF SameButBoost
<1>5. FinalSound(C) /\ FinalRooted(C)
  BY <1>2 DEF SameButBoost, SameTree, FinalSound, Provenance, NotAhead, FinalRooted, FinalRootedIn
<1>6. Turned(C, C.unrealizedJustifiedCheckpoint, TurnedFinalized(C, done), T)
  BY <1>3, <1>4, UpdateUnrealizedTurns
<1>7. FinalRooted(T)
  BY <1>4, <1>5, <1>6, TurnRooted
<1>8. OnlyDeadLeave(S, T)
  BY <1>2, <1>6 DEF Turned, SameButBoost, SameTree, OnlyDeadLeave
<1> QED
  BY <1>7, <1>8 DEF T

(* No block is imported twice at a time, and without batches none is in    *)
(* the store while it waits for the lock.                                  *)
ImportsAreNew ==
    /\ \A i, j \in importing : i.block = j.block => i = j
    /\ ~Batches => \A i \in importing : i.block \notin store.nodeByRoot

RInv == FInv /\ FinalRooted(store) /\ ImportsAreNew

(* At start-up the anchor is finalized and known, and no import waits.     *)
LEMMA InitRInv ==
    Init => RInv
<1> SUFFICES ASSUME Init PROVE FinalRooted(store) /\ ImportsAreNew
  BY InitFInv DEF RInv
<1>1. /\ store.finalizedCheckpoint = StartCheckpoint
      /\ store.unrealizedFinalizedCheckpoint = NoCheckpoint
      /\ store.nodeByRoot = {Anchor}
  BY SMT, SMTT(20) DEF Init, InitStore, StartCheckpoint, NoCheckpoint
<1>2. ~(NoCheckpoint.epoch > StartCheckpoint.epoch) /\ StartCheckpoint.root = Anchor
  BY ConstantTypes, SMT, SMTT(20) DEF NoCheckpoint, StartCheckpoint
<1>3. ImportsAreNew
  BY DEF Init, ImportsAreNew
<1> QED
  BY <1>1, <1>2, <1>3 DEF FinalRooted, FinalRootedIn

(* Marking nodes as validated keeps the nodes and the checkpoints.         *)
LEMMA ValidLeave ==
    ASSUME NEW S \in Store, NEW T \in Store, NEW n \in Block,
           NEW V, V = T \/ V = SetOptimisticToValid(T, n)
    PROVE  /\ OnlyDeadLeave(S, T) => OnlyDeadLeave(S, V)
           /\ FinalRooted(T) => FinalRooted(V)
           /\ V.nodeByRoot = T.nodeByRoot
<1>1. /\ V.nodeByRoot = T.nodeByRoot
      /\ V.finalizedCheckpoint = T.finalizedCheckpoint
      /\ V.unrealizedFinalizedCheckpoint = T.unrealizedFinalizedCheckpoint
  BY DEF SetOptimisticToValid, Store
<1> QED
  BY <1>1 DEF OnlyDeadLeave, FinalRooted, FinalRootedIn

(* Every step keeps the blocks of the finalized checkpoints, and lets only *)
(* dead blocks leave.                                                      *)
LEMMA NextRInv ==
    ASSUME TrueLVH, NoFailedBatch, RInv, [Next]_vars
    PROVE  RInv' /\ OnlyDeadLeave(store, store')
<1>1. FInv'
  BY NextFInv DEF RInv
<1>2. /\ Sound(store) /\ FinalSound(store) /\ FinalRooted(store) /\ store \in Store
      /\ Sound(store') /\ FinalSound(store') /\ store' \in Store /\ ImportsAreNew
      /\ \A i \in importing : i.block \in Block \ {Anchor}
  BY <1>1 DEF RInv, FInv, IInv, Sound, Waiting
<1> SUFFICES FinalRooted(store') /\ ImportsAreNew' /\ OnlyDeadLeave(store, store')
  BY <1>1 DEF RInv, FinalRooted, FinalRootedIn
<1>3. ASSUME importing' \subseteq importing, store'.nodeByRoot \subseteq store.nodeByRoot
      PROVE  ImportsAreNew'
  BY <1>2, <1>3 DEF ImportsAreNew
<1>4. CASE UNCHANGED <<store, importing>>
  BY <1>2, <1>3, <1>4 DEF OnlyDeadLeave
<1>5. CASE OnTick
  <2>1. store' = NewSlot(store, tick + 1) /\ importing' = importing
    BY <1>5 DEF OnTick
  <2>2. KeepsEpochs(store, store')
    BY <1>2, <2>1, NewSlotKeepsEpochs
  <2> QED
    BY <1>2, <1>3, <2>1, <2>2, NewSlotRooted DEF KeepsEpochs
<1>6. CASE OnTickFailing
  <2>1. PICK n \in store.nodeByRoot, done \in SUBSET store.nodeByRoot :
          store' = NewSlotFailing(store, done, n)
    BY <1>6 DEF OnTickFailing
  <2>2. KeepsEpochs(store, store') /\ importing' = importing
    BY <1>2, <1>6, <2>1, NewSlotKeepsEpochs DEF OnTickFailing
  <2> QED
    BY <1>2, <1>3, <2>1, <2>2, NewSlotFailingRooted DEF KeepsEpochs
<1>7. ASSUME NEW b \in Block \ {Anchor}, NEW valid \in BOOLEAN, StartImport(b, valid)
      PROVE  FinalRooted(store') /\ ImportsAreNew' /\ OnlyDeadLeave(store, store')
  <2>1. /\ store' = store /\ b \notin store.nodeByRoot
        /\ importing' = importing \cup {[block |-> b, valid |-> valid]}
        /\ \A i \in importing : i.block # b
    BY <1>7 DEF StartImport
  <2>2. ImportsAreNew'
    BY <1>2, <2>1, SMTT(20), SMTT(40) DEF ImportsAreNew
  <2> QED
    BY <1>2, <2>1, <2>2 DEF OnlyDeadLeave
<1>8. ASSUME NEW i \in importing, NEW ok \in BalancesOutcomes, FinishImport(i, ok)
      PROVE  FinalRooted(store') /\ ImportsAreNew' /\ OnlyDeadLeave(store, store')
  <2> DEFINE T == InsertNode(store, i.block, ok)
             b == i.block
  <2>1. b \in Block \ {Anchor} /\ ok \in BOOLEAN
    BY <1>2 DEF BalancesOutcomes
  <2>2. ok \/ b \notin store.nodeByRoot
    BY <1>2 DEF BalancesOutcomes, NoFailedBatch, ImportsAreNew
  <2>3. /\ OnlyDeadLeave(store, T) /\ FinalRooted(T)
        /\ T.nodeByRoot \subseteq store.nodeByRoot \cup {b}
    BY <1>2, <2>1, <2>2, InsertNodeRooted
  <2>4. store' = T \/ store' = SetOptimisticToValid(T, b)
    BY <1>8 DEF FinishImport
  <2>5. T \in Store
    BY <1>2, <2>1, InsertNodeSound DEF Sound
  <2> HIDE DEF T
  <2>6. /\ OnlyDeadLeave(store, store') /\ FinalRooted(store')
        /\ store'.nodeByRoot = T.nodeByRoot
    BY <1>2, <2>1, <2>3, <2>4, <2>5, ValidLeave
  <2>7. importing' = importing \ {i}
    BY <1>8 DEF FinishImport
  <2>8. ImportsAreNew'
    BY <1>2, <2>3, <2>6, <2>7 DEF ImportsAreNew
  <2> QED
    BY <2>6, <2>8
<1>9. ASSUME NEW b \in Block \ {Anchor}, NEW valid \in BOOLEAN, NEW ok \in BalancesOutcomes,
             ImportBatch(b, valid, ok)
      PROVE  FinalRooted(store') /\ ImportsAreNew' /\ OnlyDeadLeave(store, store')
  <2> DEFINE T == InsertChain(store, b, ok)
  <2>1. ok \in BOOLEAN /\ ok
    BY <1>9, ConstantTypes DEF ImportBatch, NoFailedBatch, BalancesOutcomes
  <2>2. OnlyDeadLeave(store, T) /\ FinalRooted(T)
    BY <1>2, <2>1, InsertChainRooted
  <2>3. (store' = T \/ store' = SetOptimisticToValid(T, b)) /\ importing' = importing /\ Batches
    BY <1>9 DEF ImportBatch
  <2>4. T \in Store
    BY <1>2, InsertChainSound DEF Sound
  <2> HIDE DEF T
  <2>5. OnlyDeadLeave(store, store') /\ FinalRooted(store')
    BY <1>2, <2>2, <2>3, <2>4, ValidLeave
  <2> QED
    BY <1>2, <2>3, <2>5 DEF ImportsAreNew
<1>10. ASSUME NEW n \in Block, PayloadValid(n)
       PROVE  FinalRooted(store') /\ ImportsAreNew' /\ OnlyDeadLeave(store, store')
  <2>1. store' = SetOptimisticToValid(store, n) /\ importing' = importing
    BY <1>10 DEF PayloadValid
  <2>2. OnlyDeadLeave(store, store)
    BY DEF OnlyDeadLeave
  <2> QED
    BY <1>2, <1>3, <2>1, <2>2, ValidLeave
<1>11. ASSUME NEW b \in Bad, NEW lvh \in LatestValidHashes(b), PayloadInvalid(b, lvh)
       PROVE  FinalRooted(store') /\ ImportsAreNew' /\ OnlyDeadLeave(store, store')
  <2>1. store' = SetOptimisticToInvalid(store, b, lvh) /\ importing' = importing
    BY <1>11 DEF PayloadInvalid
  <2>2. b \in Block /\ lvh \in Root
    BY ConstantTypes, LatestValidHashesType
  <2>3. OnlyDeadLeave(store, store')
    BY <1>2, <2>1, InvalidLeave
  <2>4. SameUnrealized(store, store') /\ store'.finalizedCheckpoint = store.finalizedCheckpoint
    BY <1>2, <2>1, <2>2, InvalidFinality
  <2>5. FinalRootedIn(store.nodeByRoot, store')
    BY <1>2, <2>4 DEF FinalRooted, FinalRootedIn, SameUnrealized
  <2>6. FinalRooted(store')
    BY <1>2, <2>3, <2>5, FinalRootedStays DEF FinalSound
  <2> QED
    BY <1>3, <2>1, <2>3, <2>4, <2>6 DEF SameUnrealized
<1> QED
  BY <1>4, <1>5, <1>6, <1>7, <1>8, <1>9, <1>10, <1>11
  DEF Next, NextSlot, Deadline, vars

(***************************************************************************)
(* Blocks leave the store for a reason only: their payload is invalid, or  *)
(* the finalized checkpoint excludes them.  prune, removeNode and the      *)
(* failing end of InsertNode take out nothing else, if the engine reports  *)
(* latest valid hashes correctly and no batch import fails half-way.       *)
(***************************************************************************)
THEOREM OnlyDeadBlocksLeaveTheStore ==
    ASSUME TrueLVH, NoFailedBatch
    PROVE  Spec => OnlyDeadBlocksLeave
<1>1. ASSUME RInv, [Next]_vars PROVE RInv' /\ [OnlyDeadLeave(store, store')]_vars
  BY <1>1, NextRInv
<1>2. OnlyDeadBlocksLeave <=> [][OnlyDeadLeave(store, store')]_vars
  BY DEF OnlyDeadBlocksLeave, OnlyDeadLeave
<1> QED
  BY <1>1, <1>2, InitRInv, PTL DEF Spec
=============================================================================
