-------------------- MODULE ForkChoiceCheckpointsProofs ---------------------
(***************************************************************************)
(* Proofs about the justified checkpoint of ForkChoiceTree: it never moves *)
(* back, the blocks of both checkpoints are in the store, the justified    *)
(* one a descendant of the finalized one, and no node votes with a source  *)
(* later than it.                                                          *)
(*                                                                         *)
(* The argument is that of ForkChoiceFinalityProofs, with a difference:    *)
(* pullTips replaces the unrealized justified checkpoint together with the *)
(* unrealized finalized one, whatever its epoch.  The theorems therefore   *)
(* assume of the blocks that later finality never comes with an earlier    *)
(* justification (NoRollback).                                             *)
(***************************************************************************)
EXTENDS ForkChoiceFinalityProofs

USE ZenonT(10), SMTT(20), ZenonT(30), SMTT(40)

-----------------------------------------------------------------------------
(* The justified checkpoint *)

(* A block that has later finality has no earlier justification: what      *)
(* fails where validators that switch forks finalize on the one and        *)
(* justify later on the other.                                             *)
NoRollback ==
    \A b, c \in Block : UF[b].epoch > UF[c].epoch => UJ[b].epoch >= UJ[c].epoch

(***************************************************************************)
(* The justified checkpoint is one that can be justified, not older than   *)
(* the finalized one.  The unrealized justified checkpoint was recorded    *)
(* with an unrealized finalized one no later than the present.  Neither    *)
(* the unrealized finalized checkpoint nor an unrealized justified epoch   *)
(* of a node is ahead of all that the store knows to be justified, up to   *)
(* the epoch e of a block whose insertion is not complete (0 for none).    *)
(***************************************************************************)
JustSound(S, e) ==
    /\ S.justifiedCheckpoint \in JustifiedCheckpoints
    /\ S.justifiedCheckpoint.epoch >= S.finalizedCheckpoint.epoch
    /\ \/ S.unrealizedJustifiedCheckpoint = NoCheckpoint
       \/ \E c \in Block : /\ S.unrealizedJustifiedCheckpoint = UJ[c]
                           /\ UF[c].epoch <= S.unrealizedFinalizedCheckpoint.epoch
    /\ \/ S.unrealizedFinalizedCheckpoint.epoch <= S.justifiedCheckpoint.epoch
       \/ S.unrealizedFinalizedCheckpoint.epoch <= e
    /\ \A n \in S.nodeByRoot :
           \/ S.unrealizedJustifiedEpoch[n] <= S.justifiedCheckpoint.epoch
           \/ S.unrealizedJustifiedEpoch[n] <= S.unrealizedJustifiedCheckpoint.epoch
           \/ S.unrealizedJustifiedEpoch[n] <= e

(* As FinalRootedIn, for the justified checkpoints.                        *)
JustRootedIn(nodes, S) ==
    /\ S.justifiedCheckpoint.root \in nodes
    /\ S.unrealizedJustifiedCheckpoint.epoch > S.justifiedCheckpoint.epoch =>
           S.unrealizedJustifiedCheckpoint.root \in nodes

JustRooted(S) == JustRootedIn(S.nodeByRoot, S)

(* All epochs that are compared are natural numbers.                       *)
LEMMA JustEpochsAreNat ==
    ASSUME NEW S \in Store
    PROVE  /\ S.finalizedCheckpoint.epoch \in Nat
           /\ S.justifiedCheckpoint.epoch \in Nat
           /\ S.unrealizedJustifiedCheckpoint.epoch \in Nat
           /\ S.unrealizedFinalizedCheckpoint.epoch \in Nat
           /\ \A n \in Block : S.unrealizedJustifiedEpoch[n] \in Nat
           /\ S.nodeByRoot \subseteq Block
  BY DEF Store, Checkpoint

(* A later unrealized justified checkpoint can be justified.               *)
LEMMA UnrealizedIsJustified ==
    ASSUME NEW S \in Store, NEW e, JustSound(S, e),
           S.unrealizedJustifiedCheckpoint.epoch > S.justifiedCheckpoint.epoch
    PROVE  S.unrealizedJustifiedCheckpoint \in JustifiedCheckpoints
<1>1. S.unrealizedJustifiedCheckpoint # NoCheckpoint
  BY JustEpochsAreNat, SMT, SMTT(20) DEF NoCheckpoint
<1> QED
  BY <1>1 DEF JustSound, JustifiedCheckpoints

(* The blocks of the justified checkpoints stay, as those of the finalized *)
(* ones do.                                                                *)
LEMMA JustRootedStays ==
    ASSUME NEW S, NEW T \in Store, NEW e, JustSound(T, e),
           T.finalizedCheckpoint \in FinalizedCheckpoints,
           OnlyDeadLeave(S, T), JustRootedIn(S.nodeByRoot, T)
    PROVE  JustRooted(T)
<1> DEFINE jc == T.justifiedCheckpoint
           uj == T.unrealizedJustifiedCheckpoint
           fc == T.finalizedCheckpoint
<1>1. jc.epoch \in Nat /\ uj.epoch \in Nat /\ fc.epoch \in Nat
  BY JustEpochsAreNat
<1>2. jc \in JustifiedCheckpoints /\ jc.epoch >= fc.epoch
  BY DEF JustSound
<1>3. jc.root \in T.nodeByRoot
  BY <1>2, RootsStay DEF JustRootedIn
<1>4. ASSUME uj.epoch > jc.epoch PROVE uj.root \in T.nodeByRoot
  <2>1. uj \in JustifiedCheckpoints
    BY <1>4, UnrealizedIsJustified
  <2>2. uj.epoch >= fc.epoch /\ uj.root \in S.nodeByRoot
    BY <1>1, <1>2, <1>4, SMT, SMTT(20) DEF JustRootedIn
  <2> QED
    BY <2>1, <2>2, RootsStay
<1> QED
  BY <1>3, <1>4 DEF JustRooted, JustRootedIn

(* Store.insert leaves the new node ahead by its justified epoch at most.  *)
LEMMA InsertJust ==
    ASSUME NEW S, Sound(S), JustSound(S, 0), NEW b \in Block \ {Anchor}, ~InsertFails(S, b)
    PROVE  JustSound(Insert(S, b, JC[b].epoch, FC[b].epoch), JC[b].epoch)
<1> DEFINE I == Insert(S, b, JC[b].epoch, FC[b].epoch)
           e == JC[b].epoch
<1>1. JC[b].epoch \in Nat /\ FC[b].epoch \in Nat /\ S \in Store
  BY CheckpointTypes DEF Checkpoint, Sound
<1>2. /\ S.unrealizedFinalizedCheckpoint.epoch \in Nat /\ S.justifiedCheckpoint.epoch \in Nat
      /\ S.unrealizedJustifiedCheckpoint.epoch \in Nat
      /\ \A n \in Block : S.unrealizedJustifiedEpoch[n] \in Nat
      /\ S.nodeByRoot \subseteq Block
  BY <1>1, JustEpochsAreNat
<1>3. JustSound(S, e)
  <2>1. \A k \in Nat : k <= 0 => k <= e
    BY <1>1, SMT, SMTT(20)
  <2> QED
    BY <1>2, <2>1 DEF JustSound
<1>4. CASE b \in S.nodeByRoot
  BY <1>3, <1>4 DEF Insert
<1>5. CASE b \notin S.nodeByRoot
  <2>1. Parent[b] \in S.nodeByRoot
    BY <1>5 DEF InsertFails
  <2>2. Inserted(S, b, FC[b].epoch, I) /\ InsertedToo(S, b, e, I)
    BY <1>1, <1>5, <2>1, InsertFields, InsertRest, Zenon, ZenonT(20)
  <2> HIDE DEF I
  <2>3. /\ I.nodeByRoot = S.nodeByRoot \cup {b}
        /\ \A n \in S.nodeByRoot : I.unrealizedJustifiedEpoch[n] = S.unrealizedJustifiedEpoch[n]
        /\ I.unrealizedJustifiedEpoch[b] = e
    BY <1>1, <1>2, <1>5, <2>2, SMT, SMTT(20) DEF Inserted, InsertedToo, Store
  <2>4. /\ I.justifiedCheckpoint = S.justifiedCheckpoint
        /\ I.finalizedCheckpoint = S.finalizedCheckpoint
        /\ I.unrealizedJustifiedCheckpoint = S.unrealizedJustifiedCheckpoint
        /\ I.unrealizedFinalizedCheckpoint = S.unrealizedFinalizedCheckpoint
    BY <2>2 DEF Inserted, InsertedToo
  <2>5. e <= e
    BY <1>1, SMT, SMTT(20)
  <2>6. JustSound(I, e)
    BY <1>3, <2>3, <2>4, <2>5 DEF JustSound
  <2> QED
    BY <2>6 DEF I
<1> QED
  BY <1>4, <1>5

(***************************************************************************)
(* pullTips.  A better unrealized finalized checkpoint replaces the        *)
(* unrealized justified one whatever its epoch; NoRollback is what makes   *)
(* that harmless.                                                          *)
(***************************************************************************)
LEMMA PullTipsJust ==
    ASSUME NoRollback, NEW I, Sound(I), NEW b \in Block, b \in I.nodeByRoot,
           JustSound(I, JC[b].epoch)
    PROVE  /\ JustSound(PullTips(I, b), JC[b].epoch)
           /\ PullTips(I, b).unrealizedJustifiedCheckpoint
                 \in {I.unrealizedJustifiedCheckpoint, UJ[b]}
<1> DEFINE P == PullTips(I, b)
           p == I.parent[b]
           e == JC[b].epoch
           uj == I.unrealizedJustifiedCheckpoint
           uf == I.unrealizedFinalizedCheckpoint
<1>1. I \in Store /\ Linked(I)
  BY DEF Sound
<1>2. /\ JC[b].epoch \in Nat /\ UJ[b].epoch \in Nat /\ UF[b].epoch \in Nat
      /\ \A c \in Block : UJ[c].epoch \in Nat /\ UF[c].epoch \in Nat
      /\ UF[b].epoch <= e
  BY CheckpointTypes, CheckpointsOfTheState DEF Checkpoint
<1>3. /\ I.justifiedCheckpoint.epoch \in Nat /\ uj.epoch \in Nat /\ uf.epoch \in Nat
      /\ \A n \in Block : I.unrealizedJustifiedEpoch[n] \in Nat
      /\ I.nodeByRoot \subseteq Block
  BY <1>1, JustEpochsAreNat
<1>4. OnlyPulled(I, P)
  BY <1>1, PullTipsFrame
<1>5. /\ P.nodeByRoot = I.nodeByRoot
      /\ P.justifiedCheckpoint = I.justifiedCheckpoint
      /\ P.finalizedCheckpoint = I.finalizedCheckpoint
  BY <1>4 DEF OnlyPulled, SameTree
<1>6. CASE p = ZeroHash
  <2>1. P = I
    BY <1>1, <1>6, PullTipsFields
  <2> QED
    BY <2>1
<1>7. CASE p # ZeroHash /\ ExitsEarly(I, b)
  <2>1. PulledEarly(I, b, P)
    BY <1>1, <1>7, PullTipsFields
  <2>2. p \in I.nodeByRoot
    BY <1>1, <1>7 DEF Linked
  <2> HIDE DEF P
  <2>3. /\ \A n \in Block \ {b} : P.unrealizedJustifiedEpoch[n] = I.unrealizedJustifiedEpoch[n]
        /\ P.unrealizedJustifiedEpoch[b] = I.unrealizedJustifiedEpoch[p]
        /\ P.unrealizedJustifiedCheckpoint = uj /\ P.unrealizedFinalizedCheckpoint = uf
    BY <1>1, <2>1 DEF PulledEarly, Store
  <2>4. \A n \in I.nodeByRoot : \E m \in I.nodeByRoot :
            P.unrealizedJustifiedEpoch[n] = I.unrealizedJustifiedEpoch[m]
    BY <1>3, <2>2, <2>3
  <2>5. JustSound(P, e)
    BY <1>5, <2>3, <2>4 DEF JustSound
  <2> QED
    BY <2>3, <2>5 DEF P
<1>8. CASE p # ZeroHash /\ ~ExitsEarly(I, b)
  <2>1. PulledFully(I, b, P)
    BY <1>1, <1>8, PullTipsFields
  <2> HIDE DEF P
  <2> DEFINE finalizes == UF[b].epoch > uf.epoch
             justifies == UJ[b].epoch > uj.epoch
             uj1 == P.unrealizedJustifiedCheckpoint
             uf1 == P.unrealizedFinalizedCheckpoint
  <2>2. /\ P.unrealizedJustifiedEpoch = [I.unrealizedJustifiedEpoch EXCEPT ![b] = UJ[b].epoch]
        /\ justifies \/ finalizes => uj1 = UJ[b]
        /\ ~(justifies \/ finalizes) => uj1 = uj
        /\ finalizes => uf1 = UF[b]
        /\ ~finalizes => uf1 = uf
    BY <2>1 DEF PulledFully
  <2>3. /\ \A n \in Block \ {b} : P.unrealizedJustifiedEpoch[n] = I.unrealizedJustifiedEpoch[n]
        /\ P.unrealizedJustifiedEpoch[b] = UJ[b].epoch
    BY <1>1, <2>2 DEF Store
  <2> HIDE DEF uj1, uf1
  <2>4. finalizes => UJ[b].epoch >= uj.epoch
    <3>1. CASE uj = NoCheckpoint
      BY <1>2, <3>1, SMT, SMTT(20) DEF NoCheckpoint
    <3>2. ASSUME NEW c \in Block, uj = UJ[c], UF[c].epoch <= uf.epoch
          PROVE  finalizes => UJ[b].epoch >= uj.epoch
      <4>1. finalizes => UF[b].epoch > UF[c].epoch
        BY <1>2, <1>3, <3>2, SMTT(20), SMTT(40)
      <4> QED
        BY <3>2, <4>1 DEF NoRollback
    <3> QED
      BY <3>1, <3>2 DEF JustSound
  <2>5. uj1.epoch >= uj.epoch /\ uj1.epoch >= UJ[b].epoch /\ uj1.epoch \in Nat
    BY <1>2, <1>3, <2>2, <2>4, SMT, SMTT(20)
  <2>6. uf1.epoch \in Nat /\ (uf1 = uf \/ uf1.epoch <= e)
    BY <1>2, <1>3, <2>2
  <2>7. \/ uj1 = NoCheckpoint
        \/ \E c \in Block : uj1 = UJ[c] /\ UF[c].epoch <= uf1.epoch
    <3>1. CASE justifies \/ finalizes
      <4>1. uj1 = UJ[b] /\ UF[b].epoch <= uf1.epoch
        BY <1>2, <1>3, <2>2, <3>1, SMT, SMTT(20)
      <4> QED
        BY <4>1
    <3>2. CASE ~(justifies \/ finalizes)
      BY <2>2, <3>2 DEF JustSound
    <3> QED
      BY <3>1, <3>2
  <2>8. ASSUME NEW n \in I.nodeByRoot
        PROVE  \/ P.unrealizedJustifiedEpoch[n] <= I.justifiedCheckpoint.epoch
               \/ P.unrealizedJustifiedEpoch[n] <= uj1.epoch
               \/ P.unrealizedJustifiedEpoch[n] <= e
    <3>1. CASE n = b
      BY <2>3, <2>5, <3>1
    <3>2. CASE n # b
      <4>1. /\ P.unrealizedJustifiedEpoch[n] = I.unrealizedJustifiedEpoch[n]
            /\ I.unrealizedJustifiedEpoch[n] \in Nat
        BY <1>3, <2>3, <3>2
      <4>2. \/ I.unrealizedJustifiedEpoch[n] <= I.justifiedCheckpoint.epoch
            \/ I.unrealizedJustifiedEpoch[n] <= uj.epoch
            \/ I.unrealizedJustifiedEpoch[n] <= e
        BY DEF JustSound
      <4> QED
        BY <1>3, <2>5, <4>1, <4>2, SMTT(20), SMTT(40)
    <3> QED
      BY <3>1, <3>2
  <2>9. uf1.epoch <= I.justifiedCheckpoint.epoch \/ uf1.epoch <= e
    BY <2>6 DEF JustSound
  <2>10. JustSound(P, e)
    BY <1>5, <2>7, <2>8, <2>9 DEF JustSound, uj1, uf1
  <2>11. uj1 \in {uj, UJ[b]}
    BY <2>2
  <2> QED
    BY <2>10, <2>11 DEF P, uj1
<1> QED
  BY <1>6, <1>7, <1>8

(***************************************************************************)
(* updateCheckpoints, with checkpoints of the new block that make up for   *)
(* its epoch e: nothing is ahead any more, and the blocks of the justified *)
(* checkpoints were known before.                                          *)
(***************************************************************************)
LEMMA OutcomeJust ==
    ASSUME NEW S \in Store, S.finalizedCheckpoint \in FinalizedCheckpoints,
           NEW e \in Nat, NEW P \in Store, JustSound(P, e), JustRootedIn(S.nodeByRoot, P),
           P.finalizedCheckpoint = S.finalizedCheckpoint,
           NEW jc \in Checkpoint, NEW fc \in Checkpoint, BroughtJustified(S, jc),
           jc.epoch >= e, jc.epoch >= fc.epoch,
           NEW T \in Store, T.finalizedCheckpoint \in FinalizedCheckpoints,
           Outcome(S, P, jc, fc, T)
    PROVE  /\ JustSound(T, 0) /\ JustRooted(T)
           /\ T.justifiedCheckpoint.epoch >= P.justifiedCheckpoint.epoch
<1> DEFINE pj == P.justifiedCheckpoint
           tj == T.justifiedCheckpoint
           pf == P.finalizedCheckpoint
           tf == T.finalizedCheckpoint
           uj == P.unrealizedJustifiedCheckpoint
           uf == P.unrealizedFinalizedCheckpoint
<1>1. /\ jc.epoch \in Nat /\ fc.epoch \in Nat /\ pj.epoch \in Nat /\ pf.epoch \in Nat
      /\ uj.epoch \in Nat /\ uf.epoch \in Nat /\ P.nodeByRoot \subseteq Block
      /\ \A n \in Block : P.unrealizedJustifiedEpoch[n] \in Nat
  BY JustEpochsAreNat DEF Checkpoint
<1>2. /\ T.unrealizedJustifiedCheckpoint = uj
      /\ T.unrealizedFinalizedCheckpoint = uf
      /\ T.unrealizedJustifiedEpoch = P.unrealizedJustifiedEpoch
      /\ T.nodeByRoot \subseteq P.nodeByRoot /\ OnlyDeadLeave(S, T)
      /\ tf \in {pf, fc}
  BY DEF Outcome
<1>3. \/ jc.epoch > pj.epoch /\ tj = jc
      \/ jc.epoch <= pj.epoch /\ tj = pj
  BY <1>1, SMT, SMTT(20) DEF Outcome, Justifies
<1>4. pj.epoch >= pf.epoch /\ pj \in JustifiedCheckpoints
  BY DEF JustSound
<1>5. tj.epoch >= pj.epoch /\ tj.epoch >= jc.epoch /\ tj.epoch >= e /\ tj.epoch \in Nat
  BY <1>1, <1>3, SMT, SMTT(20)
<1>6. tj.epoch >= tf.epoch
  BY <1>1, <1>2, <1>4, <1>5, SMTT(20), SMTT(40)
<1>7. tj \in JustifiedCheckpoints /\ tj.root \in S.nodeByRoot
  <2>1. CASE jc.epoch > pj.epoch /\ tj = jc
    <3>1. jc.epoch > S.finalizedCheckpoint.epoch
      BY <1>1, <1>4, <2>1, SMT, SMTT(20)
    <3> QED
      BY <2>1, <3>1 DEF BroughtJustified
  <2>2. CASE tj = pj
    BY <1>4, <2>2 DEF JustRootedIn
  <2> QED
    BY <1>3, <2>1, <2>2
<1>8. uf.epoch <= tj.epoch
  <2>1. uf.epoch <= pj.epoch \/ uf.epoch <= e
    BY DEF JustSound
  <2> QED
    BY <1>1, <1>5, <2>1, SMT, SMTT(20)
<1>9. ASSUME NEW n \in T.nodeByRoot
      PROVE  \/ T.unrealizedJustifiedEpoch[n] <= tj.epoch
             \/ T.unrealizedJustifiedEpoch[n] <= uj.epoch
  <2>1. n \in P.nodeByRoot /\ P.unrealizedJustifiedEpoch[n] \in Nat
    BY <1>1, <1>2
  <2>2. \/ P.unrealizedJustifiedEpoch[n] <= pj.epoch
        \/ P.unrealizedJustifiedEpoch[n] <= uj.epoch
        \/ P.unrealizedJustifiedEpoch[n] <= e
    BY <2>1 DEF JustSound
  <2> QED
    BY <1>1, <1>2, <1>5, <2>1, <2>2, SMT, SMTT(20)
<1>10. \/ uj = NoCheckpoint
       \/ \E c \in Block : uj = UJ[c] /\ UF[c].epoch <= uf.epoch
  BY DEF JustSound
<1>11. JustSound(T, 0)
  BY <1>2, <1>6, <1>7, <1>8, <1>9, <1>10 DEF JustSound
<1>12. JustRootedIn(S.nodeByRoot, T)
  <2>1. uj.epoch > tj.epoch => uj.epoch > pj.epoch
    BY <1>1, <1>5, SMTT(20), SMTT(40)
  <2> QED
    BY <1>2, <1>7, <2>1 DEF JustRootedIn
<1>13. JustRooted(T)
  BY <1>2, <1>11, <1>12, JustRootedStays
<1> QED
  BY <1>5, <1>11, <1>13

(* InsertNode, also when the balances cannot be read.                      *)
LEMMA InsertNodeJust ==
    ASSUME NoRollback, NEW S, Sound(S), FinalSound(S), FinalRooted(S),
           JustSound(S, 0), JustRooted(S), NEW b \in Block \ {Anchor},
           NEW ok \in BOOLEAN, ok \/ b \notin S.nodeByRoot
    PROVE  /\ JustSound(InsertNode(S, b, ok), 0) /\ JustRooted(InsertNode(S, b, ok))
           /\ InsertNode(S, b, ok).justifiedCheckpoint.epoch >= S.justifiedCheckpoint.epoch
<1> DEFINE I == Insert(S, b, JC[b].epoch, FC[b].epoch)
           P == PullTips(I, b)
           c == NodeCheckpoints(I, b)
           e == JC[b].epoch
           T == InsertNode(S, b, ok)
<1>0. S \in Store /\ S.justifiedCheckpoint.epoch \in Nat /\ S.finalizedCheckpoint.epoch \in Nat
  BY JustEpochsAreNat DEF Sound
<1>1. CASE InsertFails(S, b)
  BY <1>0, <1>1, SMT, SMTT(20) DEF InsertNode
<1>2. CASE ~InsertFails(S, b)
  <2>1. S.finalizedCheckpoint \in FinalizedCheckpoints
    BY DEF FinalSound, Provenance
  <2>2. S.finalizedCheckpoint.root \in S.nodeByRoot
    BY DEF FinalRooted, FinalRootedIn
  <2>3. Outcome(S, P, c.jc, c.fc, T)
    BY <1>2, <2>1, <2>2, InsertNodeOutcome
  <2>4. BroughtJustified(S, JC[b]) /\ BroughtJustified(S, UJ[b])
    BY <1>2, <2>1, <2>2, CarriedKnown
  <2>5. /\ JC[b].epoch \in Nat /\ UJ[b].epoch \in Nat /\ FC[b].epoch \in Nat /\ UF[b].epoch \in Nat
        /\ JC[b].epoch <= UJ[b].epoch /\ FC[b].epoch <= UF[b].epoch /\ UF[b].epoch <= JC[b].epoch
    BY CheckpointTypes, CheckpointsOfTheState DEF Checkpoint
  <2>6. c.jc \in Checkpoint /\ c.fc \in Checkpoint /\ BroughtJustified(S, c.jc)
    BY <2>4, CheckpointTypes DEF NodeCheckpoints
  <2>7. c.jc.epoch >= e /\ c.jc.epoch >= c.fc.epoch
    <3>1. c = [jc |-> UJ[b], fc |-> UF[b]] \/ c = [jc |-> JC[b], fc |-> FC[b]]
      BY DEF NodeCheckpoints
    <3> QED
      BY <2>5, <3>1, SMT, SMTT(20)
  <2>8. WithNode(S, b, I) /\ JustSound(I, e)
    BY <1>2, InsertWithNode, InsertJust
  <2>9. I.unrealizedJustifiedCheckpoint = S.unrealizedJustifiedCheckpoint
    BY <1>2, InsertUnrealized
  <2>10. T \in Store /\ T.finalizedCheckpoint \in FinalizedCheckpoints
    BY InsertNodeSound, InsertNodeFinality DEF Sound, FinalSound, Provenance
  <2> HIDE DEF I, c, T, e
  <2>11. /\ WithNode(S, b, P) /\ JustSound(P, e)
         /\ P.unrealizedJustifiedCheckpoint \in {I.unrealizedJustifiedCheckpoint, UJ[b]}
    BY <2>8, PullTipsWithNode, PullTipsJust, SMT, SMTT(20) DEF WithNode, e
  <2> HIDE DEF P
  <2>12. /\ P \in Store /\ P.finalizedCheckpoint = S.finalizedCheckpoint
         /\ P.justifiedCheckpoint = S.justifiedCheckpoint
    BY <2>11 DEF WithNode, Sound
  <2>13. JustRootedIn(S.nodeByRoot, P)
    <3>1. CASE P.unrealizedJustifiedCheckpoint = S.unrealizedJustifiedCheckpoint
      BY <2>12, <3>1 DEF JustRooted, JustRootedIn
    <3>2. CASE P.unrealizedJustifiedCheckpoint = UJ[b]
      <4>1. S.justifiedCheckpoint.epoch >= S.finalizedCheckpoint.epoch
        BY DEF JustSound
      <4>2. UJ[b].epoch > S.justifiedCheckpoint.epoch => UJ[b].epoch > S.finalizedCheckpoint.epoch
        BY <1>0, <2>5, <4>1, SMT, SMTT(20)
      <4> QED
        BY <2>4, <2>12, <3>2, <4>2 DEF JustRooted, JustRootedIn, BroughtJustified
    <3> QED
      BY <2>9, <2>11, <3>1, <3>2
  <2>14. e \in Nat
    BY <2>5 DEF e
  <2>15. /\ JustSound(T, 0) /\ JustRooted(T)
         /\ T.justifiedCheckpoint.epoch >= P.justifiedCheckpoint.epoch
    BY <1>0, <2>1, <2>3, <2>6, <2>7, <2>10, <2>11, <2>12, <2>13, <2>14, OutcomeJust
  <2> QED
    BY <2>12, <2>15 DEF T
<1> QED
  BY <1>1, <1>2

(* InsertChain, for one block of a batch.                                  *)
LEMMA InsertChainJust ==
    ASSUME NEW S, Sound(S), FinalSound(S), FinalRooted(S),
           JustSound(S, 0), JustRooted(S), NEW b \in Block \ {Anchor},
           NEW ok \in BOOLEAN, ok
    PROVE  /\ JustSound(InsertChain(S, b, ok), 0) /\ JustRooted(InsertChain(S, b, ok))
           /\ InsertChain(S, b, ok).justifiedCheckpoint.epoch >= S.justifiedCheckpoint.epoch
<1> DEFINE I == Insert(S, b, JC[b].epoch, FC[b].epoch)
           T == InsertChain(S, b, ok)
           e == JC[b].epoch
<1>0. S \in Store /\ S.justifiedCheckpoint.epoch \in Nat /\ S.finalizedCheckpoint.epoch \in Nat
  BY JustEpochsAreNat DEF Sound
<1>1. CASE InsertFails(S, b)
  BY <1>0, <1>1, SMT, SMTT(20) DEF InsertChain
<1>2. CASE ~InsertFails(S, b)
  <2>1. S.finalizedCheckpoint \in FinalizedCheckpoints
    BY DEF FinalSound, Provenance
  <2>2. S.finalizedCheckpoint.root \in S.nodeByRoot
    BY DEF FinalRooted, FinalRootedIn
  <2>3. Outcome(S, I, JC[b], FC[b], T)
    BY <1>2, <2>1, <2>2, InsertChainOutcome
  <2>4. BroughtJustified(S, JC[b]) /\ JC[b] \in Checkpoint /\ FC[b] \in Checkpoint
    BY <1>2, <2>1, <2>2, CarriedKnown, CheckpointTypes
  <2>5. e \in Nat /\ JC[b].epoch >= e /\ JC[b].epoch >= FC[b].epoch
    <3>1. JC[b].epoch \in Nat /\ FC[b].epoch \in Nat /\ UF[b].epoch \in Nat
      BY CheckpointTypes DEF Checkpoint
    <3>2. FC[b].epoch <= UF[b].epoch /\ UF[b].epoch <= JC[b].epoch
      BY CheckpointsOfTheState
    <3> QED
      BY <3>1, <3>2, SMT, SMTT(20)
  <2>6. WithNode(S, b, I) /\ JustSound(I, e)
    BY <1>2, InsertWithNode, InsertJust
  <2>7. I.unrealizedJustifiedCheckpoint = S.unrealizedJustifiedCheckpoint
    BY <1>2, InsertUnrealized
  <2>8. T \in Store /\ T.finalizedCheckpoint \in FinalizedCheckpoints
    BY InsertChainSound, InsertChainFinality DEF Sound, FinalSound, Provenance
  <2> HIDE DEF I, T, e
  <2>9. /\ I \in Store /\ I.finalizedCheckpoint = S.finalizedCheckpoint
        /\ I.justifiedCheckpoint = S.justifiedCheckpoint
    BY <2>6 DEF WithNode, Sound
  <2>10. JustRootedIn(S.nodeByRoot, I)
    BY <2>7, <2>9 DEF JustRooted, JustRootedIn
  <2>11. /\ JustSound(T, 0) /\ JustRooted(T)
         /\ T.justifiedCheckpoint.epoch >= I.justifiedCheckpoint.epoch
    BY <1>0, <2>1, <2>3, <2>4, <2>5, <2>6, <2>8, <2>9, <2>10, OutcomeJust
  <2> QED
    BY <2>9, <2>11 DEF T
<1> QED
  BY <1>1, <1>2

(* Fewer nodes and the same checkpoints: prune, and payloads that turn out *)
(* valid or invalid.                                                       *)
SameCheckpoints(S, T) ==
    /\ T.justifiedCheckpoint = S.justifiedCheckpoint
    /\ T.finalizedCheckpoint = S.finalizedCheckpoint
    /\ T.unrealizedJustifiedCheckpoint = S.unrealizedJustifiedCheckpoint
    /\ T.unrealizedFinalizedCheckpoint = S.unrealizedFinalizedCheckpoint

(* Such a step keeps the justified checkpoint right.                       *)
LEMMA SameCheckpointsJust ==
    ASSUME NEW S, JustSound(S, 0), JustRooted(S), NEW T \in Store,
           SameCheckpoints(S, T), KeepsEpochs(S, T), OnlyDeadLeave(S, T),
           T.finalizedCheckpoint \in FinalizedCheckpoints
    PROVE  JustSound(T, 0) /\ JustRooted(T)
<1>1. JustSound(T, 0)
  BY DEF JustSound, SameCheckpoints, KeepsEpochs
<1>2. JustRootedIn(S.nodeByRoot, T)
  BY DEF JustRooted, JustRootedIn, SameCheckpoints
<1> QED
  BY <1>1, <1>2, JustRootedStays

(* The turn of an epoch realizes an unrealized justified checkpoint only   *)
(* if it is later.                                                         *)
LEMMA AheadIsJustified ==
    ASSUME NEW S \in Store, JustSound(S, 0), AheadJustified(S) # {}
    PROVE  S.unrealizedJustifiedCheckpoint.epoch > S.justifiedCheckpoint.epoch
<1>1. PICK n \in S.nodeByRoot : S.unrealizedJustifiedEpoch[n] > S.justifiedCheckpoint.epoch
  BY DEF AheadJustified
<1>2. /\ S.justifiedCheckpoint.epoch \in Nat /\ S.unrealizedJustifiedCheckpoint.epoch \in Nat
      /\ S.unrealizedJustifiedEpoch[n] \in Nat
  BY JustEpochsAreNat
<1>3. \/ S.unrealizedJustifiedEpoch[n] <= S.justifiedCheckpoint.epoch
      \/ S.unrealizedJustifiedEpoch[n] <= S.unrealizedJustifiedCheckpoint.epoch
      \/ S.unrealizedJustifiedEpoch[n] <= 0
  BY DEF JustSound
<1> QED
  BY <1>1, <1>2, <1>3, SMT, SMTT(20)

(* The turn of an epoch keeps the justified checkpoint ahead of the        *)
(* finalized one.                                                          *)
LEMMA TurnJust ==
    ASSUME NEW S \in Store, JustSound(S, 0), JustRooted(S), NEW done, NEW U,
           Turned(S, TurnedJustified(S), TurnedFinalized(S, done), U)
    PROVE  /\ JustSound(U, 0) /\ JustRooted(U)
           /\ U.justifiedCheckpoint.epoch >= S.justifiedCheckpoint.epoch
<1> DEFINE jc == S.justifiedCheckpoint
           fc == S.finalizedCheckpoint
           uj == S.unrealizedJustifiedCheckpoint
           uf == S.unrealizedFinalizedCheckpoint
           tj == U.justifiedCheckpoint
           tf == U.finalizedCheckpoint
<1>1. /\ jc.epoch \in Nat /\ fc.epoch \in Nat /\ uj.epoch \in Nat /\ uf.epoch \in Nat
      /\ S.nodeByRoot \subseteq Block
      /\ \A n \in Block : S.unrealizedJustifiedEpoch[n] \in Nat
  BY JustEpochsAreNat
<1>2. /\ U.nodeByRoot = S.nodeByRoot
      /\ U.unrealizedJustifiedEpoch = S.unrealizedJustifiedEpoch
      /\ U.unrealizedJustifiedCheckpoint = uj /\ U.unrealizedFinalizedCheckpoint = uf
      /\ tj = TurnedJustified(S) /\ tf = TurnedFinalized(S, done)
  BY DEF Turned, SameTree
<1>3. tj = jc \/ (tj = uj /\ uj.epoch > jc.epoch)
  BY <1>2, AheadIsJustified DEF TurnedJustified
<1>4. tf \in {fc, uf}
  BY <1>2 DEF TurnedFinalized
<1>5. jc.epoch >= fc.epoch /\ uf.epoch <= jc.epoch /\ jc \in JustifiedCheckpoints
  <2>1. jc.epoch >= fc.epoch /\ (uf.epoch <= jc.epoch \/ uf.epoch <= 0)
    BY DEF JustSound
  <2> QED
    BY <1>1, <2>1, SMT, SMTT(20) DEF JustSound
<1>6. tj.epoch \in Nat /\ tj.epoch >= jc.epoch /\ tj.epoch >= tf.epoch /\ uf.epoch <= tj.epoch
  BY <1>1, <1>3, <1>4, <1>5, SMT, SMTT(20)
<1>7. tj \in JustifiedCheckpoints /\ tj.root \in S.nodeByRoot
  BY <1>3, <1>5, UnrealizedIsJustified DEF JustRooted, JustRootedIn
<1>8. ASSUME NEW n \in S.nodeByRoot
      PROVE  \/ S.unrealizedJustifiedEpoch[n] <= tj.epoch
             \/ S.unrealizedJustifiedEpoch[n] <= uj.epoch
  <2>1. \/ S.unrealizedJustifiedEpoch[n] <= jc.epoch
        \/ S.unrealizedJustifiedEpoch[n] <= uj.epoch
        \/ S.unrealizedJustifiedEpoch[n] <= 0
    BY DEF JustSound
  <2> QED
    BY <1>1, <1>6, <2>1, SMT, SMTT(20)
<1>9. \/ uj = NoCheckpoint
      \/ \E c \in Block : uj = UJ[c] /\ UF[c].epoch <= uf.epoch
  BY DEF JustSound
<1>10. JustSound(U, 0)
  BY <1>2, <1>6, <1>7, <1>8, <1>9 DEF JustSound
<1>11. JustRooted(U)
  <2>1. uj.epoch > tj.epoch => uj.epoch > jc.epoch
    BY <1>1, <1>6, SMTT(20), SMTT(40)
  <2> QED
    BY <1>2, <1>7, <2>1 DEF JustRooted, JustRootedIn
<1> QED
  BY <1>6, <1>10, <1>11

(* NewSlot, with and without the turn of an epoch.                         *)
LEMMA NewSlotJust ==
    ASSUME NEW S, Sound(S), FinalSound(S), JustSound(S, 0), JustRooted(S), NEW s
    PROVE  /\ JustSound(NewSlot(S, s), 0) /\ JustRooted(NewSlot(S, s))
           /\ NewSlot(S, s).justifiedCheckpoint.epoch >= S.justifiedCheckpoint.epoch
<1> DEFINE C == ClearBoost(S)
           U == UpdateUnrealizedCheckpoints(C)
           T == NewSlot(S, s)
<1>1. S \in Store /\ S.justifiedCheckpoint.epoch \in Nat
  BY JustEpochsAreNat DEF Sound
<1>2. SameButBoost(S, C)
  BY <1>1, ClearBoostRest
<1>3. T = C \/ T = Prune(U)
  BY DEF NewSlot
<1>4. T \in Store /\ T.finalizedCheckpoint \in FinalizedCheckpoints
  BY NewSlotSound, NewSlotFinality DEF Sound, FinalSound, Provenance
<1> HIDE DEF C
<1>5. Sound(C) /\ C \in Store
  BY <1>2, SameTreeSound DEF SameButBoost
<1>6. JustSound(C, 0) /\ JustRooted(C) /\ C.justifiedCheckpoint = S.justifiedCheckpoint
  BY <1>2 DEF SameButBoost, SameTree, JustSound, JustRooted, JustRootedIn
<1>7. Turned(C, TurnedJustified(C), TurnedFinalized(C, C.nodeByRoot), U)
  BY <1>5, UpdateUnrealizedTurns
<1> HIDE DEF U, T
<1>8. /\ JustSound(U, 0) /\ JustRooted(U) /\ U \in Store
      /\ U.justifiedCheckpoint.epoch >= S.justifiedCheckpoint.epoch
  BY <1>5, <1>6, <1>7, TurnJust DEF Turned
<1>9. Sound(U)
  BY <1>5, <1>7, SameTreeSound DEF Turned
<1>10. CASE T = C
  BY <1>1, <1>6, <1>10, SMT, SMTT(20) DEF T
<1>11. CASE T = Prune(U)
  <2>1. SameCheckpoints(U, T)
    BY <1>8, <1>11, PruneFinality, PruneRest DEF SameUnrealized, SameCheckpoints
  <2>2. OnlyDeadLeave(U, T) /\ KeepsEpochs(U, T)
    BY <1>4, <1>8, <1>9, <1>11, <2>1, PruneLeave, PruneKeepsEpochs DEF SameCheckpoints
  <2>3. JustSound(T, 0) /\ JustRooted(T)
    BY <1>4, <1>8, <2>1, <2>2, SameCheckpointsJust
  <2> QED
    BY <1>8, <2>1, <2>3 DEF SameCheckpoints, T
<1> QED
  BY <1>3, <1>10, <1>11

(* ... and with a turn that stops where the balances cannot be read.       *)
LEMMA NewSlotFailingJust ==
    ASSUME NEW S \in Store, JustSound(S, 0), JustRooted(S), NEW done, NEW n,
           ReadsBalancesAt(ClearBoost(S), done, n)
    PROVE  /\ JustSound(NewSlotFailing(S, done, n), 0) /\ JustRooted(NewSlotFailing(S, done, n))
           /\ NewSlotFailing(S, done, n).justifiedCheckpoint.epoch >= S.justifiedCheckpoint.epoch
<1> DEFINE C == ClearBoost(S)
           T == NewSlotFailing(S, done, n)
<1>1. SameButBoost(S, C) /\ ReadsBalancesAt(C, done, n)
  BY ClearBoostRest
<1>2. T = UpdateUnrealizedCheckpointsFailing(C, done, n)
  BY DEF NewSlotFailing
<1> HIDE DEF C, T
<1>3. C \in Store
  BY <1>1 DEF SameButBoost
<1>4. JustSound(C, 0) /\ JustRooted(C) /\ C.justifiedCheckpoint = S.justifiedCheckpoint
  BY <1>1 DEF SameButBoost, SameTree, JustSound, JustRooted, JustRootedIn
<1>5. Turned(C, C.unrealizedJustifiedCheckpoint, TurnedFinalized(C, done), T)
  BY <1>2, <1>3, UpdateUnrealizedTurns
<1>6. AheadJustified(C) # {}
  <2>1. CASE AheadJustified(C) \cap done # {}
    BY <2>1
  <2>2. CASE AheadJustified(C) \cap done = {}
    <3>1. n \in C.nodeByRoot /\ C.unrealizedJustifiedEpoch[n] > C.justifiedCheckpoint.epoch
      BY <1>1, <2>2 DEF ReadsBalancesAt
    <3> QED
      BY <3>1 DEF AheadJustified
  <2> QED
    BY <2>1, <2>2
<1>7. Turned(C, TurnedJustified(C), TurnedFinalized(C, done), T)
  BY <1>5, <1>6 DEF TurnedJustified
<1>8. /\ JustSound(T, 0) /\ JustRooted(T)
      /\ T.justifiedCheckpoint.epoch >= C.justifiedCheckpoint.epoch
  BY <1>3, <1>4, <1>7, TurnJust
<1> QED
  BY <1>4, <1>8 DEF T

JInv == RInv /\ JustSound(store, 0) /\ JustRooted(store)

(* At start-up everything is at the anchor.                                *)
LEMMA InitJInv ==
    Init => JInv
<1> SUFFICES ASSUME Init PROVE JustSound(store, 0) /\ JustRooted(store)
  BY InitRInv DEF JInv
<1>1. /\ store.finalizedCheckpoint = StartCheckpoint
      /\ store.justifiedCheckpoint = StartCheckpoint
      /\ store.unrealizedFinalizedCheckpoint = NoCheckpoint
      /\ store.unrealizedJustifiedCheckpoint = NoCheckpoint
      /\ store.nodeByRoot = {Anchor}
      /\ store.unrealizedJustifiedEpoch[Anchor] = JC[Anchor].epoch
  BY ConstantTypes, SMT, SMTT(20) DEF Init, InitStore, StartCheckpoint, NoCheckpoint
<1>2. /\ StartCheckpoint.epoch = AnchorEpoch /\ StartCheckpoint.root = Anchor
      /\ NoCheckpoint.epoch = 0 /\ AnchorEpoch \in Nat
      /\ JC[Anchor].epoch <= AnchorEpoch
  BY ConstantTypes, CheckpointsOfTheState DEF NoCheckpoint, StartCheckpoint
<1>3. StartCheckpoint \in JustifiedCheckpoints
  BY DEF JustifiedCheckpoints, FinalizedCheckpoints, StartCheckpoint
<1>4. AnchorEpoch >= AnchorEpoch /\ 0 <= AnchorEpoch /\ ~(0 > AnchorEpoch)
  BY <1>2, SMT, SMTT(20)
<1> QED
  BY <1>1, <1>2, <1>3, <1>4 DEF JustSound, JustRooted, JustRootedIn

(* Marking nodes as validated.                                             *)
LEMMA ValidJust ==
    ASSUME NEW T \in Store, NEW n \in Block, NEW V, V = T \/ V = SetOptimisticToValid(T, n)
    PROVE  /\ JustSound(T, 0) => JustSound(V, 0)
           /\ JustRooted(T) => JustRooted(V)
           /\ V.justifiedCheckpoint = T.justifiedCheckpoint
<1>1. /\ V.nodeByRoot = T.nodeByRoot
      /\ V.unrealizedJustifiedEpoch = T.unrealizedJustifiedEpoch
      /\ SameCheckpoints(T, V)
  BY DEF SetOptimisticToValid, Store, SameCheckpoints
<1> QED
  BY <1>1 DEF JustSound, JustRooted, JustRootedIn, SameCheckpoints

(* Every step keeps the justified checkpoint right, and never moves it     *)
(* back.                                                                   *)
LEMMA NextJInv ==
    ASSUME TrueLVH, NoFailedBatch, NoRollback, JInv, [Next]_vars
    PROVE  JInv' /\ store'.justifiedCheckpoint.epoch >= store.justifiedCheckpoint.epoch
<1> DEFINE Goal == /\ JustSound(store', 0) /\ JustRooted(store')
                   /\ store'.justifiedCheckpoint.epoch >= store.justifiedCheckpoint.epoch
<1>1. RInv' /\ OnlyDeadLeave(store, store')
  BY NextRInv DEF JInv
<1>2. /\ Sound(store) /\ FinalSound(store) /\ FinalRooted(store) /\ store \in Store
      /\ store' \in Store /\ ImportsAreNew
      /\ store'.finalizedCheckpoint \in FinalizedCheckpoints
      /\ JustSound(store, 0) /\ JustRooted(store)
      /\ \A i \in importing : i.block \in Block \ {Anchor}
  BY <1>1 DEF JInv, RInv, FInv, IInv, Sound, FinalSound, Provenance, Waiting
<1>3. store.justifiedCheckpoint.epoch >= store.justifiedCheckpoint.epoch
  BY <1>2, JustEpochsAreNat, SMT, SMTT(20)
<1> SUFFICES Goal
  BY <1>1 DEF JInv, JustSound, JustRooted, JustRootedIn
<1>4. CASE store' = store
  BY <1>2, <1>3, <1>4
<1>5. CASE OnTick
  <2>1. store' = NewSlot(store, tick + 1)
    BY <1>5 DEF OnTick
  <2> QED
    BY <1>2, <2>1, NewSlotJust
<1>6. CASE OnTickFailing
  <2>1. PICK n \in store.nodeByRoot, done \in SUBSET store.nodeByRoot :
          /\ ReadsBalancesAt(ClearBoost(store), done, n)
          /\ store' = NewSlotFailing(store, done, n)
    BY <1>6 DEF OnTickFailing
  <2> QED
    BY <1>2, <2>1, NewSlotFailingJust
<1>7. ASSUME NEW i \in importing, NEW ok \in BalancesOutcomes, FinishImport(i, ok)
      PROVE  Goal
  <2> DEFINE T == InsertNode(store, i.block, ok)
             b == i.block
  <2>1. b \in Block \ {Anchor} /\ ok \in BOOLEAN
    BY <1>2 DEF BalancesOutcomes
  <2>2. ok \/ b \notin store.nodeByRoot
    BY <1>2 DEF BalancesOutcomes, NoFailedBatch, ImportsAreNew
  <2>3. /\ JustSound(T, 0) /\ JustRooted(T)
        /\ T.justifiedCheckpoint.epoch >= store.justifiedCheckpoint.epoch
    BY <1>2, <2>1, <2>2, InsertNodeJust
  <2>4. store' = T \/ store' = SetOptimisticToValid(T, b)
    BY <1>7 DEF FinishImport
  <2>5. T \in Store
    BY <1>2, <2>1, InsertNodeSound DEF Sound
  <2> HIDE DEF T
  <2> QED
    BY <2>1, <2>3, <2>4, <2>5, ValidJust, SMT, SMTT(20)
<1>8. ASSUME NEW b \in Block \ {Anchor}, NEW valid \in BOOLEAN, NEW ok \in BalancesOutcomes,
             ImportBatch(b, valid, ok)
      PROVE  Goal
  <2> DEFINE T == InsertChain(store, b, ok)
  <2>1. ok \in BOOLEAN /\ ok
    BY <1>8, ConstantTypes DEF ImportBatch, NoFailedBatch, BalancesOutcomes
  <2>2. /\ JustSound(T, 0) /\ JustRooted(T)
        /\ T.justifiedCheckpoint.epoch >= store.justifiedCheckpoint.epoch
    BY <1>2, <2>1, InsertChainJust
  <2>3. store' = T \/ store' = SetOptimisticToValid(T, b)
    BY <1>8 DEF ImportBatch
  <2>4. T \in Store
    BY <1>2, InsertChainSound DEF Sound
  <2> HIDE DEF T
  <2> QED
    BY <2>2, <2>3, <2>4, ValidJust, SMTT(20), SMTT(40)
<1>9. ASSUME NEW n \in Block, PayloadValid(n) PROVE Goal
  <2>1. store' = SetOptimisticToValid(store, n)
    BY <1>9 DEF PayloadValid
  <2> QED
    BY <1>2, <1>3, <2>1, ValidJust
<1>10. ASSUME NEW b \in Bad, NEW lvh \in LatestValidHashes(b), PayloadInvalid(b, lvh)
       PROVE  Goal
  <2>1. store' = SetOptimisticToInvalid(store, b, lvh)
    BY <1>10 DEF PayloadInvalid
  <2>2. b \in Block /\ lvh \in Root /\ store.nodeByRoot \subseteq Block
    BY <1>2, ConstantTypes, LatestValidHashesType, JustEpochsAreNat
  <2>3. SameUnrealized(store, store') /\ store'.finalizedCheckpoint = store.finalizedCheckpoint
    BY <1>2, <2>1, <2>2, InvalidFinality
  <2>4. KeepsEpochs(store, store')
    BY <1>2, <2>1, InvalidKeepsEpochs
  <2>5. store' = store \/ \E n \in store.nodeByRoot : store' = RemoveNode(store, n)
    BY <1>2, <2>1, <2>2, FirstInvalidKnown DEF SetOptimisticToInvalid
  <2>6. /\ store'.justifiedCheckpoint = store.justifiedCheckpoint
        /\ store'.unrealizedJustifiedCheckpoint = store.unrealizedJustifiedCheckpoint
    BY <1>2, <2>2, <2>5, RemoveNodeRest, SMT, SMTT(20)
  <2>7. SameCheckpoints(store, store')
    BY <2>3, <2>6 DEF SameCheckpoints, SameUnrealized
  <2> QED
    BY <1>1, <1>2, <1>3, <2>4, <2>6, <2>7, SameCheckpointsJust
<1>11. ASSUME NEW b \in Block \ {Anchor}, NEW valid \in BOOLEAN, StartImport(b, valid)
       PROVE  store' = store
  BY <1>11 DEF StartImport
<1> QED
  BY <1>4, <1>5, <1>6, <1>7, <1>8, <1>9, <1>10, <1>11 DEF Next, NextSlot, Deadline, vars

(***************************************************************************)
(* The checkpoints of the store are consistent: the blocks of both are     *)
(* known, the justified one is not older than the finalized one, and       *)
(* descends from it.  So head, which starts at the justified block, never  *)
(* leaves the finalized chain, and never fails for want of that block.     *)
(***************************************************************************)
THEOREM CheckpointsStayConsistent ==
    ASSUME TrueLVH, NoFailedBatch, NoRollback
    PROVE  Spec => []CheckpointsConsistent
<1>1. ASSUME JInv, [Next]_vars PROVE JInv'
  BY <1>1, NextJInv
<1>2. ASSUME JInv PROVE CheckpointsConsistent
  <2>1. /\ store.finalizedCheckpoint.root \in store.nodeByRoot
        /\ store.justifiedCheckpoint.root \in store.nodeByRoot
        /\ store.justifiedCheckpoint.epoch >= store.finalizedCheckpoint.epoch
        /\ store.justifiedCheckpoint \in JustifiedCheckpoints
    BY <1>2 DEF JInv, RInv, FinalRooted, FinalRootedIn, JustSound, JustRooted, JustRootedIn
  <2>2. store.finalizedCheckpoint \in FinalizedCheckpoints
    BY <1>2 DEF JInv, RInv, FInv, FinalSound, Provenance
  <2> QED
    BY <2>1, <2>2, JustifiedAgree DEF CheckpointsConsistent, IsCheckpointBlock
<1> QED
  BY <1>1, <1>2, InitJInv, PTL DEF Spec

(***************************************************************************)
(* The justified checkpoint never moves back, as the comments of the code  *)
(* have it.  NoRollback is needed: where finality on one fork comes with   *)
(* an earlier justification than another fork has, pullTips and the turn   *)
(* of the epoch do move it back.                                           *)
(***************************************************************************)
THEOREM JustifiedNeverMovesBack ==
    ASSUME TrueLVH, NoFailedBatch, NoRollback
    PROVE  Spec => JustifiedMonotone
<1>1. ASSUME JInv, [Next]_vars
      PROVE  JInv' /\ [store'.justifiedCheckpoint.epoch >= store.justifiedCheckpoint.epoch]_vars
  BY <1>1, NextJInv
<1> QED
  BY <1>1, InitJInv, PTL DEF Spec, JustifiedMonotone

-----------------------------------------------------------------------------
(***************************************************************************)
(* No node votes with a source that the store has not adopted.  Node       *)
(* viability compares the two epochs, and Head is the head of the          *)
(* consensus specification only as long as this holds (SourcesKnown in     *)
(* ForkChoiceVotesProofs).                                                 *)
(***************************************************************************)
Adopted(S) ==
    \A n \in S.nodeByRoot : S.justifiedEpoch[n] <= S.justifiedCheckpoint.epoch

SourcesAdopted == Adopted(store)

(* Fewer nodes with the same epochs, and no earlier checkpoint.            *)
LEMMA AdoptedStays ==
    ASSUME NEW S \in Store, Adopted(S), NEW T \in Store,
           T.nodeByRoot \subseteq S.nodeByRoot, T.justifiedEpoch = S.justifiedEpoch,
           T.justifiedCheckpoint.epoch >= S.justifiedCheckpoint.epoch
    PROVE  Adopted(T)
<1> SUFFICES ASSUME NEW n \in T.nodeByRoot
             PROVE  S.justifiedEpoch[n] <= T.justifiedCheckpoint.epoch
  BY DEF Adopted
<1>1. S.justifiedEpoch[n] \in Nat
  BY SMT, SMTT(20) DEF Store
<1>2. S.justifiedEpoch[n] <= S.justifiedCheckpoint.epoch
  BY DEF Adopted
<1>3. S.justifiedCheckpoint.epoch \in Nat /\ T.justifiedCheckpoint.epoch \in Nat
  BY JustEpochsAreNat
<1> QED
  BY <1>1, <1>2, <1>3, SMT, SMTT(20)

(* Removal, pruning, validation and the boost leave the epochs.            *)
LEMMA SourcesUnchanged ==
    ASSUME NEW S \in Store, NEW n
    PROVE  /\ Prune(S).justifiedEpoch = S.justifiedEpoch
           /\ RemoveNode(S, n).justifiedEpoch = S.justifiedEpoch
           /\ SetOptimisticToValid(S, n).justifiedEpoch = S.justifiedEpoch
           /\ ClearBoost(S).justifiedEpoch = S.justifiedEpoch
<1>1. Prune(S).justifiedEpoch = S.justifiedEpoch
  BY DEF Prune, Store
<1>2. RemoveNode(S, n).justifiedEpoch = S.justifiedEpoch
  BY DEF RemoveNode, Store
<1>3. SetOptimisticToValid(S, n).justifiedEpoch = S.justifiedEpoch
  BY DEF SetOptimisticToValid, Store
<1>4. ClearBoost(S).justifiedEpoch = S.justifiedEpoch
  BY DEF ClearBoost, Store
<1> QED
  BY <1>1, <1>2, <1>3, <1>4

(* So does updateCheckpoints.                                              *)
LEMMA UpdateSources ==
    ASSUME NEW S \in Store, NEW jc \in Checkpoint, NEW fc \in Checkpoint, NEW ok
    PROVE  UpdateCheckpoints(S, jc, fc, ok).justifiedEpoch = S.justifiedEpoch
<1> DEFINE J == SetJustified(S, jc)
           F == [J EXCEPT !.finalizedCheckpoint = fc]
<1>1. J \in Store /\ J.justifiedEpoch = S.justifiedEpoch
  BY DEF SetJustified, Store
<1> HIDE DEF J
<1>2. F \in Store /\ F.justifiedEpoch = S.justifiedEpoch
  BY <1>1 DEF Store
<1> HIDE DEF F
<1>3. Prune(F).justifiedEpoch = S.justifiedEpoch
  BY <1>2, SourcesUnchanged
<1> QED
  BY <1>1, <1>3 DEF UpdateCheckpoints, J, F

(* A new node votes with the source of its block ...                       *)
LEMMA InsertSources ==
    ASSUME NEW S \in Store, NEW b \in Block, NEW je \in Nat, NEW fe
    PROVE  LET I == Insert(S, b, je, fe)
           IN  /\ \A n \in Block \ {b} : I.justifiedEpoch[n] = S.justifiedEpoch[n]
               /\ I.justifiedEpoch[b] \in {je, S.justifiedEpoch[b]}
               /\ b \notin S.nodeByRoot /\ ~InsertFails(S, b) => I.justifiedEpoch[b] = je
<1> DEFINE I == Insert(S, b, je, fe)
           N == NewNode(S, b, je, fe)
<1>1. CASE b \in S.nodeByRoot \/ InsertFails(S, b)
  BY <1>1 DEF Insert
<1>2. CASE ~(b \in S.nodeByRoot \/ InsertFails(S, b))
  <2>1. N.justifiedEpoch = [S.justifiedEpoch EXCEPT ![b] = je] /\ DOMAIN N = DOMAIN S
    BY DEF NewNode, Store
  <2> HIDE DEF N
  <2>2. I = [N EXCEPT
               !.nodeByRoot = @ \cup {b},
               !.children = Adopt(@, Parent[b], b),
               !.optimistic = @ \cup {b},
               !.proposerBoostRoot = IF GetsBoost(S, b) THEN b ELSE @,
               !.highestReceivedNode = IF Slot[b] > Slot[@] THEN b ELSE @]
    BY <1>2 DEF Insert, N
  <2>3. I.justifiedEpoch = [S.justifiedEpoch EXCEPT ![b] = je]
    BY <2>1, <2>2 DEF Store
  <2>4. S.justifiedEpoch \in [Block -> Nat]
    BY DEF Store
  <2> HIDE DEF I
  <2>5. /\ \A n \in Block \ {b} : I.justifiedEpoch[n] = S.justifiedEpoch[n]
        /\ I.justifiedEpoch[b] = je
    BY <2>3, <2>4
  <2> QED
    BY <1>2, <2>5 DEF I
<1> QED
  BY <1>1, <1>2

(* ... or, if pullTips realizes them, with its unrealized one.             *)
LEMMA PullTipsSources ==
    ASSUME NEW S \in Store, NEW b \in Block
    PROVE  LET P == PullTips(S, b)
           IN  /\ \A n \in Block \ {b} : P.justifiedEpoch[n] = S.justifiedEpoch[n]
               /\ P.justifiedEpoch[b] = IF IsPulled(S, b) THEN UJ[b].epoch ELSE S.justifiedEpoch[b]
<1> DEFINE P == PullTips(S, b)
           R == RecordUnrealized(S, UJ[b], UF[b])
<1>1. CASE S.parent[b] = ZeroHash
  BY <1>1 DEF PullTips, IsPulled
<1>2. CASE S.parent[b] # ZeroHash /\ ExitsEarly(S, b)
  <2>1. P = [S EXCEPT !.unrealizedJustifiedEpoch[b] = S.unrealizedJustifiedEpoch[S.parent[b]],
                      !.unrealizedFinalizedEpoch[b] = S.unrealizedFinalizedEpoch[S.parent[b]]]
    BY <1>2 DEF PullTips
  <2>2. P.justifiedEpoch = S.justifiedEpoch
    BY <2>1 DEF Store
  <2> QED
    BY <1>2, <2>2 DEF IsPulled
<1>3. CASE S.parent[b] # ZeroHash /\ ~ExitsEarly(S, b)
  <2>1. R.justifiedEpoch = S.justifiedEpoch /\ DOMAIN R = DOMAIN S
    BY DEF RecordUnrealized, Store
  <2> HIDE DEF R
  <2>2. P = [R EXCEPT
               !.unrealizedJustifiedEpoch[b] = UJ[b].epoch,
               !.unrealizedFinalizedEpoch[b] = UF[b].epoch,
               !.justifiedEpoch[b] = IF IsPulled(S, b) THEN UJ[b].epoch ELSE @,
               !.finalizedEpoch[b] = IF IsPulled(S, b) THEN UF[b].epoch ELSE @]
    BY <1>3 DEF PullTips, R
  <2>3. P.justifiedEpoch = [S.justifiedEpoch EXCEPT ![b] = IF IsPulled(S, b) THEN UJ[b].epoch ELSE @]
    BY <2>1, <2>2, SMT, SMTT(20) DEF Store
  <2>4. S.justifiedEpoch \in [Block -> Nat]
    BY DEF Store
  <2> HIDE DEF P
  <2>5. /\ \A n \in Block \ {b} : P.justifiedEpoch[n] = S.justifiedEpoch[n]
        /\ P.justifiedEpoch[b] = IF IsPulled(S, b) THEN UJ[b].epoch ELSE S.justifiedEpoch[b]
    BY <2>3, <2>4
  <2> QED
    BY <2>5 DEF P
<1> QED
  BY <1>1, <1>2, <1>3

(***************************************************************************)
(* updateCheckpoints adopts the checkpoint of the new block if it is later *)
(* than the store's, even where it then fails.                             *)
(***************************************************************************)
LEMMA OutcomeAdopted ==
    ASSUME NEW S \in Store, Adopted(S), NEW b \in Block, NEW jc \in Checkpoint,
           NEW P \in Store, P.justifiedCheckpoint = S.justifiedCheckpoint,
           P.nodeByRoot \subseteq S.nodeByRoot \cup {b},
           \A n \in Block \ {b} : P.justifiedEpoch[n] = S.justifiedEpoch[n],
           \/ P.justifiedEpoch[b] = jc.epoch
           \/ P.justifiedEpoch[b] = S.justifiedEpoch[b] /\ b \in S.nodeByRoot,
           NEW T \in Store, T.justifiedEpoch = P.justifiedEpoch, T.nodeByRoot \subseteq P.nodeByRoot,
           Justifies(P, jc) => T.justifiedCheckpoint = jc,
           ~Justifies(P, jc) => T.justifiedCheckpoint = P.justifiedCheckpoint
    PROVE  Adopted(T)
<1> SUFFICES ASSUME NEW n \in T.nodeByRoot
             PROVE  P.justifiedEpoch[n] <= T.justifiedCheckpoint.epoch
  BY DEF Adopted
<1>1. jc.epoch \in Nat /\ S.justifiedCheckpoint.epoch \in Nat /\ T.justifiedCheckpoint.epoch \in Nat
  BY JustEpochsAreNat DEF Checkpoint
<1>2. T.justifiedCheckpoint.epoch >= jc.epoch /\ T.justifiedCheckpoint.epoch >= S.justifiedCheckpoint.epoch
  BY <1>1, SMT, SMTT(20) DEF Justifies
<1>3. n \in Block /\ S.justifiedEpoch[n] \in Nat
  BY SMT, SMTT(20) DEF Store
<1>4. n \in S.nodeByRoot => S.justifiedEpoch[n] <= T.justifiedCheckpoint.epoch
  <2>1. n \in S.nodeByRoot => S.justifiedEpoch[n] <= S.justifiedCheckpoint.epoch
    BY DEF Adopted
  <2> QED
    BY <1>1, <1>2, <1>3, <2>1, SMT, SMTT(20)
<1>5. CASE n # b
  BY <1>3, <1>4, <1>5
<1>6. CASE n = b
  BY <1>1, <1>2, <1>4, <1>6, SMT, SMTT(20)
<1> QED
  BY <1>5, <1>6

(* InsertNode, also when the balances cannot be read.                      *)
LEMMA InsertNodeAdopted ==
    ASSUME NEW S, Sound(S), FinalSound(S), FinalRooted(S), Adopted(S), NEW b \in Block \ {Anchor},
           NEW ok \in BOOLEAN, ok \/ b \notin S.nodeByRoot
    PROVE  Adopted(InsertNode(S, b, ok))
<1> DEFINE I == Insert(S, b, JC[b].epoch, FC[b].epoch)
           P == PullTips(I, b)
           c == NodeCheckpoints(I, b)
           U == UpdateCheckpoints(P, c.jc, c.fc, ok)
           T == InsertNode(S, b, ok)
<1>1. CASE InsertFails(S, b)
  BY <1>1 DEF InsertNode
<1>2. CASE ~InsertFails(S, b)
  <2>1. S \in Store /\ JC[b].epoch \in Nat /\ FC[b].epoch \in Nat
    BY CheckpointTypes DEF Checkpoint, Sound
  <2>2. S.finalizedCheckpoint \in FinalizedCheckpoints /\ S.finalizedCheckpoint.root \in S.nodeByRoot
    BY DEF FinalSound, Provenance, FinalRooted, FinalRootedIn
  <2>3. Outcome(S, P, c.jc, c.fc, T)
    BY <1>2, <2>2, InsertNodeOutcome
  <2>4. c.jc \in Checkpoint /\ c.fc \in Checkpoint
        /\ c.jc = (IF IsPulled(I, b) THEN UJ[b] ELSE JC[b])
    BY CheckpointTypes DEF NodeCheckpoints
  <2>5. WithNode(S, b, I) /\ T \in Store
    BY <1>2, InsertWithNode, InsertNodeSound DEF Sound
  <2>6. /\ \A n \in Block \ {b} : I.justifiedEpoch[n] = S.justifiedEpoch[n]
        /\ I.justifiedEpoch[b] \in {JC[b].epoch, S.justifiedEpoch[b]}
        /\ b \notin S.nodeByRoot => I.justifiedEpoch[b] = JC[b].epoch
    BY <1>2, <2>1, InsertSources, SMT, SMTT(20)
  <2>7. T = RemoveNode(U, b) \/ T = U
    BY <1>2 DEF InsertNode
  <2> HIDE DEF I, c, T
  <2>8. WithNode(S, b, P)
    BY <2>5, PullTipsWithNode, SMT, SMTT(20) DEF WithNode
  <2>9. I \in Store
    BY <2>5 DEF WithNode, Sound
  <2>10. /\ \A n \in Block \ {b} : P.justifiedEpoch[n] = I.justifiedEpoch[n]
         /\ P.justifiedEpoch[b] = IF IsPulled(I, b) THEN UJ[b].epoch ELSE I.justifiedEpoch[b]
    BY <2>9, PullTipsSources
  <2> HIDE DEF P
  <2>11. /\ P \in Store /\ P.justifiedCheckpoint = S.justifiedCheckpoint
         /\ P.nodeByRoot \subseteq S.nodeByRoot \cup {b}
    BY <2>8 DEF WithNode, Sound
  <2>12. U.justifiedEpoch = P.justifiedEpoch /\ U \in Store
    BY <2>4, <2>8, <2>11, UpdateSources, UpdateCheckpointsSound, SMT, SMTT(20) DEF WithNode, Sound
  <2> HIDE DEF U
  <2>13. T.justifiedEpoch = P.justifiedEpoch
    BY <2>7, <2>12, SourcesUnchanged, SMT, SMTT(20)
  <2>14. \/ P.justifiedEpoch[b] = c.jc.epoch
         \/ P.justifiedEpoch[b] = S.justifiedEpoch[b] /\ b \in S.nodeByRoot
    BY <2>4, <2>6, <2>10
  <2>15. /\ T.nodeByRoot \subseteq P.nodeByRoot
         /\ Justifies(P, c.jc) => T.justifiedCheckpoint = c.jc
         /\ ~Justifies(P, c.jc) => T.justifiedCheckpoint = P.justifiedCheckpoint
    BY <2>3 DEF Outcome
  <2>16. \A n \in Block \ {b} : P.justifiedEpoch[n] = S.justifiedEpoch[n]
    BY <2>6, <2>10
  <2>17. Adopted(T)
    BY <2>1, <2>4, <2>5, <2>11, <2>13, <2>14, <2>15, <2>16, OutcomeAdopted, SMT, SMTT(20)
  <2> QED
    BY <2>17 DEF T
<1> QED
  BY <1>1, <1>2

(* InsertChain, for one block of a batch.                                  *)
LEMMA InsertChainAdopted ==
    ASSUME NEW S, Sound(S), FinalSound(S), FinalRooted(S), Adopted(S), NEW b \in Block \ {Anchor},
           NEW ok \in BOOLEAN
    PROVE  Adopted(InsertChain(S, b, ok))
<1> DEFINE I == Insert(S, b, JC[b].epoch, FC[b].epoch)
           T == InsertChain(S, b, ok)
<1>1. CASE InsertFails(S, b)
  BY <1>1 DEF InsertChain
<1>2. CASE ~InsertFails(S, b)
  <2>1. /\ S \in Store /\ JC[b].epoch \in Nat /\ FC[b].epoch \in Nat
        /\ JC[b] \in Checkpoint /\ FC[b] \in Checkpoint
    BY CheckpointTypes DEF Checkpoint, Sound
  <2>2. S.finalizedCheckpoint \in FinalizedCheckpoints /\ S.finalizedCheckpoint.root \in S.nodeByRoot
    BY DEF FinalSound, Provenance, FinalRooted, FinalRootedIn
  <2>3. Outcome(S, I, JC[b], FC[b], T)
    BY <1>2, <2>2, InsertChainOutcome
  <2>4. WithNode(S, b, I) /\ T \in Store
    BY <1>2, InsertWithNode, InsertChainSound DEF Sound
  <2>5. /\ \A n \in Block \ {b} : I.justifiedEpoch[n] = S.justifiedEpoch[n]
        /\ I.justifiedEpoch[b] \in {JC[b].epoch, S.justifiedEpoch[b]}
        /\ b \notin S.nodeByRoot => I.justifiedEpoch[b] = JC[b].epoch
    BY <1>2, <2>1, InsertSources, SMT, SMTT(20)
  <2>6. T = UpdateCheckpoints(I, JC[b], FC[b], ok)
    BY <1>2 DEF InsertChain
  <2> HIDE DEF I, T
  <2>7. /\ I \in Store /\ I.justifiedCheckpoint = S.justifiedCheckpoint
        /\ I.nodeByRoot \subseteq S.nodeByRoot \cup {b}
    BY <2>4 DEF WithNode, Sound
  <2>8. T.justifiedEpoch = I.justifiedEpoch
    BY <2>1, <2>6, <2>7, UpdateSources, SMT, SMTT(20)
  <2>9. /\ T.nodeByRoot \subseteq I.nodeByRoot
        /\ Justifies(I, JC[b]) => T.justifiedCheckpoint = JC[b]
        /\ ~Justifies(I, JC[b]) => T.justifiedCheckpoint = I.justifiedCheckpoint
    BY <2>3 DEF Outcome
  <2>10. Adopted(T)
    BY <2>1, <2>4, <2>5, <2>7, <2>8, <2>9, OutcomeAdopted, SMT, SMTT(20)
  <2> QED
    BY <2>10 DEF T
<1> QED
  BY <1>1, <1>2

(***************************************************************************)
(* The turn of an epoch, also one that stops half-way: the nodes it visits *)
(* take their unrealized epochs, and none of these is ahead of what comes  *)
(* into force.                                                             *)
(***************************************************************************)
LEMMA TurnAdopted ==
    ASSUME NEW S \in Store, JustSound(S, 0), Adopted(S), NEW U \in Store,
           U.nodeByRoot = S.nodeByRoot, U.justifiedCheckpoint = TurnedJustified(S),
           \A n \in Block : U.justifiedEpoch[n] \in {S.justifiedEpoch[n], S.unrealizedJustifiedEpoch[n]}
    PROVE  Adopted(U)
<1> SUFFICES ASSUME NEW n \in S.nodeByRoot
             PROVE  U.justifiedEpoch[n] <= U.justifiedCheckpoint.epoch
  BY DEF Adopted
<1>1. /\ S.justifiedCheckpoint.epoch \in Nat /\ S.unrealizedJustifiedCheckpoint.epoch \in Nat
      /\ n \in Block /\ S.unrealizedJustifiedEpoch[n] \in Nat
  BY JustEpochsAreNat
<1>2. S.justifiedEpoch[n] \in Nat /\ S.justifiedEpoch[n] <= S.justifiedCheckpoint.epoch
  BY <1>1 DEF Adopted, Store
<1>3. \/ S.unrealizedJustifiedEpoch[n] <= S.justifiedCheckpoint.epoch
      \/ S.unrealizedJustifiedEpoch[n] <= S.unrealizedJustifiedCheckpoint.epoch
      \/ S.unrealizedJustifiedEpoch[n] <= 0
  BY DEF JustSound
<1>4. CASE AheadJustified(S) # {}
  <2>1. /\ S.unrealizedJustifiedCheckpoint.epoch > S.justifiedCheckpoint.epoch
        /\ U.justifiedCheckpoint = S.unrealizedJustifiedCheckpoint
    BY <1>4, AheadIsJustified DEF TurnedJustified
  <2> QED
    BY <1>1, <1>2, <1>3, <2>1, SMT, SMTT(20)
<1>5. CASE AheadJustified(S) = {}
  <2>1. U.justifiedCheckpoint = S.justifiedCheckpoint
    BY <1>5 DEF TurnedJustified
  <2>2. ~(S.unrealizedJustifiedEpoch[n] > S.justifiedCheckpoint.epoch)
    BY <1>5 DEF AheadJustified
  <2> QED
    BY <1>1, <1>2, <2>1, <2>2, SMT, SMTT(20)
<1> QED
  BY <1>4, <1>5

(* updateUnrealizedCheckpoints touches the epochs in no other way.         *)
LEMMA TurnSources ==
    ASSUME NEW S \in Store, NEW done, NEW n
    PROVE  \A x \in Block :
              /\ UpdateUnrealizedCheckpoints(S).justifiedEpoch[x]
                   \in {S.justifiedEpoch[x], S.unrealizedJustifiedEpoch[x]}
              /\ UpdateUnrealizedCheckpointsFailing(S, done, n).justifiedEpoch[x]
                   \in {S.justifiedEpoch[x], S.unrealizedJustifiedEpoch[x]}
<1> DEFINE A == Realize(S, S.nodeByRoot)
           B == Realize(S, done \cup {n})
<1>1. /\ \A x \in Block : A.justifiedEpoch[x] \in {S.justifiedEpoch[x], S.unrealizedJustifiedEpoch[x]}
      /\ \A x \in Block : B.justifiedEpoch[x] \in {S.justifiedEpoch[x], S.unrealizedJustifiedEpoch[x]}
      /\ DOMAIN A = DOMAIN S /\ DOMAIN B = DOMAIN S
  BY DEF Realize, Store
<1> HIDE DEF A, B
<1>2. UpdateUnrealizedCheckpoints(S).justifiedEpoch = A.justifiedEpoch
  BY <1>1 DEF UpdateUnrealizedCheckpoints, A, Store
<1>3. UpdateUnrealizedCheckpointsFailing(S, done, n).justifiedEpoch = B.justifiedEpoch
  BY <1>1 DEF UpdateUnrealizedCheckpointsFailing, B, Store
<1> QED
  BY <1>1, <1>2, <1>3

(* NewSlot.                                                                *)
LEMMA NewSlotAdopted ==
    ASSUME NEW S, Sound(S), JustSound(S, 0), Adopted(S), NEW s
    PROVE  Adopted(NewSlot(S, s))
<1> DEFINE C == ClearBoost(S)
           U == UpdateUnrealizedCheckpoints(C)
<1>1. S \in Store /\ S.justifiedCheckpoint.epoch >= S.justifiedCheckpoint.epoch
  BY JustEpochsAreNat, SMT, SMTT(20) DEF Sound
<1>2. SameButBoost(S, C) /\ C.justifiedEpoch = S.justifiedEpoch
  BY <1>1, ClearBoostRest, SourcesUnchanged
<1>3. NewSlot(S, s) = C \/ NewSlot(S, s) = Prune(U)
  BY DEF NewSlot
<1> HIDE DEF C
<1>4. C \in Store /\ JustSound(C, 0) /\ Sound(C)
  BY <1>2, SameTreeSound DEF SameButBoost, SameTree, JustSound
<1>5. Adopted(C)
  BY <1>2 DEF SameButBoost, SameTree, Adopted
<1>6. /\ Turned(C, TurnedJustified(C), TurnedFinalized(C, C.nodeByRoot), U)
      /\ \A x \in Block : U.justifiedEpoch[x] \in {C.justifiedEpoch[x], C.unrealizedJustifiedEpoch[x]}
  BY <1>4, UpdateUnrealizedTurns, TurnSources
<1> HIDE DEF U
<1>7. U \in Store /\ U.nodeByRoot = C.nodeByRoot /\ U.justifiedCheckpoint = TurnedJustified(C)
  BY <1>6 DEF Turned, SameTree
<1>8. Adopted(U)
  BY <1>4, <1>5, <1>6, <1>7, TurnAdopted
<1>9. /\ Prune(U).justifiedEpoch = U.justifiedEpoch
      /\ Prune(U).nodeByRoot \subseteq U.nodeByRoot
      /\ Prune(U).justifiedCheckpoint = U.justifiedCheckpoint
  BY <1>7, SourcesUnchanged, PruneKeepsEpochs, PruneRest DEF KeepsEpochs
<1>10. Adopted(Prune(U))
  BY <1>8, <1>9 DEF Adopted
<1> QED
  BY <1>3, <1>5, <1>10

(* ... and with a turn that stops where the balances cannot be read.       *)
LEMMA NewSlotFailingAdopted ==
    ASSUME NEW S \in Store, JustSound(S, 0), Adopted(S), NEW done, NEW n,
           ReadsBalancesAt(ClearBoost(S), done, n)
    PROVE  Adopted(NewSlotFailing(S, done, n))
<1> DEFINE C == ClearBoost(S)
           T == NewSlotFailing(S, done, n)
<1>1. SameButBoost(S, C) /\ ReadsBalancesAt(C, done, n) /\ C.justifiedEpoch = S.justifiedEpoch
  BY ClearBoostRest, SourcesUnchanged
<1>2. T = UpdateUnrealizedCheckpointsFailing(C, done, n)
  BY DEF NewSlotFailing
<1> HIDE DEF C, T
<1>3. C \in Store /\ JustSound(C, 0)
  BY <1>1 DEF SameButBoost, SameTree, JustSound
<1>4. Adopted(C)
  BY <1>1 DEF SameButBoost, SameTree, Adopted
<1>5. /\ Turned(C, C.unrealizedJustifiedCheckpoint, TurnedFinalized(C, done), T)
      /\ \A x \in Block : T.justifiedEpoch[x] \in {C.justifiedEpoch[x], C.unrealizedJustifiedEpoch[x]}
  BY <1>2, <1>3, UpdateUnrealizedTurns, TurnSources
<1>6. AheadJustified(C) # {}
  BY <1>1 DEF ReadsBalancesAt, AheadJustified
<1>7. T \in Store /\ T.nodeByRoot = C.nodeByRoot /\ T.justifiedCheckpoint = TurnedJustified(C)
  BY <1>5, <1>6 DEF Turned, SameTree, TurnedJustified
<1>8. Adopted(T)
  BY <1>3, <1>4, <1>5, <1>7, TurnAdopted
<1> QED
  BY <1>8 DEF T

(* Every step keeps the sources of the nodes behind the checkpoint.        *)
LEMMA NextAdopted ==
    ASSUME TrueLVH, NoFailedBatch, NoRollback, JInv, SourcesAdopted, [Next]_vars
    PROVE  SourcesAdopted'
<1>1. JInv' /\ store'.justifiedCheckpoint.epoch >= store.justifiedCheckpoint.epoch
  BY NextJInv
<1>2. /\ Sound(store) /\ FinalSound(store) /\ FinalRooted(store) /\ store \in Store
      /\ store' \in Store /\ ImportsAreNew
      /\ JustSound(store, 0) /\ Adopted(store)
      /\ \A i \in importing : i.block \in Block \ {Anchor}
  BY <1>1 DEF JInv, RInv, FInv, IInv, Sound, FinalSound, Provenance, Waiting, SourcesAdopted
<1> SUFFICES Adopted(store')
  BY DEF SourcesAdopted, Adopted
<1>3. ASSUME NEW T \in Store, Adopted(T), NEW n PROVE Adopted(SetOptimisticToValid(T, n))
  <2>1. LET V == SetOptimisticToValid(T, n)
        IN  /\ V.nodeByRoot = T.nodeByRoot /\ V.justifiedCheckpoint = T.justifiedCheckpoint
            /\ V.justifiedEpoch = T.justifiedEpoch
    BY DEF SetOptimisticToValid, Store
  <2> QED
    BY <1>3, <2>1 DEF Adopted
<1>4. CASE store' = store
  BY <1>2, <1>4
<1>5. CASE OnTick
  <2>1. store' = NewSlot(store, tick + 1)
    BY <1>5 DEF OnTick
  <2> QED
    BY <1>2, <2>1, NewSlotAdopted
<1>6. CASE OnTickFailing
  <2>1. PICK n \in store.nodeByRoot, done \in SUBSET store.nodeByRoot :
          /\ ReadsBalancesAt(ClearBoost(store), done, n)
          /\ store' = NewSlotFailing(store, done, n)
    BY <1>6 DEF OnTickFailing
  <2> QED
    BY <1>2, <2>1, NewSlotFailingAdopted
<1>7. ASSUME NEW i \in importing, NEW ok \in BalancesOutcomes, FinishImport(i, ok)
      PROVE  Adopted(store')
  <2> DEFINE T == InsertNode(store, i.block, ok)
             b == i.block
  <2>1. b \in Block \ {Anchor} /\ ok \in BOOLEAN
    BY <1>2 DEF BalancesOutcomes
  <2>2. ok \/ b \notin store.nodeByRoot
    BY <1>2 DEF BalancesOutcomes, NoFailedBatch, ImportsAreNew
  <2>3. Adopted(T)
    BY <1>2, <2>1, <2>2, InsertNodeAdopted
  <2>4. store' = T \/ store' = SetOptimisticToValid(T, b)
    BY <1>7 DEF FinishImport
  <2>5. T \in Store
    BY <1>2, <2>1, InsertNodeSound DEF Sound
  <2> HIDE DEF T
  <2> QED
    BY <1>3, <2>3, <2>4, <2>5
<1>8. ASSUME NEW b \in Block \ {Anchor}, NEW valid \in BOOLEAN, NEW ok \in BalancesOutcomes,
             ImportBatch(b, valid, ok)
      PROVE  Adopted(store')
  <2> DEFINE T == InsertChain(store, b, ok)
  <2>1. ok \in BOOLEAN
    BY DEF BalancesOutcomes
  <2>2. Adopted(T)
    BY <1>2, <2>1, InsertChainAdopted
  <2>3. store' = T \/ store' = SetOptimisticToValid(T, b)
    BY <1>8 DEF ImportBatch
  <2>4. T \in Store
    BY <1>2, InsertChainSound DEF Sound
  <2> HIDE DEF T
  <2> QED
    BY <1>3, <2>2, <2>3, <2>4
<1>9. ASSUME NEW n \in Block, PayloadValid(n) PROVE Adopted(store')
  <2>1. store' = SetOptimisticToValid(store, n)
    BY <1>9 DEF PayloadValid
  <2> QED
    BY <1>2, <1>3, <2>1
<1>10. ASSUME NEW b \in Bad, NEW lvh \in LatestValidHashes(b), PayloadInvalid(b, lvh)
       PROVE  Adopted(store')
  <2>1. store' = SetOptimisticToInvalid(store, b, lvh)
    BY <1>10 DEF PayloadInvalid
  <2>2. b \in Block /\ lvh \in Root /\ store.nodeByRoot \subseteq Block
    BY <1>2, ConstantTypes, LatestValidHashesType, JustEpochsAreNat
  <2>3. store' = store \/ \E n \in store.nodeByRoot : store' = RemoveNode(store, n)
    BY <1>2, <2>1, <2>2, FirstInvalidKnown DEF SetOptimisticToInvalid
  <2>4. ASSUME NEW n \in store.nodeByRoot, store' = RemoveNode(store, n) PROVE Adopted(store')
    <3>1. store'.justifiedEpoch = store.justifiedEpoch
      BY <1>2, <2>4, SourcesUnchanged
    <3>2. store'.nodeByRoot \subseteq store.nodeByRoot
      BY <1>2, <2>1, InvalidKeepsEpochs DEF KeepsEpochs
    <3> QED
      BY <1>1, <1>2, <3>1, <3>2, AdoptedStays
  <2> QED
    BY <1>2, <2>3, <2>4
<1>11. ASSUME NEW b \in Block \ {Anchor}, NEW valid \in BOOLEAN, StartImport(b, valid)
       PROVE  store' = store
  BY <1>11 DEF StartImport
<1> QED
  BY <1>4, <1>5, <1>6, <1>7, <1>8, <1>9, <1>10, <1>11 DEF Next, NextSlot, Deadline, vars

(***************************************************************************)
(* Whatever is inserted, pulled up, realized or rolled back, no node votes *)
(* with a source later than the store's justified checkpoint: what         *)
(* updateCheckpoints after each insertion, and the turn of the epoch,      *)
(* adopt is never less than what the nodes take over.                      *)
(***************************************************************************)
THEOREM SourcesStayAdopted ==
    ASSUME TrueLVH, NoFailedBatch, NoRollback
    PROVE  Spec => []SourcesAdopted
<1>1. Init => SourcesAdopted
  <2> SUFFICES ASSUME Init PROVE SourcesAdopted
    OBVIOUS
  <2>1. /\ store.justifiedCheckpoint.epoch = AnchorEpoch
        /\ store.nodeByRoot = {Anchor}
        /\ store.justifiedEpoch[Anchor] = JC[Anchor].epoch
    BY ConstantTypes, SMT, SMTT(20) DEF Init, InitStore
  <2>2. JC[Anchor].epoch <= AnchorEpoch
    BY ConstantTypes, CheckpointsOfTheState
  <2> QED
    BY <2>1, <2>2 DEF SourcesAdopted, Adopted
<1>2. ASSUME JInv, SourcesAdopted, [Next]_vars PROVE JInv' /\ SourcesAdopted'
  BY <1>2, NextJInv, NextAdopted
<1> QED
  BY <1>1, <1>2, InitJInv, PTL DEF Spec
=============================================================================
