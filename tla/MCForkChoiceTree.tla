-------------------------- MODULE MCForkChoiceTree --------------------------
(***************************************************************************)
(* Small block trees for ForkChoiceTree.  A tree is a sequence of records: *)
(* the n-th one describes block n; block 1 is the anchor.  The realized    *)
(* checkpoints of a block follow from the unrealized ones of its parent.   *)
(***************************************************************************)
EXTENDS ForkChoiceTree, Sequences

CP(e, r) == [epoch |-> e, root |-> r]

Old == CP(0, 0)

B(p, s, uj, uf) == [parent |-> p, slot |-> s, uj |-> uj, uf |-> uf]

(***************************************************************************)
(* Three slots to an epoch.  1-2-3-4-5 finalizes epoch 2 at block 2 and    *)
(* justifies epoch 3, whose first slot is skipped, at block 3; 6 competes  *)
(* with 2.                                                                 *)
(***************************************************************************)
Finalizing == <<B(0, 3, Old, Old),
                B(1, 6, CP(1, 1), Old),
                B(2, 8, CP(2, 2), Old),
                B(3, 10, CP(2, 2), Old),
                B(4, 11, CP(3, 3), CP(2, 2)),
                B(1, 7, CP(1, 1), Old)>>

BlocksOf(T) == DOMAIN T
ParentOf(T) == [b \in DOMAIN T |-> T[b].parent]
SlotOf(T)   == [b \in DOMAIN T |-> T[b].slot]
UJOf(T)     == [b \in DOMAIN T |-> T[b].uj]
UFOf(T)     == [b \in DOMAIN T |-> T[b].uf]

(* The block with whose unrealized checkpoints the epoch of b started.     *)
LastOfPreviousEpoch(T) ==
    LET last[b \in DOMAIN T] ==
            LET p == T[b].parent
            IN  IF p = 0 \/ Epoch(T[p].slot) # Epoch(T[b].slot) THEN p ELSE last[p]
    IN  last

JCOf(T) == [b \in DOMAIN T |-> LET a == LastOfPreviousEpoch(T)[b]
                               IN  IF a = 0 THEN Old ELSE T[a].uj]
FCOf(T) == [b \in DOMAIN T |-> LET a == LastOfPreviousEpoch(T)[b]
                               IN  IF a = 0 THEN Old ELSE T[a].uf]

FBlock  == BlocksOf(Finalizing)
FParent == ParentOf(Finalizing)
FSlot   == SlotOf(Finalizing)
FUJ     == UJOf(Finalizing)
FUF     == UFOf(Finalizing)
FJC     == JCOf(Finalizing)
FFC     == FCOf(Finalizing)

(***************************************************************************)
(* The first slot of epoch 2 has a block, 3, but the chain that is         *)
(* finalized, 1-2-4-5-6-7, has skipped it: 3 is a child of the finalized   *)
(* block 2 and excluded by the checkpoint (2, 2).                          *)
(***************************************************************************)
Skipping == <<B(0, 3, Old, Old),
              B(1, 5, Old, Old),
              B(2, 6, CP(1, 1), Old),
              B(2, 8, CP(2, 2), Old),
              B(4, 9, CP(2, 2), Old),
              B(5, 11, CP(3, 5), CP(2, 2)),
              B(6, 12, CP(3, 5), CP(2, 2))>>

SBlock  == BlocksOf(Skipping)
SParent == ParentOf(Skipping)
SSlot   == SlotOf(Skipping)
SUJ     == UJOf(Skipping)
SUF     == UFOf(Skipping)
SJC     == JCOf(Skipping)
SFC     == FCOf(Skipping)

(***************************************************************************)
(* After epoch 2 is justified one fork, 4-6, justifies epochs 4 and 6 and  *)
(* finalizes nothing; the other one, 5, justifies epoch 3 and so finalizes *)
(* epoch 2.                                                                *)
(***************************************************************************)
Diverging == SubSeq(Finalizing, 1, 3) \o
             <<B(3, 14, CP(4, 3), Old),
               B(3, 11, CP(3, 3), CP(2, 2)),
               B(4, 20, CP(6, 4), Old)>>

DBlock  == BlocksOf(Diverging)
DParent == ParentOf(Diverging)
DSlot   == SlotOf(Diverging)
DUJ     == UJOf(Diverging)
DUF     == UFOf(Diverging)
DJC     == JCOf(Diverging)
DFC     == FCOf(Diverging)

(* Within an epoch: 1-2-3-4 and a fork, 5, from 1.                         *)
Branching == <<B(0, 3, Old, Old),
               B(1, 6, CP(1, 1), Old),
               B(2, 7, CP(1, 1), Old),
               B(3, 8, CP(1, 1), Old),
               B(1, 7, CP(1, 1), Old)>>

BBlock  == BlocksOf(Branching)
BParent == ParentOf(Branching)
BSlot   == SlotOf(Branching)
BUJ     == UJOf(Branching)
BUF     == UFOf(Branching)
BJC     == JCOf(Branching)
BFC     == FCOf(Branching)
=============================================================================
