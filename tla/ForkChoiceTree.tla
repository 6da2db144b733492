--------------------------- MODULE ForkChoiceTree ---------------------------
(***************************************************************************)
(* The block tree of the fork-choice store                                 *)
(* (beacon-chain/forkchoice/doubly-linked-tree): which blocks are in the   *)
(* store and how they are linked, which of them are still optimistic, the  *)
(* justified and finalized checkpoints, realized and unrealized, and the   *)
(* proposer boost root.                                                    *)
(*                                                                         *)
(* The exported methods of ForkChoice run under its write lock, so each of *)
(* them is one atomic step here.  What interleaves is the order in which   *)
(* the callers get the lock: gossip and batch block import, the slot       *)
(* ticker, and the answers of the execution engine.  Votes, weights and    *)
(* the head are the business of another module: nothing in this one        *)
(* depends on them.                                                        *)
(*                                                                         *)
(* The Store struct is the record `store'.  A Node is its block root; the  *)
(* fields of the nodes are functions on Block, of which only the values at *)
(* the roots in nodeByRoot (and at nodes still linked as children) mean    *)
(* anything.  A nil node pointer is ZeroHash.                              *)
(***************************************************************************)
EXTENDS Integers, FiniteSets

CONSTANTS
    Block,            \* the blocks of a run, as positive integers
    Anchor,           \* the finalized block the node was started from
    AnchorEpoch,      \* the epoch of its checkpoint
    Parent, Slot,     \* what a block says of itself
    JC, FC,           \* current justified / finalized checkpoint of its post-state
    UJ, UF,           \* the same, were epoch processing run on that state now
    Bad,              \* blocks whose execution payload is invalid
    SLOTS_PER_EPOCH,
    StartSlot,        \* the wall clock slot at start-up
    MaxSlot,          \* bound: the last slot of the wall clock
    MaxLag,           \* bound: how many slots the ticker routine may run behind
    MaxImporting,     \* bound: blocks being imported at the same time
    Batches,          \* may blocks be imported in batches (initial sync)?
    BalancesMayFail,  \* may reading the justified balances fail?
    Reinsert,         \* may a block once reported invalid be imported again?
    TrueLVH           \* does the engine report the latest valid hash correctly?

ZeroHash == 0

Root == Block \cup {ZeroHash}

Checkpoint == [epoch : Nat, root : Root]

Epoch(s) == s \div SLOTS_PER_EPOCH

EpochStart(e) == e * SLOTS_PER_EPOCH

SinceEpochStarts(s) == s % SLOTS_PER_EPOCH

(***************************************************************************)
(* The least set that contains start and is closed under next: what a      *)
(* recursive walk over node pointers visits.                               *)
(***************************************************************************)
Closed(next, X) == \A x \in X : next[x] \subseteq X

Reach(next, start) ==
    LET all == start \cup UNION {next[x] : x \in Block}
        closed == {X \in SUBSET all : start \subseteq X /\ Closed(next, X)}
    IN  {b \in all : \A X \in closed : b \in X}

(* The chain of a block: itself and its ancestors down to the anchor.      *)
Chain ==
    LET up == [b \in Block |-> IF b = Anchor THEN {} ELSE {Parent[b]}]
    IN  [b \in Block |-> Reach(up, {b})]

(* a is the block of the chain of b that the checkpoint of epoch e names:  *)
(* the last one up to the first slot of the epoch.                         *)
IsCheckpointBlock(a, b, e) ==
    /\ a \in Chain[b] /\ Slot[a] <= EpochStart(e)
    /\ \A c \in Chain[b] : Slot[c] <= EpochStart(e) => Slot[c] <= Slot[a]

ASSUME ConstantTypes ==
    /\ Block \subseteq Nat \ {0} /\ IsFiniteSet(Block)
    /\ Anchor \in Block
    /\ SLOTS_PER_EPOCH \in Nat \ {0}
    /\ AnchorEpoch \in Nat /\ StartSlot \in Nat /\ MaxSlot \in Nat /\ MaxLag \in Nat
    /\ MaxImporting \in Nat
    /\ Parent \in [Block -> Root]
    /\ Slot \in [Block -> Nat]
    /\ {JC, FC, UJ, UF} \subseteq [Block -> Checkpoint]
    /\ Bad \subseteq Block
    /\ Batches \in BOOLEAN /\ BalancesMayFail \in BOOLEAN
    /\ Reinsert \in BOOLEAN /\ TrueLVH \in BOOLEAN

(* Blocks form a tree under the anchor with slots growing along it.        *)
ASSUME BlocksFormATree ==
    /\ Parent[Anchor] = ZeroHash
    /\ Slot[Anchor] <= EpochStart(AnchorEpoch) /\ EpochStart(AnchorEpoch) <= StartSlot
    /\ \A b \in Block \ {Anchor} : Parent[b] \in Block /\ Slot[Parent[b]] < Slot[b]
    /\ \A b \in Block : Anchor \in Chain[b]

(***************************************************************************)
(* What the state transition guarantees of checkpoints.  Epoch processing  *)
(* realizes the unrealized checkpoints of the parent; the current epoch    *)
(* cannot be justified before two thirds of its slots have voted;          *)
(* checkpoint blocks are on the block's own chain (ZeroHash stands for a   *)
(* block older than the anchor).                                           *)
(***************************************************************************)
ASSUME CheckpointsOfTheState ==
    /\ JC[Anchor].epoch <= AnchorEpoch /\ FC[Anchor].epoch <= JC[Anchor].epoch
    /\ \A b \in Block \ {Anchor} :
         LET p == Parent[b]
             sameEpoch == Epoch(Slot[b]) = Epoch(Slot[p])
         IN  /\ JC[b] = IF sameEpoch THEN JC[p] ELSE UJ[p]
             /\ FC[b] = IF sameEpoch THEN FC[p] ELSE UF[p]
             /\ sameEpoch => UJ[b].epoch >= UJ[p].epoch /\ UF[b].epoch >= UF[p].epoch
    /\ \A b \in Block :
         /\ JC[b].epoch <= UJ[b].epoch /\ UJ[b].epoch <= Epoch(Slot[b])
         /\ FC[b].epoch <= UF[b].epoch /\ UF[b].epoch <= JC[b].epoch
         /\ UJ[b].epoch = Epoch(Slot[b]) /\ JC[b].epoch < UJ[b].epoch =>
                SinceEpochStarts(Slot[b]) * 3 >= SLOTS_PER_EPOCH * 2
         /\ Epoch(Slot[b]) <= 1 => UJ[b] = JC[b] /\ UF[b] = FC[b]
         /\ \A c \in {UJ[b], UF[b]} :
                IF c.epoch < AnchorEpoch THEN c.root = ZeroHash
                ELSE IsCheckpointBlock(c.root, b, c.epoch)

(***************************************************************************)
(* Casper FFG accountable safety, which holds while fewer than a third of  *)
(* the validators are slashable: justified checkpoints of one epoch are    *)
(* equal, and one later than a finalized checkpoint, such as the anchor's, *)
(* has it on its chain.                                                    *)
(***************************************************************************)
FinalizedCheckpoints ==
    {[epoch |-> AnchorEpoch, root |-> Anchor]}
        \cup {UF[b] : b \in {x \in Block : UF[x].epoch >= AnchorEpoch}}

JustifiedCheckpoints == FinalizedCheckpoints \cup {UJ[b] : b \in Block}

ASSUME FinalityIsSafe ==
    /\ \A c, d \in JustifiedCheckpoints : c.epoch = d.epoch => c = d
    /\ \A c \in FinalizedCheckpoints, d \in JustifiedCheckpoints :
           d.epoch > c.epoch => IsCheckpointBlock(c.root, d.root, c.epoch)

(* A payload on top of an invalid one is invalid; no supermajority votes   *)
(* for a checkpoint with an invalid payload.                               *)
ASSUME InvalidityOfPayloads ==
    /\ Anchor \notin Bad
    /\ \A b \in Block \ {Anchor} : Parent[b] \in Bad => b \in Bad
    /\ \A b \in Block : UJ[b].root \notin Bad /\ UF[b].root \notin Bad

VARIABLES
    slot,       \* the wall clock: slots.CurrentSlot(genesisTime)
    late,       \* is the attestation deadline of that slot behind us?
    tick,       \* the last slot the ticker routine called NewSlot for
    store,      \* forkchoice's Store
    importing,  \* blocks that passed the checks made before the lock is taken
    badBlocks   \* blocks that were reported invalid so far

vars == <<slot, late, tick, store, importing, badBlocks>>

Store ==
    [nodeByRoot                    : SUBSET Block,
     treeRootNode                  : Block,
     parent                        : [Block -> Root],
     children                      : [Block -> SUBSET Block],
     target                        : [Block -> Root],
     justifiedEpoch                : [Block -> Nat],
     finalizedEpoch                : [Block -> Nat],
     unrealizedJustifiedEpoch      : [Block -> Nat],
     unrealizedFinalizedEpoch      : [Block -> Nat],
     optimistic                    : SUBSET Block,
     justifiedCheckpoint           : Checkpoint,
     finalizedCheckpoint           : Checkpoint,
     unrealizedJustifiedCheckpoint : Checkpoint,
     unrealizedFinalizedCheckpoint : Checkpoint,
     finalizedDependentRoot        : Root,
     proposerBoostRoot             : Root,
     highestReceivedNode           : Block]

(***************************************************************************)
(* Start-up from a finalized block (setupForkchoice after a checkpoint     *)
(* sync): the checkpoints are set first, then the block is inserted with   *)
(* no parent, and marked validated if it is the last validated checkpoint. *)
(***************************************************************************)
InitStore(opt) ==
    LET nil == [b \in Block |-> ZeroHash]
        at(e) == [b \in Block |-> IF b = Anchor THEN e ELSE 0]
        start == [epoch |-> AnchorEpoch, root |-> Anchor]
        none == [epoch |-> 0, root |-> ZeroHash]
    IN  [nodeByRoot |-> {Anchor}, treeRootNode |-> Anchor,
         parent |-> nil, children |-> [b \in Block |-> {}],
         target |-> [nil EXCEPT ![Anchor] =
                        IF SinceEpochStarts(Slot[Anchor]) = 0 THEN Anchor ELSE ZeroHash],
         justifiedEpoch |-> at(JC[Anchor].epoch), finalizedEpoch |-> at(FC[Anchor].epoch),
         unrealizedJustifiedEpoch |-> at(JC[Anchor].epoch),
         unrealizedFinalizedEpoch |-> at(FC[Anchor].epoch),
         optimistic |-> opt,
         justifiedCheckpoint |-> start, finalizedCheckpoint |-> start,
         unrealizedJustifiedCheckpoint |-> none, unrealizedFinalizedCheckpoint |-> none,
         finalizedDependentRoot |-> ZeroHash, proposerBoostRoot |-> ZeroHash,
         highestReceivedNode |-> Anchor]

Init ==
    /\ slot = StartSlot /\ late = FALSE /\ tick = StartSlot
    /\ \E opt \in {{}, {Anchor}} : store = InitStore(opt)
    /\ importing = {} /\ badBlocks = {}

-----------------------------------------------------------------------------
(* Insertion and removal of nodes *)

(* Mutation: the target is inherited across an epoch boundary.             *)
TargetOf_Inherited(S, b) ==
    IF SinceEpochStarts(Slot[b]) = 0 THEN b ELSE S.target[Parent[b]]

(* The checkpoint block of the node's epoch, on its own chain.             *)
TargetOf(S, b) ==
    LET p == Parent[b]
    IN  CASE SinceEpochStarts(Slot[b]) = 0      -> b
          [] Epoch(Slot[b]) = Epoch(Slot[p])    -> S.target[p]
          [] OTHER                              -> p

(* The first block of the current slot that is in before the deadline.     *)
GetsBoost(S, b) == Slot[b] = slot /\ ~late /\ S.proposerBoostRoot = ZeroHash

(* The fields of a new node.                                               *)
NewNode(S, b, jEpoch, fEpoch) ==
    [S EXCEPT !.parent[b] = Parent[b],
              !.target[b] = TargetOf(S, b),
              !.justifiedEpoch[b] = jEpoch,
              !.finalizedEpoch[b] = fEpoch,
              !.unrealizedJustifiedEpoch[b] = jEpoch,
              !.unrealizedFinalizedEpoch[b] = fEpoch]

(* A childless node b becomes a child of p.                                *)
Adopt(children, p, b) == [children EXCEPT ![b] = {}, ![p] = @ \cup {b}]

(***************************************************************************)
(* Store.insert.  A block that is in already is left as it is; one whose   *)
(* parent is not in the store is refused.                                  *)
(***************************************************************************)
InsertFails(S, b) == b \notin S.nodeByRoot /\ Parent[b] \notin S.nodeByRoot

Insert(S, b, jEpoch, fEpoch) ==
    IF b \in S.nodeByRoot \/ InsertFails(S, b) THEN S
    ELSE [NewNode(S, b, jEpoch, fEpoch) EXCEPT
            !.nodeByRoot = @ \cup {b},
            !.children = Adopt(@, Parent[b], b),
            !.optimistic = @ \cup {b},
            !.proposerBoostRoot = IF GetsBoost(S, b) THEN b ELSE @,
            !.highestReceivedNode = IF Slot[b] > Slot[@] THEN b ELSE @]

Subtree(S, n) == Reach(S.children, {n})

(* Mutation: validated nodes are removed like the others.                  *)
RemoveNode_AnyStatus(S, n) ==
    LET gone == Reach(S.children, {n})
    IN  IF S.parent[n] = ZeroHash THEN S
        ELSE [S EXCEPT !.nodeByRoot = @ \ gone, !.children[S.parent[n]] = @ \ {n}]

(* Mutation: the node goes, its descendants stay in the map.               *)
RemoveNode_NotChildren(S, n) ==
    IF n \notin S.optimistic \/ S.parent[n] = ZeroHash THEN S
    ELSE [S EXCEPT !.nodeByRoot = @ \ {n}, !.children[S.parent[n]] = @ \ {n}]

(* Store.removeNode: only an optimistic node that is not the tree root.    *)
RemoveNode(S, n) ==
    LET gone == Subtree(S, n)
    IN  IF n \notin S.optimistic \/ S.parent[n] = ZeroHash THEN S
        ELSE [S EXCEPT
                !.nodeByRoot = @ \ gone,
                !.children[S.parent[n]] = @ \ {n},
                !.proposerBoostRoot = IF @ \in gone THEN ZeroHash ELSE @]

-----------------------------------------------------------------------------
(* Finalization *)

(***************************************************************************)
(* What pruneFinalizedNodeByRootMap deletes when it walks down from the    *)
(* nodes in from: it never enters the finalized node.                      *)
(***************************************************************************)
PrunedFrom(S, from) ==
    LET fin == S.finalizedCheckpoint.root
    IN  Reach([x \in Block |-> S.children[x] \ {fin}], from \ {fin})

(* Mutation: the children of the finalized node are not looked at.         *)
IncompatibleChildren_None(S) == {}

(***************************************************************************)
(* Children of the finalized node that the checkpoint excludes: it is the  *)
(* last block up to the first slot of its epoch, so they cannot be there.  *)
(***************************************************************************)
IncompatibleChildren(S) ==
    LET fin == S.finalizedCheckpoint.root
        checkpointMaxSlot == EpochStart(S.finalizedCheckpoint.epoch)
    IN  IF Slot[fin] = checkpointMaxSlot THEN {}
        ELSE {c \in S.children[fin] : Slot[c] <= checkpointMaxSlot}

(***************************************************************************)
(* Store.prune.  The pruned children of the finalized node stay in its     *)
(* list of children: only the map and their own lists are cleared.         *)
(***************************************************************************)
PruneFails(S) == S.finalizedCheckpoint.root \notin S.nodeByRoot

Prune(S) ==
    LET fin == S.finalizedCheckpoint.root
        gone == PrunedFrom(S, {S.treeRootNode}) \cup PrunedFrom(S, IncompatibleChildren(S))
    IN  IF PruneFails(S) \/ S.parent[fin] = ZeroHash THEN S
        ELSE [S EXCEPT
                !.nodeByRoot = @ \ gone,
                !.children = [x \in Block |-> IF x \in gone THEN {} ELSE S.children[x]],
                !.parent[fin] = ZeroHash,
                !.target[fin] = IF @ = fin THEN fin ELSE ZeroHash,
                !.treeRootNode = fin,
                !.finalizedDependentRoot = S.parent[fin]]

(***************************************************************************)
(* ForkChoice.updateCheckpoints.  ok: did reading the justified balances   *)
(* succeed?  If not the justified checkpoint has moved all the same.       *)
(***************************************************************************)
Justifies(S, jc) == jc.epoch > S.justifiedCheckpoint.epoch

Finalizes(S, fc) == fc.epoch > S.finalizedCheckpoint.epoch

SetJustified(S, jc) ==
    IF Justifies(S, jc) THEN [S EXCEPT !.justifiedCheckpoint = jc] ELSE S

UpdateCheckpoints(S, jc, fc, ok) ==
    IF (Justifies(S, jc) /\ ~ok) \/ ~Finalizes(S, fc)
    THEN SetJustified(S, jc)
    ELSE Prune([SetJustified(S, jc) EXCEPT !.finalizedCheckpoint = fc])

UpdateCheckpointsFails(S, jc, fc, ok) ==
    \/ Justifies(S, jc) /\ ~ok
    \/ Finalizes(S, fc) /\ fc.root \notin S.nodeByRoot

-----------------------------------------------------------------------------
(* Unrealized justification *)

(* Mutation: the check that it is too early for the current epoch is gone. *)
ExitsEarly_AnySlot(S, b) ==
    LET parentEpoch == S.unrealizedJustifiedEpoch[S.parent[b]]
    IN  \/ parentEpoch = Epoch(slot)
        \/ Epoch(Slot[b]) = Epoch(slot) /\ parentEpoch + 1 = Epoch(slot)

(***************************************************************************)
(* Store.pullTips exits early when the parent has justified the current    *)
(* epoch, or the previous one and it is too early for the current one: the *)
(* node then takes over the epochs of its parent.                          *)
(***************************************************************************)
ExitsEarly(S, b) ==
    LET parentEpoch == S.unrealizedJustifiedEpoch[S.parent[b]]
    IN  \/ parentEpoch = Epoch(slot)
        \/ /\ Epoch(Slot[b]) = Epoch(slot)
           /\ parentEpoch + 1 = Epoch(slot)
           /\ SinceEpochStarts(Slot[b]) * 3 < SLOTS_PER_EPOCH * 2

(* A block of an earlier epoch has its unrealized checkpoints realized.    *)
IsPulled(S, b) ==
    /\ S.parent[b] # ZeroHash
    /\ ~ExitsEarly(S, b)
    /\ Epoch(Slot[b]) < Epoch(slot)

(***************************************************************************)
(* A better unrealized finalized checkpoint replaces both unrealized       *)
(* checkpoints of the store, the justified one even by an older one.       *)
(***************************************************************************)
RecordUnrealized(S, uj, uf) ==
    LET finalizes == uf.epoch > S.unrealizedFinalizedCheckpoint.epoch
        justifies == uj.epoch > S.unrealizedJustifiedCheckpoint.epoch
    IN  [S EXCEPT
            !.unrealizedJustifiedCheckpoint = IF justifies \/ finalizes THEN uj ELSE @,
            !.unrealizedFinalizedCheckpoint = IF finalizes THEN uf ELSE @]

PullTips(S, b) ==
    LET p == S.parent[b]
    IN  CASE p = ZeroHash -> S
          [] p # ZeroHash /\ ExitsEarly(S, b) ->
                [S EXCEPT !.unrealizedJustifiedEpoch[b] = S.unrealizedJustifiedEpoch[p],
                          !.unrealizedFinalizedEpoch[b] = S.unrealizedFinalizedEpoch[p]]
          [] OTHER ->
                [RecordUnrealized(S, UJ[b], UF[b]) EXCEPT
                    !.unrealizedJustifiedEpoch[b] = UJ[b].epoch,
                    !.unrealizedFinalizedEpoch[b] = UF[b].epoch,
                    !.justifiedEpoch[b] = IF IsPulled(S, b) THEN UJ[b].epoch ELSE @,
                    !.finalizedEpoch[b] = IF IsPulled(S, b) THEN UF[b].epoch ELSE @]

(***************************************************************************)
(* ForkChoice.updateUnrealizedCheckpoints: every node visited realizes its *)
(* epochs, and one that is ahead of the store brings the store's           *)
(* unrealized checkpoint in force.                                         *)
(***************************************************************************)
Realize(S, nodes) ==
    [S EXCEPT
        !.justifiedEpoch =
            [x \in Block |-> IF x \in nodes THEN S.unrealizedJustifiedEpoch[x] ELSE S.justifiedEpoch[x]],
        !.finalizedEpoch =
            [x \in Block |-> IF x \in nodes THEN S.unrealizedFinalizedEpoch[x] ELSE S.finalizedEpoch[x]]]

AheadJustified(S) ==
    {n \in S.nodeByRoot : S.unrealizedJustifiedEpoch[n] > S.justifiedCheckpoint.epoch}

AheadFinalized(S) ==
    {n \in S.nodeByRoot : S.unrealizedFinalizedEpoch[n] > S.finalizedCheckpoint.epoch}

(* Mutation: the wrong unrealized checkpoint becomes the justified one.    *)
UpdateUnrealizedCheckpoints_Swapped(S) ==
    [Realize(S, S.nodeByRoot) EXCEPT
        !.justifiedCheckpoint =
            IF AheadJustified(S) # {} THEN S.unrealizedFinalizedCheckpoint ELSE @]

UpdateUnrealizedCheckpoints(S) ==
    [Realize(S, S.nodeByRoot) EXCEPT
        !.justifiedCheckpoint =
            IF AheadJustified(S) # {} THEN S.unrealizedJustifiedCheckpoint ELSE @,
        !.finalizedCheckpoint =
            IF AheadFinalized(S) # {} THEN S.unrealizedFinalizedCheckpoint ELSE @]

(* Mutation: the finalized checkpoint is replaced by whatever is recorded. *)
UpdateUnrealizedCheckpointsFailing_Any(S, done, n) ==
    [Realize(S, done \cup {n}) EXCEPT
        !.justifiedCheckpoint = S.unrealizedJustifiedCheckpoint,
        !.finalizedCheckpoint = S.unrealizedFinalizedCheckpoint]

(* Mutation: as above, for the justified checkpoint.                       *)
UpdateUnrealizedCheckpointsFailing_Swapped(S, done, n) ==
    [Realize(S, done \cup {n}) EXCEPT
        !.justifiedCheckpoint = S.unrealizedFinalizedCheckpoint]

(* The map is visited in any order; after the nodes in done, the loop      *)
(* reads the balances at node n ...                                        *)
ReadsBalancesAt(S, done, n) ==
    LET justified == IF AheadJustified(S) \cap done # {}
                     THEN S.unrealizedJustifiedCheckpoint ELSE S.justifiedCheckpoint
    IN  n \in S.nodeByRoot \ done /\ S.unrealizedJustifiedEpoch[n] > justified.epoch

(* ... and stops there when that fails.                                    *)
UpdateUnrealizedCheckpointsFailing(S, done, n) ==
    [Realize(S, done \cup {n}) EXCEPT
        !.justifiedCheckpoint = S.unrealizedJustifiedCheckpoint,
        !.finalizedCheckpoint =
            IF AheadFinalized(S) \cap done # {} THEN S.unrealizedFinalizedCheckpoint ELSE @]

-----------------------------------------------------------------------------
(* The exported methods of ForkChoice *)

(* ForkChoice.InsertNode: a block that fails half-way is taken out again.  *)
NodeCheckpoints(S, b) ==
    IF IsPulled(S, b) THEN [jc |-> UJ[b], fc |-> UF[b]] ELSE [jc |-> JC[b], fc |-> FC[b]]

InsertNodeFails(S, b, ok) ==
    LET inserted == Insert(S, b, JC[b].epoch, FC[b].epoch)
        c == NodeCheckpoints(inserted, b)
    IN  InsertFails(S, b) \/ UpdateCheckpointsFails(inserted, c.jc, c.fc, ok)

InsertNode(S, b, ok) ==
    LET inserted == Insert(S, b, JC[b].epoch, FC[b].epoch)
        c == NodeCheckpoints(inserted, b)
        updated == UpdateCheckpoints(PullTips(inserted, b), c.jc, c.fc, ok)
    IN  CASE InsertFails(S, b) -> S
          [] ~InsertFails(S, b) /\ InsertNodeFails(S, b, ok) -> RemoveNode(updated, b)
          [] OTHER -> updated

(* ForkChoice.InsertChain, one block of the batch: no tips are pulled, and *)
(* nothing is undone when it fails.                                        *)
InsertChainFails(S, b, ok) ==
    \/ InsertFails(S, b)
    \/ UpdateCheckpointsFails(Insert(S, b, JC[b].epoch, FC[b].epoch), JC[b], FC[b], ok)

InsertChain(S, b, ok) ==
    IF InsertFails(S, b) THEN S
    ELSE UpdateCheckpoints(Insert(S, b, JC[b].epoch, FC[b].epoch), JC[b], FC[b], ok)

(* Mutation: the parents are not visited.                                  *)
SetOptimisticToValid_Alone(S, n) == [S EXCEPT !.optimistic = @ \ {n}]

(* Node.setNodeAndParentValidated: up to the first validated ancestor.     *)
SetOptimisticToValid(S, n) ==
    LET up == [x \in Block |-> {S.parent[x]} \cap S.optimistic]
    IN  [S EXCEPT !.optimistic = @ \ (IF n \in @ THEN Reach(up, {n}) ELSE {})]

(* Mutation: the walk stops at the latest valid node, not below it.        *)
FirstInvalid_OneTooMany(S, n, lvh) ==
    IF lvh # ZeroHash THEN lvh ELSE n

(***************************************************************************)
(* Store.setOptimisticToInvalid.  lvh is the block whose payload is the    *)
(* latest valid hash of the engine's answer, ZeroHash if no node has it.   *)
(* The walk goes up from the node, or from the parent of an unknown block, *)
(* until the parent is the latest valid one; if it never is, only the node *)
(* itself goes.                                                            *)
(***************************************************************************)
FirstInvalid(S, n, lvh) ==
    LET walked == Reach([x \in Block |-> {S.parent[x]} \ {ZeroHash, lvh}], {n})
    IN  CHOOSE x \in walked : S.parent[x] \in {ZeroHash, lvh}

SetOptimisticToInvalid(S, b, lvh) ==
    LET known == b \in S.nodeByRoot
        node == IF known THEN b ELSE Parent[b]
        first == FirstInvalid(S, node, lvh)
    IN  CASE node \notin S.nodeByRoot                      -> S
          [] ~known /\ node = lvh                          -> S
          [] ~known /\ S.parent[first] = ZeroHash          -> S
          [] known /\ S.parent[first] = ZeroHash           -> RemoveNode(S, node)
          [] OTHER                                         -> RemoveNode(S, first)

(* ForkChoice.NewSlot.                                                     *)
ClearBoost(S) == [S EXCEPT !.proposerBoostRoot = ZeroHash]

(* Mutation: the boost is reset only when the epoch turns.                 *)
NewSlot_BoostStays(S, s) ==
    IF SinceEpochStarts(s) # 0 THEN S
    ELSE Prune(UpdateUnrealizedCheckpoints(ClearBoost(S)))

NewSlot(S, s) ==
    IF SinceEpochStarts(s) # 0 THEN ClearBoost(S)
    ELSE Prune(UpdateUnrealizedCheckpoints(ClearBoost(S)))

NewSlotFailing(S, done, n) == UpdateUnrealizedCheckpointsFailing(ClearBoost(S), done, n)

-----------------------------------------------------------------------------
(* The callers *)

BalancesOutcomes == IF BalancesMayFail THEN {TRUE, FALSE} ELSE {TRUE}

(* The clock.  A slot has a part before and one after the attestation      *)
(* deadline.                                                               *)
NextSlot ==
    /\ slot < MaxSlot /\ slot < tick + MaxLag
    /\ slot' = slot + 1 /\ late' = FALSE
    /\ UNCHANGED <<tick, store, importing, badBlocks>>

Deadline ==
    /\ ~late /\ late' = TRUE
    /\ UNCHANGED <<slot, tick, store, importing, badBlocks>>

(* The ticker routine of the blockchain service, some time into the slot.  *)
OnTick ==
    /\ tick < slot
    /\ tick' = tick + 1
    /\ store' = NewSlot(store, tick + 1)
    /\ UNCHANGED <<slot, late, importing, badBlocks>>

OnTickFailing ==
    /\ BalancesMayFail
    /\ tick < slot
    /\ SinceEpochStarts(tick + 1) = 0
    /\ tick' = tick + 1
    /\ \E n \in store.nodeByRoot, done \in SUBSET store.nodeByRoot :
           /\ ReadsBalancesAt(ClearBoost(store), done, n)
           /\ store' = NewSlotFailing(store, done, n)
    /\ UNCHANGED <<slot, late, importing, badBlocks>>

(* The checks on the slot of a block: not from the future but for the      *)
(* clock disparity, and later than the finalized checkpoint.               *)
InTimeWindow(b) ==
    /\ Slot[b] <= slot \/ (late /\ Slot[b] = slot + 1)
    /\ Slot[b] > EpochStart(store.finalizedCheckpoint.epoch)

(* ReceiveBlock up to the point where it takes the lock, the answer of the *)
(* engine to the new payload (valid, or else still syncing) included.      *)
StartImport(b, valid) ==
    /\ b \notin store.nodeByRoot
    /\ Parent[b] \in store.nodeByRoot
    /\ InTimeWindow(b)
    /\ Reinsert \/ b \notin badBlocks
    /\ \A i \in importing : i.block # b
    /\ Cardinality(importing) < MaxImporting
    /\ valid => b \notin Bad
    /\ importing' = importing \cup {[block |-> b, valid |-> valid]}
    /\ UNCHANGED <<slot, late, tick, store, badBlocks>>

(* The rest of ReceiveBlock, under the lock (postBlockProcess).            *)
FinishImport(i, ok) ==
    /\ importing' = importing \ {i}
    /\ store' = LET S == InsertNode(store, i.block, ok)
                IN  IF i.valid /\ ~InsertNodeFails(store, i.block, ok)
                    THEN SetOptimisticToValid(S, i.block) ELSE S
    /\ UNCHANGED <<slot, late, tick, badBlocks>>

(* ReceiveBlockBatch on a batch of one block; a longer one is several such *)
(* steps in a row, only the last one with a valid payload.                 *)
ImportBatch(b, valid, ok) ==
    /\ Batches
    /\ Parent[b] \in store.nodeByRoot
    /\ Slot[b] <= slot /\ InTimeWindow(b)
    /\ Reinsert \/ b \notin badBlocks
    /\ valid => b \notin Bad
    /\ store' = LET S == InsertChain(store, b, ok)
                IN  IF valid /\ ~InsertChainFails(store, b, ok)
                    THEN SetOptimisticToValid(S, b) ELSE S
    /\ UNCHANGED <<slot, late, tick, importing, badBlocks>>

(* The engine answers VALID to a forkchoice update for n.                  *)
PayloadValid(n) ==
    /\ n \in (store.nodeByRoot \cap store.optimistic) \ Bad
    /\ store' = SetOptimisticToValid(store, n)
    /\ UNCHANGED <<slot, late, tick, importing, badBlocks>>

(* The payload the engine names as the latest valid one on the way to b.   *)
LatestValid(b) ==
    {a \in Chain[b] \ Bad : \A c \in Chain[b] \ Bad : Slot[c] <= Slot[a]}

LatestValidHashes(b) == IF TrueLVH THEN LatestValid(b) \cup {ZeroHash} ELSE Root

(* The engine answers INVALID for b, with or without a latest valid hash.  *)
(* setOptimisticToInvalid dereferences the parent of a known node, so it   *)
(* cannot be called for the tree root, which is never invalid.             *)
PayloadInvalid(b, lvh) ==
    /\ {b, Parent[b]} \cap store.nodeByRoot # {}
    /\ b # store.treeRootNode
    /\ store' = SetOptimisticToInvalid(store, b, lvh)
    /\ badBlocks' = badBlocks \cup {b} \cup (store.nodeByRoot \ store'.nodeByRoot)
    /\ UNCHANGED <<slot, late, tick, importing>>

Next ==
    \/ NextSlot \/ Deadline \/ OnTick \/ OnTickFailing
    \/ \E b \in Block \ {Anchor}, valid \in BOOLEAN : StartImport(b, valid)
    \/ \E i \in importing, ok \in BalancesOutcomes : FinishImport(i, ok)
    \/ \E b \in Block \ {Anchor}, valid \in BOOLEAN, ok \in BalancesOutcomes :
           ImportBatch(b, valid, ok)
    \/ \E n \in Block : PayloadValid(n)
    \/ \E b \in Bad : \E lvh \in LatestValidHashes(b) : PayloadInvalid(b, lvh)

Spec == Init /\ [][Next]_vars

-----------------------------------------------------------------------------
(* Properties *)

(* Every field of the Store struct and every caller's state has its type.  *)
TypeOK ==
    /\ slot \in Nat /\ tick \in Nat /\ late \in BOOLEAN
    /\ store \in Store
    /\ importing \subseteq [block : Block, valid : BOOLEAN]
    /\ badBlocks \subseteq Block

(* The map and the tree agree: every known node but the tree root hangs    *)
(* from a known parent that lists it, so that a walk from treeRootNode     *)
(* reaches it, whatever insert, prune and removeNode did before.           *)
TreeIsLinked ==
    /\ store.treeRootNode \in store.nodeByRoot
    /\ store.parent[store.treeRootNode] = ZeroHash
    /\ \A n \in store.nodeByRoot \ {store.treeRootNode} :
         /\ store.parent[n] = Parent[n]
         /\ Parent[n] \in store.nodeByRoot
         /\ n \in store.children[Parent[n]]

(* The ancestors of a validated node are validated: what IsOptimistic      *)
(* says of a block (setNodeAndParentValidated stops at the first validated *)
(* one, and removeNode refuses validated nodes but takes their subtrees).  *)
ValidatedAncestors ==
    \A n \in store.nodeByRoot \ {store.treeRootNode} :
        n \notin store.optimistic => store.parent[n] \notin store.optimistic

(* No node whose payload is invalid is ever shown as validated.            *)
InvalidNeverValidated ==
    \A n \in store.nodeByRoot : n \in Bad => n \in store.optimistic

(* head() starts from the justified root and prune() from the finalized    *)
(* one: both are in the store, and the justified checkpoint descends from  *)
(* the finalized one, although the two are moved by different blocks,      *)
(* ticks and early exits of pullTips and nodes leave in between.           *)
CheckpointsConsistent ==
    /\ store.finalizedCheckpoint.root \in store.nodeByRoot
    /\ store.justifiedCheckpoint.root \in store.nodeByRoot
    /\ store.justifiedCheckpoint.epoch >= store.finalizedCheckpoint.epoch
    /\ store.finalizedCheckpoint.root \in Chain[store.justifiedCheckpoint.root]

(* The tree is what is left of it after finalization: its root is the      *)
(* finalized block, and no block that the finalized checkpoint excludes is *)
(* left in the map (prune).                                                *)
PrunedToFinalized ==
    /\ store.treeRootNode = store.finalizedCheckpoint.root
    /\ \A n \in store.nodeByRoot :
         IsCheckpointBlock(store.finalizedCheckpoint.root, n, store.finalizedCheckpoint.epoch)

(* A node's target is the checkpoint block of its epoch on its chain, or   *)
(* nil when that block is older than the tree (insert, prune).             *)
TargetsAreCheckpoints ==
    \A n \in store.nodeByRoot :
        \/ IsCheckpointBlock(store.target[n], n, Epoch(Slot[n]))
        \/ /\ store.target[n] = ZeroHash
           /\ \A t \in store.nodeByRoot : ~IsCheckpointBlock(t, n, Epoch(Slot[n]))

(* The boost does not outlive its slot: NewSlot of a later slot clears it, *)
(* even when the ticker routine runs behind the clock.                     *)
BoostIsOfThisSlot ==
    store.proposerBoostRoot # ZeroHash => Slot[store.proposerBoostRoot] \in tick..slot

(* Finality is final: the finalized checkpoint never goes back, and a new  *)
(* one descends from the previous one, whether a block or the turn of the  *)
(* epoch brings it.                                                        *)
FinalizedMonotone ==
    [][/\ store'.finalizedCheckpoint.epoch >= store.finalizedCheckpoint.epoch
       /\ store.finalizedCheckpoint.root \in Chain[store'.finalizedCheckpoint.root]]_vars

(* An INVALID answer never takes out a validated node, whatever latest     *)
(* valid hash comes with it (setOptimisticToInvalid and removeNode).       *)
InvalidationSparesValidated ==
    [][badBlocks' # badBlocks =>
         store.nodeByRoot \ store'.nodeByRoot \subseteq store.optimistic]_vars

(* A block leaves the store only when its payload is invalid or when the   *)
(* finalized checkpoint excludes it.                                       *)
OnlyDeadBlocksLeave ==
    [][\A n \in store.nodeByRoot \ store'.nodeByRoot :
         \/ n \in Bad
         \/ ~IsCheckpointBlock(store'.finalizedCheckpoint.root, n,
                                store'.finalizedCheckpoint.epoch)]_vars

(* Leaving pullTips early does not change the result: a block imported by  *)
(* InsertNode has the unrealized justified epoch its own state would give. *)
EarlyExitIsExact ==
    [][\A b \in store'.nodeByRoot \ store.nodeByRoot :
         importing' # importing => store'.unrealizedJustifiedEpoch[b] = UJ[b].epoch]_vars

-----------------------------------------------------------------------------
(* Statements of comments and tests of the code that it does not keep *)

(* on_tick.go says that the justified checkpoint is updated if there is a  *)
(* better one: it is never replaced by an older one.                       *)
JustifiedMonotone ==
    [][store'.justifiedCheckpoint.epoch >= store.justifiedCheckpoint.epoch]_vars
=============================================================================
