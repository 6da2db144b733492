--------------------------- MODULE ForkChoiceVotes ---------------------------
(***************************************************************************)
(* Votes, weights and the head of the fork choice                          *)
(* (beacon-chain/forkchoice/doubly-linked-tree).  Every node carries the   *)
(* balance of the votes for it, and is not recounted: a call to Head       *)
(* applies what changed since the last one, votes, justified balances and  *)
(* proposer boost, and the other operations remove a node, a slashed       *)
(* validator or a boost at any point in between.                           *)
(*                                                                         *)
(* The tree, the voting source of every block and the checkpoints that may *)
(* become justified and finalized are constants; which blocks arrive, when *)
(* and in which order, and when a checkpoint is adopted, is not.  The      *)
(* weights and best descendants of the nodes are recomputed from the       *)
(* balances by every call to Head and are no state of this module.         *)
(***************************************************************************)
EXTENDS Integers, FiniteSets, Sequences, FiniteSetsExt

CONSTANTS NoRoot,          \* ZeroHash
          TreeBlocks,      \* the blocks that may arrive
          AnchorRoot,      \* the root of the tree
          ParentRoot,      \* block -> its parent
          BlockSlot,       \* block -> its slot
          VotingSource,    \* block -> the justified epoch it votes with
          RootRank,        \* block -> its place in the order of the roots
          Voters,          \* number of validators; their indices are 1 .. Voters
          Checkpoints,     \* sequence of [epoch, root, balances, finalized]
          SlotsPerEpoch, ProposerScoreBoost,
          WordSize,        \* 2^64: balances are kept modulo this
          FirstSlot,       \* the slot the node starts in
          LastSlot,        \* bound on the clock
          MaxInputs        \* bound on votes, slashings and removals together

VARIABLES
  nodes,      \* nodeByRoot
  removed,    \* blocks removed as invalid
  balance,    \* Node.balance
  votes,      \* f.votes
  balances,   \* f.balances: what the counted votes were counted with
  level,      \* the checkpoints of the store, an index of Checkpoints
  slashedIndices,
  proposerBoostRoot,
  previousBoost, \* previousProposerBoostRoot and previousProposerBoostScore
  voteSlot,   \* the clock
  inputs      \* number of votes, slashings and removals so far

voteVars == <<nodes, removed, balance, votes, balances, level, slashedIndices,
              proposerBoostRoot, previousBoost, voteSlot, inputs>>

Indices == 1 .. Voters
EpochOf(s) == s \div SlotsPerEpoch

\* The sum of f over the members of S.
Total(f, S) == MapThenSumSet(LAMBDA x : f[x], S)

\* A block and its ancestors: the least set with it and the parents of its members.
HasParents(S) == \A b \in S \ {AnchorRoot} : ParentRoot[b] \in S
Ancestry ==
  [b \in TreeBlocks |->
     {a \in TreeBlocks : \A S \in SUBSET TreeBlocks : b \in S /\ HasParents(S) => a \in S}]

SubtreeOf(N, b) == {c \in N : b \in Ancestry[c]}
Children(N, b) == {c \in N \ {AnchorRoot} : ParentRoot[c] = b}

justified == Checkpoints[level]

(***************************************************************************)
(* A block is later than its parent and votes with no earlier source; no   *)
(* two blocks have the same root.  The checkpoints of the store come from  *)
(* states: the justified block descends from the finalized one, and of two *)
(* finalized blocks the later descends from the earlier.  All the balances *)
(* of a state together fit into a word.                                    *)
(***************************************************************************)
ASSUME VotesAssumption ==
  /\ IsFiniteSet(TreeBlocks) /\ AnchorRoot \in TreeBlocks /\ NoRoot \notin TreeBlocks
  /\ \A b \in TreeBlocks : BlockSlot[b] \in Nat /\ VotingSource[b] \in Nat /\ RootRank[b] \in Nat
  /\ \A b \in TreeBlocks \ {AnchorRoot} :
       /\ ParentRoot[b] \in TreeBlocks /\ BlockSlot[ParentRoot[b]] < BlockSlot[b]
       /\ VotingSource[ParentRoot[b]] <= VotingSource[b]
  /\ \A b, c \in TreeBlocks : RootRank[b] = RootRank[c] => b = c
  /\ Voters \in Nat /\ WordSize \in Nat /\ SlotsPerEpoch \in Nat \ {0}
  /\ ProposerScoreBoost \in Nat /\ FirstSlot \in Nat

ASSUME CheckpointsAssumption ==
  /\ Len(Checkpoints) \in Nat \ {0}
  /\ \A l \in 1 .. Len(Checkpoints) :
       /\ Checkpoints[l].epoch \in Nat /\ Checkpoints[l].balances \in [Indices -> Nat]
       /\ Total(Checkpoints[l].balances, Indices) < WordSize
       /\ Checkpoints[l].root \in TreeBlocks
       /\ Checkpoints[l].finalized \in Ancestry[Checkpoints[l].root]
       /\ \A m \in 1 .. l : Checkpoints[m].finalized \in Ancestry[Checkpoints[l].finalized]
  /\ Checkpoints[1].root = AnchorRoot

-----------------------------------------------------------------------------
(* Checkpoints: updateCheckpoints and updateUnrealizedCheckpoints adopt a  *)
(* later justified checkpoint with its balances, and prune when a later    *)
(* one is finalized.                                                       *)

JustifiesLevel(b, l) ==
  Checkpoints[l].epoch <= VotingSource[b] /\ Checkpoints[l].root \in Ancestry[b]

\* One of the blocks in from brings the checkpoints of the store forward.
UpdateLevel(N, from) ==
  \E l \in level .. Len(Checkpoints) :
    /\ l = level \/ \E b \in from : JustifiesLevel(b, l)
    /\ level' = l
    /\ nodes' = SubtreeOf(N, Checkpoints[l].finalized)

\* The committee of a slot, by weight.
CommitteeWeight(bals) == Total(bals, Indices) \div SlotsPerEpoch

InsertBlock(b, timely) ==
  /\ b \in TreeBlocks \ ({AnchorRoot} \union nodes \union removed)
  /\ ParentRoot[b] \in nodes /\ BlockSlot[b] <= voteSlot
  /\ balance' = [balance EXCEPT ![b] = 0]
  /\ proposerBoostRoot' = IF BlockSlot[b] = voteSlot /\ timely /\ proposerBoostRoot = NoRoot
                          THEN b ELSE proposerBoostRoot
  /\ UpdateLevel(nodes \union {b}, {b})
  /\ UNCHANGED <<removed, votes, balances, slashedIndices, previousBoost, voteSlot, inputs>>

\* NewSlot, at the tick of the clock.
SlotTick ==
  /\ voteSlot < LastSlot
  /\ voteSlot' = voteSlot + 1
  /\ proposerBoostRoot' = NoRoot
  /\ IF voteSlot' % SlotsPerEpoch = 0
     THEN UpdateLevel(nodes, nodes)
     ELSE UNCHANGED <<level, nodes>>
  /\ UNCHANGED <<removed, balance, votes, balances, slashedIndices, previousBoost, inputs>>

\* removeNode: an invalid payload removes its block and the descendants; a
\* block that the justified one descends from is not optimistic.
RemoveBlock(b) ==
  /\ inputs < MaxInputs /\ inputs' = inputs + 1
  /\ b \in nodes \ Ancestry[justified.root]
  /\ LET gone == SubtreeOf(nodes, b) IN
     /\ nodes' = nodes \ gone
     /\ removed' = removed \union gone
     /\ proposerBoostRoot' = IF proposerBoostRoot \in gone THEN NoRoot ELSE proposerBoostRoot
     /\ previousBoost' = IF previousBoost.root \in gone THEN [root |-> NoRoot, score |-> 0]
                         ELSE previousBoost
  /\ UNCHANGED <<balance, votes, balances, level, slashedIndices, voteSlot>>

-----------------------------------------------------------------------------
(* Votes. *)

\* ProcessAttestation for one index; a vote that is not newer changes nothing.
ProcessAttestation(v, b, target) ==
  /\ inputs < MaxInputs
  /\ b \in nodes /\ target \in {EpochOf(voteSlot), EpochOf(voteSlot) - 1} /\ target >= EpochOf(BlockSlot[b])
  /\ \/ votes[v].nextRoot = NoRoot /\ votes[v].currentRoot = NoRoot
     \/ target > votes[v].nextEpoch
  /\ votes' = [votes EXCEPT ![v].nextEpoch = target, ![v].nextRoot = b]
  /\ inputs' = inputs + 1
  /\ UNCHANGED <<nodes, removed, balance, balances, level, slashedIndices,
                 proposerBoostRoot, previousBoost, voteSlot>>

Floored(x, y) == IF x < y THEN 0 ELSE x - y

\* Mutant of InsertSlashedIndex: the balance of the justified state is taken
\* off, not the one the vote was counted with.
InsertSlashedIndex_NewBalance(v) ==
  /\ inputs < MaxInputs /\ inputs' = inputs + 1
  /\ v \notin slashedIndices
  /\ slashedIndices' = slashedIndices \union {v}
  /\ LET b == votes[v].currentRoot IN
     balance' = IF b \in nodes THEN [balance EXCEPT ![b] = Floored(@, justified.balances[v])] ELSE balance
  /\ UNCHANGED <<nodes, removed, votes, balances, level, proposerBoostRoot, previousBoost, voteSlot>>

InsertSlashedIndex(v) ==
  /\ inputs < MaxInputs /\ inputs' = inputs + 1
  /\ v \notin slashedIndices
  /\ slashedIndices' = slashedIndices \union {v}
  /\ LET b == votes[v].currentRoot IN
     balance' = IF b \in nodes THEN [balance EXCEPT ![b] = Floored(@, balances[v])] ELSE balance
  /\ UNCHANGED <<nodes, removed, votes, balances, level, proposerBoostRoot, previousBoost, voteSlot>>

-----------------------------------------------------------------------------
(* Head. *)

\* The vote of v moves, with its weight, in the balances B.
MoveVote(B, v) ==
  LET vote == votes[v]
      old == balances[v]
      new == justified.balances[v]
      added == IF vote.nextRoot \in nodes THEN [B EXCEPT ![vote.nextRoot] = @ + new] ELSE B
  IN  IF v \in slashedIndices \/ (vote.currentRoot = vote.nextRoot /\ old = new) THEN B
      ELSE IF vote.currentRoot \in nodes THEN [added EXCEPT ![vote.currentRoot] = Floored(@, old)]
      ELSE added

UpdatedBalances ==
  LET upTo[v \in 0 .. Voters] == IF v = 0 THEN balance ELSE MoveVote(upTo[v - 1], v)
  IN  upTo[Voters]

RotatedVotes == [v \in Indices |-> IF v \in slashedIndices THEN votes[v]
                                   ELSE [votes[v] EXCEPT !.currentRoot = votes[v].nextRoot]]

\* The score of the current boost.
BoostScore == IF proposerBoostRoot \in nodes
              THEN (CommitteeWeight(justified.balances) * ProposerScoreBoost) \div 100 ELSE 0

\* Mutant of Boosted: the previous boost stays.
Boosted_NotTakenOff(B) ==
  IF proposerBoostRoot \in nodes THEN [B EXCEPT ![proposerBoostRoot] = @ + BoostScore] ELSE B

\* applyProposerBoostScore: the previous boost off, without a floor, and the
\* current one on.
Boosted(B) ==
  LET off == IF previousBoost.root \in nodes
             THEN [B EXCEPT ![previousBoost.root] = (@ - previousBoost.score) % WordSize] ELSE B
  IN  IF proposerBoostRoot \in nodes THEN [off EXCEPT ![proposerBoostRoot] = @ + BoostScore] ELSE off

\* applyWeightChanges.
Weight(B, b) == Total(B, SubtreeOf(nodes, b))

ViableForHead(b) ==
  \/ justified.epoch = 0
  \/ VotingSource[b] = justified.epoch
  \/ VotingSource[b] + 2 >= EpochOf(voteSlot)

\* Of two children that lead to a viable head, the heavier one is taken.
Beats(t, u) ==
  t.weight > u.weight \/ (t.weight = u.weight /\ RootRank[t.child] > RootRank[u.child])

\* updateBestDescendant; NoRoot stands for nil.
BestDescendant(B) ==
  LET best[b \in TreeBlocks] ==
        LET tips == {LET d == best[c]
                     IN  [child |-> c, tip |-> IF d = NoRoot THEN c ELSE d, weight |-> Weight(B, c)] :
                       c \in Children(nodes, b)}
            viable == {t \in tips : ViableForHead(t.tip)}
        IN  IF viable = {} THEN NoRoot
            ELSE (CHOOSE t \in viable : \A u \in viable \ {t} : Beats(t, u)).tip
  IN  best[justified.root]

\* What Head returns; NoRoot stands for the error that no tip is viable.
HeadOf(B) ==
  LET best == BestDescendant(B)
      tip == IF best = NoRoot THEN justified.root ELSE best
  IN  IF ViableForHead(tip) THEN tip ELSE NoRoot

ComputeHead ==
  /\ balance' = Boosted(UpdatedBalances)
  /\ votes' = RotatedVotes
  /\ balances' = justified.balances
  /\ previousBoost' = [root |-> proposerBoostRoot, score |-> BoostScore]
  /\ UNCHANGED <<nodes, removed, level, slashedIndices, proposerBoostRoot, voteSlot, inputs>>

-----------------------------------------------------------------------------

VotesInit ==
  /\ nodes = {AnchorRoot} /\ removed = {} /\ balance = [b \in TreeBlocks |-> 0]
  /\ votes = [v \in Indices |-> [currentRoot |-> NoRoot, nextRoot |-> NoRoot, nextEpoch |-> 0]]
  /\ balances = [v \in Indices |-> 0] /\ level = 1
  /\ slashedIndices = {} /\ proposerBoostRoot = NoRoot
  /\ previousBoost = [root |-> NoRoot, score |-> 0]
  /\ voteSlot = FirstSlot /\ inputs = 0

VotesNext ==
  \/ \E b \in TreeBlocks, timely \in BOOLEAN : InsertBlock(b, timely)
  \/ \E b \in nodes : RemoveBlock(b)
  \/ \E v \in Indices, b \in nodes, target \in 0 .. EpochOf(voteSlot) : ProcessAttestation(v, b, target)
  \/ \E v \in Indices : InsertSlashedIndex(v)
  \/ SlotTick
  \/ ComputeHead

VotesSpec == VotesInit /\ [][VotesNext]_voteVars

-----------------------------------------------------------------------------
(* Properties. *)

\* The balance of every node is the sum of what the counted votes for it
\* were counted with, and the boost it was given: nothing is counted twice,
\* subtracted twice, floored or wrapped around, whatever is removed, pruned,
\* slashed or justified between two calls to Head.
BalancesMatchVotes ==
  \A b \in nodes :
    balance[b] =
      Total(balances, {v \in Indices \ slashedIndices : votes[v].currentRoot = b})
      + (IF previousBoost.root = b THEN previousBoost.score ELSE 0)

\* The fork choice of the consensus specification, from the latest votes:
\* only branches with a viable leaf, from the justified block to the heaviest
\* child, the boost of this slot included.
LatestVotes(b) == {v \in Indices \ slashedIndices : votes[v].nextRoot \in SubtreeOf(nodes, b)}

GhostWeight(b) ==
  Total(justified.balances, LatestVotes(b))
  + (IF proposerBoostRoot \in SubtreeOf(nodes, b)
     THEN (CommitteeWeight(justified.balances) * ProposerScoreBoost) \div 100 ELSE 0)

GhostHead ==
  LET leaves == {b \in SubtreeOf(nodes, justified.root) : Children(nodes, b) = {}}
      weight == [b \in nodes |-> GhostWeight(b)]
      filtered == UNION {Ancestry[b] : b \in {c \in leaves : ViableForHead(c)}}
      from[b \in TreeBlocks] ==
        LET next == Children(nodes, b) \intersect filtered
        IN  IF next = {} THEN b
            ELSE from[CHOOSE c \in next : \A d \in next \ {c} :
                        \/ weight[c] > weight[d]
                        \/ weight[c] = weight[d] /\ RootRank[c] > RootRank[d]]
  IN  IF filtered = {} THEN NoRoot ELSE from[justified.root]

\* In every state, a call to Head returns that block, although it only
\* applies what changed since the last call.
HeadIsGhost == HeadOf(Boosted(UpdatedBalances)) = GhostHead
=============================================================================
