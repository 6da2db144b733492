------------------------ MODULE ForkChoiceTreeProofs ------------------------
(***************************************************************************)
(* Proofs about ForkChoiceTree, for every block tree that satisfies the    *)
(* assumptions of that module and every choice of its bounds.              *)
(***************************************************************************)
EXTENDS ForkChoiceTree, TLAPS

\* Most leaves are first-order; the solver takes the arithmetic ones.
USE ZenonT(10), SMTT(20), ZenonT(30), SMTT(40)

-----------------------------------------------------------------------------
(* Walks *)

(* A walk stays among the blocks, covers its starting points, follows      *)
(* every pointer, and visits nothing that a closed set does not contain.   *)
LEMMA ReachFacts ==
    ASSUME NEW next, NEW start,
           start \subseteq Block, \A x \in Block : next[x] \subseteq Block
    PROVE  /\ Reach(next, start) \subseteq Block
           /\ start \subseteq Reach(next, start)
           /\ Closed(next, Reach(next, start))
           /\ \A X : start \subseteq X /\ Closed(next, X) => Reach(next, start) \subseteq X
<1> DEFINE all == start \cup UNION {next[x] : x \in Block}
<1> DEFINE closed == {X \in SUBSET all : start \subseteq X /\ Closed(next, X)}
<1>1. all \subseteq Block
  OBVIOUS
<1>2. Reach(next, start) = {b \in all : \A X \in closed : b \in X}
  BY DEF Reach
<1>3. start \subseteq Reach(next, start)
  BY <1>2
<1>4. Closed(next, Reach(next, start))
  BY <1>1, <1>2 DEF Closed
<1>5. ASSUME NEW X, start \subseteq X, Closed(next, X)
      PROVE  Reach(next, start) \subseteq X
  <2>1. X \cap all \in closed
    BY <1>1, <1>5 DEF Closed
  <2> QED
    BY <2>1, <1>2
<1> QED
  BY <1>1, <1>2, <1>3, <1>4, <1>5

(* The chain of a block is the block and the chain of its parent.          *)
LEMMA ChainFacts ==
    ASSUME NEW b \in Block
    PROVE  /\ Chain[b] \subseteq Block
           /\ b \in Chain[b]
           /\ b # Anchor => Chain[Parent[b]] \subseteq Chain[b]
           /\ b # Anchor => Chain[b] \subseteq {b} \cup Chain[Parent[b]]
           /\ \A a \in Chain[b] : Chain[a] \subseteq Chain[b]
           /\ \A a \in Chain[b] : a # b => Slot[a] < Slot[b]
<1> DEFINE up == [x \in Block |-> IF x = Anchor THEN {} ELSE {Parent[x]}]
<1>1. \A x \in Block : up[x] \subseteq Block
  BY BlocksFormATree
<1>2. \A x \in Block : Chain[x] = Reach(up, {x})
  BY DEF Chain
<1> HIDE DEF up
<1>3. \A x \in Block : /\ Chain[x] \subseteq Block
                       /\ x \in Chain[x]
                       /\ Closed(up, Chain[x])
                       /\ \A X : x \in X /\ Closed(up, X) => Chain[x] \subseteq X
  <2> SUFFICES ASSUME NEW x \in Block
               PROVE  /\ Chain[x] \subseteq Block
                      /\ x \in Chain[x]
                      /\ Closed(up, Chain[x])
                      /\ \A X : x \in X /\ Closed(up, X) => Chain[x] \subseteq X
    OBVIOUS
  <2>1. {x} \subseteq Block
    OBVIOUS
  <2>2. /\ Reach(up, {x}) \subseteq Block
        /\ {x} \subseteq Reach(up, {x})
        /\ Closed(up, Reach(up, {x}))
        /\ \A X : {x} \subseteq X /\ Closed(up, X) => Reach(up, {x}) \subseteq X
    BY <1>1, <2>1, ReachFacts
  <2> QED
    BY <2>2, <1>2
<1>4. \A a \in Chain[b] : Chain[a] \subseteq Chain[b]
  BY <1>3
<1>5. ASSUME b # Anchor
      PROVE  Chain[Parent[b]] \subseteq Chain[b] /\ Chain[b] \subseteq {b} \cup Chain[Parent[b]]
  <2>1. Parent[b] \in Block /\ up[b] = {Parent[b]}
    BY <1>5, BlocksFormATree DEF up
  <2>2. Parent[b] \in Chain[b]
    BY <2>1, <1>3 DEF Closed
  <2>3. Closed(up, {b} \cup Chain[Parent[b]])
    BY <2>1, <1>3 DEF Closed
  <2> QED
    BY <2>1, <2>2, <2>3, <1>3
<1>6. \A a \in Chain[b] : a # b => Slot[a] < Slot[b]
  <2> DEFINE X == {b} \cup {a \in Block : Slot[a] < Slot[b]}
  <2>1. Closed(up, X)
    <3> SUFFICES ASSUME NEW x \in X, NEW y \in up[x]
                 PROVE  y \in X
      BY DEF Closed
    <3>1. x \in Block /\ x # Anchor /\ y = Parent[x]
      BY DEF up
    <3>2. y \in Block /\ Slot[y] < Slot[x]
      BY <3>1, BlocksFormATree
    <3>3. Slot[x] \in Nat /\ Slot[y] \in Nat /\ Slot[b] \in Nat
      BY <3>1, <3>2, ConstantTypes
    <3> QED
      BY <3>2, <3>3, SMT, SMTT(20)
  <2> QED
    BY <2>1, <1>3
<1> QED
  BY <1>3, <1>4, <1>5, <1>6

(* A set of blocks that holds the parents of its members holds the chains  *)
(* of its members.                                                         *)
LEMMA ChainLeast ==
    ASSUME NEW X \in SUBSET Block, \A x \in X \ {Anchor} : Parent[x] \in X,
           NEW b \in X
    PROVE  Chain[b] \subseteq X
<1> DEFINE up == [x \in Block |-> IF x = Anchor THEN {} ELSE {Parent[x]}]
<1>1. \A x \in Block : up[x] \subseteq Block
  BY BlocksFormATree
<1>2. Chain[b] = Reach(up, {b})
  BY DEF Chain
<1>3. Closed(up, X)
  BY DEF Closed
<1>4. {b} \subseteq Block /\ {b} \subseteq X
  OBVIOUS
<1> HIDE DEF up
<1> QED
  BY <1>1, <1>2, <1>3, <1>4, ReachFacts, SMT, SMTT(20)

-----------------------------------------------------------------------------
(* The inductive invariant, on a store *)

(***************************************************************************)
(* Linked: the map and the tree agree, in terms of the store alone.  The   *)
(* last two conjuncts also cover nodes that have left the map, which a     *)
(* walk over children might still reach; that the tree root is on the      *)
(* chain of every node is what shows that a removed subtree does not       *)
(* contain it and that pruning leaves descendants of the finalized node.   *)
(***************************************************************************)
Linked(S) ==
    /\ S.treeRootNode \in S.nodeByRoot
    /\ S.parent[S.treeRootNode] = ZeroHash
    /\ \A n \in S.nodeByRoot \ {S.treeRootNode} :
         /\ n # Anchor
         /\ S.parent[n] = Parent[n]
         /\ Parent[n] \in S.nodeByRoot
         /\ n \in S.children[Parent[n]]
    /\ \A n \in S.nodeByRoot : S.treeRootNode \in Chain[n]
    /\ \A x \in Block : \A c \in S.children[x] : c # Anchor /\ Parent[c] = x
    /\ \A x \in Block : S.parent[x] \in {ZeroHash, Parent[x]}

(* Statuses: validated nodes have validated parents and valid payloads.    *)
Statuses(S) ==
    /\ \A n \in S.nodeByRoot \ {S.treeRootNode} :
         n \notin S.optimistic => S.parent[n] \notin S.optimistic
    /\ \A n \in S.nodeByRoot : n \in Bad => n \in S.optimistic

Sound(S) == S \in Store /\ Linked(S) /\ Statuses(S)

-----------------------------------------------------------------------------
(* What the operations do to the fields of the store *)

(* A record with the fields Store.insert links keeps the type of the       *)
(* store.                                                                  *)
LEMMA LinkNodeType ==
    ASSUME NEW N \in Store, NEW nb \in SUBSET Block, NEW ch \in [Block -> SUBSET Block],
           NEW op \in SUBSET Block, NEW pb \in Root, NEW hr \in Block
    PROVE  [N EXCEPT !.nodeByRoot = nb, !.children = ch, !.optimistic = op,
                     !.proposerBoostRoot = pb, !.highestReceivedNode = hr] \in Store
  BY DEF Store

(* T is S with the node b hung under its parent.                           *)
Inserted(S, b, fe, T) ==
    /\ T \in Store
    /\ T.nodeByRoot = S.nodeByRoot \cup {b}
    /\ T.treeRootNode = S.treeRootNode
    /\ \A x \in Block \ {b} : T.parent[x] = S.parent[x]
    /\ T.parent[b] = Parent[b]
    /\ \A x \in Block \ {b, Parent[b]} : T.children[x] = S.children[x]
    /\ T.children[Parent[b]] = S.children[Parent[b]] \cup {b}
    /\ T.children[b] = {}
    /\ T.optimistic = S.optimistic \cup {b}
    /\ \A x \in Block \ {b} : T.unrealizedFinalizedEpoch[x] = S.unrealizedFinalizedEpoch[x]
    /\ T.unrealizedFinalizedEpoch[b] = fe
    /\ T.finalizedCheckpoint = S.finalizedCheckpoint
    /\ T.unrealizedFinalizedCheckpoint = S.unrealizedFinalizedCheckpoint

(* Store.insert of a new block with a known parent hangs it under it.      *)
LEMMA InsertFields ==
    ASSUME NEW S \in Store, NEW b \in Block \ {Anchor}, NEW je \in Nat, NEW fe \in Nat,
           b \notin S.nodeByRoot, Parent[b] \in S.nodeByRoot
    PROVE  Inserted(S, b, fe, Insert(S, b, je, fe))
<1> DEFINE T == Insert(S, b, je, fe)
<1> DEFINE N == NewNode(S, b, je, fe)
           tg == TargetOf(S, b)
           ch == Adopt(S.children, Parent[b], b)
           pb == IF GetsBoost(S, b) THEN b ELSE S.proposerBoostRoot
           hr == IF Slot[b] > Slot[S.highestReceivedNode] THEN b ELSE S.highestReceivedNode
<1>1. Parent[b] \in Block /\ Parent[b] \in Root
  BY BlocksFormATree DEF Root
<1>2. tg \in Root
  BY <1>1 DEF TargetOf, Store, Root
<1>3. ch \in [Block -> SUBSET Block]
  BY <1>1 DEF Adopt, Store
<1>4. pb \in Root /\ hr \in Block
  BY DEF Store, Root
<1>5. /\ N \in Store
      /\ N.nodeByRoot = S.nodeByRoot
      /\ N.treeRootNode = S.treeRootNode
      /\ N.parent = [S.parent EXCEPT ![b] = Parent[b]]
      /\ N.children = S.children
      /\ N.optimistic = S.optimistic
      /\ N.unrealizedFinalizedEpoch = [S.unrealizedFinalizedEpoch EXCEPT ![b] = fe]
      /\ N.finalizedCheckpoint = S.finalizedCheckpoint
      /\ N.unrealizedFinalizedCheckpoint = S.unrealizedFinalizedCheckpoint
      /\ N.proposerBoostRoot = S.proposerBoostRoot
      /\ N.highestReceivedNode = S.highestReceivedNode
  <2> DEFINE pa == [S.parent EXCEPT ![b] = Parent[b]]
             ta == [S.target EXCEPT ![b] = tg]
             j == [S.justifiedEpoch EXCEPT ![b] = je]
             f == [S.finalizedEpoch EXCEPT ![b] = fe]
             uj == [S.unrealizedJustifiedEpoch EXCEPT ![b] = je]
             uf == [S.unrealizedFinalizedEpoch EXCEPT ![b] = fe]
  <2>1. N = [S EXCEPT !.parent = pa, !.target = ta, !.justifiedEpoch = j,
                      !.finalizedEpoch = f, !.unrealizedJustifiedEpoch = uj,
                      !.unrealizedFinalizedEpoch = uf]
    BY DEF NewNode, Store
  <2>2. /\ pa \in [Block -> Root] /\ ta \in [Block -> Root]
        /\ j \in [Block -> Nat] /\ f \in [Block -> Nat]
        /\ uj \in [Block -> Nat] /\ uf \in [Block -> Nat]
    BY <1>1, <1>2 DEF Store
  <2> HIDE DEF N, pa, ta, j, f, uj, uf
  <2>3. N \in Store
    BY <2>1, <2>2 DEF Store
  <2>4. /\ N.nodeByRoot = S.nodeByRoot
        /\ N.treeRootNode = S.treeRootNode
        /\ N.parent = pa
        /\ N.children = S.children
        /\ N.optimistic = S.optimistic
        /\ N.unrealizedFinalizedEpoch = uf
        /\ N.finalizedCheckpoint = S.finalizedCheckpoint
        /\ N.unrealizedFinalizedCheckpoint = S.unrealizedFinalizedCheckpoint
        /\ N.proposerBoostRoot = S.proposerBoostRoot
        /\ N.highestReceivedNode = S.highestReceivedNode
    BY <2>1 DEF Store
  <2> QED
    BY <2>3, <2>4 DEF pa, uf
<1>6. T = [N EXCEPT !.nodeByRoot = S.nodeByRoot \cup {b}, !.children = ch,
                    !.optimistic = S.optimistic \cup {b}, !.proposerBoostRoot = pb,
                    !.highestReceivedNode = hr]
  <2>1. T = [N EXCEPT
            !.nodeByRoot = N.nodeByRoot \cup {b},
            !.children = Adopt(N.children, Parent[b], b),
            !.optimistic = N.optimistic \cup {b},
            !.proposerBoostRoot = IF GetsBoost(S, b) THEN b ELSE N.proposerBoostRoot,
            !.highestReceivedNode =
                IF Slot[b] > Slot[N.highestReceivedNode] THEN b ELSE N.highestReceivedNode]
    BY DEF Insert, InsertFails
  <2> HIDE DEF T, N
  <2> QED
    BY <2>1, <1>5
<1> DEFINE nb == S.nodeByRoot \cup {b}
           op == S.optimistic \cup {b}
<1>7. nb \in SUBSET Block /\ op \in SUBSET Block /\ N \in Store
  BY <1>5 DEF Store
<1> HIDE DEF T, N, ch, pb, hr, nb, op
<1>8. T = [N EXCEPT !.nodeByRoot = nb, !.children = ch, !.optimistic = op,
                    !.proposerBoostRoot = pb, !.highestReceivedNode = hr]
  BY <1>6 DEF nb, op
<1>9. T \in Store
  <2>1. [N EXCEPT !.nodeByRoot = nb, !.children = ch, !.optimistic = op,
                  !.proposerBoostRoot = pb, !.highestReceivedNode = hr] \in Store
    BY <1>3, <1>4, <1>7, LinkNodeType, Zenon, ZenonT(20)
  <2> QED
    BY <1>8, <2>1, Zenon, ZenonT(20)
<1>10. /\ T.nodeByRoot = nb /\ T.children = ch /\ T.optimistic = op
       /\ T.treeRootNode = N.treeRootNode
       /\ T.parent = N.parent
       /\ T.unrealizedFinalizedEpoch = N.unrealizedFinalizedEpoch
       /\ T.finalizedCheckpoint = N.finalizedCheckpoint
       /\ T.unrealizedFinalizedCheckpoint = N.unrealizedFinalizedCheckpoint
  BY <1>7, <1>8 DEF Store
<1>11. /\ \A x \in Block \ {b} : T.parent[x] = S.parent[x]
       /\ T.parent[b] = Parent[b]
  BY <1>5, <1>10, SMT, SMTT(20) DEF Store
<1>12. /\ \A x \in Block \ {b} :
             T.unrealizedFinalizedEpoch[x] = S.unrealizedFinalizedEpoch[x]
       /\ T.unrealizedFinalizedEpoch[b] = fe
  BY <1>5, <1>10, SMT, SMTT(20) DEF Store
<1>13. Parent[b] # b /\ S.children \in [Block -> SUBSET Block]
  BY DEF Store
<1>14. /\ \A x \in Block \ {b, Parent[b]} : T.children[x] = S.children[x]
       /\ T.children[Parent[b]] = S.children[Parent[b]] \cup {b}
       /\ T.children[b] = {}
  BY <1>1, <1>10, <1>13 DEF ch, Adopt
<1>15. Inserted(S, b, fe, T)
  BY <1>5, <1>9, <1>10, <1>11, <1>12, <1>14 DEF nb, op, Inserted
<1> QED
  BY <1>15 DEF T

(* T is S without the subtree of n.                                        *)
Removed(S, n, T) ==
    /\ T \in Store
    /\ T.nodeByRoot = S.nodeByRoot \ Subtree(S, n)
    /\ T.treeRootNode = S.treeRootNode
    /\ T.parent = S.parent
    /\ T.children = [S.children EXCEPT ![S.parent[n]] = S.children[S.parent[n]] \ {n}]
    /\ T.optimistic = S.optimistic
    /\ T.unrealizedFinalizedEpoch = S.unrealizedFinalizedEpoch
    /\ T.finalizedCheckpoint = S.finalizedCheckpoint
    /\ T.unrealizedFinalizedCheckpoint = S.unrealizedFinalizedCheckpoint

(* Store.removeNode of an optimistic node takes its subtree out.           *)
LEMMA RemoveNodeFields ==
    ASSUME NEW S \in Store, NEW n \in Block, n \in S.optimistic, S.parent[n] # ZeroHash
    PROVE  Removed(S, n, RemoveNode(S, n))
<1> DEFINE T == RemoveNode(S, n)
<1> DEFINE gone == Subtree(S, n)
           pb == IF S.proposerBoostRoot \in gone THEN ZeroHash ELSE S.proposerBoostRoot
           ch == [S.children EXCEPT ![S.parent[n]] = S.children[S.parent[n]] \ {n}]
<1>1. T = [S EXCEPT !.nodeByRoot = S.nodeByRoot \ gone, !.children = ch,
                    !.proposerBoostRoot = pb]
  BY DEF RemoveNode, Store
<1>2. ch \in [Block -> SUBSET Block] /\ pb \in Root /\ S.nodeByRoot \ gone \in SUBSET Block
  BY DEF Store, Root
<1> HIDE DEF T, gone, pb, ch
<1>3. T \in Store
  BY <1>1, <1>2 DEF Store
<1>4. /\ T.nodeByRoot = S.nodeByRoot \ gone /\ T.children = ch
      /\ T.treeRootNode = S.treeRootNode /\ T.parent = S.parent
      /\ T.optimistic = S.optimistic
      /\ T.unrealizedFinalizedEpoch = S.unrealizedFinalizedEpoch
      /\ T.finalizedCheckpoint = S.finalizedCheckpoint
      /\ T.unrealizedFinalizedCheckpoint = S.unrealizedFinalizedCheckpoint
  BY <1>1 DEF Store
<1>5. Removed(S, n, T)
  BY <1>3, <1>4 DEF ch, gone, Removed
<1> QED
  BY <1>5 DEF T

(* What Store.prune changes when the finalized node is not yet the tree    *)
(* root.                                                                   *)
LEMMA PruneFields ==
    ASSUME NEW S \in Store, ~PruneFails(S),
           S.parent[S.finalizedCheckpoint.root] # ZeroHash,
           NEW T, T = Prune(S)
    PROVE  LET fin == S.finalizedCheckpoint.root
               gone == PrunedFrom(S, {S.treeRootNode})
                           \cup PrunedFrom(S, IncompatibleChildren(S))
           IN  /\ T \in Store
               /\ T.nodeByRoot = S.nodeByRoot \ gone
               /\ T.treeRootNode = fin
               /\ T.parent = [S.parent EXCEPT ![fin] = ZeroHash]
               /\ T.children = [x \in Block |-> IF x \in gone THEN {} ELSE S.children[x]]
               /\ T.optimistic = S.optimistic
               /\ T.unrealizedFinalizedEpoch = S.unrealizedFinalizedEpoch
               /\ T.finalizedCheckpoint = S.finalizedCheckpoint
               /\ T.unrealizedFinalizedCheckpoint = S.unrealizedFinalizedCheckpoint
<1> DEFINE fin == S.finalizedCheckpoint.root
           gone == PrunedFrom(S, {S.treeRootNode}) \cup PrunedFrom(S, IncompatibleChildren(S))
           ch == [x \in Block |-> IF x \in gone THEN {} ELSE S.children[x]]
           tg == [S.target EXCEPT ![fin] = IF S.target[fin] = fin THEN fin ELSE ZeroHash]
           pa == [S.parent EXCEPT ![fin] = ZeroHash]
<1>1. T = [S EXCEPT !.nodeByRoot = S.nodeByRoot \ gone, !.children = ch, !.parent = pa,
                    !.target = tg, !.treeRootNode = fin,
                    !.finalizedDependentRoot = S.parent[fin]]
  BY DEF Prune, Store
<1>2. fin \in Block /\ S.parent[fin] \in Root /\ S.nodeByRoot \ gone \in SUBSET Block
  BY DEF PruneFails, Store
<1>3. ch \in [Block -> SUBSET Block] /\ tg \in [Block -> Root] /\ pa \in [Block -> Root]
  BY <1>2 DEF Store, Root
<1> HIDE DEF fin, gone, ch, tg, pa
<1>4. T \in Store
  BY ZenonT(60), ZenonT(80), <1>1, <1>2, <1>3 DEF Store
<1>5. T.nodeByRoot = S.nodeByRoot \ gone /\ T.treeRootNode = fin /\ T.parent = pa
      /\ T.children = ch /\ T.optimistic = S.optimistic
      /\ T.unrealizedFinalizedEpoch = S.unrealizedFinalizedEpoch
      /\ T.finalizedCheckpoint = S.finalizedCheckpoint
      /\ T.unrealizedFinalizedCheckpoint = S.unrealizedFinalizedCheckpoint
  BY <1>1, <1>4, SMT, SMTT(20) DEF Store
<1> QED
  BY <1>4, <1>5 DEF fin, gone, ch, pa

-----------------------------------------------------------------------------
(* The operations keep a store sound *)

(* T has the same tree and the same statuses as S.                         *)
SameTree(S, T) ==
    /\ T.nodeByRoot = S.nodeByRoot
    /\ T.treeRootNode = S.treeRootNode
    /\ T.parent = S.parent
    /\ T.children = S.children
    /\ T.optimistic = S.optimistic

(* Soundness depends on the nodes, the links and the statuses only.        *)
LEMMA SameTreeSound ==
    ASSUME NEW S, Sound(S), NEW T \in Store, SameTree(S, T)
    PROVE  Sound(T)
  BY DEF Sound, Linked, Statuses, SameTree

(* Store.insert keeps the tree linked: the new node hangs from a known     *)
(* parent, and is optimistic.                                              *)
LEMMA InsertSound ==
    ASSUME NEW S, Sound(S), NEW b \in Block \ {Anchor}, NEW je \in Nat, NEW fe \in Nat
    PROVE  Sound(Insert(S, b, je, fe))
<1>1. CASE b \in S.nodeByRoot \/ InsertFails(S, b)
  BY <1>1 DEF Insert
<1>2. CASE ~(b \in S.nodeByRoot \/ InsertFails(S, b))
  <2> DEFINE T == Insert(S, b, je, fe)
             p == Parent[b]
  <2>1. S \in Store /\ Linked(S) /\ Statuses(S)
    BY DEF Sound
  <2>2. b \notin S.nodeByRoot /\ p \in S.nodeByRoot
    BY <1>2 DEF InsertFails
  <2>3. Inserted(S, b, fe, T)
    BY <2>1, <2>2, InsertFields, Zenon, ZenonT(20)
  <2> HIDE DEF T
  <2>4. p \in Block /\ p # b /\ S.nodeByRoot \subseteq Block
    BY <2>1, <2>2 DEF Store
  <2>7. S.treeRootNode \in Chain[b]
    BY <2>1, <2>2, <2>4, ChainFacts DEF Linked
  <2>8. Linked(T)
    BY <2>1, <2>2, <2>3, <2>4, <2>7, SMT, SMTT(20) DEF Linked, Inserted
  <2>9. Statuses(T)
    BY <2>1, <2>2, <2>3, <2>4, SMT, SMTT(20) DEF Linked, Statuses, Inserted
  <2> QED
    BY <2>3, <2>8, <2>9 DEF Sound, Inserted, T
<1> QED
  BY <1>1, <1>2

(* The subtree of a node is among its descendants, and the tree root is    *)
(* not one of them.                                                        *)
LEMMA SubtreeFacts ==
    ASSUME NEW S, Sound(S), NEW n \in S.nodeByRoot
    PROVE  /\ Subtree(S, n) \subseteq {m \in Block : n \in Chain[m]}
           /\ n \in Subtree(S, n)
           /\ Closed(S.children, Subtree(S, n))
           /\ n # S.treeRootNode => S.treeRootNode \notin Subtree(S, n)
<1> DEFINE below == {m \in Block : n \in Chain[m]}
<1>1. S \in Store /\ Linked(S) /\ n \in Block
  BY DEF Sound, Store
<1>2. /\ {n} \subseteq Block
      /\ \A x \in Block : S.children[x] \subseteq Block
  BY <1>1 DEF Store
<1>3. /\ {n} \subseteq Subtree(S, n)
      /\ Closed(S.children, Subtree(S, n))
      /\ \A X : {n} \subseteq X /\ Closed(S.children, X) => Subtree(S, n) \subseteq X
  BY <1>2, ReachFacts DEF Subtree
<1>4. Closed(S.children, below)
  <2> SUFFICES ASSUME NEW x \in below, NEW c \in S.children[x]
               PROVE  c \in below
    BY DEF Closed
  <2>1. c \in Block /\ c # Anchor /\ Parent[c] = x
    BY <1>1, <1>2 DEF Linked
  <2> QED
    BY <2>1, ChainFacts
<1>5. Subtree(S, n) \subseteq below
  BY <1>1, <1>3, <1>4, ChainFacts, SMT, SMTT(20)
<1>6. ASSUME n # S.treeRootNode, S.treeRootNode \in Subtree(S, n)
      PROVE  FALSE
  <2> DEFINE r == S.treeRootNode
  <2>1. r \in Block /\ n \in Chain[r] /\ r \in Chain[n]
    BY <1>1, <1>5, <1>6 DEF Linked
  <2>2. Slot[n] < Slot[r] /\ Slot[r] < Slot[n]
    BY <1>1, <1>6, <2>1, ChainFacts
  <2>3. Slot[n] \in Nat /\ Slot[r] \in Nat
    BY <1>1, <2>1, ConstantTypes
  <2> QED
    BY <2>2, <2>3, SMT, SMTT(20)
<1> QED
  BY <1>3, <1>5, <1>6

(* Store.removeNode keeps the tree linked: it takes out a whole subtree    *)
(* and unhooks it from its parent.                                         *)
LEMMA RemoveNodeSound ==
    ASSUME NEW S, Sound(S), NEW n \in S.nodeByRoot
    PROVE  Sound(RemoveNode(S, n))
<1>1. CASE n \notin S.optimistic \/ S.parent[n] = ZeroHash
  BY <1>1 DEF RemoveNode
<1>2. CASE ~(n \notin S.optimistic \/ S.parent[n] = ZeroHash)
  <2> DEFINE T == RemoveNode(S, n)
             gone == Subtree(S, n)
             p == S.parent[n]
  <2>1. S \in Store /\ Linked(S) /\ Statuses(S) /\ n \in Block
    BY DEF Sound, Store
  <2>2. Removed(S, n, T)
    BY <1>2, <2>1, RemoveNodeFields, Zenon, ZenonT(20)
  <2>3. n # S.treeRootNode
    BY <1>2, <2>1 DEF Linked
  <2>4. n \in gone /\ Closed(S.children, gone) /\ S.treeRootNode \notin gone
    BY <2>3, SubtreeFacts
  <2> HIDE DEF T, gone
  <2>5. \A x \in Block : /\ T.children[x] \subseteq S.children[x]
                         /\ S.children[x] \subseteq T.children[x] \cup {n}
    BY <2>1, <2>2, SMT, SMTT(20) DEF Store, Removed
  <2>g. gone = Subtree(S, n)
    BY DEF gone
  <2>6. Linked(T)
    BY SMTT(60), SMTT(80), <2>g, <2>1, <2>2, <2>4, <2>5 DEF Linked, Closed, Store, Removed
  <2>7. Statuses(T)
    BY <2>1, <2>2 DEF Statuses, Removed
  <2> QED
    BY <2>2, <2>6, <2>7 DEF Sound, Removed, T
<1> QED
  BY <1>1, <1>2

(* What the walk of pruneFinalizedNodeByRootMap deletes: it starts from    *)
(* every node it is called with but the finalized one, goes down to every  *)
(* child but that one, and never deletes it.                               *)
LEMMA PrunedFromFacts ==
    ASSUME NEW S \in Store, S.finalizedCheckpoint.root \in Block, NEW from \in SUBSET Block
    PROVE  LET fin == S.finalizedCheckpoint.root
           IN  /\ fin \notin PrunedFrom(S, from)
               /\ from \ {fin} \subseteq PrunedFrom(S, from)
               /\ \A x \in PrunedFrom(S, from) : S.children[x] \ {fin} \subseteq PrunedFrom(S, from)
               /\ PrunedFrom(S, from) \subseteq Block
<1> DEFINE fin == S.finalizedCheckpoint.root
           down == [x \in Block |-> S.children[x] \ {fin}]
           start == from \ {fin}
<1>1. start \subseteq Block /\ \A x \in Block : down[x] \subseteq Block
  BY DEF Store
<1>2. PrunedFrom(S, from) = Reach(down, start)
  BY DEF PrunedFrom
<1>3. start \subseteq Block \ {fin} /\ Closed(down, Block \ {fin})
  BY <1>1 DEF Closed
<1>4. /\ Reach(down, start) \subseteq Block
      /\ start \subseteq Reach(down, start)
      /\ Closed(down, Reach(down, start))
      /\ Reach(down, start) \subseteq Block \ {fin}
  <2> HIDE DEF down, start
  <2> QED
    BY <1>1, <1>3, ReachFacts, SMT, SMTT(20)
<1> QED
  BY <1>2, <1>4 DEF Closed

(* Store.prune keeps the tree linked: the finalized node becomes the root  *)
(* and no survivor has lost its parent.                                    *)
LEMMA PruneSound ==
    ASSUME NEW S, Sound(S)
    PROVE  Sound(Prune(S))
<1> DEFINE fin == S.finalizedCheckpoint.root
<1>1. CASE PruneFails(S) \/ S.parent[fin] = ZeroHash
  BY <1>1 DEF Prune
<1>2. CASE ~(PruneFails(S) \/ S.parent[fin] = ZeroHash)
  <2> DEFINE T == Prune(S)
             above == PrunedFrom(S, {S.treeRootNode})
             beside == PrunedFrom(S, IncompatibleChildren(S))
             gone == above \cup beside
  <2>1. S \in Store /\ Linked(S) /\ Statuses(S)
    BY DEF Sound
  <2>2. fin \in S.nodeByRoot /\ fin \in Block /\ fin # S.treeRootNode
    BY <1>2, <2>1 DEF PruneFails, Store, Linked
  <2>3. {S.treeRootNode} \in SUBSET Block /\ IncompatibleChildren(S) \in SUBSET Block
    BY <2>1, <2>2 DEF IncompatibleChildren, Store
  <2>4. /\ T \in Store
        /\ T.nodeByRoot = S.nodeByRoot \ gone
        /\ T.treeRootNode = fin
        /\ T.parent = [S.parent EXCEPT ![fin] = ZeroHash]
        /\ T.children = [x \in Block |-> IF x \in gone THEN {} ELSE S.children[x]]
        /\ T.optimistic = S.optimistic
    BY <1>2, <2>1, PruneFields
  <2>5. /\ fin \notin gone
        /\ S.treeRootNode \in gone
        /\ \A x \in gone : S.children[x] \ {fin} \subseteq gone
    BY <2>1, <2>2, <2>3, PrunedFromFacts
  <2> HIDE DEF T, gone, fin
  <2>6. /\ T.nodeByRoot \subseteq S.nodeByRoot
        /\ \A x \in Block \ {fin} : T.parent[x] = S.parent[x]
        /\ T.parent[fin] = ZeroHash
        /\ \A x \in Block : T.children[x] \subseteq S.children[x]
        /\ \A x \in Block \ gone : T.children[x] = S.children[x]
        /\ S.nodeByRoot \subseteq Block
    BY <2>1, <2>2, <2>4, SMT, SMTT(20) DEF Store
  <2>7. \A n \in T.nodeByRoot \ {fin} :
          /\ n # S.treeRootNode
          /\ n # Anchor
          /\ T.parent[n] = Parent[n]
          /\ Parent[n] \in T.nodeByRoot
          /\ n \in T.children[Parent[n]]
    BY SMTT(60), SMTT(80), <2>1, <2>4, <2>5, <2>6 DEF Linked
  <2>8. \A n \in T.nodeByRoot : fin \in Chain[n]
    <3> DEFINE off == {m \in T.nodeByRoot : fin \notin Chain[m]}
    <3>1. off \in SUBSET Block /\ fin \notin off
      BY <2>2, <2>6, ChainFacts
    <3>2. \A x \in off \ {Anchor} : Parent[x] \in off
      BY <2>6, <2>7, <3>1, ChainFacts
    <3>3. ASSUME NEW n \in off PROVE FALSE
      <4>1. Chain[n] \subseteq off
        BY <3>1, <3>2, ChainLeast
      <4>2. S.treeRootNode \in Chain[n]
        BY <2>1, <2>6 DEF Linked
      <4> QED
        BY <4>1, <4>2, <2>4, <2>5
    <3> QED
      BY <3>3
  <2>9. Linked(T)
    BY SMTT(60), SMTT(80), <2>1, <2>2, <2>4, <2>5, <2>6, <2>7, <2>8 DEF Linked
  <2>10. Statuses(T)
    BY <2>1, <2>4, <2>6, <2>7 DEF Statuses
  <2> QED
    BY <2>4, <2>9, <2>10 DEF Sound, T
<1> QED
  BY <1>1, <1>2

(* setNodeAndParentValidated leaves no optimistic node below a validated   *)
(* one, and never reaches a node with an invalid payload from a valid one. *)
LEMMA ValidSound ==
    ASSUME NEW S, Sound(S), NEW n \in Block \ Bad
    PROVE  Sound(SetOptimisticToValid(S, n))
<1> DEFINE T == SetOptimisticToValid(S, n)
           up == [x \in Block |-> {S.parent[x]} \cap S.optimistic]
           walked == Reach(up, {n})
           cleared == IF n \in S.optimistic THEN walked ELSE {}
<1>1. S \in Store /\ Linked(S) /\ Statuses(S)
  BY DEF Sound
<1>2. {n} \subseteq Block /\ \A x \in Block : up[x] \subseteq Block
  BY <1>1 DEF Store
<1>3. Closed(up, Block \ Bad)
  <2> SUFFICES ASSUME NEW x \in Block \ Bad, NEW y \in up[x]
               PROVE  y \in Block \ Bad
    BY DEF Closed
  <2>1. y = S.parent[x] /\ y \in Block
    BY <1>2
  <2>2. y # ZeroHash /\ y = Parent[x] /\ x # Anchor
    BY <2>1, <1>1, ConstantTypes, BlocksFormATree DEF Linked, ZeroHash
  <2> QED
    BY <2>1, <2>2, InvalidityOfPayloads, SMT, SMTT(20)
<1>4. Closed(up, walked) /\ walked \subseteq Block \ Bad
  <2> HIDE DEF up
  <2> QED
    BY <1>2, <1>3, ReachFacts, SMT, SMTT(20)
<1>5. T = [S EXCEPT !.optimistic = S.optimistic \ cleared]
  BY DEF SetOptimisticToValid
<1>6. \A x \in cleared : S.parent[x] \in S.optimistic => S.parent[x] \in cleared
  BY <1>4 DEF Closed
<1>7. cleared \subseteq Block \ Bad
  BY <1>4
<1> HIDE DEF T, cleared
<1>8. /\ T \in Store
      /\ T.nodeByRoot = S.nodeByRoot
      /\ T.treeRootNode = S.treeRootNode
      /\ T.parent = S.parent
      /\ T.children = S.children
      /\ T.optimistic = S.optimistic \ cleared
  BY <1>1, <1>5 DEF Store
<1>9. Linked(T)
  BY <1>1, <1>8 DEF Linked
<1>10. Statuses(T)
  BY <1>1, <1>6, <1>7, <1>8 DEF Statuses
<1> QED
  BY <1>8, <1>9, <1>10 DEF Sound, T

(* The walk up of setOptimisticToInvalid ends at an ancestor in the store  *)
(* that has no parent there or has the latest valid block as its parent.   *)
LEMMA FirstInvalidKnown ==
    ASSUME NEW S, Sound(S), NEW n \in S.nodeByRoot, NEW lvh \in Root
    PROVE  /\ FirstInvalid(S, n, lvh) \in S.nodeByRoot
           /\ FirstInvalid(S, n, lvh) \in Chain[n]
           /\ S.parent[FirstInvalid(S, n, lvh)] \in {ZeroHash, lvh}
<1> DEFINE up == [x \in Block |-> {S.parent[x]} \ {ZeroHash, lvh}]
           walked == Reach(up, {n})
<1>1. S \in Store /\ Linked(S) /\ n \in Block /\ S.nodeByRoot \subseteq Block
  BY DEF Sound, Store
<1>2. {n} \subseteq Block /\ \A x \in Block : up[x] \subseteq Block
  BY <1>1 DEF Store, Root
<1> DEFINE X == S.nodeByRoot \cap Chain[n]
<1>3. Closed(up, X) /\ {n} \subseteq X
  <2>1. ASSUME NEW x \in X, NEW y \in up[x]
        PROVE  y \in X
    <3>1. x \in Block /\ y = S.parent[x] /\ y # ZeroHash
      BY <1>1
    <3>2. y = Parent[x] /\ y \in S.nodeByRoot /\ x # Anchor
      BY <1>1, <3>1, BlocksFormATree DEF Linked
    <3> QED
      BY <1>1, <3>1, <3>2, ChainFacts
  <2> QED
    BY <1>1, <2>1, ChainFacts DEF Closed
<1>4. /\ n \in walked
      /\ walked \subseteq S.nodeByRoot /\ walked \subseteq Chain[n]
      /\ \A x \in walked : S.parent[x] \notin {ZeroHash, lvh} => S.parent[x] \in walked
  <2>1. {n} \subseteq walked /\ Closed(up, walked) /\ walked \subseteq X
    <3> HIDE DEF up, X
    <3> QED
      BY <1>2, <1>3, ReachFacts
  <2> QED
    BY <1>1, <2>1 DEF Closed
<1> HIDE DEF walked
<1>5. \E x \in walked : S.parent[x] \in {ZeroHash, lvh}
  <2> SUFFICES ASSUME \A x \in walked : S.parent[x] \notin {ZeroHash, lvh}
               PROVE  FALSE
    OBVIOUS
  <2>1. \A x \in walked : Parent[x] \in walked
    BY <1>1, <1>4 DEF Linked
  <2>2. Chain[n] \subseteq walked
    BY <1>1, <1>4, <2>1, ChainLeast
  <2> QED
    BY <1>1, <2>2 DEF Linked
<1> QED
  BY <1>4, <1>5 DEF FirstInvalid, walked

(* setOptimisticToInvalid keeps the tree linked, whatever latest valid     *)
(* hash it is given.                                                       *)
LEMMA InvalidSound ==
    ASSUME NEW S, Sound(S), NEW b \in Block, NEW lvh \in Root
    PROVE  Sound(SetOptimisticToInvalid(S, b, lvh))
  BY FirstInvalidKnown, RemoveNodeSound DEF SetOptimisticToInvalid

(* removeNode takes out optimistic nodes only: below an optimistic node    *)
(* there is no validated one.                                              *)
LEMMA RemovesOptimistic ==
    ASSUME NEW S, Sound(S), NEW n \in S.nodeByRoot
    PROVE  S.nodeByRoot \ RemoveNode(S, n).nodeByRoot \subseteq S.optimistic
<1>1. CASE n \notin S.optimistic \/ S.parent[n] = ZeroHash
  BY <1>1 DEF RemoveNode
<1>2. CASE ~(n \notin S.optimistic \/ S.parent[n] = ZeroHash)
  <2> DEFINE gone == Subtree(S, n)
             X == {m \in gone : m \in S.nodeByRoot => m \in S.optimistic}
  <2>1. S \in Store /\ Linked(S) /\ Statuses(S) /\ n \in Block
    BY DEF Sound, Store
  <2>2. n # S.treeRootNode
    BY <1>2, <2>1 DEF Linked
  <2>3. /\ gone \subseteq Block /\ n \in gone
        /\ Closed(S.children, gone)
        /\ S.treeRootNode \notin gone
    BY <2>2, SubtreeFacts
  <2>4. Closed(S.children, X)
    <3> SUFFICES ASSUME NEW m \in X, NEW c \in S.children[m], c \in S.nodeByRoot
                 PROVE  c \in S.optimistic
      BY <2>3 DEF Closed
    <3>1. c \in gone /\ c # S.treeRootNode
      BY <2>3 DEF Closed
    <3>2. S.parent[c] = m /\ m \in S.nodeByRoot
      BY <2>1, <2>3, <3>1, SMT, SMTT(20) DEF Linked
    <3> QED
      BY <2>1, <3>1, <3>2 DEF Statuses
  <2>5. /\ {n} \subseteq Block /\ {n} \subseteq X
        /\ \A x \in Block : S.children[x] \subseteq Block
    BY <1>2, <2>1, <2>3 DEF Store
  <2>6. gone \subseteq X
    <3> HIDE DEF X
    <3> QED
      BY <2>4, <2>5, ReachFacts DEF Subtree
  <2>7. RemoveNode(S, n).nodeByRoot = S.nodeByRoot \ gone
    <3>1. Removed(S, n, RemoveNode(S, n))
      BY <1>2, <2>1, RemoveNodeFields, Zenon, ZenonT(20)
    <3> QED
      BY <3>1 DEF Removed
  <2> QED
    BY <2>6, <2>7
<1> QED
  BY <1>1, <1>2

(* The checkpoints that blocks carry are checkpoints.                      *)
LEMMA CheckpointTypes ==
    ASSUME NEW b \in Block
    PROVE  /\ JC[b] \in Checkpoint /\ FC[b] \in Checkpoint
           /\ UJ[b] \in Checkpoint /\ UF[b] \in Checkpoint
  BY ConstantTypes

(* ForkChoice.updateCheckpoints keeps the tree linked, whether or not the  *)
(* balances can be read.                                                   *)
LEMMA UpdateCheckpointsSound ==
    ASSUME NEW S, Sound(S), NEW jc \in Checkpoint, NEW fc \in Checkpoint, NEW ok
    PROVE  Sound(UpdateCheckpoints(S, jc, fc, ok))
<1> DEFINE J == SetJustified(S, jc)
           F == [J EXCEPT !.finalizedCheckpoint = fc]
<1>1. S \in Store
  BY DEF Sound
<1>2. J \in Store /\ SameTree(S, J)
  BY <1>1 DEF SetJustified, SameTree, Store
<1> HIDE DEF J
<1>3. F \in Store /\ SameTree(J, F)
  BY <1>2 DEF SameTree, Store
<1>4. Sound(J)
  BY <1>2, SameTreeSound
<1> HIDE DEF F
<1>5. Sound(F)
  BY <1>3, <1>4, SameTreeSound
<1>6. Sound(Prune(F))
  BY <1>5, PruneSound
<1>7. UpdateCheckpoints(S, jc, fc, ok) \in {J, Prune(F)}
  BY DEF UpdateCheckpoints, J, F
<1> QED
  BY <1>4, <1>6, <1>7

(* An update that fails has pruned nothing.                                *)
LEMMA FailedUpdateKeepsNodes ==
    ASSUME NEW S \in Store, NEW jc \in Checkpoint, NEW fc \in Checkpoint, NEW ok,
           UpdateCheckpointsFails(S, jc, fc, ok)
    PROVE  UpdateCheckpoints(S, jc, fc, ok).nodeByRoot = S.nodeByRoot
<1> DEFINE J == SetJustified(S, jc)
           F == [J EXCEPT !.finalizedCheckpoint = fc]
<1>1. J \in Store /\ J.nodeByRoot = S.nodeByRoot
  BY DEF SetJustified, Store
<1> HIDE DEF J
<1>2. F \in Store /\ F.nodeByRoot = S.nodeByRoot /\ F.finalizedCheckpoint = fc
  BY <1>1 DEF Store
<1> HIDE DEF F
<1>3. CASE (Justifies(S, jc) /\ ~ok) \/ ~Finalizes(S, fc)
  BY <1>1, <1>3 DEF UpdateCheckpoints, J
<1>4. CASE ~((Justifies(S, jc) /\ ~ok) \/ ~Finalizes(S, fc))
  <2>1. fc.root \notin S.nodeByRoot
    BY <1>4 DEF UpdateCheckpointsFails
  <2>2. Prune(F) = F
    BY <2>1, <1>2 DEF Prune, PruneFails
  <2>3. UpdateCheckpoints(S, jc, fc, ok) = Prune(F)
    BY <1>4 DEF UpdateCheckpoints, J, F
  <2> QED
    BY <2>2, <2>3, <1>2
<1> QED
  BY <1>3, <1>4

(* T is S but for the epochs of nodes and the unrealized checkpoints.      *)
OnlyPulled(S, T) ==
    /\ T \in Store
    /\ SameTree(S, T)
    /\ T.justifiedCheckpoint = S.justifiedCheckpoint
    /\ T.finalizedCheckpoint = S.finalizedCheckpoint

(* Store.pullTips changes nothing else.                                    *)
LEMMA PullTipsFrame ==
    ASSUME NEW S \in Store, NEW b \in Block
    PROVE  OnlyPulled(S, PullTips(S, b))
<1> DEFINE p == S.parent[b]
           R == RecordUnrealized(S, UJ[b], UF[b])
           uj == IF ExitsEarly(S, b) THEN S.unrealizedJustifiedEpoch[p] ELSE UJ[b].epoch
           uf == IF ExitsEarly(S, b) THEN S.unrealizedFinalizedEpoch[p] ELSE UF[b].epoch
           ujs == [S.unrealizedJustifiedEpoch EXCEPT ![b] = uj]
           ufs == [S.unrealizedFinalizedEpoch EXCEPT ![b] = uf]
           js == [S.justifiedEpoch EXCEPT
                     ![b] = IF IsPulled(S, b) THEN UJ[b].epoch ELSE S.justifiedEpoch[b]]
           fs == [S.finalizedEpoch EXCEPT
                     ![b] = IF IsPulled(S, b) THEN UF[b].epoch ELSE S.finalizedEpoch[b]]
<1>1. UJ[b] \in Checkpoint /\ UF[b] \in Checkpoint
  BY CheckpointTypes
<1>2. UJ[b].epoch \in Nat /\ UF[b].epoch \in Nat
  BY <1>1 DEF Checkpoint
<1>3. p \in Root
  BY DEF Store
<1>4. CASE p = ZeroHash
  BY <1>4 DEF PullTips, OnlyPulled, SameTree
<1>5. ASSUME p # ZeroHash
      PROVE  /\ ujs \in [Block -> Nat] /\ ufs \in [Block -> Nat]
             /\ js \in [Block -> Nat] /\ fs \in [Block -> Nat]
  <2>1. uj \in Nat /\ uf \in Nat
    BY <1>2, <1>3, <1>5 DEF Store, Root
  <2> QED
    BY <2>1, <1>2 DEF Store
<1>6. CASE p # ZeroHash /\ ExitsEarly(S, b)
  <2>1. PullTips(S, b) = [S EXCEPT !.unrealizedJustifiedEpoch = ujs,
                                   !.unrealizedFinalizedEpoch = ufs]
    BY <1>6 DEF PullTips, Store
  <2> HIDE DEF ujs, ufs
  <2> QED
    BY <2>1, <1>5, <1>6, ZenonT(30), ZenonT(50) DEF OnlyPulled, SameTree, Store
<1>7. CASE p # ZeroHash /\ ~ExitsEarly(S, b)
  <2>1. /\ R \in Store
        /\ R.unrealizedJustifiedEpoch = S.unrealizedJustifiedEpoch
        /\ R.unrealizedFinalizedEpoch = S.unrealizedFinalizedEpoch
        /\ R.justifiedEpoch = S.justifiedEpoch
        /\ R.finalizedEpoch = S.finalizedEpoch
        /\ OnlyPulled(S, R)
    BY <1>1 DEF RecordUnrealized, OnlyPulled, SameTree, Store
  <2>2. PullTips(S, b) = [R EXCEPT
            !.unrealizedJustifiedEpoch[b] = UJ[b].epoch,
            !.unrealizedFinalizedEpoch[b] = UF[b].epoch,
            !.justifiedEpoch[b] = IF IsPulled(S, b) THEN UJ[b].epoch ELSE @,
            !.finalizedEpoch[b] = IF IsPulled(S, b) THEN UF[b].epoch ELSE @]
    BY <1>7 DEF PullTips
  <2> HIDE DEF R
  <2>3. PullTips(S, b) = [R EXCEPT
            !.unrealizedJustifiedEpoch = ujs, !.unrealizedFinalizedEpoch = ufs,
            !.justifiedEpoch = js, !.finalizedEpoch = fs]
    BY <1>7, <2>1, <2>2 DEF Store
  <2> DEFINE T == PullTips(S, b)
  <2> HIDE DEF T, ujs, ufs, js, fs
  <2>4. T = [R EXCEPT !.unrealizedJustifiedEpoch = ujs, !.unrealizedFinalizedEpoch = ufs,
                      !.justifiedEpoch = js, !.finalizedEpoch = fs]
    BY <2>3 DEF T
  <2>5. T \in Store
    BY <2>1, <2>4, <1>5, <1>7 DEF Store
  <2>6. OnlyPulled(R, T)
    BY <2>1, <2>4, <2>5 DEF OnlyPulled, SameTree, Store
  <2> QED
    BY <2>1, <2>6 DEF OnlyPulled, SameTree, T
<1> QED
  BY <1>4, <1>6, <1>7

(* ForkChoice.InsertNode keeps the tree linked, also when it fails half-   *)
(* way and takes the node out again.                                       *)
LEMMA InsertNodeSound ==
    ASSUME NEW S, Sound(S), NEW b \in Block \ {Anchor}, NEW ok
    PROVE  Sound(InsertNode(S, b, ok))
<1> DEFINE I == Insert(S, b, JC[b].epoch, FC[b].epoch)
           P == PullTips(I, b)
           c == NodeCheckpoints(I, b)
           U == UpdateCheckpoints(P, c.jc, c.fc, ok)
<1>1. CASE InsertFails(S, b)
  BY <1>1 DEF InsertNode
<1>2. CASE ~InsertFails(S, b)
  <2>1. JC[b].epoch \in Nat /\ FC[b].epoch \in Nat
    BY CheckpointTypes DEF Checkpoint
  <2>2. Sound(I)
    BY <2>1, InsertSound
  <2>3. c.jc \in Checkpoint /\ c.fc \in Checkpoint
    BY CheckpointTypes DEF NodeCheckpoints
  <2>4. b \in I.nodeByRoot
    <3>1. CASE b \in S.nodeByRoot
      BY <3>1 DEF Insert
    <3>2. CASE b \notin S.nodeByRoot
      <4>1. S \in Store /\ Parent[b] \in S.nodeByRoot
        BY <1>2, <3>2 DEF Sound, InsertFails
      <4>2. Inserted(S, b, FC[b].epoch, I)
        BY <2>1, <3>2, <4>1, InsertFields, Zenon, ZenonT(20)
      <4> QED
        BY <4>2 DEF Inserted
    <3> QED
      BY <3>1, <3>2
  <2> HIDE DEF I, c
  <2>5. OnlyPulled(I, P)
    BY <2>2, PullTipsFrame DEF Sound
  <2>6. InsertNode(S, b, ok) = IF UpdateCheckpointsFails(I, c.jc, c.fc, ok)
                               THEN RemoveNode(U, b) ELSE U
    BY <1>2 DEF InsertNode, InsertNodeFails, I, c
  <2> HIDE DEF P
  <2>7. Sound(P) /\ b \in P.nodeByRoot
    BY <2>2, <2>4, <2>5, SameTreeSound DEF OnlyPulled, SameTree
  <2>8. Sound(U)
    BY <2>3, <2>7, UpdateCheckpointsSound
  <2>9. ASSUME UpdateCheckpointsFails(I, c.jc, c.fc, ok)
        PROVE  b \in U.nodeByRoot
    <3>1. UpdateCheckpointsFails(P, c.jc, c.fc, ok)
      BY <2>5, <2>9 DEF UpdateCheckpointsFails, Justifies, Finalizes, OnlyPulled, SameTree
    <3>2. U.nodeByRoot = P.nodeByRoot
      BY <2>3, <2>7, <3>1, FailedUpdateKeepsNodes, SMT, SMTT(20) DEF Sound
    <3> QED
      BY <2>7, <3>2
  <2> HIDE DEF U
  <2> QED
    BY <2>6, <2>8, <2>9, RemoveNodeSound
<1> QED
  BY <1>1, <1>2

(* ForkChoice.InsertChain keeps the tree linked for every block of a       *)
(* batch.                                                                  *)
LEMMA InsertChainSound ==
    ASSUME NEW S, Sound(S), NEW b \in Block \ {Anchor}, NEW ok
    PROVE  Sound(InsertChain(S, b, ok))
<1>1. JC[b].epoch \in Nat /\ FC[b].epoch \in Nat /\ JC[b] \in Checkpoint /\ FC[b] \in Checkpoint
  BY CheckpointTypes DEF Checkpoint
<1> QED
  BY <1>1, InsertSound, UpdateCheckpointsSound DEF InsertChain

(* Realizing epochs and moving the checkpoints leaves the tree alone.      *)
LEMMA RealizeFrame ==
    ASSUME NEW S \in Store, NEW nodes, NEW jc \in Checkpoint, NEW fc \in Checkpoint,
           NEW T, T = [Realize(S, nodes) EXCEPT !.justifiedCheckpoint = jc,
                                                !.finalizedCheckpoint = fc]
    PROVE  T \in Store /\ SameTree(S, T)
<1> DEFINE js == [x \in Block |-> IF x \in nodes THEN S.unrealizedJustifiedEpoch[x]
                                                 ELSE S.justifiedEpoch[x]]
           fs == [x \in Block |-> IF x \in nodes THEN S.unrealizedFinalizedEpoch[x]
                                                 ELSE S.finalizedEpoch[x]]
           R == Realize(S, nodes)
<1>1. js \in [Block -> Nat] /\ fs \in [Block -> Nat]
  BY DEF Store
<1>2. R = [S EXCEPT !.justifiedEpoch = js, !.finalizedEpoch = fs]
  BY DEF Realize
<1> HIDE DEF R, js, fs
<1>3. R \in Store /\ SameTree(S, R)
  BY <1>1, <1>2 DEF Store, SameTree
<1>4. T = [R EXCEPT !.justifiedCheckpoint = jc, !.finalizedCheckpoint = fc]
  BY DEF R
<1> QED
  BY ZenonT(60), ZenonT(80), <1>3, <1>4 DEF Store, SameTree

(* ForkChoice.NewSlot keeps the tree linked.                               *)
LEMMA NewSlotSound ==
    ASSUME NEW S, Sound(S), NEW s
    PROVE  Sound(NewSlot(S, s))
<1> DEFINE C == ClearBoost(S)
           U == UpdateUnrealizedCheckpoints(C)
           jc == IF AheadJustified(C) # {} THEN C.unrealizedJustifiedCheckpoint
                                           ELSE C.justifiedCheckpoint
           fc == IF AheadFinalized(C) # {} THEN C.unrealizedFinalizedCheckpoint
                                           ELSE C.finalizedCheckpoint
<1>1. C \in Store /\ SameTree(S, C)
  BY DEF Sound, Store, ClearBoost, SameTree, Root
<1>2. Sound(C)
  BY <1>1, SameTreeSound
<1> HIDE DEF C
<1>3. jc \in Checkpoint /\ fc \in Checkpoint
  BY <1>1 DEF Store
<1>4. U = [Realize(C, C.nodeByRoot) EXCEPT !.justifiedCheckpoint = jc, !.finalizedCheckpoint = fc]
  <2>1. /\ Realize(C, C.nodeByRoot).justifiedCheckpoint = C.justifiedCheckpoint
        /\ Realize(C, C.nodeByRoot).finalizedCheckpoint = C.finalizedCheckpoint
    BY <1>1 DEF Realize, Store
  <2> QED
    BY <2>1 DEF UpdateUnrealizedCheckpoints
<1> HIDE DEF U, jc, fc
<1>5. U \in Store /\ SameTree(C, U)
  BY <1>1, <1>3, <1>4, RealizeFrame
<1>6. Sound(U)
  BY <1>2, <1>5, SameTreeSound
<1>7. NewSlot(S, s) \in {C, Prune(U)}
  BY DEF NewSlot, C, U
<1> QED
  BY <1>2, <1>6, <1>7, PruneSound

(* A NewSlot that stops in the middle of its loop keeps the tree linked.   *)
LEMMA NewSlotFailingSound ==
    ASSUME NEW S, Sound(S), NEW done, NEW n
    PROVE  Sound(NewSlotFailing(S, done, n))
<1> DEFINE C == ClearBoost(S)
           U == UpdateUnrealizedCheckpointsFailing(C, done, n)
           jc == C.unrealizedJustifiedCheckpoint
           fc == IF AheadFinalized(C) \cap done # {} THEN C.unrealizedFinalizedCheckpoint
                                                     ELSE C.finalizedCheckpoint
<1>1. C \in Store /\ SameTree(S, C)
  BY DEF Sound, Store, ClearBoost, SameTree, Root
<1>2. Sound(C)
  BY <1>1, SameTreeSound
<1> HIDE DEF C
<1>3. jc \in Checkpoint /\ fc \in Checkpoint
  BY <1>1 DEF Store
<1>4. U = [Realize(C, done \cup {n}) EXCEPT !.justifiedCheckpoint = jc, !.finalizedCheckpoint = fc]
  <2>1. Realize(C, done \cup {n}).finalizedCheckpoint = C.finalizedCheckpoint
    BY <1>1 DEF Realize, Store
  <2> QED
    BY <2>1 DEF UpdateUnrealizedCheckpointsFailing
<1> HIDE DEF U, jc, fc
<1>5. U \in Store /\ SameTree(C, U)
  BY <1>1, <1>3, <1>4, RealizeFrame
<1> QED
  BY <1>2, <1>5, SameTreeSound DEF NewSlotFailing, U, C

-----------------------------------------------------------------------------
(* The inductive invariant and the theorems *)

(* A block that waits for the lock is not the anchor, and was answered     *)
(* VALID only if its payload is.                                           *)
Waiting == {i \in [block : Block \ {Anchor}, valid : BOOLEAN] : i.valid => i.block \notin Bad}

IInv ==
    /\ slot \in Nat /\ tick \in Nat /\ late \in BOOLEAN
    /\ Sound(store)
    /\ importing \subseteq Waiting
    /\ badBlocks \subseteq Block

(* The store that setupForkchoice leaves is sound.                         *)
LEMMA InitSound ==
    ASSUME NEW opt \in {{}, {Anchor}}
    PROVE  Sound(InitStore(opt))
<1>1. /\ Anchor \in Block /\ ZeroHash \in Root /\ Anchor \in Root
      /\ JC[Anchor].epoch \in Nat /\ FC[Anchor].epoch \in Nat
      /\ AnchorEpoch \in Nat
  BY ConstantTypes, CheckpointTypes DEF Root, Checkpoint
<1> DEFINE T == InitStore(opt)
           nil == [b \in Block |-> ZeroHash]
           at(e) == [b \in Block |-> IF b = Anchor THEN e ELSE 0]
           tg == [nil EXCEPT ![Anchor] =
                     IF SinceEpochStarts(Slot[Anchor]) = 0 THEN Anchor ELSE ZeroHash]
           start == [epoch |-> AnchorEpoch, root |-> Anchor]
           none == [epoch |-> 0, root |-> ZeroHash]
<1>2. /\ nil \in [Block -> Root]
      /\ tg \in [Block -> Root]
      /\ [b \in Block |-> {}] \in [Block -> SUBSET Block]
      /\ at(JC[Anchor].epoch) \in [Block -> Nat]
      /\ at(FC[Anchor].epoch) \in [Block -> Nat]
      /\ start \in Checkpoint /\ none \in Checkpoint
      /\ opt \in SUBSET Block
  BY <1>1 DEF Checkpoint
<1>3. T \in Store
  BY <1>1, <1>2 DEF InitStore, Store
<1>4. /\ T.nodeByRoot = {Anchor} /\ T.treeRootNode = Anchor
      /\ T.parent = nil /\ T.children = [b \in Block |-> {}]
  BY DEF InitStore
<1> HIDE DEF T
<1>5. Linked(T)
  BY <1>1, <1>4, ChainFacts DEF Linked
<1>6. Statuses(T)
  BY <1>4, InvalidityOfPayloads DEF Statuses
<1> QED
  BY <1>3, <1>5, <1>6 DEF Sound, T

(* The latest valid hash of an answer is that of a block, or unknown.      *)
LEMMA LatestValidHashesType ==
    ASSUME NEW b \in Block
    PROVE  LatestValidHashes(b) \subseteq Root
  BY ChainFacts DEF LatestValidHashes, LatestValid, Root

(* The invariant holds at start-up.                                        *)
LEMMA InitIInv ==
    Init => IInv
<1> SUFFICES ASSUME Init PROVE IInv
  OBVIOUS
<1>1. StartSlot \in Nat
  BY ConstantTypes
<1>2. Sound(store)
  BY InitSound DEF Init
<1> QED
  BY <1>1, <1>2 DEF Init, IInv

(* Every action keeps the invariant.                                       *)
LEMMA NextIInv ==
    IInv /\ [Next]_vars => IInv'
<1> SUFFICES ASSUME IInv, [Next]_vars PROVE IInv'
  OBVIOUS
<1> USE DEF IInv
<1>1. CASE NextSlot
  <2>1. slot' \in Nat /\ tick' \in Nat
    BY <1>1, SMT, SMTT(20) DEF NextSlot
  <2>2. late' \in BOOLEAN /\ store' = store /\ importing' = importing /\ badBlocks' = badBlocks
    BY <1>1 DEF NextSlot
  <2>3. Sound(store')
    BY <2>2
  <2> QED
    BY <2>1, <2>2, <2>3
<1>2. CASE Deadline
  BY <1>2 DEF Deadline
<1>3. CASE OnTick
  BY <1>3, NewSlotSound, SMT, SMTT(20) DEF OnTick
<1>4. CASE OnTickFailing
  <2>1. PICK n \in store.nodeByRoot, done \in SUBSET store.nodeByRoot :
          store' = NewSlotFailing(store, done, n)
    BY <1>4 DEF OnTickFailing
  <2> QED
    BY SMTT(60), SMTT(80), <1>4, <2>1, NewSlotFailingSound DEF OnTickFailing
<1>5. ASSUME NEW b \in Block \ {Anchor}, NEW valid \in BOOLEAN, StartImport(b, valid)
      PROVE  IInv'
  BY SMTT(60), SMTT(80), <1>5 DEF StartImport, Waiting
<1>6. ASSUME NEW i \in importing, NEW ok \in BalancesOutcomes, FinishImport(i, ok)
      PROVE  IInv'
  <2>1. i.block \in Block \ {Anchor} /\ (i.valid => i.block \notin Bad)
    BY DEF Waiting
  <2>2. Sound(InsertNode(store, i.block, ok))
    BY <2>1, InsertNodeSound
  <2>3. Sound(store')
    BY <1>6, <2>1, <2>2, ValidSound DEF FinishImport
  <2> QED
    BY <1>6, <2>3 DEF FinishImport
<1>7. ASSUME NEW b \in Block \ {Anchor}, NEW valid \in BOOLEAN, NEW ok \in BalancesOutcomes,
             ImportBatch(b, valid, ok)
      PROVE  IInv'
  <2>1. Sound(InsertChain(store, b, ok))
    BY InsertChainSound
  <2>2. Sound(store')
    BY <1>7, <2>1, ValidSound DEF ImportBatch
  <2> QED
    BY <1>7, <2>2 DEF ImportBatch
<1>8. ASSUME NEW n \in Block, PayloadValid(n)
      PROVE  IInv'
  BY <1>8, ValidSound DEF PayloadValid
<1>9. ASSUME NEW b \in Bad, NEW lvh \in LatestValidHashes(b), PayloadInvalid(b, lvh)
      PROVE  IInv'
  <2>1. b \in Block
    BY ConstantTypes
  <2>2. lvh \in Root
    BY <2>1, LatestValidHashesType
  <2>3. Sound(store')
    BY <1>9, <2>1, <2>2, InvalidSound DEF PayloadInvalid
  <2> QED
    BY <1>9, <2>1, <2>3 DEF PayloadInvalid, Sound, Store
<1>10. CASE UNCHANGED vars
  BY <1>10 DEF vars
<1> QED
  BY <1>1, <1>2, <1>3, <1>4, <1>5, <1>6, <1>7, <1>8, <1>9, <1>10 DEF Next

(* The inductive invariant holds in every reachable state.                 *)
THEOREM Invariance ==
    Spec => []IInv
  BY InitIInv, NextIInv, PTL DEF Spec

(* Every field of the store keeps its type, whatever the callers of the    *)
(* fork choice do and in whatever order they get its lock.                 *)
THEOREM TypeCorrect ==
    Spec => []TypeOK
<1>1. IInv => TypeOK
  BY DEF IInv, TypeOK, Sound, Waiting
<1> QED
  BY <1>1, Invariance, PTL

(* insert, prune and removeNode keep the map and the tree in agreement.    *)
THEOREM TreeStaysLinked ==
    Spec => []TreeIsLinked
<1>1. IInv => TreeIsLinked
  BY DEF IInv, TreeIsLinked, Sound, Linked
<1> QED
  BY <1>1, Invariance, PTL

(* A validated node never has an optimistic parent.                        *)
THEOREM ValidatedStayClosed ==
    Spec => []ValidatedAncestors
<1>1. IInv => ValidatedAncestors
  BY DEF IInv, ValidatedAncestors, Sound, Statuses
<1> QED
  BY <1>1, Invariance, PTL

(* A block with an invalid payload is never shown as validated.            *)
THEOREM InvalidStayOptimistic ==
    Spec => []InvalidNeverValidated
<1>1. IInv => InvalidNeverValidated
  BY DEF IInv, InvalidNeverValidated, Sound, Statuses
<1> QED
  BY <1>1, Invariance, PTL

(* An INVALID answer takes out optimistic nodes only, whatever latest      *)
(* valid hash the engine reports with it (setOptimisticToInvalid).         *)
THEOREM InvalidationIsOptimistic ==
    Spec => InvalidationSparesValidated
<1> DEFINE Spares == badBlocks' # badBlocks =>
                         store.nodeByRoot \ store'.nodeByRoot \subseteq store.optimistic
<1>1. ASSUME IInv, [Next]_vars
      PROVE  [Spares]_vars
  <2>1. CASE badBlocks' = badBlocks
    BY <2>1
  <2>2. CASE badBlocks' # badBlocks
    <3>b. PICK b \in Bad : \E lvh \in LatestValidHashes(b) : PayloadInvalid(b, lvh)
      BY <1>1, <2>2 DEF Next, NextSlot, Deadline, OnTick, OnTickFailing, StartImport,
                        FinishImport, ImportBatch, PayloadValid, vars
    <3>1. PICK lvh \in LatestValidHashes(b) : PayloadInvalid(b, lvh)
      BY <3>b
    <3>2. Sound(store) /\ b \in Block /\ lvh \in Root
      BY <1>1, ConstantTypes, LatestValidHashesType DEF IInv
    <3>3. \/ store' = store
          \/ \E n \in store.nodeByRoot : store' = RemoveNode(store, n)
      BY <3>1, <3>2, FirstInvalidKnown DEF PayloadInvalid, SetOptimisticToInvalid
    <3> QED
      BY <3>2, <3>3, RemovesOptimistic
  <2> QED
    BY <2>1, <2>2
<1> QED
  BY <1>1, Invariance, PTL DEF Spec, InvalidationSparesValidated

-----------------------------------------------------------------------------
(* What the operations of the store do to its other fields *)

(* What Store.insert does to the fields that Inserted leaves out.          *)
InsertedToo(S, b, je, T) ==
    /\ T.target = [S.target EXCEPT ![b] = TargetOf(S, b)]
    /\ T.unrealizedJustifiedEpoch = [S.unrealizedJustifiedEpoch EXCEPT ![b] = je]
    /\ T.justifiedCheckpoint = S.justifiedCheckpoint
    /\ T.unrealizedJustifiedCheckpoint = S.unrealizedJustifiedCheckpoint
    /\ GetsBoost(S, b) => T.proposerBoostRoot = b
    /\ ~GetsBoost(S, b) => T.proposerBoostRoot = S.proposerBoostRoot

(* What Store.insert does to the rest of the fields.                       *)
LEMMA InsertRest ==
    ASSUME NEW S \in Store, NEW b \in Block \ {Anchor}, NEW je \in Nat, NEW fe \in Nat,
           b \notin S.nodeByRoot, Parent[b] \in S.nodeByRoot
    PROVE  InsertedToo(S, b, je, Insert(S, b, je, fe))
<1> DEFINE T == Insert(S, b, je, fe)
<1> DEFINE N == NewNode(S, b, je, fe)
<1>1. /\ N.target = [S.target EXCEPT ![b] = TargetOf(S, b)]
      /\ N.unrealizedJustifiedEpoch = [S.unrealizedJustifiedEpoch EXCEPT ![b] = je]
      /\ N.justifiedCheckpoint = S.justifiedCheckpoint
      /\ N.unrealizedJustifiedCheckpoint = S.unrealizedJustifiedCheckpoint
      /\ N.proposerBoostRoot = S.proposerBoostRoot
      /\ DOMAIN N = DOMAIN S
  BY DEF NewNode, Store
<1> HIDE DEF N
<1>2. T = [N EXCEPT
             !.nodeByRoot = @ \cup {b},
             !.children = Adopt(@, Parent[b], b),
             !.optimistic = @ \cup {b},
             !.proposerBoostRoot = IF GetsBoost(S, b) THEN b ELSE @,
             !.highestReceivedNode = IF Slot[b] > Slot[@] THEN b ELSE @]
  BY DEF Insert, InsertFails, N
<1> HIDE DEF T
<1>3. InsertedToo(S, b, je, T)
  BY <1>1, <1>2 DEF InsertedToo, Store
<1> QED
  BY <1>3 DEF T

(* Store.removeNode leaves them, but for the boost of a node that goes.    *)
LEMMA RemoveNodeRest ==
    ASSUME NEW S \in Store, NEW n \in Block, NEW T, T = RemoveNode(S, n)
    PROVE  /\ T.target = S.target
           /\ T.unrealizedJustifiedEpoch = S.unrealizedJustifiedEpoch
           /\ T.justifiedCheckpoint = S.justifiedCheckpoint
           /\ T.unrealizedJustifiedCheckpoint = S.unrealizedJustifiedCheckpoint
           /\ T.proposerBoostRoot \in {S.proposerBoostRoot, ZeroHash}
  BY DEF RemoveNode, Store

(* Store.prune changes the target of the new tree root only.               *)
LEMMA PruneRest ==
    ASSUME NEW S \in Store, NEW T, T = Prune(S)
    PROVE  /\ T.unrealizedJustifiedEpoch = S.unrealizedJustifiedEpoch
           /\ T.justifiedCheckpoint = S.justifiedCheckpoint
           /\ T.unrealizedJustifiedCheckpoint = S.unrealizedJustifiedCheckpoint
           /\ T.proposerBoostRoot = S.proposerBoostRoot
  BY DEF Prune, Store

(* updateCheckpoints moves the justified checkpoint even if it then fails. *)
LEMMA UpdateRest ==
    ASSUME NEW S \in Store, NEW jc \in Checkpoint, NEW fc \in Checkpoint, NEW ok \in BOOLEAN,
           NEW T, T = UpdateCheckpoints(S, jc, fc, ok)
    PROVE  /\ T.unrealizedJustifiedEpoch = S.unrealizedJustifiedEpoch
           /\ T.justifiedCheckpoint = IF Justifies(S, jc) THEN jc ELSE S.justifiedCheckpoint
           /\ T.unrealizedJustifiedCheckpoint = S.unrealizedJustifiedCheckpoint
           /\ T.proposerBoostRoot = S.proposerBoostRoot
<1> DEFINE J == SetJustified(S, jc)
           F == [J EXCEPT !.finalizedCheckpoint = fc]
<1>1. /\ J \in Store
      /\ J.unrealizedJustifiedEpoch = S.unrealizedJustifiedEpoch
      /\ J.justifiedCheckpoint = IF Justifies(S, jc) THEN jc ELSE S.justifiedCheckpoint
      /\ J.unrealizedJustifiedCheckpoint = S.unrealizedJustifiedCheckpoint
      /\ J.proposerBoostRoot = S.proposerBoostRoot
  BY DEF SetJustified, Store
<1> HIDE DEF J
<1>2. /\ F \in Store
      /\ F.unrealizedJustifiedEpoch = J.unrealizedJustifiedEpoch
      /\ F.justifiedCheckpoint = J.justifiedCheckpoint
      /\ F.unrealizedJustifiedCheckpoint = J.unrealizedJustifiedCheckpoint
      /\ F.proposerBoostRoot = J.proposerBoostRoot
  BY <1>1 DEF Store
<1> HIDE DEF F
<1>3. T = J \/ T = Prune(F)
  BY DEF UpdateCheckpoints, J, F
<1>4. CASE T = J
  BY <1>1, <1>4
<1>5. CASE T = Prune(F)
  BY <1>1, <1>2, <1>5, PruneRest
<1> QED
  BY <1>3, <1>4, <1>5

(* Two blocks on each other's chains are the same.                         *)
LEMMA ChainAntisymmetric ==
    ASSUME NEW a \in Block, NEW b \in Block, a \in Chain[b], b \in Chain[a]
    PROVE  a = b
<1> SUFFICES ASSUME a # b PROVE FALSE
  OBVIOUS
<1>1. Slot[a] < Slot[b] /\ Slot[b] < Slot[a]
  BY ChainFacts
<1>2. Slot[a] \in Nat /\ Slot[b] \in Nat
  BY ConstantTypes
<1> QED
  BY <1>1, <1>2, SMT, SMTT(20)

(* No gaps: a block on the chain of a known node, the tree root on its     *)
(* own chain, is known.                                                    *)
LEMMA AncestorsKnown ==
    ASSUME NEW S, Sound(S), NEW n \in S.nodeByRoot, NEW x \in Chain[n],
           S.treeRootNode \in Chain[x]
    PROVE  x \in S.nodeByRoot
<1> DEFINE r == S.treeRootNode
           X == S.nodeByRoot \cup {y \in Block : r \notin Chain[y]}
<1>1. S.nodeByRoot \subseteq Block /\ r \in Block /\ Linked(S)
  BY DEF Sound, Store
<1>2. X \in SUBSET Block
  BY <1>1
<1>3. ASSUME NEW y \in X \ {Anchor}
      PROVE  Parent[y] \in X
  <2>1. y \in Block /\ Parent[y] \in Block /\ Parent[y] \in Chain[y]
    BY <1>1, BlocksFormATree, ChainFacts
  <2>2. CASE y \in S.nodeByRoot \ {r}
    BY <1>1, <2>2 DEF Linked
  <2>3. CASE y = r
    <3>1. Parent[y] # y
      BY <2>1, BlocksFormATree, ConstantTypes, SMT, SMTT(20)
    <3>2. r \notin Chain[Parent[y]]
      BY <2>1, <2>3, <3>1, ChainAntisymmetric
    <3> QED
      BY <2>1, <3>2
  <2>4. CASE r \notin Chain[y]
    BY <2>1, <2>4, ChainFacts
  <2> QED
    BY <2>2, <2>3, <2>4
<1>4. Chain[n] \subseteq X
  BY <1>2, <1>3, ChainLeast
<1> QED
  BY <1>4

(* An epoch starts no later than any of its slots, with a slot that is     *)
(* zero slots since the epoch starts, and after those of earlier epochs.   *)
LEMMA EpochFacts ==
    ASSUME NEW s \in Nat
    PROVE  /\ Epoch(s) \in Nat /\ SinceEpochStarts(s) \in Nat
           /\ s = EpochStart(Epoch(s)) + SinceEpochStarts(s)
           /\ SinceEpochStarts(s) < SLOTS_PER_EPOCH
           /\ EpochStart(Epoch(s)) \in Nat
  BY ConstantTypes, SMTT(30), SMTT(50) DEF Epoch, EpochStart, SinceEpochStarts

(* T is S with its checkpoints moved and epochs of nodes realized.         *)
Turned(S, jc, fc, T) ==
    /\ T \in Store /\ SameTree(S, T)
    /\ T.target = S.target
    /\ T.unrealizedJustifiedEpoch = S.unrealizedJustifiedEpoch
    /\ T.unrealizedFinalizedEpoch = S.unrealizedFinalizedEpoch
    /\ T.justifiedCheckpoint = jc /\ T.finalizedCheckpoint = fc
    /\ T.unrealizedJustifiedCheckpoint = S.unrealizedJustifiedCheckpoint
    /\ T.unrealizedFinalizedCheckpoint = S.unrealizedFinalizedCheckpoint

(* The loop of updateUnrealizedCheckpoints touches nothing else.           *)
LEMMA RealizeTurns ==
    ASSUME NEW S \in Store, NEW nodes, NEW jc \in Checkpoint, NEW fc \in Checkpoint
    PROVE  Turned(S, jc, fc, [Realize(S, nodes) EXCEPT !.justifiedCheckpoint = jc,
                                                       !.finalizedCheckpoint = fc])
<1> DEFINE R == Realize(S, nodes)
           T == [R EXCEPT !.justifiedCheckpoint = jc, !.finalizedCheckpoint = fc]
<1>1. T \in Store /\ SameTree(S, T)
  BY RealizeFrame
<1>2. /\ R.target = S.target
      /\ R.unrealizedJustifiedEpoch = S.unrealizedJustifiedEpoch
      /\ R.unrealizedFinalizedEpoch = S.unrealizedFinalizedEpoch
      /\ R.unrealizedJustifiedCheckpoint = S.unrealizedJustifiedCheckpoint
      /\ R.unrealizedFinalizedCheckpoint = S.unrealizedFinalizedCheckpoint
      /\ DOMAIN R = DOMAIN S
  BY DEF Realize, Store
<1> HIDE DEF R
<1>3. /\ T.target = R.target
      /\ T.unrealizedJustifiedEpoch = R.unrealizedJustifiedEpoch
      /\ T.unrealizedFinalizedEpoch = R.unrealizedFinalizedEpoch
      /\ T.unrealizedJustifiedCheckpoint = R.unrealizedJustifiedCheckpoint
      /\ T.unrealizedFinalizedCheckpoint = R.unrealizedFinalizedCheckpoint
      /\ T.justifiedCheckpoint = jc /\ T.finalizedCheckpoint = fc
  BY <1>2 DEF Store
<1> QED
  BY <1>1, <1>2, <1>3 DEF Turned, R

(* The checkpoints after the loop of updateUnrealizedCheckpoints.          *)
TurnedJustified(S) ==
    IF AheadJustified(S) # {} THEN S.unrealizedJustifiedCheckpoint ELSE S.justifiedCheckpoint

TurnedFinalized(S, done) ==
    IF AheadFinalized(S) \cap done # {} THEN S.unrealizedFinalizedCheckpoint
                                        ELSE S.finalizedCheckpoint

(* updateUnrealizedCheckpoints as a whole, to its end or to a read of the  *)
(* balances that fails.                                                    *)
LEMMA UpdateUnrealizedTurns ==
    ASSUME NEW S \in Store, NEW done, NEW n
    PROVE  /\ Turned(S, TurnedJustified(S), TurnedFinalized(S, S.nodeByRoot),
                     UpdateUnrealizedCheckpoints(S))
           /\ Turned(S, S.unrealizedJustifiedCheckpoint, TurnedFinalized(S, done),
                     UpdateUnrealizedCheckpointsFailing(S, done, n))
<1> DEFINE jc == TurnedJustified(S)
           fc == TurnedFinalized(S, S.nodeByRoot)
           fd == TurnedFinalized(S, done)
           uj == S.unrealizedJustifiedCheckpoint
           A == Realize(S, S.nodeByRoot)
           B == Realize(S, done \cup {n})
<1>1. jc \in Checkpoint /\ fc \in Checkpoint /\ fd \in Checkpoint /\ uj \in Checkpoint
  BY DEF TurnedJustified, TurnedFinalized, Store
<1>2. /\ A.justifiedCheckpoint = S.justifiedCheckpoint
      /\ A.finalizedCheckpoint = S.finalizedCheckpoint
      /\ B.finalizedCheckpoint = S.finalizedCheckpoint
  BY DEF Realize, Store
<1>3. AheadFinalized(S) \cap S.nodeByRoot = AheadFinalized(S)
  BY DEF AheadFinalized
<1> HIDE DEF A, B
<1>4. UpdateUnrealizedCheckpoints(S)
        = [A EXCEPT !.justifiedCheckpoint = jc, !.finalizedCheckpoint = fc]
  BY <1>2, <1>3 DEF UpdateUnrealizedCheckpoints, TurnedJustified, TurnedFinalized, A
<1>5. UpdateUnrealizedCheckpointsFailing(S, done, n)
        = [B EXCEPT !.justifiedCheckpoint = uj, !.finalizedCheckpoint = fd]
  BY <1>2 DEF UpdateUnrealizedCheckpointsFailing, TurnedFinalized, B
<1> HIDE DEF jc, fc, fd, uj
<1>6. Turned(S, jc, fc, [A EXCEPT !.justifiedCheckpoint = jc, !.finalizedCheckpoint = fc])
  BY <1>1, RealizeTurns DEF A
<1>7. Turned(S, uj, fd, [B EXCEPT !.justifiedCheckpoint = uj, !.finalizedCheckpoint = fd])
  BY <1>1, RealizeTurns DEF B
<1> QED
  BY <1>4, <1>5, <1>6, <1>7 DEF jc, fc, fd, uj

(* What pullTips does to the epochs of its node and to the unrealized      *)
(* checkpoints, if it exits early and if it does not.                      *)
PulledEarly(S, b, T) ==
    /\ T.unrealizedJustifiedEpoch
         = [S.unrealizedJustifiedEpoch EXCEPT ![b] = S.unrealizedJustifiedEpoch[S.parent[b]]]
    /\ T.unrealizedFinalizedEpoch
         = [S.unrealizedFinalizedEpoch EXCEPT ![b] = S.unrealizedFinalizedEpoch[S.parent[b]]]
    /\ T.unrealizedJustifiedCheckpoint = S.unrealizedJustifiedCheckpoint
    /\ T.unrealizedFinalizedCheckpoint = S.unrealizedFinalizedCheckpoint

PulledFully(S, b, T) ==
    LET uj == S.unrealizedJustifiedCheckpoint
        uf == S.unrealizedFinalizedCheckpoint
        finalizes == UF[b].epoch > uf.epoch
        justifies == UJ[b].epoch > uj.epoch
    IN  /\ T.unrealizedJustifiedEpoch = [S.unrealizedJustifiedEpoch EXCEPT ![b] = UJ[b].epoch]
        /\ T.unrealizedFinalizedEpoch = [S.unrealizedFinalizedEpoch EXCEPT ![b] = UF[b].epoch]
        /\ justifies \/ finalizes => T.unrealizedJustifiedCheckpoint = UJ[b]
        /\ ~(justifies \/ finalizes) => T.unrealizedJustifiedCheckpoint = uj
        /\ finalizes => T.unrealizedFinalizedCheckpoint = UF[b]
        /\ ~finalizes => T.unrealizedFinalizedCheckpoint = uf

(* pullTips stops at a node without parent, exits early, or records the    *)
(* unrealized checkpoints.                                                 *)
LEMMA PullTipsFields ==
    ASSUME NEW S \in Store, NEW b \in Block
    PROVE  /\ S.parent[b] = ZeroHash => PullTips(S, b) = S
           /\ S.parent[b] # ZeroHash /\ ExitsEarly(S, b) => PulledEarly(S, b, PullTips(S, b))
           /\ S.parent[b] # ZeroHash /\ ~ExitsEarly(S, b) => PulledFully(S, b, PullTips(S, b))
<1> DEFINE R == RecordUnrealized(S, UJ[b], UF[b])
           T == PullTips(S, b)
<1>1. CASE S.parent[b] = ZeroHash
  BY <1>1 DEF PullTips
<1>2. CASE S.parent[b] # ZeroHash /\ ExitsEarly(S, b)
  <2>1. T = [S EXCEPT !.unrealizedJustifiedEpoch[b] = S.unrealizedJustifiedEpoch[S.parent[b]],
                      !.unrealizedFinalizedEpoch[b] = S.unrealizedFinalizedEpoch[S.parent[b]]]
    BY <1>2 DEF PullTips
  <2> HIDE DEF T
  <2>2. PulledEarly(S, b, T)
    BY <2>1 DEF PulledEarly, Store
  <2> QED
    BY <1>2, <2>2 DEF T
<1>3. CASE S.parent[b] # ZeroHash /\ ~ExitsEarly(S, b)
  <2>1. T = [R EXCEPT
               !.unrealizedJustifiedEpoch[b] = UJ[b].epoch,
               !.unrealizedFinalizedEpoch[b] = UF[b].epoch,
               !.justifiedEpoch[b] = IF IsPulled(S, b) THEN UJ[b].epoch ELSE @,
               !.finalizedEpoch[b] = IF IsPulled(S, b) THEN UF[b].epoch ELSE @]
    BY <1>3 DEF PullTips
  <2> DEFINE uj == S.unrealizedJustifiedCheckpoint
             uf == S.unrealizedFinalizedCheckpoint
             finalizes == UF[b].epoch > uf.epoch
             justifies == UJ[b].epoch > uj.epoch
  <2>2. /\ DOMAIN R = DOMAIN S
        /\ R.unrealizedJustifiedEpoch = S.unrealizedJustifiedEpoch
        /\ R.unrealizedFinalizedEpoch = S.unrealizedFinalizedEpoch
        /\ justifies \/ finalizes => R.unrealizedJustifiedCheckpoint = UJ[b]
        /\ ~(justifies \/ finalizes) => R.unrealizedJustifiedCheckpoint = uj
        /\ finalizes => R.unrealizedFinalizedCheckpoint = UF[b]
        /\ ~finalizes => R.unrealizedFinalizedCheckpoint = uf
    BY DEF RecordUnrealized, Store
  <2> HIDE DEF R, T
  <2>3. /\ T.unrealizedJustifiedEpoch = [S.unrealizedJustifiedEpoch EXCEPT ![b] = UJ[b].epoch]
        /\ T.unrealizedFinalizedEpoch = [S.unrealizedFinalizedEpoch EXCEPT ![b] = UF[b].epoch]
        /\ T.unrealizedJustifiedCheckpoint = R.unrealizedJustifiedCheckpoint
        /\ T.unrealizedFinalizedCheckpoint = R.unrealizedFinalizedCheckpoint
    BY <2>1, <2>2 DEF Store
  <2>4. PulledFully(S, b, T)
    BY <2>2, <2>3 DEF PulledFully
  <2> QED
    BY <1>3, <2>4 DEF T
<1> QED
  BY <1>1, <1>2, <1>3

(* Nodes may leave as long as the unrealized epochs stay.                  *)
KeepsEpochs(S, T) ==
    /\ T.nodeByRoot \subseteq S.nodeByRoot
    /\ T.unrealizedJustifiedEpoch = S.unrealizedJustifiedEpoch

(* Store.prune.                                                            *)
LEMMA PruneKeepsEpochs ==
    ASSUME NEW S \in Store
    PROVE  KeepsEpochs(S, Prune(S))
  BY DEF Prune, KeepsEpochs, Store

(* removeNode.                                                             *)
LEMMA RemoveNodeKeepsEpochs ==
    ASSUME NEW S \in Store, NEW n
    PROVE  KeepsEpochs(S, RemoveNode(S, n))
  BY DEF RemoveNode, KeepsEpochs, Store

(* SetOptimisticToInvalid.                                                 *)
LEMMA InvalidKeepsEpochs ==
    ASSUME NEW S \in Store, NEW b, NEW lvh
    PROVE  KeepsEpochs(S, SetOptimisticToInvalid(S, b, lvh))
<1>1. \/ SetOptimisticToInvalid(S, b, lvh) = S
      \/ \E n : SetOptimisticToInvalid(S, b, lvh) = RemoveNode(S, n)
  BY DEF SetOptimisticToInvalid
<1>2. KeepsEpochs(S, S)
  BY DEF KeepsEpochs
<1> QED
  BY <1>1, <1>2, RemoveNodeKeepsEpochs

(* NewSlot, with a turn of the epoch that is completed or not.             *)
LEMMA NewSlotKeepsEpochs ==
    ASSUME NEW S \in Store, NEW s, NEW done, NEW n
    PROVE  KeepsEpochs(S, NewSlot(S, s)) /\ KeepsEpochs(S, NewSlotFailing(S, done, n))
<1> DEFINE C == ClearBoost(S)
           U == UpdateUnrealizedCheckpoints(C)
           F == UpdateUnrealizedCheckpointsFailing(C, done, n)
<1>1. C \in Store /\ KeepsEpochs(S, C)
  BY DEF ClearBoost, Store, KeepsEpochs, Root
<1> HIDE DEF C
<1>2. U \in Store /\ KeepsEpochs(C, U) /\ KeepsEpochs(C, F)
  BY <1>1, UpdateUnrealizedTurns, SMT, SMTT(20) DEF Turned, SameTree, KeepsEpochs
<1>3. NewSlotFailing(S, done, n) = F /\ NewSlot(S, s) \in {C, Prune(U)}
  BY DEF NewSlotFailing, NewSlot, C, U
<1> HIDE DEF U, F
<1>4. KeepsEpochs(U, Prune(U))
  BY <1>2, PruneKeepsEpochs
<1> QED
  BY <1>1, <1>2, <1>3, <1>4 DEF KeepsEpochs

-----------------------------------------------------------------------------
(***************************************************************************)
(* The nodes: the proposer boost does not outlive its slot, the target of  *)
(* a node is the checkpoint block of its epoch, and the early exits of     *)
(* pullTips leave every node with the unrealized epoch that the full       *)
(* computation gives.                                                      *)
(***************************************************************************)

(* setNodeAndParentValidated changes the statuses only.                    *)
LEMMA ValidRest ==
    ASSUME NEW S \in Store, NEW n \in Block, NEW T, T = SetOptimisticToValid(S, n)
    PROVE  /\ T.target = S.target
           /\ T.unrealizedJustifiedEpoch = S.unrealizedJustifiedEpoch
           /\ T.justifiedCheckpoint = S.justifiedCheckpoint
           /\ T.unrealizedJustifiedCheckpoint = S.unrealizedJustifiedCheckpoint
           /\ T.proposerBoostRoot = S.proposerBoostRoot
  BY DEF SetOptimisticToValid, Store

(* pullTips leaves the targets and the boost.                              *)
LEMMA PullTipsRest ==
    ASSUME NEW S \in Store, NEW b \in Block, NEW T, T = PullTips(S, b)
    PROVE  T.target = S.target /\ T.proposerBoostRoot = S.proposerBoostRoot
<1> DEFINE R == RecordUnrealized(S, UJ[b], UF[b])
<1>1. /\ R.target = S.target /\ R.proposerBoostRoot = S.proposerBoostRoot
      /\ DOMAIN R = DOMAIN S
  BY DEF RecordUnrealized, Store
<1> HIDE DEF R
<1>2. CASE S.parent[b] = ZeroHash
  BY <1>2 DEF PullTips
<1>3. CASE S.parent[b] # ZeroHash /\ ExitsEarly(S, b)
  BY <1>3 DEF PullTips, Store
<1>4. CASE S.parent[b] # ZeroHash /\ ~ExitsEarly(S, b)
  <2>1. T = [R EXCEPT
               !.unrealizedJustifiedEpoch[b] = UJ[b].epoch,
               !.unrealizedFinalizedEpoch[b] = UF[b].epoch,
               !.justifiedEpoch[b] = IF IsPulled(S, b) THEN UJ[b].epoch ELSE @,
               !.finalizedEpoch[b] = IF IsPulled(S, b) THEN UF[b].epoch ELSE @]
    BY <1>4 DEF PullTips, R
  <2> QED
    BY <1>1, <2>1 DEF Store
<1> QED
  BY <1>2, <1>3, <1>4

-----------------------------------------------------------------------------
(* The proposer boost *)

(* The boost of the store stays, or goes.                                  *)
KeepsBoost(S, T) == T.proposerBoostRoot \in {S.proposerBoostRoot, ZeroHash}

(* Only a block of the current slot gets the boost.                        *)
LEMMA InsertBoost ==
    ASSUME NEW S \in Store, NEW b \in Block \ {Anchor}, NEW je \in Nat, NEW fe \in Nat,
           NEW T, T = Insert(S, b, je, fe)
    PROVE  KeepsBoost(S, T) \/ (T.proposerBoostRoot = b /\ Slot[b] = slot)
<1>1. CASE b \in S.nodeByRoot \/ InsertFails(S, b)
  BY <1>1 DEF Insert, KeepsBoost
<1>2. CASE b \notin S.nodeByRoot /\ ~InsertFails(S, b)
  <2>1. Parent[b] \in S.nodeByRoot
    BY <1>2 DEF InsertFails
  <2>2. InsertedToo(S, b, je, T)
    BY <1>2, <2>1, InsertRest
  <2> QED
    BY <2>2 DEF InsertedToo, GetsBoost, KeepsBoost
<1> QED
  BY <1>1, <1>2

(* InsertNode gives the boost to a block of the current slot only.         *)
LEMMA InsertNodeBoost ==
    ASSUME NEW S, Sound(S), NEW b \in Block \ {Anchor}, NEW ok \in BOOLEAN,
           NEW T, T = InsertNode(S, b, ok)
    PROVE  KeepsBoost(S, T) \/ (T.proposerBoostRoot = b /\ Slot[b] = slot)
<1> DEFINE I == Insert(S, b, JC[b].epoch, FC[b].epoch)
           P == PullTips(I, b)
           c == NodeCheckpoints(I, b)
           U == UpdateCheckpoints(P, c.jc, c.fc, ok)
<1>1. I \in Store /\ JC[b].epoch \in Nat /\ FC[b].epoch \in Nat
  BY InsertSound, CheckpointTypes DEF Sound, Checkpoint
<1>2. P \in Store
  BY <1>1, PullTipsFrame DEF OnlyPulled
<1>3. c.jc \in Checkpoint /\ c.fc \in Checkpoint
  BY CheckpointTypes DEF NodeCheckpoints
<1>4. T \in {S, U, RemoveNode(U, b)}
  BY DEF InsertNode
<1> HIDE DEF I, c
<1>5. U.proposerBoostRoot = I.proposerBoostRoot
  BY <1>1, <1>2, <1>3, PullTipsRest, UpdateRest, SMT, SMTT(20)
<1>6. KeepsBoost(S, I) \/ (I.proposerBoostRoot = b /\ Slot[b] = slot)
  BY <1>1, InsertBoost DEF I, Sound
<1>7. RemoveNode(U, b).proposerBoostRoot \in {U.proposerBoostRoot, ZeroHash}
  BY SMT, SMTT(20) DEF RemoveNode
<1> QED
  BY <1>4, <1>5, <1>6, <1>7 DEF KeepsBoost

(* So does InsertChain.                                                    *)
LEMMA InsertChainBoost ==
    ASSUME NEW S, Sound(S), NEW b \in Block \ {Anchor}, NEW ok \in BOOLEAN,
           NEW T, T = InsertChain(S, b, ok)
    PROVE  KeepsBoost(S, T) \/ (T.proposerBoostRoot = b /\ Slot[b] = slot)
<1> DEFINE I == Insert(S, b, JC[b].epoch, FC[b].epoch)
<1>1. /\ I \in Store /\ JC[b].epoch \in Nat /\ FC[b].epoch \in Nat
      /\ JC[b] \in Checkpoint /\ FC[b] \in Checkpoint
  BY InsertSound, CheckpointTypes DEF Sound, Checkpoint
<1>2. KeepsBoost(S, I) \/ (I.proposerBoostRoot = b /\ Slot[b] = slot)
  BY <1>1, InsertBoost DEF Sound
<1>3. T = S \/ T = UpdateCheckpoints(I, JC[b], FC[b], ok)
  BY DEF InsertChain
<1>4. UpdateCheckpoints(I, JC[b], FC[b], ok).proposerBoostRoot = I.proposerBoostRoot
  BY <1>1, UpdateRest, SMT, SMTT(20)
<1> HIDE DEF I
<1> QED
  BY <1>2, <1>3, <1>4 DEF KeepsBoost

(* removeNode clears the boost of a node it takes out.                     *)
LEMMA InvalidBoost ==
    ASSUME NEW S \in Store, NEW b \in Block, NEW lvh
    PROVE  KeepsBoost(S, SetOptimisticToInvalid(S, b, lvh))
<1> DEFINE T == SetOptimisticToInvalid(S, b, lvh)
<1>1. T = S \/ \E n : T = RemoveNode(S, n)
  BY DEF SetOptimisticToInvalid
<1>2. \A n : KeepsBoost(S, RemoveNode(S, n))
  BY DEF RemoveNode, KeepsBoost, Store
<1> HIDE DEF T
<1>3. KeepsBoost(S, T)
  BY <1>1, <1>2 DEF KeepsBoost
<1> QED
  BY <1>3 DEF T

(* NewSlot clears the boost, also when it stops in the middle of its loop. *)
LEMMA NewSlotBoost ==
    ASSUME NEW S \in Store, NEW s, NEW done, NEW n
    PROVE  /\ NewSlot(S, s).proposerBoostRoot = ZeroHash
           /\ NewSlotFailing(S, done, n).proposerBoostRoot = ZeroHash
<1> DEFINE C == ClearBoost(S)
           U == UpdateUnrealizedCheckpoints(C)
<1>1. C \in Store /\ C.proposerBoostRoot = ZeroHash
  BY DEF ClearBoost, Store, Root
<1> HIDE DEF C
<1>2. \A nodes : /\ Realize(C, nodes).proposerBoostRoot = C.proposerBoostRoot
                 /\ DOMAIN Realize(C, nodes) = DOMAIN C
  BY <1>1 DEF Realize, Store
<1>3. U.proposerBoostRoot = ZeroHash
  BY <1>1, <1>2 DEF UpdateUnrealizedCheckpoints, Store
<1>4. Prune(U).proposerBoostRoot = U.proposerBoostRoot
  BY SMT, SMTT(20) DEF Prune
<1>5. UpdateUnrealizedCheckpointsFailing(C, done, n).proposerBoostRoot = ZeroHash
  BY <1>1, <1>2 DEF UpdateUnrealizedCheckpointsFailing, Store
<1> HIDE DEF U
<1>6. NewSlot(S, s) = C \/ NewSlot(S, s) = Prune(U)
  BY DEF NewSlot, C, U
<1>7. NewSlotFailing(S, done, n) = UpdateUnrealizedCheckpointsFailing(C, done, n)
  BY DEF NewSlotFailing, C
<1> QED
  BY <1>1, <1>3, <1>4, <1>5, <1>6, <1>7

(* The ticker routine is never ahead of the clock, so a boost given at the *)
(* slot of the clock is no older than the last NewSlot.                    *)
BoostInv == IInv /\ tick <= slot /\ BoostIsOfThisSlot

(* Every step keeps the boost with the slot of the last tick.              *)
LEMMA NextBoostInv ==
    BoostInv /\ [Next]_vars => BoostInv'
<1> SUFFICES ASSUME BoostInv, [Next]_vars
             PROVE  (tick <= slot)' /\ BoostIsOfThisSlot'
  BY NextIInv DEF BoostInv
<1>1. /\ slot \in Nat /\ tick \in Nat /\ tick <= slot
      /\ Sound(store) /\ store \in Store
      /\ store.proposerBoostRoot # ZeroHash => Slot[store.proposerBoostRoot] \in tick .. slot
  BY DEF BoostInv, IInv, Sound, BoostIsOfThisSlot
<1>2. ASSUME tick' = tick, slot' = slot,
             \/ KeepsBoost(store, store')
             \/ \E b \in Block : store'.proposerBoostRoot = b /\ Slot[b] = slot
      PROVE  (tick <= slot)' /\ BoostIsOfThisSlot'
  <2>1. CASE KeepsBoost(store, store')
    BY <1>1, <1>2, <2>1 DEF KeepsBoost, BoostIsOfThisSlot
  <2>2. ASSUME NEW b \in Block, store'.proposerBoostRoot = b, Slot[b] = slot
        PROVE  BoostIsOfThisSlot'
    BY <1>1, <1>2, <2>2, SMT, SMTT(20) DEF BoostIsOfThisSlot
  <2> QED
    BY <1>1, <1>2, <2>1, <2>2
<1>3. CASE NextSlot
  BY <1>1, <1>3, SMT, SMTT(20) DEF NextSlot, BoostIsOfThisSlot
<1>4. CASE Deadline
  BY <1>1, <1>2, <1>4 DEF Deadline, KeepsBoost
<1>5. CASE OnTick
  <2>1. store'.proposerBoostRoot = ZeroHash
    BY <1>1, <1>5, NewSlotBoost DEF OnTick
  <2> QED
    BY <1>1, <1>5, <2>1, SMT, SMTT(20) DEF OnTick, BoostIsOfThisSlot
<1>6. CASE OnTickFailing
  <2>1. store'.proposerBoostRoot = ZeroHash
    BY <1>1, <1>6, NewSlotBoost DEF OnTickFailing
  <2> QED
    BY <1>1, <1>6, <2>1, SMT, SMTT(20) DEF OnTickFailing, BoostIsOfThisSlot
<1>7. ASSUME NEW b \in Block \ {Anchor}, NEW valid \in BOOLEAN, StartImport(b, valid)
      PROVE  (tick <= slot)' /\ BoostIsOfThisSlot'
  BY <1>1, <1>2, <1>7 DEF StartImport, KeepsBoost
<1>8. ASSUME NEW i \in importing, NEW ok \in BalancesOutcomes, FinishImport(i, ok)
      PROVE  (tick <= slot)' /\ BoostIsOfThisSlot'
  <2> DEFINE T == InsertNode(store, i.block, ok)
  <2>1. i.block \in Block \ {Anchor} /\ ok \in BOOLEAN
    BY DEF BoostInv, IInv, Waiting, BalancesOutcomes
  <2>2. T \in Store /\ (KeepsBoost(store, T) \/ (T.proposerBoostRoot = i.block /\ Slot[i.block] = slot))
    BY <1>1, <2>1, InsertNodeBoost, InsertNodeSound DEF Sound
  <2>3. store' = T \/ store' = SetOptimisticToValid(T, i.block)
    BY <1>8 DEF FinishImport
  <2> HIDE DEF T
  <2>4. store'.proposerBoostRoot = T.proposerBoostRoot
    BY <2>1, <2>2, <2>3, ValidRest
  <2> QED
    BY <1>2, <1>8, <2>1, <2>2, <2>4 DEF FinishImport, KeepsBoost
<1>9. ASSUME NEW b \in Block \ {Anchor}, NEW valid \in BOOLEAN, NEW ok \in BalancesOutcomes,
             ImportBatch(b, valid, ok)
      PROVE  (tick <= slot)' /\ BoostIsOfThisSlot'
  <2> DEFINE T == InsertChain(store, b, ok)
  <2>1. ok \in BOOLEAN
    BY DEF BalancesOutcomes
  <2>2. T \in Store /\ (KeepsBoost(store, T) \/ (T.proposerBoostRoot = b /\ Slot[b] = slot))
    BY <1>1, <2>1, InsertChainBoost, InsertChainSound DEF Sound
  <2>3. store' = T \/ store' = SetOptimisticToValid(T, b)
    BY <1>9 DEF ImportBatch
  <2> HIDE DEF T
  <2>4. store'.proposerBoostRoot = T.proposerBoostRoot
    BY <2>1, <2>2, <2>3, ValidRest, SMT, SMTT(20)
  <2> QED
    BY <1>2, <1>9, <2>1, <2>2, <2>4 DEF ImportBatch, KeepsBoost
<1>10. ASSUME NEW n \in Block, PayloadValid(n)
       PROVE  (tick <= slot)' /\ BoostIsOfThisSlot'
  <2>1. store'.proposerBoostRoot = store.proposerBoostRoot
    BY <1>1, <1>10, ValidRest DEF PayloadValid
  <2> QED
    BY <1>2, <1>10, <2>1 DEF PayloadValid, KeepsBoost
<1>11. ASSUME NEW b \in Bad, NEW lvh \in LatestValidHashes(b), PayloadInvalid(b, lvh)
       PROVE  (tick <= slot)' /\ BoostIsOfThisSlot'
  <2>1. KeepsBoost(store, store')
    BY <1>1, <1>11, InvalidBoost, ConstantTypes DEF PayloadInvalid
  <2> QED
    BY <1>2, <1>11, <2>1 DEF PayloadInvalid
<1>12. CASE UNCHANGED vars
  BY <1>1, <1>2, <1>12 DEF vars, KeepsBoost
<1> QED
  BY <1>3, <1>4, <1>5, <1>6, <1>7, <1>8, <1>9, <1>10, <1>11, <1>12 DEF Next

(***************************************************************************)
(* The boost is that of a block of the present slot, or of one that the    *)
(* ticker routine has not turned yet: insert gives it only at the slot of  *)
(* the clock and NewSlot takes it away.                                    *)
(***************************************************************************)
THEOREM BoostEndsWithItsSlot ==
    Spec => []BoostIsOfThisSlot
<1>1. Init => BoostInv
  <2>1. ASSUME Init PROVE tick <= slot /\ store.proposerBoostRoot = ZeroHash
    BY <2>1, ConstantTypes, SMT, SMTT(20) DEF Init, InitStore
  <2> QED
    BY <2>1, InitIInv DEF BoostInv, BoostIsOfThisSlot
<1>2. BoostInv => BoostIsOfThisSlot
  BY DEF BoostInv
<1> QED
  BY <1>1, <1>2, NextBoostInv, PTL DEF Spec

-----------------------------------------------------------------------------
(* Chains and epochs *)

(* A block of an earlier epoch is before the start of a later one.         *)
LEMMA EpochOrder ==
    ASSUME NEW s \in Nat, NEW t \in Nat, s <= t
    PROVE  /\ Epoch(s) <= Epoch(t)
           /\ Epoch(s) # Epoch(t) => s < EpochStart(Epoch(t))
<1> DEFINE N == SLOTS_PER_EPOCH
           d == Epoch(s)
           e == Epoch(t)
<1>0. \A x \in Nat : /\ Epoch(x) \in Nat
                        /\ Epoch(x) * N <= x /\ x < Epoch(x) * N + N
  <2> TAKE x \in Nat
  <2>1. /\ Epoch(x) \in Nat /\ SinceEpochStarts(x) \in Nat /\ SinceEpochStarts(x) < N
        /\ x = Epoch(x) * N + SinceEpochStarts(x) /\ Epoch(x) * N \in Nat
    BY EpochFacts DEF EpochStart
  <2>2. N \in Nat
    BY ConstantTypes
  <2> QED
    BY <2>1, <2>2, SMT, SMTT(20)
<1>1. /\ d \in Nat /\ e \in Nat /\ N \in Nat
      /\ d * N <= s /\ s < d * N + N
      /\ e * N <= t /\ t < e * N + N
  BY <1>0, ConstantTypes
<1> HIDE DEF d, e
<1>2. d <= e
  <2>1. ASSUME d >= e + 1 PROVE FALSE
    <3>1. d * N >= (e + 1) * N
      BY <1>1, <2>1, SMT, SMTT(20)
    <3>2. (e + 1) * N = e * N + N
      BY <1>1, SMT, SMTT(20)
    <3> QED
      BY <1>1, <3>1, <3>2, SMT, SMTT(20)
  <2> QED
    BY <1>1, <2>1, SMT, SMTT(20)
<1>3. ASSUME d # e PROVE s < e * N
  <2>1. e >= d + 1
    BY <1>1, <1>2, <1>3, SMT, SMTT(20)
  <2>2. e * N >= (d + 1) * N
    BY <1>1, <2>1, SMT, SMTT(20)
  <2>3. (d + 1) * N = d * N + N
    BY <1>1, SMT, SMTT(20)
  <2> QED
    BY <1>1, <2>2, <2>3, SMT, SMTT(20)
<1> QED
  BY <1>2, <1>3 DEF d, e, EpochStart

-----------------------------------------------------------------------------
(* Targets *)

(* The target of n is its checkpoint block, or nil because no node is.     *)
HasTarget(S, n) ==
    \/ IsCheckpointBlock(S.target[n], n, Epoch(Slot[n]))
    \/ /\ S.target[n] = ZeroHash
       /\ \A t \in S.nodeByRoot : ~IsCheckpointBlock(t, n, Epoch(Slot[n]))

Targeted(S) == \A n \in S.nodeByRoot : HasTarget(S, n)

(* Nodes may leave as long as the targets stay.                            *)
FewerNodes(S, T) == T.nodeByRoot \subseteq S.nodeByRoot /\ T.target = S.target

(* A store with fewer nodes and the same targets.                          *)
LEMMA FewerNodesTargeted ==
    ASSUME NEW S, Targeted(S), NEW T, FewerNodes(S, T)
    PROVE  Targeted(T)
  BY DEF Targeted, HasTarget, FewerNodes

(* A node's checkpoint block, if it is not the node itself, is that of the *)
(* epoch on the chain of its parent.                                       *)
LEMMA ParentsCheckpoint ==
    ASSUME NEW b \in Block \ {Anchor}, NEW e, ~(Slot[b] <= EpochStart(e)), NEW t
    PROVE  IsCheckpointBlock(t, b, e) <=> IsCheckpointBlock(t, Parent[b], e)
<1>1. Chain[Parent[b]] \subseteq Chain[b] /\ Chain[b] \subseteq {b} \cup Chain[Parent[b]]
  BY ChainFacts
<1> QED
  BY <1>1 DEF IsCheckpointBlock

(* insert computes the target of a new node from its parent's.             *)
LEMMA TargetOfNewNode ==
    ASSUME NEW S, Sound(S), Targeted(S), NEW b \in Block \ {Anchor}, Parent[b] \in S.nodeByRoot
    PROVE  LET t == TargetOf(S, b)
               e == Epoch(Slot[b])
           IN  \/ IsCheckpointBlock(t, b, e)
               \/ /\ t = ZeroHash
                  /\ \A u \in S.nodeByRoot \cup {b} : ~IsCheckpointBlock(u, b, e)
<1> DEFINE p == Parent[b]
           e == Epoch(Slot[b])
           start == EpochStart(e)
<1>1. /\ p \in Block /\ Slot[b] \in Nat /\ Slot[p] \in Nat /\ Slot[p] < Slot[b]
      /\ start \in Nat
  BY BlocksFormATree, ConstantTypes, EpochFacts
<1>2. Slot[b] = start + SinceEpochStarts(Slot[b]) /\ SinceEpochStarts(Slot[b]) \in Nat
  BY <1>1, EpochFacts
<1>3. \A x \in Block : Slot[x] \in Nat
  BY ConstantTypes
<1>4. CASE SinceEpochStarts(Slot[b]) = 0
  <2>0. Epoch(Slot[b]) # Epoch(Slot[p])
    <3>1. Slot[p] = EpochStart(Epoch(Slot[p])) + SinceEpochStarts(Slot[p])
          /\ SinceEpochStarts(Slot[p]) \in Nat
      BY <1>1, EpochFacts
    <3> QED
      BY <1>1, <1>2, <1>4, <3>1, SMT, SMTT(20)
  <2>1. TargetOf(S, b) = b
    BY <1>4, <2>0 DEF TargetOf
  <2>2. Slot[b] <= start /\ b \in Chain[b]
    BY <1>1, <1>2, <1>4, ChainFacts, SMT, SMTT(20)
  <2>3. \A c \in Chain[b] : Slot[c] <= Slot[b]
    BY <1>1, <1>3, ChainFacts, SMT, SMTT(20)
  <2> QED
    BY <2>1, <2>2, <2>3 DEF IsCheckpointBlock
<1>5. CASE SinceEpochStarts(Slot[b]) # 0
  <2>1. ~(Slot[b] <= start)
    BY <1>1, <1>2, <1>5, SMT, SMTT(20)
  <2>2. \A u : IsCheckpointBlock(u, b, e) <=> IsCheckpointBlock(u, p, e)
    BY <2>1, ParentsCheckpoint
  <2>3. CASE e = Epoch(Slot[p])
    <3>1. TargetOf(S, b) = S.target[p]
      BY <1>5, <2>3 DEF TargetOf
    <3>2. HasTarget(S, p)
      BY DEF Targeted
    <3>3. ~IsCheckpointBlock(b, b, e)
      BY <2>1 DEF IsCheckpointBlock
    <3> QED
      BY <2>2, <2>3, <3>1, <3>2, <3>3 DEF HasTarget
  <2>4. CASE e # Epoch(Slot[p])
    <3>1. TargetOf(S, b) = p
      BY <1>5, <2>4 DEF TargetOf
    <3>2. Slot[p] < start
      BY <1>1, <2>4, EpochOrder, SMT, SMTT(20)
    <3>3. Slot[p] <= start /\ p \in Chain[p] /\ \A c \in Chain[p] : Slot[c] <= Slot[p]
      BY <1>1, <1>3, <3>2, ChainFacts, SMT, SMTT(20)
    <3>4. IsCheckpointBlock(p, p, e)
      BY <3>3 DEF IsCheckpointBlock
    <3> QED
      BY <2>2, <3>1, <3>4
  <2> QED
    BY <2>3, <2>4
<1> QED
  BY <1>4, <1>5

(* A new node cannot be a checkpoint block that an older one misses.       *)
LEMMA InsertTargeted ==
    ASSUME NEW S, Sound(S), Targeted(S), NEW b \in Block \ {Anchor},
           NEW je \in Nat, NEW fe \in Nat
    PROVE  Targeted(Insert(S, b, je, fe))
<1> DEFINE T == Insert(S, b, je, fe)
<1>1. CASE b \in S.nodeByRoot \/ InsertFails(S, b)
  BY <1>1 DEF Insert
<1>2. CASE b \notin S.nodeByRoot /\ ~InsertFails(S, b)
  <2>1. S \in Store /\ Parent[b] \in S.nodeByRoot /\ S.nodeByRoot \subseteq Block
    BY <1>2 DEF InsertFails, Sound, Store
  <2>2. InsertedToo(S, b, je, T) /\ Inserted(S, b, fe, T)
    BY <1>2, <2>1, InsertRest, InsertFields
  <2> HIDE DEF T
  <2>3. /\ T.nodeByRoot = S.nodeByRoot \cup {b}
        /\ T.target[b] = TargetOf(S, b)
        /\ \A x \in Block \ {b} : T.target[x] = S.target[x]
    BY <2>1, <2>2, SMT, SMTT(20) DEF InsertedToo, Inserted, Store
  <2>4. HasTarget(T, b)
    BY <2>1, <2>3, TargetOfNewNode, SMT, SMTT(20) DEF HasTarget
  <2>5. ASSUME NEW n \in S.nodeByRoot
        PROVE  HasTarget(T, n)
    <3>1. b \notin Chain[n]
      <4>1. S.treeRootNode \in Chain[b]
        BY <2>1, ChainFacts DEF Sound, Linked
      <4> QED
        BY <1>2, <4>1, AncestorsKnown
    <3>2. HasTarget(S, n) /\ n \in Block /\ n # b
      BY <1>2, <2>1 DEF Targeted
    <3>3. T.target[n] = S.target[n] /\ ~IsCheckpointBlock(b, n, Epoch(Slot[n]))
      BY <2>3, <3>1, <3>2 DEF IsCheckpointBlock
    <3> QED
      BY <2>3, <3>2, <3>3 DEF HasTarget
  <2> QED
    BY <2>3, <2>4, <2>5 DEF Targeted, T
<1> QED
  BY <1>1, <1>2

(* prune makes the target of the new root nil unless it is the root        *)
(* itself: every other checkpoint block of its epoch is gone.              *)
LEMMA PruneTargeted ==
    ASSUME NEW S, Sound(S), Targeted(S)
    PROVE  Targeted(Prune(S))
<1> DEFINE fin == S.finalizedCheckpoint.root
           T == Prune(S)
<1>1. CASE PruneFails(S) \/ S.parent[fin] = ZeroHash
  BY <1>1 DEF Prune
<1>2. CASE ~PruneFails(S) /\ S.parent[fin] # ZeroHash
  <2>1. S \in Store /\ fin \in S.nodeByRoot /\ fin \in Block
    BY <1>2 DEF Sound, PruneFails, Store
  <2>2. /\ T.nodeByRoot \subseteq S.nodeByRoot
        /\ T.treeRootNode = fin
    BY <1>2, <2>1 DEF Prune, Store
  <2>3. /\ \A x \in Block \ {fin} : T.target[x] = S.target[x]
        /\ S.target[fin] = fin => T.target[fin] = fin
        /\ S.target[fin] # fin => T.target[fin] = ZeroHash
    BY <1>2, <2>1 DEF Prune, Store
  <2>4. Sound(T)
    BY PruneSound
  <2> HIDE DEF T
  <2>5. ASSUME NEW n \in T.nodeByRoot, n # fin
        PROVE  HasTarget(T, n)
    <3>1. n \in Block /\ n \in S.nodeByRoot
      BY <2>1, <2>2 DEF Store
    <3>2. HasTarget(S, n) /\ T.target[n] = S.target[n]
      BY <2>3, <2>5, <3>1 DEF Targeted
    <3> QED
      BY <2>2, <3>2 DEF HasTarget
  <2>6. HasTarget(T, fin)
    <3> DEFINE e == Epoch(Slot[fin])
    <3>1. HasTarget(S, fin)
      BY <2>1 DEF Targeted
    <3>2. CASE S.target[fin] = fin
      <4>1. fin # ZeroHash
        BY <2>1, ConstantTypes DEF ZeroHash
      <4> QED
        BY <2>3, <3>1, <3>2, <4>1 DEF HasTarget
    <3>3. CASE S.target[fin] # fin
      <4>1. ~IsCheckpointBlock(fin, fin, e)
        <5>1. CASE IsCheckpointBlock(S.target[fin], fin, e)
          <6> DEFINE t == S.target[fin]
          <6>1. t \in Chain[fin] /\ (Slot[fin] <= EpochStart(e) => Slot[fin] <= Slot[t])
            BY <2>1, <5>1, ChainFacts DEF IsCheckpointBlock
          <6>2. Slot[t] < Slot[fin] /\ Slot[t] \in Nat /\ Slot[fin] \in Nat
            BY <2>1, <3>3, <6>1, ChainFacts, ConstantTypes
          <6> QED
            BY <6>1, <6>2, SMT, SMTT(20) DEF IsCheckpointBlock
        <5>2. CASE ~IsCheckpointBlock(S.target[fin], fin, e)
          BY <2>1, <3>1, <5>2 DEF HasTarget
        <5> QED
          BY <5>1, <5>2
      <4>2. ASSUME NEW t \in T.nodeByRoot, IsCheckpointBlock(t, fin, e)
            PROVE  FALSE
        <5>1. t \in Block /\ t \in Chain[fin] /\ fin \in Chain[t]
          BY <2>1, <2>2, <2>4, <4>2 DEF IsCheckpointBlock, Sound, Linked, Store
        <5>2. t = fin
          BY <2>1, <5>1, ChainAntisymmetric
        <5> QED
          BY <4>1, <4>2, <5>2
      <4> QED
        BY <2>3, <3>3, <4>2 DEF HasTarget
    <3> QED
      BY <3>2, <3>3
  <2> QED
    BY <2>5, <2>6 DEF Targeted, T
<1> QED
  BY <1>1, <1>2

(* updateCheckpoints changes targets in prune only.                        *)
LEMMA UpdateTargeted ==
    ASSUME NEW S, Sound(S), Targeted(S), NEW jc \in Checkpoint, NEW fc \in Checkpoint, NEW ok
    PROVE  Targeted(UpdateCheckpoints(S, jc, fc, ok))
<1> DEFINE J == SetJustified(S, jc)
           F == [J EXCEPT !.finalizedCheckpoint = fc]
<1>1. J \in Store /\ SameTree(S, J) /\ J.target = S.target
  BY DEF SetJustified, SameTree, Store, Sound
<1> HIDE DEF J
<1>2. F \in Store /\ SameTree(S, F) /\ F.target = S.target
  BY <1>1 DEF SameTree, Store
<1>3. UpdateCheckpoints(S, jc, fc, ok) \in {J, Prune(F)}
  BY DEF UpdateCheckpoints, J, F
<1> HIDE DEF F
<1>4. Sound(F) /\ Targeted(J) /\ Targeted(F)
  BY <1>1, <1>2, SameTreeSound, FewerNodesTargeted DEF SameTree, FewerNodes
<1> QED
  BY <1>3, <1>4, PruneTargeted

(* removeNode changes no target.                                           *)
LEMMA RemoveNodeTargeted ==
    ASSUME NEW S, Sound(S), Targeted(S), NEW n
    PROVE  Targeted(RemoveNode(S, n))
<1>1. FewerNodes(S, RemoveNode(S, n))
  BY DEF RemoveNode, FewerNodes, Sound, Store
<1> QED
  BY <1>1, FewerNodesTargeted

(* Nor does marking nodes as validated ...                                 *)
LEMMA ValidTargeted ==
    ASSUME NEW S, Sound(S), Targeted(S), NEW n
    PROVE  Targeted(SetOptimisticToValid(S, n))
<1>1. FewerNodes(S, SetOptimisticToValid(S, n))
  BY DEF SetOptimisticToValid, FewerNodes, Sound, Store
<1> QED
  BY <1>1, FewerNodesTargeted

(* ... or the answer that a payload is invalid.                            *)
LEMMA InvalidTargeted ==
    ASSUME NEW S, Sound(S), Targeted(S), NEW b, NEW lvh
    PROVE  Targeted(SetOptimisticToInvalid(S, b, lvh))
<1>1. SetOptimisticToInvalid(S, b, lvh) = S \/ \E n : SetOptimisticToInvalid(S, b, lvh) = RemoveNode(S, n)
  BY DEF SetOptimisticToInvalid
<1> QED
  BY <1>1, RemoveNodeTargeted

(* InsertNode, with or without success.                                    *)
LEMMA InsertNodeTargeted ==
    ASSUME NEW S, Sound(S), Targeted(S), NEW b \in Block \ {Anchor}, NEW ok
    PROVE  Targeted(InsertNode(S, b, ok))
<1> DEFINE I == Insert(S, b, JC[b].epoch, FC[b].epoch)
           P == PullTips(I, b)
           c == NodeCheckpoints(I, b)
           U == UpdateCheckpoints(P, c.jc, c.fc, ok)
<1>1. JC[b].epoch \in Nat /\ FC[b].epoch \in Nat
  BY CheckpointTypes DEF Checkpoint
<1>2. Sound(I) /\ Targeted(I) /\ I \in Store
  BY <1>1, InsertSound, InsertTargeted DEF Sound
<1>3. c.jc \in Checkpoint /\ c.fc \in Checkpoint
  BY CheckpointTypes DEF NodeCheckpoints
<1>4. InsertNode(S, b, ok) \in {S, U, RemoveNode(U, b)}
  BY DEF InsertNode
<1> HIDE DEF I, c
<1>5. OnlyPulled(I, P) /\ P.target = I.target
  BY <1>2, PullTipsFrame, PullTipsRest
<1>6. Sound(P) /\ FewerNodes(I, P)
  BY <1>2, <1>5, SameTreeSound DEF OnlyPulled, SameTree, FewerNodes
<1>7. Sound(U) /\ Targeted(U)
  BY <1>2, <1>3, <1>6, FewerNodesTargeted, UpdateCheckpointsSound, UpdateTargeted
<1> HIDE DEF U
<1> QED
  BY <1>4, <1>7, RemoveNodeTargeted

(* InsertChain, for one block of a batch.                                  *)
LEMMA InsertChainTargeted ==
    ASSUME NEW S, Sound(S), Targeted(S), NEW b \in Block \ {Anchor}, NEW ok
    PROVE  Targeted(InsertChain(S, b, ok))
<1>1. JC[b].epoch \in Nat /\ FC[b].epoch \in Nat /\ JC[b] \in Checkpoint /\ FC[b] \in Checkpoint
  BY CheckpointTypes DEF Checkpoint
<1> QED
  BY <1>1, InsertSound, InsertTargeted, UpdateTargeted DEF InsertChain

(* Realizing the epochs leaves the targets to prune.                       *)
LEMMA NewSlotTargeted ==
    ASSUME NEW S, Sound(S), Targeted(S), NEW s, NEW done, NEW n
    PROVE  /\ Targeted(NewSlot(S, s))
           /\ Targeted(NewSlotFailing(S, done, n))
<1> DEFINE C == ClearBoost(S)
           U == UpdateUnrealizedCheckpoints(C)
           F == UpdateUnrealizedCheckpointsFailing(C, done, n)
<1>1. C \in Store /\ SameTree(S, C) /\ C.target = S.target
  BY DEF ClearBoost, Sound, Store, SameTree, Root
<1>2. Sound(C)
  BY <1>1, SameTreeSound
<1> HIDE DEF C
<1>3. /\ U \in Store /\ SameTree(C, U) /\ U.target = C.target
      /\ SameTree(C, F) /\ F.target = C.target
  BY <1>1, UpdateUnrealizedTurns, SMT, SMTT(20) DEF Turned
<1>4. NewSlotFailing(S, done, n) = F
  BY DEF NewSlotFailing, C
<1> HIDE DEF U, F
<1>5. Targeted(C) /\ Targeted(U) /\ Targeted(F)
  BY <1>1, <1>3, FewerNodesTargeted DEF SameTree, FewerNodes
<1>6. Sound(U)
  BY <1>2, <1>3, SameTreeSound
<1>7. NewSlot(S, s) \in {C, Prune(U)}
  BY DEF NewSlot, C, U
<1> QED
  BY <1>4, <1>5, <1>6, <1>7, PruneTargeted

TargetInv == IInv /\ Targeted(store)

(* Every step keeps the targets right.                                     *)
LEMMA NextTargetInv ==
    TargetInv /\ [Next]_vars => TargetInv'
<1> SUFFICES ASSUME TargetInv, [Next]_vars
             PROVE  Targeted(store')
  BY NextIInv DEF TargetInv
<1>1. Sound(store) /\ Targeted(store)
  BY DEF TargetInv, IInv
<1>2. CASE UNCHANGED store
  BY <1>1, <1>2
<1>3. CASE OnTick
  BY <1>1, <1>3, NewSlotTargeted DEF OnTick
<1>4. CASE OnTickFailing
  BY <1>1, <1>4, NewSlotTargeted DEF OnTickFailing
<1>5. ASSUME NEW i \in importing, NEW ok \in BalancesOutcomes, FinishImport(i, ok)
      PROVE  Targeted(store')
  <2> DEFINE T == InsertNode(store, i.block, ok)
  <2>1. i.block \in Block \ {Anchor}
    BY DEF TargetInv, IInv, Waiting
  <2>2. store' = T \/ store' = SetOptimisticToValid(T, i.block)
    BY <1>5 DEF FinishImport
  <2>3. Sound(T) /\ Targeted(T)
    BY <1>1, <2>1, InsertNodeSound, InsertNodeTargeted
  <2> HIDE DEF T
  <2> QED
    BY <2>2, <2>3, ValidTargeted
<1>6. ASSUME NEW b \in Block \ {Anchor}, NEW valid \in BOOLEAN, NEW ok \in BalancesOutcomes,
             ImportBatch(b, valid, ok)
      PROVE  Targeted(store')
  <2> DEFINE T == InsertChain(store, b, ok)
  <2>1. store' = T \/ store' = SetOptimisticToValid(T, b)
    BY <1>6 DEF ImportBatch
  <2>2. Sound(T) /\ Targeted(T)
    BY <1>1, InsertChainSound, InsertChainTargeted
  <2> HIDE DEF T
  <2> QED
    BY <2>1, <2>2, ValidTargeted
<1>7. ASSUME NEW n \in Block, PayloadValid(n)
      PROVE  Targeted(store')
  BY <1>1, <1>7, ValidTargeted DEF PayloadValid
<1>8. ASSUME NEW b \in Bad, NEW lvh \in LatestValidHashes(b), PayloadInvalid(b, lvh)
      PROVE  Targeted(store')
  BY <1>1, <1>8, InvalidTargeted DEF PayloadInvalid
<1> QED
  BY <1>2, <1>3, <1>4, <1>5, <1>6, <1>7, <1>8
  DEF Next, NextSlot, Deadline, StartImport, vars

(***************************************************************************)
(* The target of every node is the checkpoint block of its epoch, or nil   *)
(* when that is older than the tree: insert takes it from the parent and   *)
(* prune cuts it off, for every tree of blocks and every order of calls.   *)
(***************************************************************************)
THEOREM TargetsStayRight ==
    Spec => []TargetsAreCheckpoints
<1>1. Init => TargetInv
  <2> SUFFICES ASSUME Init PROVE Targeted(store)
    BY InitIInv DEF TargetInv
  <2> DEFINE s == Slot[Anchor]
             e == Epoch(s)
  <2>1. store.nodeByRoot = {Anchor} /\ Anchor \in Block
        /\ store.target[Anchor] = IF SinceEpochStarts(s) = 0 THEN Anchor ELSE ZeroHash
    BY ConstantTypes, SMT, SMTT(20) DEF Init, InitStore
  <2>2. s \in Nat /\ s = EpochStart(e) + SinceEpochStarts(s)
        /\ SinceEpochStarts(s) \in Nat /\ EpochStart(e) \in Nat
    BY ConstantTypes, EpochFacts
  <2>3. CASE SinceEpochStarts(s) = 0
    <3>1. s <= EpochStart(e) /\ Anchor \in Chain[Anchor]
      BY <2>1, <2>2, <2>3, ChainFacts, SMT, SMTT(20)
    <3>2. \A c \in Chain[Anchor] : Slot[c] \in Nat /\ (c # Anchor => Slot[c] < s)
      BY <2>1, ChainFacts, ConstantTypes
    <3>3. \A c \in Chain[Anchor] : Slot[c] <= s
      BY <2>2, <3>2, SMT, SMTT(20)
    <3> QED
      BY <2>1, <2>3, <3>1, <3>3 DEF Targeted, HasTarget, IsCheckpointBlock
  <2>4. CASE SinceEpochStarts(s) # 0
    <3>1. ~(s <= EpochStart(e))
      BY <2>2, <2>4, SMT, SMTT(20)
    <3> QED
      BY <2>1, <2>4, <3>1 DEF Targeted, HasTarget, IsCheckpointBlock
  <2> QED
    BY <2>3, <2>4
<1>2. TargetInv => TargetsAreCheckpoints
  BY DEF TargetInv, Targeted, HasTarget, TargetsAreCheckpoints
<1> QED
  BY <1>1, <1>2, NextTargetInv, PTL DEF Spec

-----------------------------------------------------------------------------
(* The early exits of pullTips *)

(* The unrealized justified epoch of a node lies between the justified     *)
(* epoch of its state and the one epoch processing would give: the first   *)
(* after a batch import, the second after InsertNode.                      *)
Between(S, n) ==
    /\ JC[n].epoch <= S.unrealizedJustifiedEpoch[n]
    /\ S.unrealizedJustifiedEpoch[n] <= UJ[n].epoch

AllBetween(S) == \A n \in S.nodeByRoot : Between(S, n)

(***************************************************************************)
(* A block cannot have justified more than its parent where pullTips exits *)
(* early: a block of at most one slot ahead of the clock has at most the   *)
(* epoch of the clock justified, and the current epoch only after two      *)
(* thirds of its slots.                                                    *)
(***************************************************************************)
LEMMA EarlyExitAgrees ==
    ASSUME NEW S \in Store, slot \in Nat, NEW b \in Block \ {Anchor},
           S.parent[b] = Parent[b], Between(S, Parent[b]), Slot[b] <= slot + 1,
           ExitsEarly(S, b)
    PROVE  S.unrealizedJustifiedEpoch[Parent[b]] = UJ[b].epoch
<1> DEFINE p == Parent[b]
           N == SLOTS_PER_EPOCH
           u == S.unrealizedJustifiedEpoch[p]
           E == Epoch(Slot[b])
           C == Epoch(slot)
<1>1. /\ p \in Block /\ Slot[b] \in Nat /\ Slot[p] \in Nat /\ Slot[p] < Slot[b]
      /\ N \in Nat \ {0}
  BY BlocksFormATree, ConstantTypes
<1>2. /\ JC[b].epoch \in Nat /\ UJ[b].epoch \in Nat
      /\ JC[p].epoch \in Nat /\ UJ[p].epoch \in Nat /\ u \in Nat
  BY <1>1, CheckpointTypes DEF Checkpoint, Store
<1>3. /\ E \in Nat /\ C \in Nat /\ Epoch(Slot[p]) \in Nat /\ Epoch(Slot[p]) <= E
      /\ SinceEpochStarts(Slot[b]) \in Nat
  <2>1. Slot[p] <= Slot[b]
    BY <1>1, SMT, SMTT(20)
  <2> QED
    BY <1>1, <2>1, EpochFacts, EpochOrder
<1>4. /\ E # Epoch(Slot[p]) => JC[b].epoch = UJ[p].epoch
      /\ E = Epoch(Slot[p]) => JC[b].epoch = JC[p].epoch /\ UJ[b].epoch >= UJ[p].epoch
      /\ JC[b].epoch <= UJ[b].epoch /\ UJ[b].epoch <= E
      /\ UJ[p].epoch <= Epoch(Slot[p])
      /\ UJ[b].epoch = E /\ JC[b].epoch < UJ[b].epoch => SinceEpochStarts(Slot[b]) * 3 >= N * 2
  BY <1>1, CheckpointsOfTheState
<1> HIDE DEF u, E, C
<1>5. u <= UJ[b].epoch /\ JC[p].epoch <= u
  <2>1. u <= UJ[p].epoch /\ JC[p].epoch <= u
    BY DEF Between, u
  <2> QED
    BY <1>2, <1>3, <1>4, <2>1, SMT, SMTT(20)
<1>6. CASE u = C
  <2>1. UJ[b].epoch <= C
    <3>1. CASE Slot[b] <= slot
      <4>1. E <= C
        BY <1>1, <3>1, EpochOrder DEF E, C
      <4> QED
        BY <1>2, <1>3, <1>4, <4>1, SMT, SMTT(20)
    <3>2. CASE Slot[b] = slot + 1
      <4>1. C <= E /\ (C # E => slot < EpochStart(E))
        BY <1>1, <3>2, EpochOrder, SMT, SMTT(20) DEF E, C
      <4>2. CASE C = E
        BY <1>2, <1>3, <1>4, <4>2
      <4>3. CASE C # E
        <5>1. /\ Slot[b] = EpochStart(E) + SinceEpochStarts(Slot[b])
              /\ EpochStart(E) \in Nat
          BY <1>1, EpochFacts DEF E
        <5>2. SinceEpochStarts(Slot[b]) = 0 /\ Slot[b] = EpochStart(E)
          BY <1>3, <3>2, <4>1, <4>3, <5>1, SMT, SMTT(20)
        <5>3. E # Epoch(Slot[p])
          <6>1. Slot[p] >= EpochStart(Epoch(Slot[p]))
            <7> DEFINE q == Slot[p]
            <7>1. /\ q = EpochStart(Epoch(q)) + SinceEpochStarts(q)
                  /\ EpochStart(Epoch(q)) \in Nat /\ SinceEpochStarts(q) \in Nat
              BY <1>1, EpochFacts
            <7> QED
              BY <7>1, SMT, SMTT(20)
          <6> QED
            BY <1>1, <5>1, <5>2, <6>1, SMT, SMTT(20)
        <5>4. JC[b].epoch < E
          BY <1>2, <1>3, <1>4, <5>3, SMT, SMTT(20)
        <5>5. UJ[b].epoch # E
          BY <1>1, <1>4, <5>2, <5>4, SMT, SMTT(20)
        <5>6. E = C + 1
          <6>1. slot >= EpochStart(C) /\ slot < EpochStart(C) + N /\ EpochStart(C) \in Nat
            <7>1. /\ slot = EpochStart(C) + SinceEpochStarts(slot) /\ SinceEpochStarts(slot) < N
                  /\ EpochStart(C) \in Nat /\ SinceEpochStarts(slot) \in Nat
              BY EpochFacts DEF C
            <7> QED
              BY <1>1, <7>1, SMT, SMTT(20)
          <6>2. C * N + N = (C + 1) * N /\ E >= C + 1
            BY <1>1, <1>3, <4>1, <4>3, SMT, SMTT(20)
          <6>3. EpochStart(E) <= (C + 1) * N
            BY <1>1, <3>2, <5>2, <6>1, <6>2, SMT, SMTT(20) DEF EpochStart
          <6>4. ASSUME E >= C + 2 PROVE FALSE
            <7>1. E * N >= (C + 2) * N
              BY <1>1, <1>3, <6>4, SMT, SMTT(20)
            <7>2. (C + 2) * N = (C + 1) * N + N
              BY <1>1, <1>3, SMT, SMTT(20)
            <7> QED
              BY <1>1, <1>3, <6>3, <7>1, <7>2, SMT, SMTT(20) DEF EpochStart
          <6> QED
            BY <1>3, <6>2, <6>4, SMT, SMTT(20)
        <5> QED
          BY <1>2, <1>3, <1>4, <5>5, <5>6, SMT, SMTT(20)
      <4> QED
        BY <4>2, <4>3
    <3> QED
      BY <1>1, <3>1, <3>2, SMT, SMTT(20)
  <2> QED
    BY <1>2, <1>3, <1>5, <1>6, <2>1, SMT, SMTT(20) DEF u
<1>7. CASE E = C /\ u + 1 = C /\ SinceEpochStarts(Slot[b]) * 3 < N * 2
  <2>1. JC[b].epoch < E
    BY <1>2, <1>3, <1>4, <1>5, <1>7, SMT, SMTT(20)
  <2>2. UJ[b].epoch # E
    BY <1>1, <1>3, <1>4, <1>7, <2>1, SMT, SMTT(20)
  <2> QED
    BY <1>2, <1>3, <1>4, <1>5, <1>7, <2>2, SMT, SMTT(20) DEF u
<1>8. u = C \/ (E = C /\ u + 1 = C /\ SinceEpochStarts(Slot[b]) * 3 < N * 2)
  BY DEF ExitsEarly, u, E, C
<1> QED
  BY <1>6, <1>7, <1>8 DEF u

(* Such a step keeps the bounds on unrealized justified epochs.            *)
LEMMA KeepsEpochsBetween ==
    ASSUME NEW S, AllBetween(S), NEW T, KeepsEpochs(S, T)
    PROVE  AllBetween(T)
  BY DEF AllBetween, Between, KeepsEpochs

(* updateCheckpoints.                                                      *)
LEMMA UpdateKeepsEpochs ==
    ASSUME NEW S \in Store, NEW jc \in Checkpoint, NEW fc \in Checkpoint, NEW ok
    PROVE  KeepsEpochs(S, UpdateCheckpoints(S, jc, fc, ok))
<1> DEFINE J == SetJustified(S, jc)
           F == [J EXCEPT !.finalizedCheckpoint = fc]
<1>1. J \in Store /\ KeepsEpochs(S, J)
  BY DEF SetJustified, KeepsEpochs, Store
<1> HIDE DEF J
<1>2. F \in Store /\ KeepsEpochs(J, F)
  BY <1>1 DEF KeepsEpochs, Store
<1>3. UpdateCheckpoints(S, jc, fc, ok) \in {J, Prune(F)}
  BY DEF UpdateCheckpoints, J, F
<1> HIDE DEF F
<1>4. KeepsEpochs(F, Prune(F))
  BY <1>2, PruneKeepsEpochs
<1> QED
  BY <1>1, <1>2, <1>3, <1>4 DEF KeepsEpochs

(* SetOptimisticToValid.                                                   *)
LEMMA ValidKeepsEpochs ==
    ASSUME NEW S \in Store, NEW n
    PROVE  KeepsEpochs(S, SetOptimisticToValid(S, n))
  BY DEF SetOptimisticToValid, KeepsEpochs, Store

(* A new node starts from the justified epoch of its state.                *)
LEMMA InsertBetween ==
    ASSUME NEW S, Sound(S), AllBetween(S), NEW b \in Block \ {Anchor}, NEW fe \in Nat
    PROVE  AllBetween(Insert(S, b, JC[b].epoch, fe))
<1> DEFINE je == JC[b].epoch
           T == Insert(S, b, je, fe)
<1>1. CASE b \in S.nodeByRoot \/ InsertFails(S, b)
  BY <1>1 DEF Insert
<1>2. CASE b \notin S.nodeByRoot /\ ~InsertFails(S, b)
  <2>1. S \in Store /\ Parent[b] \in S.nodeByRoot /\ je \in Nat
    BY <1>2, CheckpointTypes DEF InsertFails, Sound, Checkpoint
  <2>2. InsertedToo(S, b, je, T) /\ Inserted(S, b, fe, T)
    BY <1>2, <2>1, InsertRest, InsertFields
  <2>3. je <= je /\ je <= UJ[b].epoch
    BY <2>1, CheckpointsOfTheState, SMT, SMTT(20)
  <2> HIDE DEF T, je
  <2>4. /\ T.nodeByRoot = S.nodeByRoot \cup {b} /\ S.nodeByRoot \subseteq Block
        /\ T.unrealizedJustifiedEpoch[b] = je
        /\ \A x \in Block \ {b} : T.unrealizedJustifiedEpoch[x] = S.unrealizedJustifiedEpoch[x]
    BY <2>1, <2>2, SMT, SMTT(20) DEF InsertedToo, Inserted, Store
  <2>5. Between(T, b)
    BY <2>3, <2>4 DEF Between, je
  <2>6. \A n \in S.nodeByRoot : Between(T, n)
    BY <1>2, <2>4 DEF AllBetween, Between
  <2>7. AllBetween(T)
    BY <2>4, <2>5, <2>6 DEF AllBetween
  <2> QED
    BY <2>7 DEF T, je
<1> QED
  BY <1>1, <1>2

(* InsertNode gives the node what its own state says, early exit or not.   *)
LEMMA InsertNodeExact ==
    ASSUME NEW S, Sound(S), AllBetween(S), slot \in Nat, NEW b \in Block \ {Anchor},
           Slot[b] <= slot + 1, NEW ok
    PROVE  /\ AllBetween(InsertNode(S, b, ok))
           /\ InsertNode(S, b, ok).nodeByRoot \subseteq S.nodeByRoot \cup {b}
           /\ b \in InsertNode(S, b, ok).nodeByRoot \ S.nodeByRoot =>
                  InsertNode(S, b, ok).unrealizedJustifiedEpoch[b] = UJ[b].epoch
<1> DEFINE I == Insert(S, b, JC[b].epoch, FC[b].epoch)
           P == PullTips(I, b)
           c == NodeCheckpoints(I, b)
           U == UpdateCheckpoints(P, c.jc, c.fc, ok)
           T == InsertNode(S, b, ok)
<1>1. JC[b].epoch \in Nat /\ FC[b].epoch \in Nat /\ UJ[b].epoch \in Nat
  BY CheckpointTypes DEF Checkpoint
<1>2. Sound(I) /\ AllBetween(I) /\ I \in Store
  BY <1>1, InsertSound, InsertBetween DEF Sound
<1>3. c.jc \in Checkpoint /\ c.fc \in Checkpoint
  BY CheckpointTypes DEF NodeCheckpoints
<1>4. CASE InsertFails(S, b)
  BY <1>4 DEF InsertNode
<1>5. CASE ~InsertFails(S, b)
  <2>1. /\ I.nodeByRoot = S.nodeByRoot \cup {b}
        /\ b \notin S.nodeByRoot => I.parent[b] = Parent[b] /\ Parent[b] # ZeroHash
    <3>1. CASE b \in S.nodeByRoot
      BY <3>1 DEF Insert
    <3>2. CASE b \notin S.nodeByRoot
      <4>1. S \in Store /\ Parent[b] \in S.nodeByRoot
        BY <1>5, <3>2 DEF Sound, InsertFails
      <4>2. Inserted(S, b, FC[b].epoch, I)
        BY <1>1, <3>2, <4>1, InsertFields, Zenon, ZenonT(20)
      <4>3. Parent[b] # ZeroHash
        BY <4>1, ConstantTypes DEF Store, ZeroHash
      <4> QED
        BY <4>2, <4>3 DEF Inserted
    <3> QED
      BY <3>1, <3>2
  <2>2. T \in {U, RemoveNode(U, b)}
    BY <1>5 DEF InsertNode
  <2> HIDE DEF I, c
  <2>3. P \in Store /\ SameTree(I, P)
    BY <1>2, PullTipsFrame DEF OnlyPulled
  <2>4. ASSUME I.parent[b] # ZeroHash
        PROVE  P.unrealizedJustifiedEpoch = [I.unrealizedJustifiedEpoch EXCEPT ![b] = UJ[b].epoch]
    <3>1. CASE ~ExitsEarly(I, b)
      BY <1>2, <2>4, <3>1, PullTipsFields DEF PulledFully
    <3>2. CASE ExitsEarly(I, b)
      <4>1. b \in I.nodeByRoot \ {I.treeRootNode}
        BY <1>2, <2>1, <2>4 DEF Sound, Linked
      <4>2. I.parent[b] = Parent[b] /\ Parent[b] \in I.nodeByRoot
        BY <1>2, <4>1 DEF Sound, Linked
      <4>3. I.unrealizedJustifiedEpoch[Parent[b]] = UJ[b].epoch
        BY <1>2, <3>2, <4>2, EarlyExitAgrees DEF AllBetween
      <4>4. PulledEarly(I, b, P)
        BY <1>2, <2>4, <3>2, PullTipsFields
      <4> QED
        BY <4>2, <4>3, <4>4 DEF PulledEarly
    <3> QED
      BY <3>1, <3>2
  <2>5. /\ AllBetween(P)
        /\ b \notin S.nodeByRoot => P.unrealizedJustifiedEpoch[b] = UJ[b].epoch
    <3>1. CASE I.parent[b] = ZeroHash
      BY <1>2, <2>1, <3>1, PullTipsFields
    <3>2. CASE I.parent[b] # ZeroHash
      <4>1. /\ P.unrealizedJustifiedEpoch[b] = UJ[b].epoch
            /\ \A n \in Block \ {b} : P.unrealizedJustifiedEpoch[n] = I.unrealizedJustifiedEpoch[n]
        BY <1>2, <2>4, <3>2 DEF Store
      <4>2. Between(P, b)
        BY <1>1, <4>1, CheckpointsOfTheState, SMT, SMTT(20) DEF Between
      <4>3. P.nodeByRoot = I.nodeByRoot /\ I.nodeByRoot \subseteq Block
        BY <1>2, <2>3 DEF SameTree, Store
      <4> QED
        BY <1>2, <4>1, <4>2, <4>3 DEF AllBetween, Between
    <3> QED
      BY <3>1, <3>2
  <2>6. P.nodeByRoot = S.nodeByRoot \cup {b}
    BY <2>1, <2>3 DEF SameTree
  <2> HIDE DEF P
  <2>7. U \in Store /\ KeepsEpochs(P, U)
    <3>1. Sound(P)
      BY <1>2, <2>3, SameTreeSound
    <3> QED
      BY <1>3, <2>3, <3>1, UpdateCheckpointsSound, UpdateKeepsEpochs DEF Sound
  <2> HIDE DEF U
  <2>8. KeepsEpochs(P, T)
    BY <2>2, <2>7, RemoveNodeKeepsEpochs DEF KeepsEpochs
  <2>9. AllBetween(T)
    BY <2>5, <2>8, KeepsEpochsBetween
  <2> HIDE DEF T
  <2>10. /\ AllBetween(T)
         /\ T.nodeByRoot \subseteq S.nodeByRoot \cup {b}
         /\ b \in T.nodeByRoot \ S.nodeByRoot => T.unrealizedJustifiedEpoch[b] = UJ[b].epoch
    BY <2>5, <2>6, <2>8, <2>9 DEF KeepsEpochs
  <2> QED
    BY <2>10 DEF T
<1> QED
  BY <1>4, <1>5

(* InsertChain pulls no tips: the new node has the epoch of its state.     *)
LEMMA InsertChainBetween ==
    ASSUME NEW S, Sound(S), AllBetween(S), NEW b \in Block \ {Anchor}, NEW ok
    PROVE  AllBetween(InsertChain(S, b, ok))
<1> DEFINE I == Insert(S, b, JC[b].epoch, FC[b].epoch)
<1>1. JC[b].epoch \in Nat /\ FC[b].epoch \in Nat /\ JC[b] \in Checkpoint /\ FC[b] \in Checkpoint
  BY CheckpointTypes DEF Checkpoint
<1>2. Sound(I) /\ AllBetween(I) /\ I \in Store
  BY <1>1, InsertSound, InsertBetween DEF Sound
<1>3. InsertChain(S, b, ok) \in {S, UpdateCheckpoints(I, JC[b], FC[b], ok)}
  BY DEF InsertChain
<1> HIDE DEF I
<1>4. AllBetween(UpdateCheckpoints(I, JC[b], FC[b], ok))
  BY <1>1, <1>2, UpdateKeepsEpochs, KeepsEpochsBetween
<1> QED
  BY <1>3, <1>4

(* A block under import was at most one slot ahead of the clock.           *)
ExactInv ==
    /\ IInv
    /\ \A i \in importing : Slot[i.block] <= slot + 1
    /\ AllBetween(store)

NewIsExact ==
    \A b \in store'.nodeByRoot \ store.nodeByRoot :
        importing' # importing => store'.unrealizedJustifiedEpoch[b] = UJ[b].epoch

(* Every step keeps the bounds, and exits early only where it may.         *)
LEMMA NextExactInv ==
    ExactInv /\ [Next]_vars => ExactInv' /\ NewIsExact
<1> SUFFICES ASSUME ExactInv, [Next]_vars
             PROVE  /\ \A i \in importing' : Slot[i.block] <= slot' + 1
                    /\ AllBetween(store')
                    /\ NewIsExact
  BY NextIInv DEF ExactInv, AllBetween, Between
<1>1. /\ Sound(store) /\ store \in Store /\ AllBetween(store) /\ slot \in Nat
      /\ \A i \in importing : i.block \in Block \ {Anchor} /\ Slot[i.block] <= slot + 1
  BY DEF ExactInv, IInv, Waiting, Sound
<1>2. ASSUME importing' \subseteq importing, slot' = slot \/ slot' = slot + 1
      PROVE  \A i \in importing' : Slot[i.block] <= slot' + 1
  <2>1. \A s \in Nat : s <= slot + 1 => s <= slot' + 1
    BY <1>1, <1>2, SMT, SMTT(20)
  <2>2. \A i \in importing' : Slot[i.block] \in Nat /\ Slot[i.block] <= slot + 1
    BY <1>1, <1>2, ConstantTypes
  <2> QED
    BY <2>1, <2>2
<1>3. ASSUME KeepsEpochs(store, store')
      PROVE  AllBetween(store') /\ NewIsExact
  BY <1>1, <1>3, KeepsEpochsBetween DEF KeepsEpochs, NewIsExact
<1>4. CASE UNCHANGED store /\ importing' = importing /\ (slot' = slot \/ slot' = slot + 1)
  BY <1>2, <1>3, <1>4 DEF KeepsEpochs
<1>5. CASE OnTick \/ OnTickFailing
  <2>1. KeepsEpochs(store, store')
    BY <1>1, <1>5, NewSlotKeepsEpochs DEF OnTick, OnTickFailing
  <2> QED
    BY <1>2, <1>3, <1>5, <2>1 DEF OnTick, OnTickFailing
<1>6. ASSUME NEW b \in Block \ {Anchor}, NEW valid \in BOOLEAN, StartImport(b, valid)
      PROVE  /\ \A i \in importing' : Slot[i.block] <= slot' + 1
             /\ AllBetween(store') /\ NewIsExact
  <2>1. Slot[b] <= slot + 1 /\ slot' = slot
    BY <1>1, <1>6, ConstantTypes, SMT, SMTT(20) DEF StartImport, InTimeWindow
  <2>2. importing' = importing \cup {[block |-> b, valid |-> valid]} /\ UNCHANGED store
    BY <1>6 DEF StartImport
  <2> QED
    BY <1>1, <1>3, <2>1, <2>2, SMT, SMTT(20) DEF KeepsEpochs
<1>7. ASSUME NEW i \in importing, NEW ok \in BalancesOutcomes, FinishImport(i, ok)
      PROVE  /\ \A j \in importing' : Slot[j.block] <= slot' + 1
             /\ AllBetween(store') /\ NewIsExact
  <2> DEFINE T == InsertNode(store, i.block, ok)
             b == i.block
  <2>1. b \in Block \ {Anchor} /\ Slot[b] <= slot + 1
    BY <1>1
  <2>2. store' = T \/ store' = SetOptimisticToValid(T, b)
    BY <1>7 DEF FinishImport
  <2>3. importing' \subseteq importing /\ slot' = slot
    BY <1>7 DEF FinishImport
  <2>4. /\ AllBetween(T)
        /\ T.nodeByRoot \subseteq store.nodeByRoot \cup {b}
        /\ b \in T.nodeByRoot \ store.nodeByRoot => T.unrealizedJustifiedEpoch[b] = UJ[b].epoch
    BY <1>1, <2>1, InsertNodeExact, SMT, SMTT(20)
  <2>5. T \in Store
    BY <1>1, <2>1, InsertNodeSound DEF Sound
  <2> HIDE DEF T
  <2>6. KeepsEpochs(T, store')
    BY <2>2, <2>5, ValidKeepsEpochs DEF KeepsEpochs
  <2>7. AllBetween(store')
    BY <2>4, <2>6, KeepsEpochsBetween
  <2>8. NewIsExact
    BY <2>4, <2>6 DEF KeepsEpochs, NewIsExact
  <2> QED
    BY <1>2, <2>3, <2>7, <2>8
<1>8. ASSUME NEW b \in Block \ {Anchor}, NEW valid \in BOOLEAN, NEW ok \in BalancesOutcomes,
             ImportBatch(b, valid, ok)
      PROVE  /\ \A i \in importing' : Slot[i.block] <= slot' + 1
             /\ AllBetween(store') /\ NewIsExact
  <2> DEFINE T == InsertChain(store, b, ok)
  <2>1. store' = T \/ store' = SetOptimisticToValid(T, b)
    BY <1>8 DEF ImportBatch
  <2>2. importing' = importing /\ slot' = slot
    BY <1>8 DEF ImportBatch
  <2>3. AllBetween(T) /\ T \in Store
    BY <1>1, InsertChainBetween, InsertChainSound DEF Sound
  <2> HIDE DEF T
  <2>4. KeepsEpochs(T, store')
    BY <2>1, <2>3, ValidKeepsEpochs DEF KeepsEpochs
  <2>5. AllBetween(store')
    BY <2>3, <2>4, KeepsEpochsBetween
  <2> QED
    BY <1>2, <2>2, <2>5 DEF NewIsExact
<1>9. ASSUME NEW n \in Block, PayloadValid(n)
      PROVE  /\ \A i \in importing' : Slot[i.block] <= slot' + 1
             /\ AllBetween(store') /\ NewIsExact
  <2>1. KeepsEpochs(store, store')
    BY <1>1, <1>9, ValidKeepsEpochs DEF PayloadValid
  <2> QED
    BY <1>2, <1>3, <1>9, <2>1 DEF PayloadValid
<1>10. ASSUME NEW b \in Bad, NEW lvh \in LatestValidHashes(b), PayloadInvalid(b, lvh)
       PROVE  /\ \A i \in importing' : Slot[i.block] <= slot' + 1
              /\ AllBetween(store') /\ NewIsExact
  <2>1. KeepsEpochs(store, store')
    BY <1>1, <1>10, InvalidKeepsEpochs DEF PayloadInvalid
  <2> QED
    BY <1>2, <1>3, <1>10, <2>1 DEF PayloadInvalid
<1> QED
  BY <1>4, <1>5, <1>6, <1>7, <1>8, <1>9, <1>10
  DEF Next, NextSlot, Deadline, vars

(***************************************************************************)
(* The early exits of pullTips are exact: a block imported by InsertNode   *)
(* gets the unrealized justified epoch that its own state gives, although  *)
(* the exits compare the epoch of the parent with the clock only.          *)
(***************************************************************************)
THEOREM EarlyExitsAreExact ==
    Spec => EarlyExitIsExact
<1>1. Init => ExactInv
  <2> SUFFICES ASSUME Init PROVE importing = {} /\ AllBetween(store)
    BY InitIInv DEF ExactInv
  <2>1. /\ importing = {} /\ store.nodeByRoot = {Anchor} /\ Anchor \in Block
        /\ store.unrealizedJustifiedEpoch[Anchor] = JC[Anchor].epoch
    BY ConstantTypes, SMT, SMTT(20) DEF Init, InitStore
  <2>2. JC[Anchor].epoch \in Nat /\ JC[Anchor].epoch <= UJ[Anchor].epoch
    BY ConstantTypes, CheckpointTypes, CheckpointsOfTheState DEF Checkpoint
  <2>3. JC[Anchor].epoch <= JC[Anchor].epoch
    BY <2>2, SMT, SMTT(20)
  <2> QED
    BY <2>1, <2>2, <2>3 DEF AllBetween, Between
<1>2. ExactInv /\ [Next]_vars => [NewIsExact]_vars
  BY NextExactInv
<1>3. EarlyExitIsExact <=> [][NewIsExact]_vars
  BY DEF EarlyExitIsExact, NewIsExact
<1> QED
  BY <1>1, <1>2, <1>3, NextExactInv, PTL DEF Spec
=============================================================================
