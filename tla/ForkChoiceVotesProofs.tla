------------------------ MODULE ForkChoiceVotesProofs ------------------------
(***************************************************************************)
(* Proofs about ForkChoiceVotes: the balance of every node is that of the  *)
(* votes counted for it, and Head returns the block that the fork choice   *)
(* of the consensus specification defines.                                 *)
(*                                                                         *)
(* The sums of the model are the fold of the library, and the two heads    *)
(* are recursive functions.  Each is given a solution, and facts about it, *)
(* by looking at a smallest counterexample: of the subsets of a finite set *)
(* one is least, of the blocks of a set one is earliest and one latest.    *)
(***************************************************************************)
EXTENDS ForkChoiceVotes, FiniteSetTheorems, WellFoundedInduction, TLAPS

\* Most leaves are first-order; the solver takes the others.
USE ZenonT(10), SMTT(20), ZenonT(30), SMTT(40)

-----------------------------------------------------------------------------
(* Sums *)

\* Of the sets in a non-empty set of finite sets, one has no other below it.
LEMMA SmallestSubset ==
  ASSUME NEW S, IsFiniteSet(S), NEW T, T \subseteq SUBSET S, T # {}
  PROVE  \E X \in T : \A Y \in T : Y \subseteq X => Y = X
<1>1. IsWellFoundedOn(StrictSubsetOrdering(S), SUBSET S)
  BY FS_StrictSubsetOrderingWellFounded, FS_FiniteSubsetsOfFinite
<1>2. PICK X \in T : \A Y \in T : ~(<<Y, X>> \in StrictSubsetOrdering(S))
  BY <1>1, WFMin
<1>3. \A Y \in T : Y \subseteq X => Y = X
  BY <1>2, Zenon, ZenonT(20) DEF StrictSubsetOrdering
<1> QED
  BY <1>3

\* Of the numbers in a non-empty set one is the least.
LEMMA SmallestNumber ==
  ASSUME NEW T, T \subseteq Nat, T # {}
  PROVE  \E n \in T : \A m \in T : n <= m
<1>1. PICK n \in T : \A m \in T : ~(<<m, n>> \in OpToRel(<, Nat))
  BY NatLessThanWellFounded, WFMin
<1>2. ASSUME NEW m \in T, m < n PROVE FALSE
  <2>1. <<m, n>> \in OpToRel(<, Nat)
    BY <1>2 DEF OpToRel
  <2> QED
    BY <1>1, <2>1
<1> QED
  BY <1>2, SMT, SMTT(20)

ChosenOf(s) == CHOOSE x \in s : TRUE

\* g has the sums of f over the subsets of S.
IsTotals(f, S, g) ==
  g = [s \in SUBSET S |-> IF s = {} THEN 0 ELSE f[ChosenOf(s)] + g[s \ {ChosenOf(s)}]]

\* The definition of the library's fold.
LEMMA TotalUnfolds ==
  ASSUME NEW f, NEW S
  PROVE  Total(f, S) = (CHOOSE g : IsTotals(f, S, g))[S]
BY DEF Total, MapThenSumSet, MapThenFoldSet, IsTotals, ChosenOf

\* What CHOOSE takes from a non-empty set is one of its members.
LEMMA ChosenIsMember ==
  ASSUME NEW s, s # {}
  PROVE  ChosenOf(s) \in s
BY DEF ChosenOf

\* The recursion has a solution: one for the sets of at most n members can be
\* extended to those of n + 1.
LEMMA TotalsExist ==
  ASSUME NEW f, NEW S, IsFiniteSet(S)
  PROVE  \E g : IsTotals(f, S, g)
<1> DEFINE Small(n) == {s \in SUBSET S : Cardinality(s) <= n}
           Solves(g, n) == g = [s \in Small(n) |->
                                  IF s = {} THEN 0 ELSE f[ChosenOf(s)] + g[s \ {ChosenOf(s)}]]
           bad == {n \in Nat : ~\E g : Solves(g, n)}
<1>1. \A s \in SUBSET S :
        /\ IsFiniteSet(s) /\ Cardinality(s) \in Nat
        /\ Cardinality(s) = 0 <=> s = {}
        /\ s # {} => /\ s \ {ChosenOf(s)} \in SUBSET S
                     /\ Cardinality(s \ {ChosenOf(s)}) = Cardinality(s) - 1
  BY FS_Subset, FS_CardinalityType, FS_EmptySet, FS_RemoveElement, ChosenIsMember, Zenon, ZenonT(20)
<1>0. \A n \in Nat : {} \in Small(n)
  BY FS_EmptySet, SMT, SMTT(20)
<1>5. bad \subseteq Nat /\ \A n \in Nat : n \notin bad <=> \E g : Solves(g, n)
  BY Zenon, ZenonT(20)
<1> HIDE DEF bad
<1>2. ASSUME bad # {} PROVE FALSE
  <2>1. PICK n \in bad : \A m \in bad : n <= m
    BY <1>2, <1>5, SmallestNumber, Zenon, ZenonT(20)
  <2>2. n # 0
    <3>1. ASSUME NEW s \in Small(0) PROVE s = {}
      <4>1. Cardinality(s) \in Nat /\ Cardinality(s) <= 0 /\ (Cardinality(s) = 0 <=> s = {})
        BY <1>1, Zenon, ZenonT(20)
      <4> QED
        BY <4>1, SMT, SMTT(20)
    <3>2. Solves([s \in Small(0) |-> 0], 0)
      BY <3>1
    <3> QED
      BY <1>5, <2>1, <3>2, Zenon, ZenonT(20)
  <2>3. n \in Nat /\ n - 1 \in Nat /\ n - 1 \notin bad
    BY <1>5, <2>1, <2>2, SMT, SMTT(20)
  <2>4. PICK g : Solves(g, n - 1)
    BY <1>5, <2>3, Zenon, ZenonT(20)
  <2> DEFINE h == [s \in Small(n) |-> IF s \in Small(n - 1) THEN g[s]
                                      ELSE f[ChosenOf(s)] + g[s \ {ChosenOf(s)}]]
  <2>5. ASSUME NEW s \in Small(n)
        PROVE  h[s] = IF s = {} THEN 0 ELSE f[ChosenOf(s)] + h[s \ {ChosenOf(s)}]
    <3>1. CASE s = {}
      <4>1. s \in Small(n - 1)
        BY <1>0, <2>3, <3>1
      <4> QED
        BY <2>4, <3>1, <4>1
    <3>2. CASE s # {}
      <4>1. s \ {ChosenOf(s)} \in Small(n - 1) /\ s \ {ChosenOf(s)} \in Small(n)
        <5>1. /\ s \ {ChosenOf(s)} \in SUBSET S /\ Cardinality(s) \in Nat /\ Cardinality(s) <= n
              /\ Cardinality(s \ {ChosenOf(s)}) = Cardinality(s) - 1
          BY <1>1, <3>2
        <5> QED
          BY <2>3, <5>1, SMT, SMTT(20)
      <4>2. h[s \ {ChosenOf(s)}] = g[s \ {ChosenOf(s)}]
        BY <4>1
      <4>3. s \in Small(n - 1) => g[s] = f[ChosenOf(s)] + g[s \ {ChosenOf(s)}]
        BY <2>4, <3>2, Zenon, ZenonT(20)
      <4> QED
        BY <3>2, <4>2, <4>3
    <3> QED
      BY <3>1, <3>2
  <2>6. Solves(h, n)
    BY <2>5, Zenon, ZenonT(20)
  <2> QED
    BY <1>5, <2>1, <2>6, Zenon, ZenonT(20)
<1>3. PICK g : Solves(g, Cardinality(S))
  BY <1>1, <1>2, <1>5, Zenon, ZenonT(20)
<1>4. Small(Cardinality(S)) = SUBSET S
  BY FS_Subset
<1> QED
  BY <1>3, <1>4, Zenon, ZenonT(20) DEF IsTotals

\* A solution for a set agrees with one for a larger set.
LEMMA TotalsAgree ==
  ASSUME NEW f, NEW S, IsFiniteSet(S), NEW X \in SUBSET S,
         NEW g, IsTotals(f, S, g), NEW h, IsTotals(f, X, h)
  PROVE  \A Y \in SUBSET X : g[Y] = h[Y]
<1> DEFINE bad == {Y \in SUBSET X : g[Y] # h[Y]}
<1>1. ASSUME bad # {} PROVE FALSE
  <2>1. PICK Y \in bad : \A Z \in bad : Z \subseteq Y => Z = Y
    <3>1. bad \subseteq SUBSET S
      OBVIOUS
    <3> HIDE DEF bad
    <3> QED
      BY <1>1, <3>1, SmallestSubset, SMT, SMTT(20)
  <2>2. g[Y] = (IF Y = {} THEN 0 ELSE f[ChosenOf(Y)] + g[Y \ {ChosenOf(Y)}])
    BY <2>1, Zenon, ZenonT(20) DEF IsTotals
  <2>3. h[Y] = (IF Y = {} THEN 0 ELSE f[ChosenOf(Y)] + h[Y \ {ChosenOf(Y)}])
    BY <2>1, Zenon, ZenonT(20) DEF IsTotals
  <2>4. Y # {} => g[Y \ {ChosenOf(Y)}] = h[Y \ {ChosenOf(Y)}]
    BY <2>1, ChosenIsMember, SMT, SMTT(20)
  <2> QED
    BY <2>1, <2>2, <2>3, <2>4
<1> QED
  BY <1>1

\* The sum is that of some member and of the rest.
LEMMA TotalOfChosen ==
  ASSUME NEW f, NEW S, IsFiniteSet(S)
  PROVE  Total(f, S) = IF S = {} THEN 0 ELSE f[ChosenOf(S)] + Total(f, S \ {ChosenOf(S)})
<1> DEFINE g == CHOOSE h : IsTotals(f, S, h)
           X == S \ {ChosenOf(S)}
           k == CHOOSE h : IsTotals(f, X, h)
<1>1. IsTotals(f, S, g) /\ Total(f, S) = g[S]
  BY TotalsExist, TotalUnfolds
<1>2. IsTotals(f, X, k) /\ Total(f, X) = k[X]
  <2>1. IsFiniteSet(X)
    BY FS_Subset
  <2> QED
    BY <2>1, TotalsExist, TotalUnfolds
<1>3. g[X] = k[X]
  BY <1>1, <1>2, TotalsAgree, SMT, SMTT(20)
<1>4. g[S] = IF S = {} THEN 0 ELSE f[ChosenOf(S)] + g[X]
  BY <1>1, Zenon, ZenonT(20) DEF IsTotals
<1> QED
  BY <1>1, <1>2, <1>3, <1>4

\* The sum over no members is zero.
LEMMA TotalOfNone == \A f : Total(f, {}) = 0
BY TotalOfChosen, FS_EmptySet

\* A sum of natural numbers is one.
LEMMA TotalIsNat ==
  ASSUME NEW f, NEW S, IsFiniteSet(S), \A x \in S : f[x] \in Nat
  PROVE  Total(f, S) \in Nat
<1> DEFINE bad == {X \in SUBSET S : Total(f, X) \notin Nat}
<1>1. ASSUME bad # {} PROVE FALSE
  <2>1. PICK X \in bad : \A Y \in bad : Y \subseteq X => Y = X
    <3>1. bad \subseteq SUBSET S
      OBVIOUS
    <3> HIDE DEF bad
    <3> QED
      BY <1>1, <3>1, SmallestSubset, SMT, SMTT(20)
  <2>2. IsFiniteSet(X)
    BY FS_Subset
  <2>3. X # {} => Total(f, X \ {ChosenOf(X)}) \in Nat /\ f[ChosenOf(X)] \in Nat
    BY <2>1, ChosenIsMember, SMT, SMTT(20)
  <2>4. Total(f, X) = IF X = {} THEN 0 ELSE f[ChosenOf(X)] + Total(f, X \ {ChosenOf(X)})
    BY <2>2, TotalOfChosen
  <2> QED
    BY <2>1, <2>3, <2>4, SMT, SMTT(20)
<1> QED
  BY <1>1

\* The sum is that of any member and of the rest, whatever the fold picks first.
LEMMA TotalWithout ==
  ASSUME NEW f, NEW S, IsFiniteSet(S), \A x \in S : f[x] \in Nat, NEW x \in S
  PROVE  Total(f, S) = f[x] + Total(f, S \ {x})
<1> DEFINE bad == {X \in SUBSET S : \E y \in X : Total(f, X) # f[y] + Total(f, X \ {y})}
<1>1. ASSUME bad # {} PROVE FALSE
  <2>1. PICK X \in bad : \A Y \in bad : Y \subseteq X => Y = X
    <3>1. bad \subseteq SUBSET S
      OBVIOUS
    <3> HIDE DEF bad
    <3> QED
      BY <1>1, <3>1, SmallestSubset, SMT, SMTT(20)
  <2>2. PICK y \in X : Total(f, X) # f[y] + Total(f, X \ {y})
    BY <2>1
  <2> DEFINE c == ChosenOf(X)
             Z == X \ {c, y}
  <2>3. c \in X
    BY <2>2, ChosenIsMember
  <2>4. /\ IsFiniteSet(X) /\ IsFiniteSet(X \ {c}) /\ IsFiniteSet(X \ {y}) /\ IsFiniteSet(Z)
    BY FS_Subset
  <2>5. Total(f, X) = f[c] + Total(f, X \ {c})
    BY <2>3, <2>4, TotalOfChosen
  <2>6. c # y
    BY <2>2, <2>5
  <2>7. Total(f, X \ {c}) = f[y] + Total(f, Z)
    <3>1. X \ {c} \notin bad /\ y \in X \ {c} /\ (X \ {c}) \ {y} = Z
      BY <2>1, <2>2, <2>3, <2>6, Zenon, ZenonT(20)
    <3> QED
      BY <3>1, Zenon, ZenonT(20)
  <2>8. Total(f, X \ {y}) = f[c] + Total(f, Z)
    <3>1. X \ {y} \notin bad /\ c \in X \ {y} /\ (X \ {y}) \ {c} = Z
      BY <2>1, <2>2, <2>3, <2>6
    <3> QED
      BY <3>1, Zenon, ZenonT(20)
  <2>9. f[c] \in Nat /\ f[y] \in Nat /\ Total(f, Z) \in Nat
    <3>1. Z \subseteq S
      OBVIOUS
    <3> QED
      BY <2>2, <2>3, <2>4, <3>1, TotalIsNat
  <2> HIDE DEF bad, c, Z
  <2> QED
    BY <2>2, <2>5, <2>7, <2>8, <2>9, SMT, SMTT(20)
<1> QED
  BY <1>1, Zenon, ZenonT(20)

\* One more member adds its value.
LEMMA TotalWith ==
  ASSUME NEW f, NEW S, IsFiniteSet(S), NEW x, x \notin S, \A y \in S \cup {x} : f[y] \in Nat
  PROVE  Total(f, S \cup {x}) = f[x] + Total(f, S)
<1>1. IsFiniteSet(S \cup {x}) /\ (S \cup {x}) \ {x} = S
  BY FS_AddElement
<1> QED
  BY <1>1, TotalWithout, SMT, SMTT(20)

\* The sum depends on the values of the members only.
LEMMA TotalSame ==
  ASSUME NEW f, NEW g, NEW S, IsFiniteSet(S), \A x \in S : f[x] = g[x]
  PROVE  Total(f, S) = Total(g, S)
<1> DEFINE bad == {X \in SUBSET S : Total(f, X) # Total(g, X)}
<1>1. ASSUME bad # {} PROVE FALSE
  <2>1. PICK X \in bad : \A Y \in bad : Y \subseteq X => Y = X
    <3>1. bad \subseteq SUBSET S
      OBVIOUS
    <3> HIDE DEF bad
    <3> QED
      BY <1>1, <3>1, SmallestSubset, SMT, SMTT(20)
  <2>2. IsFiniteSet(X)
    BY FS_Subset
  <2>3. X # {} => /\ Total(f, X \ {ChosenOf(X)}) = Total(g, X \ {ChosenOf(X)})
                  /\ f[ChosenOf(X)] = g[ChosenOf(X)]
    BY <2>1, ChosenIsMember, SMT, SMTT(20)
  <2>4. /\ Total(f, X) = IF X = {} THEN 0 ELSE f[ChosenOf(X)] + Total(f, X \ {ChosenOf(X)})
        /\ Total(g, X) = IF X = {} THEN 0 ELSE g[ChosenOf(X)] + Total(g, X \ {ChosenOf(X)})
    BY <2>2, TotalOfChosen
  <2> QED
    BY <2>1, <2>3, <2>4
<1> QED
  BY <1>1

\* The sums over two disjoint sets add up.
LEMMA TotalOfUnion ==
  ASSUME NEW f, NEW S, IsFiniteSet(S), NEW T, IsFiniteSet(T), S \cap T = {},
         \A x \in S \cup T : f[x] \in Nat
  PROVE  Total(f, S \cup T) = Total(f, S) + Total(f, T)
<1> DEFINE bad == {X \in SUBSET T : Total(f, S \cup X) # Total(f, S) + Total(f, X)}
<1>1. ASSUME bad # {} PROVE FALSE
  <2>1. PICK X \in bad : \A Y \in bad : Y \subseteq X => Y = X
    <3>1. bad \subseteq SUBSET T
      OBVIOUS
    <3> HIDE DEF bad
    <3> QED
      BY <1>1, <3>1, SmallestSubset, SMT, SMTT(20)
  <2>2. IsFiniteSet(X) /\ X \subseteq T
    BY FS_Subset
  <2>3. X # {}
    <3>1. S \cup {} = S /\ Total(f, S) \in Nat /\ Total(f, {}) = 0
      BY TotalIsNat, TotalOfNone
    <3>2. Total(f, S \cup {}) = Total(f, S) + Total(f, {})
      BY <3>1, SMT, SMTT(20)
    <3> QED
      BY <2>1, <3>2, Zenon, ZenonT(20)
  <2>4. PICK x \in X : TRUE
    BY <2>3
  <2> DEFINE Y == X \ {x}
  <2>5. Total(f, S \cup Y) = Total(f, S) + Total(f, Y)
    BY <2>1, <2>2, SMT, SMTT(20)
  <2>6. IsFiniteSet(Y) /\ IsFiniteSet(S \cup Y)
    BY <2>2, FS_Subset, FS_Union, Zenon, ZenonT(20)
  <2>7. Total(f, X) = f[x] + Total(f, Y)
    BY <2>2, TotalWithout, SMT, SMTT(20)
  <2>8. Total(f, S \cup X) = f[x] + Total(f, S \cup Y)
    <3>1. S \cup X = (S \cup Y) \cup {x} /\ x \notin S \cup Y /\ S \cup X \subseteq S \cup T
      BY <2>2
    <3> HIDE DEF Y
    <3>2. \A y \in (S \cup Y) \cup {x} : f[y] \in Nat
      BY <3>1
    <3> QED
      BY <2>6, <3>1, <3>2, TotalWith, SMT, SMTT(20)
  <2>9. f[x] \in Nat /\ Total(f, S) \in Nat /\ Total(f, Y) \in Nat
    <3>1. Y \subseteq T /\ x \in T
      BY <2>2
    <3> QED
      BY <2>6, <3>1, TotalIsNat
  <2>10. Total(f, S \cup X) # Total(f, S) + Total(f, X)
    BY <2>1
  <2> HIDE DEF bad, Y
  <2> QED
    BY <2>5, <2>7, <2>8, <2>9, <2>10, SMT, SMTT(20)
<1> QED
  BY <1>1

\* The sum over a part is at most the sum over the whole.
LEMMA TotalOfPart ==
  ASSUME NEW f, NEW S, IsFiniteSet(S), \A x \in S : f[x] \in Nat, NEW X \in SUBSET S
  PROVE  Total(f, X) <= Total(f, S)
<1>1. IsFiniteSet(X) /\ IsFiniteSet(S \ X) /\ S = X \cup (S \ X) /\ X \cap (S \ X) = {}
  BY FS_Subset
<1>2. Total(f, S) = Total(f, X) + Total(f, S \ X)
  BY <1>1, TotalOfUnion, SMT, SMTT(20)
<1>3. Total(f, X) \in Nat /\ Total(f, S \ X) \in Nat
  BY <1>1, TotalIsNat
<1> QED
  BY <1>2, <1>3, SMT, SMTT(20)

-----------------------------------------------------------------------------
(* The tree *)

\* Ancestry is reflexive, transitive and has the parents of its members.
LEMMA AncestryFacts ==
  /\ \A b \in TreeBlocks : b \in Ancestry[b] /\ Ancestry[b] \subseteq TreeBlocks /\ HasParents(Ancestry[b])
  /\ \A b \in TreeBlocks : \A a \in Ancestry[b] : Ancestry[a] \subseteq Ancestry[b]
<1>1. \A b \in TreeBlocks : b \in Ancestry[b] /\ Ancestry[b] \subseteq TreeBlocks
  BY DEF Ancestry
<1>2. ASSUME NEW b \in TreeBlocks PROVE HasParents(Ancestry[b])
  <2> SUFFICES ASSUME NEW c \in Ancestry[b] \ {AnchorRoot} PROVE ParentRoot[c] \in Ancestry[b]
    BY DEF HasParents
  <2>1. ParentRoot[c] \in TreeBlocks
    BY <1>1, VotesAssumption
  <2>2. \A S \in SUBSET TreeBlocks : b \in S /\ HasParents(S) => ParentRoot[c] \in S
    BY DEF Ancestry, HasParents
  <2> QED
    BY <2>1, <2>2 DEF Ancestry
<1>3. ASSUME NEW b \in TreeBlocks, NEW a \in Ancestry[b] PROVE Ancestry[a] \subseteq Ancestry[b]
  <2>1. a \in TreeBlocks
    BY <1>1
  <2>2. Ancestry[b] \in SUBSET TreeBlocks /\ HasParents(Ancestry[b])
    BY <1>1, <1>2
  <2> QED
    BY <2>1, <2>2 DEF Ancestry
<1> QED
  BY <1>1, <1>2, <1>3

\* The ancestors of a parent are ancestors of the child.
LEMMA AncestryOfParent ==
  ASSUME NEW b \in TreeBlocks \ {AnchorRoot}
  PROVE  ParentRoot[b] \in TreeBlocks /\ Ancestry[ParentRoot[b]] \subseteq Ancestry[b]
<1>1. ParentRoot[b] \in Ancestry[b]
  BY AncestryFacts DEF HasParents
<1> QED
  BY <1>1, AncestryFacts

-----------------------------------------------------------------------------
(* Balances *)

Roots == TreeBlocks \cup {NoRoot}

VotesType ==
  /\ nodes \subseteq TreeBlocks /\ removed \subseteq TreeBlocks
  /\ balance \in [TreeBlocks -> Nat]
  /\ votes \in [Indices -> [currentRoot : Roots, nextRoot : Roots, nextEpoch : Int]]
  /\ balances \in [Indices -> Nat]
  /\ level \in 1 .. Len(Checkpoints)
  /\ slashedIndices \subseteq Indices
  /\ proposerBoostRoot \in Roots
  /\ previousBoost \in [root : Roots, score : Nat]
  /\ voteSlot \in Nat

\* No node is on another branch than the finalized block.
NodesBelow == \A n \in nodes : justified.finalized \in Ancestry[n]

\* A root that was in the store: it is, or it was removed, or pruned for good.
Arrived(b) == b \in Roots /\ (b \in TreeBlocks => b \in nodes \cup removed \/ justified.finalized \notin Ancestry[b])

RootsArrived ==
  /\ \A v \in Indices : Arrived(votes[v].currentRoot) /\ Arrived(votes[v].nextRoot)
  /\ Arrived(proposerBoostRoot) /\ Arrived(previousBoost.root)

VotesInv == VotesType /\ NodesBelow /\ RootsArrived /\ BalancesMatchVotes

\* What the checkpoints are assumed to be, in the form it is used.
LEMMA LevelFacts ==
  ASSUME NEW l \in 1 .. Len(Checkpoints)
  PROVE  /\ Checkpoints[l].balances \in [Indices -> Nat]
         /\ Checkpoints[l].root \in TreeBlocks
         /\ Checkpoints[l].finalized \in TreeBlocks
         /\ Total(Checkpoints[l].balances, Indices) < WordSize
         /\ \A m \in 1 .. l, b \in TreeBlocks :
               Checkpoints[l].finalized \in Ancestry[b] => Checkpoints[m].finalized \in Ancestry[b]
<1>1. /\ Checkpoints[l].balances \in [Indices -> Nat]
      /\ Checkpoints[l].root \in TreeBlocks
      /\ Checkpoints[l].finalized \in Ancestry[Checkpoints[l].root]
      /\ Total(Checkpoints[l].balances, Indices) < WordSize
      /\ \A m \in 1 .. l : Checkpoints[m].finalized \in Ancestry[Checkpoints[l].finalized]
  BY CheckpointsAssumption
<1> QED
  BY <1>1, AncestryFacts

\* UpdateLevel loses no root that arrived.
LEMMA LevelKeepsArrived ==
  ASSUME VotesType, NEW N \in SUBSET TreeBlocks, nodes \subseteq N, NEW from, UpdateLevel(N, from),
         removed' = removed
  PROVE  /\ level' \in 1 .. Len(Checkpoints) /\ nodes' \subseteq N /\ NodesBelow'
         /\ \A b : Arrived(b) \/ b \in N => Arrived(b)'
<1>1. PICK l \in level .. Len(Checkpoints) : level' = l /\ nodes' = SubtreeOf(N, Checkpoints[l].finalized)
  BY DEF UpdateLevel
<1>2. l \in 1 .. Len(Checkpoints) /\ level \in 1 .. l
  BY CheckpointsAssumption, SMT, SMTT(20) DEF VotesType
<1>3. \A b \in TreeBlocks :
        Checkpoints[l].finalized \in Ancestry[b] => Checkpoints[level].finalized \in Ancestry[b]
  BY <1>2, LevelFacts
<1>4. NodesBelow' /\ nodes' \subseteq N
  BY <1>1 DEF NodesBelow, SubtreeOf, justified
<1>5. ASSUME NEW b, Arrived(b) \/ b \in N PROVE Arrived(b)'
  BY <1>1, <1>3, <1>5 DEF Arrived, SubtreeOf, justified, Roots
<1> QED
  BY <1>1, <1>2, <1>4, <1>5

\* The votes of validators up to n that have moved to b, and those of the
\* others that still count for b.
MovedTo(n, b) == {u \in Indices \ slashedIndices : u <= n /\ votes[u].nextRoot = b}
StillOn(n, b) == {u \in Indices \ slashedIndices : u > n /\ votes[u].currentRoot = b}

BoostOn(b) == IF previousBoost.root = b THEN previousBoost.score ELSE 0

\* B is right when the votes up to n have moved.
RightUpTo(B, n) ==
  /\ B \in [TreeBlocks -> Nat]
  /\ \A b \in nodes :
       B[b] = Total(justified.balances, MovedTo(n, b)) + Total(balances, StillOn(n, b)) + BoostOn(b)

\* There are finitely many validators.
LEMMA IndicesFinite == \A S \in SUBSET Indices : IsFiniteSet(S)
<1>1. 1 \in Int /\ Voters \in Int
  BY VotesAssumption, SMT, SMTT(20)
<1>2. IsFiniteSet(Indices)
  BY <1>1, FS_Interval DEF Indices
<1> QED
  BY <1>2, FS_Subset

\* What the two sums of b gain and lose with the vote of n.
LEMMA MovedSums ==
  ASSUME VotesType, NEW n \in Indices, NEW b
  PROVE  /\ Total(justified.balances, MovedTo(n, b)) =
              Total(justified.balances, MovedTo(n - 1, b))
              + IF n \notin slashedIndices /\ votes[n].nextRoot = b THEN justified.balances[n] ELSE 0
         /\ Total(balances, StillOn(n - 1, b)) =
              Total(balances, StillOn(n, b))
              + IF n \notin slashedIndices /\ votes[n].currentRoot = b THEN balances[n] ELSE 0
         /\ Total(justified.balances, MovedTo(n - 1, b)) \in Nat
         /\ Total(balances, StillOn(n, b)) \in Nat
<1> DEFINE M == MovedTo(n - 1, b)
           S == StillOn(n, b)
<1>1. /\ \A u \in Indices : (u <= n <=> u <= n - 1 \/ u = n) /\ (u > n - 1 <=> u > n \/ u = n)
      /\ ~(n <= n - 1) /\ ~(n > n)
  BY SMT, SMTT(20) DEF Indices
<1>2. /\ justified.balances \in [Indices -> Nat] /\ balances \in [Indices -> Nat]
  BY LevelFacts, Zenon, ZenonT(20) DEF VotesType, justified
<1>3. M \in SUBSET Indices /\ S \in SUBSET Indices /\ n \notin M /\ n \notin S
  BY <1>1 DEF MovedTo, StillOn
<1>4. MovedTo(n, b) = IF n \notin slashedIndices /\ votes[n].nextRoot = b THEN M \cup {n} ELSE M
  <2>1. CASE n \notin slashedIndices /\ votes[n].nextRoot = b
    BY <1>1, <2>1, Zenon, ZenonT(20) DEF MovedTo
  <2>2. CASE ~(n \notin slashedIndices /\ votes[n].nextRoot = b)
    BY <1>1, <2>2, Zenon, ZenonT(20) DEF MovedTo
  <2> QED
    BY <2>1, <2>2
<1>5. StillOn(n - 1, b) = IF n \notin slashedIndices /\ votes[n].currentRoot = b THEN S \cup {n} ELSE S
  <2>1. CASE n \notin slashedIndices /\ votes[n].currentRoot = b
    BY <1>1, <2>1, Zenon, ZenonT(20) DEF StillOn
  <2>2. CASE ~(n \notin slashedIndices /\ votes[n].currentRoot = b)
    BY <1>1, <2>2, Zenon, ZenonT(20) DEF StillOn
  <2> QED
    BY <2>1, <2>2
<1> HIDE DEF M, S
<1>6. IsFiniteSet(M) /\ IsFiniteSet(S)
  BY <1>3, IndicesFinite
<1>7. /\ Total(justified.balances, M) \in Nat /\ Total(balances, S) \in Nat
      /\ justified.balances[n] \in Nat /\ balances[n] \in Nat
  BY <1>2, <1>3, <1>6, TotalIsNat
<1>8. /\ Total(justified.balances, M \cup {n}) = justified.balances[n] + Total(justified.balances, M)
      /\ Total(balances, S \cup {n}) = balances[n] + Total(balances, S)
  <2>1. \A y \in M \cup {n} : justified.balances[y] \in Nat
    BY <1>2, <1>3
  <2>2. \A y \in S \cup {n} : balances[y] \in Nat
    BY <1>2, <1>3
  <2> QED
    BY <2>1, <2>2, <1>3, <1>6, TotalWith
<1>9. Total(justified.balances, MovedTo(n, b)) =
        Total(justified.balances, M)
        + IF n \notin slashedIndices /\ votes[n].nextRoot = b THEN justified.balances[n] ELSE 0
  BY <1>4, <1>7, <1>8, SMT, SMTT(20)
<1>10. Total(balances, StillOn(n - 1, b)) =
         Total(balances, S)
         + IF n \notin slashedIndices /\ votes[n].currentRoot = b THEN balances[n] ELSE 0
  BY <1>5, <1>7, <1>8, SMT, SMTT(20)
<1> QED
  BY <1>7, <1>9, <1>10 DEF M, S

\* Moving the vote of n: nothing is floored.
LEMMA MoveIsRight ==
  ASSUME VotesType, NEW n \in Indices, NEW B, RightUpTo(B, n - 1)
  PROVE  RightUpTo(MoveVote(B, n), n)
<1> DEFINE next == votes[n].nextRoot
           cur == votes[n].currentRoot
           old == balances[n]
           new == justified.balances[n]
           added == IF next \in nodes THEN [B EXCEPT ![next] = @ + new] ELSE B
           C == MoveVote(B, n)
<1>1. old \in Nat /\ new \in Nat /\ nodes \subseteq TreeBlocks
  BY LevelFacts DEF VotesType, justified
<1>2. C = IF n \in slashedIndices \/ (cur = next /\ old = new) THEN B
          ELSE IF cur \in nodes THEN [added EXCEPT ![cur] = Floored(@, old)] ELSE added
  BY DEF MoveVote
<1> HIDE DEF C
<1>3. added \in [TreeBlocks -> Nat] /\ B \in [TreeBlocks -> Nat]
  BY <1>1, SMT, SMTT(20) DEF RightUpTo
<1>4. \A b \in TreeBlocks : added[b] = IF b = next /\ b \in nodes THEN B[b] + new ELSE B[b]
  BY <1>1, <1>3
<1> HIDE DEF added
<1>5. \A b \in nodes : [added EXCEPT ![cur] = Floored(@, old)][b] =
                        IF b = cur THEN Floored(added[b], old) ELSE added[b]
  BY <1>1, <1>3
<1>6. C \in [TreeBlocks -> Nat]
  <2>1. \A x \in Nat : Floored(x, old) \in Nat
    BY <1>1, SMT, SMTT(20) DEF Floored
  <2> QED
    BY <1>1, <1>2, <1>3, <2>1
<1>7. ASSUME NEW b \in nodes
      PROVE  C[b] = Total(justified.balances, MovedTo(n, b)) + Total(balances, StillOn(n, b)) + BoostOn(b)
  <2> DEFINE m0 == Total(justified.balances, MovedTo(n - 1, b))
             m1 == Total(justified.balances, MovedTo(n, b))
             s0 == Total(balances, StillOn(n - 1, b))
             s1 == Total(balances, StillOn(n, b))
             p == BoostOn(b)
  <2>1. /\ m1 = m0 + IF n \notin slashedIndices /\ next = b THEN new ELSE 0
        /\ s0 = s1 + IF n \notin slashedIndices /\ cur = b THEN old ELSE 0
        /\ m0 \in Nat /\ s1 \in Nat
    BY MovedSums
  <2>2. p \in Nat
    BY DEF BoostOn, VotesType
  <2>3. B[b] = m0 + s0 + p
    BY DEF RightUpTo
  <2>4. added[b] = IF b = next THEN B[b] + new ELSE B[b]
    BY <1>1, <1>4
  <2>5. C[b] = IF n \in slashedIndices \/ (cur = next /\ old = new) THEN B[b]
               ELSE IF b = cur THEN Floored(added[b], old) ELSE added[b]
    BY <1>2, <1>5
  <2> HIDE DEF m0, m1, s0, s1, p, next, cur, old, new
  <2>6. C[b] = m1 + s1 + p
    BY <1>1, <2>1, <2>2, <2>3, <2>4, <2>5, SMT, SMTT(20) DEF Floored
  <2> QED
    BY <2>6 DEF m1, s1, p
<1> QED
  BY <1>6, <1>7 DEF RightUpTo, C

IsUpTo(g, n) == g = [v \in 0 .. n |-> IF v = 0 THEN balance ELSE MoveVote(g[v - 1], v)]

\* The loop over the votes has a result.
LEMMA UpToExists ==
  \A n \in Nat : \E g : IsUpTo(g, n)
<1> DEFINE bad == {n \in Nat : ~\E g : IsUpTo(g, n)}
<1>1. bad \subseteq Nat /\ \A n \in Nat : n \notin bad <=> \E g : IsUpTo(g, n)
  OBVIOUS
<1> HIDE DEF bad
<1>2. ASSUME bad # {} PROVE FALSE
  <2>1. PICK n \in bad : \A m \in bad : n <= m
    BY <1>1, <1>2, SmallestNumber, Zenon, ZenonT(20)
  <2>2. n # 0
    <3>1. IsUpTo([v \in 0 .. 0 |-> balance], 0)
      BY SMT, SMTT(20) DEF IsUpTo
    <3> QED
      BY <1>1, <2>1, <3>1
  <2>3. n \in Nat /\ n - 1 \in Nat /\ n - 1 \notin bad
    BY <1>1, <2>1, <2>2, SMT, SMTT(20)
  <2>4. PICK g : IsUpTo(g, n - 1)
    BY <1>1, <2>3
  <2> DEFINE h == [v \in 0 .. n |-> IF v = n THEN MoveVote(g[n - 1], n) ELSE g[v]]
  <2>5. ASSUME NEW v \in 0 .. n
        PROVE  h[v] = IF v = 0 THEN balance ELSE MoveVote(h[v - 1], v)
    <3>1. v # n => v \in 0 .. (n - 1) /\ g[v] = IF v = 0 THEN balance ELSE MoveVote(g[v - 1], v)
      BY <2>3, <2>4, SMT, SMTT(20) DEF IsUpTo
    <3>2. v # 0 => v - 1 \in 0 .. n /\ v - 1 # n
      BY <2>3, SMT, SMTT(20)
    <3>3. v # 0 => h[v - 1] = g[v - 1]
      BY <3>2
    <3>4. h[v] = IF v = n THEN MoveVote(g[n - 1], n) ELSE g[v]
      OBVIOUS
    <3> HIDE DEF h
    <3> QED
      BY <2>2, <3>1, <3>3, <3>4
  <2>6. IsUpTo(h, n)
    BY <2>5 DEF IsUpTo
  <2> QED
    BY <1>1, <2>1, <2>3, <2>6
<1> QED
  BY <1>1, <1>2

\* UpdatedBalances has counted the latest vote of every validator.
LEMMA UpdatedAreRight ==
  ASSUME VotesInv
  PROVE  /\ UpdatedBalances \in [TreeBlocks -> Nat]
         /\ \A b \in nodes :
              UpdatedBalances[b] =
                Total(justified.balances, {v \in Indices \ slashedIndices : votes[v].nextRoot = b}) + BoostOn(b)
<1> DEFINE g == CHOOSE h : IsUpTo(h, Voters)
<1>1. Voters \in Nat /\ VotesType
  BY VotesAssumption DEF VotesInv
<1>2. UpdatedBalances = g[Voters]
  BY DEF UpdatedBalances, IsUpTo
<1>3. IsUpTo(g, Voters)
  BY <1>1, UpToExists
<1> HIDE DEF g
<1>4. /\ g[0] = balance
      /\ \A v \in Indices : v - 1 \in 0 .. Voters /\ g[v] = MoveVote(g[v - 1], v)
  BY <1>1, <1>3, SMT, SMTT(20) DEF IsUpTo, Indices
<1>5. RightUpTo(g[0], 0)
  <2>1. balance \in [TreeBlocks -> Nat]
    BY DEF VotesInv, VotesType
  <2>2. ASSUME NEW b \in nodes
        PROVE  balance[b] = Total(justified.balances, MovedTo(0, b)) + Total(balances, StillOn(0, b)) + BoostOn(b)
    <3>1. \A u \in Indices : ~(u <= 0) /\ u > 0
      BY SMT, SMTT(20) DEF Indices
    <3>2. MovedTo(0, b) = {} /\ StillOn(0, b) = {v \in Indices \ slashedIndices : votes[v].currentRoot = b}
      BY <3>1, Zenon, ZenonT(20) DEF MovedTo, StillOn
    <3>3. balance[b] = Total(balances, StillOn(0, b)) + BoostOn(b)
      BY <3>2 DEF VotesInv, BalancesMatchVotes, BoostOn
    <3>4. Total(balances, StillOn(0, b)) \in Nat
      <4>1. IsFiniteSet(StillOn(0, b))
        BY <3>2, IndicesFinite
      <4>2. \A x \in StillOn(0, b) : balances[x] \in Nat
        BY <1>1, <3>2 DEF VotesType
      <4> QED
        BY <4>1, <4>2, TotalIsNat
    <3>5. BoostOn(b) \in Nat
      BY <1>1 DEF BoostOn, VotesType
    <3>6. Total(justified.balances, MovedTo(0, b)) = 0
      BY <3>2, TotalOfNone
    <3> QED
      BY <3>3, <3>4, <3>5, <3>6, SMT, SMTT(20)
  <2> QED
    BY <1>4, <2>1, <2>2 DEF RightUpTo
<1> DEFINE bad == {n \in 0 .. Voters : ~RightUpTo(g[n], n)}
<1>6. bad \subseteq Nat /\ \A n \in bad : n \in 0 .. Voters /\ ~RightUpTo(g[n], n)
  BY <1>1, SMT, SMTT(20)
<1>7. \A n \in 0 .. Voters : n \notin bad => RightUpTo(g[n], n)
  OBVIOUS
<1> HIDE DEF bad
<1>8. ASSUME bad # {} PROVE FALSE
  <2>1. PICK n \in bad : \A m \in bad : n <= m
    BY <1>6, <1>8, SmallestNumber, Zenon, ZenonT(20)
  <2>2. n \in Indices
    BY <1>1, <1>5, <1>6, SMT, SMTT(20) DEF Indices
  <2>3. n - 1 \in 0 .. Voters /\ n - 1 \notin bad
    BY <1>1, <2>1, <2>2, SMT, SMTT(20) DEF Indices
  <2>4. RightUpTo(MoveVote(g[n - 1], n), n)
    BY <1>1, <1>7, <2>2, <2>3, MoveIsRight
  <2> QED
    BY <1>4, <1>6, <2>1, <2>2, <2>4
<1>9. RightUpTo(UpdatedBalances, Voters)
  BY <1>1, <1>2, <1>7, <1>8, SMT, SMTT(20)
<1>10. ASSUME NEW b \in nodes
       PROVE  UpdatedBalances[b] =
                Total(justified.balances, {v \in Indices \ slashedIndices : votes[v].nextRoot = b}) + BoostOn(b)
  <2> DEFINE L == {v \in Indices \ slashedIndices : votes[v].nextRoot = b}
  <2>1. \A u \in Indices : u <= Voters /\ ~(u > Voters)
    BY <1>1, SMT, SMTT(20) DEF Indices
  <2>2. MovedTo(Voters, b) = L /\ StillOn(Voters, b) = {}
    BY <2>1, Zenon, ZenonT(20) DEF MovedTo, StillOn
  <2>3. Total(justified.balances, L) \in Nat
    <3>1. IsFiniteSet(L)
      BY IndicesFinite
    <3>2. \A x \in L : justified.balances[x] \in Nat
      BY <1>1, LevelFacts DEF VotesType, justified
    <3> QED
      BY <3>1, <3>2, TotalIsNat
  <2>4. BoostOn(b) \in Nat
    BY <1>1 DEF BoostOn, VotesType
  <2>5. UpdatedBalances[b] = Total(justified.balances, L) + Total(balances, {}) + BoostOn(b)
    BY <1>9, <2>2 DEF RightUpTo
  <2>6. Total(balances, {}) = 0
    BY TotalOfNone
  <2> HIDE DEF L
  <2>7. UpdatedBalances[b] = Total(justified.balances, L) + BoostOn(b)
    BY <2>3, <2>4, <2>5, <2>6, SMT, SMTT(20)
  <2> QED
    BY <2>7 DEF L
<1>11. UpdatedBalances \in [TreeBlocks -> Nat]
  BY <1>9 DEF RightUpTo
<1> QED
  BY <1>10, <1>11

\* The score of the proposer boost is a number.
LEMMA ScoreIsNat ==
  ASSUME VotesType
  PROVE  BoostScore \in Nat
<1>1. Total(justified.balances, Indices) \in Nat
  <2>1. \A x \in Indices : justified.balances[x] \in Nat
    BY LevelFacts DEF VotesType, justified
  <2> QED
    BY <2>1, IndicesFinite, TotalIsNat
<1>2. CommitteeWeight(justified.balances) \in Nat
  BY <1>1, VotesAssumption, SMT, SMTT(20) DEF CommitteeWeight
<1>3. CommitteeWeight(justified.balances) * ProposerScoreBoost \in Nat
  BY <1>2, VotesAssumption, SMT, SMTT(20)
<1> QED
  BY <1>3, SMT, SMTT(20) DEF BoostScore

\* Taking the previous boost off wraps nothing around.
LEMMA BoostedAreRight ==
  ASSUME VotesInv
  PROVE  /\ Boosted(UpdatedBalances) \in [TreeBlocks -> Nat]
         /\ \A b \in nodes :
              Boosted(UpdatedBalances)[b] =
                Total(justified.balances, {v \in Indices \ slashedIndices : votes[v].nextRoot = b})
                + (IF proposerBoostRoot = b THEN BoostScore ELSE 0)
<1> DEFINE B == UpdatedBalances
           w(b) == Total(justified.balances, {v \in Indices \ slashedIndices : votes[v].nextRoot = b})
           off == IF previousBoost.root \in nodes
                  THEN [B EXCEPT ![previousBoost.root] = (@ - previousBoost.score) % WordSize] ELSE B
<1>1. B \in [TreeBlocks -> Nat] /\ \A b \in nodes : B[b] = w(b) + BoostOn(b)
  BY UpdatedAreRight
<1>2. /\ VotesType /\ nodes \subseteq TreeBlocks /\ previousBoost.score \in Nat /\ WordSize \in Nat
      /\ BoostScore \in Nat
  BY VotesAssumption, ScoreIsNat DEF VotesInv, VotesType
<1>3. ASSUME NEW b PROVE w(b) \in Nat /\ w(b) < WordSize
  <2> DEFINE L == {v \in Indices \ slashedIndices : votes[v].nextRoot = b}
  <2>1. L \in SUBSET Indices /\ IsFiniteSet(Indices) /\ IsFiniteSet(L)
    BY IndicesFinite
  <2>2. /\ \A x \in Indices : justified.balances[x] \in Nat
        /\ Total(justified.balances, Indices) < WordSize
    BY <1>2, LevelFacts DEF VotesType, justified
  <2> HIDE DEF L
  <2>3. Total(justified.balances, L) <= Total(justified.balances, Indices)
    BY <2>1, <2>2, TotalOfPart
  <2>4. Total(justified.balances, L) \in Nat /\ Total(justified.balances, Indices) \in Nat
    BY <2>1, <2>2, TotalIsNat
  <2>5. Total(justified.balances, L) \in Nat /\ Total(justified.balances, L) < WordSize
    BY <1>2, <2>2, <2>3, <2>4, SMT, SMTT(20)
  <2> QED
    BY <2>5 DEF L
<1> HIDE DEF B, w
<1>4. \A x \in Int : x < WordSize /\ x >= 0 => x % WordSize = x
  BY <1>2, SMT, SMTT(20)
<1>5. WordSize > 0
  BY <1>2, <1>3, SMT, SMTT(20)
<1>6. off \in [TreeBlocks -> Nat] /\ \A b \in nodes : off[b] = w(b)
  <2>1. CASE previousBoost.root \in nodes
    <3> DEFINE r == previousBoost.root
    <3>1. B[r] - previousBoost.score = w(r)
      BY <1>1, <1>2, <1>3, <2>1, SMT, SMTT(20) DEF BoostOn
    <3>2. w(r) % WordSize = w(r) /\ w(r) \in Nat
      BY <1>3, <1>4, SMT, SMTT(20)
    <3>3. off = [B EXCEPT ![r] = w(r)]
      BY <1>1, <1>2, <2>1, <3>1, <3>2, Zenon, ZenonT(20)
    <3>4. \A b \in nodes : b # r => B[b] = w(b)
      BY <1>1, <1>3, SMT, SMTT(20) DEF BoostOn
    <3> HIDE DEF off, r
    <3> QED
      BY <1>1, <1>2, <3>2, <3>3, <3>4, Zenon, ZenonT(20)
  <2>2. CASE previousBoost.root \notin nodes
    BY <1>1, <1>3, <2>2, SMT, SMTT(20) DEF BoostOn
  <2> QED
    BY <2>1, <2>2
<1>7. Boosted(B) = IF proposerBoostRoot \in nodes THEN [off EXCEPT ![proposerBoostRoot] = @ + BoostScore] ELSE off
  BY DEF Boosted
<1> HIDE DEF off
<1>8. /\ Boosted(B) \in [TreeBlocks -> Nat]
      /\ \A b \in nodes : Boosted(B)[b] = w(b) + (IF proposerBoostRoot = b THEN BoostScore ELSE 0)
  BY <1>2, <1>3, <1>6, <1>7, SMT, SMTT(20)
<1> QED
  BY <1>8 DEF B, w

\* The invariant holds of the store at the start.
LEMMA InitVotesInv == VotesInit => VotesInv
<1> SUFFICES ASSUME VotesInit PROVE VotesInv
  OBVIOUS
<1>1. VotesType
  BY VotesAssumption, CheckpointsAssumption, SMT, SMTT(20) DEF VotesInit, VotesType, Roots
<1>2. NodesBelow
  <2>1. Checkpoints[1].root = AnchorRoot /\ Checkpoints[1].finalized \in Ancestry[Checkpoints[1].root]
    BY CheckpointsAssumption, SMT, SMTT(20)
  <2> QED
    BY <2>1 DEF VotesInit, NodesBelow, justified
<1>3. RootsArrived
  BY VotesAssumption DEF VotesInit, RootsArrived, Arrived, Roots
<1>4. BalancesMatchVotes
  <2>1. \A b \in nodes : {v \in Indices \ slashedIndices : votes[v].currentRoot = b} = {}
    BY VotesAssumption DEF VotesInit
  <2>2. \A b \in nodes : balance[b] = 0 /\ previousBoost.root # b
    BY VotesAssumption DEF VotesInit
  <2>3. Total(balances, {}) = 0
    BY TotalOfNone
  <2> QED
    BY <2>1, <2>2, <2>3, SMT, SMTT(20) DEF BalancesMatchVotes
<1> QED
  BY <1>1, <1>2, <1>3, <1>4 DEF VotesInv

\* A vote that counts for b.
CountFor(b) == {v \in Indices \ slashedIndices : votes[v].currentRoot = b}

\* Where votes, balances and boost stay, what is left of the nodes stays right.
LEMMA FewerNodesMatch ==
  ASSUME BalancesMatchVotes, nodes' \subseteq nodes,
         UNCHANGED <<balance, votes, balances, slashedIndices>>,
         \A b \in nodes' : (previousBoost.root = b \/ previousBoost'.root = b) => previousBoost' = previousBoost
  PROVE  BalancesMatchVotes'
BY SMT, SMTT(20) DEF BalancesMatchVotes

\* InsertNode: a block that was not in the store has no counted vote.
LEMMA InsertBlockKeeps ==
  ASSUME VotesInv, NEW b \in TreeBlocks, NEW timely \in BOOLEAN, InsertBlock(b, timely)
  PROVE  VotesInv'
<1>1. /\ b # AnchorRoot /\ b \notin nodes /\ b \notin removed /\ ParentRoot[b] \in nodes
      /\ balance' = [balance EXCEPT ![b] = 0]
      /\ proposerBoostRoot' \in {b, proposerBoostRoot}
      /\ UpdateLevel(nodes \union {b}, {b})
      /\ UNCHANGED <<removed, votes, balances, slashedIndices, previousBoost, voteSlot>>
  BY DEF InsertBlock
<1>2. /\ VotesType /\ NodesBelow /\ RootsArrived /\ BalancesMatchVotes
      /\ nodes \union {b} \in SUBSET TreeBlocks
  BY DEF VotesInv, VotesType
<1>3. /\ level' \in 1 .. Len(Checkpoints) /\ nodes' \subseteq nodes \cup {b} /\ NodesBelow'
      /\ \A c : Arrived(c) \/ c \in nodes \cup {b} => Arrived(c)'
  BY <1>1, <1>2, LevelKeepsArrived, Zenon, ZenonT(20)
<1>4. VotesType'
  BY <1>1, <1>2, <1>3 DEF VotesType, Roots
<1>5. RootsArrived'
  BY <1>1, <1>2, <1>3 DEF RootsArrived
<1>6. ~Arrived(b)
  <2>1. justified.finalized \in Ancestry[ParentRoot[b]]
    BY <1>1, <1>2 DEF NodesBelow
  <2>2. justified.finalized \in Ancestry[b]
    BY <1>1, <2>1, AncestryOfParent
  <2> QED
    BY <1>1, <2>2 DEF Arrived
<1>7. ASSUME NEW c \in nodes'
      PROVE  balance'[c] = Total(balances, CountFor(c)) + (IF previousBoost.root = c THEN previousBoost.score ELSE 0)
  <2>1. CASE c = b
    <3>1. CountFor(b) = {} /\ previousBoost.root # b
      BY <1>2, <1>6 DEF CountFor, RootsArrived
    <3>2. balance'[b] = 0
      BY <1>1, <1>2 DEF VotesType
    <3> QED
      BY <2>1, <3>1, <3>2, TotalOfNone, SMT, SMTT(20)
  <2>2. CASE c # b
    <3>1. c \in nodes /\ balance'[c] = balance[c]
      BY <1>1, <1>2, <1>3, <2>2 DEF VotesType
    <3> QED
      BY <1>2, <3>1 DEF BalancesMatchVotes, CountFor
  <2> QED
    BY <2>1, <2>2
<1>8. BalancesMatchVotes'
  BY <1>1, <1>7 DEF BalancesMatchVotes, CountFor
<1> QED
  BY <1>3, <1>4, <1>5, <1>8 DEF VotesInv

\* NewSlot takes the boost away and prunes.
LEMMA SlotTickKeeps ==
  ASSUME VotesInv, SlotTick
  PROVE  VotesInv'
<1>1. /\ proposerBoostRoot' = NoRoot /\ voteSlot' = voteSlot + 1
      /\ UpdateLevel(nodes, nodes) \/ UNCHANGED <<level, nodes>>
      /\ UNCHANGED <<removed, balance, votes, balances, slashedIndices, previousBoost>>
  BY DEF SlotTick
<1>2. /\ VotesType /\ NodesBelow /\ RootsArrived /\ BalancesMatchVotes /\ nodes \in SUBSET TreeBlocks
  BY DEF VotesInv, VotesType
<1>3. /\ level' \in 1 .. Len(Checkpoints) /\ nodes' \subseteq nodes /\ NodesBelow'
      /\ \A c : Arrived(c) => Arrived(c)'
  <2>1. CASE UpdateLevel(nodes, nodes)
    BY <1>1, <1>2, <2>1, LevelKeepsArrived
  <2>2. CASE UNCHANGED <<level, nodes>>
    BY <1>1, <1>2, <2>2 DEF VotesType, NodesBelow, Arrived, justified
  <2> QED
    BY <1>1, <2>1, <2>2
<1>4. VotesType'
  BY <1>1, <1>2, <1>3, SMT, SMTT(20) DEF VotesType, Roots
<1>5. RootsArrived'
  <2>1. Arrived(NoRoot)'
    BY VotesAssumption DEF Arrived, Roots
  <2> QED
    BY <1>1, <1>2, <1>3, <2>1 DEF RootsArrived
<1>6. BalancesMatchVotes'
  BY <1>1, <1>2, <1>3, FewerNodesMatch
<1> QED
  BY <1>3, <1>4, <1>5, <1>6 DEF VotesInv

\* removeNode forgets the boost it removes the block of.
LEMMA RemoveBlockKeeps ==
  ASSUME VotesInv, NEW b \in nodes, RemoveBlock(b)
  PROVE  VotesInv'
<1> DEFINE gone == SubtreeOf(nodes, b)
<1>1. /\ nodes' = nodes \ gone /\ removed' = removed \cup gone
      /\ proposerBoostRoot' = IF proposerBoostRoot \in gone THEN NoRoot ELSE proposerBoostRoot
      /\ previousBoost' = IF previousBoost.root \in gone THEN [root |-> NoRoot, score |-> 0] ELSE previousBoost
      /\ UNCHANGED <<balance, votes, balances, level, slashedIndices, voteSlot>>
  BY DEF RemoveBlock
<1>2. /\ VotesType /\ NodesBelow /\ RootsArrived /\ BalancesMatchVotes
      /\ nodes \in SUBSET TreeBlocks /\ gone \subseteq nodes
  BY DEF VotesInv, VotesType, SubtreeOf
<1> HIDE DEF gone
<1>3. \A c : Arrived(c) => Arrived(c)'
  BY <1>1, <1>2 DEF Arrived, justified
<1>4. Arrived(NoRoot)'
  BY VotesAssumption DEF Arrived, Roots
<1>5. VotesType'
  BY <1>1, <1>2 DEF VotesType, Roots
<1>6. RootsArrived'
  BY <1>1, <1>2, <1>3, <1>4 DEF RootsArrived
<1>7. NodesBelow'
  BY <1>1, <1>2 DEF NodesBelow, justified
<1>8. BalancesMatchVotes'
  <2>1. \A c \in nodes' : (previousBoost.root = c \/ previousBoost'.root = c) => previousBoost' = previousBoost
    BY <1>1, <1>2, VotesAssumption
  <2> QED
    BY <1>1, <1>2, <2>1, FewerNodesMatch
<1> QED
  BY <1>5, <1>6, <1>7, <1>8 DEF VotesInv

\* ProcessAttestation changes no counted vote.
LEMMA AttestationKeeps ==
  ASSUME VotesInv, NEW v \in Indices, NEW b \in nodes, NEW target \in 0 .. EpochOf(voteSlot),
         ProcessAttestation(v, b, target)
  PROVE  VotesInv'
<1>1. /\ votes' = [votes EXCEPT ![v].nextEpoch = target, ![v].nextRoot = b]
      /\ UNCHANGED <<nodes, removed, balance, balances, level, slashedIndices, proposerBoostRoot, previousBoost,
                     voteSlot>>
  BY DEF ProcessAttestation
<1>2. /\ VotesType /\ NodesBelow /\ RootsArrived /\ BalancesMatchVotes /\ b \in Roots
  BY DEF VotesInv, VotesType, Roots
<1>3. \A u \in Indices : /\ votes'[u].currentRoot = votes[u].currentRoot
                          /\ votes'[u].nextRoot = IF u = v THEN b ELSE votes[u].nextRoot
  BY <1>1, <1>2 DEF VotesType
<1>4. VotesType'
  <2>1. target \in Int /\ votes \in [Indices -> [currentRoot : Roots, nextRoot : Roots, nextEpoch : Int]]
    BY <1>2, SMT, SMTT(20) DEF VotesType
  <2>2. votes' \in [Indices -> [currentRoot : Roots, nextRoot : Roots, nextEpoch : Int]]
    BY <1>1, <1>2, <2>1, Zenon, ZenonT(20)
  <2> QED
    BY <1>1, <1>2, <2>2 DEF VotesType
<1>5. RootsArrived'
  <2>1. \A c : Arrived(c)' = Arrived(c)
    BY <1>1 DEF Arrived, justified
  <2>2. Arrived(b)
    BY <1>2 DEF Arrived
  <2> QED
    BY <1>1, <1>2, <1>3, <2>1, <2>2, Zenon, ZenonT(20) DEF RootsArrived
<1>6. NodesBelow'
  BY <1>1, <1>2 DEF NodesBelow, justified
<1>7. BalancesMatchVotes'
  <2>1. \A c \in nodes : CountFor(c)' = CountFor(c)
    BY <1>1, <1>3, Zenon, ZenonT(20) DEF CountFor
  <2> QED
    BY <1>1, <1>2, <2>1, Zenon, ZenonT(20) DEF BalancesMatchVotes, CountFor
<1> QED
  BY <1>4, <1>5, <1>6, <1>7 DEF VotesInv

\* InsertSlashedIndex takes the balance off that the vote was counted with.
LEMMA SlashingKeeps ==
  ASSUME VotesInv, NEW v \in Indices, InsertSlashedIndex(v)
  PROVE  VotesInv'
<1> DEFINE r == votes[v].currentRoot
<1>1. /\ v \notin slashedIndices /\ slashedIndices' = slashedIndices \cup {v}
      /\ balance' = IF r \in nodes THEN [balance EXCEPT ![r] = Floored(@, balances[v])] ELSE balance
      /\ UNCHANGED <<nodes, removed, votes, balances, level, proposerBoostRoot, previousBoost, voteSlot>>
  BY DEF InsertSlashedIndex
<1>2. /\ VotesType /\ NodesBelow /\ RootsArrived /\ BalancesMatchVotes
      /\ nodes \subseteq TreeBlocks /\ balance \in [TreeBlocks -> Nat] /\ balances \in [Indices -> Nat]
  BY DEF VotesInv, VotesType
<1>3. balance' \in [TreeBlocks -> Nat]
  <2>1. \A x \in Nat : Floored(x, balances[v]) \in Nat
    BY <1>2, SMT, SMTT(20) DEF Floored
  <2> QED
    BY <1>1, <1>2, <2>1
<1>4. VotesType'
  BY <1>1, <1>2, <1>3 DEF VotesType
<1>5. RootsArrived' /\ NodesBelow'
  BY <1>1, <1>2 DEF RootsArrived, Arrived, NodesBelow, justified
<1>6. ASSUME NEW c \in nodes
      PROVE  balance'[c] = Total(balances, CountFor(c)') + (IF previousBoost.root = c THEN previousBoost.score ELSE 0)
  <2>0. balance[c] = Total(balances, CountFor(c)) + (IF previousBoost.root = c THEN previousBoost.score ELSE 0)
    BY <1>2 DEF BalancesMatchVotes, CountFor
  <2>1. CASE c # r
    <3>1. CountFor(c)' = CountFor(c)
      BY <1>1, <2>1, Zenon, ZenonT(20) DEF CountFor
    <3>2. balance'[c] = balance[c]
      BY <1>1, <1>2, <2>1
    <3> QED
      BY <2>0, <3>1, <3>2
  <2>2. CASE c = r
    <3>1. CountFor(c)' = CountFor(c) \ {v} /\ v \in CountFor(c) /\ CountFor(c) \in SUBSET Indices
      BY <1>1, <2>2, Zenon, ZenonT(20) DEF CountFor
    <3>2. IsFiniteSet(CountFor(c)) /\ IsFiniteSet(CountFor(c) \ {v})
      BY <3>1, IndicesFinite
    <3>3. \A x \in CountFor(c) : balances[x] \in Nat
      BY <1>2, <3>1
    <3>4. Total(balances, CountFor(c)) = balances[v] + Total(balances, CountFor(c) \ {v})
      BY <3>1, <3>2, <3>3, TotalWithout, SMT, SMTT(20)
    <3>5. Total(balances, CountFor(c) \ {v}) \in Nat
      BY <3>2, <3>3, TotalIsNat
    <3>6. balance'[c] = Floored(balance[c], balances[v])
      BY <1>1, <1>2, <2>2
    <3>7. previousBoost.score \in Nat /\ balances[v] \in Nat
      BY <1>2 DEF VotesType
    <3> QED
      BY <2>0, <3>1, <3>4, <3>5, <3>6, <3>7, SMT, SMTT(20) DEF Floored
  <2> QED
    BY <2>1, <2>2
<1>7. BalancesMatchVotes'
  BY <1>1, <1>6 DEF BalancesMatchVotes, CountFor
<1> QED
  BY <1>4, <1>5, <1>7 DEF VotesInv

\* Head counts the latest votes.
LEMMA HeadKeeps ==
  ASSUME VotesInv, ComputeHead
  PROVE  VotesInv'
<1>1. /\ balance' = Boosted(UpdatedBalances) /\ votes' = RotatedVotes /\ balances' = justified.balances
      /\ previousBoost' = [root |-> proposerBoostRoot, score |-> BoostScore]
      /\ UNCHANGED <<nodes, removed, level, slashedIndices, proposerBoostRoot, voteSlot>>
  BY DEF ComputeHead
<1>2. /\ VotesType /\ NodesBelow /\ RootsArrived
      /\ balances' \in [Indices -> Nat] /\ BoostScore \in Nat
  BY <1>1, LevelFacts, ScoreIsNat DEF VotesInv, VotesType, justified
<1>3. /\ balance' \in [TreeBlocks -> Nat]
      /\ \A b \in nodes :
            balance'[b] = Total(balances', {v \in Indices \ slashedIndices : votes[v].nextRoot = b})
                          + (IF proposerBoostRoot = b THEN BoostScore ELSE 0)
  BY <1>1, BoostedAreRight
<1>4. /\ \A v \in Indices : /\ votes'[v].nextRoot = votes[v].nextRoot
                             /\ votes'[v].currentRoot = IF v \in slashedIndices THEN votes[v].currentRoot
                                                        ELSE votes[v].nextRoot
      /\ votes' \in [Indices -> [currentRoot : Roots, nextRoot : Roots, nextEpoch : Int]]
  BY <1>1, <1>2, Zenon, ZenonT(20) DEF RotatedVotes, VotesType
<1>5. VotesType'
  BY <1>1, <1>2, <1>3, <1>4 DEF VotesType
<1>6. RootsArrived' /\ NodesBelow'
  <2>1. \A b : Arrived(b)' = Arrived(b)
    BY <1>1 DEF Arrived, justified
  <2>2. NodesBelow'
    BY <1>1, <1>2 DEF NodesBelow, justified
  <2> QED
    BY <1>1, <1>2, <1>4, <2>1, <2>2 DEF RootsArrived
<1>7. BalancesMatchVotes'
  <2>1. \A b \in nodes : {v \in Indices \ slashedIndices : votes[v].nextRoot = b} = CountFor(b)'
    BY <1>1, <1>4 DEF CountFor
  <2> QED
    BY <1>1, <1>3, <2>1 DEF BalancesMatchVotes, CountFor
<1> QED
  BY <1>5, <1>6, <1>7 DEF VotesInv

\* The invariant holds in every state.
LEMMA VotesInvHolds == VotesSpec => []VotesInv
<1>1. ASSUME VotesInv, [VotesNext]_voteVars PROVE VotesInv'
  <2>1. CASE UNCHANGED voteVars
    <3>1. VotesType' /\ NodesBelow'
      BY <1>1, <2>1 DEF voteVars, VotesInv, VotesType, NodesBelow, justified
    <3>2. RootsArrived'
      BY <1>1, <2>1 DEF voteVars, VotesInv, RootsArrived, Arrived, justified
    <3>3. BalancesMatchVotes'
      BY <1>1, <2>1 DEF voteVars, VotesInv, BalancesMatchVotes
    <3> QED
      BY <3>1, <3>2, <3>3 DEF VotesInv
  <2>2. CASE VotesNext
    BY <1>1, <2>2, InsertBlockKeeps, SlotTickKeeps, RemoveBlockKeeps, AttestationKeeps,
       SlashingKeeps, HeadKeeps DEF VotesNext
  <2> QED
    BY <1>1, <2>1, <2>2
<1> QED
  BY <1>1, InitVotesInv, PTL DEF VotesSpec

\* Whatever is removed, pruned, slashed or justified between two calls to
\* Head, the balance of a node is that of the votes counted for it.
THEOREM BalancesStayRight == VotesSpec => []BalancesMatchVotes
<1>1. VotesInv => BalancesMatchVotes
  BY DEF VotesInv
<1> QED
  BY <1>1, VotesInvHolds, PTL

-----------------------------------------------------------------------------
(* The tree and its branches *)

\* The ancestors of a block are itself and those of its parent.
LEMMA AncestryStep ==
  ASSUME NEW b \in TreeBlocks, NEW a \in Ancestry[b], a # b
  PROVE  b # AnchorRoot /\ a \in Ancestry[ParentRoot[b]]
<1>1. CASE b = AnchorRoot
  <2>1. {b} \in SUBSET TreeBlocks /\ HasParents({b})
    BY <1>1 DEF HasParents
  <2> QED
    BY <2>1 DEF Ancestry
<1>2. CASE b # AnchorRoot
  <2> DEFINE S == {b} \cup Ancestry[ParentRoot[b]]
  <2>1. ParentRoot[b] \in Ancestry[ParentRoot[b]] /\ HasParents(Ancestry[ParentRoot[b]])
    BY <1>2, AncestryOfParent, AncestryFacts
  <2>2. S \in SUBSET TreeBlocks
    BY <1>2, AncestryOfParent, AncestryFacts
  <2>3. HasParents(S)
    BY <2>1 DEF HasParents
  <2>4. a \in S
    BY <2>2, <2>3 DEF Ancestry
  <2> QED
    BY <1>2, <2>4
<1> QED
  BY <1>1, <1>2

\* Between a block and an ancestor is a child of the ancestor.
LEMMA AncestryDown ==
  ASSUME NEW b \in TreeBlocks, NEW a \in Ancestry[b], a # b
  PROVE  \E c \in Ancestry[b] \ {AnchorRoot} : ParentRoot[c] = a
<1> SUFFICES ASSUME \A c \in Ancestry[b] \ {AnchorRoot} : ParentRoot[c] # a
             PROVE  FALSE
  OBVIOUS
<1> DEFINE S == Ancestry[b] \ {a}
<1>1. S \in SUBSET TreeBlocks /\ b \in S /\ HasParents(Ancestry[b])
  BY AncestryFacts
<1>2. HasParents(S)
  BY <1>1 DEF HasParents
<1>3. a \in S
  BY <1>1, <1>2 DEF Ancestry
<1> QED
  BY <1>3

\* A child is later than its parent, and below it.
LEMMA ChildFacts ==
  ASSUME nodes \subseteq TreeBlocks, NEW b \in TreeBlocks, NEW c \in Children(nodes, b)
  PROVE  /\ c \in nodes /\ c \in TreeBlocks /\ c # AnchorRoot /\ ParentRoot[c] = b
         /\ BlockSlot[b] \in Nat /\ BlockSlot[c] \in Nat /\ BlockSlot[b] < BlockSlot[c]
         /\ VotingSource[b] <= VotingSource[c]
         /\ Ancestry[b] \subseteq Ancestry[c] /\ b \in Ancestry[c]
<1>1. c \in nodes /\ c \in TreeBlocks \ {AnchorRoot} /\ ParentRoot[c] = b
  BY DEF Children
<1>2. Ancestry[b] \subseteq Ancestry[c] /\ b \in Ancestry[b]
  BY <1>1, AncestryOfParent, AncestryFacts
<1>3. /\ BlockSlot[b] \in Nat /\ BlockSlot[c] \in Nat /\ BlockSlot[b] < BlockSlot[c]
      /\ VotingSource[b] <= VotingSource[c]
  BY <1>1, VotesAssumption
<1> QED
  BY <1>1, <1>2, <1>3

\* The nodes are the tree from the finalized block, with no gap, and the
\* justified block is one of them.
NodesConnected ==
  \A n \in nodes : \A a \in Ancestry[n] : justified.finalized \in Ancestry[a] => a \in nodes

TreeKept == NodesConnected /\ justified.root \in nodes

\* Pruning to the finalized block leaves no gap, and a justified block that
\* is adopted is there.
LEMMA LevelKeepsTree ==
  ASSUME VotesType, NEW N \in SUBSET TreeBlocks, NEW from, from \subseteq N, UpdateLevel(N, from),
         \A n \in N : \A a \in Ancestry[n] : justified.finalized \in Ancestry[a] => a \in N,
         justified.root \in N
  PROVE  TreeKept'
<1>1. PICK l \in level .. Len(Checkpoints) :
        /\ l = level \/ \E b \in from : JustifiesLevel(b, l)
        /\ level' = l /\ nodes' = SubtreeOf(N, Checkpoints[l].finalized)
  BY DEF UpdateLevel
<1>2. l \in 1 .. Len(Checkpoints) /\ level \in 1 .. l
  BY CheckpointsAssumption, SMT, SMTT(20) DEF VotesType
<1>3. /\ Checkpoints[l].root \in TreeBlocks /\ Checkpoints[l].finalized \in Ancestry[Checkpoints[l].root]
      /\ \A b \in TreeBlocks :
           Checkpoints[l].finalized \in Ancestry[b] => Checkpoints[level].finalized \in Ancestry[b]
  BY <1>2, LevelFacts, CheckpointsAssumption
<1>4. Checkpoints[l].root \in N
  BY <1>1, <1>3 DEF JustifiesLevel, justified
<1>5. justified' = Checkpoints[l]
  BY <1>1 DEF justified
<1>6. justified'.root \in nodes'
  BY <1>1, <1>3, <1>4, <1>5 DEF SubtreeOf
<1>7. ASSUME NEW n \in nodes', NEW a \in Ancestry[n], justified'.finalized \in Ancestry[a]
      PROVE  a \in nodes'
  <2>1. n \in N /\ a \in TreeBlocks
    BY <1>1, AncestryFacts DEF SubtreeOf
  <2>2. justified.finalized \in Ancestry[a]
    BY <1>3, <1>5, <1>7, <2>1 DEF justified
  <2>3. a \in N
    BY <2>1, <2>2
  <2> QED
    BY <1>1, <1>5, <1>7, <2>3 DEF SubtreeOf
<1> QED
  BY <1>6, <1>7 DEF TreeKept, NodesConnected

\* The tree has no gap in every state.
LEMMA TreeStaysKept == VotesSpec => []TreeKept
<1>1. VotesInit => TreeKept
  <2>1. \A a \in Ancestry[AnchorRoot] : a = AnchorRoot
    BY AncestryStep, VotesAssumption
  <2> QED
    BY <2>1, CheckpointsAssumption DEF VotesInit, TreeKept, NodesConnected, justified
<1>2. ASSUME VotesInv, TreeKept, [VotesNext]_voteVars PROVE TreeKept'
  <2>0. VotesType /\ nodes \in SUBSET TreeBlocks /\ NodesConnected /\ justified.root \in nodes
    BY <1>2 DEF VotesInv, VotesType, TreeKept
  <2>1. CASE UNCHANGED <<nodes, level>>
    BY <1>2, <2>1 DEF TreeKept, NodesConnected, justified
  <2>2. ASSUME NEW b \in TreeBlocks, NEW timely \in BOOLEAN, InsertBlock(b, timely) PROVE TreeKept'
    <3>1. ParentRoot[b] \in nodes /\ b # AnchorRoot /\ UpdateLevel(nodes \union {b}, {b})
      BY <2>2 DEF InsertBlock
    <3> DEFINE N == nodes \cup {b}
    <3>2. ASSUME NEW n \in N, NEW a \in Ancestry[n], justified.finalized \in Ancestry[a] PROVE a \in N
      <4>1. CASE n = b
        BY <2>0, <3>1, <3>2, <4>1, AncestryStep DEF NodesConnected
      <4>2. CASE n # b
        BY <2>0, <3>2, <4>2 DEF NodesConnected
      <4> QED
        BY <4>1, <4>2
    <3>3. N \in SUBSET TreeBlocks /\ {b} \subseteq N /\ justified.root \in N
      BY <2>0
    <3> QED
      BY <2>0, <3>1, <3>2, <3>3, LevelKeepsTree
  <2>3. CASE SlotTick
    <3>1. UpdateLevel(nodes, nodes) \/ UNCHANGED <<level, nodes>>
      BY <2>3 DEF SlotTick
    <3>2. CASE UpdateLevel(nodes, nodes)
      BY <2>0, <3>2, LevelKeepsTree DEF NodesConnected
    <3> QED
      BY <2>1, <3>1, <3>2
  <2>4. ASSUME NEW b \in nodes, RemoveBlock(b) PROVE TreeKept'
    <3>1. /\ b \notin Ancestry[justified.root] /\ nodes' = nodes \ SubtreeOf(nodes, b) /\ level' = level
      BY <2>4 DEF RemoveBlock
    <3>2. justified' = justified
      BY <3>1 DEF justified
    <3>3. justified.root \in nodes'
      BY <2>0, <3>1 DEF SubtreeOf
    <3>4. ASSUME NEW n \in nodes', NEW a \in Ancestry[n], justified.finalized \in Ancestry[a]
          PROVE  a \in nodes'
      <4>1. n \in nodes /\ b \notin Ancestry[n] /\ n \in TreeBlocks
        BY <2>0, <3>1 DEF SubtreeOf
      <4>2. a \in nodes /\ b \notin Ancestry[a]
        BY <2>0, <3>4, <4>1, AncestryFacts DEF NodesConnected
      <4> QED
        BY <3>1, <4>2 DEF SubtreeOf
    <3> QED
      BY <3>2, <3>3, <3>4 DEF TreeKept, NodesConnected
  <2>5. ASSUME NEW v \in Indices, NEW b \in nodes, NEW t \in 0 .. EpochOf(voteSlot), ProcessAttestation(v, b, t)
        PROVE  TreeKept'
    BY <2>1, <2>5 DEF ProcessAttestation
  <2>6. ASSUME NEW v \in Indices, InsertSlashedIndex(v) PROVE TreeKept'
    BY <2>1, <2>6 DEF InsertSlashedIndex
  <2>7. CASE ComputeHead
    BY <2>1, <2>7 DEF ComputeHead
  <2>8. CASE UNCHANGED voteVars
    BY <2>1, <2>8 DEF voteVars
  <2> QED
    BY <1>2, <2>2, <2>3, <2>4, <2>5, <2>6, <2>7, <2>8 DEF VotesNext
<1> QED
  BY <1>1, <1>2, VotesInvHolds, PTL DEF VotesSpec

-----------------------------------------------------------------------------
(* Weights *)

VotesFor(b) == {v \in Indices \ slashedIndices : votes[v].nextRoot = b}

\* Summed over a set of nodes, the balances that Head works out are those of
\* the votes for one of them, and the boost of one of them.
LEMMA WeightOfNodes ==
  ASSUME VotesInv, NEW X \in SUBSET nodes
  PROVE  Total(Boosted(UpdatedBalances), X) =
           Total(justified.balances, {v \in Indices \ slashedIndices : votes[v].nextRoot \in X})
           + (IF proposerBoostRoot \in X THEN BoostScore ELSE 0)
<1> DEFINE B == Boosted(UpdatedBalances)
           J == justified.balances
           On(Y) == {v \in Indices \ slashedIndices : votes[v].nextRoot \in Y}
           Right(Y) == Total(B, Y) = Total(J, On(Y)) + (IF proposerBoostRoot \in Y THEN BoostScore ELSE 0)
           bad == {Y \in SUBSET X : ~Right(Y)}
<1>1. VotesType /\ nodes \subseteq TreeBlocks /\ BoostScore \in Nat /\ \A x \in Indices : J[x] \in Nat
  BY ScoreIsNat, LevelFacts DEF VotesInv, VotesType, justified
<1>2. /\ B \in [TreeBlocks -> Nat]
      /\ \A b \in nodes : B[b] = Total(J, VotesFor(b)) + (IF proposerBoostRoot = b THEN BoostScore ELSE 0)
  BY BoostedAreRight DEF VotesFor
<1> HIDE DEF B, J
<1>3. IsFiniteSet(X)
  BY <1>1, VotesAssumption, FS_Subset
<1>4. ASSUME bad # {} PROVE FALSE
  <2>1. PICK Y \in bad : \A Z \in bad : Z \subseteq Y => Z = Y
    <3>1. bad \subseteq SUBSET X
      OBVIOUS
    <3> HIDE DEF bad
    <3> QED
      BY <1>3, <1>4, <3>1, SmallestSubset, SMT, SMTT(20)
  <2>2. Y \in SUBSET X /\ ~Right(Y) /\ IsFiniteSet(Y)
    BY <1>3, FS_Subset
  <2>3. CASE Y = {}
    <3>1. On({}) = {} /\ Total(B, {}) = 0 /\ Total(J, {}) = 0
      BY TotalOfNone
    <3> QED
      BY <2>2, <2>3, <3>1, SMT, SMTT(20)
  <2>4. CASE Y # {}
    <3>1. PICK b \in Y : TRUE
      BY <2>4
    <3> DEFINE Z == Y \ {b}
    <3>2. Z \in SUBSET X /\ Z # Y /\ Z \subseteq Y /\ b \in nodes
      BY <2>2, <3>1
    <3>3. Right(Z)
      BY <2>1, <3>2
    <3>4. \A y \in Y : B[y] \in Nat
      BY <1>1, <1>2, <2>2
    <3>5. Total(B, Y) = B[b] + Total(B, Z)
      BY <2>2, <3>1, <3>4, TotalWithout, SMT, SMTT(20)
    <3>6. On(Y) = On(Z) \cup VotesFor(b) /\ On(Z) \cap VotesFor(b) = {}
      BY <3>1, Zenon, ZenonT(20) DEF VotesFor
    <3>7. IsFiniteSet(On(Z)) /\ IsFiniteSet(VotesFor(b)) /\ \A x \in On(Z) \cup VotesFor(b) : J[x] \in Nat
      BY <1>1, IndicesFinite DEF VotesFor
    <3>8. Total(J, On(Y)) = Total(J, On(Z)) + Total(J, VotesFor(b))
      BY <3>6, <3>7, TotalOfUnion, SMT, SMTT(20)
    <3>9. Total(J, On(Z)) \in Nat /\ Total(J, VotesFor(b)) \in Nat
      BY <3>7, TotalIsNat
    <3>10. B[b] = Total(J, VotesFor(b)) + (IF proposerBoostRoot = b THEN BoostScore ELSE 0)
      BY <1>2, <3>2
    <3>11. Total(B, Z) = Total(J, On(Z)) + (IF proposerBoostRoot \in Z THEN BoostScore ELSE 0)
      BY <3>3
    <3>12. ~(Total(B, Y) = Total(J, On(Y)) + (IF proposerBoostRoot \in Y THEN BoostScore ELSE 0))
      BY <2>2
    <3> HIDE DEF On
    <3>13. proposerBoostRoot \in Y <=> proposerBoostRoot = b \/ proposerBoostRoot \in Z
      BY <3>1
    <3>14. ~(proposerBoostRoot = b /\ proposerBoostRoot \in Z)
      OBVIOUS
    <3> HIDE DEF Z
    <3> QED
      BY <1>1, <3>5, <3>8, <3>9, <3>10, <3>11, <3>12, <3>13, <3>14, SMT, SMTT(20)
  <2> QED
    BY <2>3, <2>4
<1>5. Right(X)
  BY <1>4, Zenon, ZenonT(20)
<1> QED
  BY <1>5 DEF B, J

\* The weight of a node in Head is its weight in the consensus specification.
LEMMA WeightIsGhost ==
  ASSUME VotesInv, NEW b \in nodes
  PROVE  Weight(Boosted(UpdatedBalances), b) = GhostWeight(b) /\ GhostWeight(b) \in Nat
<1> DEFINE X == SubtreeOf(nodes, b)
           s == (CommitteeWeight(justified.balances) * ProposerScoreBoost) \div 100
<1>1. X \in SUBSET nodes
  BY DEF SubtreeOf
<1>2. Total(Boosted(UpdatedBalances), X) =
        Total(justified.balances, LatestVotes(b)) + (IF proposerBoostRoot \in X THEN BoostScore ELSE 0)
  BY <1>1, WeightOfNodes DEF LatestVotes
<1>3. proposerBoostRoot \in X => BoostScore = s
  BY <1>1 DEF BoostScore
<1>4. BoostScore \in Nat
  BY ScoreIsNat DEF VotesInv
<1>5. Total(justified.balances, LatestVotes(b)) \in Nat
  <2>1. LatestVotes(b) \in SUBSET Indices
    BY DEF LatestVotes
  <2>2. \A x \in LatestVotes(b) : justified.balances[x] \in Nat
    BY <2>1, LevelFacts DEF VotesInv, VotesType, justified
  <2> QED
    BY <2>1, <2>2, IndicesFinite, TotalIsNat
<1>6. GhostWeight(b) = Total(justified.balances, LatestVotes(b)) + (IF proposerBoostRoot \in X THEN s ELSE 0)
  BY DEF GhostWeight
<1>7. Weight(Boosted(UpdatedBalances), b) = Total(Boosted(UpdatedBalances), X)
  BY DEF Weight
<1> HIDE DEF X, s
<1> QED
  BY <1>2, <1>3, <1>4, <1>5, <1>6, <1>7, SMT, SMTT(20)

-----------------------------------------------------------------------------
(* The heaviest child *)

Heavier(w, c, d) == w[c] > w[d] \/ (w[c] = w[d] /\ RootRank[c] > RootRank[d])

\* One of several blocks is heavier than the others, as no two have the same
\* root.
LEMMA OneIsHeaviest ==
  ASSUME NEW X \in SUBSET TreeBlocks, X # {}, NEW w, \A c \in X : w[c] \in Nat
  PROVE  /\ \E c \in X : \A d \in X \ {c} : Heavier(w, c, d)
         /\ \A c, d \in X : Heavier(w, c, d) => ~Heavier(w, d, c)
<1> DEFINE bad == {Y \in SUBSET X : Y # {} /\ ~\E c \in Y : \A d \in Y \ {c} : Heavier(w, c, d)}
<1>1. IsFiniteSet(X)
  BY VotesAssumption, FS_Subset
<1>2. \A c \in X : w[c] \in Nat /\ RootRank[c] \in Nat
  BY VotesAssumption
<1>3. \A c, d \in X : c # d => Heavier(w, c, d) \/ Heavier(w, d, c)
  <2> SUFFICES ASSUME NEW c \in X, NEW d \in X, c # d PROVE Heavier(w, c, d) \/ Heavier(w, d, c)
    OBVIOUS
  <2>1. RootRank[c] # RootRank[d]
    BY VotesAssumption
  <2> QED
    BY <1>2, <2>1, SMT, SMTT(20) DEF Heavier
<1>4. \A c, d, e \in X : Heavier(w, c, d) /\ Heavier(w, d, e) => Heavier(w, c, e)
  BY <1>2, SMT, SMTT(20) DEF Heavier
<1>5. \A c, d \in X : Heavier(w, c, d) => ~Heavier(w, d, c)
  BY <1>2, SMT, SMTT(20) DEF Heavier
<1>6. ASSUME bad # {} PROVE FALSE
  <2>1. PICK Y \in bad : \A Z \in bad : Z \subseteq Y => Z = Y
    <3>1. bad \subseteq SUBSET X
      OBVIOUS
    <3> HIDE DEF bad
    <3> QED
      BY <1>1, <1>6, <3>1, SmallestSubset, SMT, SMTT(20)
  <2>2. PICK b \in Y : b \in X
    BY <2>1
  <2>3. Y \ {b} \notin bad
    BY <2>1, <2>2, Zenon, ZenonT(20)
  <2>4. CASE Y \ {b} = {}
    BY <2>1, <2>2, <2>4
  <2>5. CASE Y \ {b} # {}
    <3>1. PICK c \in Y \ {b} : \A d \in (Y \ {b}) \ {c} : Heavier(w, c, d)
      BY <2>1, <2>3, <2>5
    <3>2. c \in X /\ c # b /\ Y \subseteq X
      BY <2>1, <3>1
    <3>3. CASE Heavier(w, c, b)
      BY <2>1, <2>2, <3>1, <3>2, <3>3
    <3>4. CASE Heavier(w, b, c)
      <4>1. \A d \in Y \ {b} : Heavier(w, b, d)
        BY <1>4, <2>2, <3>1, <3>2, <3>4
      <4> QED
        BY <2>1, <2>2, <4>1
    <3> QED
      BY <1>3, <2>2, <3>2, <3>3, <3>4
  <2> QED
    BY <2>4, <2>5
<1>7. X \notin bad
  BY <1>6
<1> QED
  BY <1>5, <1>7

\* Of several blocks one is no later than the others, and one no earlier.
LEMMA FirstAndLast ==
  ASSUME NEW X \in SUBSET TreeBlocks, X # {}
  PROVE  /\ \E b \in X : \A c \in X : BlockSlot[b] <= BlockSlot[c]
         /\ \E b \in X : \A c \in X : BlockSlot[c] <= BlockSlot[b]
<1>1. \A b \in X : BlockSlot[b] \in Nat
  BY VotesAssumption
<1> DEFINE T == {BlockSlot[b] : b \in X}
<1>2. T \subseteq Nat /\ T # {}
  BY <1>1
<1>3. PICK n \in T : \A m \in T : n <= m
  BY <1>2, SmallestNumber, Zenon, ZenonT(20)
<1>4. PICK b \in X : n = BlockSlot[b]
  BY <1>3
<1>5. \A c \in X : BlockSlot[b] <= BlockSlot[c]
  BY <1>3, <1>4
<1>6. PICK d \in X : \A c \in X \ {d} : Heavier(BlockSlot, d, c)
  BY <1>1, OneIsHeaviest
<1>7. \A c \in X : BlockSlot[c] <= BlockSlot[d]
  BY <1>1, <1>6, SMT, SMTT(20) DEF Heavier
<1> QED
  BY <1>5, <1>7

-----------------------------------------------------------------------------
(* The two recursions *)

\* A set of blocks with the children of its members.
HasChildren(Y) == \A b \in Y : Children(nodes, b) \subseteq Y

\* The earliest member of such a set is the child of none.
LEMMA WithoutFirst ==
  ASSUME nodes \subseteq TreeBlocks, NEW Y \in SUBSET TreeBlocks, Y # {}, HasChildren(Y)
  PROVE  \E b \in Y : HasChildren(Y \ {b}) /\ \A x \in Y : Children(nodes, x) \subseteq Y \ {b}
<1>1. PICK b \in Y : \A c \in Y : BlockSlot[b] <= BlockSlot[c]
  BY FirstAndLast
<1>2. ASSUME NEW x \in Y, NEW c \in Children(nodes, x) PROVE c \in Y /\ c # b
  <2>1. BlockSlot[x] \in Nat /\ BlockSlot[c] \in Nat /\ BlockSlot[x] < BlockSlot[c]
    BY ChildFacts
  <2>2. BlockSlot[b] <= BlockSlot[x]
    BY <1>1
  <2>3. c \in Y
    BY DEF HasChildren
  <2> QED
    BY <2>1, <2>2, <2>3, SMT, SMTT(20)
<1> QED
  BY <1>2, SMT, SMTT(20) DEF HasChildren

TipOf(g, b) == IF g[b] = NoRoot THEN b ELSE g[b]

TipsOf(B, g, b) ==
  {[child |-> c, tip |-> TipOf(g, c), weight |-> Weight(B, c)] : c \in Children(nodes, b)}

ViableTips(B, g, b) == {t \in TipsOf(B, g, b) : ViableForHead(t.tip)}

BestFrom(B, g, b) ==
  IF ViableTips(B, g, b) = {} THEN NoRoot
  ELSE (CHOOSE t \in ViableTips(B, g, b) : \A u \in ViableTips(B, g, b) \ {t} : Beats(t, u)).tip

IsBest(B, Y, g) == g = [b \in Y |-> BestFrom(B, g, b)]

\* The definition of BestDescendant.
LEMMA BestUnfolds ==
  ASSUME NEW B
  PROVE  BestDescendant(B) = (CHOOSE g : IsBest(B, TreeBlocks, g))[justified.root]
BY DEF BestDescendant, IsBest, BestFrom, ViableTips, TipsOf, TipOf

\* The best descendant of a node depends on those of its children.
LEMMA BestFromChildren ==
  ASSUME NEW B, NEW b, NEW g, NEW h, \A c \in Children(nodes, b) : g[c] = h[c]
  PROVE  BestFrom(B, g, b) = BestFrom(B, h, b)
<1>1. TipsOf(B, g, b) = TipsOf(B, h, b)
  BY DEF TipsOf, TipOf
<1> QED
  BY <1>1, SMT, SMTT(20) DEF BestFrom, ViableTips

\* The recursion of BestDescendant has a solution.
LEMMA BestExists ==
  ASSUME nodes \subseteq TreeBlocks, NEW B
  PROVE  \E g : IsBest(B, TreeBlocks, g)
<1> DEFINE bad == {Y \in SUBSET TreeBlocks : HasChildren(Y) /\ ~\E g : IsBest(B, Y, g)}
<1>1. ASSUME bad # {} PROVE FALSE
  <2>1. PICK Y \in bad : \A Z \in bad : Z \subseteq Y => Z = Y
    <3>1. bad \subseteq SUBSET TreeBlocks
      OBVIOUS
    <3> HIDE DEF bad
    <3> QED
      BY <1>1, <3>1, SmallestSubset, VotesAssumption, SMT, SMTT(20)
  <2>2. Y \in SUBSET TreeBlocks /\ HasChildren(Y) /\ ~\E g : IsBest(B, Y, g)
    BY <2>1
  <2>3. Y # {}
    <3>1. IsBest(B, {}, [b \in {} |-> NoRoot])
      BY DEF IsBest
    <3> QED
      BY <2>2, <3>1
  <2>4. PICK b \in Y : HasChildren(Y \ {b}) /\ \A x \in Y : Children(nodes, x) \subseteq Y \ {b}
    BY <2>2, <2>3, WithoutFirst
  <2>5. Y \ {b} \notin bad
    BY <2>1, <2>4, Zenon, ZenonT(20)
  <2>6. PICK g : IsBest(B, Y \ {b}, g)
    BY <2>2, <2>4, <2>5
  <2> DEFINE h == [x \in Y |-> IF x = b THEN BestFrom(B, g, b) ELSE g[x]]
  <2>7. ASSUME NEW x \in Y PROVE h[x] = BestFrom(B, h, x)
    <3>1. \A c \in Children(nodes, x) : g[c] = h[c]
      BY <2>4
    <3>2. BestFrom(B, g, x) = BestFrom(B, h, x)
      BY <3>1, BestFromChildren
    <3>3. x # b => g[x] = BestFrom(B, g, x)
      BY <2>6 DEF IsBest
    <3> QED
      BY <3>2, <3>3
  <2>8. IsBest(B, Y, h)
    BY <2>7 DEF IsBest
  <2> QED
    BY <2>2, <2>8
<1>2. HasChildren(TreeBlocks)
  BY DEF HasChildren, Children
<1>3. TreeBlocks \notin bad
  BY <1>1
<1> QED
  BY <1>2, <1>3

Leaves == {b \in SubtreeOf(nodes, justified.root) : Children(nodes, b) = {}}
ViableLeaves == {c \in Leaves : ViableForHead(c)}
Filtered == UNION {Ancestry[b] : b \in ViableLeaves}
GhostWeights == [b \in nodes |-> GhostWeight(b)]
NextOf(b) == Children(nodes, b) \cap Filtered
HeaviestNext(b) == CHOOSE c \in NextOf(b) : \A d \in NextOf(b) \ {c} : Heavier(GhostWeights, c, d)
FromNext(g, b) == IF NextOf(b) = {} THEN b ELSE g[HeaviestNext(b)]
IsFrom(Y, g) == g = [b \in Y |-> FromNext(g, b)]

\* The definition of GhostHead.
LEMMA GhostUnfolds ==
  GhostHead = IF Filtered = {} THEN NoRoot ELSE (CHOOSE g : IsFrom(TreeBlocks, g))[justified.root]
BY DEF GhostHead, Filtered, ViableLeaves, Leaves, IsFrom, FromNext, HeaviestNext, NextOf, GhostWeights,
       Heavier

\* The heaviest of the children that lead to a viable leaf.
LEMMA HeaviestNextIs ==
  ASSUME VotesInv, NEW b, NextOf(b) # {}
  PROVE  /\ HeaviestNext(b) \in NextOf(b)
         /\ \A d \in NextOf(b) \ {HeaviestNext(b)} : Heavier(GhostWeights, HeaviestNext(b), d)
<1>1. NextOf(b) \in SUBSET TreeBlocks /\ \A c \in NextOf(b) : c \in nodes
  BY DEF NextOf, Children, VotesInv, VotesType
<1>2. \A c \in NextOf(b) : GhostWeights[c] \in Nat
  BY <1>1, WeightIsGhost DEF GhostWeights
<1>3. \E c \in NextOf(b) : \A d \in NextOf(b) \ {c} : Heavier(GhostWeights, c, d)
  BY <1>1, <1>2, OneIsHeaviest
<1> QED
  BY <1>3 DEF HeaviestNext

\* The recursion of GhostHead has a solution.
LEMMA FromExists ==
  ASSUME VotesInv
  PROVE  \E g : IsFrom(TreeBlocks, g)
<1> DEFINE bad == {Y \in SUBSET TreeBlocks : HasChildren(Y) /\ ~\E g : IsFrom(Y, g)}
<1>0. nodes \subseteq TreeBlocks
  BY DEF VotesInv, VotesType
<1>1. ASSUME bad # {} PROVE FALSE
  <2>1. PICK Y \in bad : \A Z \in bad : Z \subseteq Y => Z = Y
    <3>1. bad \subseteq SUBSET TreeBlocks
      OBVIOUS
    <3> HIDE DEF bad
    <3> QED
      BY <1>1, <3>1, SmallestSubset, VotesAssumption, SMT, SMTT(20)
  <2>2. Y \in SUBSET TreeBlocks /\ HasChildren(Y) /\ ~\E g : IsFrom(Y, g)
    BY <2>1
  <2>3. Y # {}
    <3>1. IsFrom({}, [b \in {} |-> NoRoot])
      BY DEF IsFrom
    <3> QED
      BY <2>2, <3>1, Zenon, ZenonT(20)
  <2>4. PICK b \in Y : HasChildren(Y \ {b}) /\ \A x \in Y : Children(nodes, x) \subseteq Y \ {b}
    BY <1>0, <2>2, <2>3, WithoutFirst
  <2>5. Y \ {b} \notin bad
    BY <2>1, <2>4, Zenon, ZenonT(20)
  <2>6. PICK g : IsFrom(Y \ {b}, g)
    BY <2>2, <2>4, <2>5
  <2> DEFINE h == [x \in Y |-> IF x = b THEN FromNext(g, b) ELSE g[x]]
  <2>7. ASSUME NEW x \in Y PROVE h[x] = FromNext(h, x)
    <3>1. NextOf(x) # {} => HeaviestNext(x) \in Y \ {b}
      BY <2>4, HeaviestNextIs DEF NextOf
    <3>2. FromNext(g, x) = FromNext(h, x)
      BY <3>1 DEF FromNext
    <3>3. x # b => g[x] = FromNext(g, x)
      BY <2>6 DEF IsFrom
    <3> QED
      BY <3>2, <3>3
  <2>8. IsFrom(Y, h)
    BY <2>7 DEF IsFrom
  <2> QED
    BY <2>2, <2>8
<1>2. HasChildren(TreeBlocks)
  BY <1>0 DEF HasChildren, Children
<1>3. TreeBlocks \notin bad
  BY <1>1
<1> QED
  BY <1>2, <1>3

-----------------------------------------------------------------------------
(* The head *)

\* No block votes with a source that the store has not justified: a block is
\* only viable because of its source, or because the source is recent.
SourcesKnown == justified.epoch = 0 \/ \A b \in nodes : VotingSource[b] <= justified.epoch

\* A leaf below b is viable.
LeadsToLeaf(b) == \E c \in SubtreeOf(nodes, b) : Children(nodes, c) = {} /\ ViableForHead(c)

\* A block above a node and not above the finalized one is a node: what is
\* below a node is the node or below a child.
LEMMA LeadsByChild ==
  ASSUME VotesInv, TreeKept, NEW b \in nodes
  PROVE  LeadsToLeaf(b) <=> \/ Children(nodes, b) = {} /\ ViableForHead(b)
                            \/ \E c \in Children(nodes, b) : LeadsToLeaf(c)
<1>1. nodes \subseteq TreeBlocks /\ b \in TreeBlocks /\ NodesBelow /\ NodesConnected
  BY DEF VotesInv, VotesType, TreeKept
<1>2. ASSUME NEW c \in Children(nodes, b), NEW l \in SubtreeOf(nodes, c) PROVE l \in SubtreeOf(nodes, b)
  <2>1. b \in Ancestry[c] /\ l \in nodes /\ c \in Ancestry[l]
    BY <1>1, ChildFacts DEF SubtreeOf
  <2> QED
    BY <1>1, <2>1, AncestryFacts DEF SubtreeOf
<1>3. ASSUME NEW l \in SubtreeOf(nodes, b), l # b PROVE \E c \in Children(nodes, b) : l \in SubtreeOf(nodes, c)
  <2>1. l \in nodes /\ b \in Ancestry[l] /\ l \in TreeBlocks
    BY <1>1 DEF SubtreeOf
  <2>2. PICK c \in Ancestry[l] \ {AnchorRoot} : ParentRoot[c] = b
    BY <1>3, <2>1, AncestryDown
  <2>3. c \in TreeBlocks \ {AnchorRoot}
    BY <2>1, <2>2, AncestryFacts
  <2>4. justified.finalized \in Ancestry[c]
    BY <1>1, <2>2, <2>3, AncestryOfParent DEF NodesBelow
  <2>5. c \in nodes
    BY <1>1, <2>1, <2>2, <2>4 DEF NodesConnected
  <2> QED
    BY <2>1, <2>2, <2>5 DEF Children, SubtreeOf
<1>4. b \in SubtreeOf(nodes, b)
  BY <1>1, AncestryFacts DEF SubtreeOf
<1> QED
  BY <1>2, <1>3, <1>4 DEF LeadsToLeaf

\* A child of a viable block is viable.
LEMMA ViableBelow ==
  ASSUME VotesInv, SourcesKnown, NEW b \in nodes, NEW c \in Children(nodes, b), ViableForHead(b)
  PROVE  ViableForHead(c)
<1>1. VotesType /\ b \in TreeBlocks /\ nodes \subseteq TreeBlocks
  BY DEF VotesInv, VotesType
<1>2. c \in nodes /\ c \in TreeBlocks /\ VotingSource[b] <= VotingSource[c]
  BY <1>1, ChildFacts
<1>3. VotingSource[b] \in Nat /\ VotingSource[c] \in Nat
  BY <1>1, <1>2, VotesAssumption
<1>4. justified.epoch \in Nat
  BY <1>1, CheckpointsAssumption DEF VotesType, justified
<1>5. EpochOf(voteSlot) \in Int
  <2>1. voteSlot \in Nat /\ SlotsPerEpoch \in Nat \ {0}
    BY <1>1, VotesAssumption DEF VotesType
  <2> QED
    BY <2>1, SMT, SMTT(20) DEF EpochOf
<1>6. justified.epoch = 0 \/ VotingSource[c] <= justified.epoch
  BY <1>2 DEF SourcesKnown
<1> QED
  BY <1>2, <1>3, <1>4, <1>5, <1>6, SMT, SMTT(20) DEF ViableForHead

\* The children of a block under the justified one that GHOST considers.
LEMMA NextLeads ==
  ASSUME VotesInv, TreeKept, NEW b \in nodes, justified.root \in Ancestry[b]
  PROVE  NextOf(b) = {c \in Children(nodes, b) : LeadsToLeaf(c)}
<1>1. nodes \subseteq TreeBlocks /\ b \in TreeBlocks
  BY DEF VotesInv, VotesType
<1>2. ASSUME NEW c \in Children(nodes, b) PROVE c \in Filtered <=> LeadsToLeaf(c)
  <2>1. c \in nodes /\ c \in TreeBlocks /\ justified.root \in Ancestry[c]
    BY <1>1, ChildFacts
  <2>2. \A l \in nodes : c \in Ancestry[l] => justified.root \in Ancestry[l]
    BY <1>1, <2>1, AncestryFacts
  <2> QED
    BY <2>2 DEF Filtered, ViableLeaves, Leaves, LeadsToLeaf, SubtreeOf
<1> QED
  BY <1>2 DEF NextOf

\* What is at the end of the best descendants of b: a viable block if there
\* is a viable leaf below b, and then the one that GHOST reaches from b.
TipIsRight(g, k, b) ==
  /\ TipOf(g, b) \in nodes
  /\ ViableForHead(TipOf(g, b)) <=> LeadsToLeaf(b)
  /\ ViableForHead(b) => LeadsToLeaf(b)
  /\ justified.root \in Ancestry[b] /\ LeadsToLeaf(b) => TipOf(g, b) = k[b]

\* It is for a node when it is for the children.
LEMMA TipFromChildren ==
  ASSUME VotesInv, TreeKept, SourcesKnown,
         NEW B, \A c \in nodes : Weight(B, c) = GhostWeight(c),
         NEW g, IsBest(B, TreeBlocks, g), NEW k, IsFrom(TreeBlocks, k),
         NEW b \in nodes, \A c \in Children(nodes, b) : TipIsRight(g, k, c)
  PROVE  TipIsRight(g, k, b)
<1> DEFINE C == Children(nodes, b)
           V == ViableTips(B, g, b)
           T(c) == [child |-> c, tip |-> TipOf(g, c), weight |-> Weight(B, c)]
           L == {c \in C : LeadsToLeaf(c)}
<1>1. nodes \subseteq TreeBlocks /\ b \in TreeBlocks /\ NoRoot \notin TreeBlocks
  BY VotesAssumption DEF VotesInv, VotesType
<1>2. \A c \in C : c \in nodes /\ c \in TreeBlocks /\ Ancestry[b] \subseteq Ancestry[c]
  BY <1>1, ChildFacts
<1>3. g[b] = BestFrom(B, g, b) /\ k[b] = FromNext(k, b)
  BY <1>1 DEF IsBest, IsFrom
<1>4. LeadsToLeaf(b) <=> (C = {} /\ ViableForHead(b)) \/ \E c \in C : LeadsToLeaf(c)
  BY LeadsByChild
<1>5. \A c \in C : /\ TipOf(g, c) \in nodes
                   /\ ViableForHead(TipOf(g, c)) <=> LeadsToLeaf(c)
                   /\ ViableForHead(c) => LeadsToLeaf(c)
                   /\ justified.root \in Ancestry[c] /\ LeadsToLeaf(c) => TipOf(g, c) = k[c]
  BY DEF TipIsRight
<1>6. V = {T(c) : c \in L}
  BY <1>5, SMT, SMTT(20) DEF ViableTips, TipsOf
<1>7. ViableForHead(b) => LeadsToLeaf(b)
  BY <1>4, <1>5, ViableBelow
<1>8. justified.root \in Ancestry[b] => NextOf(b) = L
  BY NextLeads
<1>9. CASE L = {}
  <2>1. g[b] = NoRoot /\ TipOf(g, b) = b
    BY <1>3, <1>6, <1>9, SMT, SMTT(20) DEF BestFrom, TipOf
  <2>2. ViableForHead(b) <=> LeadsToLeaf(b)
    BY <1>4, <1>7, <1>9
  <2>3. justified.root \in Ancestry[b] => k[b] = b
    BY <1>3, <1>8, <1>9 DEF FromNext
  <2> QED
    BY <2>1, <2>2, <2>3 DEF TipIsRight
<1>10. CASE L # {}
  <2> DEFINE W == GhostWeights
  <2>1. L \in SUBSET TreeBlocks /\ \A c \in L : W[c] \in Nat /\ Weight(B, c) = W[c]
    BY <1>2, WeightIsGhost DEF GhostWeights
  <2>2. PICK m \in L : \A d \in L \ {m} : Heavier(W, m, d)
    BY <1>10, <2>1, OneIsHeaviest, Zenon, ZenonT(20)
  <2>3. \A c, d \in L : Heavier(W, c, d) => ~Heavier(W, d, c)
    BY <1>10, <2>1, OneIsHeaviest, Zenon, ZenonT(20)
  <2> HIDE DEF W
  <2>4. \A c, d \in L : Beats(T(c), T(d)) <=> Heavier(W, c, d)
    BY <2>1 DEF Beats, Heavier
  <2>5. \A c, d \in L : T(c) = T(d) => c = d
    OBVIOUS
  <2>6. T(m) \in V /\ \A u \in V \ {T(m)} : Beats(T(m), u)
    <3> HIDE DEF T
    <3> QED
      BY <1>6, <2>2, <2>4, <2>5
  <2>7. \A t \in V : (\A u \in V \ {t} : Beats(t, u)) => t = T(m)
    <3> SUFFICES ASSUME NEW c \in L, \A u \in V \ {T(c)} : Beats(T(c), u), c # m PROVE FALSE
      BY <1>6
    <3>1. T(m) \in V \ {T(c)}
      BY <2>5, <2>6
    <3>2. Beats(T(c), T(m))
      BY <3>1
    <3> HIDE DEF T
    <3> QED
      BY <2>2, <2>3, <2>4, <3>2
  <2>8. (CHOOSE t \in V : \A u \in V \ {t} : Beats(t, u)) = T(m)
    <3> HIDE DEF V, T
    <3> QED
      BY <2>6, <2>7
  <2>9. g[b] = TipOf(g, m)
    <3>1. V # {}
      BY <2>6
    <3>2. g[b] = (CHOOSE t \in V : \A u \in V \ {t} : Beats(t, u)).tip
      BY <1>3, <3>1 DEF BestFrom
    <3>3. T(m).tip = TipOf(g, m)
      OBVIOUS
    <3> HIDE DEF V, T
    <3> QED
      BY <2>8, <3>2, <3>3, Zenon, ZenonT(20)
  <2>10. TipOf(g, b) = TipOf(g, m) /\ TipOf(g, m) \in nodes /\ ViableForHead(TipOf(g, m))
    BY <1>1, <1>5, <2>9 DEF TipOf
  <2>11. LeadsToLeaf(b)
    BY <1>4, <2>2
  <2>12. ASSUME justified.root \in Ancestry[b] PROVE TipOf(g, b) = k[b]
    <3>1. NextOf(b) = L
      BY <1>8, <2>12
    <3>2. HeaviestNext(b) \in L /\ \A d \in L \ {HeaviestNext(b)} : Heavier(W, HeaviestNext(b), d)
      BY <1>10, <3>1, HeaviestNextIs DEF W
    <3>3. HeaviestNext(b) = m
      BY <2>2, <2>3, <3>2
    <3>4. k[b] = k[m]
      BY <1>3, <1>10, <3>1, <3>3 DEF FromNext
    <3>5. TipOf(g, m) = k[m]
      BY <1>2, <1>5, <2>12
    <3> QED
      BY <2>10, <3>4, <3>5
  <2> QED
    BY <1>7, <2>10, <2>11, <2>12 DEF TipIsRight
<1> QED
  BY <1>9, <1>10

\* So it is for all: for the latest block for which it were not, it would be
\* for the children.
LEMMA TipsAreRight ==
  ASSUME VotesInv, TreeKept, SourcesKnown,
         NEW B, \A c \in nodes : Weight(B, c) = GhostWeight(c),
         NEW g, IsBest(B, TreeBlocks, g), NEW k, IsFrom(TreeBlocks, k)
  PROVE  \A b \in nodes : TipIsRight(g, k, b)
<1> DEFINE bad == {b \in nodes : ~TipIsRight(g, k, b)}
<1>1. nodes \subseteq TreeBlocks
  BY DEF VotesInv, VotesType
<1>2. ASSUME bad # {} PROVE FALSE
  <2>1. PICK b \in bad : \A c \in bad : BlockSlot[c] <= BlockSlot[b]
    <3>1. bad \in SUBSET TreeBlocks
      BY <1>1
    <3> HIDE DEF bad
    <3> QED
      BY <1>2, <3>1, FirstAndLast
  <2>2. ASSUME NEW c \in Children(nodes, b) PROVE TipIsRight(g, k, c)
    <3>1. c \in nodes /\ BlockSlot[b] \in Nat /\ BlockSlot[c] \in Nat /\ BlockSlot[b] < BlockSlot[c]
      BY <1>1, <2>1, ChildFacts
    <3>2. c \notin bad
      BY <2>1, <3>1, SMT, SMTT(20)
    <3> QED
      BY <3>1, <3>2
  <2> QED
    BY <2>1, <2>2, TipFromChildren
<1> QED
  BY <1>2

\* The two recursions end in the same block.
LEMMA HeadFromInvariant ==
  ASSUME VotesInv, TreeKept, SourcesKnown
  PROVE  HeadIsGhost
<1> DEFINE B == Boosted(UpdatedBalances)
           g == CHOOSE h : IsBest(B, TreeBlocks, h)
           k == CHOOSE h : IsFrom(TreeBlocks, h)
           j == justified.root
<1>1. j \in nodes /\ j \in TreeBlocks /\ nodes \subseteq TreeBlocks
  BY DEF VotesInv, VotesType, TreeKept
<1>2. IsBest(B, TreeBlocks, g)
  BY <1>1, BestExists
<1>3. IsFrom(TreeBlocks, k)
  BY FromExists
<1>4. \A c \in nodes : Weight(B, c) = GhostWeight(c)
  BY WeightIsGhost
<1>5. BestDescendant(B) = g[j] /\ GhostHead = IF Filtered = {} THEN NoRoot ELSE k[j]
  BY BestUnfolds, GhostUnfolds
<1>6. HeadIsGhost <=> HeadOf(B) = GhostHead
  BY DEF HeadIsGhost
<1> HIDE DEF B, g, k
<1>7. TipIsRight(g, k, j)
  BY <1>1, <1>2, <1>3, <1>4, TipsAreRight
<1>8. HeadOf(B) = IF ViableForHead(TipOf(g, j)) THEN TipOf(g, j) ELSE NoRoot
  BY <1>5 DEF HeadOf, TipOf
<1>9. Filtered = {} <=> ~LeadsToLeaf(j)
  <2>1. \A b \in ViableLeaves : b \in Ancestry[b]
    BY <1>1, AncestryFacts DEF ViableLeaves, Leaves, SubtreeOf
  <2> QED
    BY <2>1 DEF Filtered, ViableLeaves, Leaves, LeadsToLeaf
<1>10. j \in Ancestry[j]
  BY <1>1, AncestryFacts
<1> QED
  BY <1>5, <1>6, <1>7, <1>8, <1>9, <1>10 DEF TipIsRight

\* Whatever order blocks, votes, slashings, removals and checkpoints come in,
\* a call to Head returns the head of the consensus specification, as long as
\* the store has adopted the justified checkpoints its blocks vote with.
THEOREM HeadStaysGhost == VotesSpec => [](SourcesKnown => HeadIsGhost)
<1>1. VotesInv /\ TreeKept => (SourcesKnown => HeadIsGhost)
  BY HeadFromInvariant
<1> QED
  BY <1>1, VotesInvHolds, TreeStaysKept, PTL
=============================================================================
