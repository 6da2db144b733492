-------------------------- MODULE BlockImportProofs -------------------------
(***************************************************************************)
(* Proofs about three ways of a block into the node: the queue of pending  *)
(* blocks, the epochs that its state goes through, and backfill.           *)
(***************************************************************************)
EXTENDS PendingBlocks, Justification, Backfill, FiniteSetTheorems, WellFoundedInduction, TLAPS

\* Most leaves are first-order; the solver takes the others.
USE ZenonT(10), SMTT(20), ZenonT(30), SMTT(40)

-----------------------------------------------------------------------------
(***************************************************************************)
(* The pending blocks queue and its set of seen roots agree, for every set *)
(* of blocks, every bound and every interleaving of PendingBlocks.         *)
(*                                                                         *)
(* QueuedAreSeen and SeenAreQueued speak of the queue alone, so that what  *)
(* has to be shown is that each operation on the queue keeps them.  Two    *)
(* facts must be added to make them inductive: a block lies in the entry   *)
(* of its own slot, because unmarking it would otherwise leave a copy      *)
(* elsewhere unmarked, and entries are finite.                             *)
(***************************************************************************)

QueueType ==
  [entries : [PendingSlots -> SUBSET PendingRoots],
   expired : SUBSET PendingSlots,
   seen : SUBSET PendingRoots,
   forgotten : SUBSET PendingRoots]

\* The entry of slot s in queue q.
EntryOK(q, s) ==
  /\ \A r \in q.entries[s] : PendingSlot[r] = s /\ r \in q.seen
  /\ IsFiniteSet(q.entries[s])
  /\ Cardinality(q.entries[s]) <= MaxBlocksPerSlot

QueueOK(q) ==
  /\ q \in QueueType
  /\ \A s \in PendingSlots : EntryOK(q, s)
  /\ \A r \in q.seen : r \in q.entries[PendingSlot[r]] \/ r \in q.forgotten

PassType ==
  [at : {"idle", "scan", "process", "import", "request"},
   slots : SUBSET PendingSlots, blocks : SUBSET PendingRoots,
   current : PendingRoots \cup {NoBlock},
   parents : SUBSET (PendingRoots \cup KnownRoots)]

\* What gossip and the pass hold are pending roots.
HeldOK ==
  /\ gossiped \in PendingRoots \cup {NoBlock}
  /\ pass \in PassType
  /\ pass.at \in {"process", "import"} => pass.current \in PendingRoots

PendingInv == QueueOK(pending) /\ HeldOK

\* The slot of a block is a key of the queue.
LEMMA SlotInSlots ==
  ASSUME NEW r \in PendingRoots
  PROVE  PendingSlot[r] \in PendingSlots
BY DEF PendingSlots

\* An entry that loses blocks stays finite and within its limit.
LEMMA SmallerEntry ==
  ASSUME NEW S, IsFiniteSet(S), Cardinality(S) <= MaxBlocksPerSlot,
         NEW T \in SUBSET S
  PROVE  IsFiniteSet(T) /\ Cardinality(T) <= MaxBlocksPerSlot
<1>1. IsFiniteSet(T) /\ Cardinality(T) <= Cardinality(S)
  BY FS_Subset
<1>2. Cardinality(S) \in Nat /\ Cardinality(T) \in Nat
  BY <1>1, FS_CardinalityType
<1> QED
  BY <1>1, <1>2, PendingAssumption, SMT, SMTT(20)

\* An entry below its limit has room for one more block.
LEMMA LargerEntry ==
  ASSUME NEW S, IsFiniteSet(S), ~(Cardinality(S) >= MaxBlocksPerSlot), NEW r
  PROVE  /\ IsFiniteSet(S \cup {r})
         /\ Cardinality(S \cup {r}) <= MaxBlocksPerSlot
<1>1. /\ IsFiniteSet(S \cup {r})
      /\ \/ Cardinality(S \cup {r}) = Cardinality(S)
         \/ Cardinality(S \cup {r}) = Cardinality(S) + 1
  BY FS_AddElement
<1>2. Cardinality(S) \in Nat
  BY FS_CardinalityType
<1> QED
  BY <1>1, <1>2, PendingAssumption, SMT, SMTT(20)

\* Insertion keeps the queue consistent: a dropped block becomes forgotten.
LEMMA InsertOK ==
  ASSUME NEW q, QueueOK(q), NEW r \in PendingRoots
  PROVE  QueueOK(InsertBlock(q, r))
<1> DEFINE s == PendingSlot[r]
           blks == PendingBlocksInCache(q, s)
           full == [q EXCEPT !.seen = @ \cup {r}, !.forgotten = @ \cup {r}]
           more == [q EXCEPT !.entries[s] = blks \cup {r}, !.expired = @ \ {s},
                             !.seen = @ \cup {r},
                             !.forgotten = @ \cup (q.entries[s] \ blks)]
<1>1. s \in PendingSlots
  BY SlotInSlots
<1>2. blks \in SUBSET q.entries[s] /\ q \in QueueType /\ EntryOK(q, s)
  BY <1>1 DEF QueueOK, PendingBlocksInCache
<1>3. CASE r \in q.seen
  BY <1>3 DEF InsertBlock
<1>4. CASE r \notin q.seen /\ Cardinality(blks) >= MaxBlocksPerSlot
  <2>1. InsertBlock(q, r) = full
    BY <1>4 DEF InsertBlock
  <2>2. QueueOK(full)
    BY <1>2 DEF QueueOK, QueueType, EntryOK
  <2> QED
    BY <2>1, <2>2
<1>5. CASE r \notin q.seen /\ ~(Cardinality(blks) >= MaxBlocksPerSlot)
  <2>1. InsertBlock(q, r) = more
    BY <1>5 DEF InsertBlock
  <2>2. IsFiniteSet(blks)
    BY <1>2, FS_Subset DEF EntryOK
  <2>3. IsFiniteSet(blks \cup {r}) /\ Cardinality(blks \cup {r}) <= MaxBlocksPerSlot
    BY <2>2, <1>5, LargerEntry
  <2> HIDE DEF blks
  <2>4. more \in QueueType
    BY <1>1, <1>2 DEF QueueType
  <2>5. ASSUME NEW t \in PendingSlots
        PROVE  EntryOK(more, t)
    <3>1. EntryOK(q, t)
      BY DEF QueueOK
    <3>2. CASE t = s
      BY <3>2, <1>1, <1>2, <2>3 DEF EntryOK, QueueType
    <3>3. CASE t # s
      BY <3>3, <3>1, <1>1, <1>2 DEF EntryOK, QueueType
    <3> QED
      BY <3>2, <3>3
  <2>6. ASSUME NEW b \in more.seen
        PROVE  b \in more.entries[PendingSlot[b]] \/ b \in more.forgotten
    <3>1. b \in q.seen \/ b = r
      BY <1>2 DEF QueueType
    <3>2. b \in PendingRoots
      BY <3>1, <1>2 DEF QueueType
    <3>3. CASE PendingSlot[b] = s
      BY <3>1, <3>3, <1>1, <1>2 DEF QueueOK, QueueType
    <3>4. CASE PendingSlot[b] # s
      BY <3>1, <3>2, <3>4, <1>1, <1>2, SlotInSlots DEF QueueOK, QueueType
    <3> QED
      BY <3>3, <3>4
  <2> QED
    BY <2>1, <2>4, <2>5, <2>6 DEF QueueOK
<1> QED
  BY <1>3, <1>4, <1>5

\* Taking blocks out of the entries and of the marks alike.
LEMMA DeleteBlocksOK ==
  ASSUME NEW q, QueueOK(q), NEW old
  PROVE  QueueOK(DeleteBlocks(q, old))
<1> DEFINE d == DeleteBlocks(q, old)
<1>1. d = [q EXCEPT !.entries = [s \in PendingSlots |-> q.entries[s] \ old],
                    !.seen = @ \ old]
  BY DEF DeleteBlocks
<1>2. q \in QueueType
  BY DEF QueueOK
<1>3. d \in QueueType
  <2>1. [s \in PendingSlots |-> q.entries[s] \ old]
          \in [PendingSlots -> SUBSET PendingRoots]
    BY <1>2 DEF QueueType
  <2> QED
    BY <1>1, <1>2, <2>1 DEF QueueType
<1>4. ASSUME NEW s \in PendingSlots
      PROVE  EntryOK(d, s)
  <2>1. EntryOK(q, s)
    BY DEF QueueOK
  <2>2. d.entries[s] = q.entries[s] \ old /\ d.seen = q.seen \ old
    BY <1>1, <1>2, SMT, SMTT(20) DEF QueueType
  <2>3. IsFiniteSet(d.entries[s]) /\ Cardinality(d.entries[s]) <= MaxBlocksPerSlot
    BY <2>1, <2>2, SmallerEntry DEF EntryOK
  <2> QED
    BY <2>1, <2>2, <2>3 DEF EntryOK
<1>5. ASSUME NEW r \in d.seen
      PROVE  r \in d.entries[PendingSlot[r]] \/ r \in d.forgotten
  <2>1. r \in q.seen /\ r \notin old /\ d.forgotten = q.forgotten
    BY <1>1, <1>2 DEF QueueType
  <2>2. PendingSlot[r] \in PendingSlots
    BY <2>1, <1>2, SlotInSlots DEF QueueType
  <2>3. d.entries[PendingSlot[r]] = q.entries[PendingSlot[r]] \ old
    BY <1>1, <1>2, <2>2, SMT, SMTT(20) DEF QueueType
  <2> QED
    BY <2>1, <2>3 DEF QueueOK
<1> QED
  BY <1>3, <1>4, <1>5 DEF QueueOK

\* deleteBlockFromPendingQueue keeps queue and marks in step.
LEMMA DeleteOK ==
  ASSUME NEW q, QueueOK(q), NEW r \in PendingRoots
  PROVE  QueueOK(DeleteBlock(q, r))
<1> DEFINE s == PendingSlot[r]
           d == [q EXCEPT !.entries[s] = q.entries[s] \ {r}, !.seen = @ \ {r}]
<1>1. s \in PendingSlots /\ q \in QueueType /\ EntryOK(q, s)
  BY SlotInSlots DEF QueueOK
<1>2. CASE PendingBlocksInCache(q, s) = {}
  BY <1>2 DEF DeleteBlock
<1>3. CASE PendingBlocksInCache(q, s) # {}
  <2>1. DeleteBlock(q, r) = d
    BY <1>3 DEF DeleteBlock, PendingBlocksInCache
  <2>2. \A t \in PendingSlots : t # s => r \notin q.entries[t]
    BY DEF QueueOK, EntryOK
  <2>3. [t \in PendingSlots |-> q.entries[t] \ {r}]
          = [q.entries EXCEPT ![s] = q.entries[s] \ {r}]
    <3>1. q.entries \in [PendingSlots -> SUBSET PendingRoots]
      BY <1>1 DEF QueueType
    <3> QED
      BY <1>1, <2>2, <3>1
  <2>4. d = DeleteBlocks(q, {r})
    BY <1>1, <2>3 DEF DeleteBlocks, QueueType
  <2> QED
    BY <2>1, <2>4, DeleteBlocksOK, SMT, SMTT(20)
<1> QED
  BY <1>2, <1>3

\* Evicting the expired entries.
LEMMA DeleteExpiredOK ==
  ASSUME NEW q, QueueOK(q)
  PROVE  QueueOK(DeleteExpired(q))
<1> DEFINE gone == UNION {q.entries[s] : s \in q.expired}
           d == DeleteBlocks(q, gone)
<1>1. q \in QueueType
  BY DEF QueueOK
<1>2. \A s \in PendingSlots :
        q.entries[s] \ gone = PendingBlocksInCache(q, s)
  BY <1>1, SMT, SMTT(20) DEF QueueOK, QueueType, EntryOK, PendingBlocksInCache
<1>3. DeleteExpired(q) = [d EXCEPT !.expired = {}]
  BY <1>1, <1>2 DEF DeleteExpired, DeleteBlocks, QueueType
<1>4. QueueOK(d)
  BY DeleteBlocksOK
<1> HIDE DEF d
<1>5. QueueOK([d EXCEPT !.expired = {}])
  BY <1>4 DEF QueueOK, QueueType, EntryOK
<1> QED
  BY <1>3, <1>5

\* Clearing the queue, and its first state.
LEMMA EmptyOK ==
  ASSUME NEW f \in SUBSET PendingRoots
  PROVE  QueueOK([EmptyQueue EXCEPT !.forgotten = f])
<1>1. IsFiniteSet({}) /\ Cardinality({}) <= MaxBlocksPerSlot
  BY FS_EmptySet, PendingAssumption, SMT, SMTT(20)
<1> QED
  BY <1>1 DEF QueueOK, QueueType, EntryOK, EmptyQueue

\* The expiry of an entry of the cache changes neither.
LEMMA ExpireOK ==
  ASSUME NEW q, QueueOK(q), NEW s \in PendingSlots
  PROVE  QueueOK([q EXCEPT !.expired = @ \cup {s}])
BY DEF QueueOK, QueueType, EntryOK

\* Every step keeps queue and marks in step, by its effect on the queue.
LEMMA QueueStep ==
  ASSUME PendingInv, [PendingNext]_pendingVars
  PROVE  QueueOK(pending')
<1> USE DEF PendingInv
<1>1. CASE StartPass
  <2>1. pending' \in ValidatePendingSlots(DeleteExpired(pending))
    BY <1>1 DEF StartPass
  <2>2. PICK old : pending' = DeleteBlocks(DeleteExpired(pending), old)
    BY <2>1 DEF ValidatePendingSlots
  <2> QED
    BY <2>2, DeleteExpiredOK, DeleteBlocksOK
<1>2. CASE OpenSlot
  BY <1>2 DEF OpenSlot
<1>3. CASE ReceiveBlock
  BY <1>3, DeleteOK DEF ReceiveBlock, HeldOK
<1>4. CASE FinishPending
  BY <1>4, DeleteOK DEF FinishPending, HeldOK
<1>5. CASE BroadcastFails
  BY <1>5 DEF BroadcastFails
<1>6. CASE SendBatchRootRequest
  BY <1>6 DEF SendBatchRootRequest
<1>7. CASE EndPass
  BY <1>7 DEF EndPass
<1>8. CASE QueueGossiped
  BY <1>8, InsertOK DEF QueueGossiped, HeldOK
<1>9. CASE NextPendingSlot
  BY <1>9 DEF NextPendingSlot
<1>10. CASE FinalizesPending
  BY <1>10 DEF FinalizesPending
<1>11. CASE ClearPendingSlots
  BY <1>11, EmptyOK DEF ClearPendingSlots, QueueOK, QueueType
<1>12. ASSUME NEW s \in PendingSlots, Expire(s)
       PROVE  QueueOK(pending')
  BY <1>12, ExpireOK DEF Expire
<1>13. ASSUME NEW r \in PendingRoots,
              \/ Drop(r) \/ BlockAnswered(r) \/ VotedBlockAnswered(r)
       PROVE  QueueOK(pending')
  BY <1>13, DeleteOK, InsertOK DEF Drop, BlockAnswered, VotedBlockAnswered
<1>14. ASSUME NEW r \in PendingRoots,
              \/ Wait(r) \/ ProcessPending(r)
              \/ GossipBadParent(r) \/ GossipBlock(r) \/ GossipImport(r)
       PROVE  QueueOK(pending')
  BY <1>14 DEF Wait, ProcessPending, GossipBadParent, GossipBlock, GossipImport
<1>15. CASE UNCHANGED pendingVars
  BY <1>15 DEF pendingVars
<1> QED
  BY <1>1, <1>2, <1>3, <1>4, <1>5, <1>6, <1>7, <1>8, <1>9, <1>10, <1>11,
     <1>12, <1>13, <1>14, <1>15 DEF PendingNext

\* What gossip and a pass hold in their hands are blocks of the queue.
LEMMA HeldStep ==
  ASSUME PendingInv, [PendingNext]_pendingVars
  PROVE  HeldOK'
<1>0. HeldOK /\ pending \in QueueType
  BY DEF PendingInv, QueueOK
<1> USE DEF HeldOK
<1>1. CASE StartPass
  BY <1>0, <1>1 DEF StartPass, IdlePass, PassType
<1>2. CASE OpenSlot
  <2>1. \A s \in PendingSlots : PendingBlocksInCache(pending, s) \in SUBSET PendingRoots
    BY <1>0 DEF PendingBlocksInCache, QueueType
  <2>2. PICK s \in pass.slots :
          pass' = [pass EXCEPT !.slots = @ \ {s},
                     !.blocks = IF s > clock.slot THEN {}
                                ELSE PendingBlocksInCache(pending, s)]
    BY <1>2 DEF OpenSlot
  <2>3. /\ s \in PendingSlots
        /\ (IF s > clock.slot THEN {} ELSE PendingBlocksInCache(pending, s))
             \in SUBSET PendingRoots
    BY <1>0, <2>1 DEF PassType
  <2>4. pass' \in PassType /\ pass'.at = pass.at /\ pass'.current = pass.current
    BY <1>0, <2>2, <2>3 DEF PassType
  <2> QED
    BY <1>0, <1>2, <2>4 DEF OpenSlot
<1>3. CASE ReceiveBlock
  BY <1>0, <1>3, ZenonT(20), ZenonT(40) DEF ReceiveBlock, Scanned, PassType
<1>4. CASE FinishPending \/ BroadcastFails
  BY <1>0, <1>4 DEF FinishPending, BroadcastFails, Scanned, PassType
<1>5. CASE SendBatchRootRequest
  BY <1>0, <1>5 DEF SendBatchRootRequest, IdlePass, PassType
<1>6. CASE EndPass
  BY <1>0, <1>6 DEF EndPass, IdlePass, PassType
<1>7. CASE QueueGossiped \/ NextPendingSlot \/ FinalizesPending \/ ClearPendingSlots
  BY <1>0, <1>7 DEF QueueGossiped, NextPendingSlot, FinalizesPending, ClearPendingSlots
<1>8. ASSUME NEW s \in PendingSlots, Expire(s)
      PROVE  HeldOK'
  BY <1>0, <1>8 DEF Expire
<1>9. ASSUME NEW r \in PendingRoots, Drop(r) \/ Wait(r)
      PROVE  HeldOK'
  <2>1. PendingParent[r] \in PendingRoots \cup KnownRoots
    BY PendingAssumption
  <2>2. /\ pass.at = "scan" /\ UNCHANGED gossiped
        /\ \/ pass' = Looked(r)
           \/ pass' = [Looked(r) EXCEPT !.parents = @ \cup {PendingParent[r]}]
    BY <1>9 DEF Drop, Wait
  <2>3. Looked(r) \in PassType /\ Looked(r).at = pass.at
    BY <1>0 DEF Looked, PassType
  <2>4. pass' \in PassType /\ pass'.at = "scan"
    BY <2>1, <2>2, <2>3, SMT, SMTT(20) DEF PassType
  <2> QED
    BY <1>0, <2>2, <2>4
<1>10. ASSUME NEW r \in PendingRoots, ProcessPending(r)
       PROVE  HeldOK'
  BY <1>0, <1>10 DEF ProcessPending, Looked, PassType
<1>11. ASSUME NEW r \in PendingRoots, BlockAnswered(r) \/ VotedBlockAnswered(r)
       PROVE  HeldOK'
  BY <1>0, <1>11 DEF BlockAnswered, VotedBlockAnswered, PassType
<1>12. ASSUME NEW r \in PendingRoots,
              \/ GossipBadParent(r) \/ GossipBlock(r) \/ GossipImport(r)
       PROVE  HeldOK'
  BY <1>0, <1>12 DEF GossipBadParent, GossipBlock, GossipImport
<1>13. CASE UNCHANGED pendingVars
  BY <1>0, <1>13 DEF pendingVars
<1> QED
  BY <1>1, <1>2, <1>3, <1>4, <1>5, <1>6, <1>7, <1>8, <1>9, <1>10, <1>11,
     <1>12, <1>13 DEF PendingNext

\* The queue is empty at first.
LEMMA PendingStarts == PendingInit => PendingInv
<1> SUFFICES ASSUME PendingInit PROVE PendingInv
  OBVIOUS
<1>1. QueueOK(pending)
  <2>1. IsFiniteSet({}) /\ Cardinality({}) <= MaxBlocksPerSlot
    BY FS_EmptySet, PendingAssumption, SMT, SMTT(20)
  <2>2. QueueOK(EmptyQueue)
    BY <2>1 DEF QueueOK, QueueType, EntryOK, EmptyQueue
  <2> QED
    BY <2>2 DEF PendingInit
<1>2. HeldOK
  BY DEF PendingInit, HeldOK, IdlePass, PassType
<1> QED
  BY <1>1, <1>2 DEF PendingInv

\* The invariant of the queue.
LEMMA PendingInvHolds == PendingSpec => []PendingInv
<1>1. PendingInv /\ [PendingNext]_pendingVars => PendingInv'
  BY QueueStep, HeldStep DEF PendingInv
<1> QED
  BY <1>1, PendingStarts, PTL DEF PendingSpec

\* Every queued block is marked as seen and no slot is overfull, however
\* insertBlockToPendingQueue, deleteBlockFromPendingQueue, the eviction of
\* expired entries and clearPendingSlots interleave.
THEOREM QueuedAreSeenHolds == PendingSpec => []QueuedAreSeen
<1>1. PendingInv => QueuedAreSeen
  BY DEF PendingInv, QueueOK, EntryOK, QueuedAreSeen
<1> QED
  BY <1>1, PendingInvHolds, PTL

\* Only a full slot and a replaced expired entry (addPendingBlockToCache)
\* leave a root in seenPendingBlocks that is not in the queue.
THEOREM SeenAreQueuedHolds == PendingSpec => []SeenAreQueued
<1>1. PendingInv => SeenAreQueued
  <2> SUFFICES ASSUME PendingInv, NEW r \in pending.seen
               PROVE  r \in Queued(pending) \cup pending.forgotten
    BY DEF SeenAreQueued
  <2>1. PendingSlot[r] \in PendingSlots
    BY SlotInSlots DEF PendingInv, QueueOK, QueueType
  <2> QED
    BY <2>1 DEF PendingInv, QueueOK, Queued
<1> QED
  BY <1>1, PendingInvHolds, PTL


(***************************************************************************)
(* A block that leaves the queue has a reason to.  Each operation on the   *)
(* queue takes out one block, or those of expired entries, except for      *)
(* validatePendingSlots, whose iteration has an arbitrary order: of the    *)
(* blocks it deletes without a reason the one that it visits first has a   *)
(* parent that it deleted before, so that the parent has one.              *)
(***************************************************************************)

Reason(r) ==
  \/ r \in dbBlocks' \cup beingSynced'
  \/ r \in badRoots'
  \/ PendingSlot[r] \in pending.expired
  \/ clock.finalized > 0 /\ r \in DescendsFromOld
  \/ pending'.seen = {}

\* A set of blocks has one whose slot is visited first.
LEMMA FirstVisited ==
  ASSUME NEW visit, \A s \in PendingSlots : visit[s] \in Nat,
         NEW T \in SUBSET PendingRoots, T # {}
  PROVE  \E r \in T : \A p \in T : ~(visit[PendingSlot[p]] < visit[PendingSlot[r]])
<1> DEFINE V == {visit[PendingSlot[r]] : r \in T}
<1>1. V \subseteq Nat /\ V # {}
  BY SlotInSlots
<1>2. PICK v \in V : \A w \in V : ~(<<w, v>> \in OpToRel(<, Nat))
  BY <1>1, NatLessThanWellFounded, WFMin
<1>3. PICK r \in T : v = visit[PendingSlot[r]]
  BY <1>2
<1>4. ASSUME NEW p \in T, visit[PendingSlot[p]] < visit[PendingSlot[r]] PROVE FALSE
  <2>1. visit[PendingSlot[p]] \in V /\ visit[PendingSlot[p]] \in Nat /\ visit[PendingSlot[r]] \in Nat
    BY <1>1
  <2>2. <<visit[PendingSlot[p]], v>> \in OpToRel(<, Nat)
    BY <1>3, <1>4, <2>1 DEF OpToRel
  <2> QED
    BY <1>2, <2>1, <2>2
<1> QED
  BY <1>4

\* Old blocks and what builds on them.
LEMMA OldIsClosed == HoldsOld(DescendsFromOld)
<1> SUFFICES ASSUME NEW r \in PendingRoots,
                    ToEpoch(PendingSlot[r]) <= clock.finalized \/ PendingParent[r] \in DescendsFromOld
             PROVE  r \in DescendsFromOld
  BY DEF HoldsOld
<1>1. ASSUME NEW S \in SUBSET PendingRoots, HoldsOld(S) PROVE r \in S
  BY <1>1 DEF HoldsOld, DescendsFromOld
<1> QED
  BY <1>1 DEF DescendsFromOld

\* What validatePendingSlots deletes, in whatever order it visits the slots.
LEMMA OldAreOld ==
  ASSUME NEW Q \in SUBSET PendingRoots, NEW o \in SUBSET Q, NEW visit,
         \A s \in PendingSlots : visit[s] \in Nat,
         o = {r \in Q : IsOld(r, visit, o)}, NEW r \in o
  PROVE  clock.finalized > 0 /\ r \in DescendsFromOld
<1> DEFINE T == {x \in o : ~(clock.finalized > 0 /\ x \in DescendsFromOld)}
<1> SUFFICES ASSUME T # {} PROVE FALSE
  OBVIOUS
<1>1. PICK x \in T : \A p \in T : ~(visit[PendingSlot[p]] < visit[PendingSlot[x]])
  BY FirstVisited
<1>2. IsOld(x, visit, o) /\ x \in PendingRoots
  OBVIOUS
<1>3. CASE clock.finalized > 0 /\ ToEpoch(PendingSlot[x]) <= clock.finalized
  BY <1>2, <1>3, OldIsClosed DEF HoldsOld
<1>4. CASE PendingParent[x] \in o /\ visit[PendingSlot[PendingParent[x]]] < visit[PendingSlot[x]]
  <2>1. clock.finalized > 0 /\ PendingParent[x] \in DescendsFromOld
    BY <1>1, <1>4
  <2> QED
    BY <1>2, <2>1, OldIsClosed DEF HoldsOld
<1> QED
  BY <1>2, <1>3, <1>4 DEF IsOld

\* deleteBlockFromPendingQueue takes out its block and no other.
LEMMA DeleteTakes ==
  ASSUME NEW q, QueueOK(q), NEW b \in PendingRoots, NEW r \in Queued(q) \ Queued(DeleteBlock(q, b))
  PROVE  r = b
<1>1. PICK s \in PendingSlots : r \in q.entries[s]
  BY DEF Queued
<1>2. q \in QueueType /\ PendingSlot[b] \in PendingSlots
  BY SlotInSlots DEF QueueOK
<1>3. r \notin DeleteBlock(q, b).entries[s]
  BY <1>1 DEF Queued
<1>4. CASE PendingBlocksInCache(q, PendingSlot[b]) = {}
  BY <1>1, <1>3, <1>4 DEF DeleteBlock
<1>5. CASE PendingBlocksInCache(q, PendingSlot[b]) # {}
  <2>1. DeleteBlock(q, b).entries = [q.entries EXCEPT ![PendingSlot[b]] = q.entries[PendingSlot[b]] \ {b}]
    BY <1>2, <1>5 DEF DeleteBlock, PendingBlocksInCache, QueueType
  <2>2. q.entries \in [PendingSlots -> SUBSET PendingRoots]
    BY <1>2 DEF QueueType
  <2> QED
    BY <1>1, <1>2, <1>3, <2>1, <2>2
<1> QED
  BY <1>4, <1>5

\* An insertion takes out only an entry that it replaces.
LEMMA InsertTakes ==
  ASSUME NEW q, QueueOK(q), NEW b \in PendingRoots, NEW r \in Queued(q) \ Queued(InsertBlock(q, b))
  PROVE  PendingSlot[r] \in q.expired
<1>1. PICK s \in PendingSlots : r \in q.entries[s]
  BY DEF Queued
<1>2. q \in QueueType /\ PendingSlot[b] \in PendingSlots /\ PendingSlot[r] = s
  BY <1>1, SlotInSlots DEF QueueOK, EntryOK
<1>3. r \notin InsertBlock(q, b).entries[s]
  BY <1>1 DEF Queued
<1> DEFINE blks == PendingBlocksInCache(q, PendingSlot[b])
<1>4. CASE b \in q.seen \/ Cardinality(blks) >= MaxBlocksPerSlot
  <2>1. InsertBlock(q, b).entries = q.entries
    BY <1>2, <1>4 DEF InsertBlock, QueueType
  <2> QED
    BY <1>1, <1>3, <2>1
<1>5. CASE ~(b \in q.seen \/ Cardinality(blks) >= MaxBlocksPerSlot)
  <2>1. InsertBlock(q, b).entries = [q.entries EXCEPT ![PendingSlot[b]] = blks \cup {b}]
    BY <1>2, <1>5 DEF InsertBlock, QueueType
  <2>2. q.entries \in [PendingSlots -> SUBSET PendingRoots]
    BY <1>2 DEF QueueType
  <2>3. s = PendingSlot[b] /\ r \notin blks
    BY <1>1, <1>2, <1>3, <2>1, <2>2
  <2> QED
    BY <1>1, <1>2, <2>3 DEF PendingBlocksInCache
<1> QED
  BY <1>4, <1>5

\* DeleteExpired takes out expired entries.
LEMMA ExpiryTakes ==
  ASSUME NEW q, QueueOK(q), NEW r \in Queued(q) \ Queued(DeleteExpired(q))
  PROVE  PendingSlot[r] \in q.expired
<1>1. PICK s \in PendingSlots : r \in q.entries[s]
  BY DEF Queued
<1>2. q \in QueueType /\ PendingSlot[r] = s
  BY <1>1 DEF QueueOK, EntryOK
<1>3. DeleteExpired(q).entries = [t \in PendingSlots |-> PendingBlocksInCache(q, t)]
  BY <1>2 DEF DeleteExpired, QueueType
<1> QED
  BY <1>1, <1>2, <1>3 DEF Queued, PendingBlocksInCache

\* validatePendingSlots takes out what it finds old.
LEMMA BlocksTaken ==
  ASSUME NEW q, QueueOK(q), NEW o, NEW r \in Queued(q) \ Queued(DeleteBlocks(q, o))
  PROVE  r \in o
<1>1. PICK s \in PendingSlots : r \in q.entries[s]
  BY DEF Queued
<1>2. DeleteBlocks(q, o).entries = [t \in PendingSlots |-> q.entries[t] \ o]
  BY DEF DeleteBlocks, QueueOK, QueueType
<1> QED
  BY <1>1, <1>2 DEF Queued

\* The start of a pass: expired entries, then what is old.
LEMMA StartPassReason ==
  ASSUME PendingInv, StartPass, NEW r \in Queued(pending) \ Queued(pending')
  PROVE  Reason(r)
<1> DEFINE q == DeleteExpired(pending)
<1>1. QueueOK(pending) /\ QueueOK(q)
  BY DeleteExpiredOK DEF PendingInv
<1> HIDE DEF q
<1>2. PICK o \in SUBSET Queued(q), visit \in [PendingSlots -> 1..Cardinality(PendingSlots)] :
        /\ pending' = DeleteBlocks(q, o)
        /\ o = {x \in Queued(q) : IsOld(x, visit, o)}
  BY DEF StartPass, ValidatePendingSlots, q
<1>3. \A s \in PendingSlots : visit[s] \in Nat
  <2> TAKE s \in PendingSlots
  <2>1. visit[s] \in 1..Cardinality(PendingSlots)
    OBVIOUS
  <2> QED
    BY <2>1, SMT, SMTT(20)
<1>4. Queued(q) \in SUBSET PendingRoots
  BY <1>1, SMT, SMTT(20) DEF QueueOK, QueueType, Queued
<1>5. CASE r \notin Queued(q)
  BY <1>1, <1>5, ExpiryTakes DEF Reason, q
<1>6. CASE r \in Queued(q)
  <2>1. r \in o
    BY <1>1, <1>2, <1>6, BlocksTaken
  <2> QED
    BY <1>2, <1>3, <1>4, <2>1, OldAreOld DEF Reason
<1> QED
  BY <1>5, <1>6

\* Every step of the queue, of a pass, of gossip and of time.
LEMMA StepReason ==
  ASSUME PendingInv, PendingNext, NEW r \in Queued(pending) \ Queued(pending')
  PROVE  Reason(r)
<1>0. QueueOK(pending) /\ HeldOK
  BY DEF PendingInv
<1>1. CASE StartPass
  BY <1>1, StartPassReason
<1>2. CASE UNCHANGED pending
  BY <1>2
<1>3. CASE ReceiveBlock
  BY <1>0, <1>2, <1>3, DeleteTakes DEF ReceiveBlock, HeldOK, Reason
<1>4. CASE FinishPending
  BY <1>0, <1>2, <1>4, DeleteTakes DEF FinishPending, Imported, HeldOK, Reason
<1>5. CASE QueueGossiped
  BY <1>0, <1>5, InsertTakes DEF QueueGossiped, HeldOK, Reason
<1>6. CASE ClearPendingSlots
  BY <1>6 DEF ClearPendingSlots, EmptyQueue, Reason
<1>7. ASSUME NEW s \in PendingSlots, Expire(s) PROVE Reason(r)
  <2>1. pending'.entries = pending.entries
    BY <1>0, <1>7 DEF Expire, QueueOK, QueueType
  <2> QED
    BY <2>1 DEF Queued
<1>8. ASSUME NEW b \in PendingRoots, Drop(b) PROVE Reason(r)
  <2>1. r = b
    BY <1>0, <1>8, DeleteTakes DEF Drop
  <2> QED
    BY <1>8, <2>1 DEF Drop, IsBad, Reason
<1>9. ASSUME NEW b \in PendingRoots, BlockAnswered(b) \/ VotedBlockAnswered(b) PROVE Reason(r)
  BY <1>0, <1>9, InsertTakes DEF BlockAnswered, VotedBlockAnswered, Reason
<1>10. OpenSlot \/ BroadcastFails \/ SendBatchRootRequest \/ EndPass \/ NextPendingSlot
         \/ FinalizesPending => UNCHANGED pending
  BY DEF OpenSlot, BroadcastFails, SendBatchRootRequest, EndPass, NextPendingSlot, FinalizesPending
<1>11. ASSUME NEW b \in PendingRoots,
              \/ Wait(b) \/ ProcessPending(b)
              \/ GossipBadParent(b) \/ GossipBlock(b) \/ GossipImport(b)
       PROVE  UNCHANGED pending
  BY <1>11 DEF Wait, ProcessPending, GossipBadParent, GossipBlock, GossipImport
<1> QED
  BY <1>1, <1>2, <1>3, <1>4, <1>5, <1>6, <1>7, <1>8, <1>9, <1>10, <1>11, Zenon, ZenonT(20) DEF PendingNext

(***************************************************************************)
(* A block leaves the pending queue only when it is or is being imported,  *)
(* is bad, has expired, is older than the finalized epoch or descends from *)
(* such a block, or at a resync, in whatever order validatePendingSlots    *)
(* visits the slots and whatever runs between the steps of a pass.         *)
(***************************************************************************)
THEOREM BlocksLeaveForAReason == PendingSpec => LeaveForAReason
<1>1. ASSUME PendingInv, [PendingNext]_pendingVars
      PROVE  [\A r \in Queued(pending) \ Queued(pending') :
                \/ r \in dbBlocks' \cup beingSynced'
                \/ r \in badRoots'
                \/ PendingSlot[r] \in pending.expired
                \/ clock.finalized > 0 /\ r \in DescendsFromOld
                \/ pending'.seen = {}]_pendingVars
  BY <1>1, StepReason DEF Reason
<1> QED
  BY <1>1, PendingInvHolds, PTL DEF PendingSpec, LeaveForAReason

-----------------------------------------------------------------------------
(***************************************************************************)
(* What Justification promises, for every balance and any number of        *)
(* epochs.                                                                 *)
(*                                                                         *)
(* None of the properties is inductive: that a finalized epoch is the      *)
(* source of a link follows from what the bits remember, namely that bit 0 *)
(* stands for a link from the previous justified epoch to the last epoch   *)
(* and bit 1 for the justification of the epoch before it.                 *)
(***************************************************************************)

JustificationType ==
  /\ currentEpoch \in Nat
  /\ justificationBits \in [0 .. 3 -> BOOLEAN]
  /\ previousJustified \in Nat /\ currentJustified \in Nat /\ finalized \in Nat
  /\ justifiedEpochs \subseteq Nat

\* What the first two bits remember of the links.
BitsRemember ==
  /\ justificationBits[0] => /\ <<previousJustified, currentEpoch - 1>> \in links
                             /\ currentEpoch - 1 \in justifiedEpochs
  /\ justificationBits[1] => currentEpoch - 2 \in justifiedEpochs

\* Epochs 0 and 1 leave the state as it was at genesis.
GenesisState ==
  /\ currentEpoch < 2 => /\ currentJustified = 0
                         /\ ~justificationBits[0] /\ ~justificationBits[1]
  /\ currentEpoch >= 2 => previousJustified <= currentEpoch - 2

JustificationInv ==
  /\ JustificationType /\ BitsRemember /\ GenesisState
  /\ FinalizedByLink /\ JustifiedByLink /\ CheckpointsInOrder

\* The links of an epoch transition, one for each supermajority.
LEMMA NewLinksAre ==
  ASSUME JustificationType, NEW p \in Nat, NEW c \in Nat
  PROVE  /\ <<previousJustified, currentEpoch - 1>> \in NewLinks(p, c) <=> Supermajority(p)
         /\ <<currentJustified, currentEpoch>> \in NewLinks(p, c) <=> Supermajority(c)
         /\ \A l \in NewLinks(p, c) : \/ l = <<previousJustified, currentEpoch - 1>> /\ Supermajority(p)
                                      \/ l = <<currentJustified, currentEpoch>> /\ Supermajority(c)
BY JustificationAssumption, SMT, SMTT(20) DEF JustificationType, NewLinks, Supermajority

\* The bits after an epoch transition, as far as the rules read them.
LEMMA NewBitsAre ==
  ASSUME JustificationType, NEW p \in Nat, NEW c \in Nat
  PROVE  /\ NewBits(p, c) \in [0 .. 3 -> BOOLEAN]
         /\ NewBits(p, c)[0] <=> Supermajority(c)
         /\ NewBits(p, c)[1] <=> (justificationBits[0] \/ Supermajority(p))
         /\ NewBits(p, c)[2] <=> justificationBits[1]
         /\ NewBits(p, c)[3] <=> justificationBits[2]
<1>1. Supermajority(p) \in BOOLEAN /\ Supermajority(c) \in BOOLEAN
  BY SMT, SMTT(20) DEF Supermajority
<1>2. \A i \in 0 .. 3 : justificationBits[i] \in BOOLEAN
  BY DEF JustificationType
<1>3. \A i \in 2 .. 3 : i - 1 \in 0 .. 3 /\ i # 0 /\ i # 1
  BY SMT, SMTT(20)
<1> QED
  BY <1>1, <1>2, <1>3, SMT, SMTT(20) DEF NewBits

\* The invariant holds at genesis.
LEMMA InvInitially == JustificationInit => JustificationInv
BY SMT, SMTT(20) DEF JustificationInit, JustificationInv, JustificationType, BitsRemember, GenesisState,
       FinalizedByLink, JustifiedByLink, CheckpointsInOrder

\* Epochs 0 and 1 keep the invariant: nothing but the epoch changes.
LEMMA InvEarly == JustificationInv /\ EarlyEpoch => JustificationInv'
BY SMT, SMTT(20) DEF EarlyEpoch, JustificationInv, JustificationType, BitsRemember, GenesisState,
       FinalizedByLink, JustifiedByLink, CheckpointsInOrder

\* Every later epoch transition keeps the invariant.
LEMMA InvProcess ==
  ASSUME JustificationInv, NEW p \in 0 .. TotalActiveBalance, NEW c \in 0 .. TotalActiveBalance,
         ProcessEpoch(p, c)
  PROVE  JustificationInv' /\ finalized' >= finalized /\ currentJustified' >= currentJustified
<1> DEFINE bits == NewBits(p, c)
           new == NewLinks(p, c)
<1>0. p \in Nat /\ c \in Nat
  BY JustificationAssumption, SMT, SMTT(20)
<1>1. /\ currentEpoch \in Nat /\ currentEpoch >= 2 /\ currentEpoch' = currentEpoch + 1
      /\ justificationBits' = bits
      /\ previousJustified' = currentJustified
      /\ currentJustified' = Justified(bits) /\ finalized' = Finalized(bits)
      /\ links' = links \cup new
      /\ justifiedEpochs' = justifiedEpochs \cup {l[2] : l \in new}
  BY DEF ProcessEpoch, JustificationInv, JustificationType
<1>2. /\ bits \in [0 .. 3 -> BOOLEAN]
      /\ bits[0] <=> Supermajority(c)
      /\ bits[1] <=> (justificationBits[0] \/ Supermajority(p))
      /\ bits[2] <=> justificationBits[1]
  BY <1>0, NewBitsAre DEF JustificationInv
<1>3. /\ <<previousJustified, currentEpoch - 1>> \in new <=> Supermajority(p)
      /\ <<currentJustified, currentEpoch>> \in new <=> Supermajority(c)
      /\ \A l \in new : \/ l = <<previousJustified, currentEpoch - 1>> /\ Supermajority(p)
                        \/ l = <<currentJustified, currentEpoch>> /\ Supermajority(c)
  BY <1>0, NewLinksAre DEF JustificationInv
<1>4. \A e : e \in justifiedEpochs' <=>
               \/ e \in justifiedEpochs
               \/ e = currentEpoch - 1 /\ Supermajority(p)
               \/ e = currentEpoch /\ Supermajority(c)
  <2> HIDE DEF new
  <2>1. \A e : e \in {l[2] : l \in new} <=> \E l \in new : e = l[2]
    OBVIOUS
  <2>2. <<previousJustified, currentEpoch - 1>>[2] = currentEpoch - 1
    OBVIOUS
  <2>3. <<currentJustified, currentEpoch>>[2] = currentEpoch
    OBVIOUS
  <2> QED
    BY <1>1, <1>3, <2>1, <2>2, <2>3
<1> HIDE DEF bits, new
<1>5. /\ bits[0] => <<currentJustified, currentEpoch>> \in links' /\ currentEpoch \in justifiedEpochs'
      /\ bits[1] => <<previousJustified, currentEpoch - 1>> \in links' /\ currentEpoch - 1 \in justifiedEpochs'
      /\ bits[2] => currentEpoch - 2 \in justifiedEpochs'
  BY <1>1, <1>2, <1>3, <1>4 DEF JustificationInv, BitsRemember
<1>6. /\ previousJustified \in Nat /\ currentJustified \in Nat /\ finalized \in Nat
      /\ finalized <= previousJustified /\ previousJustified <= currentJustified
      /\ currentJustified < currentEpoch /\ previousJustified <= currentEpoch - 2
      /\ {finalized, previousJustified, currentJustified} \subseteq justifiedEpochs
      /\ \A e \in justifiedEpochs : e <= currentJustified /\ e \in Nat
  BY <1>1, SMT, SMTT(20) DEF JustificationInv, JustificationType, CheckpointsInOrder, GenesisState
<1>7. /\ currentJustified' = IF bits[0] THEN currentEpoch
                             ELSE IF bits[1] THEN currentEpoch - 1 ELSE currentJustified
      /\ currentJustified' \in Nat
      /\ currentJustified' >= currentJustified /\ currentJustified' <= currentEpoch
      /\ currentJustified' \in justifiedEpochs'
  <2>1. currentEpoch >= currentJustified /\ currentEpoch - 1 >= currentJustified
    BY <1>1, <1>6, SMT, SMTT(20)
  <2>2. currentJustified' = IF bits[0] THEN currentEpoch
                            ELSE IF bits[1] THEN currentEpoch - 1 ELSE currentJustified
    BY <1>1, <2>1 DEF Justified
  <2> QED
    BY <1>1, <1>4, <1>5, <1>6, <2>1, <2>2, SMT, SMTT(20)
<1>8. /\ finalized' \in {finalized, previousJustified, currentJustified}
      /\ finalized' # finalized =>
           \E k \in {1, 2} : /\ <<finalized', finalized' + k>> \in links'
                             /\ \A e \in finalized' .. finalized' + k : e \in justifiedEpochs'
  <2>1. previousJustified \in justifiedEpochs' /\ currentJustified \in justifiedEpochs'
    BY <1>4, <1>6
  <2>2. CASE bits[0] /\ bits[1] /\ currentJustified + 1 = currentEpoch
    <3>1. finalized' = currentJustified
      BY <1>1, <2>2 DEF Finalized
    <3>2. <<finalized', finalized' + 1>> \in links' /\ finalized' + 1 \in justifiedEpochs'
      BY <1>5, <2>2, <3>1
    <3> QED
      BY <1>6, <2>1, <3>1, <3>2, SMT, SMTT(20)
  <2>3. CASE /\ ~(bits[0] /\ bits[1] /\ currentJustified + 1 = currentEpoch)
             /\ bits[0] /\ bits[1] /\ bits[2] /\ currentJustified + 2 = currentEpoch
    <3>1. finalized' = currentJustified
      BY <1>1, <2>3 DEF Finalized
    <3>2. <<finalized', finalized' + 2>> \in links' /\ finalized' + 2 \in justifiedEpochs'
          /\ finalized' + 1 \in justifiedEpochs'
      BY <1>1, <1>5, <1>6, <2>3, <3>1, SMT, SMTT(20)
    <3> QED
      BY <1>6, <2>1, <3>1, <3>2, SMTT(20), SMTT(40)
  <2>4. CASE /\ ~(bits[0] /\ bits[1] /\ currentJustified + 1 = currentEpoch)
             /\ ~(bits[0] /\ bits[1] /\ bits[2] /\ currentJustified + 2 = currentEpoch)
             /\ bits[1] /\ bits[2] /\ previousJustified + 2 = currentEpoch
    <3>1. finalized' = previousJustified
      BY <1>1, <2>4 DEF Finalized
    <3>2. <<finalized', finalized' + 1>> \in links' /\ finalized' + 1 \in justifiedEpochs'
      BY <1>1, <1>5, <1>6, <2>4, <3>1, SMT, SMTT(20)
    <3> QED
      BY <1>6, <2>1, <3>1, <3>2, SMT, SMTT(20)
  <2>5. CASE /\ ~(bits[0] /\ bits[1] /\ currentJustified + 1 = currentEpoch)
             /\ ~(bits[0] /\ bits[1] /\ bits[2] /\ currentJustified + 2 = currentEpoch)
             /\ ~(bits[1] /\ bits[2] /\ previousJustified + 2 = currentEpoch)
             /\ bits[1] /\ bits[2] /\ bits[3] /\ previousJustified + 3 = currentEpoch
    <3>1. finalized' = previousJustified
      BY <1>1, <2>5 DEF Finalized
    <3>2. <<finalized', finalized' + 2>> \in links' /\ finalized' + 2 \in justifiedEpochs'
          /\ finalized' + 1 \in justifiedEpochs'
      BY <1>1, <1>5, <1>6, <2>5, <3>1, SMT, SMTT(20)
    <3> QED
      BY <1>6, <2>1, <3>1, <3>2, SMT, SMTT(20)
  <2>6. CASE /\ ~(bits[0] /\ bits[1] /\ currentJustified + 1 = currentEpoch)
             /\ ~(bits[0] /\ bits[1] /\ bits[2] /\ currentJustified + 2 = currentEpoch)
             /\ ~(bits[1] /\ bits[2] /\ previousJustified + 2 = currentEpoch)
             /\ ~(bits[1] /\ bits[2] /\ bits[3] /\ previousJustified + 3 = currentEpoch)
    BY <1>1, <2>6 DEF Finalized
  <2> QED
    BY <2>2, <2>3, <2>4, <2>5, <2>6
<1>9. finalized' \in Nat /\ finalized' >= finalized /\ finalized' <= currentJustified
      /\ finalized' \in justifiedEpochs'
  BY <1>4, <1>6, <1>8, SMTT(20), SMTT(40)
<1>10. JustificationType'
  <2>1. justifiedEpochs' \subseteq Nat /\ currentEpoch' \in Nat
    BY <1>1, <1>4, <1>6, SMT, SMTT(20)
  <2> QED
    BY <1>1, <1>2, <1>6, <1>7, <1>9, <2>1 DEF JustificationType
<1>11. BitsRemember'
  <2>1. currentEpoch' - 1 = currentEpoch /\ currentEpoch' - 2 = currentEpoch - 1
    BY <1>1, SMT, SMTT(20)
  <2> QED
    BY <1>1, <1>5, <2>1 DEF BitsRemember
<1>12. GenesisState'
  BY <1>1, <1>6, SMT, SMTT(20) DEF GenesisState
<1>13. FinalizedByLink'
  <2>1. CASE finalized' # finalized
    BY <1>8, <2>1 DEF FinalizedByLink
  <2>2. CASE finalized' = finalized
    BY <1>1, <1>4, <2>2 DEF FinalizedByLink, JustificationInv
  <2> QED
    BY <2>1, <2>2
<1>14. JustifiedByLink'
  <2> SUFFICES ASSUME NEW t \in justifiedEpochs' \ {0}
               PROVE  \E s \in justifiedEpochs' : s < t /\ <<s, t>> \in links'
    BY DEF JustifiedByLink
  <2>1. CASE t \in justifiedEpochs
    BY <1>1, <1>4, <2>1 DEF JustificationInv, JustifiedByLink
  <2>2. CASE t = currentEpoch - 1 /\ Supermajority(p)
    <3>1. previousJustified < t /\ previousJustified \in justifiedEpochs'
      BY <1>1, <1>4, <1>6, <2>2, SMT, SMTT(20)
    <3> QED
      BY <1>1, <1>3, <2>2, <3>1
  <2>3. CASE t = currentEpoch /\ Supermajority(c)
    <3>1. currentJustified < t /\ currentJustified \in justifiedEpochs'
      BY <1>4, <1>6, <2>3
    <3> QED
      BY <1>1, <1>3, <2>3, <3>1
  <2> QED
    BY <1>4, <2>1, <2>2, <2>3
<1>15. CheckpointsInOrder'
  <2>1. \A e \in justifiedEpochs' : e <= currentJustified'
    BY <1>1, <1>2, <1>4, <1>6, <1>7, SMT, SMTT(20)
  <2>2. {finalized', previousJustified', currentJustified'} \subseteq justifiedEpochs'
    BY <1>1, <1>4, <1>6, <1>7, <1>9
  <2> QED
    BY <1>1, <1>6, <1>7, <1>9, <2>1, <2>2, SMT, SMTT(20) DEF CheckpointsInOrder
<1> QED
  BY <1>7, <1>9, <1>10, <1>11, <1>12, <1>13, <1>14, <1>15 DEF JustificationInv

\* The invariant of every reachable state.
LEMMA JustificationInvariant == JustificationSpec => []JustificationInv
<1>1. JustificationInv /\ [JustificationNext]_justificationVars => JustificationInv'
  <2> SUFFICES ASSUME JustificationInv, [JustificationNext]_justificationVars
               PROVE  JustificationInv'
    OBVIOUS
  <2>1. CASE EarlyEpoch
    BY <2>1, InvEarly
  <2>2. CASE \E p, c \in 0 .. TotalActiveBalance : ProcessEpoch(p, c)
    BY <2>2, InvProcess
  <2>3. CASE UNCHANGED justificationVars
    BY <2>3 DEF justificationVars, JustificationInv, JustificationType, BitsRemember, GenesisState,
                FinalizedByLink, JustifiedByLink, CheckpointsInOrder
  <2> QED
    BY <2>1, <2>2, <2>3 DEF JustificationNext
<1> QED
  BY <1>1, InvInitially, PTL DEF JustificationSpec

(* computeCheckpoints finalizes an epoch only when a supermajority link    *)
(* leaves it over justified epochs only, for every history of votes.       *)
THEOREM FinalityIsEarned == JustificationSpec => []FinalizedByLink
BY JustificationInvariant, PTL DEF JustificationInv

(* What is justified is reached from genesis by supermajority links.       *)
THEOREM JustificationIsEarned == JustificationSpec => []JustifiedByLink
BY JustificationInvariant, PTL DEF JustificationInv

(* The three checkpoints of a state are in order and justified.            *)
THEOREM CheckpointsStayInOrder == JustificationSpec => []CheckpointsInOrder
BY JustificationInvariant, PTL DEF JustificationInv

(* More votes never move the unrealized checkpoints back, whatever the      *)
(* balances: the rules of computeCheckpoints are monotone in the bits that  *)
(* a reachable state allows.                                                *)
THEOREM UnrealizedStaysBehind == JustificationSpec => []UnrealizedIsBehind
<1>1. JustificationInv => UnrealizedIsBehind
  <2> SUFFICES ASSUME JustificationInv,
                      NEW p2 \in 0 .. TotalActiveBalance, NEW c2 \in 0 .. TotalActiveBalance,
                      NEW p \in 0 .. p2, NEW c \in 0 .. c2
               PROVE  /\ UnrealizedJustified(p, c) <= UnrealizedJustified(p2, c2)
                      /\ UnrealizedFinalized(p, c) <= UnrealizedFinalized(p2, c2)
    BY DEF UnrealizedIsBehind
  <2> DEFINE few == NewBits(p, c)
             more == NewBits(p2, c2)
  <2>1. p \in Nat /\ p2 \in Nat /\ c \in Nat /\ c2 \in Nat /\ p <= p2 /\ c <= c2
    BY JustificationAssumption, SMT, SMTT(20)
  <2>2. /\ Supermajority(p) => Supermajority(p2)
        /\ Supermajority(c) => Supermajority(c2)
    BY <2>1, JustificationAssumption, SMT, SMTT(20) DEF Supermajority
  <2>3. /\ few[0] => more[0]
        /\ few[1] => more[1]
        /\ few[2] <=> more[2]
        /\ few[3] <=> more[3]
    BY <2>1, <2>2, NewBitsAre DEF JustificationInv
  <2> HIDE DEF few, more
  <2>4. /\ currentEpoch \in Nat
        /\ previousJustified \in Nat /\ currentJustified \in Nat /\ finalized \in Nat
        /\ finalized <= previousJustified /\ previousJustified <= currentJustified
        /\ currentEpoch >= 2 => currentJustified < currentEpoch
    BY SMT, SMTT(20) DEF JustificationInv, JustificationType, CheckpointsInOrder
  <2>5. CASE currentEpoch <= 1
    BY <2>4, <2>5, SMT, SMTT(20) DEF UnrealizedJustified, UnrealizedFinalized
  <2>6. CASE currentEpoch >= 2
    <3>1. /\ UnrealizedJustified(p, c) = Justified(few) /\ UnrealizedJustified(p2, c2) = Justified(more)
          /\ UnrealizedFinalized(p, c) = Finalized(few) /\ UnrealizedFinalized(p2, c2) = Finalized(more)
      BY <2>4, <2>6, SMT, SMTT(20) DEF UnrealizedJustified, UnrealizedFinalized, few, more
    <3>2. Justified(few) <= Justified(more)
      BY <2>3, <2>4, <2>6, SMT, SMTT(20) DEF Justified
    <3>3. Finalized(few) <= Finalized(more)
      BY <2>3, <2>4, <2>6, SMT, SMTT(20) DEF Finalized
    <3> QED
      BY <3>1, <3>2, <3>3
  <2> QED
    BY <2>4, <2>5, <2>6, SMT, SMTT(20)
<1> QED
  BY <1>1, JustificationInvariant, PTL

(* No epoch transition lowers the finalized or the justified epoch.        *)
THEOREM FinalityIsKept == JustificationSpec => NeverTakenBack
<1>1. JustificationInv /\ [JustificationNext]_justificationVars =>
        [finalized' >= finalized /\ currentJustified' >= currentJustified]_justificationVars
  <2> SUFFICES ASSUME JustificationInv, JustificationNext
               PROVE  finalized' >= finalized /\ currentJustified' >= currentJustified
    OBVIOUS
  <2>1. CASE EarlyEpoch
    BY <2>1, SMT, SMTT(20) DEF EarlyEpoch, JustificationInv, JustificationType
  <2>2. CASE \E p, c \in 0 .. TotalActiveBalance : ProcessEpoch(p, c)
    BY <2>2, InvProcess
  <2> QED
    BY <2>1, <2>2 DEF JustificationNext
<1> QED
  BY <1>1, JustificationInvariant, PTL DEF JustificationSpec, NeverTakenBack

-----------------------------------------------------------------------------
\* A nonempty set of numbers has a smallest one: loops are reasoned about by the
\* first turn that goes wrong.
LEMMA SmallestNumber ==
  ASSUME NEW T, T \subseteq Nat, T # {}
  PROVE  \E n \in T : \A m \in T : n <= m
<1>1. PICK n \in T : \A m \in T : ~(<<m, n>> \in OpToRel(<, Nat))
  BY NatLessThanWellFounded, WFMin
<1>2. ASSUME NEW m \in T, m < n PROVE FALSE
  <2>1. <<m, n>> \in OpToRel(<, Nat)
    BY <1>2 DEF OpToRel
  <2> QED
    BY <1>1, <2>1
<1>3. \A m \in T : n <= m
  BY <1>2, SMT, SMTT(20)
<1> QED
  BY <1>3

-----------------------------------------------------------------------------
(***************************************************************************)
(* Backfill writes its status last: whatever fails or stops in between,    *)
(* the blocks that the status counts are in the database and the index.    *)
(*                                                                         *)
(* The sequence of batches is rebuilt in loops.  Of a loop two facts are   *)
(* needed: it has a result, and what each turn keeps holds of the result.  *)
(* Both follow from a first turn at which they would fail.                 *)
(***************************************************************************)

\* After every turn of the loop g its result is what D allows.
Keeps(g, a, n, D) == \A i \in a .. n : g[i] \in D[i]

\* What every turn of a loop keeps holds at its end.
LEMMA LoopKeeps ==
  ASSUME NEW a \in Nat, NEW k, k = a + 1, NEW n \in Nat, NEW D, NEW g, g[a] \in D[a],
         \A i \in k .. n : g[i - 1] \in D[i - 1] => g[i] \in D[i]
  PROVE  Keeps(g, a, n, D)
<1> USE DEF Keeps
<1> DEFINE bad == {i \in a .. n : g[i] \notin D[i]}
<1>1. bad \subseteq Nat /\ \A i \in a .. n : i \in bad <=> g[i] \notin D[i]
  BY SMT, SMTT(20)
<1>2. \A i \in bad : i \in a .. n
  OBVIOUS
<1> HIDE DEF bad
<1>3. ASSUME bad # {} PROVE FALSE
  <2>1. PICK i \in bad : \A j \in bad : i <= j
    BY <1>1, <1>3, SmallestNumber, Zenon, ZenonT(20)
  <2>2. i \in a .. n /\ i # a
    BY <1>1, <1>2, <2>1
  <2>3. i \in k .. n /\ i - 1 \in a .. n /\ ~(i <= i - 1)
    BY <2>2, SMT, SMTT(20)
  <2>4. i - 1 \notin bad
    BY <2>1, <2>3
  <2> QED
    BY <1>1, <2>1, <2>2, <2>3, <2>4
<1> QED
  BY <1>1, <1>3

IsLoop(g, a, k, n, x, F, D) ==
  /\ DOMAIN g = a .. n /\ g = [i \in a .. n |-> g[i]] /\ g[a] = x
  /\ \A i \in k .. n : g[i] = F[i][g[i - 1]] /\ g[i - 1] \in D[i - 1]

\* A loop whose turns can all be taken has a result: F[i] is turn i.
LEMMA LoopExists ==
  ASSUME NEW a \in Nat, NEW k, k = a + 1, NEW D, NEW F, NEW x, x \in D[a], NEW n \in Nat, a <= n,
         \A i \in k .. n : \A r \in D[i - 1] : F[i][r] \in D[i]
  PROVE  \E g : IsLoop(g, a, k, n, x, F, D)
<1> USE DEF IsLoop
<1> DEFINE Is(g, m) == IsLoop(g, a, k, m, x, F, D) /\ g[m] \in D[m]
           bad == {m \in a .. n : ~\E g : Is(g, m)}
<1>1. bad \subseteq Nat /\ \A m \in a .. n : m \in bad <=> ~\E g : Is(g, m)
  BY SMT, SMTT(20)
<1>2. \A m \in bad : m \in a .. n
  OBVIOUS
<1> HIDE DEF bad
<1>3. a \notin bad
  <2>1. Is([i \in a .. a |-> x], a)
    BY SMT, SMTT(20)
  <2>2. a \in a .. n
    BY SMT, SMTT(20)
  <2> QED
    BY <1>1, <2>1, <2>2, Zenon, ZenonT(20)
<1>4. ASSUME bad # {} PROVE FALSE
  <2>1. PICK m \in bad : \A j \in bad : m <= j
    BY <1>1, <1>4, SmallestNumber, Zenon, ZenonT(20)
  <2>2. m \in a .. n /\ m # a
    BY <1>2, <1>3, <2>1
  <2>3. m \in k .. n /\ m - 1 \in a .. n /\ ~(m <= m - 1)
    BY <2>2, SMT, SMTT(20)
  <2>4. PICK g : Is(g, m - 1)
    BY <1>1, <2>1, <2>3
  <2> DEFINE h == [i \in a .. m |-> IF i = m THEN F[m][g[m - 1]] ELSE g[i]]
  <2>5. h[m] = F[m][g[m - 1]] /\ \A i \in a .. m - 1 : h[i] = g[i]
    BY <2>3, SMT, SMTT(20)
  <2>6. DOMAIN h = a .. m /\ h = [i \in a .. m |-> h[i]]
    OBVIOUS
  <2> HIDE DEF h
  <2>7. h[a] = x
    BY <2>3, <2>4, <2>5, SMT, SMTT(20)
  <2>8. ASSUME NEW i \in k .. m PROVE h[i] = F[i][h[i - 1]] /\ h[i - 1] \in D[i - 1]
    <3>1. CASE i = m
      BY <2>3, <2>4, <2>5, <3>1, SMT, SMTT(20)
    <3>2. CASE i # m
      <4>1. i \in k .. m - 1 /\ i \in a .. m - 1 /\ i - 1 \in a .. m - 1
        BY <2>3, <3>2, SMT, SMTT(20)
      <4> QED
        BY <2>4, <2>5, <4>1
    <3> QED
      BY <3>1, <3>2
  <2>9. h[m] \in D[m]
    BY <2>3, <2>4, <2>5
  <2>10. Is(h, m)
    BY <2>6, <2>7, <2>8, <2>9
  <2> QED
    BY <1>1, <2>1, <2>2, <2>10
<1>5. n \in a .. n /\ n \notin bad
  BY <1>4, SMT, SMTT(20)
<1> QED
  BY <1>1, <1>5

BatchStates ==
  {"nil", "init", "sequenced", "syncColumns", "syncBlobs", "importable", "errRetryable", "complete", "end"}

Batch == [begin : Int, end : Int, state : BatchStates, seq : Int, failed : BatchStates]

\* The batch below a slot.
LEMMA BeforeType ==
  ASSUME NEW u \in Int, NEW w \in Int
  PROVE  Before(u, w) \in Batch
<1>1. \A x, y \in Int : MakeBatch(x, y, "end") \in Batch /\ MakeBatch(x, y, "init") \in Batch
  BY SMT, SMTT(20) DEF MakeBatch, Batch, BatchStates
<1>2. u - BatchSize \in Int
  BY BackfillAssumption, SMT, SMTT(20)
<1> QED
  BY <1>1, <1>2 DEF Before

\* The operations on a batch keep its slots.
LEMMA WithStateType ==
  ASSUME NEW b \in Batch, NEW s \in BatchStates
  PROVE  WithState(b, s) \in Batch /\ WithState(b, s).begin = b.begin /\ WithState(b, s).end = b.end
<1> DEFINE c == [b EXCEPT !.state = s]
<1>1. c \in Batch /\ c.begin = b.begin /\ c.end = b.end /\ c.seq + 1 \in Int
  BY SMT, SMTT(20) DEF Batch
<1>2. WithState(b, s) = [c EXCEPT !.seq = c.seq + 1]
  BY DEF WithState, Batch
<1> HIDE DEF c
<1> QED
  BY <1>1, <1>2 DEF Batch

BatchSeq == [1 .. BackfillWorkers -> Batch]

\* The batches that are kept are among the batches of the sequence.
LEMMA UnfinishedType ==
  ASSUME NEW Q \in BatchSeq, NEW w
  PROVE  Unfinished(Q, w) \in Seq(Batch) /\ Len(Unfinished(Q, w)) <= BackfillWorkers
<1> DEFINE W == BackfillWorkers
           Drops(i) == Q[i].state = "complete" \/ Expired(Q[i], w)
           Turn(r, i) == IF Drops(i) THEN r ELSE Append(r, Q[i])
           Is(g) == g = [i \in 0 .. W |-> IF i = 0 THEN <<>> ELSE IF Drops(i) THEN g[i - 1] ELSE Append(g[i - 1], Q[i])]
           D == [i \in 0 .. W |-> {r \in Seq(Batch) : Len(r) <= i}]
           F == [i \in 1 .. W |-> [r \in D[i - 1] |-> Turn(r, i)]]
           up == CHOOSE g : Is(g)
<1>1. W \in Nat /\ 0 <= W /\ 0 \in Nat /\ 1 = 0 + 1
  BY BackfillAssumption, SMT, SMTT(20)
<1>2. Unfinished(Q, w) = up[W]
  BY DEF Unfinished
<1>3. ASSUME NEW i \in 1 .. W, NEW r \in D[i - 1] PROVE Turn(r, i) \in D[i]
  <2>1. i \in Nat /\ i - 1 \in 0 .. W /\ i \in 0 .. W /\ Q[i] \in Batch
    BY <1>1, SMT, SMTT(20) DEF BatchSeq
  <2>2. r \in Seq(Batch) /\ Len(r) <= i - 1
    BY <2>1
  <2>3. Append(r, Q[i]) \in Seq(Batch) /\ Len(Append(r, Q[i])) <= i /\ Len(r) <= i
    BY <2>1, <2>2, SMT, SMTT(20)
  <2> QED
    BY <2>1, <2>2, <2>3
<1>5. <<>> \in D[0]
  BY <1>1, SMT, SMTT(20)
<1> HIDE DEF D, Turn
<1>4. ASSUME NEW i \in 1 .. W, NEW r \in D[i - 1] PROVE F[i][r] = Turn(r, i) /\ F[i][r] \in D[i]
  BY <1>3
<1> HIDE DEF F
<1>6. PICK g : IsLoop(g, 0, 1, W, <<>>, F, D)
  <2>1. \A i \in 1 .. W : \A r \in D[i - 1] : F[i][r] \in D[i]
    BY <1>4
  <2> HIDE DEF W
  <2> QED
    BY <1>1, <1>5, <2>1, LoopExists, Zenon, ZenonT(20)
<1>7. Is(g)
  <2>1. ASSUME NEW i \in 0 .. W
        PROVE  g[i] = IF i = 0 THEN <<>> ELSE IF Drops(i) THEN g[i - 1] ELSE Append(g[i - 1], Q[i])
    <3>1. CASE i = 0
      BY <1>6, <3>1 DEF IsLoop
    <3>2. CASE i # 0
      <4>1. i \in 1 .. W
        BY <1>1, <3>2, SMT, SMTT(20)
      <4>2. g[i] = Turn(g[i - 1], i)
        BY <1>4, <1>6, <4>1 DEF IsLoop
      <4> QED
        BY <3>2, <4>2 DEF Turn
    <3> QED
      BY <3>1, <3>2
  <2> QED
    BY <1>6, <2>1 DEF IsLoop
<1> HIDE DEF Drops
<1>8. Is(up)
  BY <1>7
<1> HIDE DEF up
<1>9. up[0] = <<>> /\ \A i \in 1 .. W : up[i] = Turn(up[i - 1], i)
  <2>1. \A i \in 0 .. W : up[i] = IF i = 0 THEN <<>> ELSE IF Drops(i) THEN up[i - 1] ELSE Append(up[i - 1], Q[i])
    BY <1>8, Zenon, ZenonT(20)
  <2>2. 0 \in 0 .. W /\ \A i \in 1 .. W : i \in 0 .. W /\ i # 0
    BY <1>1, SMT, SMTT(20)
  <2> QED
    BY <2>1, <2>2 DEF Turn
<1>10. \A i \in 1 .. W : up[i - 1] \in D[i - 1] => up[i] \in D[i]
  BY <1>3, <1>9
<1>11. Keeps(up, 0, W, D)
  <2> HIDE DEF W
  <2>1. up[0] \in D[0]
    BY <1>5, <1>9
  <2> QED
    BY <1>1, <1>10, <2>1, LoopKeeps, Zenon, ZenonT(20)
<1>12. up[W] \in D[W]
  BY <1>1, <1>11, SMT, SMTT(20) DEF Keeps
<1> QED
  BY <1>1, <1>2, <1>12, SMT, SMTT(20) DEF D

\* The refilled sequence has all its batches.
LEMMA RefillType ==
  ASSUME NEW Q \in Seq(Batch), Q # <<>>, Len(Q) <= BackfillWorkers, NEW w \in Int
  PROVE  Refill(Q, w) \in BatchSeq
<1> DEFINE W == BackfillWorkers
           a == Len(Q)
           k == a + 1
           Turn(r, i) == Append(r, Before(r[i - 1].begin, w))
           Is(g) == g = [i \in a .. W |-> IF i = a THEN Q ELSE Append(g[i - 1], Before(g[i - 1][i - 1].begin, w))]
           D == [i \in a .. W |-> {r \in Seq(Batch) : Len(r) = i}]
           F == [i \in k .. W |-> [r \in D[i - 1] |-> Turn(r, i)]]
           up == CHOOSE g : Is(g)
<1>1. W \in Nat /\ a \in Nat /\ a # 0 /\ a <= W /\ k = a + 1
  BY BackfillAssumption, SMT, SMTT(20)
<1>2. Refill(Q, w) = up[W]
  BY DEF Refill
<1>3. ASSUME NEW i \in k .. W, NEW r \in D[i - 1] PROVE Turn(r, i) \in D[i]
  <2>1. i \in Nat /\ i - 1 \in a .. W /\ i \in a .. W /\ i - 1 >= 1
    BY <1>1, SMT, SMTT(20)
  <2>2. r \in Seq(Batch) /\ Len(r) = i - 1
    BY <2>1
  <2>3. r[i - 1] \in Batch
    BY <2>1, <2>2, SMT, SMTT(20)
  <2>4. r[i - 1].begin \in Int
    BY <2>3 DEF Batch
  <2>5. Before(r[i - 1].begin, w) \in Batch
    BY <2>4, BeforeType
  <2>6. Turn(r, i) \in Seq(Batch) /\ Len(Turn(r, i)) = i
    BY <2>1, <2>2, <2>5, SMT, SMTT(20)
  <2> QED
    BY <2>1, <2>6
<1>4. Q \in D[a]
  BY <1>1, SMT, SMTT(20)
<1> HIDE DEF D, Turn
<1>5. ASSUME NEW i \in k .. W, NEW r \in D[i - 1] PROVE F[i][r] = Turn(r, i) /\ F[i][r] \in D[i]
  BY <1>3
<1> HIDE DEF F, a, k, W
<1>6. PICK g : IsLoop(g, a, k, W, Q, F, D)
  <2>1. \A i \in k .. W : \A r \in D[i - 1] : F[i][r] \in D[i]
    BY <1>5
  <2> QED
    BY <1>1, <1>4, <2>1, LoopExists, Zenon, ZenonT(20)
<1>7. \A i \in a .. W : i # a => i \in k .. W
  BY <1>1, SMT, SMTT(20)
<1>8. \A i \in k .. W : i \in a .. W /\ i # a
  BY <1>1, SMT, SMTT(20)
<1>9. Is(g)
  <2>1. ASSUME NEW i \in a .. W
        PROVE  g[i] = IF i = a THEN Q ELSE Append(g[i - 1], Before(g[i - 1][i - 1].begin, w))
    <3>1. i # a => g[i] = Turn(g[i - 1], i)
      BY <1>5, <1>6, <1>7 DEF IsLoop
    <3> QED
      BY <1>6, <3>1 DEF IsLoop, Turn
  <2> QED
    BY <1>6, <2>1 DEF IsLoop
<1>10. Is(up)
  BY <1>9
<1> HIDE DEF up
<1>11. up[a] = Q /\ \A i \in k .. W : up[i] = Turn(up[i - 1], i)
  <2>1. \A i \in a .. W : up[i] = IF i = a THEN Q ELSE Append(up[i - 1], Before(up[i - 1][i - 1].begin, w))
    BY <1>10, Zenon, ZenonT(20)
  <2>2. a \in a .. W
    BY <1>1, SMT, SMTT(20)
  <2> QED
    BY <1>8, <2>1, <2>2 DEF Turn
<1>12. \A i \in k .. W : up[i - 1] \in D[i - 1] => up[i] \in D[i]
  BY <1>3, <1>11
<1>13. Keeps(up, a, W, D)
  <2>1. up[a] \in D[a]
    BY <1>4, <1>11
  <2> QED
    BY <1>1, <1>12, <2>1, LoopKeeps, Zenon, ZenonT(20)
<1>14. W \in a .. W /\ up[W] \in D[W]
  BY <1>1, <1>13, SMT, SMTT(20) DEF Keeps
<1>15. up[W] \in Seq(Batch) /\ Len(up[W]) = W
  BY <1>14 DEF D
<1>16. up[W] \in [1 .. W -> Batch]
  BY <1>1, <1>15, SMT, SMTT(20)
<1> QED
  BY <1>2, <1>16 DEF BatchSeq, W

\* The sequence after an update.
LEMMA UpdateType ==
  ASSUME NEW Q \in BatchSeq, NEW b \in Batch, NEW w \in Int
  PROVE  Update(Q, b, w) \in BatchSeq
<1> DEFINE replaced == [i \in 1 .. BackfillWorkers |-> IF Replaces(b, Q[i]) THEN b ELSE Q[i]]
           marked == [i \in 1 .. BackfillWorkers |->
                        IF replaced[i].state # "complete" /\ Expired(replaced[i], w)
                        THEN WithState(replaced[i], "end") ELSE replaced[i]]
           kept == Unfinished(marked, w)
<1>1. replaced \in BatchSeq
  BY DEF BatchSeq
<1> HIDE DEF replaced
<1>2. marked \in BatchSeq
  <2>1. \A i \in 1 .. BackfillWorkers : replaced[i] \in Batch /\ WithState(replaced[i], "end") \in Batch
    BY <1>1, WithStateType DEF BatchSeq, BatchStates
  <2> QED
    BY <2>1 DEF BatchSeq
<1>3. Update(Q, b, w) = IF kept = <<>> THEN [marked EXCEPT ![1] = Before(marked[1].begin, w)] ELSE Refill(kept, w)
  BY DEF Update, replaced
<1> HIDE DEF marked
<1>4. kept \in Seq(Batch) /\ Len(kept) <= BackfillWorkers
  BY <1>2, UnfinishedType
<1> HIDE DEF kept
<1>5. kept # <<>> => Refill(kept, w) \in BatchSeq
  BY <1>4, RefillType
<1>6. [marked EXCEPT ![1] = Before(marked[1].begin, w)] \in BatchSeq
  <2>1. 1 \in 1 .. BackfillWorkers
    BY BackfillAssumption, SMT, SMTT(20)
  <2>2. marked[1] \in Batch /\ marked[1].begin \in Int
    BY <1>2, <2>1 DEF BatchSeq, Batch
  <2>3. Before(marked[1].begin, w) \in Batch
    BY <2>2, BeforeType
  <2> QED
    BY <1>2, <2>3, Zenon, ZenonT(20) DEF BatchSeq
<1> QED
  BY <1>3, <1>5, <1>6

\* One turn of the loop of sequence().
Handed(r, i, max, w) ==
  LET old == Initialized(r.seq, i, max, w)
      new == Scheduled(old, w)
  IN  [seq |-> [r.seq EXCEPT ![i] = new],
       out |-> IF Emits(old, new, r.out) THEN Append(r.out, new) ELSE r.out]

\* A turn gives batches.
LEMMA HandedType ==
  ASSUME NEW r \in [seq : BatchSeq, out : Seq(Batch)], NEW i \in 1 .. BackfillWorkers,
         NEW max \in Int, NEW w \in Int
  PROVE  Handed(r, i, max, w) \in [seq : BatchSeq, out : Seq(Batch)]
<1> DEFINE old == Initialized(r.seq, i, max, w)
           new == Scheduled(old, w)
           s == [r.seq EXCEPT ![i] = new]
           o == IF Emits(old, new, r.out) THEN Append(r.out, new) ELSE r.out
<1>1. r.seq \in BatchSeq /\ r.out \in Seq(Batch) /\ r.seq[i] \in Batch
  BY DEF BatchSeq
<1>2. i # 1 => r.seq[i - 1].begin \in Int
  <2>1. i # 1 => i - 1 \in 1 .. BackfillWorkers
    BY BackfillAssumption, SMT, SMTT(20)
  <2> QED
    BY <1>1, <2>1 DEF BatchSeq, Batch
<1>3. old \in Batch
  <2>1. (IF i = 1 THEN max ELSE r.seq[i - 1].begin) \in Int
    BY <1>2
  <2> QED
    BY <1>1, <2>1, BeforeType DEF Initialized
<1> HIDE DEF old
<1>4. new \in Batch
  BY <1>3, WithStateType DEF Scheduled, BatchStates
<1> HIDE DEF new
<1>5. s \in BatchSeq
  BY <1>1, <1>4, Zenon, ZenonT(20) DEF BatchSeq
<1>6. Append(r.out, new) \in Seq(Batch)
  BY <1>1, <1>4, SMT, SMTT(20)
<1>7. o \in Seq(Batch)
  BY <1>1, <1>6
<1>8. Handed(r, i, max, w) = [seq |-> s, out |-> o]
  BY DEF Handed, old, new
<1> HIDE DEF s, o
<1> QED
  BY <1>5, <1>7, <1>8, SMT, SMTT(20)

\* What sequence() makes of the sequence, and hands out, are batches.
LEMMA SequenceType ==
  ASSUME NEW Q \in BatchSeq, NEW max \in Int, NEW w \in Int
  PROVE  Sequence(Q, max, w) \in [seq : BatchSeq, out : Seq(Batch)]
<1> DEFINE W == BackfillWorkers
           R == [seq : BatchSeq, out : Seq(Batch)]
           x == [seq |-> Q, out |-> <<>>]
           Is(g) == g = [i \in 0 .. W |-> IF i = 0 THEN x ELSE Handed(g[i - 1], i, max, w)]
           D == [i \in 0 .. W |-> R]
           F == [i \in 1 .. W |-> [r \in D[i - 1] |-> Handed(r, i, max, w)]]
           up == CHOOSE g : Is(g)
<1>1. W \in Nat /\ 0 <= W /\ 0 \in Nat /\ 1 = 0 + 1
  BY BackfillAssumption, SMT, SMTT(20)
<1>2. Sequence(Q, max, w) = up[W]
  BY Zenon, ZenonT(20) DEF Sequence, Handed
<1>3. x \in R
  BY SMT, SMTT(20)
<1>4. \A i \in 1 .. W : i \in 0 .. W /\ i - 1 \in 0 .. W /\ i # 0
  BY <1>1, SMT, SMTT(20)
<1> HIDE DEF R, x
<1>5. \A i \in 0 .. W : D[i] = R /\ (i # 0 => i \in 1 .. W)
  <2>1. \A i \in 0 .. W : i # 0 => i \in 1 .. W
    BY <1>1, SMT, SMTT(20)
  <2> QED
    BY <2>1, Zenon, ZenonT(20)
<1> HIDE DEF D
<1>6. ASSUME NEW i \in 1 .. W, NEW r \in D[i - 1] PROVE Handed(r, i, max, w) \in D[i]
  <2>1. r \in R
    BY <1>4, <1>5
  <2>2. Handed(r, i, max, w) \in R
    BY <2>1, HandedType DEF R
  <2> QED
    BY <1>4, <1>5, <2>2
<1>7. ASSUME NEW i \in 1 .. W, NEW r \in D[i - 1] PROVE F[i][r] = Handed(r, i, max, w) /\ F[i][r] \in D[i]
  BY <1>6
<1>8. x \in D[0]
  <2>1. 0 \in 0 .. W
    BY <1>1, SMT, SMTT(20)
  <2> QED
    BY <1>3, <1>5, <2>1, Zenon, ZenonT(20)
<1> HIDE DEF F, W
<1>9. PICK g : IsLoop(g, 0, 1, W, x, F, D)
  <2>1. \A i \in 1 .. W : \A r \in D[i - 1] : F[i][r] \in D[i]
    BY <1>7
  <2> QED
    BY <1>1, <1>8, <2>1, LoopExists, Zenon, ZenonT(20)
<1>10. Is(g)
  <2>1. ASSUME NEW i \in 0 .. W PROVE g[i] = IF i = 0 THEN x ELSE Handed(g[i - 1], i, max, w)
    BY <1>5, <1>7, <1>9 DEF IsLoop
  <2> QED
    BY <1>9, <2>1 DEF IsLoop
<1>11. Is(up)
  BY <1>10
<1> HIDE DEF up
<1>12. up[0] = x /\ \A i \in 1 .. W : up[i] = Handed(up[i - 1], i, max, w)
  <2>1. \A i \in 0 .. W : up[i] = IF i = 0 THEN x ELSE Handed(up[i - 1], i, max, w)
    BY <1>11, Zenon, ZenonT(20)
  <2>2. 0 \in 0 .. W
    BY <1>1, SMT, SMTT(20)
  <2> QED
    BY <1>4, <2>1, <2>2
<1>13. \A i \in 1 .. W : up[i - 1] \in D[i - 1] => up[i] \in D[i]
  BY <1>6, <1>12
<1>14. Keeps(up, 0, W, D)
  <2>1. up[0] \in D[0]
    BY <1>8, <1>12
  <2> QED
    BY <1>1, <1>13, <2>1, LoopKeeps, Zenon, ZenonT(20)
<1>15. W \in 0 .. W
  BY <1>1, SMT, SMTT(20)
<1> QED
  BY <1>2, <1>5, <1>14, <1>15 DEF R, Keeps

\* importable() returns a prefix of the sequence.
LEMMA ImportableType ==
  ASSUME NEW Q \in BatchSeq
  PROVE  Importable(Q) \in Seq(Batch)
<1> DEFINE Is(n) == /\ \A i \in 1 .. n : Q[i].state = "importable"
                    /\ n < BackfillWorkers => Q[n + 1].state # "importable"
           others == {i \in 1 .. BackfillWorkers : Q[i].state # "importable"}
           n == CHOOSE m \in 0 .. BackfillWorkers : Is(m)
<1>1. BackfillWorkers \in Nat
  BY BackfillAssumption
<1>2. \E m \in 0 .. BackfillWorkers : Is(m)
  <2>1. CASE others = {}
    <3>1. Is(BackfillWorkers) /\ BackfillWorkers \in 0 .. BackfillWorkers
      BY <1>1, <2>1, SMT, SMTT(20)
    <3> QED
      BY <3>1
  <2>2. CASE others # {}
    <3>1. others \subseteq Nat /\ \A i \in others : i \in 1 .. BackfillWorkers /\ Q[i].state # "importable"
      BY SMT, SMTT(20)
    <3>2. \A i \in 1 .. BackfillWorkers : i \notin others => Q[i].state = "importable"
      OBVIOUS
    <3> HIDE DEF others
    <3>3. PICK i \in others : \A j \in others : i <= j
      BY <2>2, <3>1, SmallestNumber, Zenon, ZenonT(20)
    <3>4. i \in 1 .. BackfillWorkers /\ Q[i].state # "importable"
      BY <3>1, <3>3
    <3>5. i - 1 \in 0 .. BackfillWorkers /\ (i - 1) + 1 = i
      BY <1>1, <3>4, SMT, SMTT(20)
    <3>6. ASSUME NEW j \in 1 .. i - 1 PROVE Q[j].state = "importable"
      <4>1. j \in 1 .. BackfillWorkers /\ ~(i <= j)
        BY <1>1, <3>4, SMT, SMTT(20)
      <4> QED
        BY <3>2, <3>3, <4>1
    <3>7. Is(i - 1)
      BY <3>4, <3>5, <3>6
    <3> QED
      BY <3>5, <3>7
  <2> QED
    BY <2>1, <2>2
<1>3. n \in 0 .. BackfillWorkers
  BY <1>2
<1>4. Importable(Q) = SubSeq(Q, 1, n)
  BY DEF Importable
<1> HIDE DEF n
<1>5. Q \in Seq(Batch) /\ Len(Q) = BackfillWorkers
  BY <1>1, SMT, SMTT(20) DEF BatchSeq
<1>6. SubSeq(Q, 1, n) \in Seq(Batch)
  BY <1>1, <1>3, <1>5, SMT, SMTT(20)
<1> QED
  BY <1>4, <1>6

-----------------------------------------------------------------------------
BackfillType ==
  /\ window \in Int /\ low \in Int
  /\ seq \in BatchSeq /\ imports \in Seq(Batch) /\ ready \in Seq(Batch)
  /\ todo \subseteq Batch /\ working \subseteq Batch

\* Between the writes of an import: what has been written so far.
ImportUnderWay ==
  /\ service \in {"index", "status"} =>
       /\ imports # <<>> /\ Head(imports).end = low
       /\ Slots(Head(imports)) \subseteq saved
  /\ service = "status" => Slots(Head(imports)) \subseteq indexed

BackfillInv == BackfillType /\ ImportUnderWay /\ StatusIsBacked

\* The batches that are handed out are batches.
LEMMA DownloadsType ==
  ASSUME NEW out \in Seq(Batch)
  PROVE  Downloads(out) \subseteq Batch
<1>1. \A i \in DOMAIN out : out[i] \in Batch
  BY SMT, SMTT(20)
<1> QED
  BY <1>1 DEF Downloads, BatchesOf

\* A start begins with batches.
LEMMA NilType ==
  NilBatches \in BatchSeq
<1>1. MakeBatch(0, 0, "nil") \in Batch
  BY SMT, SMTT(20) DEF MakeBatch, Batch, BatchStates
<1> QED
  BY <1>1 DEF NilBatches, BatchSeq

\* A start, at the beginning or after a crash at any point.
LEMMA StartKeeps ==
  ASSUME low \in Int, window \in Int, StartBackfill(low, window)
  PROVE  /\ seq' \in BatchSeq /\ todo' \subseteq Batch
         /\ working' = {} /\ ready' = <<>> /\ imports' = <<>>
         /\ service' \notin {"index", "status"}
<1> DEFINE r == Sequence(NilBatches, low, window)
<1>1. r \in [seq : BatchSeq, out : Seq(Batch)]
  BY NilType, SequenceType
<1>2. \/ seq' = NilBatches /\ todo' = {} /\ service' = "done"
      \/ seq' = r.seq /\ todo' = Downloads(r.out) /\ service' = "complete"
  BY DEF StartBackfill
<1> HIDE DEF r
<1>3. r.seq \in BatchSeq /\ Downloads(r.out) \subseteq Batch
  BY <1>1, DownloadsType
<1> QED
  BY <1>2, <1>3, NilType DEF StartBackfill

\* The invariant holds at the start.
LEMMA InitBackfillInv ==
  BackfillInit => BackfillInv
<1> SUFFICES ASSUME BackfillInit PROVE BackfillInv
  OBVIOUS
<1> DEFINE r == Sequence(NilBatches, OriginSlot, OldestSlot)
<1>1. OriginSlot \in Int /\ OldestSlot \in Int
  BY BackfillAssumption, SMT, SMTT(20)
<1>2. r \in [seq : BatchSeq, out : Seq(Batch)]
  BY <1>1, NilType, SequenceType
<1>3. /\ seq = r.seq /\ todo = Downloads(r.out) /\ window = OldestSlot /\ low = OriginSlot
      /\ working = {} /\ ready = <<>> /\ imports = <<>> /\ service = "complete"
  BY DEF BackfillInit
<1> HIDE DEF r
<1>4. <<>> \in Seq(Batch) /\ Downloads(r.out) \subseteq Batch
  BY <1>2, DownloadsType, SMT, SMTT(20)
<1>5. BackfillType
  BY <1>1, <1>2, <1>3, <1>4 DEF BackfillType
<1>6. ImportUnderWay
  BY <1>3 DEF ImportUnderWay
<1>7. StatusIsBacked
  BY <1>1, <1>3, SMT, SMTT(20) DEF StatusIsBacked
<1> QED
  BY <1>5, <1>6, <1>7 DEF BackfillInv

\* The router and the workers only move batches, and do not touch imports.
LEMMA PoolKeeps ==
  ASSUME BackfillInv, Router \/ \E b \in working : Worker(b)
  PROVE  BackfillInv'
<1> USE DEF BackfillInv
<1>1. ASSUME todo' \subseteq Batch, working' \subseteq Batch, ready' \in Seq(Batch),
             UNCHANGED <<window, low, saved, indexed, seq, service, imports>>
      PROVE  BackfillInv'
  BY <1>1 DEF BackfillType, ImportUnderWay, StatusIsBacked
<1>2. ASSUME NEW b \in todo, ExpireTodo(b) PROVE BackfillInv'
  BY <1>1, <1>2 DEF ExpireTodo, BackfillType
<1>3. ASSUME NEW b \in todo, Assign(b) PROVE BackfillInv'
  <2>1. b \in Batch
    BY DEF BackfillType
  <2>2. ASSUME NEW s \in BatchStates PROVE [WithState(b, s) EXCEPT !.failed = "nil"] \in Batch
    <3> DEFINE c == WithState(b, s)
    <3>1. c \in Batch
      BY <2>1, WithStateType
    <3> HIDE DEF c
    <3>2. [c EXCEPT !.failed = "nil"] \in Batch
      BY <3>1, SMT, SMTT(20) DEF Batch, BatchStates
    <3> QED
      BY <3>2 DEF c
  <2>3. Reset(b) \subseteq Batch
    BY <2>1, <2>2 DEF Reset, BatchStates
  <2> QED
    BY <1>1, <1>3, <2>3 DEF Assign, BackfillType
<1>4. ASSUME NEW b \in working, NEW state \in {"syncColumns", "syncBlobs", "importable"}, WorkSucceeds(b, state)
      PROVE  BackfillInv'
  <2>1. WithState(b, state) \in Batch
    BY WithStateType DEF BackfillType, BatchStates
  <2>2. Append(ready, WithState(b, state)) \in Seq(Batch)
    BY <2>1, SMT, SMTT(20) DEF BackfillType
  <2>3. working' \subseteq Batch /\ todo' \subseteq Batch /\ ready' \in Seq(Batch)
    BY <1>4, <2>1, <2>2 DEF WorkSucceeds, BackfillType
  <2> QED
    BY <1>1, <1>4, <2>3 DEF WorkSucceeds
<1>5. ASSUME NEW b \in working, WorkFails(b) PROVE BackfillInv'
  <2>1. b \in Batch /\ b.state \in BatchStates
    BY DEF BackfillType, Batch
  <2>2. WithState(b, "errRetryable") \in Batch /\ WithState(b, b.state) \in Batch
    BY <2>1, WithStateType DEF BatchStates
  <2>3. [WithState(b, "errRetryable") EXCEPT !.failed = b.state] \in Batch
    <3> DEFINE c == WithState(b, "errRetryable")
               s == b.state
    <3>1. c \in Batch /\ s \in BatchStates
      BY <2>1, <2>2
    <3> HIDE DEF c, s
    <3>2. [c EXCEPT !.failed = s] \in Batch
      BY <3>1, SMT, SMTT(20) DEF Batch
    <3> QED
      BY <3>2 DEF c, s
  <2>4. working' \subseteq Batch /\ todo' \subseteq Batch
    BY <1>5, <2>2, <2>3 DEF WorkFails, BackfillType
  <2> QED
    BY <1>1, <1>5, <2>4 DEF WorkFails, BackfillType
<1> QED
  BY <1>2, <1>3, <1>4, <1>5 DEF Router, Worker

\* A step that writes nothing and is not in the middle of an import.
LEMMA QuietKeeps ==
  ASSUME BackfillInv, BackfillType', UNCHANGED <<low, saved, indexed>>,
         service' \notin {"index", "status"}
  PROVE  BackfillInv'
  BY DEF BackfillInv, ImportUnderWay, StatusIsBacked

\* The loop of the service: the status follows the two other writes.
LEMMA ServiceKeeps ==
  ASSUME BackfillInv, ServiceStep
  PROVE  BackfillInv'
<1>1. BackfillType /\ ImportUnderWay /\ StatusIsBacked
  BY DEF BackfillInv
<1>2. imports # <<>> => /\ Head(imports) \in Batch /\ Tail(imports) \in Seq(Batch)
                        /\ Head(imports).begin \in Int /\ Head(imports).end \in Int
  <2>1. imports # <<>> => Head(imports) \in Batch /\ Tail(imports) \in Seq(Batch)
    BY <1>1, SMT, SMTT(20) DEF BackfillType
  <2> QED
    BY <2>1 DEF Batch
<1>3. CASE Complete
  <2>1. <<>> \in Seq(Batch)
    BY SMT, SMTT(20)
  <2>2. BackfillType'
    BY <1>1, <1>3, <2>1 DEF Complete, BackfillType
  <2> QED
    BY <1>3, <2>2, QuietKeeps DEF Complete
<1>4. CASE UpdateComplete
  <2>1. Head(ready) \in Batch /\ Tail(ready) \in Seq(Batch)
    BY <1>1, <1>4, SMT, SMTT(20) DEF BackfillType, UpdateComplete
  <2>2. Update(seq, Head(ready), window) \in BatchSeq
    BY <1>1, <2>1, UpdateType DEF BackfillType
  <2>3. seq' \in BatchSeq /\ imports' \in Seq(Batch)
    BY <1>4, <2>2, ImportableType DEF UpdateComplete
  <2>4. BackfillType'
    BY <1>1, <1>4, <2>1, <2>3 DEF UpdateComplete, BackfillType
  <2> QED
    BY <1>4, <2>4, QuietKeeps DEF UpdateComplete
<1>5. CASE SaveBlocks
  BY <1>1, <1>5 DEF SaveBlocks, BackfillInv, BackfillType, ImportUnderWay, StatusIsBacked, pool
<1>6. CASE BatchFails
  <2>1. WithState(Head(imports), "errRetryable") \in Batch
    BY <1>2, <1>6, WithStateType DEF BatchFails, BatchStates
  <2>2. seq' \in BatchSeq
    BY <1>1, <1>6, <2>1, UpdateType DEF BatchFails, BackfillType
  <2>3. imports' \in Seq(Batch)
    BY <1>6, SMT, SMTT(20) DEF BatchFails
  <2>4. BackfillType'
    BY <1>1, <1>6, <2>2, <2>3 DEF BatchFails, BackfillType, pool
  <2> QED
    BY <1>6, <2>4, QuietKeeps DEF BatchFails
<1>7. CASE UpdateIndex
  BY <1>1, <1>7 DEF UpdateIndex, BackfillInv, BackfillType, ImportUnderWay, StatusIsBacked, pool
<1>8. CASE SaveStatus
  <2> DEFINE b == Head(imports)
  <2>1. imports # <<>> /\ b.end = low /\ Slots(b) \subseteq saved /\ Slots(b) \subseteq indexed
    BY <1>1, <1>8 DEF SaveStatus, ImportUnderWay
  <2>2. WithState(b, "complete") \in Batch
    BY <1>2, <2>1, WithStateType DEF BatchStates
  <2>3. seq' \in BatchSeq
    BY <1>1, <1>8, <2>2, UpdateType DEF SaveStatus, BackfillType
  <2>4. b.begin \in Int /\ Tail(imports) \in Seq(Batch)
    BY <1>2, <2>1
  <2>5. BackfillType'
    BY <1>1, <1>8, <2>3, <2>4 DEF SaveStatus, BackfillType, pool
  <2>6. b.begin .. OriginSlot - 1 \subseteq Slots(b) \cup (low .. OriginSlot - 1)
    <3>1. low \in Int /\ OriginSlot \in Int
      BY <1>1, BackfillAssumption, SMT, SMTT(20) DEF BackfillType
    <3> QED
      BY <2>1, <2>4, <3>1, SMT, SMTT(20) DEF Slots
  <2>7. low' = b.begin /\ saved' = saved /\ indexed' = indexed /\ service' = "import"
    BY <1>8 DEF SaveStatus
  <2>8. StatusIsBacked'
    BY <1>1, <2>1, <2>6, <2>7 DEF StatusIsBacked
  <2>9. ImportUnderWay'
    BY <2>7 DEF ImportUnderWay
  <2> QED
    BY <2>5, <2>8, <2>9 DEF BackfillInv
<1>9. CASE ImportsDone
  <2>1. BackfillType'
    BY <1>1, <1>9 DEF ImportsDone, BackfillType, pool
  <2> QED
    BY <1>9, <2>1, QuietKeeps DEF ImportsDone
<1>10. CASE ScheduleTodos
  <2> DEFINE r == Sequence(seq, low, window)
  <2>1. r \in [seq : BatchSeq, out : Seq(Batch)]
    BY <1>1, SequenceType DEF BackfillType
  <2>2. seq' = r.seq /\ todo' \subseteq todo \cup Downloads(r.out)
    BY <1>10 DEF ScheduleTodos, HandOut, HandOutRacing
  <2> HIDE DEF r
  <2>3. seq' \in BatchSeq /\ todo' \subseteq Batch
    BY <1>1, <2>1, <2>2, DownloadsType DEF BackfillType
  <2>4. BackfillType'
    BY <1>1, <1>10, <2>3 DEF ScheduleTodos, BackfillType
  <2> QED
    BY <1>10, <2>4, QuietKeeps DEF ScheduleTodos
<1> QED
  BY <1>3, <1>4, <1>5, <1>6, <1>7, <1>8, <1>9, <1>10 DEF ServiceStep

\* The invariant holds however the service, the pool, the window, failures
\* and restarts interleave.
LEMMA BackfillInvHolds ==
  BackfillSpec => []BackfillInv
<1>1. ASSUME BackfillInv, [BackfillNext]_backfillVars PROVE BackfillInv'
  <2>1. CASE UNCHANGED backfillVars
    BY <1>1, <2>1 DEF backfillVars, BackfillInv, BackfillType, ImportUnderWay, StatusIsBacked
  <2>2. CASE WindowMoves
    <3>1. window + 1 \in Int
      BY <1>1, SMT, SMTT(20) DEF BackfillInv, BackfillType
    <3> QED
      BY <1>1, <2>2, <3>1 DEF WindowMoves, BackfillInv, BackfillType, ImportUnderWay, StatusIsBacked, pool
  <2>3. CASE BackfillRestart
    <3>1. BackfillType /\ <<>> \in Seq(Batch)
      BY <1>1, SMT, SMTT(20) DEF BackfillInv
    <3>2. /\ seq' \in BatchSeq /\ todo' \subseteq Batch
          /\ working' = {} /\ ready' = <<>> /\ imports' = <<>>
          /\ service' \notin {"index", "status"}
      BY <2>3, <3>1, StartKeeps DEF BackfillRestart, BackfillType
    <3>3. BackfillType'
      BY <2>3, <3>1, <3>2 DEF BackfillRestart, BackfillType
    <3> QED
      BY <1>1, <2>3, <3>2, <3>3, QuietKeeps DEF BackfillRestart
  <2> QED
    BY <1>1, <2>1, <2>2, <2>3, PoolKeeps, ServiceKeeps DEF BackfillNext
<1> QED
  BY <1>1, InitBackfillInv, PTL DEF BackfillSpec

(***************************************************************************)
(* StatusIsBacked for any number of workers, batch size and window:        *)
(* wherever an import fails or the node stops between saving blocks,       *)
(* indexing them and moving the status, every block from the status up to  *)
(* the checkpoint block is saved and indexed.                              *)
(***************************************************************************)
THEOREM StatusStaysBacked == BackfillSpec => []StatusIsBacked
<1>1. BackfillInv => StatusIsBacked
  BY DEF BackfillInv
<1> QED
  BY <1>1, BackfillInvHolds, PTL

=============================================================================
