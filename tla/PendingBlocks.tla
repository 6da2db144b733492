---------------------------- MODULE PendingBlocks ----------------------------
(***************************************************************************)
(* The queue of blocks that cannot be imported yet                         *)
(* (beacon-chain/sync/pending_blocks_queue.go): blocks that are early or   *)
(* whose parent is unknown.  Gossip and answers to requests by root insert *)
(* into it; a pass that runs three times a slot drops what has expired or  *)
(* is older than the finalized epoch, imports what has become importable   *)
(* and requests missing parents.  The queue is a cache of slots with an    *)
(* expiration time, and beside it seenPendingBlocks, the set of roots      *)
(* that nobody may insert or request again.                                *)
(*                                                                         *)
(* A lock protects each access to the queue, not a pass: gossip, imports   *)
(* started by gossip, answers and the resync run between its steps.        *)
(***************************************************************************)
EXTENDS Integers, FiniteSets

CONSTANTS
  PendingRoots,      \* blocks that may arrive
  KnownRoots,        \* blocks in the database at the start
  PendingParent,     \* the parent of each pending root
  PendingSlot,       \* the slot of each pending root
  MayBeInvalid,      \* blocks that the state transition may refuse
  VotedRoots,        \* blocks that waiting attestations vote for
  NoBlock,
  MaxBlocksPerSlot,  \* maxBlocksPerSlot, 3 in the code
  EarlySlots,        \* slots a block may come early, earlyBlockProcessingTolerance
  EpochSlots,        \* slots of an epoch
  PendingClock,      \* the slots the clock shows, first and last
  MaxPendingFaults   \* bound: failed imports and broadcasts, expirations, resyncs

ASSUME PendingAssumption ==
  /\ NoBlock \notin PendingRoots
  /\ PendingParent \in [PendingRoots -> PendingRoots \cup KnownRoots]
  /\ PendingSlot \in [PendingRoots -> Nat]
  /\ MaxBlocksPerSlot \in Nat \ {0}

VARIABLES
  pending,        \* the queue: entries, expired, seen and the ghost forgotten
  dbBlocks,       \* blocks of the database and of fork choice
  beingSynced,    \* blockBeingSynced of the chain service
  badRoots,      \* badBlockCache
  gossiped,       \* block that gossip validation is about to queue
  pass,           \* processPendingBlocks
  clock,          \* [slot, finalized epoch]
  pendingFaults

pendingVars == <<pending, dbBlocks, beingSynced, badRoots, gossiped, pass,
                 clock, pendingFaults>>

PendingSlots == {PendingSlot[r] : r \in PendingRoots}

(***************************************************************************)
(* The queue.  entries[s] is {} when slot s has no entry.  An entry whose  *)
(* time has passed stays in the cache, invisible to a read, until it is    *)
(* deleted; writing to its slot replaces it.  forgotten is a ghost: the    *)
(* blocks that were marked seen and dropped without being unmarked.        *)
(***************************************************************************)
EmptyQueue == [entries |-> [s \in PendingSlots |-> {}], expired |-> {},
               seen |-> {}, forgotten |-> {}]

PendingBlocksInCache(q, s) == IF s \in q.expired THEN {} ELSE q.entries[s]

Queued(q) == UNION {q.entries[s] : s \in PendingSlots}

\* An insertion that takes one block too many.
InsertBlock_OverFull(q, r) ==
  LET s    == PendingSlot[r]
      blks == PendingBlocksInCache(q, s)
  IN IF r \in q.seen THEN q
     ELSE IF Cardinality(blks) > MaxBlocksPerSlot
     THEN [q EXCEPT !.seen = @ \cup {r}, !.forgotten = @ \cup {r}]
     ELSE [q EXCEPT !.entries[s] = blks \cup {r}, !.expired = @ \ {s},
                    !.seen = @ \cup {r},
                    !.forgotten = @ \cup (q.entries[s] \ blks)]

\* A full slot drops the block, and Set replaces an expired entry; either way
\* the roots that are dropped stay marked as seen.
InsertBlock(q, r) ==
  LET s    == PendingSlot[r]
      blks == PendingBlocksInCache(q, s)
  IN IF r \in q.seen THEN q
     ELSE IF Cardinality(blks) >= MaxBlocksPerSlot
     THEN [q EXCEPT !.seen = @ \cup {r}, !.forgotten = @ \cup {r}]
     ELSE [q EXCEPT !.entries[s] = blks \cup {r}, !.expired = @ \ {s},
                    !.seen = @ \cup {r},
                    !.forgotten = @ \cup (q.entries[s] \ blks)]

\* Deleting a block of an expired entry does nothing.
DeleteBlock(q, r) ==
  LET s    == PendingSlot[r]
      blks == PendingBlocksInCache(q, s)
  IN IF blks = {} THEN q
     ELSE [q EXCEPT !.entries[s] = blks \ {r}, !.seen = @ \ {r}]

\* Evicting entries without telling seenPendingBlocks.
DeleteExpired_KeepsSeen(q) ==
  [q EXCEPT !.entries = [s \in PendingSlots |-> PendingBlocksInCache(q, s)],
            !.expired = {}]

\* OnEvicted unmarks the blocks of the deleted entries.
DeleteExpired(q) ==
  [q EXCEPT !.entries = [s \in PendingSlots |-> PendingBlocksInCache(q, s)],
            !.expired = {},
            !.seen = @ \ UNION {q.entries[s] : s \in q.expired}]

ToEpoch(s) == s \div EpochSlots

(***************************************************************************)
(* validatePendingSlots deletes the blocks of finalized epochs, and their  *)
(* descendants if the iteration over the map of slots, whose order is      *)
(* arbitrary, comes to them after their parent: visit[s] is the place of   *)
(* slot s in that order, old the blocks deleted.                           *)
(***************************************************************************)
IsOld(r, visit, old) ==
  \/ clock.finalized > 0 /\ ToEpoch(PendingSlot[r]) <= clock.finalized
  \/ PendingParent[r] \in old /\ visit[PendingSlot[PendingParent[r]]] < visit[PendingSlot[r]]

DeleteBlocks(q, old) ==
  [q EXCEPT !.entries = [s \in PendingSlots |-> q.entries[s] \ old],
            !.seen = @ \ old]

ValidatePendingSlots(q) ==
  {DeleteBlocks(q, old) : old \in
     {o \in SUBSET Queued(q) :
        \E visit \in [PendingSlots -> 1..Cardinality(PendingSlots)] :
          /\ \A s, t \in PendingSlots : visit[s] = visit[t] => s = t
          /\ o = {r \in Queued(q) : IsOld(r, visit, o)}}}

(***************************************************************************)
(* One pass.  at is where it stands: "idle"; "scan", between two blocks;   *)
(* "process", before ReceiveBlock of current; "import", inside it; and     *)
(* "request", waiting for the parents it asked for.  slots and blocks are  *)
(* what it has still to look at: the sorted slots, and its copy of the     *)
(* blocks of the slot it is at.                                            *)
(***************************************************************************)
IdlePass == [at |-> "idle", slots |-> {}, blocks |-> {}, current |-> NoBlock,
             parents |-> {}]

StartPass ==
  /\ pass.at = "idle"
  /\ pending' \in ValidatePendingSlots(DeleteExpired(pending))
  /\ pass' = [IdlePass EXCEPT !.at = "scan",
                !.slots = {s \in PendingSlots : pending'.entries[s] # {}}]
  /\ UNCHANGED <<dbBlocks, beingSynced, badRoots, gossiped, clock,
                 pendingFaults>>

\* The next slot in order; a slot of the future is passed over.
OpenSlot ==
  /\ pass.at = "scan" /\ pass.blocks = {}
  /\ \E s \in pass.slots :
       /\ \A t \in pass.slots : s <= t
       /\ pass' = [pass EXCEPT !.slots = @ \ {s},
                     !.blocks = IF s > clock.slot THEN {}
                                ELSE PendingBlocksInCache(pending, s)]
  /\ UNCHANGED <<pending, dbBlocks, beingSynced, badRoots, gossiped, clock,
                 pendingFaults>>

Looked(b) == [pass EXCEPT !.blocks = @ \ {b}]

IsBad(b) == {b, PendingParent[b]} \cap badRoots # {}

\* Neither imported, nor being imported, nor bad.
IsOpen(b) == b \notin dbBlocks \cup beingSynced /\ ~IsBad(b)

\* A block that somebody else has dealt with, or that is bad.
Drop(b) ==
  /\ pass.at = "scan" /\ b \in pass.blocks
  /\ b \notin beingSynced
  /\ b \in dbBlocks \/ IsBad(b)
  /\ pending' = DeleteBlock(pending, b)
  /\ badRoots' = badRoots \cup
       {r \in {b} : b \notin dbBlocks /\ PendingParent[b] \in badRoots}
  /\ pass' = Looked(b)
  /\ UNCHANGED <<dbBlocks, beingSynced, gossiped, clock, pendingFaults>>

\* A block that waits: it is being imported, or its parent is missing.  A
\* parent that is not in the queue is to be requested, if there is a peer.
Wait(b) ==
  /\ pass.at = "scan" /\ b \in pass.blocks
  /\ \/ b \in beingSynced /\ pass' = Looked(b)
     \/ /\ IsOpen(b) /\ PendingParent[b] \notin dbBlocks
        /\ \/ pass' = Looked(b)
           \/ /\ PendingParent[b] \notin pending.seen
              /\ pass' = [Looked(b) EXCEPT !.parents = @ \cup {PendingParent[b]}]
  /\ UNCHANGED <<pending, dbBlocks, beingSynced, badRoots, gossiped, clock,
                 pendingFaults>>

\* A block whose parent is there is validated and its sidecars are fetched.
ProcessPending(b) ==
  /\ pass.at = "scan" /\ b \in pass.blocks
  /\ IsOpen(b) /\ PendingParent[b] \in dbBlocks
  /\ pass' = [Looked(b) EXCEPT !.at = "process", !.current = b]
  /\ UNCHANGED <<pending, dbBlocks, beingSynced, badRoots, gossiped, clock,
                 pendingFaults>>

Scanned == [pass EXCEPT !.at = "scan", !.current = NoBlock]

\* ReceiveBlock returns at once, without an error, when the block has been or
\* is being imported by another caller; the pass then deletes the block.
ReceiveBlock ==
  /\ pass.at = "process"
  /\ IF pass.current \in dbBlocks \cup beingSynced
     THEN /\ pending' = DeleteBlock(pending, pass.current)
          /\ pass' = Scanned
          /\ UNCHANGED beingSynced
     ELSE /\ beingSynced' = beingSynced \cup {pass.current}
          /\ pass' = [pass EXCEPT !.at = "import"]
          /\ UNCHANGED pending
  /\ UNCHANGED <<dbBlocks, badRoots, gossiped, clock, pendingFaults>>

Fault == pendingFaults < MaxPendingFaults /\ pendingFaults' = pendingFaults + 1

\* How ReceiveBlock(b) ends: imported, found invalid, or failed for another
\* reason (an engine that does not answer, a missing sidecar, the deadline).
\* The first import that comes to a verdict settles it.
Imported(b) ==
  /\ b \notin badRoots
  /\ dbBlocks' = dbBlocks \cup {b} /\ UNCHANGED <<badRoots, pendingFaults>>

FoundInvalid(b) ==
  /\ b \in MayBeInvalid \ dbBlocks
  /\ badRoots' = badRoots \cup {b} /\ UNCHANGED <<dbBlocks, pendingFaults>>

ImportFails == Fault /\ UNCHANGED <<dbBlocks, badRoots>>

\* The block goes even when it could not be imported.
FinishPending_AlwaysDeletes ==
  /\ pass.at = "import"
  /\ beingSynced' = beingSynced \ {pass.current}
  /\ pass' = Scanned
  /\ Imported(pass.current) \/ FoundInvalid(pass.current) \/ ImportFails
  /\ pending' = DeleteBlock(pending, pass.current)
  /\ UNCHANGED <<gossiped, clock>>

\* A block that was imported and broadcast is deleted from the queue; after an
\* error it stays there.
FinishPending ==
  /\ pass.at = "import"
  /\ beingSynced' = beingSynced \ {pass.current}
  /\ pass' = Scanned
  /\ \/ Imported(pass.current) /\ pending' = DeleteBlock(pending, pass.current)
     \/ FoundInvalid(pass.current) /\ UNCHANGED pending
     \/ ImportFails /\ UNCHANGED pending
  /\ UNCHANGED <<gossiped, clock>>

\* The block is imported, but broadcasting it fails.
BroadcastFails ==
  /\ pass.at = "import" /\ pass.current \notin badRoots /\ Fault
  /\ dbBlocks' = dbBlocks \cup {pass.current}
  /\ beingSynced' = beingSynced \ {pass.current}
  /\ pass' = Scanned
  /\ UNCHANGED <<pending, badRoots, gossiped, clock>>

\* The end of the loop: request the parents that nobody has seen since.
SendBatchRootRequest ==
  /\ pass.at = "scan" /\ pass.blocks = {} /\ pass.slots = {}
  /\ LET roots == pass.parents \ (pending.seen \cup beingSynced)
     IN pass' = IF roots = {} THEN IdlePass
                ELSE [pass EXCEPT !.at = "request", !.parents = roots]
  /\ UNCHANGED <<pending, dbBlocks, beingSynced, badRoots, gossiped, clock,
                 pendingFaults>>

\* A peer returns a block that was asked for.
BlockAnswered(r) ==
  /\ pass.at = "request" /\ r \in pass.parents
  /\ pending' = InsertBlock(pending, r)
  /\ pass' = [pass EXCEPT !.parents = @ \ {r}]
  /\ UNCHANGED <<dbBlocks, beingSynced, badRoots, gossiped, clock,
                 pendingFaults>>

\* All are there, or the tries are used up, or there is no peer.
EndPass ==
  /\ pass.at = "request" /\ pass' = IdlePass
  /\ UNCHANGED <<pending, dbBlocks, beingSynced, badRoots, gossiped, clock,
                 pendingFaults>>

\* processPendingAttsForBlock requests the blocks that waiting attestations
\* vote for in the same way, from the pass or from a gossip handler.
VotedBlockAnswered(r) ==
  /\ r \in VotedRoots \ (pending.seen \cup beingSynced)
  /\ pending' = InsertBlock(pending, r)
  /\ UNCHANGED <<dbBlocks, beingSynced, badRoots, gossiped, pass, clock,
                 pendingFaults>>

(***************************************************************************)
(* Gossip.  validateBlockLock admits one block to validation at a time;    *)
(* the queue may change between its checks and its insertion.              *)
(***************************************************************************)
MayValidate(b) ==
  /\ gossiped = NoBlock
  /\ b \notin dbBlocks

GossipBadParent(b) ==
  /\ MayValidate(b)
  /\ PendingParent[b] \in badRoots
  /\ badRoots' = badRoots \cup {b}
  /\ UNCHANGED <<pending, dbBlocks, beingSynced, gossiped, pass, clock,
                 pendingFaults>>

\* validateBeaconBlockPubSub up to its last two checks.
GossipBlock(b) ==
  /\ MayValidate(b)
  /\ PendingParent[b] \notin badRoots
  /\ b \notin pending.seen
  /\ PendingSlot[b] <= clock.slot + EarlySlots
  /\ clock.finalized * EpochSlots < PendingSlot[b]
  /\ IF PendingSlot[b] > clock.slot \/ PendingParent[b] \notin dbBlocks
     THEN gossiped' = b /\ UNCHANGED beingSynced
     ELSE beingSynced' = beingSynced \cup {b} /\ UNCHANGED gossiped
  /\ UNCHANGED <<pending, dbBlocks, badRoots, pass, clock, pendingFaults>>

QueueGossiped ==
  /\ gossiped # NoBlock
  /\ pending' = InsertBlock(pending, gossiped)
  /\ gossiped' = NoBlock
  /\ UNCHANGED <<dbBlocks, beingSynced, badRoots, pass, clock, pendingFaults>>

\* An import that beaconBlockSubscriber started comes to its end.
GossipImport(b) ==
  /\ b \in beingSynced
  /\ ~(pass.at = "import" /\ pass.current = b)
  /\ beingSynced' = beingSynced \ {b}
  /\ Imported(b) \/ FoundInvalid(b) \/ ImportFails
  /\ UNCHANGED <<pending, gossiped, pass, clock>>

(***************************************************************************)
(* Time, finality, and the resync of a node that has fallen behind.        *)
(***************************************************************************)
NextPendingSlot ==
  /\ clock.slot < PendingClock[2]
  /\ clock' = [clock EXCEPT !.slot = @ + 1]
  /\ UNCHANGED <<pending, dbBlocks, beingSynced, badRoots, gossiped, pass,
                 pendingFaults>>

FinalizesPending ==
  /\ clock.finalized + 2 <= ToEpoch(clock.slot)
  /\ clock' = [clock EXCEPT !.finalized = @ + 1]
  /\ UNCHANGED <<pending, dbBlocks, beingSynced, badRoots, gossiped, pass,
                 pendingFaults>>

Expire(s) ==
  /\ pending.entries[s] # {} /\ s \notin pending.expired /\ Fault
  /\ pending' = [pending EXCEPT !.expired = @ \cup {s}]
  /\ UNCHANGED <<dbBlocks, beingSynced, badRoots, gossiped, pass, clock>>

ClearPendingSlots ==
  /\ pending.seen # {} /\ Fault
  /\ pending' = [EmptyQueue EXCEPT !.forgotten = pending.forgotten]
  /\ UNCHANGED <<dbBlocks, beingSynced, badRoots, gossiped, pass, clock>>

PendingInit ==
  /\ pending = EmptyQueue
  /\ dbBlocks = KnownRoots
  /\ beingSynced = {} /\ badRoots = {}
  /\ gossiped = NoBlock
  /\ pass = IdlePass
  /\ clock = [slot |-> PendingClock[1], finalized |-> 0]
  /\ pendingFaults = 0

PendingNext ==
  \/ StartPass \/ OpenSlot
  \/ ReceiveBlock \/ FinishPending \/ BroadcastFails
  \/ SendBatchRootRequest \/ EndPass
  \/ QueueGossiped \/ NextPendingSlot \/ FinalizesPending \/ ClearPendingSlots
  \/ \E s \in PendingSlots : Expire(s)
  \/ \E r \in PendingRoots :
       \/ Drop(r) \/ Wait(r) \/ ProcessPending(r)
       \/ BlockAnswered(r) \/ VotedBlockAnswered(r)
       \/ GossipBadParent(r) \/ GossipBlock(r) \/ GossipImport(r)

PendingSpec == PendingInit /\ [][PendingNext]_pendingVars

-----------------------------------------------------------------------------
(***************************************************************************)
(* Every block in the queue, visible or expired, is marked as seen, so that *)
(* it is neither inserted nor requested a second time, and no slot holds   *)
(* more than maxBlocksPerSlot blocks, whatever insertions, deletions,      *)
(* evictions and resyncs interleave (insertBlockToPendingQueue,            *)
(* deleteBlockFromPendingQueue, OnEvicted, clearPendingSlots).             *)
(***************************************************************************)
QueuedAreSeen ==
  \A s \in PendingSlots :
    /\ pending.entries[s] \subseteq pending.seen
    /\ Cardinality(pending.entries[s]) <= MaxBlocksPerSlot

(***************************************************************************)
(* A root marked as seen is in the queue, except for the blocks that       *)
(* addPendingBlockToCache drops: one that meets a full slot, and those of  *)
(* an expired entry that a new block replaces.  Nothing else leaves a mark *)
(* behind, which would keep a block from ever being requested again.       *)
(***************************************************************************)
SeenAreQueued == pending.seen \subseteq Queued(pending) \cup pending.forgotten

\* Blocks of a finalized epoch and what builds on them: the least such set.
HoldsOld(S) ==
  \A r \in PendingRoots :
    ToEpoch(PendingSlot[r]) <= clock.finalized \/ PendingParent[r] \in S => r \in S

DescendsFromOld ==
  {r \in PendingRoots : \A S \in SUBSET PendingRoots : HoldsOld(S) => r \in S}

(***************************************************************************)
(* A block leaves the queue only because it was imported or another caller *)
(* is importing it, because it or its parent is bad, because its entry     *)
(* expired, because its epoch or that of an ancestor is finalized, or      *)
(* because of a resync; in particular a failed import keeps it.            *)
(***************************************************************************)
LeaveForAReason ==
  [][\A r \in Queued(pending) \ Queued(pending') :
       \/ r \in dbBlocks' \cup beingSynced'
       \/ r \in badRoots'
       \/ PendingSlot[r] \in pending.expired
       \/ clock.finalized > 0 /\ r \in DescendsFromOld
       \/ pending'.seen = {}]_pendingVars
=============================================================================
