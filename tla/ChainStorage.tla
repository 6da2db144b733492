---------------------------- MODULE ChainStorage ----------------------------
(***************************************************************************)
(* What the chain service keeps in the database and what only in memory,   *)
(* and what it finds when it starts again (beacon-chain/blockchain,        *)
(* beacon-chain/db/kv).  A batch of initial sync holds the fork choice     *)
(* lock from beginning to end and puts its blocks into a cache, which is   *)
(* saved now and then; a block that arrives alone is checked without the   *)
(* lock, then saved and inserted under it.  Both save the justified        *)
(* checkpoint, the finalized one with the index of finalized blocks, and   *)
(* the last validated one.  Each database transaction is a step of its     *)
(* own, and a crash may come between any two.                              *)
(***************************************************************************)
EXTENDS Integers, FiniteSets

CONSTANTS
  ChainBlocks,       \* blocks that may arrive
  GenesisRoot,       \* the block that the database starts with
  ChainParent,       \* the parent of each block
  ChainSlot,         \* the slot of each block
  PostJustified,     \* justified checkpoint of each block's post state
  PostFinalized,     \* finalized checkpoint of each block's post state
  TipJustified,      \* unrealized justified checkpoint of each block
  TipFinalized,      \* unrealized finalized checkpoint of each block
  ValidPayloads,     \* blocks whose payload the engine may find VALID
  SyncBatches,       \* sets of blocks that may come as a batch
  EpochLength,       \* slots of an epoch
  CacheLimit,        \* initialSyncBlockCacheSize
  NoCheckpoint,
  NoChild, Recent,   \* values in the index: no child yet, not known to be canonical
  FlushOverlap,      \* may a batch put a block into the cache between its save and its clearing?
  MaxReceiving,      \* bound: blocks received alone at a time
  MaxStorageFaults   \* bound: crashes, stops and failing imports

AllBlocks == ChainBlocks \cup {GenesisRoot}

ASSUME StorageAssumption ==
  /\ GenesisRoot \notin ChainBlocks
  /\ ChainParent \in [ChainBlocks -> AllBlocks]
  /\ ChainSlot \in [AllBlocks -> Nat]
  /\ EpochLength \in Nat \ {0}
  /\ SyncBatches \subseteq SUBSET ChainBlocks
  /\ FlushOverlap \in BOOLEAN

VARIABLES
  disk,           \* the database
  mem,            \* fork choice, initSyncBlocks, stateSummaryCache
  receiving,      \* calls of ReceiveBlock that do not hold the lock yet
  job,            \* the import that holds the fork choice lock
  storageFaults

storageVars == <<disk, mem, receiving, job, storageFaults>>

(* A block and its ancestors: the least set with the block and the parents *)
(* of its members.                                                         *)
HasParents(S) == \A r \in S \ {GenesisRoot} : ChainParent[r] \in S

Lineage ==
  [r \in AllBlocks |->
     {a \in AllBlocks : \A S \in SUBSET AllBlocks : r \in S /\ HasParents(S) => a \in S}]

BlockEpoch(r) == ChainSlot[r] \div EpochLength

StartOfEpoch(e) == e * EpochLength

GenesisCheckpoint == [epoch |-> 0, root |-> GenesisRoot]

FinalCheckpoints ==
  {GenesisCheckpoint} \cup {PostFinalized[r] : r \in AllBlocks}
                      \cup {TipFinalized[r] : r \in AllBlocks}

(***************************************************************************)
(* What the state transition guarantees of blocks and checkpoints: a block *)
(* is later than its parent, and the block of a checkpoint not later than  *)
(* the first slot of its epoch.  Accountable safety: of two finalized      *)
(* checkpoints the later descends from the earlier.                        *)
(***************************************************************************)
ASSUME FinalizedChain ==
  /\ \A b \in ChainBlocks : ChainSlot[ChainParent[b]] < ChainSlot[b]
  /\ \A c \in FinalCheckpoints :
       /\ c.epoch \in Nat /\ c.root \in AllBlocks
       /\ ChainSlot[c.root] <= StartOfEpoch(c.epoch)
  /\ \A c, d \in FinalCheckpoints : c.epoch < d.epoch => c.root \in Lineage[d.root]

ASSUME IndexValues ==
  /\ NoChild \notin AllBlocks /\ Recent \notin AllBlocks /\ Recent # NoChild

Lowest(r, S) == r \in S /\ \A a \in S : ChainSlot[r] <= ChainSlot[a]

(***************************************************************************)
(* The index of finalized blocks: each block of the finalized chain with   *)
(* its child, and the other blocks of the last epochs as Recent.  A new    *)
(* checkpoint takes the last epochs out, walks from its block to the first *)
(* ancestor that is still in, and puts the last epochs back.  The end of a *)
(* range of epochs is included, so that the last epochs are the one of the *)
(* checkpoint and the next.                                                *)
(***************************************************************************)
BlockRoots(d, first, end) ==
  {r \in d.blocks \ {GenesisRoot} :
     StartOfEpoch(first) <= ChainSlot[r] /\ ChainSlot[r] < StartOfEpoch(end) + EpochLength}

StillIndexed(d, cp) ==
  DOMAIN d.index \ BlockRoots(d, d.finalized.epoch, cp.epoch + 1)

Walked(d, cp) ==
  LET path == Lineage[cp.root] \ {GenesisRoot}
  IN  {r \in path : \A a \in path \ {cp.root} :
         ChainSlot[a] >= ChainSlot[r] => a \notin StillIndexed(d, cp)}

UpdateFinalizedBlockRoots_Unlinked(d, cp) ==
  LET walked == Walked(d, cp)
      recent == BlockRoots(d, cp.epoch, cp.epoch + 1)
  IN  [r \in StillIndexed(d, cp) \cup walked \cup recent |->
         IF r = cp.root THEN NoChild
         ELSE IF r \in walked THEN CHOOSE c \in walked : ChainParent[c] = r
         ELSE IF r \in StillIndexed(d, cp) THEN d.index[r] ELSE Recent]

UpdateFinalizedBlockRoots(d, cp) ==
  LET kept   == StillIndexed(d, cp)
      walked == Walked(d, cp)
      met    == {ChainParent[r] : r \in walked} \cap kept
      recent == BlockRoots(d, cp.epoch, cp.epoch + 1)
      Child(r) == IF r = cp.root THEN NoChild
                  ELSE CHOOSE c \in walked : ChainParent[c] = r
  IN  [r \in kept \cup walked \cup recent |->
         IF r \in walked \cup met THEN Child(r)
         ELSE IF r \in kept THEN d.index[r] ELSE Recent]

SaveBlocks(d, blocks) == [d EXCEPT !.blocks = @ \cup blocks]

HasSummary(d, m, r) == r \in m.summaries \cup d.blocks

SaveJustified(d, cp) == [d EXCEPT !.justified = cp]

SaveFinalized(d, cp) ==
  [d EXCEPT !.finalized = cp, !.index = UpdateFinalizedBlockRoots(d, cp)]

LastValidated(d) == IF d.validated = NoCheckpoint THEN d.finalized ELSE d.validated

(* DeleteState refuses the checkpoints, DeleteBlock also the index.        *)
IsCheckpoint(d, r) == r \in {GenesisRoot, d.justified.root, d.finalized.root}

DeleteBlockOf_Unindexed(d, r) ==
  IF IsCheckpoint(d, r) THEN d ELSE [d EXCEPT !.blocks = @ \ {r}]

DeleteBlockOf(d, r) ==
  IF IsCheckpoint(d, r) \/ r \in DOMAIN d.index THEN d
  ELSE [d EXCEPT !.blocks = @ \ {r}]

(***************************************************************************)
(* Fork choice, as far as the service reads it: the blocks of the tree,    *)
(* those that are not optimistic, and the two checkpoints.                 *)
(***************************************************************************)
CompatibleWith(r, cp) ==
  /\ cp.root \in Lineage[r]
  /\ \A a \in Lineage[r] \ Lineage[cp.root] : ChainSlot[a] > StartOfEpoch(cp.epoch)

(* updateCheckpoints fails when the finalized block is not in the tree.    *)
CanUpdate(m, fc) == fc.epoch > m.finalized.epoch => fc.root \in m.tree

AdoptCheckpoints(m, jc, fc) ==
  LET rises == fc.epoch > m.finalized.epoch
  IN  [m EXCEPT !.justified = IF jc.epoch > @.epoch THEN jc ELSE @,
                !.finalized = IF rises THEN fc ELSE @,
                !.tree = IF rises /\ fc.root \in @
                         THEN {r \in @ : CompatibleWith(r, fc)} ELSE @]

AddNode(m, r) == [m EXCEPT !.tree = @ \cup {r}]

CanAdd(m, r) == r \in m.tree \/ ChainParent[r] \in m.tree

MarkValid(m, r) ==
  [m EXCEPT !.valid = @ \cup (Lineage[r] \cap m.tree)]

(***************************************************************************)
(* Starting from the database.  The states that are needed, those of the   *)
(* two checkpoints, are replayed: of the finalized block from genesis, of  *)
(* the justified one from the finalized one when that is an ancestor.      *)
(***************************************************************************)
Above(d, r) ==
  IF d.finalized.root \in Lineage[r] THEN Lineage[r] \ Lineage[d.finalized.root]
  ELSE Lineage[r]

Startable(d) ==
  /\ Lineage[d.finalized.root] \subseteq d.blocks
  /\ Above(d, d.justified.root) \subseteq d.blocks

(* buildForkchoiceChain; without it the node starts at the finalized block. *)
StartupChain(d) ==
  LET chain == Above(d, d.justified.root)
  IN  IF /\ d.finalized.root \in Lineage[d.justified.root]
         /\ \A r \in chain : BlockEpoch(r) >= d.finalized.epoch
      THEN chain ELSE {}

Started(d) ==
  [up |-> TRUE, saved |-> FALSE, cache |-> {}, summaries |-> {},
   tree |-> {d.finalized.root} \cup StartupChain(d),
   valid |-> {d.finalized.root} \cap {LastValidated(d).root},
   justified |-> d.justified, finalized |-> d.finalized]

Stopped(saved) ==
  [up |-> FALSE, saved |-> saved, cache |-> {}, summaries |-> {}, tree |-> {}, valid |-> {},
   justified |-> GenesisCheckpoint, finalized |-> GenesisCheckpoint]

NoJob == [kind |-> "none", pc |-> "next", at |-> GenesisRoot, first |-> GenesisRoot,
         fill |-> {}, todo |-> {}, insert |-> {}, j |-> 0, f |-> 0]

LockIsFree == mem.up /\ job = NoJob

(* A cache flush: SaveBlocks(getInitSyncBlocks()), clearInitSyncBlocks().   *)
Cleared(m) == [m EXCEPT !.cache = {}]

(***************************************************************************)
(* ReceiveBlock before it takes the lock.  getBlockPreState saves the      *)
(* cache when the parent's state is in no cache of states; no lock keeps a *)
(* batch from adding to the cache meanwhile.                               *)
(***************************************************************************)
Call(b, stage, j, f) == [root |-> b, stage |-> stage, j |-> j, f |-> f]

EnterReceive(b) ==
  /\ LockIsFree
  /\ b \notin mem.tree
  /\ \A c \in receiving : c.root # b
  /\ Cardinality(receiving) < MaxReceiving
  /\ receiving' = receiving \cup {Call(b, "state", 0, 0)}
  /\ UNCHANGED <<disk, mem, job, storageFaults>>

StateCached(c) ==
  /\ c.stage = "state"
  /\ HasSummary(disk, mem, ChainParent[c.root])
  /\ receiving' = (receiving \ {c}) \cup {[c EXCEPT !.stage = "check"]}
  /\ UNCHANGED <<disk, mem, job, storageFaults>>

StateReplayed(c) ==
  /\ c.stage = "state"
  /\ HasSummary(disk, mem, ChainParent[c.root])
  /\ disk' = SaveBlocks(disk, mem.cache)
  /\ receiving' = (receiving \ {c}) \cup {[c EXCEPT !.stage = "clear"]}
  /\ UNCHANGED <<mem, job, storageFaults>>

ClearInitSyncBlocks(c) ==
  /\ c.stage = "clear"
  /\ mem' = Cleared(mem)
  /\ receiving' = (receiving \ {c}) \cup {[c EXCEPT !.stage = "check"]}
  /\ UNCHANGED <<disk, job, storageFaults>>

(* The parent is unknown, or the block is not later than the finalized slot. *)
Refused(c) ==
  \/ c.stage = "state" /\ ~HasSummary(disk, mem, ChainParent[c.root])
  \/ /\ c.stage = "check" /\ LockIsFree
     /\ \/ ChainSlot[c.root] <= StartOfEpoch(mem.finalized.epoch)
        \/ ChainParent[c.root] \notin mem.tree

Refuse(c) ==
  /\ Refused(c)
  /\ receiving' = receiving \ {c}
  /\ UNCHANGED <<disk, mem, job, storageFaults>>

Validate(c) ==
  /\ c.stage = "check" /\ LockIsFree /\ ~Refused(c)
  /\ receiving' = (receiving \ {c}) \cup
       {Call(c.root, "ready", mem.justified.epoch, mem.finalized.epoch)}
  /\ UNCHANGED <<disk, mem, job, storageFaults>>

(* savePostStateInfo, the first thing under the lock.                      *)
SavePostState(c) ==
  /\ c.stage = "ready" /\ LockIsFree
  /\ disk' = SaveBlocks(disk, {c.root})
  /\ mem' = [mem EXCEPT !.summaries = @ \cup {c.root}]
  /\ job' = [NoJob EXCEPT !.kind = "block", !.pc = "insert", !.at = c.root,
                         !.j = c.j, !.f = c.f]
  /\ receiving' = receiving \ {c}
  /\ UNCHANGED storageFaults

(***************************************************************************)
(* postBlockProcess.  A block that cannot be inserted is taken out of the  *)
(* database again.  late: the unrealized checkpoints count, because the    *)
(* block is of an earlier epoch; ok: the engine finds the payload VALID.   *)
(***************************************************************************)
InsertBlockNode(late, ok) ==
  LET b  == job.at
      jc == IF late THEN TipJustified[b] ELSE PostJustified[b]
      fc == IF late THEN TipFinalized[b] ELSE PostFinalized[b]
      m  == AdoptCheckpoints(AddNode(mem, b), jc, fc)
  IN  /\ job.pc = "insert"
      /\ CanAdd(mem, b) /\ CanUpdate(AddNode(mem, b), fc)
      /\ ok => b \in ValidPayloads
      /\ mem' = IF ok THEN MarkValid(m, b) ELSE m
      /\ job' = [job EXCEPT !.pc = "justify"]
      /\ UNCHANGED <<disk, receiving, storageFaults>>

RollbackBlock ==
  /\ job.pc = "insert"
  /\ ~CanAdd(mem, job.at)
  /\ disk' = DeleteBlockOf(disk, job.at)
  /\ mem' = IF IsCheckpoint(disk, job.at) THEN mem
            ELSE [mem EXCEPT !.summaries = @ \ {job.at}]
  /\ job' = NoJob
  /\ UNCHANGED <<receiving, storageFaults>>

(***************************************************************************)
(* ReceiveBlockBatch.  Blocks of the database that fork choice lacks below *)
(* the batch are inserted first, with the checkpoints of the pre-state;    *)
(* then the blocks are cached one by one and the checkpoints saved, then   *)
(* all are inserted and the cache is saved.                                *)
(***************************************************************************)
MissingBlocks(p) ==
  {r \in Lineage[p] : \A a \in Lineage[p] : ChainSlot[a] >= ChainSlot[r] =>
     /\ a \in disk.blocks \ mem.tree
     /\ ChainSlot[a] > StartOfEpoch(mem.finalized.epoch)}

StartBatch(batch, flush) ==
  \E b \in batch :
    LET p         == ChainParent[b]
        missing   == MissingBlocks(p)
        connected == missing = {} \/ \E r \in missing :
                       ChainParent[r] \in mem.tree \cup {mem.finalized.root}
    IN  /\ LockIsFree /\ Lowest(b, batch)
        /\ HasSummary(disk, mem, p)
        /\ disk' = IF flush THEN SaveBlocks(disk, mem.cache) ELSE disk
        /\ mem' = IF flush THEN Cleared(mem) ELSE mem
        /\ job' = IF ~connected THEN NoJob
                  ELSE [NoJob EXCEPT !.kind = "batch", !.at = p, !.first = b,
                          !.fill = missing, !.todo = batch, !.insert = batch]
        /\ UNCHANGED <<receiving, storageFaults>>

(* One round of InsertChain; what fails leaves the rest of the batch out.  *)
InsertOf(r, jc, fc, rest) ==
  /\ mem' = IF CanAdd(mem, r) THEN AdoptCheckpoints(AddNode(mem, r), jc, fc) ELSE mem
  /\ job' = IF CanAdd(mem, r) /\ CanUpdate(AddNode(mem, r), fc) THEN rest ELSE NoJob
  /\ UNCHANGED <<disk, receiving, storageFaults>>

FillInMissing ==
  \E r \in job.fill :
    /\ Lowest(r, job.fill)
    /\ InsertOf(r, PostJustified[job.at], PostFinalized[job.at],
                [job EXCEPT !.fill = @ \ {r}])

(* saveInitSyncBlock and SaveStateSummary of the next block.               *)
CacheBlock_SavesTooEarly ==
  \E b \in job.todo :
    LET full == Cardinality(mem.cache \cup {b}) > CacheLimit
    IN  /\ job.fill = {} /\ job.pc = "next" /\ Lowest(b, job.todo)
        /\ FlushOverlap \/ \A c \in receiving : c.stage # "clear"
        /\ disk' = IF full THEN SaveBlocks(disk, mem.cache) ELSE disk
        /\ mem' = [mem EXCEPT !.cache = IF full THEN {} ELSE @ \cup {b},
                              !.summaries = @ \cup {b}]
        /\ job' = [job EXCEPT !.todo = @ \ {b}, !.at = b, !.pc = "justify"]
        /\ UNCHANGED <<receiving, storageFaults>>

CacheBlock ==
  \E b \in job.todo :
    LET cache == mem.cache \cup {b}
        full  == Cardinality(cache) > CacheLimit
    IN  /\ job.fill = {} /\ job.pc = "next" /\ Lowest(b, job.todo)
        /\ FlushOverlap \/ \A c \in receiving : c.stage # "clear"
        /\ disk' = IF full THEN SaveBlocks(disk, cache) ELSE disk
        /\ mem' = [mem EXCEPT !.cache = IF full THEN {} ELSE cache,
                              !.summaries = @ \cup {b}]
        /\ job' = [job EXCEPT !.todo = @ \ {b}, !.at = b, !.pc = "justify"]
        /\ UNCHANGED <<receiving, storageFaults>>

InsertBatch ==
  \E b \in job.insert :
    /\ job.kind = "batch" /\ job.fill = {} /\ job.todo = {} /\ job.pc = "next"
    /\ Lowest(b, job.insert)
    /\ InsertOf(b, PostJustified[b], PostFinalized[b],
                [job EXCEPT !.insert = @ \ {b}])

(* SetOptimisticToValid when the payload of the last block is VALID, then  *)
(* SaveBlocks.                                                             *)
EndBatch(ok) ==
  /\ job.kind = "batch" /\ job.fill = {} /\ job.todo = {} /\ job.insert = {}
  /\ job.pc = "next"
  /\ ok => job.at \in ValidPayloads
  /\ disk' = SaveBlocks(disk, mem.cache)
  /\ mem' = IF ok THEN MarkValid(mem, job.at) ELSE mem
  /\ job' = NoJob
  /\ UNCHANGED <<receiving, storageFaults>>

(***************************************************************************)
(* The checkpoints of both kinds of import.  A batch saves those of the    *)
(* state of its block when they rise inside the batch; a block alone saves *)
(* those of fork choice when they have risen since before the lock, or     *)
(* when the block's own state raises them.                                 *)
(***************************************************************************)
Rises(before, now, post, pre) ==
  \/ now.epoch > before
  \/ now.epoch = post.epoch /\ now.epoch > pre.epoch

JustifiedToSave ==
  IF job.kind = "batch" THEN PostJustified[job.at] ELSE mem.justified

FinalizedToSave ==
  IF job.kind = "batch" THEN PostFinalized[job.at] ELSE mem.finalized

JustifiedRises ==
  LET post == PostJustified[job.at]
      pre  == PostJustified[ChainParent[job.at]]
  IN  IF job.kind = "batch" THEN job.at # job.first /\ post.epoch > pre.epoch
      ELSE Rises(job.j, mem.justified, post, pre)

FinalizedRises ==
  LET post == PostFinalized[job.at]
      pre  == PostFinalized[ChainParent[job.at]]
  IN  /\ FinalizedToSave.epoch > disk.finalized.epoch
      /\ IF job.kind = "batch" THEN job.at # job.first /\ post.epoch > pre.epoch
         ELSE Rises(job.f, mem.finalized, post, pre)

(* What follows the checkpoints: the next block of a batch.                *)
Continue == IF job.kind = "batch" THEN [job EXCEPT !.pc = "next"] ELSE NoJob

SaveJustifiedCheckpoint ==
  /\ job.pc = "justify"
  /\ IF JustifiedRises /\ ~HasSummary(disk, mem, JustifiedToSave.root)
     THEN job' = NoJob /\ UNCHANGED disk
     ELSE /\ disk' = IF JustifiedRises THEN SaveJustified(disk, JustifiedToSave) ELSE disk
          /\ job' = IF FinalizedRises THEN [job EXCEPT !.pc = "flush"] ELSE Continue
  /\ UNCHANGED <<mem, receiving, storageFaults>>

(* updateFinalized, one step for each of its transactions.                 *)
FlushCache ==
  /\ job.pc = "flush"
  /\ disk' = SaveBlocks(disk, mem.cache)
  /\ mem' = Cleared(mem)
  /\ job' = [job EXCEPT !.pc = "finalize"]
  /\ UNCHANGED <<receiving, storageFaults>>

SaveFinalizedCheckpoint ==
  LET cp == FinalizedToSave
      ok == HasSummary(disk, mem, cp.root) /\ Walked(disk, cp) \subseteq disk.blocks
  IN  /\ job.pc = "finalize"
      /\ disk' = IF ok THEN SaveFinalized(disk, cp) ELSE disk
      /\ job' = IF ok THEN [job EXCEPT !.pc = "validate"] ELSE NoJob
      /\ UNCHANGED <<mem, receiving, storageFaults>>

SaveLastValidatedCheckpoint_Optimistic ==
  /\ job.pc = "validate"
  /\ disk' = [disk EXCEPT !.validated = FinalizedToSave]
  /\ job' = Continue
  /\ UNCHANGED <<mem, receiving, storageFaults>>

SaveLastValidatedCheckpoint ==
  LET cp == FinalizedToSave
  IN  /\ job.pc = "validate"
      /\ disk' = IF cp.root \in mem.tree \cap mem.valid
                 THEN [disk EXCEPT !.validated = cp] ELSE disk
      /\ job' = Continue
      /\ UNCHANGED <<mem, receiving, storageFaults>>

(***************************************************************************)
(* Time, failures, stops and starts.                                       *)
(***************************************************************************)
StorageFault == storageFaults < MaxStorageFaults /\ storageFaults' = storageFaults + 1

(* NewSlot at the start of an epoch adopts unrealized checkpoints.         *)
AdoptUnrealized(r) ==
  /\ LockIsFree /\ r \in mem.tree
  /\ CanUpdate(mem, TipFinalized[r])
  /\ mem' = AdoptCheckpoints(mem, TipJustified[r], TipFinalized[r])
  /\ UNCHANGED <<disk, receiving, job, storageFaults>>

(* The engine, data availability, a context or the database fails: the     *)
(* import returns and leaves everything as it is.                          *)
ImportErrors ==
  /\ job.kind = "batch" \/ (job.kind = "block" /\ job.pc # "insert")
  /\ StorageFault
  /\ job' = NoJob
  /\ UNCHANGED <<disk, mem, receiving>>

Down(saved) ==
  /\ mem.up /\ StorageFault
  /\ mem' = Stopped(saved) /\ job' = NoJob /\ receiving' = {}

NodeCrashes == Down(FALSE) /\ UNCHANGED disk

StopService_KeepsCache == Down(TRUE) /\ UNCHANGED disk

StopService == Down(TRUE) /\ disk' = SaveBlocks(disk, mem.cache)

StartFromSavedState ==
  /\ ~mem.up /\ Startable(disk)
  /\ mem' = Started(disk)
  /\ UNCHANGED <<disk, receiving, job, storageFaults>>

GenesisDisk ==
  [blocks |-> {GenesisRoot}, justified |-> GenesisCheckpoint,
   finalized |-> GenesisCheckpoint, validated |-> NoCheckpoint, index |-> <<>>]

StorageInit ==
  /\ disk = GenesisDisk
  /\ mem = Started(GenesisDisk)
  /\ receiving = {} /\ job = NoJob /\ storageFaults = 0

StorageNext ==
  \/ \E b \in ChainBlocks : EnterReceive(b)
  \/ \E c \in receiving : StateCached(c)
  \/ \E c \in receiving : StateReplayed(c)
  \/ \E c \in receiving : ClearInitSyncBlocks(c)
  \/ \E c \in receiving : Refuse(c)
  \/ \E c \in receiving : Validate(c)
  \/ \E c \in receiving : SavePostState(c)
  \/ \E late, ok \in BOOLEAN : InsertBlockNode(late, ok)
  \/ RollbackBlock
  \/ \E batch \in SyncBatches, flush \in BOOLEAN : StartBatch(batch, flush)
  \/ FillInMissing
  \/ CacheBlock
  \/ InsertBatch
  \/ \E ok \in BOOLEAN : EndBatch(ok)
  \/ SaveJustifiedCheckpoint
  \/ FlushCache
  \/ SaveFinalizedCheckpoint
  \/ SaveLastValidatedCheckpoint
  \/ \E r \in AllBlocks : AdoptUnrealized(r)
  \/ ImportErrors
  \/ NodeCrashes
  \/ StopService
  \/ StartFromSavedState

StorageSpec == StorageInit /\ [][StorageNext]_storageVars

(***************************************************************************)
(* Properties.                                                             *)
(***************************************************************************)

(* getBlock and HasBlock find every block of the fork choice tree in the   *)
(* initial sync cache or in the database, whatever imports run together.   *)
NodesAreStored ==
  mem.tree \subseteq disk.blocks \cup mem.cache

(* At every moment, so also after a crash, the database holds the chain of *)
(* its finalized checkpoint from genesis: updateFinalized saves the cache  *)
(* first, and a rollback cannot delete what is finalized.                  *)
FinalizedIsStored ==
  Lineage[disk.finalized.root] \subseteq disk.blocks

(* The index of updateFinalizedBlockRoots links the finalized chain, each  *)
(* block to its child, and the other entries are recent.                   *)
IndexIsChain ==
  LET chain == Lineage[disk.finalized.root] \ {GenesisRoot}
      linked == {r \in DOMAIN disk.index : disk.index[r] # Recent}
  IN  /\ linked = chain
      /\ \A r \in chain : IF r = disk.finalized.root THEN disk.index[r] = NoChild
                          ELSE /\ disk.index[r] \in chain
                               /\ ChainParent[disk.index[r]] = r
      /\ \A r \in DOMAIN disk.index \ chain : BlockEpoch(r) >= disk.finalized.epoch

(* While the node runs, the block of the justified checkpoint that         *)
(* onBlockBatch or updateJustificationOnBlock saved is in the database or  *)
(* in the cache, and it is in the database once Stop has saved the cache,  *)
(* in the middle of whatever import was running.                           *)
JustifiedIsKept ==
  mem.up \/ mem.saved => disk.justified.root \in disk.blocks \cup mem.cache

(* Only a block that the engine found VALID becomes the last validated     *)
(* checkpoint of the database, although batches finalize blocks that are   *)
(* not in fork choice yet.                                                 *)
ValidatedIsValid ==
  disk.validated # NoCheckpoint => disk.validated.root \in ValidPayloads \cup {GenesisRoot}

(* rollbackBlock: "we rollback changes done to the db and our caches to    *)
(* always ensure that the node's internal state is consistent"; so the     *)
(* blocks of the finalized chain, which the node replays from, stay in the *)
(* database or in the cache.                                               *)
FinalityIsStored ==
  mem.up => Lineage[mem.finalized.root] \subseteq disk.blocks \cup mem.cache
=============================================================================
