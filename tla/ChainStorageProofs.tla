------------------------ MODULE ChainStorageProofs -------------------------
(***************************************************************************)
(* What the database and the caches of the chain service hold, for every   *)
(* chain, every cut of it into batches, and every interleaving of imports, *)
(* failures, crashes and starts.                                           *)
(***************************************************************************)
EXTENDS ChainStorage, TLAPS

\* Most leaves are first-order; the solver takes the others.
USE ZenonT(10), SMTT(20), ZenonT(30), SMTT(40)

-----------------------------------------------------------------------------
(***************************************************************************)
(* No block that the node relies on is lost, for every chain, every cut of *)
(* it into batches and every interleaving of ChainStorage, provided that   *)
(* no batch caches a block between the save and the clearing of the cache  *)
(* by getBlockPreState.                                                    *)
(*                                                                         *)
(* NodesAreStored and JustifiedIsKept are not inductive.  A batch inserts  *)
(* what it cached several steps before, and a block alone what it saved a  *)
(* step before; saveCheckpoint asks for a state summary and not for the    *)
(* block; and a call between the save and the clearing of the cache is     *)
(* about to drop all of it.  So the blocks that matter are those of the    *)
(* tree, those with a summary and those that the batch has cached (Needed),*)
(* they are stored or cached, and while a clearing is due they are stored. *)
(* A rollback may delete a block that is still cached, but none of these.  *)
(***************************************************************************)

Shape ==
  /\ DOMAIN disk = {"blocks", "justified", "finalized", "validated", "index"}
  /\ DOMAIN mem = {"up", "saved", "cache", "summaries", "tree", "valid",
                   "justified", "finalized"}
  /\ DOMAIN job = {"kind", "pc", "at", "first", "fill", "todo", "insert", "j", "f"}
  /\ \A c \in receiving : DOMAIN c = {"root", "stage", "j", "f"}

RootsAreBlocks ==
  /\ disk.blocks \subseteq AllBlocks /\ mem.cache \subseteq AllBlocks
  /\ mem.summaries \subseteq AllBlocks /\ job.todo \subseteq AllBlocks
  /\ \A c \in receiving : c.root \in AllBlocks
  /\ disk.justified.root \in AllBlocks /\ disk.finalized.root \in AllBlocks

Needed == mem.tree \cup mem.summaries \cup (job.insert \ job.todo)

NeededAreStored ==
  /\ Needed \subseteq disk.blocks \cup mem.cache
  /\ job.fill \subseteq disk.blocks
  /\ job.pc = "insert" => job.at \in disk.blocks
  /\ ~mem.up => mem.cache = {} /\ job.todo = {}

ClearingIsSafe ==
  \A c \in receiving : c.stage = "clear" =>
    mem.cache \cap (Needed \cup {disk.justified.root}) \subseteq disk.blocks

StorageInv ==
  Shape /\ RootsAreBlocks /\ NeededAreStored /\ ClearingIsSafe /\ JustifiedIsKept

\* A block is on its own chain.
LEMMA BlockInLineage ==
  ASSUME NEW r \in AllBlocks
  PROVE  r \in Lineage[r]
BY DEF Lineage

\* What StartFromSavedState builds is in the database.
LEMMA StartedIsStored ==
  ASSUME NEW d, Startable(d), d.finalized.root \in AllBlocks, d.justified.root \in AllBlocks
  PROVE  /\ Started(d).tree \subseteq d.blocks
         /\ d.justified.root \in d.blocks
<1>1. d.finalized.root \in d.blocks
  BY BlockInLineage DEF Startable
<1>2. StartupChain(d) \subseteq d.blocks
  BY DEF StartupChain, Startable
<1>3. d.justified.root \in d.blocks
  BY BlockInLineage DEF Startable, Above
<1> QED
  BY <1>1, <1>2, <1>3 DEF Started

\* The database holds the genesis block and nothing is under way.
LEMMA InitStorageInv == StorageInit => StorageInv
<1> SUFFICES ASSUME StorageInit PROVE StorageInv
  OBVIOUS
<1>1. disk = GenesisDisk /\ job = NoJob /\ receiving = {} /\ mem = Started(GenesisDisk)
  BY DEF StorageInit
<1>2. /\ GenesisDisk.blocks = {GenesisRoot}
      /\ GenesisDisk.finalized.root = GenesisRoot
      /\ GenesisDisk.justified.root = GenesisRoot
  BY DEF GenesisDisk, GenesisCheckpoint
<1>3. StartupChain(GenesisDisk) = {}
  BY <1>2, BlockInLineage DEF StartupChain, Above, AllBlocks
<1>4. /\ mem.tree = {GenesisRoot} /\ mem.cache = {} /\ mem.summaries = {}
      /\ job.fill = {} /\ job.todo = {} /\ job.insert = {} /\ job.pc = "next"
  BY <1>1, <1>2, <1>3 DEF Started, NoJob
<1>5. Shape
  BY <1>1 DEF Shape, GenesisDisk, Started, NoJob
<1> QED
  BY <1>1, <1>2, <1>4, <1>5
  DEF StorageInv, RootsAreBlocks, Needed, NeededAreStored, ClearingIsSafe, JustifiedIsKept, AllBlocks

(***************************************************************************)
(* ReceiveBlock before the lock.                                           *)
(***************************************************************************)
LEMMA ReceiveKeeps ==
  ASSUME StorageInv
  PROVE  /\ \A b \in ChainBlocks : EnterReceive(b) => StorageInv'
         /\ \A c \in receiving : StateCached(c) => StorageInv'
         /\ \A c \in receiving : Refuse(c) => StorageInv'
         /\ \A c \in receiving : Validate(c) => StorageInv'
<1> USE DEF StorageInv, Shape, RootsAreBlocks, Needed, NeededAreStored, ClearingIsSafe,
            JustifiedIsKept, AllBlocks
<1>1. ASSUME NEW b \in ChainBlocks, EnterReceive(b) PROVE StorageInv'
  BY <1>1, SMT, SMTT(20) DEF EnterReceive, Call
<1>2. ASSUME NEW c \in receiving, StateCached(c) PROVE StorageInv'
  BY <1>2, SMT, SMTT(20) DEF StateCached
<1>3. ASSUME NEW c \in receiving, Refuse(c) PROVE StorageInv'
  BY <1>3 DEF Refuse
<1>4. ASSUME NEW c \in receiving, Validate(c) PROVE StorageInv'
  BY <1>4, SMT, SMTT(20) DEF Validate, Call
<1> QED
  BY <1>1, <1>2, <1>3, <1>4

\* getBlockPreState saves the cache and, in another step, clears it.
LEMMA ReplayKeeps ==
  ASSUME StorageInv, NEW c \in receiving
  PROVE  /\ StateReplayed(c) => StorageInv'
         /\ ClearInitSyncBlocks(c) => StorageInv'
<1> USE DEF StorageInv, Shape, RootsAreBlocks, Needed, NeededAreStored, ClearingIsSafe,
            JustifiedIsKept
<1>1. ASSUME StateReplayed(c) PROVE StorageInv'
  BY <1>1 DEF StateReplayed, SaveBlocks
<1>2. ASSUME ClearInitSyncBlocks(c) PROVE StorageInv'
  BY <1>2, SMT, SMTT(20) DEF ClearInitSyncBlocks, Cleared
<1> QED
  BY <1>1, <1>2

(***************************************************************************)
(* A block alone, under the lock.                                          *)
(***************************************************************************)
LEMMA AdoptedTree ==
  ASSUME NEW m, NEW jc, NEW fc,
         DOMAIN m = {"up", "saved", "cache", "summaries", "tree", "valid",
                     "justified", "finalized"}
  PROVE  LET a == AdoptCheckpoints(m, jc, fc)
         IN  /\ a.tree \subseteq m.tree
             /\ a.cache = m.cache /\ a.summaries = m.summaries
             /\ a.up = m.up /\ a.saved = m.saved
             /\ DOMAIN a = DOMAIN m
BY DEF AdoptCheckpoints

\* A node that is stored may join the tree, whatever the checkpoints then prune.
LEMMA AdoptedNode ==
  ASSUME Shape, NEW r, NEW jc, NEW fc
  PROVE  LET a == AdoptCheckpoints(AddNode(mem, r), jc, fc)
         IN  /\ a.tree \subseteq mem.tree \cup {r}
             /\ a.cache = mem.cache /\ a.summaries = mem.summaries
             /\ a.up = mem.up /\ a.saved = mem.saved
             /\ DOMAIN a = DOMAIN mem
<1> DEFINE m == AddNode(mem, r)
<1>1. /\ m.tree = mem.tree \cup {r} /\ m.cache = mem.cache /\ m.summaries = mem.summaries
      /\ m.up = mem.up /\ m.saved = mem.saved /\ DOMAIN m = DOMAIN mem
  BY DEF AddNode, Shape
<1>2. DOMAIN m = {"up", "saved", "cache", "summaries", "tree", "valid",
                  "justified", "finalized"}
  BY <1>1 DEF Shape
<1> HIDE DEF m
<1>3. LET a == AdoptCheckpoints(m, jc, fc)
      IN  /\ a.tree \subseteq m.tree
          /\ a.cache = m.cache /\ a.summaries = m.summaries
          /\ a.up = m.up /\ a.saved = m.saved
          /\ DOMAIN a = DOMAIN m
  BY <1>2, AdoptedTree
<1> QED
  BY <1>1, <1>3 DEF m

\* savePostStateInfo stores a block before it enters the tree.
LEMMA SavePostStateKeeps ==
  ASSUME StorageInv, NEW c \in receiving, SavePostState(c)
  PROVE  StorageInv'
BY SMT, SMTT(20) DEF StorageInv, Shape, RootsAreBlocks, Needed, NeededAreStored, ClearingIsSafe,
       JustifiedIsKept, SavePostState, SaveBlocks, NoJob

\* InsertNode takes in a block that was just stored.
LEMMA InsertBlockNodeKeeps ==
  ASSUME StorageInv, NEW late \in BOOLEAN, NEW ok \in BOOLEAN, InsertBlockNode(late, ok)
  PROVE  StorageInv'
<1> DEFINE b  == job.at
           jc == IF late THEN TipJustified[b] ELSE PostJustified[b]
           fc == IF late THEN TipFinalized[b] ELSE PostFinalized[b]
           m  == AdoptCheckpoints(AddNode(mem, b), jc, fc)
<1>1. /\ m.tree \subseteq mem.tree \cup {b}
      /\ m.cache = mem.cache /\ m.summaries = mem.summaries
      /\ m.up = mem.up /\ m.saved = mem.saved /\ DOMAIN m = DOMAIN mem
  BY AdoptedNode, SMT, SMTT(20) DEF StorageInv
<1>2. /\ mem' = IF ok THEN MarkValid(m, b) ELSE m
      /\ job.pc = "insert" /\ job' = [job EXCEPT !.pc = "justify"]
      /\ UNCHANGED <<disk, receiving>>
  BY DEF InsertBlockNode
<1> HIDE DEF m
<1>3. /\ mem'.tree \subseteq mem.tree \cup {b}
      /\ mem'.cache = mem.cache /\ mem'.summaries = mem.summaries
      /\ mem'.up = mem.up /\ mem'.saved = mem.saved /\ DOMAIN mem' = DOMAIN mem
  BY <1>1, <1>2 DEF MarkValid, StorageInv, Shape
<1> QED
  BY <1>2, <1>3, SMT, SMTT(20) DEF StorageInv, Shape, RootsAreBlocks, Needed, NeededAreStored,
                    ClearingIsSafe, JustifiedIsKept

\* rollbackBlock deletes a block that is not in the tree.
LEMMA RollbackKeeps ==
  ASSUME StorageInv, RollbackBlock
  PROVE  StorageInv'
<1>1. CASE IsCheckpoint(disk, job.at)
  BY <1>1 DEF StorageInv, Shape, RootsAreBlocks, Needed, NeededAreStored, ClearingIsSafe,
              JustifiedIsKept, RollbackBlock, DeleteBlockOf, NoJob
<1>2. CASE ~IsCheckpoint(disk, job.at)
  <2>1. /\ job.at # disk.justified.root /\ job.at \notin mem.tree
        /\ mem' = [mem EXCEPT !.summaries = @ \ {job.at}]
        /\ job' = NoJob /\ UNCHANGED receiving
    BY <1>2 DEF RollbackBlock, IsCheckpoint, CanAdd
  <2>2. /\ disk.blocks \ {job.at} \subseteq disk'.blocks /\ disk'.blocks \subseteq disk.blocks
        /\ disk'.justified = disk.justified /\ disk'.finalized = disk.finalized
        /\ DOMAIN disk' = DOMAIN disk
    BY <1>2 DEF RollbackBlock, DeleteBlockOf, StorageInv, Shape
  <2> QED
    BY <2>1, <2>2, SMT, SMTT(20) DEF StorageInv, Shape, RootsAreBlocks, Needed, NeededAreStored,
                      ClearingIsSafe, JustifiedIsKept, NoJob
<1> QED
  BY <1>1, <1>2

(***************************************************************************)
(* A batch.                                                                *)
(***************************************************************************)
LEMMA MissingAreStored ==
  ASSUME NEW p \in AllBlocks
  PROVE  MissingBlocks(p) \subseteq disk.blocks
<1>1. Lineage[p] \subseteq AllBlocks
  BY DEF Lineage
<1> SUFFICES ASSUME NEW r \in MissingBlocks(p) PROVE r \in disk.blocks
  OBVIOUS
<1>2. r \in Lineage[p]
  BY DEF MissingBlocks
<1>3. ChainSlot[r] >= ChainSlot[r]
  BY <1>1, <1>2, StorageAssumption, SMT, SMTT(20)
<1> QED
  BY <1>2, <1>3 DEF MissingBlocks

\* onBlockBatch begins with nothing cached for it.
LEMMA StartBatchKeeps ==
  ASSUME StorageInv, NEW batch \in SyncBatches, NEW flush \in BOOLEAN,
         StartBatch(batch, flush)
  PROVE  StorageInv'
<1>1. PICK b \in batch :
        LET p         == ChainParent[b]
            missing   == MissingBlocks(p)
            connected == missing = {} \/ \E r \in missing :
                           ChainParent[r] \in mem.tree \cup {mem.finalized.root}
        IN  /\ mem.up
            /\ disk' = IF flush THEN SaveBlocks(disk, mem.cache) ELSE disk
            /\ mem' = IF flush THEN Cleared(mem) ELSE mem
            /\ job' = IF ~connected THEN NoJob
                      ELSE [NoJob EXCEPT !.kind = "batch", !.at = p, !.first = b,
                              !.fill = missing, !.todo = batch, !.insert = batch]
            /\ UNCHANGED receiving
  BY DEF StartBatch, LockIsFree
<1>2. LET missing == MissingBlocks(ChainParent[b])
      IN  missing \subseteq disk.blocks
  <2>1. ChainParent[b] \in AllBlocks
    BY StorageAssumption
  <2> QED
    BY <2>1, MissingAreStored
<1>3. batch \subseteq AllBlocks
  BY StorageAssumption DEF AllBlocks
<1>4. /\ job'.fill \subseteq disk.blocks /\ job'.insert = job'.todo
      /\ job'.todo \subseteq AllBlocks
      /\ job'.pc = "next" /\ DOMAIN job' = DOMAIN NoJob
  BY <1>1, <1>2, <1>3 DEF NoJob
<1>5. DOMAIN NoJob = {"kind", "pc", "at", "first", "fill", "todo", "insert", "j", "f"}
  BY DEF NoJob
<1>6. /\ disk'.blocks = IF flush THEN disk.blocks \cup mem.cache ELSE disk.blocks
      /\ disk'.justified = disk.justified /\ disk'.finalized = disk.finalized
      /\ DOMAIN disk' = DOMAIN disk
  BY <1>1 DEF SaveBlocks, StorageInv, Shape
<1>7. /\ mem'.cache = IF flush THEN {} ELSE mem.cache
      /\ mem'.tree = mem.tree /\ mem'.summaries = mem.summaries
      /\ mem'.up = mem.up /\ mem'.saved = mem.saved /\ DOMAIN mem' = DOMAIN mem
  BY <1>1 DEF Cleared, StorageInv, Shape
<1>8. receiving' = receiving /\ mem.up
  BY <1>1
<1> QED
  BY <1>4, <1>5, <1>6, <1>7, <1>8, SMT, SMTT(20)
  DEF StorageInv, Shape, RootsAreBlocks, Needed, NeededAreStored, ClearingIsSafe, JustifiedIsKept

\* One round of InsertChain, for a block that is in the database or cached by the batch.
LEMMA InsertOfKeeps ==
  ASSUME StorageInv, NEW r, NEW jc, NEW fc, NEW rest, InsertOf(r, jc, fc, rest),
         r \in disk.blocks \/ r \in job.insert \ job.todo,
         rest.insert \subseteq job.insert, rest.todo = job.todo,
         rest.fill \subseteq job.fill, rest.pc = job.pc, rest.at = job.at, DOMAIN rest = DOMAIN job
  PROVE  StorageInv'
<1>1. /\ mem'.tree \subseteq mem.tree \cup {r}
      /\ mem'.cache = mem.cache /\ mem'.summaries = mem.summaries
      /\ mem'.up = mem.up /\ mem'.saved = mem.saved /\ DOMAIN mem' = DOMAIN mem
  BY AdoptedNode, SMT, SMTT(20) DEF StorageInv, InsertOf
<1>2. /\ job'.insert \ job'.todo \subseteq job.insert \ job.todo
      /\ job'.todo \subseteq job.todo
      /\ job'.fill \subseteq job.fill
      /\ job'.pc = "insert" => job.pc = "insert" /\ job'.at = job.at
      /\ DOMAIN job' = DOMAIN job
  BY DEF InsertOf, NoJob, StorageInv, Shape
<1>3. UNCHANGED <<disk, receiving>>
  BY DEF InsertOf
<1> QED
  BY <1>1, <1>2, <1>3, SMT, SMTT(20) DEF StorageInv, Shape, RootsAreBlocks, Needed, NeededAreStored,
                          ClearingIsSafe, JustifiedIsKept

\* Missing ancestors come from the database; a batch inserts what it cached.
LEMMA BatchKeeps ==
  ASSUME StorageInv
  PROVE  /\ FillInMissing => StorageInv'
         /\ InsertBatch => StorageInv'
<1>1. ASSUME FillInMissing PROVE StorageInv'
  <2>1. PICK r \in job.fill :
          InsertOf(r, PostJustified[job.at], PostFinalized[job.at], [job EXCEPT !.fill = @ \ {r}])
    BY <1>1 DEF FillInMissing
  <2> DEFINE rest == [job EXCEPT !.fill = @ \ {r}]
  <2>2. /\ r \in disk.blocks
        /\ rest.insert \subseteq job.insert /\ rest.todo = job.todo
        /\ rest.fill \subseteq job.fill /\ rest.pc = job.pc /\ rest.at = job.at
        /\ DOMAIN rest = DOMAIN job
    BY DEF StorageInv, Shape, NeededAreStored
  <2> HIDE DEF rest
  <2>3. InsertOf(r, PostJustified[job.at], PostFinalized[job.at], rest)
    BY <2>1 DEF rest
  <2> QED
    BY <2>2, <2>3, InsertOfKeeps
<1>2. ASSUME InsertBatch PROVE StorageInv'
  <2>1. PICK b \in job.insert :
          /\ job.todo = {}
          /\ InsertOf(b, PostJustified[b], PostFinalized[b], [job EXCEPT !.insert = @ \ {b}])
    BY <1>2 DEF InsertBatch
  <2> DEFINE rest == [job EXCEPT !.insert = @ \ {b}]
  <2>2. /\ b \in job.insert \ job.todo
        /\ rest.insert \subseteq job.insert /\ rest.todo = job.todo
        /\ rest.fill \subseteq job.fill /\ rest.pc = job.pc /\ rest.at = job.at
        /\ DOMAIN rest = DOMAIN job
    BY <2>1 DEF StorageInv, Shape
  <2> HIDE DEF rest
  <2>3. InsertOf(b, PostJustified[b], PostFinalized[b], rest)
    BY <2>1 DEF rest
  <2> QED
    BY <2>2, <2>3, InsertOfKeeps
<1> QED
  BY <1>1, <1>2

\* The only step that the overlap would spoil: a clearing may be due.
LEMMA CacheBlockKeeps ==
  ASSUME StorageInv, ~FlushOverlap, CacheBlock
  PROVE  StorageInv'
<1>1. PICK b \in job.todo :
        LET cache == mem.cache \cup {b}
            full  == Cardinality(cache) > CacheLimit
        IN  /\ \A c \in receiving : c.stage # "clear"
            /\ disk' = IF full THEN SaveBlocks(disk, cache) ELSE disk
            /\ mem' = [mem EXCEPT !.cache = IF full THEN {} ELSE cache,
                                  !.summaries = @ \cup {b}]
            /\ job' = [job EXCEPT !.todo = @ \ {b}, !.at = b, !.pc = "justify"]
            /\ UNCHANGED receiving
  BY DEF CacheBlock
<1> DEFINE full == Cardinality(mem.cache \cup {b}) > CacheLimit
<1>2. /\ disk'.blocks = IF full THEN disk.blocks \cup mem.cache \cup {b} ELSE disk.blocks
      /\ disk'.justified = disk.justified /\ disk'.finalized = disk.finalized
      /\ DOMAIN disk' = DOMAIN disk
  BY <1>1 DEF SaveBlocks, StorageInv, Shape
<1>3. /\ mem'.cache = IF full THEN {} ELSE mem.cache \cup {b}
      /\ mem'.summaries = mem.summaries \cup {b} /\ mem'.tree = mem.tree
      /\ mem'.up = mem.up /\ mem'.saved = mem.saved /\ DOMAIN mem' = DOMAIN mem
  BY <1>1 DEF StorageInv, Shape
<1>4. /\ job'.todo = job.todo \ {b} /\ job'.insert = job.insert /\ job'.fill = job.fill
      /\ job'.pc = "justify" /\ DOMAIN job' = DOMAIN job
      /\ receiving' = receiving /\ \A c \in receiving : c.stage # "clear"
  BY <1>1 DEF StorageInv, Shape
<1> HIDE DEF full
<1>5. mem.up
  BY DEF StorageInv, NeededAreStored
<1>6. Shape' /\ RootsAreBlocks'
  BY <1>2, <1>3, <1>4, SMT, SMTT(20) DEF StorageInv, Shape, RootsAreBlocks
<1>7. NeededAreStored'
  BY <1>2, <1>3, <1>4, <1>5, SMT, SMTT(20) DEF StorageInv, Needed, NeededAreStored
<1>8. ClearingIsSafe' /\ JustifiedIsKept'
  BY <1>2, <1>3, <1>4, <1>5 DEF StorageInv, ClearingIsSafe, JustifiedIsKept
<1> QED
  BY <1>6, <1>7, <1>8 DEF StorageInv

\* A batch ends.
LEMMA EndBatchKeeps ==
  ASSUME StorageInv, NEW ok \in BOOLEAN, EndBatch(ok)
  PROVE  StorageInv'
BY DEF StorageInv, Shape, RootsAreBlocks, Needed, NeededAreStored, ClearingIsSafe,
       JustifiedIsKept, EndBatch, SaveBlocks, MarkValid, NoJob

(***************************************************************************)
(* The checkpoints.  A block that has a state summary is stored, so that   *)
(* the check of saveCheckpoint is enough.                                  *)
(***************************************************************************)
LEMMA ContinueFacts ==
  ASSUME Shape
  PROVE  /\ Continue.insert \ Continue.todo \subseteq job.insert \ job.todo
         /\ Continue.todo \subseteq job.todo /\ Continue.fill \subseteq job.fill
         /\ Continue.pc = "next" /\ DOMAIN Continue = DOMAIN job
BY DEF Continue, NoJob, Shape

\* The justified checkpoint is saved when its summary is known.
LEMMA SaveJustifiedKeeps ==
  ASSUME StorageInv, SaveJustifiedCheckpoint
  PROVE  StorageInv'
<1> DEFINE cp == JustifiedToSave
<1>1. UNCHANGED <<mem, receiving>>
  BY DEF SaveJustifiedCheckpoint
<1>2. /\ job'.insert \ job'.todo \subseteq job.insert \ job.todo
      /\ job'.todo \subseteq job.todo /\ job'.fill \subseteq job.fill
      /\ job'.pc # "insert" /\ DOMAIN job' = DOMAIN job
  BY ContinueFacts, SMT, SMTT(20) DEF SaveJustifiedCheckpoint, NoJob, StorageInv, Shape
<1>3. /\ disk'.blocks = disk.blocks /\ disk'.finalized = disk.finalized
      /\ DOMAIN disk' = DOMAIN disk
      /\ \/ disk'.justified = disk.justified
         \/ disk'.justified = cp /\ cp.root \in mem.summaries \cup disk.blocks
  BY DEF SaveJustifiedCheckpoint, SaveJustified, HasSummary, StorageInv, Shape
<1> HIDE DEF cp
<1>4. Shape' /\ RootsAreBlocks'
  BY <1>1, <1>2, <1>3 DEF StorageInv, Shape, RootsAreBlocks
<1>5. NeededAreStored' /\ Needed' \subseteq Needed
  BY <1>1, <1>2, <1>3 DEF StorageInv, Needed, NeededAreStored
<1>6. ClearingIsSafe'
  BY <1>1, <1>3, <1>5 DEF StorageInv, ClearingIsSafe, Needed
<1>7. JustifiedIsKept'
  BY <1>1, <1>3 DEF StorageInv, JustifiedIsKept, NeededAreStored, Needed
<1> QED
  BY <1>4, <1>5, <1>6, <1>7 DEF StorageInv

\* updateFinalized saves the cache and clears it.
LEMMA FlushKeeps ==
  ASSUME StorageInv, FlushCache
  PROVE  StorageInv'
BY DEF StorageInv, Shape, RootsAreBlocks, Needed, NeededAreStored, ClearingIsSafe,
       JustifiedIsKept, FlushCache, SaveBlocks, Cleared

\* SaveFinalizedCheckpoint writes the checkpoint and its index.
LEMMA SaveFinalizedKeeps ==
  ASSUME StorageInv, SaveFinalizedCheckpoint
  PROVE  StorageInv'
<1> DEFINE cp == FinalizedToSave
<1>1. UNCHANGED <<mem, receiving>>
  BY DEF SaveFinalizedCheckpoint
<1>2. /\ job'.insert \ job'.todo \subseteq job.insert \ job.todo
      /\ job'.todo \subseteq job.todo /\ job'.fill \subseteq job.fill
      /\ job'.pc # "insert" /\ DOMAIN job' = DOMAIN job
  BY DEF SaveFinalizedCheckpoint, NoJob, StorageInv, Shape
<1>3. /\ disk'.blocks = disk.blocks /\ disk'.justified = disk.justified
      /\ DOMAIN disk' = DOMAIN disk
      /\ \/ disk'.finalized = disk.finalized
         \/ disk'.finalized = cp /\ cp.root \in mem.summaries \cup disk.blocks
  BY DEF SaveFinalizedCheckpoint, SaveFinalized, HasSummary, StorageInv, Shape
<1> HIDE DEF cp
<1>4. Shape' /\ RootsAreBlocks'
  BY <1>1, <1>2, <1>3 DEF StorageInv, Shape, RootsAreBlocks
<1>5. NeededAreStored' /\ Needed' \subseteq Needed
  BY <1>1, <1>2, <1>3 DEF StorageInv, Needed, NeededAreStored
<1>6. ClearingIsSafe' /\ JustifiedIsKept'
  BY <1>1, <1>3, <1>5 DEF StorageInv, ClearingIsSafe, JustifiedIsKept
<1> QED
  BY <1>4, <1>5, <1>6 DEF StorageInv

\* SaveLastValidatedCheckpoint writes one checkpoint more.
LEMMA SaveLastValidatedKeeps ==
  ASSUME StorageInv, SaveLastValidatedCheckpoint
  PROVE  StorageInv'
<1>1. UNCHANGED <<mem, receiving>>
  BY DEF SaveLastValidatedCheckpoint
<1>2. /\ job'.insert \ job'.todo \subseteq job.insert \ job.todo
      /\ job'.todo \subseteq job.todo /\ job'.fill \subseteq job.fill
      /\ job'.pc # "insert" /\ DOMAIN job' = DOMAIN job
  BY ContinueFacts DEF SaveLastValidatedCheckpoint, StorageInv
<1>3. /\ disk'.blocks = disk.blocks /\ disk'.justified = disk.justified
      /\ disk'.finalized = disk.finalized /\ DOMAIN disk' = DOMAIN disk
  BY DEF SaveLastValidatedCheckpoint, StorageInv, Shape
<1> QED
  BY <1>1, <1>2, <1>3 DEF StorageInv, Shape, RootsAreBlocks, Needed, NeededAreStored,
                          ClearingIsSafe, JustifiedIsKept

(***************************************************************************)
(* Time, failures, stops and starts.                                       *)
(***************************************************************************)
LEMMA AdoptUnrealizedKeeps ==
  ASSUME StorageInv, NEW r \in AllBlocks, AdoptUnrealized(r)
  PROVE  StorageInv'
<1>1. /\ mem'.tree \subseteq mem.tree
      /\ mem'.cache = mem.cache /\ mem'.summaries = mem.summaries
      /\ mem'.up = mem.up /\ mem'.saved = mem.saved /\ DOMAIN mem' = DOMAIN mem
  BY AdoptedTree, SMT, SMTT(20) DEF AdoptUnrealized, StorageInv, Shape
<1>2. UNCHANGED <<disk, receiving, job>>
  BY DEF AdoptUnrealized
<1> QED
  BY <1>1, <1>2, SMT, SMTT(20) DEF StorageInv, Shape, RootsAreBlocks, Needed, NeededAreStored,
                    ClearingIsSafe, JustifiedIsKept

\* An import that fails, a crash and Stop, wherever they come.
LEMMA FaultKeeps ==
  ASSUME StorageInv
  PROVE  /\ ImportErrors => StorageInv'
         /\ NodeCrashes => StorageInv'
         /\ StopService => StorageInv'
<1> USE DEF StorageInv, Shape, RootsAreBlocks, Needed, NeededAreStored, ClearingIsSafe,
            JustifiedIsKept, NoJob
<1>1. ASSUME ImportErrors PROVE StorageInv'
  BY <1>1 DEF ImportErrors
<1>2. ASSUME NodeCrashes PROVE StorageInv'
  BY <1>2 DEF NodeCrashes, Down, Stopped
<1>3. ASSUME StopService PROVE StorageInv'
  BY <1>3 DEF StopService, Down, Stopped, SaveBlocks
<1> QED
  BY <1>1, <1>2, <1>3

\* The start builds the tree from the database.
LEMMA StartKeeps ==
  ASSUME StorageInv, StartFromSavedState
  PROVE  StorageInv'
<1>1. ~mem.up /\ Startable(disk) /\ mem' = Started(disk) /\ UNCHANGED <<disk, receiving, job>>
  BY DEF StartFromSavedState
<1>2. Started(disk).tree \subseteq disk.blocks /\ disk.justified.root \in disk.blocks
  BY <1>1, StartedIsStored DEF StorageInv, RootsAreBlocks
<1>3. /\ mem'.cache = {} /\ mem'.summaries = {} /\ mem'.tree \subseteq disk.blocks
      /\ DOMAIN mem' = {"up", "saved", "cache", "summaries", "tree", "valid",
                        "justified", "finalized"}
  BY <1>1, <1>2 DEF Started
<1>4. job.insert \ job.todo \subseteq disk.blocks /\ job.todo = {}
  BY <1>1 DEF StorageInv, NeededAreStored, Needed
<1> QED
  BY <1>1, <1>2, <1>3, <1>4 DEF StorageInv, Shape, RootsAreBlocks, Needed, NeededAreStored,
                                ClearingIsSafe, JustifiedIsKept

\* Every step keeps the invariant of the storage.
LEMMA NextStorageInv ==
  ASSUME StorageInv, ~FlushOverlap, [StorageNext]_storageVars
  PROVE  StorageInv'
<1>1. CASE UNCHANGED storageVars
  BY <1>1 DEF storageVars, StorageInv, Shape, RootsAreBlocks, Needed, NeededAreStored,
              ClearingIsSafe, JustifiedIsKept
<1>2. CASE StorageNext
  BY <1>2, ReceiveKeeps, ReplayKeeps, SavePostStateKeeps, InsertBlockNodeKeeps,
     RollbackKeeps, StartBatchKeeps, BatchKeeps, CacheBlockKeeps, EndBatchKeeps,
     SaveJustifiedKeeps, FlushKeeps, SaveFinalizedKeeps, SaveLastValidatedKeeps,
     AdoptUnrealizedKeeps, FaultKeeps, StartKeeps, Zenon, ZenonT(20) DEF StorageNext
<1> QED
  BY <1>1, <1>2

(***************************************************************************)
(* Every block of fork choice can be found by getBlock: it is in the       *)
(* database or in the initial sync cache, however batches, single blocks,  *)
(* rollbacks, failures, crashes and starts interleave.                     *)
(***************************************************************************)
THEOREM NodesStayStored ==
  ASSUME ~FlushOverlap
  PROVE  StorageSpec => []NodesAreStored
<1>1. StorageInv => NodesAreStored
  BY DEF StorageInv, NeededAreStored, Needed, NodesAreStored
<1>2. StorageInv /\ [StorageNext]_storageVars => StorageInv'
  BY NextStorageInv
<1> QED
  BY <1>1, <1>2, InitStorageInv, PTL DEF StorageSpec

(***************************************************************************)
(* The block of the saved justified checkpoint, from which the node        *)
(* rebuilds fork choice, is not lost while the node runs, and it is in the *)
(* database after Stop, in the middle of whatever import was running.      *)
(***************************************************************************)
THEOREM JustifiedStaysKept ==
  ASSUME ~FlushOverlap
  PROVE  StorageSpec => []JustifiedIsKept
<1>1. StorageInv => JustifiedIsKept
  BY DEF StorageInv
<1>2. StorageInv /\ [StorageNext]_storageVars => StorageInv'
  BY NextStorageInv
<1> QED
  BY <1>1, <1>2, InitStorageInv, PTL DEF StorageSpec

-----------------------------------------------------------------------------
(***************************************************************************)
(* The finalized chain and its index.  FinalizedIsStored follows from the  *)
(* index, because a rollback deletes no block that is in it, and the index *)
(* is right after an update only if it was right before: the entries that  *)
(* are kept are those of the old chain before the epoch of its checkpoint, *)
(* because all that is only Recent lies in the two epochs that are taken   *)
(* out.  So the invariant bounds the slots of Recent entries (Indexed),    *)
(* and says that the checkpoint in hand is later than the saved one from   *)
(* its check to its save (SavesLater).  That the old chain is a part of    *)
(* the new one is accountable safety (FinalizedChain).                     *)
(***************************************************************************)

(* The chain of a block has the block and the parents of its members ...   *)
LEMMA LineageFacts ==
  ASSUME NEW r \in AllBlocks
  PROVE  Lineage[r] \subseteq AllBlocks /\ r \in Lineage[r] /\ HasParents(Lineage[r])
<1>1. Lineage[r] = {a \in AllBlocks : \A S \in SUBSET AllBlocks : r \in S /\ HasParents(S) => a \in S}
  BY DEF Lineage
<1>2. ASSUME NEW a \in Lineage[r] \ {GenesisRoot} PROVE ChainParent[a] \in Lineage[r]
  <2>1. a \in ChainBlocks /\ ChainParent[a] \in AllBlocks
    BY <1>1, <1>2, StorageAssumption DEF AllBlocks
  <2>2. ASSUME NEW S \in SUBSET AllBlocks, r \in S, HasParents(S) PROVE ChainParent[a] \in S
    BY <1>1, <1>2, <2>2 DEF HasParents
  <2> QED
    BY <1>1, <2>1, <2>2
<1> QED
  BY <1>1, <1>2 DEF HasParents

(* ... and is the least such set.                                          *)
LEMMA LineageLeast ==
  ASSUME NEW r \in AllBlocks, NEW S \in SUBSET AllBlocks, r \in S, HasParents(S)
  PROVE  Lineage[r] \subseteq S
  BY DEF Lineage

(* The chain of an ancestor is a part of the chain.                        *)
LEMMA LineageInside ==
  ASSUME NEW r \in AllBlocks, NEW a \in Lineage[r]
  PROVE  Lineage[a] \subseteq Lineage[r]
  BY LineageFacts, LineageLeast

(* Slots decrease along a chain.                                           *)
LEMMA LineageSlots ==
  ASSUME NEW r \in AllBlocks, NEW a \in Lineage[r]
  PROVE  a = r \/ ChainSlot[a] < ChainSlot[r]
<1> DEFINE S == {x \in Lineage[r] : x = r \/ ChainSlot[x] < ChainSlot[r]}
<1>1. HasParents(S)
  <2> SUFFICES ASSUME NEW x \in S \ {GenesisRoot} PROVE ChainParent[x] \in S
    BY DEF HasParents
  <2>1. x \in ChainBlocks /\ x \in AllBlocks /\ ChainParent[x] \in Lineage[r] /\ ChainParent[x] \in AllBlocks
    BY LineageFacts, StorageAssumption DEF AllBlocks, HasParents
  <2>2. /\ ChainSlot[ChainParent[x]] < ChainSlot[x] /\ ChainSlot[ChainParent[x]] \in Nat
        /\ ChainSlot[x] \in Nat /\ ChainSlot[r] \in Nat
    BY <2>1, FinalizedChain, StorageAssumption
  <2> QED
    BY <2>1, <2>2, SMT, SMTT(20)
<1>2. S \in SUBSET AllBlocks /\ r \in S
  BY LineageFacts
<1>3. Lineage[r] \subseteq S
  BY <1>1, <1>2, LineageLeast
<1> QED
  BY <1>3

(* Of two blocks on a chain the earlier is on the chain of the later.      *)
LEMMA LineageLinear ==
  ASSUME NEW r \in AllBlocks, NEW a \in Lineage[r], NEW b \in Lineage[r],
         ChainSlot[a] <= ChainSlot[b]
  PROVE  a \in Lineage[b]
<1> DEFINE S == {x \in Lineage[r] : x \in Lineage[b] \/ b \in Lineage[x]}
<1>0. a \in AllBlocks /\ b \in AllBlocks
  BY LineageFacts
<1>1. HasParents(S)
  <2> SUFFICES ASSUME NEW x \in S \ {GenesisRoot} PROVE ChainParent[x] \in S
    BY DEF HasParents
  <2>1. x \in AllBlocks /\ x \in ChainBlocks /\ ChainParent[x] \in Lineage[r] /\ ChainParent[x] \in AllBlocks
    BY LineageFacts, StorageAssumption DEF AllBlocks, HasParents
  <2>2. CASE x \in Lineage[b]
    BY <1>0, <2>1, <2>2, LineageFacts DEF HasParents
  <2>3. CASE b \in Lineage[x] /\ x \notin Lineage[b]
    <3> DEFINE P == {x} \cup Lineage[ChainParent[x]]
    <3>1. HasParents(P) /\ P \in SUBSET AllBlocks
      BY <2>1, LineageFacts DEF HasParents
    <3>2. Lineage[x] \subseteq P
      BY <2>1, <3>1, LineageLeast
    <3>3. b # x
      BY <1>0, <2>3, LineageFacts
    <3> QED
      BY <2>1, <2>3, <3>2, <3>3
  <2> QED
    BY <2>2, <2>3
<1>2. S \in SUBSET AllBlocks /\ r \in S
  BY LineageFacts
<1>3. a \in S
  BY <1>1, <1>2, LineageLeast
<1>4. CASE b \in Lineage[a]
  <2>1. b = a \/ ChainSlot[b] < ChainSlot[a]
    BY <1>0, <1>4, LineageSlots
  <2>2. ChainSlot[a] \in Nat /\ ChainSlot[b] \in Nat
    BY <1>0, StorageAssumption
  <2>3. a = b
    BY <2>1, <2>2, SMT, SMTT(20)
  <2> QED
    BY <1>0, <2>3, LineageFacts
<1> QED
  BY <1>3, <1>4

(* Every block of a chain but the last has a child on it.                  *)
LEMMA LineageChild ==
  ASSUME NEW r \in AllBlocks, NEW a \in Lineage[r], a # r
  PROVE  \E c \in Lineage[r] \ {GenesisRoot} : ChainParent[c] = a
<1> DEFINE S == {x \in Lineage[r] : x = r \/ \E c \in Lineage[r] \ {GenesisRoot} : ChainParent[c] = x}
<1>1. HasParents(S)
  BY LineageFacts DEF HasParents
<1>2. S \in SUBSET AllBlocks /\ r \in S
  BY LineageFacts
<1>3. a \in S
  BY <1>1, <1>2, LineageLeast
<1> QED
  BY <1>3

-----------------------------------------------------------------------------
FinalChain(cp) == Lineage[cp.root] \ {GenesisRoot}

\* The index links the chain of the checkpoint, each block to its child.
LinksChain(index, cp) ==
  \A r \in FinalChain(cp) :
    /\ r \in DOMAIN index
    /\ IF r = cp.root THEN index[r] = NoChild
       ELSE index[r] \in FinalChain(cp) /\ ChainParent[index[r]] = r

\* Its other entries are the blocks of the last epochs.
OthersAreRecent(index, cp) ==
  \A r \in DOMAIN index \ FinalChain(cp) :
    /\ index[r] = Recent
    /\ StartOfEpoch(cp.epoch) <= ChainSlot[r]
    /\ ChainSlot[r] < StartOfEpoch(cp.epoch + 1) + EpochLength

Indexed(d) ==
  /\ d.blocks \subseteq AllBlocks /\ GenesisRoot \in d.blocks
  /\ d.finalized \in FinalCheckpoints
  /\ DOMAIN d.index \subseteq d.blocks \ {GenesisRoot}
  /\ LinksChain(d.index, d.finalized)
  /\ OthersAreRecent(d.index, d.finalized)

\* What a finalized checkpoint is.
LEMMA CheckpointFacts ==
  ASSUME NEW c \in FinalCheckpoints
  PROVE  /\ c.epoch \in Nat /\ c.root \in AllBlocks /\ ChainSlot[c.root] \in Nat
         /\ ChainSlot[c.root] <= StartOfEpoch(c.epoch)
         /\ Lineage[c.root] \subseteq AllBlocks
         /\ StartOfEpoch(c.epoch) \in Nat
<1>1. c.epoch \in Nat /\ c.root \in AllBlocks /\ ChainSlot[c.root] <= StartOfEpoch(c.epoch)
  BY FinalizedChain
<1>2. ChainSlot[c.root] \in Nat /\ EpochLength \in Nat
  BY <1>1, StorageAssumption
<1>3. StartOfEpoch(c.epoch) \in Nat
  BY <1>1, <1>2, SMT, SMTT(20) DEF StartOfEpoch
<1> QED
  BY <1>1, <1>2, <1>3, LineageFacts

\* An epoch begins an epoch's length after the one before.
LEMMA EpochStarts ==
  ASSUME NEW e \in Nat, NEW f \in Nat, e < f
  PROVE  /\ StartOfEpoch(e) \in Nat /\ StartOfEpoch(f) \in Nat
         /\ StartOfEpoch(e) + EpochLength <= StartOfEpoch(f)
         /\ StartOfEpoch(e + 1) = StartOfEpoch(e) + EpochLength
<1>1. EpochLength \in Nat
  BY StorageAssumption
<1>2. PICK k \in Nat : f = e + 1 + k
  <2>1. f - e - 1 \in Nat /\ f = e + 1 + (f - e - 1)
    BY SMT, SMTT(20)
  <2> QED
    BY <2>1
<1>3. /\ e * EpochLength \in Nat /\ k * EpochLength \in Nat
      /\ f * EpochLength = e * EpochLength + EpochLength + k * EpochLength
      /\ (e + 1) * EpochLength = e * EpochLength + EpochLength
  BY <1>1, <1>2, SMT, SMTT(20)
<1> QED
  BY <1>1, <1>3, SMT, SMTT(20) DEF StartOfEpoch

\* The epoch of a block that is not before the first slot of an epoch.
LEMMA EpochOfSlot ==
  ASSUME NEW s \in Nat, NEW e \in Nat, StartOfEpoch(e) <= s
  PROVE  s \div EpochLength >= e
<1> DEFINE q == s \div EpochLength
<1>1. EpochLength \in Nat /\ EpochLength > 0
  BY StorageAssumption, SMT, SMTT(20)
<1>2. q \in Nat /\ s < q * EpochLength + EpochLength /\ q * EpochLength \in Nat
  BY <1>1, SMT, SMTT(20)
<1>3. ASSUME q < e PROVE FALSE
  <2>1. StartOfEpoch(q) + EpochLength <= StartOfEpoch(e) /\ StartOfEpoch(e) \in Nat
    BY <1>2, <1>3, EpochStarts
  <2> QED
    BY <1>1, <1>2, <2>1, SMT, SMTT(20) DEF StartOfEpoch
<1> QED
  BY <1>2, <1>3, SMT, SMTT(20)

(***************************************************************************)
(* What updateFinalizedBlockRoots does: the entries that stay are those of *)
(* the old chain before its epoch, and the walk covers the rest of the new *)
(* chain.                                                                  *)
(***************************************************************************)
LEMMA KeptAreOld ==
  ASSUME NEW d, Indexed(d), NEW cp \in FinalCheckpoints, d.finalized.epoch < cp.epoch,
         NEW r
  PROVE  r \in StillIndexed(d, cp) <=>
           r \in FinalChain(d.finalized) /\ ChainSlot[r] < StartOfEpoch(d.finalized.epoch)
<1> DEFINE fe == d.finalized.epoch
           ce == cp.epoch
<1>1. d.finalized \in FinalCheckpoints /\ fe \in Nat /\ ce \in Nat
  BY CheckpointFacts DEF Indexed
<1>2. /\ StartOfEpoch(fe) \in Nat /\ StartOfEpoch(fe + 1) \in Nat /\ EpochLength \in Nat \ {0}
      /\ StartOfEpoch(fe + 1) = StartOfEpoch(fe) + EpochLength
  BY <1>1, EpochStarts, StorageAssumption, SMT, SMTT(20)
<1>3. /\ StartOfEpoch(ce + 1) \in Nat
      /\ StartOfEpoch(fe + 1) + EpochLength <= StartOfEpoch(ce + 1)
  <2>1. fe + 1 \in Nat /\ ce + 1 \in Nat /\ fe + 1 < ce + 1
    BY <1>1, SMT, SMTT(20)
  <2> QED
    BY <2>1, EpochStarts
<1>4. /\ DOMAIN d.index \subseteq d.blocks \ {GenesisRoot} /\ d.blocks \subseteq AllBlocks
      /\ FinalChain(d.finalized) \subseteq DOMAIN d.index
  BY DEF Indexed, LinksChain
<1>5. ASSUME r \in DOMAIN d.index
      PROVE  /\ ChainSlot[r] \in Nat
             /\ r \in BlockRoots(d, fe, ce + 1) <=>
                  StartOfEpoch(fe) <= ChainSlot[r] /\ ChainSlot[r] < StartOfEpoch(ce + 1) + EpochLength
  BY <1>4, <1>5, StorageAssumption DEF BlockRoots
<1>6. ASSUME r \in FinalChain(d.finalized)
      PROVE  ChainSlot[r] <= StartOfEpoch(fe)
  <2>1. r = d.finalized.root \/ ChainSlot[r] < ChainSlot[d.finalized.root]
    BY <1>1, <1>6, LineageSlots, CheckpointFacts DEF FinalChain
  <2>2. /\ ChainSlot[d.finalized.root] <= StartOfEpoch(fe) /\ ChainSlot[d.finalized.root] \in Nat
        /\ ChainSlot[r] \in Nat
    BY <1>1, <1>4, <1>5, <1>6, CheckpointFacts
  <2> QED
    BY <1>2, <2>1, <2>2, SMT, SMTT(20)
<1>7. ASSUME r \in DOMAIN d.index, r \notin FinalChain(d.finalized)
      PROVE  StartOfEpoch(fe) <= ChainSlot[r] /\ ChainSlot[r] < StartOfEpoch(fe + 1) + EpochLength
  BY <1>7 DEF Indexed, OthersAreRecent
<1>8. CASE r \notin DOMAIN d.index
  BY <1>4, <1>8 DEF StillIndexed
<1>9. CASE r \in DOMAIN d.index /\ r \notin FinalChain(d.finalized)
  <2>1. r \in BlockRoots(d, fe, ce + 1)
    BY <1>2, <1>3, <1>5, <1>7, <1>9, SMT, SMTT(20)
  <2> QED
    BY <1>9, <2>1 DEF StillIndexed
<1>10. CASE r \in FinalChain(d.finalized)
  <2>1. r \in DOMAIN d.index
    BY <1>4, <1>10
  <2>2. r \in BlockRoots(d, fe, ce + 1) <=> ~(ChainSlot[r] < StartOfEpoch(fe))
    BY <1>2, <1>3, <1>5, <1>6, <1>10, <2>1, SMT, SMTT(20)
  <2> QED
    BY <1>10, <2>1, <2>2 DEF StillIndexed
<1> QED
  BY <1>8, <1>9, <1>10

\* The old chain is a part of the new one.
LEMMA OldChainInside ==
  ASSUME NEW c \in FinalCheckpoints, NEW cp \in FinalCheckpoints, c.epoch < cp.epoch
  PROVE  FinalChain(c) \subseteq FinalChain(cp)
<1>1. c.root \in Lineage[cp.root] /\ cp.root \in AllBlocks
  BY FinalizedChain, CheckpointFacts
<1> QED
  BY <1>1, LineageInside DEF FinalChain

\* A block of the new chain is walked, or stays in the index and is not its last block.
LEMMA WalkedOrKept ==
  ASSUME NEW d, Indexed(d), NEW cp \in FinalCheckpoints, d.finalized.epoch < cp.epoch
  PROVE  /\ FinalChain(cp) = StillIndexed(d, cp) \cup Walked(d, cp)
         /\ cp.root # GenesisRoot => cp.root \in Walked(d, cp)
         /\ \A r \in Walked(d, cp) : \A c \in FinalChain(cp) :
              ChainSlot[r] <= ChainSlot[c] => c \in Walked(d, cp)
<1> DEFINE path == FinalChain(cp)
           kept == StillIndexed(d, cp)
<1>0. /\ d.finalized \in FinalCheckpoints /\ cp.root \in AllBlocks
      /\ Lineage[cp.root] \subseteq AllBlocks /\ StartOfEpoch(d.finalized.epoch) \in Nat
      /\ d.finalized.root \in AllBlocks
  BY CheckpointFacts DEF Indexed
<1>1. FinalChain(d.finalized) \subseteq path
  BY <1>0, OldChainInside
<1>2. kept \subseteq path
  BY <1>1, KeptAreOld
<1>3. \A r : r \in Walked(d, cp) <=>
        r \in path /\ \A a \in path \ {cp.root} : ChainSlot[a] >= ChainSlot[r] => a \notin kept
  BY DEF Walked, FinalChain
<1>4. \A r \in path : ChainSlot[r] \in Nat
  BY <1>0, StorageAssumption DEF FinalChain
<1>5. ASSUME NEW r \in path, r \notin Walked(d, cp) PROVE r \in kept
  <2>1. PICK a \in path \ {cp.root} : ChainSlot[a] >= ChainSlot[r] /\ a \in kept
    BY <1>3, <1>5
  <2>2. a \in FinalChain(d.finalized) /\ ChainSlot[a] < StartOfEpoch(d.finalized.epoch)
    BY <2>1, KeptAreOld
  <2>3. ChainSlot[r] <= ChainSlot[a] /\ ChainSlot[r] \in Nat /\ ChainSlot[a] \in Nat
    BY <1>4, <2>1
  <2>4. r \in Lineage[a]
    BY <1>0, <2>1, <2>3, LineageLinear DEF FinalChain
  <2>5. r \in FinalChain(d.finalized)
    BY <1>0, <1>5, <2>2, <2>4, LineageInside DEF FinalChain
  <2>6. ChainSlot[r] < StartOfEpoch(d.finalized.epoch)
    BY <1>0, <2>2, <2>3, SMT, SMTT(20)
  <2> QED
    BY <2>5, <2>6, KeptAreOld
<1>6. ASSUME cp.root # GenesisRoot PROVE cp.root \in Walked(d, cp)
  <2>1. cp.root \in path
    BY <1>0, <1>6, LineageFacts DEF FinalChain
  <2>2. ASSUME NEW a \in path \ {cp.root} PROVE ~(ChainSlot[a] >= ChainSlot[cp.root])
    <3>1. ChainSlot[a] < ChainSlot[cp.root]
      BY <1>0, <2>2, LineageSlots DEF FinalChain
    <3>2. ChainSlot[a] \in Nat /\ ChainSlot[cp.root] \in Nat
      BY <1>4, <2>1, <2>2
    <3> QED
      BY <3>1, <3>2, SMT, SMTT(20)
  <2> QED
    BY <1>3, <2>1, <2>2
<1>7. ASSUME NEW r \in Walked(d, cp), NEW c \in path, ChainSlot[r] <= ChainSlot[c]
      PROVE  c \in Walked(d, cp)
  <2>1. r \in path
    BY <1>3, <1>7
  <2>2. ASSUME NEW a \in path \ {cp.root}, ChainSlot[a] >= ChainSlot[c] PROVE a \notin kept
    <3>1. ChainSlot[a] >= ChainSlot[r]
      <4>1. ChainSlot[a] \in Nat /\ ChainSlot[c] \in Nat /\ ChainSlot[r] \in Nat
        BY <1>4, <1>7, <2>1, <2>2
      <4> QED
        BY <1>7, <2>2, <4>1, SMT, SMTT(20)
    <3> QED
      BY <1>3, <1>7, <2>2, <3>1
  <2> QED
    BY <1>3, <1>7, <2>2
<1> QED
  BY <1>2, <1>3, <1>5, <1>6, <1>7

\* A block of the walk, or the one where it ends, has its child on the walk.
LEMMA ChildIsWalked ==
  ASSUME NEW d, Indexed(d), NEW cp \in FinalCheckpoints, d.finalized.epoch < cp.epoch,
         NEW r \in Walked(d, cp), r # cp.root
  PROVE  \E c \in Walked(d, cp) : ChainParent[c] = r
<1>1. /\ r \in FinalChain(cp) /\ cp.root \in AllBlocks /\ r \in AllBlocks
  BY WalkedOrKept, CheckpointFacts DEF FinalChain
<1>2. PICK c \in FinalChain(cp) : ChainParent[c] = r
  BY <1>1, LineageChild DEF FinalChain
<1>3. c \in ChainBlocks
  BY CheckpointFacts DEF FinalChain, AllBlocks
<1>4. ChainSlot[r] < ChainSlot[c] /\ ChainSlot[r] \in Nat /\ ChainSlot[c] \in Nat
  BY <1>1, <1>2, <1>3, FinalizedChain, StorageAssumption DEF AllBlocks
<1>5. ChainSlot[r] <= ChainSlot[c]
  BY <1>4, SMT, SMTT(20)
<1> QED
  BY <1>2, <1>5, WalkedOrKept

\* A block that stays, with no child on the walk, keeps a right entry.
LEMMA KeptEntry ==
  ASSUME NEW d, Indexed(d), NEW cp \in FinalCheckpoints, d.finalized.epoch < cp.epoch,
         NEW r \in StillIndexed(d, cp), r \notin Walked(d, cp),
         \A c \in Walked(d, cp) : ChainParent[c] # r
  PROVE  /\ r # cp.root
         /\ d.index[r] \in FinalChain(cp) /\ ChainParent[d.index[r]] = r
<1>0. d.finalized \in FinalCheckpoints
  BY DEF Indexed
<1>1. r \in FinalChain(d.finalized) /\ r \in FinalChain(cp)
  BY KeptAreOld, WalkedOrKept
<1>2. r # cp.root
  BY <1>1, WalkedOrKept DEF FinalChain
<1>3. r # d.finalized.root
  <2> SUFFICES ASSUME r = d.finalized.root PROVE FALSE
    OBVIOUS
  <2>1. PICK c \in FinalChain(cp) : ChainParent[c] = r
    BY <1>1, <1>2, LineageChild, CheckpointFacts DEF FinalChain
  <2>2. c \in StillIndexed(d, cp)
    BY <2>1, WalkedOrKept
  <2>3. c \in FinalChain(d.finalized)
    BY <2>2, KeptAreOld
  <2>4. c \in ChainBlocks /\ c \in AllBlocks /\ r \in AllBlocks
    BY <1>0, <2>3, <1>1, CheckpointFacts DEF FinalChain, AllBlocks
  <2>5. ChainSlot[r] < ChainSlot[c] /\ ChainSlot[r] \in Nat /\ ChainSlot[c] \in Nat
    BY <2>1, <2>4, FinalizedChain, StorageAssumption
  <2>6. c = r \/ ChainSlot[c] < ChainSlot[r]
    BY <2>3, <2>4, LineageSlots DEF FinalChain
  <2> QED
    BY <2>5, <2>6, SMT, SMTT(20)
<1>4. d.index[r] \in FinalChain(d.finalized) /\ ChainParent[d.index[r]] = r
  BY <1>1, <1>3 DEF Indexed, LinksChain
<1> QED
  BY <1>0, <1>2, <1>4, OldChainInside

\* The index after updateFinalizedBlockRoots.
LEMMA UpdatedIndex ==
  ASSUME NEW d, Indexed(d), NEW cp \in FinalCheckpoints, d.finalized.epoch < cp.epoch,
         Walked(d, cp) \subseteq d.blocks
  PROVE  LET index == UpdateFinalizedBlockRoots(d, cp)
         IN  /\ DOMAIN index \subseteq d.blocks \ {GenesisRoot}
             /\ LinksChain(index, cp)
             /\ OthersAreRecent(index, cp)
<1> DEFINE kept   == StillIndexed(d, cp)
           walked == Walked(d, cp)
           met    == {ChainParent[r] : r \in walked} \cap kept
           recent == BlockRoots(d, cp.epoch, cp.epoch + 1)
           Child(r) == IF r = cp.root THEN NoChild
                       ELSE CHOOSE c \in walked : ChainParent[c] = r
           index == UpdateFinalizedBlockRoots(d, cp)
<1>1. index = [r \in kept \cup walked \cup recent |->
                 IF r \in walked \cup met THEN Child(r)
                 ELSE IF r \in kept THEN d.index[r] ELSE Recent]
  BY DEF UpdateFinalizedBlockRoots
<1>2. FinalChain(cp) = kept \cup walked
  BY WalkedOrKept
<1>3. /\ DOMAIN index = kept \cup walked \cup recent
      /\ \A r \in walked \cup met : index[r] = Child(r)
      /\ \A r \in kept : r \notin walked \cup met => index[r] = d.index[r]
      /\ \A r \in recent : r \notin kept \cup walked => index[r] = Recent
  BY <1>1
<1>4. DOMAIN index \subseteq d.blocks \ {GenesisRoot}
  <2>1. kept \subseteq d.blocks
    BY DEF Indexed, StillIndexed
  <2>2. recent \subseteq d.blocks \ {GenesisRoot}
    BY DEF BlockRoots
  <2>3. GenesisRoot \notin kept \cup walked
    BY <1>2 DEF FinalChain
  <2> QED
    BY <1>3, <2>1, <2>2, <2>3
<1> HIDE DEF index
<1>5. LinksChain(index, cp)
  <2> SUFFICES ASSUME NEW r \in FinalChain(cp)
               PROVE  /\ r \in DOMAIN index
                      /\ IF r = cp.root THEN index[r] = NoChild
                         ELSE index[r] \in FinalChain(cp) /\ ChainParent[index[r]] = r
    BY DEF LinksChain
  <2>1. r \in DOMAIN index
    BY <1>2, <1>3
  <2>2. CASE r \in walked \cup met /\ r = cp.root
    BY <1>3, <2>1, <2>2
  <2>3. CASE r \in walked \cup met /\ r # cp.root
    <3>1. \E c \in walked : ChainParent[c] = r
      BY <2>3, ChildIsWalked
    <3>2. index[r] = CHOOSE c \in walked : ChainParent[c] = r
      BY <1>3, <2>3
    <3>3. index[r] \in walked /\ ChainParent[index[r]] = r
      BY <3>1, <3>2
    <3> QED
      BY <1>2, <2>1, <2>3, <3>3
  <2>4. CASE r \notin walked \cup met
    <3>1. r \in kept /\ index[r] = d.index[r]
      BY <1>2, <1>3, <2>4
    <3>2. \A c \in walked : ChainParent[c] # r
      BY <2>4, <3>1
    <3> QED
      BY <2>1, <2>4, <3>1, <3>2, KeptEntry, SMT, SMTT(20)
  <2> QED
    BY <2>2, <2>3, <2>4
<1>6. OthersAreRecent(index, cp)
  <2> SUFFICES ASSUME NEW r \in DOMAIN index \ FinalChain(cp)
               PROVE  /\ index[r] = Recent
                      /\ StartOfEpoch(cp.epoch) <= ChainSlot[r]
                      /\ ChainSlot[r] < StartOfEpoch(cp.epoch + 1) + EpochLength
    BY DEF OthersAreRecent
  <2>1. r \in recent /\ r \notin kept \cup walked
    BY <1>2, <1>3
  <2> QED
    BY <1>3, <2>1 DEF BlockRoots
<1> QED
  BY <1>4, <1>5, <1>6 DEF index

-----------------------------------------------------------------------------
\* What is imported is a block, what is finalized a checkpoint.
ImportsAreBlocks ==
  /\ mem.finalized \in FinalCheckpoints
  /\ mem.cache \subseteq AllBlocks
  /\ job.todo \subseteq AllBlocks /\ job.insert \subseteq AllBlocks /\ job.at \in AllBlocks
  /\ job.fill # {} => job.pc = "next"
  /\ \A c \in receiving : c.root \in AllBlocks

\* Between its check and its save, the checkpoint stays later than the saved one.
SavesLater ==
  /\ job.pc \in {"flush", "finalize"} => FinalizedToSave.epoch > disk.finalized.epoch
  /\ job.pc = "validate" => FinalizedToSave = disk.finalized

\* No import survives a stop.
StoppedIsIdle == mem.up \/ job = NoJob

IndexInv == Shape /\ Indexed(disk) /\ ImportsAreBlocks /\ SavesLater

\* Every checkpoint that a block's state or fork choice finalizes is one.
LEMMA CheckpointOfBlock ==
  ASSUME NEW r \in AllBlocks
  PROVE  PostFinalized[r] \in FinalCheckpoints /\ TipFinalized[r] \in FinalCheckpoints
  BY DEF FinalCheckpoints

\* What is saved is the finalized checkpoint of a state or of fork choice.
LEMMA SavedIsCheckpoint ==
  ASSUME ImportsAreBlocks
  PROVE  FinalizedToSave \in FinalCheckpoints
  BY CheckpointOfBlock DEF ImportsAreBlocks, FinalizedToSave

\* More blocks in the database do not disturb the index.
LEMMA SaveBlocksKeepsIndex ==
  ASSUME Shape, Indexed(disk), NEW S \in SUBSET AllBlocks
  PROVE  /\ Indexed(SaveBlocks(disk, S))
         /\ SaveBlocks(disk, S).finalized = disk.finalized
         /\ DOMAIN SaveBlocks(disk, S) = DOMAIN disk
<1> DEFINE d == SaveBlocks(disk, S)
<1>1. /\ d.blocks = disk.blocks \cup S /\ d.finalized = disk.finalized
      /\ d.index = disk.index /\ DOMAIN d = DOMAIN disk
  BY DEF SaveBlocks, Shape
<1> HIDE DEF d
<1>2. Indexed(d) /\ d.finalized = disk.finalized /\ DOMAIN d = DOMAIN disk
  BY <1>1 DEF Indexed
<1> QED
  BY <1>2 DEF d

\* A rollback deletes no block that the index has.
LEMMA DeleteBlockKeepsIndex ==
  ASSUME Shape, Indexed(disk), NEW r
  PROVE  /\ Indexed(DeleteBlockOf(disk, r))
         /\ DeleteBlockOf(disk, r).finalized = disk.finalized
         /\ DOMAIN DeleteBlockOf(disk, r) = DOMAIN disk
<1>1. CASE IsCheckpoint(disk, r) \/ r \in DOMAIN disk.index
  BY <1>1 DEF DeleteBlockOf
<1>2. CASE ~(IsCheckpoint(disk, r) \/ r \in DOMAIN disk.index)
  <2> DEFINE d == DeleteBlockOf(disk, r)
  <2>1. /\ d.blocks = disk.blocks \ {r} /\ d.finalized = disk.finalized
        /\ d.index = disk.index /\ DOMAIN d = DOMAIN disk
        /\ r # GenesisRoot /\ r \notin DOMAIN disk.index
    BY <1>2 DEF DeleteBlockOf, Shape, IsCheckpoint
  <2> HIDE DEF d
  <2>2. Indexed(d) /\ d.finalized = disk.finalized /\ DOMAIN d = DOMAIN disk
    BY <2>1 DEF Indexed
  <2> QED
    BY <2>2 DEF d
<1> QED
  BY <1>1, <1>2

\* updateCheckpoints leaves a finalized checkpoint in fork choice.
LEMMA AdoptedCheckpoint ==
  ASSUME NEW m, NEW jc, NEW fc \in FinalCheckpoints,
         DOMAIN m = {"up", "saved", "cache", "summaries", "tree", "valid",
                     "justified", "finalized"},
         m.finalized \in FinalCheckpoints
  PROVE  LET a == AdoptCheckpoints(m, jc, fc)
         IN  /\ a.finalized \in FinalCheckpoints
             /\ a.cache = m.cache /\ a.valid = m.valid /\ a.up = m.up
             /\ DOMAIN a = DOMAIN m
BY DEF AdoptCheckpoints

\* So does the insertion of a node.
LEMMA AdoptedByNode ==
  ASSUME Shape, ImportsAreBlocks, NEW r, NEW jc, NEW fc \in FinalCheckpoints
  PROVE  LET a == AdoptCheckpoints(AddNode(mem, r), jc, fc)
         IN  /\ a.finalized \in FinalCheckpoints
             /\ a.cache = mem.cache /\ a.valid = mem.valid /\ a.up = mem.up
             /\ DOMAIN a = DOMAIN mem
<1> DEFINE m == AddNode(mem, r)
<1>1. /\ m.finalized = mem.finalized /\ m.cache = mem.cache /\ m.valid = mem.valid
      /\ m.up = mem.up /\ DOMAIN m = DOMAIN mem
  BY DEF AddNode, Shape
<1>2. /\ DOMAIN m = {"up", "saved", "cache", "summaries", "tree", "valid",
                     "justified", "finalized"}
      /\ m.finalized \in FinalCheckpoints
  BY <1>1 DEF Shape, ImportsAreBlocks
<1> HIDE DEF m
<1>3. LET a == AdoptCheckpoints(m, jc, fc)
      IN  /\ a.finalized \in FinalCheckpoints
          /\ a.cache = m.cache /\ a.valid = m.valid /\ a.up = m.up
          /\ DOMAIN a = DOMAIN m
  BY <1>2, AdoptedCheckpoint
<1> QED
  BY <1>1, <1>3 DEF m

\* The database holds the genesis block, with an empty index.
LEMMA InitIndexInv == StorageInit => IndexInv
<1> SUFFICES ASSUME StorageInit PROVE IndexInv
  OBVIOUS
<1>1. disk = GenesisDisk /\ job = NoJob /\ receiving = {} /\ mem = Started(GenesisDisk)
  BY DEF StorageInit
<1>2. /\ disk.blocks = {GenesisRoot} /\ disk.finalized = GenesisCheckpoint
      /\ disk.index = <<>> /\ mem.finalized = GenesisCheckpoint /\ mem.cache = {}
      /\ job.pc = "next" /\ job.fill = {} /\ job.todo = {} /\ job.insert = {}
      /\ job.at = GenesisRoot
  BY <1>1 DEF GenesisDisk, Started, NoJob
<1>3. GenesisCheckpoint \in FinalCheckpoints /\ GenesisRoot \in AllBlocks
      /\ GenesisCheckpoint.root = GenesisRoot
  BY DEF FinalCheckpoints, AllBlocks, GenesisCheckpoint
<1>4. FinalChain(GenesisCheckpoint) = {}
  <2>1. {GenesisRoot} \in SUBSET AllBlocks /\ HasParents({GenesisRoot})
    BY <1>3 DEF HasParents
  <2> QED
    BY <1>3, <2>1, LineageLeast DEF FinalChain
<1>5. DOMAIN disk.index = {}
  BY <1>2, SMT, SMTT(20)
<1>6. Indexed(disk)
  BY <1>2, <1>3, <1>4, <1>5 DEF Indexed, LinksChain, OthersAreRecent
<1>7. Shape
  BY <1>1 DEF Shape, GenesisDisk, Started, NoJob
<1>8. ImportsAreBlocks /\ SavesLater
  BY <1>1, <1>2, <1>3 DEF ImportsAreBlocks, SavesLater
<1> QED
  BY <1>6, <1>7, <1>8 DEF IndexInv

\* ReceiveBlock before the lock.
LEMMA ReceiveKeepsIndex ==
  ASSUME IndexInv
  PROVE  /\ \A b \in ChainBlocks : EnterReceive(b) => IndexInv'
         /\ \A c \in receiving : StateCached(c) => IndexInv'
         /\ \A c \in receiving : Refuse(c) => IndexInv'
         /\ \A c \in receiving : Validate(c) => IndexInv'
         /\ \A c \in receiving : ClearInitSyncBlocks(c) => IndexInv'
<1> USE DEF IndexInv, Shape, ImportsAreBlocks, SavesLater, FinalizedToSave, AllBlocks
<1>1. ASSUME NEW b \in ChainBlocks, EnterReceive(b) PROVE IndexInv'
  BY <1>1, SMT, SMTT(20) DEF EnterReceive, Call
<1>2. ASSUME NEW c \in receiving, StateCached(c) PROVE IndexInv'
  BY <1>2 DEF StateCached
<1>3. ASSUME NEW c \in receiving, Refuse(c) PROVE IndexInv'
  BY <1>3 DEF Refuse
<1>4. ASSUME NEW c \in receiving, Validate(c) PROVE IndexInv'
  BY <1>4, SMT, SMTT(20) DEF Validate, Call
<1>5. ASSUME NEW c \in receiving, ClearInitSyncBlocks(c) PROVE IndexInv'
  BY <1>5 DEF ClearInitSyncBlocks, Cleared
<1> QED
  BY <1>1, <1>2, <1>3, <1>4, <1>5

\* Steps that save blocks, and the rollback that deletes one.
LEMMA BlocksKeepIndex ==
  ASSUME IndexInv
  PROVE  /\ \A c \in receiving : StateReplayed(c) => IndexInv'
         /\ \A c \in receiving : SavePostState(c) => IndexInv'
         /\ RollbackBlock => IndexInv'
         /\ FlushCache => IndexInv'
         /\ \A ok \in BOOLEAN : EndBatch(ok) => IndexInv'
         /\ StopService => IndexInv'
<1>0. Shape /\ Indexed(disk) /\ mem.cache \in SUBSET AllBlocks /\ {} \in SUBSET AllBlocks
  BY DEF IndexInv, ImportsAreBlocks
<1>1. ASSUME NEW c \in receiving, StateReplayed(c) PROVE IndexInv'
  <2>1. Indexed(disk') /\ disk'.finalized = disk.finalized /\ DOMAIN disk' = DOMAIN disk
    BY <1>0, <1>1, SaveBlocksKeepsIndex DEF StateReplayed
  <2> QED
    BY <1>1, <2>1 DEF StateReplayed, IndexInv, Shape, ImportsAreBlocks, SavesLater, FinalizedToSave
<1>2. ASSUME NEW c \in receiving, SavePostState(c) PROVE IndexInv'
  <2>1. {c.root} \in SUBSET AllBlocks
    BY DEF IndexInv, ImportsAreBlocks
  <2>2. Indexed(disk') /\ disk'.finalized = disk.finalized /\ DOMAIN disk' = DOMAIN disk
    BY <1>0, <1>2, <2>1, SaveBlocksKeepsIndex DEF SavePostState
  <2> QED
    BY <1>2, <2>1, <2>2 DEF SavePostState, NoJob, IndexInv, Shape, ImportsAreBlocks, SavesLater
<1>3. ASSUME RollbackBlock PROVE IndexInv'
  <2>1. Indexed(disk') /\ disk'.finalized = disk.finalized /\ DOMAIN disk' = DOMAIN disk
    BY <1>0, <1>3, DeleteBlockKeepsIndex DEF RollbackBlock
  <2> QED
    BY <1>3, <2>1 DEF RollbackBlock, NoJob, IndexInv, Shape, ImportsAreBlocks, SavesLater, AllBlocks
<1>4. ASSUME FlushCache PROVE IndexInv'
  <2>1. Indexed(disk') /\ disk'.finalized = disk.finalized /\ DOMAIN disk' = DOMAIN disk
    BY <1>0, <1>4, SaveBlocksKeepsIndex DEF FlushCache
  <2> QED
    BY <1>4, <2>1 DEF FlushCache, Cleared, IndexInv, Shape, ImportsAreBlocks, SavesLater, FinalizedToSave
<1>5. ASSUME NEW ok \in BOOLEAN, EndBatch(ok) PROVE IndexInv'
  <2>1. Indexed(disk') /\ disk'.finalized = disk.finalized /\ DOMAIN disk' = DOMAIN disk
    BY <1>0, <1>5, SaveBlocksKeepsIndex DEF EndBatch
  <2> QED
    BY <1>5, <2>1 DEF EndBatch, MarkValid, NoJob, IndexInv, Shape, ImportsAreBlocks, SavesLater,
                      AllBlocks
<1>6. ASSUME StopService PROVE IndexInv'
  <2>1. Indexed(disk') /\ disk'.finalized = disk.finalized /\ DOMAIN disk' = DOMAIN disk
    BY <1>0, <1>6, SaveBlocksKeepsIndex DEF StopService
  <2> QED
    BY <1>6, <2>1 DEF StopService, Down, Stopped, NoJob, IndexInv, Shape, ImportsAreBlocks,
                      SavesLater, AllBlocks, FinalCheckpoints
<1> QED
  BY <1>1, <1>2, <1>3, <1>4, <1>5, <1>6

\* InsertNode and InsertChain may raise the checkpoint of fork choice, but not while one is saved.
LEMMA InsertKeepsIndex ==
  ASSUME IndexInv, NEW late \in BOOLEAN, NEW ok \in BOOLEAN, InsertBlockNode(late, ok)
  PROVE  IndexInv'
<1> DEFINE b  == job.at
           jc == IF late THEN TipJustified[b] ELSE PostJustified[b]
           fc == IF late THEN TipFinalized[b] ELSE PostFinalized[b]
           m  == AdoptCheckpoints(AddNode(mem, b), jc, fc)
<1>0. fc \in FinalCheckpoints
  BY CheckpointOfBlock DEF IndexInv, ImportsAreBlocks
<1>1. /\ m.finalized \in FinalCheckpoints /\ m.cache = mem.cache /\ DOMAIN m = DOMAIN mem
  BY <1>0, AdoptedByNode, SMT, SMTT(20) DEF IndexInv
<1>2. /\ mem' = IF ok THEN MarkValid(m, b) ELSE m
      /\ job.pc = "insert" /\ job' = [job EXCEPT !.pc = "justify"]
      /\ UNCHANGED <<disk, receiving>>
  BY DEF InsertBlockNode
<1> HIDE DEF m
<1>3. /\ mem'.finalized \in FinalCheckpoints /\ mem'.cache = mem.cache /\ DOMAIN mem' = DOMAIN mem
  BY <1>1, <1>2 DEF MarkValid, IndexInv, Shape
<1> QED
  BY <1>2, <1>3 DEF IndexInv, Shape, ImportsAreBlocks, SavesLater

\* One round of InsertChain.
LEMMA InsertOfKeepsIndex ==
  ASSUME IndexInv, NEW r, NEW jc, NEW fc \in FinalCheckpoints, NEW rest, InsertOf(r, jc, fc, rest),
         rest.insert \subseteq job.insert, rest.todo = job.todo,
         rest.pc = "next", rest.at = job.at, DOMAIN rest = DOMAIN job
  PROVE  IndexInv'
<1>1. mem'.finalized \in FinalCheckpoints /\ mem'.cache = mem.cache /\ DOMAIN mem' = DOMAIN mem
  <2>1. CASE CanAdd(mem, r)
    BY <2>1, AdoptedByNode DEF IndexInv, InsertOf
  <2>2. CASE ~CanAdd(mem, r)
    BY <2>2 DEF IndexInv, ImportsAreBlocks, InsertOf
  <2> QED
    BY <2>1, <2>2
<1>2. /\ job'.insert \subseteq job.insert /\ job'.todo \subseteq job.todo
      /\ job'.pc = "next" /\ job'.at \in {job.at, GenesisRoot} /\ DOMAIN job' = DOMAIN job
  BY DEF InsertOf, NoJob, IndexInv, Shape
<1>3. UNCHANGED <<disk, receiving>>
  BY DEF InsertOf
<1> QED
  BY <1>1, <1>2, <1>3 DEF IndexInv, Shape, ImportsAreBlocks, SavesLater, AllBlocks

\* Both rounds of InsertChain.
LEMMA BatchKeepsIndex ==
  ASSUME IndexInv
  PROVE  /\ FillInMissing => IndexInv'
         /\ InsertBatch => IndexInv'
<1>1. ASSUME FillInMissing PROVE IndexInv'
  <2>1. PICK r \in job.fill :
          InsertOf(r, PostJustified[job.at], PostFinalized[job.at], [job EXCEPT !.fill = @ \ {r}])
    BY <1>1 DEF FillInMissing
  <2> DEFINE rest == [job EXCEPT !.fill = @ \ {r}]
  <2>2. /\ rest.insert \subseteq job.insert /\ rest.todo = job.todo
        /\ rest.pc = "next" /\ rest.at = job.at
        /\ DOMAIN rest = DOMAIN job
    BY DEF IndexInv, Shape, ImportsAreBlocks
  <2>3. PostFinalized[job.at] \in FinalCheckpoints
    BY CheckpointOfBlock DEF IndexInv, ImportsAreBlocks
  <2> HIDE DEF rest
  <2>4. InsertOf(r, PostJustified[job.at], PostFinalized[job.at], rest)
    BY <2>1 DEF rest
  <2> QED
    BY <2>2, <2>3, <2>4, InsertOfKeepsIndex
<1>2. ASSUME InsertBatch PROVE IndexInv'
  <2>1. PICK b \in job.insert :
          /\ job.pc = "next"
          /\ InsertOf(b, PostJustified[b], PostFinalized[b], [job EXCEPT !.insert = @ \ {b}])
    BY <1>2 DEF InsertBatch
  <2> DEFINE rest == [job EXCEPT !.insert = @ \ {b}]
  <2>2. /\ rest.insert \subseteq job.insert /\ rest.todo = job.todo
        /\ rest.pc = "next" /\ rest.at = job.at
        /\ DOMAIN rest = DOMAIN job
    BY <2>1 DEF IndexInv, Shape
  <2>3. PostFinalized[b] \in FinalCheckpoints
    BY CheckpointOfBlock DEF IndexInv, ImportsAreBlocks
  <2> HIDE DEF rest
  <2>4. InsertOf(b, PostJustified[b], PostFinalized[b], rest)
    BY <2>1 DEF rest
  <2> QED
    BY <2>2, <2>3, <2>4, InsertOfKeepsIndex
<1> QED
  BY <1>1, <1>2

\* onBlockBatch begins, perhaps with a save of the cache.
LEMMA StartBatchKeepsIndex ==
  ASSUME IndexInv, NEW batch \in SyncBatches, NEW flush \in BOOLEAN, StartBatch(batch, flush)
  PROVE  IndexInv'
<1>1. PICK b \in batch :
        LET p         == ChainParent[b]
            missing   == MissingBlocks(p)
            connected == missing = {} \/ \E r \in missing :
                           ChainParent[r] \in mem.tree \cup {mem.finalized.root}
        IN  /\ disk' = IF flush THEN SaveBlocks(disk, mem.cache) ELSE disk
            /\ mem' = IF flush THEN Cleared(mem) ELSE mem
            /\ job' = IF ~connected THEN NoJob
                      ELSE [NoJob EXCEPT !.kind = "batch", !.at = p, !.first = b,
                              !.fill = missing, !.todo = batch, !.insert = batch]
            /\ UNCHANGED receiving
  BY DEF StartBatch
<1>2. batch \subseteq AllBlocks /\ ChainParent[b] \in AllBlocks /\ GenesisRoot \in AllBlocks
  BY StorageAssumption DEF AllBlocks
<1>3. /\ job'.insert \subseteq AllBlocks /\ job'.todo \subseteq AllBlocks /\ job'.at \in AllBlocks
      /\ job'.pc = "next" /\ DOMAIN job' = DOMAIN NoJob
  BY <1>1, <1>2 DEF NoJob
<1>4. DOMAIN NoJob = {"kind", "pc", "at", "first", "fill", "todo", "insert", "j", "f"}
  BY DEF NoJob
<1>5. Indexed(disk') /\ disk'.finalized = disk.finalized /\ DOMAIN disk' = DOMAIN disk
  BY <1>1, SaveBlocksKeepsIndex DEF IndexInv, ImportsAreBlocks
<1>6. /\ mem'.cache \subseteq mem.cache /\ mem'.finalized = mem.finalized
      /\ DOMAIN mem' = DOMAIN mem /\ receiving' = receiving
  BY <1>1 DEF Cleared, IndexInv, Shape
<1> QED
  BY <1>3, <1>4, <1>5, <1>6 DEF IndexInv, Shape, ImportsAreBlocks, SavesLater

\* saveInitSyncBlock, perhaps with a save of the cache.
LEMMA CacheBlockKeepsIndex ==
  ASSUME IndexInv, CacheBlock
  PROVE  IndexInv'
<1>1. PICK b \in job.todo :
        LET cache == mem.cache \cup {b}
            full  == Cardinality(cache) > CacheLimit
        IN  /\ job.fill = {}
            /\ disk' = IF full THEN SaveBlocks(disk, cache) ELSE disk
            /\ mem' = [mem EXCEPT !.cache = IF full THEN {} ELSE cache,
                                  !.summaries = @ \cup {b}]
            /\ job' = [job EXCEPT !.todo = @ \ {b}, !.at = b, !.pc = "justify"]
            /\ UNCHANGED receiving
  BY DEF CacheBlock
<1>2. b \in AllBlocks /\ mem.cache \cup {b} \in SUBSET AllBlocks
  BY DEF IndexInv, ImportsAreBlocks
<1>3. Indexed(disk') /\ disk'.finalized = disk.finalized /\ DOMAIN disk' = DOMAIN disk
  BY <1>1, <1>2, SaveBlocksKeepsIndex DEF IndexInv
<1>4. /\ mem'.cache \subseteq mem.cache \cup {b} /\ mem'.finalized = mem.finalized
      /\ DOMAIN mem' = DOMAIN mem /\ receiving' = receiving
  BY <1>1 DEF IndexInv, Shape
<1>5. /\ job'.todo = job.todo \ {b} /\ job'.insert = job.insert /\ job'.fill = {}
      /\ job'.pc = "justify" /\ job'.at = b /\ DOMAIN job' = DOMAIN job
  BY <1>1 DEF IndexInv, Shape
<1> QED
  BY <1>2, <1>3, <1>4, <1>5 DEF IndexInv, Shape, ImportsAreBlocks, SavesLater

\* The next block of a batch, or nothing.
LEMMA ContinueKeepsBlocks ==
  ASSUME Shape, ImportsAreBlocks
  PROVE  /\ Continue.insert \subseteq AllBlocks /\ Continue.todo \subseteq AllBlocks
         /\ Continue.at \in AllBlocks /\ Continue.pc = "next" /\ DOMAIN Continue = DOMAIN job
BY DEF Continue, NoJob, Shape, ImportsAreBlocks, AllBlocks

\* The finalized checkpoint is compared with the saved one, and the justified one saved.
LEMMA SaveJustifiedKeepsIndex ==
  ASSUME IndexInv, SaveJustifiedCheckpoint
  PROVE  IndexInv'
<1>1. UNCHANGED <<mem, receiving>> /\ job.pc = "justify"
  BY DEF SaveJustifiedCheckpoint
<1>2. /\ disk'.blocks = disk.blocks /\ disk'.finalized = disk.finalized
      /\ disk'.index = disk.index /\ DOMAIN disk' = DOMAIN disk
  BY DEF SaveJustifiedCheckpoint, SaveJustified, IndexInv, Shape
<1>3. job' = NoJob \/ job' = Continue \/ (FinalizedRises /\ job' = [job EXCEPT !.pc = "flush"])
  BY DEF SaveJustifiedCheckpoint
<1>4. Indexed(disk')
  BY <1>2 DEF Indexed, IndexInv
<1>5. CASE job' = NoJob
  BY <1>1, <1>2, <1>4, <1>5 DEF IndexInv, Shape, ImportsAreBlocks, SavesLater, NoJob, AllBlocks
<1>6. CASE job' = Continue
  <2>1. /\ job'.insert \subseteq AllBlocks /\ job'.todo \subseteq AllBlocks
        /\ job'.at \in AllBlocks /\ job'.pc = "next" /\ DOMAIN job' = DOMAIN job
    BY <1>6, ContinueKeepsBlocks DEF IndexInv
  <2> QED
    BY <1>1, <1>2, <1>4, <2>1 DEF IndexInv, Shape, ImportsAreBlocks, SavesLater
<1>7. CASE FinalizedRises /\ job' = [job EXCEPT !.pc = "flush"]
  <2>1. /\ job'.insert = job.insert /\ job'.todo = job.todo /\ job'.fill = job.fill
        /\ job'.at = job.at /\ job'.pc = "flush" /\ job'.kind = job.kind
        /\ DOMAIN job' = DOMAIN job
    BY <1>7 DEF IndexInv, Shape
  <2>2. FinalizedToSave' = FinalizedToSave
    BY <1>1, <2>1 DEF FinalizedToSave
  <2>3. FinalizedToSave.epoch > disk.finalized.epoch
    BY <1>7 DEF FinalizedRises
  <2>4. SavesLater'
    BY <1>2, <2>1, <2>2, <2>3 DEF SavesLater
  <2> QED
    BY <1>1, <1>2, <1>4, <2>1, <2>4 DEF IndexInv, Shape, ImportsAreBlocks
<1> QED
  BY <1>3, <1>5, <1>6, <1>7

\* SaveFinalizedCheckpoint writes a later checkpoint and its index.
LEMMA SaveFinalizedKeepsIndex ==
  ASSUME IndexInv, SaveFinalizedCheckpoint
  PROVE  IndexInv'
<1> DEFINE cp == FinalizedToSave
           ok == HasSummary(disk, mem, cp.root) /\ Walked(disk, cp) \subseteq disk.blocks
<1>1. /\ UNCHANGED <<mem, receiving>> /\ job.pc = "finalize"
      /\ disk' = IF ok THEN SaveFinalized(disk, cp) ELSE disk
      /\ job' = IF ok THEN [job EXCEPT !.pc = "validate"] ELSE NoJob
  BY DEF SaveFinalizedCheckpoint
<1>2. cp \in FinalCheckpoints /\ disk.finalized.epoch < cp.epoch
  <2>1. cp \in FinalCheckpoints /\ disk.finalized \in FinalCheckpoints /\ cp.epoch > disk.finalized.epoch
    BY <1>1, SavedIsCheckpoint DEF IndexInv, SavesLater, Indexed
  <2>2. cp.epoch \in Nat /\ disk.finalized.epoch \in Nat
    BY <2>1, CheckpointFacts
  <2> QED
    BY <2>1, <2>2
<1> HIDE DEF cp
<1>3. CASE ~ok
  BY <1>1, <1>3 DEF IndexInv, Shape, ImportsAreBlocks, SavesLater, NoJob, AllBlocks
<1>4. CASE ok
  <2>1. /\ disk'.blocks = disk.blocks /\ disk'.finalized = cp
        /\ disk'.index = UpdateFinalizedBlockRoots(disk, cp) /\ DOMAIN disk' = DOMAIN disk
    BY <1>1, <1>4 DEF SaveFinalized, IndexInv, Shape
  <2>2. /\ DOMAIN disk'.index \subseteq disk.blocks \ {GenesisRoot}
        /\ LinksChain(disk'.index, cp) /\ OthersAreRecent(disk'.index, cp)
    BY <1>2, <1>4, <2>1, UpdatedIndex DEF IndexInv
  <2>3. Indexed(disk')
    BY <1>2, <2>1, <2>2 DEF Indexed, IndexInv
  <2>4. /\ job'.insert = job.insert /\ job'.todo = job.todo /\ job'.fill = job.fill
        /\ job'.at = job.at /\ job'.pc = "validate" /\ job'.kind = job.kind
        /\ DOMAIN job' = DOMAIN job
    BY <1>1, <1>4 DEF IndexInv, Shape
  <2>5. FinalizedToSave' = cp
    BY <1>1, <2>4, SMT, SMTT(20) DEF FinalizedToSave, cp
  <2>6. SavesLater'
    BY <2>1, <2>4, <2>5 DEF SavesLater
  <2> QED
    BY <1>1, <2>1, <2>3, <2>4, <2>6 DEF IndexInv, Shape, ImportsAreBlocks
<1> QED
  BY <1>3, <1>4

\* The last validated checkpoint is written beside them.
LEMMA SaveValidatedKeepsIndex ==
  ASSUME IndexInv, SaveLastValidatedCheckpoint
  PROVE  IndexInv'
<1>1. UNCHANGED <<mem, receiving>> /\ job' = Continue
  BY DEF SaveLastValidatedCheckpoint
<1>2. /\ disk'.blocks = disk.blocks /\ disk'.finalized = disk.finalized
      /\ disk'.index = disk.index /\ DOMAIN disk' = DOMAIN disk
  BY DEF SaveLastValidatedCheckpoint, IndexInv, Shape
<1>3. /\ job'.insert \subseteq AllBlocks /\ job'.todo \subseteq AllBlocks
      /\ job'.at \in AllBlocks /\ job'.pc = "next" /\ DOMAIN job' = DOMAIN job
  BY <1>1, ContinueKeepsBlocks DEF IndexInv
<1>4. Indexed(disk')
  BY <1>2 DEF Indexed, IndexInv
<1> QED
  BY <1>1, <1>2, <1>3, <1>4 DEF IndexInv, Shape, ImportsAreBlocks, SavesLater

\* Time, failures, crashes and starts.
LEMMA RestKeepsIndex ==
  ASSUME IndexInv, StoppedIsIdle
  PROVE  /\ \A r \in AllBlocks : AdoptUnrealized(r) => IndexInv'
         /\ ImportErrors => IndexInv'
         /\ NodeCrashes => IndexInv'
         /\ StartFromSavedState => IndexInv'
<1>1. ASSUME NEW r \in AllBlocks, AdoptUnrealized(r) PROVE IndexInv'
  <2>1. /\ mem'.finalized \in FinalCheckpoints /\ mem'.cache = mem.cache
        /\ DOMAIN mem' = DOMAIN mem
    BY <1>1, CheckpointOfBlock, AdoptedCheckpoint, SMT, SMTT(20)
    DEF AdoptUnrealized, IndexInv, Shape, ImportsAreBlocks
  <2>2. UNCHANGED <<disk, receiving, job>> /\ job.pc = "next"
    BY <1>1 DEF AdoptUnrealized, LockIsFree, NoJob
  <2> QED
    BY <2>1, <2>2 DEF IndexInv, Shape, ImportsAreBlocks, SavesLater
<1>2. ASSUME ImportErrors PROVE IndexInv'
  BY <1>2 DEF ImportErrors, NoJob, IndexInv, Shape, ImportsAreBlocks, SavesLater, AllBlocks
<1>3. ASSUME NodeCrashes PROVE IndexInv'
  BY <1>3 DEF NodeCrashes, Down, Stopped, NoJob, IndexInv, Shape, ImportsAreBlocks, SavesLater,
              AllBlocks, FinalCheckpoints
<1>4. ASSUME StartFromSavedState PROVE IndexInv'
  <2>1. /\ mem'.finalized = disk.finalized /\ mem'.cache = {} /\ UNCHANGED <<disk, receiving, job>>
        /\ DOMAIN mem' = {"up", "saved", "cache", "summaries", "tree", "valid",
                          "justified", "finalized"}
    BY <1>4 DEF StartFromSavedState, Started
  <2>2. job.pc = "next"
    BY <1>4, SMT, SMTT(20) DEF StartFromSavedState, StoppedIsIdle, NoJob
  <2> QED
    BY <2>1, <2>2 DEF IndexInv, Shape, ImportsAreBlocks, SavesLater, Indexed
<1> QED
  BY <1>1, <1>2, <1>3, <1>4

\* Imports start while the node runs.
LEMMA IdleKeeps ==
  ASSUME IndexInv, StoppedIsIdle, StorageNext
  PROVE  StoppedIsIdle'
<1> USE DEF StoppedIsIdle
<1>0. /\ NoJob.fill = {} /\ NoJob.todo = {} /\ NoJob.insert = {} /\ NoJob.kind = "none"
      /\ NoJob.pc = "next"
  BY DEF NoJob
<1>1. CASE mem.up
  <2>1. ASSUME NEW late \in BOOLEAN, NEW ok \in BOOLEAN, InsertBlockNode(late, ok) PROVE mem'.up
    <3> DEFINE b  == job.at
               jc == IF late THEN TipJustified[b] ELSE PostJustified[b]
               fc == IF late THEN TipFinalized[b] ELSE PostFinalized[b]
               m  == AdoptCheckpoints(AddNode(mem, b), jc, fc)
    <3>0. fc \in FinalCheckpoints
      BY CheckpointOfBlock DEF IndexInv, ImportsAreBlocks
    <3>1. m.up = mem.up /\ DOMAIN m = DOMAIN mem
      BY <3>0, AdoptedByNode, SMT, SMTT(20) DEF IndexInv
    <3>2. mem' = IF ok THEN MarkValid(m, b) ELSE m
      BY <2>1 DEF InsertBlockNode
    <3> HIDE DEF m
    <3> QED
      BY <1>1, <3>1, <3>2 DEF MarkValid, IndexInv, Shape
  <2>2. ASSUME NEW r, NEW jc, NEW fc \in FinalCheckpoints, NEW rest, InsertOf(r, jc, fc, rest)
        PROVE  mem'.up
    <3>1. CASE CanAdd(mem, r)
      BY <1>1, <2>2, <3>1, AdoptedByNode DEF InsertOf, IndexInv
    <3>2. CASE ~CanAdd(mem, r)
      BY <1>1, <2>2, <3>2 DEF InsertOf
    <3> QED
      BY <3>1, <3>2
  <2>3. FillInMissing \/ InsertBatch => mem'.up
    BY <2>2, CheckpointOfBlock DEF FillInMissing, InsertBatch, IndexInv, ImportsAreBlocks
  <2>4. ASSUME NEW r \in AllBlocks, AdoptUnrealized(r) PROVE mem'.up
    BY <1>1, <2>4, CheckpointOfBlock, AdoptedCheckpoint
    DEF AdoptUnrealized, IndexInv, Shape, ImportsAreBlocks
  <2>5. NodeCrashes \/ StopService => job' = NoJob
    BY DEF NodeCrashes, StopService, Down
  <2>6. ASSUME NEW c \in receiving, ClearInitSyncBlocks(c) \/ SavePostState(c) PROVE mem'.up
    BY <1>1, <2>6 DEF ClearInitSyncBlocks, SavePostState, Cleared, IndexInv, Shape
  <2>7. RollbackBlock \/ CacheBlock \/ FlushCache => mem'.up
    BY <1>1 DEF RollbackBlock, CacheBlock, FlushCache, Cleared, IndexInv, Shape
  <2>8. ASSUME NEW batch \in SyncBatches, NEW flush \in BOOLEAN, StartBatch(batch, flush) PROVE mem'.up
    BY <1>1, <2>8 DEF StartBatch, Cleared, IndexInv, Shape
  <2>9. ASSUME NEW ok \in BOOLEAN, EndBatch(ok) PROVE mem'.up
    BY <1>1, <2>9 DEF EndBatch, MarkValid, IndexInv, Shape
  <2>10. /\ \A b \in ChainBlocks : EnterReceive(b) => mem'.up
         /\ \A c \in receiving : StateCached(c) \/ StateReplayed(c) \/ Refuse(c) \/ Validate(c) => mem'.up
    BY <1>1 DEF EnterReceive, StateCached, StateReplayed, Refuse, Validate
  <2>11. /\ SaveJustifiedCheckpoint \/ SaveFinalizedCheckpoint \/ SaveLastValidatedCheckpoint => mem'.up
         /\ ImportErrors => mem'.up
    BY <1>1 DEF SaveJustifiedCheckpoint, SaveFinalizedCheckpoint, SaveLastValidatedCheckpoint, ImportErrors
  <2>12. ~StartFromSavedState
    BY <1>1 DEF StartFromSavedState
  <2> QED
    BY <2>1, <2>3, <2>4, <2>5, <2>6, <2>7, <2>8, <2>9, <2>10, <2>11, <2>12, Zenon, ZenonT(20) DEF StorageNext
<1>2. CASE ~mem.up /\ job = NoJob
  <2>1. /\ \A b \in ChainBlocks : ~EnterReceive(b)
        /\ \A c \in receiving : ~Validate(c) /\ ~SavePostState(c)
        /\ \A batch \in SyncBatches, flush \in BOOLEAN : ~StartBatch(batch, flush)
        /\ \A r \in AllBlocks : ~AdoptUnrealized(r)
    BY <1>2 DEF EnterReceive, Validate, SavePostState, StartBatch, AdoptUnrealized, LockIsFree
  <2>2. /\ ~FillInMissing /\ ~CacheBlock /\ ~InsertBatch /\ \A ok \in BOOLEAN : ~EndBatch(ok)
    BY <1>0, <1>2 DEF FillInMissing, CacheBlock, InsertBatch, EndBatch
  <2>3. /\ \A late, ok \in BOOLEAN : ~InsertBlockNode(late, ok)
        /\ ~RollbackBlock /\ ~SaveJustifiedCheckpoint /\ ~FlushCache
        /\ ~SaveFinalizedCheckpoint /\ ~SaveLastValidatedCheckpoint
    BY <1>0, <1>2 DEF InsertBlockNode, RollbackBlock, SaveJustifiedCheckpoint, FlushCache,
                      SaveFinalizedCheckpoint, SaveLastValidatedCheckpoint
  <2>4. ~ImportErrors /\ ~NodeCrashes /\ ~StopService
    BY <1>0, <1>2 DEF ImportErrors, NodeCrashes, StopService, Down
  <2>5. /\ \A c \in receiving : StateCached(c) \/ StateReplayed(c) \/ ClearInitSyncBlocks(c) \/ Refuse(c)
             => job' = NoJob
        /\ StartFromSavedState => job' = NoJob
    BY <1>2 DEF StateCached, StateReplayed, ClearInitSyncBlocks, Refuse, StartFromSavedState
  <2> QED
    BY <2>1, <2>2, <2>3, <2>4, <2>5, Zenon, ZenonT(20) DEF StorageNext
<1> QED
  BY <1>1, <1>2

\* Every step keeps the index.
LEMMA NextIndexInv ==
  ASSUME IndexInv, StoppedIsIdle, [StorageNext]_storageVars
  PROVE  IndexInv' /\ StoppedIsIdle'
<1>1. CASE UNCHANGED storageVars
  BY <1>1 DEF storageVars, IndexInv, StoppedIsIdle, Shape, ImportsAreBlocks, SavesLater, FinalizedToSave
<1>2. CASE StorageNext
  <2>1. IndexInv'
    BY <1>2, ReceiveKeepsIndex, BlocksKeepIndex, InsertKeepsIndex, BatchKeepsIndex,
       StartBatchKeepsIndex, CacheBlockKeepsIndex, SaveJustifiedKeepsIndex,
       SaveFinalizedKeepsIndex, SaveValidatedKeepsIndex, RestKeepsIndex, Zenon, ZenonT(20) DEF StorageNext
  <2> QED
    BY <1>2, <2>1, IdleKeeps
<1> QED
  BY <1>1, <1>2

\* The invariant holds for every chain and every interleaving.
LEMMA IndexInvHolds == StorageSpec => [](IndexInv /\ StoppedIsIdle)
<1>1. StorageInit => StoppedIsIdle
  BY DEF StorageInit, StoppedIsIdle
<1>2. IndexInv /\ StoppedIsIdle /\ [StorageNext]_storageVars => IndexInv' /\ StoppedIsIdle'
  BY NextIndexInv
<1> QED
  BY <1>1, <1>2, InitIndexInv, PTL DEF StorageSpec

(***************************************************************************)
(* At every moment, so also after a crash between any two transactions,    *)
(* the database holds the chain of its finalized checkpoint from genesis.  *)
(***************************************************************************)
THEOREM FinalizedStaysStored == StorageSpec => []FinalizedIsStored
<1>1. IndexInv => FinalizedIsStored
  BY DEF IndexInv, Indexed, LinksChain, FinalChain, FinalizedIsStored
<1> QED
  BY <1>1, IndexInvHolds, PTL

(***************************************************************************)
(* The index that updateFinalizedBlockRoots maintains links exactly the    *)
(* finalized chain, each block to its child, however the checkpoints       *)
(* advance.                                                                *)
(***************************************************************************)
THEOREM IndexStaysChain == StorageSpec => []IndexIsChain
<1>1. IndexInv => IndexIsChain
  <2> SUFFICES ASSUME IndexInv PROVE IndexIsChain
    OBVIOUS
  <2> DEFINE chain == FinalChain(disk.finalized)
             linked == {r \in DOMAIN disk.index : disk.index[r] # Recent}
  <2>1. /\ disk.finalized \in FinalCheckpoints /\ LinksChain(disk.index, disk.finalized)
        /\ OthersAreRecent(disk.index, disk.finalized)
        /\ DOMAIN disk.index \subseteq AllBlocks
    BY DEF IndexInv, Indexed
  <2>2. chain \subseteq AllBlocks /\ disk.finalized.epoch \in Nat
    BY <2>1, CheckpointFacts DEF FinalChain
  <2>3. linked = chain
    BY <2>1, <2>2, IndexValues, SMT, SMTT(20) DEF LinksChain, OthersAreRecent
  <2>4. ASSUME NEW r \in DOMAIN disk.index \ chain PROVE BlockEpoch(r) >= disk.finalized.epoch
    <3>1. ChainSlot[r] \in Nat /\ StartOfEpoch(disk.finalized.epoch) <= ChainSlot[r]
      BY <2>1, <2>4, StorageAssumption DEF OthersAreRecent
    <3> QED
      BY <2>2, <3>1, EpochOfSlot DEF BlockEpoch
  <2>5. chain = Lineage[disk.finalized.root] \ {GenesisRoot}
    BY DEF FinalChain
  <2> QED
    BY <2>1, <2>3, <2>4, <2>5 DEF IndexIsChain, LinksChain
<1> QED
  BY <1>1, IndexInvHolds, PTL

-----------------------------------------------------------------------------
(***************************************************************************)
(* The last validated checkpoint.  A start trusts the finalized block of a *)
(* database that has no validated checkpoint, whatever the engine would    *)
(* say, so that fork choice may hold it as valid (TrustedUpTo).  It is not *)
(* saved as validated: by then a later checkpoint is finalized, and only a *)
(* checkpoint with the same root would make the trust permanent.           *)
(***************************************************************************)
ValidOnChain ==
  ValidPayloads \subseteq AllBlocks /\ \A r \in ValidPayloads : Lineage[r] \subseteq ValidPayloads \cup {GenesisRoot}

RootsDiffer ==
  \A c, d \in FinalCheckpoints : c.epoch < d.epoch => c.root # d.root

Checked == ValidPayloads \cup {GenesisRoot}

TrustedUpTo(e) == Checked \cup {c.root : c \in {x \in FinalCheckpoints : x.epoch <= e}}

TrustedBefore(e) == Checked \cup {c.root : c \in {x \in FinalCheckpoints : x.epoch < e}}

ValidInv ==
  /\ ValidatedIsValid
  /\ mem.valid \subseteq TrustedUpTo(disk.finalized.epoch)
  /\ job.pc = "validate" => mem.valid \subseteq TrustedBefore(disk.finalized.epoch)

\* A step that trusts no checkpoint and saves none.
LEMMA ValidStays ==
  ASSUME ValidInv, mem'.valid \subseteq mem.valid \cup Checked,
         disk'.finalized = disk.finalized, disk'.validated = disk.validated,
         job'.pc = "validate" => job.pc = "validate"
  PROVE  ValidInv'
<1>1. ValidatedIsValid'
  BY DEF ValidInv, ValidatedIsValid
<1>2. Checked \subseteq TrustedUpTo(disk.finalized.epoch) /\ Checked \subseteq TrustedBefore(disk.finalized.epoch)
  BY DEF TrustedUpTo, TrustedBefore
<1> QED
  BY <1>1, <1>2 DEF ValidInv

\* The engine's VALID covers the ancestors in the tree.
LEMMA MarkedAreChecked ==
  ASSUME ValidOnChain, NEW m, DOMAIN m = {"up", "saved", "cache", "summaries", "tree", "valid",
                                          "justified", "finalized"},
         NEW r \in ValidPayloads
  PROVE  MarkValid(m, r).valid \subseteq m.valid \cup Checked
<1>1. MarkValid(m, r).valid = m.valid \cup (Lineage[r] \cap m.tree)
  BY DEF MarkValid
<1> QED
  BY <1>1 DEF ValidOnChain, Checked

\* SetOptimisticToValid after a block and after a batch.
LEMMA EngineKeepsValid ==
  ASSUME ValidOnChain, IndexInv, ValidInv
  PROVE  /\ \A late, ok \in BOOLEAN : InsertBlockNode(late, ok) => ValidInv'
         /\ \A ok \in BOOLEAN : EndBatch(ok) => ValidInv'
<1>1. ASSUME NEW late \in BOOLEAN, NEW ok \in BOOLEAN, InsertBlockNode(late, ok) PROVE ValidInv'
  <2> DEFINE b  == job.at
             jc == IF late THEN TipJustified[b] ELSE PostJustified[b]
             fc == IF late THEN TipFinalized[b] ELSE PostFinalized[b]
             m  == AdoptCheckpoints(AddNode(mem, b), jc, fc)
  <2>0. fc \in FinalCheckpoints
    BY CheckpointOfBlock DEF IndexInv, ImportsAreBlocks
  <2>1. m.valid = mem.valid /\ DOMAIN m = DOMAIN mem
    BY <2>0, AdoptedByNode, SMT, SMTT(20) DEF IndexInv
  <2>2. /\ mem' = IF ok THEN MarkValid(m, b) ELSE m
        /\ ok => b \in ValidPayloads
        /\ job' = [job EXCEPT !.pc = "justify"] /\ UNCHANGED disk
    BY <1>1 DEF InsertBlockNode
  <2> HIDE DEF m, b
  <2>3. mem'.valid \subseteq mem.valid \cup Checked
    BY <2>1, <2>2, MarkedAreChecked DEF IndexInv, Shape
  <2>4. job'.pc = "justify"
    BY <2>2 DEF IndexInv, Shape
  <2> QED
    BY <2>2, <2>3, <2>4, ValidStays
<1>2. ASSUME NEW ok \in BOOLEAN, EndBatch(ok) PROVE ValidInv'
  <2>1. mem'.valid \subseteq mem.valid \cup Checked
    BY <1>2, MarkedAreChecked DEF EndBatch, IndexInv, Shape
  <2>2. /\ job'.pc = "next" /\ disk'.finalized = disk.finalized /\ disk'.validated = disk.validated
    BY <1>2 DEF EndBatch, NoJob, SaveBlocks, IndexInv, Shape
  <2> QED
    BY <2>1, <2>2, ValidStays
<1> QED
  BY <1>1, <1>2

\* The save of a later finalized checkpoint, and of the validated one.
LEMMA CheckpointsKeepValid ==
  ASSUME RootsDiffer, IndexInv, ValidInv
  PROVE  /\ SaveFinalizedCheckpoint => ValidInv'
         /\ SaveLastValidatedCheckpoint => ValidInv'
<1>0. disk.finalized \in FinalCheckpoints /\ disk.finalized.epoch \in Nat
  BY CheckpointFacts DEF IndexInv, Indexed
<1>1. ASSUME SaveFinalizedCheckpoint PROVE ValidInv'
  <2> DEFINE cp == FinalizedToSave
             ok == HasSummary(disk, mem, cp.root) /\ Walked(disk, cp) \subseteq disk.blocks
  <2>1. /\ mem' = mem /\ job.pc = "finalize"
        /\ disk' = IF ok THEN SaveFinalized(disk, cp) ELSE disk
        /\ job' = IF ok THEN [job EXCEPT !.pc = "validate"] ELSE NoJob
    BY <1>1 DEF SaveFinalizedCheckpoint
  <2>2. cp.epoch \in Nat /\ cp.epoch > disk.finalized.epoch
    BY <2>1, SavedIsCheckpoint, CheckpointFacts DEF IndexInv, SavesLater
  <2> HIDE DEF cp
  <2>3. CASE ~ok
    <3>1. disk' = disk /\ job'.pc = "next"
      BY <2>1, <2>3 DEF NoJob
    <3> QED
      BY <2>1, <3>1, ValidStays
  <2>4. CASE ok
    <3>1. disk'.finalized = cp /\ disk'.validated = disk.validated
      BY <2>1, <2>4 DEF SaveFinalized, IndexInv, Shape
    <3>2. \A x \in FinalCheckpoints : x.epoch <= disk.finalized.epoch => x.epoch < cp.epoch /\ x.epoch <= cp.epoch
      <4> TAKE x \in FinalCheckpoints
      <4>1. x.epoch \in Nat
        BY CheckpointFacts
      <4> QED
        BY <1>0, <2>2, <4>1, SMT, SMTT(20)
    <3>3. mem.valid \subseteq TrustedUpTo(cp.epoch) /\ mem.valid \subseteq TrustedBefore(cp.epoch)
      BY <3>2 DEF ValidInv, TrustedUpTo, TrustedBefore
    <3> QED
      BY <2>1, <3>1, <3>3 DEF ValidInv, ValidatedIsValid
  <2> QED
    BY <2>3, <2>4
<1>2. ASSUME SaveLastValidatedCheckpoint PROVE ValidInv'
  <2>1. /\ mem' = mem /\ job.pc = "validate" /\ job' = Continue
        /\ disk' = IF FinalizedToSave.root \in mem.tree \cap mem.valid
                   THEN [disk EXCEPT !.validated = FinalizedToSave] ELSE disk
    BY <1>2 DEF SaveLastValidatedCheckpoint
  <2>2. FinalizedToSave = disk.finalized /\ mem.valid \subseteq TrustedBefore(disk.finalized.epoch)
    BY <2>1 DEF IndexInv, SavesLater, ValidInv
  <2>3. disk.finalized.root \in mem.valid => disk.finalized.root \in Checked
    BY <1>0, <2>2 DEF TrustedBefore, RootsDiffer
  <2>4. disk'.finalized = disk.finalized
    BY <2>1 DEF IndexInv, Shape
  <2>5. \/ disk'.validated = disk.validated
        \/ disk'.validated = disk.finalized /\ disk.finalized.root \in mem.valid
    BY <2>1, <2>2 DEF IndexInv, Shape
  <2>6. job'.pc = "next"
    BY <2>1, ContinueKeepsBlocks DEF IndexInv
  <2> QED
    BY <2>1, <2>3, <2>4, <2>5, <2>6 DEF ValidInv, ValidatedIsValid, Checked
<1> QED
  BY <1>1, <1>2

\* The start trusts the finalized block when no other is known as validated.
LEMMA StartKeepsValid ==
  ASSUME IndexInv, StoppedIsIdle, ValidInv
  PROVE  /\ StartFromSavedState => ValidInv'
         /\ NodeCrashes => ValidInv'
         /\ StopService => ValidInv'
<1>1. ASSUME StartFromSavedState PROVE ValidInv'
  <2>1. /\ mem'.valid = {disk.finalized.root} \cap {LastValidated(disk).root}
        /\ UNCHANGED <<disk, job>> /\ job.pc # "validate"
    BY <1>1, SMT, SMTT(20) DEF StartFromSavedState, Started, StoppedIsIdle, NoJob
  <2>2. disk.finalized \in FinalCheckpoints /\ disk.finalized.epoch \in Nat
    BY CheckpointFacts DEF IndexInv, Indexed
  <2>3. disk.finalized.root \in TrustedUpTo(disk.finalized.epoch)
    BY <2>2, SMT, SMTT(20) DEF TrustedUpTo
  <2> QED
    BY <2>1, <2>3 DEF ValidInv, ValidatedIsValid
<1>2. ASSUME NodeCrashes \/ StopService PROVE ValidInv'
  <2>1. /\ mem'.valid = {} /\ job'.pc = "next"
        /\ disk'.finalized = disk.finalized /\ disk'.validated = disk.validated
    BY <1>2, SMT, SMTT(20) DEF NodeCrashes, StopService, Down, Stopped, NoJob, SaveBlocks, IndexInv, Shape
  <2> QED
    BY <2>1, ValidStays
<1> QED
  BY <1>1, <1>2

\* The steps of an import that leave all of it alone.
LEMMA OthersKeepValid ==
  ASSUME IndexInv, ValidInv
  PROVE  /\ \A b \in ChainBlocks : EnterReceive(b) => ValidInv'
         /\ \A c \in receiving : StateCached(c) \/ StateReplayed(c) \/ ClearInitSyncBlocks(c)
              \/ Refuse(c) \/ Validate(c) \/ SavePostState(c) => ValidInv'
         /\ RollbackBlock \/ FlushCache \/ ImportErrors => ValidInv'
         /\ SaveJustifiedCheckpoint => ValidInv'
<1>1. ASSUME NEW b \in ChainBlocks, EnterReceive(b) PROVE ValidInv'
  BY <1>1, ValidStays DEF EnterReceive
<1>2. ASSUME NEW c \in receiving, StateCached(c) \/ Refuse(c) \/ Validate(c) PROVE ValidInv'
  BY <1>2, ValidStays DEF StateCached, Refuse, Validate
<1>3. ASSUME NEW c \in receiving, StateReplayed(c) \/ ClearInitSyncBlocks(c) PROVE ValidInv'
  <2>1. /\ mem'.valid = mem.valid /\ disk'.finalized = disk.finalized
        /\ disk'.validated = disk.validated /\ job' = job
    BY <1>3 DEF StateReplayed, ClearInitSyncBlocks, SaveBlocks, Cleared, IndexInv, Shape
  <2> QED
    BY <2>1, ValidStays
<1>4. ASSUME NEW c \in receiving, SavePostState(c) PROVE ValidInv'
  <2>1. /\ mem'.valid = mem.valid /\ disk'.finalized = disk.finalized
        /\ disk'.validated = disk.validated /\ job'.pc = "insert"
    BY <1>4 DEF SavePostState, SaveBlocks, NoJob, IndexInv, Shape
  <2> QED
    BY <2>1, ValidStays
<1>5. ASSUME RollbackBlock \/ FlushCache \/ ImportErrors PROVE ValidInv'
  <2>1. /\ mem'.valid = mem.valid /\ disk'.finalized = disk.finalized
        /\ disk'.validated = disk.validated /\ job'.pc # "validate"
    BY <1>5, SMT, SMTT(20) DEF RollbackBlock, FlushCache, ImportErrors, DeleteBlockOf, SaveBlocks, Cleared, NoJob,
                IndexInv, Shape
  <2> QED
    BY <2>1, ValidStays
<1>6. ASSUME SaveJustifiedCheckpoint PROVE ValidInv'
  <2>1. mem' = mem /\ disk'.finalized = disk.finalized /\ disk'.validated = disk.validated
    BY <1>6 DEF SaveJustifiedCheckpoint, SaveJustified, IndexInv, Shape
  <2>2. job' = NoJob \/ job' = Continue \/ job' = [job EXCEPT !.pc = "flush"]
    BY <1>6 DEF SaveJustifiedCheckpoint
  <2>3. job'.pc # "validate"
    BY <2>2, ContinueKeepsBlocks, SMT, SMTT(20) DEF NoJob, IndexInv, Shape
  <2> QED
    BY <2>1, <2>3, ValidStays
<1> QED
  BY <1>1, <1>2, <1>3, <1>4, <1>5, <1>6

\* The steps of a batch, and time.
LEMMA BatchKeepsValid ==
  ASSUME IndexInv, ValidInv
  PROVE  /\ FillInMissing \/ InsertBatch \/ CacheBlock => ValidInv'
         /\ \A batch \in SyncBatches, flush \in BOOLEAN : StartBatch(batch, flush) => ValidInv'
         /\ \A r \in AllBlocks : AdoptUnrealized(r) => ValidInv'
<1>1. ASSUME NEW r, NEW jc, NEW fc \in FinalCheckpoints, NEW rest, InsertOf(r, jc, fc, rest),
             rest.pc = "next"
      PROVE  ValidInv'
  <2>1. mem'.valid = mem.valid
    <3>1. CASE CanAdd(mem, r)
      BY <1>1, <3>1, AdoptedByNode DEF InsertOf, IndexInv
    <3>2. CASE ~CanAdd(mem, r)
      BY <1>1, <3>2 DEF InsertOf
    <3> QED
      BY <3>1, <3>2
  <2>2. disk' = disk /\ job'.pc = "next"
    BY <1>1 DEF InsertOf, NoJob
  <2> QED
    BY <2>1, <2>2, ValidStays
<1>2. ASSUME FillInMissing PROVE ValidInv'
  <2>1. PICK r \in job.fill :
          InsertOf(r, PostJustified[job.at], PostFinalized[job.at], [job EXCEPT !.fill = @ \ {r}])
    BY <1>2 DEF FillInMissing
  <2>2. [job EXCEPT !.fill = @ \ {r}].pc = "next" /\ PostFinalized[job.at] \in FinalCheckpoints
    BY CheckpointOfBlock DEF IndexInv, Shape, ImportsAreBlocks
  <2> QED
    BY <1>1, <2>1, <2>2
<1>3. ASSUME InsertBatch PROVE ValidInv'
  <2>1. PICK b \in job.insert :
          /\ job.pc = "next"
          /\ InsertOf(b, PostJustified[b], PostFinalized[b], [job EXCEPT !.insert = @ \ {b}])
    BY <1>3 DEF InsertBatch
  <2>2. [job EXCEPT !.insert = @ \ {b}].pc = "next" /\ PostFinalized[b] \in FinalCheckpoints
    BY <2>1, CheckpointOfBlock DEF IndexInv, Shape, ImportsAreBlocks
  <2> QED
    BY <1>1, <2>1, <2>2
<1>4. ASSUME CacheBlock PROVE ValidInv'
  <2>1. /\ mem'.valid = mem.valid /\ disk'.finalized = disk.finalized
        /\ disk'.validated = disk.validated /\ job'.pc = "justify"
    BY <1>4 DEF CacheBlock, SaveBlocks, IndexInv, Shape
  <2> QED
    BY <2>1, ValidStays
<1>5. ASSUME NEW batch \in SyncBatches, NEW flush \in BOOLEAN, StartBatch(batch, flush) PROVE ValidInv'
  <2>1. /\ mem'.valid = mem.valid /\ disk'.finalized = disk.finalized
        /\ disk'.validated = disk.validated /\ job'.pc = "next"
    BY <1>5, SMT, SMTT(20) DEF StartBatch, SaveBlocks, Cleared, NoJob, IndexInv, Shape
  <2> QED
    BY <2>1, ValidStays
<1>6. ASSUME NEW r \in AllBlocks, AdoptUnrealized(r) PROVE ValidInv'
  <2>1. mem'.valid = mem.valid
    BY <1>6, CheckpointOfBlock, AdoptedCheckpoint, SMT, SMTT(20)
    DEF AdoptUnrealized, IndexInv, Shape, ImportsAreBlocks
  <2>2. UNCHANGED <<disk, job>>
    BY <1>6 DEF AdoptUnrealized
  <2> QED
    BY <2>1, <2>2, ValidStays
<1> QED
  BY <1>2, <1>3, <1>4, <1>5, <1>6

(***************************************************************************)
(* Only a block that the engine found VALID, or genesis, is ever saved as  *)
(* the last validated checkpoint, provided that what VALID says holds of   *)
(* the ancestors and that no two finalized checkpoints share a block.      *)
(***************************************************************************)
THEOREM ValidatedStaysValid ==
  ASSUME ValidOnChain, RootsDiffer
  PROVE  StorageSpec => []ValidatedIsValid
<1>1. StorageInit => ValidInv
  <2> SUFFICES ASSUME StorageInit PROVE ValidInv
    OBVIOUS
  <2>1. /\ disk.validated = NoCheckpoint /\ mem.valid \subseteq {GenesisRoot} /\ job.pc = "next"
    BY DEF StorageInit, GenesisDisk, GenesisCheckpoint, Started, NoJob
  <2> QED
    BY <2>1 DEF ValidInv, ValidatedIsValid, TrustedUpTo, Checked
<1>2. ASSUME IndexInv, StoppedIsIdle, ValidInv, [StorageNext]_storageVars PROVE ValidInv'
  <2>1. CASE UNCHANGED storageVars
    BY <1>2, <2>1, ValidStays DEF storageVars
  <2>2. CASE StorageNext
    BY <1>2, <2>2, EngineKeepsValid, CheckpointsKeepValid, StartKeepsValid, OthersKeepValid,
       BatchKeepsValid, Zenon, ZenonT(20) DEF StorageNext
  <2> QED
    BY <1>2, <2>1, <2>2
<1>3. ValidInv => ValidatedIsValid
  BY DEF ValidInv
<1> QED
  BY <1>1, <1>2, <1>3, IndexInvHolds, PTL DEF StorageSpec
=============================================================================
