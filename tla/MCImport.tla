------------------------------ MODULE MCImport ------------------------------
(***************************************************************************)
(* Three parts of the way of a block into the node that share no state:    *)
(* the pending blocks queue, the fork choice tree, and what is stored.  A  *)
(* behaviour picks one of them and leaves the others at rest, so that one  *)
(* run explores each completely.                                           *)
(***************************************************************************)
EXTENDS MCForkChoiceTree, MCChainStorage, PendingBlocks

VARIABLE part  \* what this behaviour is about

(***************************************************************************)
(* Pending blocks: x and b build on the known g, y on x, which may be      *)
(* invalid; y and b compete for the only place of their slot.              *)
(***************************************************************************)
PRoots  == {"x", "b", "y"}
PParent == [x |-> "g", b |-> "g", y |-> "x"]
PSlot   == [x |-> 1, b |-> 2, y |-> 2]
PClock  == <<1, 4>>

MCInit ==
  /\ part \in {"pending", "tree", "storage"}
  /\ Init /\ StorageInit /\ PendingInit
  /\ part # "tree" => store.optimistic = {}

MCNext ==
  \/ part = "tree" /\ Next /\ UNCHANGED <<part, storageVars, pendingVars>>
  \/ part = "storage" /\ StorageNext /\ UNCHANGED <<part, vars, pendingVars>>
  \/ part = "pending" /\ PendingNext /\ UNCHANGED <<part, vars, storageVars>>

MCSpec == MCInit /\ [][MCNext]_<<part, vars, storageVars, pendingVars>>
=============================================================================
