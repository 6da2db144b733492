---------------------------- MODULE MCBackground ----------------------------
(***************************************************************************)
(* Five parts that share no state: locks on several keys, backfill, the    *)
(* queue of initial sync, the justification of epochs, and the fork choice *)
(* tree when the finalized block is older than its epoch.  A behaviour     *)
(* picks one of them and leaves the others at rest, so that one run        *)
(* explores each completely.                                               *)
(***************************************************************************)
EXTENDS MCForkChoiceTree, MCMultilock, Backfill, BlocksQueue, Justification

VARIABLE part  \* what this behaviour is about

MCInit ==
  /\ part \in {"multilock", "backfill", "sync", "justification", "tree"}
  /\ Init /\ LockInit /\ BackfillInit /\ QueueInit /\ JustificationInit
  /\ part # "tree" => store.optimistic = {}
  /\ part # "sync" => onChain /\ mode = "nonConstrained" /\ bestFinalized = Min(FinalizedSlots)

Locking(step) ==
  part = "multilock" /\ step /\ UNCHANGED <<part, vars, backfillVars, queueVars, justificationVars>>
Backfilling(step) ==
  part = "backfill" /\ step /\ UNCHANGED <<part, vars, lockVars, queueVars, justificationVars>>
Syncing(step) ==
  part = "sync" /\ step /\ UNCHANGED <<part, vars, lockVars, backfillVars, justificationVars>>

MCNext ==
  \/ Locking(LockNext)
  \/ Backfilling(BackfillNext)
  \/ Syncing(QueueNext)
  \/ part = "justification" /\ JustificationNext /\ UNCHANGED <<part, vars, lockVars, backfillVars, queueVars>>
  \/ part = "tree" /\ Next /\ UNCHANGED <<part, lockVars, backfillVars, queueVars, justificationVars>>

MCVars == <<part, vars, lockVars, backfillVars, queueVars, justificationVars>>

\* The fairness of LockFairSpec, BackfillFairSpec and QueueFairSpec: as a
\* behaviour stays with its part, a disjunction is fair to each of its parts.
Going(thread, backfill, sync) ==
  Locking(ThreadStep(thread)) \/ Backfilling(backfill) \/ Syncing(sync)

MCFairSpec ==
  /\ MCInit /\ [][MCNext]_MCVars
  /\ WF_MCVars(Going("a", Router, LoopStep))
  /\ WF_MCVars(Going("b", \E b \in working : Worker(b), Consume))
  /\ WF_MCVars(Going("c", ServiceStep, SentTooLong(Young("sent"))))
  /\ SF_MCVars(Syncing(\E k \in DOMAIN requested : Answer(k)))

\* Every Lock that is called returns and every Unlock completes: AllRoundsEnd
\* of the behaviours that are about the locks.
LocksReturn == part = "multilock" => AllRoundsEnd

\* The blocks of the window are imported in the end: WindowIsFilled of the
\* behaviours that are about backfill.
BackfillFills == part = "backfill" => WindowIsFilled

\* Initial sync comes to an end: SyncEnds of the behaviours that are about it.
QueueEnds == part = "sync" => SyncEnds
=============================================================================
