------------------------------ MODULE Backfill ------------------------------
(***************************************************************************)
(* Backfill of blocks older than the checkpoint a node was started from    *)
(* (beacon-chain/sync/backfill).  The service keeps a sequence of batches, *)
(* from high to low slots; it hands those that need work to the worker     *)
(* pool, takes back the ones that were downloaded, in any order, imports   *)
(* the downloaded prefix of the sequence into the database and moves the   *)
(* backfill status down.  The retention window moves up meanwhile.         *)
(*                                                                         *)
(* The chain has a block in every slot.  Workers, peers and the importer   *)
(* fail a bounded number of times; a restart is one of the faults.         *)
(***************************************************************************)
EXTENDS Integers, FiniteSets, Sequences

CONSTANTS BackfillWorkers,    \* workers of the pool = length of the sequence
          BatchSize,          \* slots per batch
          OriginSlot,         \* slot of the checkpoint block
          OldestSlot,         \* first slot of the retention window at start
          LatestWindow,       \* bound: the window begins no later
          MaxBackfillFaults   \* bound: failures and restarts

ASSUME BackfillAssumption ==
  /\ BackfillWorkers \in Nat \ {0} /\ BatchSize \in Nat \ {0}
  /\ OldestSlot \in Nat \ {0} /\ LatestWindow \in Nat /\ OriginSlot \in Nat
  /\ OldestSlot <= LatestWindow /\ LatestWindow <= OriginSlot /\ MaxBackfillFaults \in Nat

VARIABLES
  window,   \* needs.Block.Begin: the first slot that is still needed
  low,      \* LowSlot of the backfill status in the database
  saved,    \* slots whose block is in the database
  indexed,  \* slots whose block is in the index of finalized blocks
  seq,      \* batchSequencer.seq
  todo,     \* batches with the router of the pool
  working,  \* batches with a worker
  ready,    \* fromRouter: downloaded batches
  ended,    \* len(endSeq): batches counted as end of the sequence
  service,  \* where the loop of the service is
  imports,  \* the batches importBatches has yet to import
  faults

pool == <<todo, working, ready, ended>>
backfillVars == <<window, low, saved, indexed, seq, todo, working, ready, ended, service, imports, faults>>

-----------------------------------------------------------------------------
(* Batches. *)

Slots(b) == b.begin .. b.end - 1

\* failed is the state in which a retryable error happened.
MakeBatch(begin, end, state) == [begin |-> begin, end |-> end, state |-> state, seq |-> 0, failed |-> "nil"]

WithState(b, state) == [b EXCEPT !.state = state, !.seq = @ + 1]

Expired(b, w) == b.end - 1 < w

Replaces(b, r) == r.state # "complete" /\ b.begin = r.begin /\ b.end = r.end /\ b.seq >= r.seq

\* The batch below slot upTo.
Before(upTo, w) ==
  IF upTo <= w THEN MakeBatch(upTo, upTo, "end")
  ELSE MakeBatch(IF upTo > BatchSize + w THEN upTo - BatchSize ELSE w, upTo, "init")

-----------------------------------------------------------------------------
(* batchSequencer. *)

NilBatches == [i \in 1 .. BackfillWorkers |-> MakeBatch(0, 0, "nil")]

Initialized(Q, i, max, w) ==
  IF Q[i].state # "nil" THEN Q[i]
  ELSE Before(IF i = 1 THEN max ELSE Q[i - 1].begin, w)

\* Mutant of Scheduled: a batch that failed to import is not tried again.
Scheduled_NoRetry(b, w) ==
  IF b.state # "init" THEN b ELSE WithState(b, IF Expired(b, w) THEN "end" ELSE "sequenced")

Scheduled(b, w) ==
  IF b.state \notin {"init", "errRetryable"} THEN b
  ELSE WithState(b, IF Expired(b, w) THEN "end" ELSE "sequenced")

\* Mutant of Emits: every batch at the end of the sequence is handed out.
Emits_EveryEnd(old, new, out) == (new.state = "sequenced" /\ old.state # "sequenced") \/ new.state = "end"

\* Mutant of Emits: a batch that was handed out before is handed out again.
Emits_Again(old, new, out) == new.state = "sequenced" \/ (new.state = "end" /\ out = <<>>)

\* Is the batch handed to the pool?  An end only when nothing else is.
Emits(old, new, out) ==
  \/ new.state = "sequenced" /\ old.state # "sequenced"
  \/ new.state = "end" /\ out = <<>>

\* sequence(): the new sequence and what to hand out.
Sequence(Q, max, w) ==
  LET upTo[i \in 0 .. BackfillWorkers] ==
        IF i = 0 THEN [seq |-> Q, out |-> <<>>]
        ELSE LET r == upTo[i - 1]
                 old == Initialized(r.seq, i, max, w)
                 new == Scheduled(old, w)
             IN  [seq |-> [r.seq EXCEPT ![i] = new],
                  out |-> IF Emits(old, new, r.out) THEN Append(r.out, new) ELSE r.out]
  IN  upTo[BackfillWorkers]

\* Refill the sequence below its last batch.
Refill(Q, w) ==
  LET upTo[i \in Len(Q) .. BackfillWorkers] ==
        IF i = Len(Q) THEN Q
        ELSE LET r == upTo[i - 1] IN Append(r, Before(r[i - 1].begin, w))
  IN  upTo[BackfillWorkers]

\* The batches that are not done, moved together.
Unfinished(Q, w) ==
  LET upTo[i \in 0 .. BackfillWorkers] ==
        IF i = 0 THEN <<>>
        ELSE IF Q[i].state = "complete" \/ Expired(Q[i], w) THEN upTo[i - 1]
        ELSE Append(upTo[i - 1], Q[i])
  IN  upTo[BackfillWorkers]

\* update(b).
Update(Q, b, w) ==
  LET replaced == [i \in 1 .. BackfillWorkers |-> IF Replaces(b, Q[i]) THEN b ELSE Q[i]]
      marked == [i \in 1 .. BackfillWorkers |->
                   IF replaced[i].state # "complete" /\ Expired(replaced[i], w)
                   THEN WithState(replaced[i], "end") ELSE replaced[i]]
      kept == Unfinished(marked, w)
  IN  IF kept = <<>> THEN [marked EXCEPT ![1] = Before(@.begin, w)] ELSE Refill(kept, w)

\* importable(): the longest prefix of downloaded batches.
Importable(Q) ==
  LET n == CHOOSE n \in 0 .. BackfillWorkers :
             /\ \A i \in 1 .. n : Q[i].state = "importable"
             /\ n < BackfillWorkers => Q[n + 1].state # "importable"
  IN  SubSeq(Q, 1, n)

-----------------------------------------------------------------------------
(* The pool. *)

IsEnd(b) == b.state = "end"
Ends(out) == Len(SelectSeq(out, IsEnd))
BatchesOf(out) == {out[i] : i \in DOMAIN out}
Downloads(out) == {b \in BatchesOf(out) : ~IsEnd(b)}

\* todo(b) for each batch that is handed out.
HandOut(out) ==
  /\ todo' = todo \union Downloads(out)
  /\ ended' = ended + Ends(out)

\* The router takes the highest batch first.
IsNext(b) == b \in todo /\ \A c \in todo : c.end <= b.end

ExpireTodo(b) ==
  /\ IsNext(b) /\ Expired(b, window)
  /\ todo' = todo \ {b} /\ ended' = ended + 1
  /\ UNCHANGED <<window, low, saved, indexed, seq, working, ready, service, imports, faults>>

\* The service and the router append to endSeq without a lock: one of two
\* simultaneous appends may be lost.
HandOutRacing(out, b) ==
  /\ IsNext(b) /\ Expired(b, window) /\ Ends(out) > 0
  /\ todo' = (todo \ {b}) \union Downloads(out)
  /\ ended' = ended + Ends(out)

\* resetToRetryColumns: a batch that failed goes on with the columns or the
\* blobs that are still needed, or starts again with its blocks.
Reset(b) ==
  IF b.state # "errRetryable" THEN {b}
  ELSE {[WithState(b, state) EXCEPT !.failed = "nil"] :
          state \in {"sequenced"} \union IF b.failed = "syncColumns" THEN {"syncColumns", "syncBlobs"} ELSE {}}

Assign(b) ==
  /\ IsNext(b) /\ ~Expired(b, window)
  /\ Cardinality(working) < BackfillWorkers
  /\ todo' = todo \ {b}
  /\ \E c \in Reset(b) : working' = working \union {c}
  /\ UNCHANGED <<window, low, saved, indexed, seq, ready, ended, service, imports, faults>>

\* What follows a download that succeeded (transitionToNext).
Following(state) ==
  CASE state = "sequenced" -> {"syncColumns", "syncBlobs", "importable"}
    [] state = "syncColumns" -> {"syncBlobs", "importable"}
    [] state = "syncBlobs" -> {"importable"}

WorkSucceeds(b, state) ==
  /\ b \in working /\ state \in Following(b.state)
  /\ working' = working \ {b}
  /\ IF state = "importable"
     THEN ready' = Append(ready, WithState(b, state)) /\ UNCHANGED todo
     ELSE todo' = todo \union {WithState(b, state)} /\ UNCHANGED ready
  /\ UNCHANGED <<window, low, saved, indexed, seq, ended, service, imports, faults>>

\* The request fails, or brings only some of the columns.
WorkFails(b) ==
  /\ b \in working /\ faults < MaxBackfillFaults
  /\ working' = working \ {b}
  /\ \/ todo' = todo \union {[WithState(b, "errRetryable") EXCEPT !.failed = b.state]}
     \/ b.state = "syncColumns" /\ todo' = todo \union {WithState(b, b.state)}
  /\ faults' = faults + 1
  /\ UNCHANGED <<window, low, saved, indexed, seq, ready, ended, service, imports>>

-----------------------------------------------------------------------------
(* The loop of the service. *)

\* complete() looks at the number of ended batches once, then waits.
Complete ==
  /\ service = "complete"
  /\ IF ended = BackfillWorkers
     THEN service' = "done" /\ todo' = {} /\ working' = {} /\ ready' = <<>>
     ELSE service' = "wait" /\ UNCHANGED <<todo, working, ready>>
  /\ UNCHANGED <<window, low, saved, indexed, seq, ended, imports, faults>>

UpdateComplete ==
  /\ service = "wait" /\ ready # <<>>
  /\ ready' = Tail(ready)
  /\ seq' = Update(seq, Head(ready), window)
  /\ imports' = Importable(seq')
  /\ service' = "import"
  /\ UNCHANGED <<window, low, saved, indexed, todo, working, ended, faults>>

\* importBatches: the checks of a batch, and the write of its blocks.
SaveBlocks ==
  /\ service = "import" /\ imports # <<>> /\ Head(imports).end = low
  /\ saved' = saved \union Slots(Head(imports))
  /\ service' = "index"
  /\ UNCHANGED <<window, low, indexed, seq, pool, imports, faults>>

\* The batch does not connect, or it fails to import.
BatchFails ==
  /\ service \in {"import", "index", "status"} /\ imports # <<>>
  /\ IF service = "import" /\ Head(imports).end # low THEN UNCHANGED faults
     ELSE faults < MaxBackfillFaults /\ faults' = faults + 1
  /\ seq' = Update(seq, WithState(Head(imports), "errRetryable"), window)
  /\ imports' = <<>>
  /\ service' = "schedule"
  /\ UNCHANGED <<window, low, saved, indexed, pool>>

\* Mutant of UpdateIndex: the status is written first.
UpdateIndex_StatusFirst ==
  /\ service = "index"
  /\ low' = Head(imports).begin
  /\ service' = "status"
  /\ UNCHANGED <<window, saved, indexed, seq, pool, imports, faults>>

UpdateIndex ==
  /\ service = "index"
  /\ indexed' = indexed \union Slots(Head(imports))
  /\ service' = "status"
  /\ UNCHANGED <<window, low, saved, seq, pool, imports, faults>>

SaveStatus ==
  /\ service = "status"
  /\ low' = Head(imports).begin
  /\ seq' = Update(seq, WithState(Head(imports), "complete"), window)
  /\ imports' = Tail(imports)
  /\ service' = "import"
  /\ UNCHANGED <<window, saved, indexed, pool, faults>>

ImportsDone ==
  /\ service = "import" /\ imports = <<>>
  /\ service' = "schedule"
  /\ UNCHANGED <<window, low, saved, indexed, seq, pool, imports, faults>>

ScheduleTodos ==
  /\ service = "schedule"
  /\ LET r == Sequence(seq, low, window)
     IN  seq' = r.seq /\ (HandOut(r.out) \/ \E b \in todo : HandOutRacing(r.out, b))
  /\ service' = "complete"
  /\ UNCHANGED <<window, low, saved, indexed, working, ready, imports, faults>>

WindowMoves ==
  /\ window < LatestWindow
  /\ window' = window + 1
  /\ UNCHANGED <<low, saved, indexed, seq, pool, service, imports, faults>>

\* Start, with what the database holds.
StartBackfill(l, w) ==
  /\ IF l < w
     THEN seq' = NilBatches /\ todo' = {} /\ ended' = 0 /\ service' = "done"
     ELSE LET r == Sequence(NilBatches, l, w)
          IN  seq' = r.seq /\ todo' = Downloads(r.out) /\ ended' = Ends(r.out) /\ service' = "complete"
  /\ working' = {} /\ ready' = <<>> /\ imports' = <<>>

BackfillRestart ==
  /\ faults < MaxBackfillFaults /\ faults' = faults + 1
  /\ StartBackfill(low, window)
  /\ UNCHANGED <<window, low, saved, indexed>>

BackfillInit ==
  /\ window = OldestSlot /\ low = OriginSlot
  /\ saved = {} /\ indexed = {} /\ faults = 0
  /\ LET r == Sequence(NilBatches, OriginSlot, OldestSlot)
     IN  seq = r.seq /\ todo = Downloads(r.out) /\ ended = Ends(r.out)
  /\ working = {} /\ ready = <<>> /\ imports = <<>>
  /\ service = "complete"

Router == \E b \in todo : ExpireTodo(b) \/ Assign(b)
Worker(b) == (\E state \in {"syncColumns", "syncBlobs", "importable"} : WorkSucceeds(b, state)) \/ WorkFails(b)
ServiceStep ==
  \/ Complete \/ UpdateComplete \/ SaveBlocks \/ BatchFails \/ UpdateIndex
  \/ SaveStatus \/ ImportsDone \/ ScheduleTodos

BackfillNext ==
  \/ Router \/ (\E b \in working : Worker(b)) \/ ServiceStep
  \/ WindowMoves \/ BackfillRestart

BackfillSpec == BackfillInit /\ [][BackfillNext]_backfillVars

\* The router retries every second, a worker's requests time out, the loop
\* of the service never stops by itself.
BackfillFairness ==
  /\ WF_backfillVars(Router)
  /\ WF_backfillVars(\E b \in working : Worker(b))
  /\ WF_backfillVars(ServiceStep)

BackfillFairSpec == BackfillSpec /\ BackfillFairness

-----------------------------------------------------------------------------
(* Properties. *)

\* Two batches that are being worked on never overlap, and there are never
\* more of them than workers: handing one over cannot block the router.
PoolFits ==
  LET out == todo \union working \union BatchesOf(ready) IN
  /\ Cardinality(todo) + Cardinality(working) + Len(ready) <= BackfillWorkers
  /\ \A b, c \in out : b # c => Slots(b) \intersect Slots(c) = {}

\* Every block from the backfill status up is in the database and in the
\* index, wherever an import fails or the node stops.
StatusIsBacked == low .. OriginSlot - 1 \subseteq saved \intersect indexed

\* Backfill is declared complete only when nothing of the window is missing.
CompleteMeansFilled == service = "done" => low <= window

\* The blocks of the window are imported in the end.
WindowIsFilled == <>(low <= window)

\* batcher.go: "When all batches are in batchEndSequence, worker pool spins
\* down and marks backfill complete."
EndedCompletes == (\A i \in 1 .. BackfillWorkers : seq[i].state = "end") ~> service = "done"
=============================================================================
