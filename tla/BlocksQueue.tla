----------------------------- MODULE BlocksQueue -----------------------------
(***************************************************************************)
(* Initial sync (beacon-chain/sync/initial-sync): the queue of state       *)
(* machines that fetches the blocks of consecutive ranges of slots, the    *)
(* fetcher behind it, and the consumer that imports what the queue sends.  *)
(*                                                                         *)
(* The queue's goroutine handles one event at a time; a tick visits every  *)
(* machine, and the consumer may move the head between two visits.  The    *)
(* peers serve one chain, of which a block is known by its slot.  Our head *)
(* may be a block of another chain.  Slot 0 is the genesis block.          *)
(***************************************************************************)
EXTENDS Integers, Sequences, SequencesExt, FiniteSets, FiniteSetsExt, Bags

CONSTANTS
  ChainSlots,          \* slots of the peers' chain that have a block
  KnownSlots,          \* those of them that we have when sync starts
  OrphanSlot,          \* slot of our head when it is not on their chain
  FinalizedSlots,      \* what the peers' best finalized slot may be
  HeadEpochSlots,      \* and the first slot of the epoch of their head
  ClockSlot,           \* the slot of the clock
  BlocksPerRequest, LookaheadSteps, StartBackSlots, MaxResetAttempts,
  SyncSlotsPerEpoch, FullSearchSlots,
  MaxNoPeersRetries,   \* noRequiredPeersErrMaxRetries
  MaxSyncFaults        \* bound: bad answers, failing imports, changes of peers and
                       \* ticks that find machines skipped for too long

ASSUME BlocksQueueAssumption ==
  /\ KnownSlots \subseteq ChainSlots /\ ChainSlots \subseteq Nat \ {0}
  /\ BlocksPerRequest \in Nat \ {0} /\ LookaheadSteps \in Nat \ {0, 1}

VARIABLES
  mode,         \* "finalized" or "nonConstrained"
  machines,     \* start slot -> [state, fetched, old], old: in it for too long
  toVisit,      \* keys the tick has yet to visit
  requested,    \* bag of start slots the fetcher is working on
  fetchedData,  \* what was sent and not yet imported
  highest,      \* highestExpectedSlot
  staleEpochs, noPeersRetries,
  queue,        \* "running", "reached" or "gaveUp"
  imported,     \* blocks of the peers' chain that we have
  onChain,      \* is our head one of them
  bestFinalized, bestNonFinalized,
  syncFaults, slowAnswers

fsmVars == <<machines, toVisit, requested, highest, staleEpochs, noPeersRetries, queue>>
consumerVars == <<imported, onChain>>
peerVars == <<bestFinalized, bestNonFinalized>>
queueVars == <<mode, fsmVars, fetchedData, consumerVars, peerVars, syncFaults, slowAnswers>>

HeadSlot == IF onChain THEN Max(imported) ELSE OrphanSlot
Best == IF mode = "finalized" THEN bestFinalized ELSE bestNonFinalized
EpochOfSlot(s) == s \div SyncSlotsPerEpoch

\* The block before s on the peers' chain is known.
HasParent(s) == Max({t \in ChainSlots \cup {0} : t < s}) \in imported

-----------------------------------------------------------------------------
(* The machines *)

Machine(state) == [state |-> state, fetched |-> {}, old |-> FALSE]

\* setState; what was fetched matters until it is sent only.
Set(ms, k, state) == [ms EXCEPT ![k] = Machine(state)]

Add(ms, k, m) == [j \in DOMAIN ms \cup {k} |-> IF j = k THEN m ELSE ms[j]]
Without(ms, k) == [j \in DOMAIN ms \ {k} |-> ms[j]]

IsLast(ms, k) == \A j \in DOMAIN ms : j <= k

Starts(from, n) == {from + i * BlocksPerRequest : i \in 0 .. n - 1}
InState(starts, state) == [k \in starts |-> Machine(state)]

\* Garbage collection at the end of a visit; the machine may be gone already.
Collect(ms, k) ==
  LET rest == Without(ms, k)
  IN  IF HeadSlot < k + BlocksPerRequest - 1 THEN ms
      ELSE IF Cardinality(DOMAIN rest) < LookaheadSteps
      THEN Add(rest, Max(DOMAIN ms) + BlocksPerRequest, Machine("new")) ELSE rest

-----------------------------------------------------------------------------
(* The main loop *)

Looping == queue = "running" /\ toVisit = << >>

\* waitHighestExpectedSlot, when the head is there and the peers have more.
RaiseHighest ==
  /\ Looping /\ HeadSlot >= highest /\ highest < Best
  /\ highest' = Best
  /\ UNCHANGED <<mode, machines, toVisit, requested, staleEpochs, noPeersRetries,
                 queue, fetchedData, consumerVars, peerVars, syncFaults, slowAnswers>>

\* And when they have no more: the queue ends.
Finish ==
  /\ Looping /\ HeadSlot >= highest /\ highest >= Best
  /\ queue' = "reached"
  /\ UNCHANGED <<mode, machines, toVisit, requested, highest, staleEpochs,
                 noPeersRetries, fetchedData, consumerVars, peerVars, syncFaults, slowAnswers>>

\* A tick begins.
Tick ==
  /\ Looping /\ HeadSlot < highest
  /\ toVisit' = SetToSortSeq(DOMAIN machines, <)
  /\ UNCHANGED <<mode, machines, requested, highest, staleEpochs, noPeersRetries, queue,
                 fetchedData, consumerVars, peerVars, syncFaults, slowAnswers>>

Young(state) == {k \in DOMAIN machines : machines[k].state = state /\ ~machines[k].old}

\* staleEpochTimeout passes for machines that were sent, or
\* skippedMachineTimeout for machines that are skipped.
Age(ks) ==
  /\ queue = "running" /\ ks # {}
  /\ machines' = [k \in DOMAIN machines |->
                    IF k \in ks THEN [machines[k] EXCEPT !.old = TRUE] ELSE machines[k]]
  /\ UNCHANGED <<mode, toVisit, requested, highest, staleEpochs, noPeersRetries, queue,
                 fetchedData, consumerVars, peerVars, syncFaults>>

SentTooLong(ks) == Age(ks) /\ UNCHANGED slowAnswers

\* It makes no difference to the last machine.
SkippedTooLong(k) ==
  /\ ~IsLast(machines, k)
  /\ syncFaults + slowAnswers < MaxSyncFaults
  /\ slowAnswers' = slowAnswers + 1
  /\ Age({k})

\* The visit ends with the garbage collection.
Visit(k, ms) ==
  /\ toVisit' = Tail(toVisit)
  /\ machines' = Collect(ms, k)
  /\ UNCHANGED <<mode, noPeersRetries, queue, consumerVars, peerVars, slowAnswers>>

OnSchedule(k) ==
  /\ machines[k].state = "new"
  /\ IF k > highest
     THEN Visit(k, Set(machines, k, "skipped")) /\ UNCHANGED requested
     ELSE Visit(k, Set(machines, k, "scheduled")) /\ requested' = requested (+) SetToBag({k})
  /\ UNCHANGED <<fetchedData, highest, staleEpochs, syncFaults>>

OnNothing(k) ==
  /\ machines[k].state = "scheduled"
  /\ Visit(k, machines)
  /\ UNCHANGED <<requested, fetchedData, highest, staleEpochs, syncFaults>>

\* Mutant: a range does not wait for an earlier one that is being fetched.
MaySend_Fetched(k) ==
  \A j \in DOMAIN machines : j < k => machines[j].state # "dataParsed"

\* What comes before has been sent or skipped.
MaySend(k) ==
  \A j \in DOMAIN machines : j < k => machines[j].state \in {"sent", "skipped"}

\* The channel holds one item beside the one the consumer is busy with.
OnReadyToSend(k) ==
  /\ machines[k].state = "dataParsed"
  /\ IF machines[k].fetched = {} THEN Visit(k, Set(machines, k, "skipped")) /\ UNCHANGED fetchedData
     ELSE IF ~MaySend(k) THEN Visit(k, machines) /\ UNCHANGED fetchedData
     ELSE /\ Len(fetchedData) < 2
          /\ fetchedData' = Append(fetchedData, machines[k].fetched)
          /\ Visit(k, Set(machines, k, "sent"))
  /\ UNCHANGED <<requested, highest, staleEpochs, syncFaults>>

OnCheckStale(k) ==
  /\ machines[k].state = "sent"
  /\ Visit(k, IF machines[k].old THEN Set(machines, k, "skipped") ELSE machines)
  /\ UNCHANGED <<requested, fetchedData, highest, staleEpochs, syncFaults>>

AllSkipped == \A j \in DOMAIN machines : machines[j].state = "skipped"

OnStaySkipped(k) ==
  /\ machines[k].state = "skipped"
  /\ ~(IsLast(machines, k) /\ AllSkipped)
  /\ Visit(k, IF ~IsLast(machines, k) /\ machines[k].old
              THEN Set(machines, k, "new") ELSE machines)
  /\ UNCHANGED <<requested, fetchedData, highest, staleEpochs, syncFaults>>

\* Everything is skipped and the peers have nothing for us: no collection.
OnNoRequiredPeers(k) ==
  /\ machines[k].state = "skipped" /\ IsLast(machines, k) /\ AllSkipped
  /\ Best <= HeadSlot
  /\ IF mode = "finalized" \/ noPeersRetries > MaxNoPeersRetries
     THEN queue' = "gaveUp" /\ UNCHANGED noPeersRetries
     ELSE noPeersRetries' = noPeersRetries + 1 /\ UNCHANGED queue
  /\ toVisit' = Tail(toVisit)
  /\ UNCHANGED <<mode, machines, requested, highest, staleEpochs, fetchedData, consumerVars,
                 peerVars, syncFaults, slowAnswers>>

-----------------------------------------------------------------------------
(* Resets, when everything is skipped and the peers have more *)

\* nonSkippedSlotAfter(slot): nearby slots, and then those up to the peers' best.
NonSkippedSlotsAfter(slot) ==
  {s \in ChainSlots : slot < s /\ (s <= slot + FullSearchSlots \/ s <= Best + SyncSlotsPerEpoch)}

LastStart(start, found, high) ==
  IF found > high THEN start + BlocksPerRequest * (LookaheadSteps - 1) ELSE found

\* resetFromSlot: the last machine jumps to the next block, which a bad answer
\* (bad) may misplace or withhold.
ResetFromSlot(k, start, bad) ==
  LET next == start + BlocksPerRequest * (LookaheadSteps - 1)
      others == InState(Starts(start, LookaheadSteps - 1), "new")
      found == NonSkippedSlotsAfter(next - 1)
      high == Max({highest, Best})
  IN  \/ /\ bad \/ found = {}
         /\ UNCHANGED highest
         /\ Visit(k, others)
      \/ \E slot \in IF bad \/ found = {} THEN found ELSE {Min(found)} :
           /\ highest' = high
           /\ Visit(k, Add(others, LastStart(start, slot, high), Machine("new")))

\* resetFromFork: blocks of the peers' chain from the first that is missing.
ResetFromFork(k, fork) ==
  LET first == Min(fork)
      rest == InState(Starts(first + Cardinality(fork), LookaheadSteps - 1), "skipped")
      m == [Machine("dataParsed") EXCEPT !.fetched = fork]
  IN  Visit(k, Add(rest, first, m)) /\ UNCHANGED highest

\* findFork: a peer's blocks from the first that we miss, on the way back from
\* the first block it has around start or among those that follow; {} if the
\* peers' blocks all follow what we have.
FindFork(start) ==
  LET epoch == EpochOfSlot(start)
      first == Min({s \in ChainSlots : s > (epoch - 1) * SyncSlotsPerEpoch})
      got == {s \in ChainSlots : first <= s /\ s < first + 2 * SyncSlotsPerEpoch}
      missing == ChainSlots \ imported
  IN  IF start < 2 * SyncSlotsPerEpoch \/ Max(ChainSlots) <= (epoch + 1) * SyncSlotsPerEpoch
         \/ \A s \in got : HasParent(s)
      THEN {}
      ELSE IF HasParent(first) THEN got \cap missing ELSE {s \in missing : s <= first}

Fault(bad) ==
  /\ bad => syncFaults + slowAnswers < MaxSyncFaults
  /\ syncFaults' = syncFaults + IF bad THEN 1 ELSE 0

OnAllSkipped(k) ==
  /\ machines[k].state = "skipped" /\ IsLast(machines, k) /\ AllSkipped
  /\ Best > HeadSlot
  /\ UNCHANGED <<requested, fetchedData>>
  /\ LET start == HeadSlot + 1
         e == EpochOfSlot(start)
         counts == mode = "nonConstrained" /\ start > bestFinalized
         explores == counts /\ staleEpochs[e] + 1 >= MaxResetAttempts
     IN  /\ staleEpochs' = IF ~counts THEN staleEpochs
                           ELSE [staleEpochs EXCEPT ![e] = IF explores THEN 0 ELSE @ + 1]
         /\ \E bad \in BOOLEAN :
              /\ Fault(bad)
              /\ IF explores /\ ~bad /\ FindFork(start) # {}
                 THEN ResetFromFork(k, FindFork(start))
                 ELSE ResetFromSlot(k, start, bad)

VisitMachine ==
  /\ queue = "running" /\ toVisit # << >>
  /\ LET k == Head(toVisit)
     IN  \/ OnSchedule(k) \/ OnNothing(k) \/ OnReadyToSend(k) \/ OnCheckStale(k)
         \/ OnStaySkipped(k) \/ OnNoRequiredPeers(k) \/ OnAllSkipped(k)

-----------------------------------------------------------------------------
(* The fetcher's answers, the consumer and the peers *)

SlotsOf(k) == {s \in ChainSlots : k <= s /\ s < k + BlocksPerRequest}

\* An answer reaches its machine if there is one that waits for it; an error
\* sends it back to the start.
TakeAnswer(k, ms) ==
  /\ Looping /\ HeadSlot < highest /\ BagIn(k, requested)
  /\ requested' = requested (-) SetToBag({k})
  /\ machines' = IF k \in DOMAIN machines /\ machines[k].state = "scheduled" THEN ms ELSE machines
  /\ UNCHANGED <<mode, toVisit, highest, staleEpochs, noPeersRetries, queue,
                 fetchedData, consumerVars, peerVars, slowAnswers>>

TooHigh(k) == mode = "finalized" /\ k > bestFinalized + SyncSlotsPerEpoch

\* The peer may have less than the whole range.
OnDataReceived(k) ==
  /\ ~TooHigh(k)
  /\ \E bad \in BOOLEAN : \E upTo \in IF bad THEN k - 1 .. k + BlocksPerRequest - 2 ELSE {k + BlocksPerRequest - 1} :
       /\ Fault(bad)
       /\ TakeAnswer(k, [Set(machines, k, "dataParsed") EXCEPT ![k].fetched = {s \in SlotsOf(k) : s <= upTo}])

\* Mutant: the machine keeps waiting for the answer that failed.
OnErrorReceived_Waits(k) ==
  /\ Fault(~TooHigh(k))
  /\ TakeAnswer(k, [j \in DOMAIN machines |->
                    IF TooHigh(k) /\ j < k /\ machines[j].state = "skipped"
                    THEN Machine("new") ELSE machines[j]])

OnErrorReceived(k) ==
  /\ Fault(~TooHigh(k))
  /\ TakeAnswer(k, [j \in DOMAIN machines |->
                    IF j = k \/ (TooHigh(k) /\ j < k /\ machines[j].state = "skipped")
                    THEN Machine("new") ELSE machines[j]])

\* validUnprocessed, and processBatchedBlocks or processFetchedDataRegSync;
\* a bad import stops before the block upTo.
Unprocessed(item) ==
  LET processed == {s \in item : s <= HeadSlot /\ s \in imported}
  IN  {s \in item : \A p \in processed : s > p}

Import(item, bad) ==
  LET new == Unprocessed(item)
      kept(upTo) == {s \in new : s < upTo}
      ok == new # {} /\ HasParent(Min(new))
  IN  \E upTo \in IF ~ok THEN {0}
                  ELSE IF bad THEN new ELSE {Max(new) + 1} :
        /\ imported' = imported \cup kept(upTo)
        /\ onChain' \in IF onChain \/ Max(imported') > OrphanSlot THEN {TRUE}
                        ELSE IF imported' = imported THEN {FALSE} ELSE BOOLEAN

Consume ==
  /\ fetchedData # << >>
  /\ fetchedData' = Tail(fetchedData)
  /\ \E bad \in BOOLEAN : Fault(bad) /\ Import(Head(fetchedData), bad)
  /\ UNCHANGED <<mode, fsmVars, peerVars, slowAnswers>>

PeersChange ==
  /\ Fault(TRUE)
  /\ bestFinalized' \in {s \in FinalizedSlots : onChain \/ s <= OrphanSlot}
  /\ bestNonFinalized' \in HeadEpochSlots
  /\ peerVars' # peerVars
  /\ UNCHANGED <<mode, fsmVars, fetchedData, consumerVars, slowAnswers>>

QueueInit ==
  /\ mode \in {"finalized", "nonConstrained"}
  /\ imported = KnownSlots \cup {0}
  /\ bestFinalized \in FinalizedSlots /\ bestNonFinalized \in HeadEpochSlots
  /\ onChain \in {TRUE, mode = "finalized" \/ bestFinalized > OrphanSlot}
  /\ highest \in IF mode = "finalized" THEN {s \in FinalizedSlots : s >= bestFinalized}
                  ELSE {ClockSlot}
  /\ HeadSlot < highest
  /\ LET start == IF HeadSlot > StartBackSlots THEN HeadSlot - StartBackSlots ELSE HeadSlot
     IN  machines = InState(Starts(start, LookaheadSteps), "new")
  /\ toVisit = << >> /\ requested = EmptyBag /\ fetchedData = << >>
  /\ staleEpochs = [e \in 0 .. EpochOfSlot(Max(ChainSlots) + 1) |-> 0]
  /\ noPeersRetries = 0 /\ queue = "running"
  /\ syncFaults = 0 /\ slowAnswers = 0

LoopStep == RaiseHighest \/ Finish \/ Tick \/ VisitMachine
Answer(k) == OnDataReceived(k) \/ OnErrorReceived(k)

QueueNext ==
  \/ LoopStep
  \/ \E ks \in SUBSET Young("sent") : SentTooLong(ks)
  \/ \E k \in Young("skipped") : SkippedTooLong(k)
  \/ \E k \in DOMAIN requested : Answer(k)
  \/ Consume
  \/ PeersChange

QueueSpec == QueueInit /\ [][QueueNext]_queueVars

(* The goroutines of the queue, the fetcher and the consumer go on, and     *)
(* time passes.                                                             *)
QueueFairSpec ==
  /\ QueueSpec
  /\ WF_queueVars(LoopStep)
  /\ SF_queueVars(\E k \in DOMAIN requested : Answer(k))
  /\ WF_queueVars(Consume)
  /\ WF_queueVars(SentTooLong(Young("sent")))

-----------------------------------------------------------------------------
(* Properties *)

(* Sync comes to an end, whatever the peers withheld on the way and however *)
(* late they were: it never waits for a range that nobody asks for.  Only   *)
(* peers whose finality stays below what sync aims at can keep it waiting.  *)
SyncEnds == <>(queue # "running") \/ <>[](mode = "finalized" /\ bestFinalized < highest)

(* The consumer "can rely on order of incoming blocks": as long as peers   *)
(* answer in full and imports succeed, what it takes next follows a block  *)
(* that it has.                                                            *)
SentInOrder ==
  mode = "finalized" /\ syncFaults = 0 /\ fetchedData # << >> =>
    LET new == Unprocessed(Head(fetchedData)) IN new # {} => HasParent(Min(new))
=============================================================================
