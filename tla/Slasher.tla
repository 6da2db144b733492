------------------------------- MODULE Slasher -------------------------------
(***************************************************************************)
(* The attestation side of the slasher service (beacon-chain/slasher) and  *)
(* its database (beacon-chain/db/slasherkv).                               *)
(*                                                                         *)
(* Attestations are queued as they arrive.  Every slot the queue is taken, *)
(* those of a future epoch are put back, and the others are compared with  *)
(* what the database holds: double votes through the record of the         *)
(* validator and target, surround votes through two circular arrays of     *)
(* distances per validator, the min and the max spans.  The arrays are     *)
(* walked in chunks of ChunkSize epochs.                                   *)
(*                                                                         *)
(* An attestation is its data and the validators that signed it; the root  *)
(* of the data is the data itself.  The records are kept as the code keeps *)
(* them, in two buckets: dataRoots leads from a validator and a target to  *)
(* a root, attRecords from a root to the attestation saved last under it.  *)
(***************************************************************************)
EXTENDS Integers, Sequences, SequencesExt, FiniteSets

CONSTANTS
  Validators,          \* validator indices, natural numbers
  ValidatorChunkSize,  \* K, validators per chunk
  ChunkSize,           \* C, epochs per chunk
  HistoryLength,       \* H, epochs kept in the spans
  IndexedAttestations, \* what may arrive: [source, target, block, indices]
  NoRecord,            \* nothing stored under a key
  FirstEpoch,          \* the epoch in which an empty slasher starts
  LastEpoch,           \* bound: the clock stops here
  MaxReceived,         \* bound: attestations that arrive
  MaxSlasherFaults     \* bound: failing batches and crashes

ASSUME SlasherAssumption ==
  /\ Validators \subseteq Nat /\ ValidatorChunkSize \in Nat \ {0}
  /\ ChunkSize \in Nat \ {0} /\ HistoryLength \in Nat /\ HistoryLength % ChunkSize = 0
  /\ HistoryLength > 0 /\ FirstEpoch \in Nat
  /\ LastEpoch \in FirstEpoch .. 65535  \* a distance fits its 16 bits

VARIABLES
  attsQueue,    \* attestationsQueue.items
  clockEpoch,   \* the epoch of the slot tickers
  latest,       \* latestEpochUpdatedForValidator, in memory
  savedLatest,  \* the same as Stop wrote it to the database
  dataRoots,    \* validator and target -> root of the data, in the database
  attRecords,   \* root -> attestation, in the database
  minSpan,      \* validator -> cell -> distance, in the database
  maxSpan,
  reported,     \* pairs handed to the slashing pool
  checked,      \* batches that went through since the last fault, as sets
  received, slasherFaults

disk == <<dataRoots, attRecords, minSpan, maxSpan>>
slasherVars == <<attsQueue, clockEpoch, latest, savedLatest, disk, reported, checked,
                 received, slasherFaults>>

NoEpoch == -1
MaxUint16 == 65535
SlasherEpochs == 0 .. LastEpoch
Data(a) == [source |-> a.source, target |-> a.target, block |-> a.block]
DataOf == {Data(a) : a \in IndexedAttestations}

-----------------------------------------------------------------------------
(* Parameters: where an epoch lies in the circular, chunked arrays.         *)

ChunkIndex(e) == (e % HistoryLength) \div ChunkSize
CellIndex(e) == ChunkIndex(e) * ChunkSize + (e % ChunkSize)
ValidatorChunkIndex(v) == v \div ValidatorChunkSize
FirstEpochOf(chunk) == chunk * ChunkSize
LastEpochOf(chunk) == FirstEpochOf(chunk) + ChunkSize - 1

ChunkDataAtEpoch(span, e) == e + span[CellIndex(e)]

Cells == 0 .. HistoryLength - 1

\* setChunkDataAtEpoch, for each epoch of a set that lies within one chunk.
SetChunkData(span, epochs, target) ==
  [c \in Cells |-> IF \E e \in epochs : CellIndex(e) = c
                   THEN (target - CHOOSE e \in epochs : CellIndex(e) = c) % (MaxUint16 + 1)
                   ELSE span[c]]

-----------------------------------------------------------------------------
(* One span of one validator.  Update walks a chunk from its start epoch    *)
(* while the new target improves on what is there; it returns the span and  *)
(* whether the next chunk is to be walked, too.                             *)

MinUpdate(span, start, target, current) ==
  LET low == IF current > HistoryLength - 1 THEN current - (HistoryLength - 1) ELSE 0
      inside(e) == ChunkIndex(e) = ChunkIndex(start) /\ e >= low
      written == {e \in 0 .. start : \A f \in e .. start :
                     inside(f) /\ target < ChunkDataAtEpoch(span, f)}
      next == start - Cardinality(written)
  IN  [span |-> SetChunkData(span, written, target),
       keepGoing |-> next >= 0 /\ ~inside(next) /\ next >= low]

MaxUpdate(span, start, target, current) ==
  LET inside(e) == ChunkIndex(e) = ChunkIndex(start) /\ e <= current
      written == {e \in start .. current : \A f \in start .. e :
                     inside(f) /\ target > ChunkDataAtEpoch(span, f)}
      next == start + Cardinality(written)
  IN  [span |-> SetChunkData(span, written, target),
       keepGoing |-> ~inside(next) /\ next <= current]

\* Mutant: the walk goes on with the first epoch of the chunk below.
MinNextChunkStart_First(start) ==
  LET chunk == ChunkIndex(start) IN FirstEpochOf(IF chunk > 0 THEN chunk - 1 ELSE chunk)

MinNextChunkStart(start) ==
  LET chunk == ChunkIndex(start) IN LastEpochOf(IF chunk > 0 THEN chunk - 1 ELSE chunk)

MaxNextChunkStart(start) == FirstEpochOf(ChunkIndex(start) + 1)

MinStartEpoch(source, current) ==
  IF source = 0 \/ source <= (IF current > HistoryLength THEN current - HistoryLength ELSE 0)
  THEN NoEpoch ELSE source - 1

MaxStartEpoch(source, current) == IF source >= current THEN NoEpoch ELSE source + 1

RECURSIVE MinWalk(_, _, _, _)
MinWalk(span, start, target, current) ==
  LET r == MinUpdate(span, start, target, current)
  IN  IF r.keepGoing THEN MinWalk(r.span, MinNextChunkStart(start), target, current) ELSE r.span

RECURSIVE MaxWalk(_, _, _, _)
MaxWalk(span, start, target, current) ==
  LET r == MaxUpdate(span, start, target, current)
  IN  IF r.keepGoing THEN MaxWalk(r.span, MaxNextChunkStart(start), target, current) ELSE r.span

-----------------------------------------------------------------------------
(* The records *)

\* AttestationRecordForValidator
RecordForValidator(roots, records, v, target) ==
  IF target \in SlasherEpochs /\ roots[v][target] # NoRecord THEN records[roots[v][target]] ELSE NoRecord

\* SaveAttestationRecordsForValidators: written from last to first, so that the
\* first of the batch stays, over whatever was there.
SaveRoots(batch) ==
  [v \in Validators |-> [t \in SlasherEpochs |->
     LET i == SelectInSeq(batch, LAMBDA a : v \in a.indices /\ a.target = t)
     IN  IF i = 0 THEN dataRoots[v][t] ELSE Data(batch[i])]]

SaveAttestationRecords(batch) ==
  [d \in DataOf |-> LET i == SelectInSeq(batch, LAMBDA a : Data(a) = d)
                    IN  IF i = 0 THEN attRecords[d] ELSE batch[i]]

\* checkDoubleVotes: within the batch, and against the database.
DoubleVotes(batch) ==
  UNION {UNION {LET a == batch[i]
                    j == SelectInSeq(batch, LAMBDA b : v \in b.indices /\ b.target = a.target)
                    known == RecordForValidator(dataRoots, attRecords, v, a.target)
                IN  {{b, a} : b \in {c \in {batch[j], known} \ {NoRecord} : Data(c) # Data(a)}} :
                  v \in batch[i].indices} : i \in DOMAIN batch}

-----------------------------------------------------------------------------
(* applyAttestationForValidator, for each kind of span: a slashable         *)
(* attestation is reported and leaves the span alone, another one is walked *)
(* into it.  acc is [span, slashings].                                      *)

ApplyMin(acc, a, v, roots, records, current) ==
  LET minTarget == ChunkDataAtEpoch(acc.span, a.source)
      existing == RecordForValidator(roots, records, v, minTarget)
      start == MinStartEpoch(a.source, current)
  IN  IF a.target > minTarget /\ existing # NoRecord /\ existing.source > a.source
      THEN [acc EXCEPT !.slashings = @ \cup {{existing, a}}]
      ELSE IF start = NoEpoch THEN acc
      ELSE [acc EXCEPT !.span = MinWalk(@, start, a.target, current)]

\* Mutant: the record is not looked at again.
ApplyMax_TrustsSpan(acc, a, v, roots, records, current) ==
  LET maxTarget == ChunkDataAtEpoch(acc.span, a.source)
      existing == RecordForValidator(roots, records, v, maxTarget)
      start == MaxStartEpoch(a.source, current)
  IN  IF a.target < maxTarget /\ existing # NoRecord
      THEN [acc EXCEPT !.slashings = @ \cup {{existing, a}}]
      ELSE IF start = NoEpoch THEN acc
      ELSE [acc EXCEPT !.span = MaxWalk(@, start, a.target, current)]

ApplyMax(acc, a, v, roots, records, current) ==
  LET maxTarget == ChunkDataAtEpoch(acc.span, a.source)
      existing == RecordForValidator(roots, records, v, maxTarget)
      start == MaxStartEpoch(a.source, current)
  IN  IF a.target < maxTarget /\ existing # NoRecord /\ existing.source < a.source
      THEN [acc EXCEPT !.slashings = @ \cup {{existing, a}}]
      ELSE IF start = NoEpoch THEN acc
      ELSE [acc EXCEPT !.span = MaxWalk(@, start, a.target, current)]

\* firstEpochToUpdate .. current: the epochs whose cells get the neutral element.
EpochsToUpdate(v, current) ==
  LET after == latest[v] + 1  \* 0 when there is no latest epoch
      first == IF current - after >= HistoryLength THEN current + 1 - HistoryLength ELSE after
  IN  IF latest[v] = current \/ (latest[v] = NoEpoch /\ current = 0) THEN {}
      ELSE first .. current

\* updatedChunkByChunkIndex
Updated(span, v, current, neutral) ==
  LET cells == {CellIndex(e) : e \in EpochsToUpdate(v, current)}
  IN  [c \in Cells |-> IF c \in cells THEN neutral ELSE span[c]]

Neutral(neutral) == [v \in Validators |-> [c \in Cells |-> neutral]]

\* groupByChunkIndex: groups in any order, each in the order of the batch.
Orders(batch) ==
  {FlattenSeq([i \in DOMAIN s |-> SelectSeq(batch, LAMBDA a : ChunkIndex(a.source) = s[i])]) :
     s \in SetToSeqs({ChunkIndex(a.source) : a \in ToSet(batch)})}

ChunksOf(batch) == {ValidatorChunkIndex(v) : v \in UNION {a.indices : a \in ToSet(batch)}}

\* updateSpans: [span, slashings] of each validator after the batch.
MinSpans(order, roots, records, current) ==
  [v \in Validators |->
     FoldLeft(LAMBDA acc, a : IF v \in a.indices
                              THEN ApplyMin(acc, a, v, roots, records, current) ELSE acc,
              [span |-> IF ValidatorChunkIndex(v) \in ChunksOf(order)
                        THEN Updated(minSpan[v], v, current, MaxUint16) ELSE minSpan[v],
               slashings |-> {}], order)]

MaxSpans(order, roots, records, current) ==
  [v \in Validators |->
     FoldLeft(LAMBDA acc, a : IF v \in a.indices
                              THEN ApplyMax(acc, a, v, roots, records, current) ELSE acc,
              [span |-> IF ValidatorChunkIndex(v) \in ChunksOf(order)
                        THEN Updated(maxSpan[v], v, current, 0) ELSE maxSpan[v],
               slashings |-> {}], order)]

Spans(result) == [v \in Validators |-> result[v].span]
Slashings(result) == UNION {result[v].slashings : v \in Validators}

-----------------------------------------------------------------------------
(* receiveAttestations: what fails validateAttestationIntegrity is dropped. *)
ReceiveAttestation(a) ==
  /\ received < MaxReceived
  /\ a.source < a.target \/ (a.source = 0 /\ a.target = 0)
  /\ attsQueue' = Append(attsQueue, a)
  /\ received' = received + 1
  /\ UNCHANGED <<clockEpoch, latest, savedLatest, disk, reported, checked, slasherFaults>>

TooOld(a) == a.source + HistoryLength <= clockEpoch
Deferred == SelectSeq(attsQueue, LAMBDA a : ~TooOld(a) /\ a.target > clockEpoch)
Valid == SelectSeq(attsQueue, LAMBDA a : ~TooOld(a) /\ a.target <= clockEpoch)

Latest(chunks) ==
  [v \in Validators |-> IF ValidatorChunkIndex(v) \in chunks THEN clockEpoch ELSE latest[v]]

(* The steps of processAttestations that have a lasting effect, in order.   *)
(* An error at one of them ends the batch: what was written stays.          *)
Stages == <<"records", "spans", "min", "max", "report", "done">>
Reaches(stop, stage) == SelectInSeq(Stages, LAMBDA s : s = stop) > SelectInSeq(Stages, LAMBDA s : s = stage)

ProcessAttestations(stop) ==
  /\ attsQueue' = Deferred
  /\ LET roots == IF Reaches(stop, "records") THEN SaveRoots(Valid) ELSE dataRoots
         records == IF Reaches(stop, "records") THEN SaveAttestationRecords(Valid) ELSE attRecords
     IN  /\ dataRoots' = roots
         /\ attRecords' = records
         /\ \E minOrder, maxOrder \in Orders(Valid) :
              LET min == MinSpans(minOrder, roots, records, clockEpoch)
                  max == MaxSpans(maxOrder, roots, records, clockEpoch)
              IN  /\ minSpan' = IF Reaches(stop, "min") THEN Spans(min) ELSE minSpan
                  /\ maxSpan' = IF Reaches(stop, "max") THEN Spans(max) ELSE maxSpan
                  /\ reported' = IF stop = "done"
                                 THEN reported \cup DoubleVotes(Valid) \cup Slashings(min) \cup Slashings(max)
                                 ELSE reported
         \* a chunk that cannot be read ends the loop over the validator chunks
         /\ IF stop = "spans" THEN \E chunks \in SUBSET ChunksOf(Valid) : latest' = Latest(chunks)
            ELSE latest' = IF Reaches(stop, "spans") THEN Latest(ChunksOf(Valid)) ELSE latest
  /\ checked' = IF stop = "done" THEN checked \cup {ToSet(Valid)} ELSE {}
  /\ UNCHANGED <<clockEpoch, savedLatest, received>>

Process ==
  /\ attsQueue # << >>
  /\ ProcessAttestations("done")
  /\ UNCHANGED slasherFaults

ProcessFails ==
  /\ Valid # << >>
  /\ slasherFaults < MaxSlasherFaults
  /\ slasherFaults' = slasherFaults + 1
  /\ \E stop \in ToSet(Stages) \ {"done"} : ProcessAttestations(stop)

(* pruneSlasherDataWithinSlidingWindow: head is the epoch of the head,      *)
(* which may lag behind the clock.                                          *)
PruneAttestations(head) ==
  /\ head >= HistoryLength
  /\ dataRoots' = [v \in Validators |-> [t \in SlasherEpochs |->
                     IF t <= head - HistoryLength THEN NoRecord ELSE dataRoots[v][t]]]
  /\ attRecords' = [d \in DataOf |->
                     IF \E v \in Validators, t \in 0 .. head - HistoryLength : dataRoots[v][t] = d
                     THEN NoRecord ELSE attRecords[d]]
  /\ <<dataRoots, attRecords>>' # <<dataRoots, attRecords>>
  /\ UNCHANGED <<attsQueue, clockEpoch, latest, savedLatest, minSpan, maxSpan, reported,
                 checked, received, slasherFaults>>

(* Stop writes the latest epochs; the queue is lost. *)
StopAndStart ==
  /\ savedLatest' = latest
  /\ attsQueue' = << >>
  /\ savedLatest' # savedLatest
  /\ UNCHANGED <<clockEpoch, latest, disk, reported, checked, received, slasherFaults>>

(* A crash: the service comes back with the latest epochs of the last Stop. *)
SlasherCrash ==
  /\ slasherFaults < MaxSlasherFaults
  /\ slasherFaults' = slasherFaults + 1
  /\ attsQueue' = << >>
  /\ latest' = savedLatest
  /\ checked' = {}
  /\ UNCHANGED <<clockEpoch, savedLatest, disk, reported, received>>

SlasherTick ==
  /\ clockEpoch < LastEpoch
  /\ clockEpoch' = clockEpoch + 1
  /\ UNCHANGED <<attsQueue, latest, savedLatest, disk, reported, checked, received, slasherFaults>>

SlasherInit ==
  /\ attsQueue = << >>
  /\ clockEpoch = FirstEpoch
  /\ latest = [v \in Validators |-> NoEpoch]
  /\ savedLatest = latest
  /\ dataRoots = [v \in Validators |-> [t \in SlasherEpochs |-> NoRecord]]
  /\ attRecords = [d \in DataOf |-> NoRecord]
  /\ minSpan = Neutral(MaxUint16)
  /\ maxSpan = Neutral(0)
  /\ reported = {} /\ checked = {}
  /\ received = 0 /\ slasherFaults = 0

SlasherNext ==
  \/ \E a \in IndexedAttestations : ReceiveAttestation(a)
  \/ Process
  \/ ProcessFails
  \/ \E head \in 0 .. clockEpoch : PruneAttestations(head)
  \/ StopAndStart
  \/ SlasherCrash
  \/ SlasherTick

SlasherSpec == SlasherInit /\ [][SlasherNext]_slasherVars

-----------------------------------------------------------------------------
(* Properties *)

IsDouble(a, b) == a.target = b.target /\ Data(a) # Data(b)
Surrounds(a, b) == a.source < b.source /\ b.target < a.target
Offence(a, b) == IsDouble(a, b) \/ Surrounds(a, b) \/ Surrounds(b, a)

(* What CheckSlashable and checkDoubleVotes report is an offence, whatever *)
(* the spans hold: cells left over from an earlier round of the circular   *)
(* array, or from a batch that failed half-way, never become a slashing.   *)
ReportsAreOffences ==
  \A r \in reported : \E a, b \in r : Offence(a, b)

\* The two data of some report are data the validator signs.
Signs(v, data) == \E a \in IndexedAttestations : v \in a.indices /\ Data(a) = data
Caught(v) ==
  \E r \in reported : \E a, b \in r : Offence(a, b) /\ Signs(v, Data(a)) /\ Signs(v, Data(b))

\* Two attestations of the validator conflict and are recent enough.
Conflict(v, a, b) ==
  /\ v \in a.indices /\ v \in b.indices /\ Offence(a, b)
  /\ {a.source, b.source} \subseteq clockEpoch - HistoryLength + 1 .. clockEpoch

\* They came in two batches, or in one whose two passes over the groups of
\* chunks cannot take them in opposite orders.
Offends(v) ==
  \E A, B \in checked : \E a \in A, b \in B :
     /\ Conflict(v, a, b)
     /\ A # B \/ IsDouble(a, b) \/ ChunkIndex(a.source) = ChunkIndex(b.source)

(* In the first HistoryLength epochs, a validator two of whose             *)
(* attestations conflict is reported, if both came through since the last  *)
(* fault, whatever the order, the batches and the chunks they fall in      *)
(* (applyAttestationForValidator); SingleStepFound is about the one case   *)
(* left out.                                                               *)
OffendersAreCaught ==
  clockEpoch < HistoryLength => \A v \in Validators : Offends(v) => Caught(v)

(* The same at every epoch: CheckSlashable says that                       *)
(* "B surrounds A if and only if B.target > min_spans[B.source]".          *)
SpansDetectSurrounds ==
  \A v \in Validators : Offends(v) => Caught(v)

(* Conflicting attestations of one batch are reported, also when their     *)
(* sources lie in two chunks (updateSpans): Test_processAttestations       *)
(* "Detects surrounding vote ... - single step".                           *)
SingleStepFound ==
  clockEpoch < HistoryLength =>
    \A v \in Validators, A \in checked : (\E a, b \in A : Conflict(v, a, b)) => Caught(v)

(* A slashing proves that somebody signed both of its attestations.        *)
ReportsNameAnOffender ==
  \A r \in reported : \E a, b \in r : Offence(a, b) /\ a.indices \cap b.indices # {}
=============================================================================
