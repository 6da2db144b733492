------------------------- MODULE AttesterProtection -------------------------
(***************************************************************************)
(* The complete slashing protection of attestations (validator/db/kv).     *)
(* SubmitAttestation holds a lock per key; it checks the attestation       *)
(* against the database, queues its record, subscribes to the feed of      *)
(* flushes and waits for a response.  One background routine collects the  *)
(* records and writes them in batches, then sends the result of the write  *)
(* to whoever is subscribed.  A crash loses everything but the database    *)
(* and what was already published.                                         *)
(*                                                                         *)
(* The four reads of the check are one step: only the flush writes to a    *)
(* key's history.  An attestation's target is the epoch of its slot.  The  *)
(* signing root, a hash of the attestation, is the attestation itself.     *)
(***************************************************************************)
EXTENDS Slashings, Sequences, FiniteSetsExt

CONSTANTS PubKeys,
          Attestations,   \* attestation data the beacon node may hand out
          MaxEpoch,       \* bound: last epoch of the clock
          BatchCapacity,  \* attestationBatchCapacity
          PruningEpochs,  \* SlashingProtectionPruningEpochs
          MaxFaults,      \* bound: failing flushes and crashes
          MaxAttempts,    \* bound: attestations a key attempts, by key
          None            \* no value

Epochs == 0 .. MaxEpoch
Record == [key : PubKeys, att : Attestations]

ASSUME AttesterAssumption ==
  /\ MaxEpoch \in Nat /\ BatchCapacity \in Nat \ {0} /\ PruningEpochs \in Nat
  /\ MaxFaults \in Nat /\ MaxAttempts \in [PubKeys -> Nat]
  /\ \A a \in Attestations : a.source \in Epochs /\ a.target \in Epochs
  /\ None \notin Epochs /\ None \notin Attestations

VARIABLES
  epoch,      \* epoch of the clock
  db,         \* the buckets of each key
  queue,      \* batchedAttestationsChan
  batch,      \* batchedAttestations
  flushing,   \* the records of the flush in progress
  flusher,    \* where batchAttestationWrites is, with the result to send
  pc, att,    \* where SubmitAttestation is for a key, and its attestation
  response,   \* responseChan of a subscriber
  published,  \* attestations handed to the beacon node, by key
  early,      \* those published while a record of the key was still on its way
  attempts, failures, crashes

signer == <<pc, att, response>>
attesterVars == <<epoch, db, queue, batch, flushing, flusher, pc, att, response,
          published, early, attempts, failures, crashes>>

EmptyHistory ==
  [roots |-> [e \in Epochs |-> None], bySource |-> {}, byTarget |-> {},
   lowestSource |-> None, lowestTarget |-> None]

AttesterInit ==
  /\ epoch = 1
  /\ db = [k \in PubKeys |-> EmptyHistory]
  /\ queue = <<>> /\ batch = <<>> /\ flushing = <<>> /\ flusher = "select"
  /\ pc = [k \in PubKeys |-> "idle"]
  /\ att = [k \in PubKeys |-> None]
  /\ response = [k \in PubKeys |-> None]
  /\ published = [k \in PubKeys |-> {}]
  /\ early = [k \in PubKeys |-> {}]
  /\ attempts = [k \in PubKeys |-> 0] /\ failures = 0 /\ crashes = 0

-----------------------------------------------------------------------------
(* The check. *)

Surrounding(H, a) ==
  \E p \in H.bySource : p[1] > a.source /\ IsSurround(a, [source |-> p[1], target |-> p[2]])

Surrounded(H, a) ==
  \E p \in H.byTarget : p[2] > a.target /\ IsSurround([source |-> p[1], target |-> p[2]], a)

DoubleVote(H, a) == H.roots[a.target] # None /\ H.roots[a.target] # a

\* Mutant of IsSafe: no check for double votes above the lowest target.
IsSafe_NoDoubleVote(H, a) ==
  /\ H.lowestSource # None => a.source >= H.lowestSource
  /\ H.roots[a.target] # a /\ H.lowestTarget # None => a.target > H.lowestTarget
  /\ ~Surrounding(H, a) /\ ~Surrounded(H, a)

\* Nothing of the history of the key forbids the attestation.
IsSafe(H, a) ==
  /\ H.lowestSource # None => a.source >= H.lowestSource
  /\ H.roots[a.target] # a /\ H.lowestTarget # None => a.target > H.lowestTarget
  /\ ~DoubleVote(H, a) /\ ~Surrounding(H, a) /\ ~Surrounded(H, a)

-----------------------------------------------------------------------------
(* The database. *)

\* The lowest signed epoch, after signing for some more epochs.
Lowest(low, signed) ==
  LET all == signed \union ({low} \ {None}) IN IF all = {} THEN None ELSE Min(all)

\* saveAttestationRecords: one transaction puts the records in order, so
\* that the last one for a target keeps its place in the signing roots.
SaveRecords(D, records) ==
  [k \in PubKeys |->
     LET of == {i \in DOMAIN records : records[i].key = k}
         for(e) == {i \in of : records[i].att.target = e}
         pairs == {<<records[i].att.source, records[i].att.target>> : i \in of}
     IN  [roots |-> [e \in Epochs |-> IF for(e) = {} THEN D[k].roots[e]
                                                    ELSE records[Max(for(e))].att],
          bySource |-> D[k].bySource \union pairs,
          byTarget |-> D[k].byTarget \union pairs,
          lowestSource |-> Lowest(D[k].lowestSource, {p[1] : p \in pairs}),
          lowestTarget |-> Lowest(D[k].lowestTarget, {p[2] : p \in pairs})]]

\* pruningEpochCutoff of the highest key of a bucket with these keys.
Cutoff(keys) == IF Max(keys) > PruningEpochs THEN Max(keys) - PruningEpochs ELSE 0

\* pruneBucket of each of the three buckets; the lowest epochs stay.
PruneHistory(H) ==
  IF H.bySource = {} THEN H ELSE
  LET signed == {e \in Epochs : H.roots[e] # None} IN
  [H EXCEPT
     !.bySource = {p \in @ : p[1] >= Cutoff({q[1] : q \in @})},
     !.byTarget = {p \in @ : p[2] >= Cutoff({q[2] : q \in @})},
     !.roots = [e \in Epochs |-> IF e \in signed /\ e < Cutoff(signed) THEN None ELSE @[e]]]

Saved(k, a) == db[k].roots[a.target] = a /\ <<a.source, a.target>> \in db[k].bySource

\* The records that a later transaction will write.
InFlight == Range(queue) \union Range(batch)
              \union (IF flusher = "save" THEN Range(flushing) ELSE {})
OnItsWay(k) == \E r \in InFlight : r.key = k

-----------------------------------------------------------------------------
(* SubmitAttestation, SlashableAttestationCheck and                        *)
(* SaveAttestationForPubKey for key k.                                     *)

CheckAttestation(k, a) ==
  /\ pc[k] = "idle" /\ attempts[k] < MaxAttempts[k]
  /\ a.target = epoch /\ a.source < epoch
  /\ IsSafe(db[k], a)
  /\ pc' = [pc EXCEPT ![k] = "checked"]
  /\ att' = [att EXCEPT ![k] = a]
  /\ attempts' = [attempts EXCEPT ![k] = @ + 1]
  /\ UNCHANGED <<epoch, db, queue, batch, flushing, flusher, response, published, early,
                 failures, crashes>>

Enqueue(k) ==
  /\ pc[k] = "checked" /\ Len(queue) < BatchCapacity
  /\ queue' = Append(queue, [key |-> k, att |-> att[k]])
  /\ pc' = [pc EXCEPT ![k] = "queued"]
  /\ UNCHANGED <<epoch, db, batch, flushing, flusher, att, response, published, early,
                 attempts, failures, crashes>>

Subscribe(k) ==
  /\ pc[k] = "queued"
  /\ pc' = [pc EXCEPT ![k] = "subscribed"]
  /\ UNCHANGED <<epoch, db, queue, batch, flushing, flusher, att, response, published, early,
                 attempts, failures, crashes>>

\* The response arrives: publish the attestation, or give it up.
Respond(k) ==
  /\ pc[k] = "subscribed" /\ response[k] # None
  /\ published' = [published EXCEPT ![k] = IF response[k] = "ok" THEN @ \union {att[k]} ELSE @]
  /\ early' = [early EXCEPT ![k] =
                 IF response[k] = "ok" /\ OnItsWay(k) THEN @ \union {att[k]} ELSE @]
  /\ pc' = [pc EXCEPT ![k] = "idle"]
  /\ att' = [att EXCEPT ![k] = None]
  /\ response' = [response EXCEPT ![k] = None]
  /\ UNCHANGED <<epoch, db, queue, batch, flushing, flusher, attempts, failures, crashes>>

-----------------------------------------------------------------------------
(* batchAttestationWrites and flushAttestationRecords. *)

StartFlush(records) ==
  /\ flushing' = records /\ batch' = <<>> /\ flusher' = "save"

Collect ==
  /\ flusher = "select" /\ queue # <<>>
  /\ queue' = Tail(queue)
  /\ LET records == Append(batch, Head(queue)) IN
       \/ Len(records) >= BatchCapacity /\ StartFlush(records)
       \/ /\ Len(records) < BatchCapacity
          /\ batch' = records
          /\ UNCHANGED <<flushing, flusher>>
  /\ UNCHANGED <<epoch, db, signer, published, early, attempts, failures, crashes>>

Tick ==
  /\ flusher = "select" /\ batch # <<>>
  /\ StartFlush(batch)
  /\ UNCHANGED <<epoch, db, queue, signer, published, early, attempts, failures, crashes>>

\* The transaction commits.
FlushSucceeds ==
  /\ flusher = "save"
  /\ db' = SaveRecords(db, flushing)
  /\ flusher' = "ok"
  /\ UNCHANGED <<epoch, queue, batch, flushing, signer, published, early, attempts, failures, crashes>>

\* Mutant of FlushFails: the records are not put back.
FlushFails_Drops ==
  /\ flusher = "save" /\ failures + crashes < MaxFaults
  /\ flusher' = "error"
  /\ failures' = failures + 1
  /\ UNCHANGED <<epoch, db, queue, batch, flushing, signer, published, early, attempts, crashes>>

\* The transaction is rolled back and its records are queued again.
FlushFails ==
  /\ flusher = "save" /\ failures + crashes < MaxFaults
  /\ batch' = batch \o flushing
  /\ flusher' = "error"
  /\ failures' = failures + 1
  /\ UNCHANGED <<epoch, db, queue, flushing, signer, published, early, attempts, crashes>>

\* The feed sends the result to everyone who is subscribed at this moment.
Notify ==
  /\ flusher \in {"ok", "error"}
  /\ response' = [k \in PubKeys |-> IF pc[k] = "subscribed" /\ response[k] = None
                                    THEN flusher ELSE response[k]]
  /\ flushing' = <<>> /\ flusher' = "select"
  /\ UNCHANGED <<epoch, db, queue, batch, pc, att, published, early, attempts, failures, crashes>>

-----------------------------------------------------------------------------
NextEpoch ==
  /\ epoch < MaxEpoch
  /\ epoch' = epoch + 1
  /\ UNCHANGED <<db, queue, batch, flushing, flusher, signer, published, early,
                 attempts, failures, crashes>>

\* The process stops and NewKVStore opens the database again, pruning it
\* when EnableSlashingProtectionPruning is set.
AttesterCrash(prune) ==
  /\ failures + crashes < MaxFaults
  /\ crashes' = crashes + 1
  /\ db' = IF prune THEN [k \in PubKeys |-> PruneHistory(db[k])] ELSE db
  /\ queue' = <<>> /\ batch' = <<>> /\ flushing' = <<>> /\ flusher' = "select"
  /\ pc' = [k \in PubKeys |-> "idle"]
  /\ att' = [k \in PubKeys |-> None]
  /\ response' = [k \in PubKeys |-> None]
  /\ UNCHANGED <<epoch, published, early, attempts, failures>>

SubmitAttestation(k) == (\E a \in Attestations : CheckAttestation(k, a)) \/ Enqueue(k) \/ Subscribe(k) \/ Respond(k)
BatchAttestationWrites == Collect \/ Tick \/ FlushSucceeds \/ FlushFails \/ Notify

AttesterNext ==
  \/ \E k \in PubKeys : SubmitAttestation(k)
  \/ BatchAttestationWrites
  \/ NextEpoch
  \/ \E prune \in BOOLEAN : AttesterCrash(prune)

AttesterSpec == AttesterInit /\ [][AttesterNext]_attesterVars

-----------------------------------------------------------------------------
(* Properties. *)

\* "Subscribe to be notified when the attestation record queued for saving
\* to the DB is indeed saved": what SubmitAttestation publishes is in the
\* database when it does.
PublishedWereSaved ==
  [][\A k \in PubKeys : \A a \in published'[k] \ published[k] : Saved(k, a)]_attesterVars

\* The checks of SlashableAttestationCheck are complete for what has been
\* written: conflicting attestations of a key are published only if one of
\* them was published while a record of the key was still waiting to be
\* written; also after failed flushes, crashes and pruning.
ConflictsStartEarly ==
  \A k \in PubKeys : \A a, b \in published[k] :
    IsSlashableAttestationData(a, b) => a \in early[k] \/ b \in early[k]

\* No record gets lost on its way through the channel, the batch and failing
\* flushes: while its signer waits it is in one of them, or saved, and not
\* overwritten by another record of the key.
RecordsAreNotLost ==
  \A k \in PubKeys : pc[k] \in {"queued", "subscribed"} =>
    Saved(k, att[k]) \/ [key |-> k, att |-> att[k]] \in InFlight

=============================================================================
