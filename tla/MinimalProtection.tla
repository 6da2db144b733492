-------------------------- MODULE MinimalProtection --------------------------
(***************************************************************************)
(* The minimal slashing protection (validator/db/filesystem): one file per *)
(* key with the last signed source, target and block slot.  Attester and   *)
(* proposer of a key run in goroutines of their own, under different       *)
(* locks.  Each reads the whole file, checks and later writes the whole    *)
(* file; the mutex of the key covers the read and the write separately.    *)
(***************************************************************************)
EXTENDS Slashings

CONSTANTS MinimalKeys,
          MinimalAttestations,  \* attestation data, with source, target and block
          MinimalProposals,     \* block proposals, with slot and block
          Overlap,       \* may attester and proposer of a key overlap?
          TornWrites     \* may a crash leave the file it writes empty?

ASSUME MinimalAssumption ==
  /\ MinimalAttestations \subseteq [source : Nat, target : Nat, block : STRING]
  /\ MinimalProposals \subseteq [slot : Nat, block : STRING]
  /\ Overlap \in BOOLEAN /\ TornWrites \in BOOLEAN

VARIABLES
  file,       \* ValidatorSlashingProtection of each key
  attesting,  \* attesting[k]: the check in progress of the attester of k
  proposing,  \* proposing[k]: the check in progress of the proposer of k
  attested,   \* attested[k]: attestations handed to the beacon node
  proposed    \* proposed[k]: blocks handed to the beacon node

minimalVars == <<file, attesting, proposing, attested, proposed>>

\* A nil pointer to an epoch or a slot: every value is above it.
Nil == -1

\* What a missing and an empty file are read as.
NoProtection == [slot |-> Nil, source |-> 0, target |-> Nil]

\* No check is in progress, or one that passed and has yet to save.
Idle == [busy |-> FALSE]
Busy(read, message) == [busy |-> TRUE, read |-> read, message |-> message]

MinimalInit ==
  /\ file = [k \in MinimalKeys |-> NoProtection]
  /\ attesting = [k \in MinimalKeys |-> Idle]
  /\ proposing = [k \in MinimalKeys |-> Idle]
  /\ attested = [k \in MinimalKeys |-> {}]
  /\ proposed = [k \in MinimalKeys |-> {}]

-----------------------------------------------------------------------------
(* SlashableAttestationCheck and SaveAttestationForPubKey. *)

\* Mutant of AttestationAllowed: a target equal to the recorded one passes.
AttestationAllowed_EqualTarget(F, a) == a.source >= F.source /\ a.target >= F.target

\* Mutant of AttestationAllowed: only the target is compared.
AttestationAllowed_AnySource(F, a) == a.target > F.target

AttestationAllowed(F, a) == a.source >= F.source /\ a.target > F.target

ReadForAttestation(k, a) ==
  /\ ~attesting[k].busy
  /\ proposing[k].busy => Overlap
  /\ AttestationAllowed(file[k], a)
  /\ attesting' = [attesting EXCEPT ![k] = Busy(file[k], a)]
  /\ UNCHANGED <<file, proposing, attested, proposed>>

\* Mutant of WithAttestation: the source is not recorded.
WithAttestation_NoSource(F, a) == [F EXCEPT !.target = a.target]

WithAttestation(F, a) == [slot |-> F.slot, source |-> a.source, target |-> a.target]

\* The file is written and the attestation submitted.
WriteAttestation(k) ==
  /\ attesting[k].busy
  /\ file' = [file EXCEPT ![k] = WithAttestation(attesting[k].read, attesting[k].message)]
  /\ attested' = [attested EXCEPT ![k] = @ \union {attesting[k].message}]
  /\ attesting' = [attesting EXCEPT ![k] = Idle]
  /\ UNCHANGED <<proposing, proposed>>

-----------------------------------------------------------------------------
(* SlashableProposalCheck and SaveProposalHistoryForSlot. *)

\* Mutant of ProposalAllowed: a slot equal to the recorded one passes.
ProposalAllowed_EqualSlot(F, b) == b.slot >= F.slot

ProposalAllowed(F, b) == b.slot > F.slot

ReadForProposal(k, b) ==
  /\ ~proposing[k].busy
  /\ attesting[k].busy => Overlap
  /\ ProposalAllowed(file[k], b)
  /\ proposing' = [proposing EXCEPT ![k] = Busy(file[k], b)]
  /\ UNCHANGED <<file, attesting, attested, proposed>>

WithProposal(F, b) == [F EXCEPT !.slot = b.slot]

WriteProposal(k) ==
  /\ proposing[k].busy
  /\ file' = [file EXCEPT ![k] = WithProposal(proposing[k].read, proposing[k].message)]
  /\ proposed' = [proposed EXCEPT ![k] = @ \union {proposing[k].message}]
  /\ proposing' = [proposing EXCEPT ![k] = Idle]
  /\ UNCHANGED <<attesting, attested>>

-----------------------------------------------------------------------------
MaxOf(a, b) == IF a >= b THEN a ELSE b

\* SaveAttestationsForPubKey: an imported history raises the recorded epochs.
ImportAttestation(k, a) ==
  /\ ~attesting[k].busy /\ ~proposing[k].busy
  /\ file' = [file EXCEPT ![k] = [slot |-> @.slot,
                                  source |-> MaxOf(@.source, a.source),
                                  target |-> MaxOf(@.target, a.target)]]
  /\ UNCHANGED <<attesting, proposing, attested, proposed>>

\* The process stops, or a write fails: the checks in progress end without
\* a signature.  A file being written then may be left empty.
MinimalCrash(torn) ==
  /\ torn # {} => TornWrites
  /\ \A k \in torn : attesting[k].busy \/ proposing[k].busy
  /\ file' = [k \in MinimalKeys |-> IF k \in torn THEN NoProtection ELSE file[k]]
  /\ attesting' = [k \in MinimalKeys |-> Idle]
  /\ proposing' = [k \in MinimalKeys |-> Idle]
  /\ UNCHANGED <<attested, proposed>>

MinimalNext ==
  \/ \E k \in MinimalKeys, a \in MinimalAttestations : ReadForAttestation(k, a) \/ ImportAttestation(k, a)
  \/ \E k \in MinimalKeys, b \in MinimalProposals : ReadForProposal(k, b)
  \/ \E k \in MinimalKeys : WriteAttestation(k) \/ WriteProposal(k)
  \/ \E torn \in SUBSET MinimalKeys : MinimalCrash(torn)

MinimalSpec == MinimalInit /\ [][MinimalNext]_minimalVars

-----------------------------------------------------------------------------
(* Properties. *)

ProtectionRecords == [slot : Nat \union {Nil}, source : Nat, target : Nat \union {Nil}]

\* The variables have the types of their declarations.
MinimalTypeOK ==
  /\ file \in [MinimalKeys -> ProtectionRecords]
  /\ attested \in [MinimalKeys -> SUBSET MinimalAttestations]
  /\ proposed \in [MinimalKeys -> SUBSET MinimalProposals]
  /\ attesting \in [MinimalKeys -> {Idle} \union {Busy(F, a) : F \in ProtectionRecords, a \in MinimalAttestations}]
  /\ proposing \in [MinimalKeys -> {Idle} \union {Busy(F, b) : F \in ProtectionRecords, b \in MinimalProposals}]

\* What a check that returned nil accepted stays recorded: "If so, it updates
\* the database with the incoming source and target, and returns nil."
SignedAreRecorded ==
  \A k \in MinimalKeys :
    /\ \A a \in attested[k] : a.source <= file[k].source /\ a.target <= file[k].target
    /\ \A b \in proposed[k] : b.slot <= file[k].slot

\* The checks of SlashableAttestationCheck implement slashing protection.
Attester == INSTANCE SigningHistory
  WITH PubKeys <- MinimalKeys, Messages <- MinimalAttestations, published <- attested, Slashable <- IsSlashableAttestationData
AttestationsProtected == Attester!Spec

\* The checks of SlashableProposalCheck implement slashing protection.
Proposer == INSTANCE SigningHistory
  WITH PubKeys <- MinimalKeys, Messages <- MinimalProposals, published <- proposed, Slashable <- IsDoubleProposal
ProposalsProtected == Proposer!Spec
=============================================================================
