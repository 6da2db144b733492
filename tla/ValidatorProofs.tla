-------------------------- MODULE ValidatorProofs ---------------------------
(***************************************************************************)
(* Proofs about two parts of the validator client: the minimal slashing    *)
(* protection database, for any keys, proposals and attestations, and the  *)
(* locks that keep the duties of a key apart, for any threads and keys.    *)
(***************************************************************************)
EXTENDS MinimalProtection, Multilock, TLAPS

\* Most leaves are first-order; the solver takes the others.
USE ZenonT(10), SMTT(20), ZenonT(30), SMTT(40)

-----------------------------------------------------------------------------
(***************************************************************************)
(* When attester and proposer of a key do not overlap and writes are not   *)
(* torn, the minimal database implements slashing protection, for any      *)
(* keys, attestations and proposals.  The argument: what a check in        *)
(* progress has read is still what the file holds, so the file always      *)
(* bounds what was signed, and what passes the check is beyond the bounds. *)
(***************************************************************************)

\* The file of a key is only written by the one check in progress on it.
ReadIsCurrent ==
  \A k \in MinimalKeys :
    /\ ~(attesting[k].busy /\ proposing[k].busy)
    /\ attesting[k].busy => /\ attesting[k].read = file[k]
                            /\ AttestationAllowed(file[k], attesting[k].message)
    /\ proposing[k].busy => /\ proposing[k].read = file[k]
                            /\ ProposalAllowed(file[k], proposing[k].message)

MinimalInv == MinimalTypeOK /\ SignedAreRecorded /\ ReadIsCurrent

\* A check in progress holds a protection it read and a message.
LEMMA BusyType ==
  ASSUME MinimalTypeOK, NEW k \in MinimalKeys
  PROVE  /\ file[k] \in ProtectionRecords
         /\ attesting[k].busy \in BOOLEAN /\ proposing[k].busy \in BOOLEAN
         /\ attesting[k].busy => /\ attesting[k].read \in ProtectionRecords
                                 /\ attesting[k].message \in MinimalAttestations
         /\ proposing[k].busy => /\ proposing[k].read \in ProtectionRecords
                                 /\ proposing[k].message \in MinimalProposals
<1>1. file[k] \in ProtectionRecords
  BY SMT, SMTT(20) DEF MinimalTypeOK
<1>2. /\ attesting[k].busy \in BOOLEAN
      /\ attesting[k].busy => /\ attesting[k].read \in ProtectionRecords
                              /\ attesting[k].message \in MinimalAttestations
  <2>1. attesting[k] \in {Idle} \union {Busy(F, a) : F \in ProtectionRecords, a \in MinimalAttestations}
    BY SMT, SMTT(20) DEF MinimalTypeOK
  <2>2. CASE attesting[k] = Idle
    BY <2>2, SMT, SMTT(20) DEF Idle
  <2>3. CASE attesting[k] \in {Busy(F, a) : F \in ProtectionRecords, a \in MinimalAttestations}
    <3>1. PICK F \in ProtectionRecords, a \in MinimalAttestations : attesting[k] = Busy(F, a)
      BY <2>3, SMT, SMTT(20)
    <3> QED BY <3>1, SMT, SMTT(20) DEF Busy
  <2> QED BY <2>1, <2>2, <2>3, SMT, SMTT(20)
<1>3. /\ proposing[k].busy \in BOOLEAN
      /\ proposing[k].busy => /\ proposing[k].read \in ProtectionRecords
                              /\ proposing[k].message \in MinimalProposals
  <2>1. proposing[k] \in {Idle} \union {Busy(F, b) : F \in ProtectionRecords, b \in MinimalProposals}
    BY SMT, SMTT(20) DEF MinimalTypeOK
  <2>2. CASE proposing[k] = Idle
    BY <2>2, SMT, SMTT(20) DEF Idle
  <2>3. CASE proposing[k] \in {Busy(F, b) : F \in ProtectionRecords, b \in MinimalProposals}
    <3>1. PICK F \in ProtectionRecords, b \in MinimalProposals : proposing[k] = Busy(F, b)
      BY <2>3, SMT, SMTT(20)
    <3> QED BY <3>1, SMT, SMTT(20) DEF Busy
  <2> QED BY <2>1, <2>2, <2>3, SMT, SMTT(20)
<1> QED BY <1>1, <1>2, <1>3

\* Epochs and slots are numbers.
LEMMA MessageTypes ==
  /\ \A a \in MinimalAttestations : a.source \in Nat /\ a.target \in Nat
  /\ \A b \in MinimalProposals : b.slot \in Nat
BY MinimalAssumption

\* No file at first, and nothing signed.
LEMMA InitIInv == MinimalInit => MinimalInv
<1> SUFFICES ASSUME MinimalInit PROVE MinimalInv
  OBVIOUS
<1>1. NoProtection \in ProtectionRecords
  BY DEF NoProtection, ProtectionRecords, Nil
<1>2. MinimalTypeOK
  BY <1>1, SMT, SMTT(20) DEF MinimalInit, MinimalTypeOK
<1>3. \A k \in MinimalKeys : ~attesting[k].busy /\ ~proposing[k].busy /\ attested[k] = {} /\ proposed[k] = {}
  BY DEF MinimalInit, Idle
<1>4. SignedAreRecorded /\ ReadIsCurrent
  BY <1>3 DEF SignedAreRecorded, ReadIsCurrent
<1> QED BY <1>2, <1>4 DEF MinimalInv

\* SlashableAttestationCheck reads the file of the key.
LEMMA ReadForAttestationStep ==
  ASSUME ~Overlap, MinimalInv, NEW k \in MinimalKeys, NEW a \in MinimalAttestations, ReadForAttestation(k, a)
  PROVE  MinimalInv'
<1>1. file' = file /\ proposing' = proposing /\ attested' = attested /\ proposed' = proposed
  BY DEF ReadForAttestation
<1>2. MinimalTypeOK'
  <2>1. file[k] \in ProtectionRecords
    BY BusyType DEF MinimalInv
  <2>2. attesting' = [attesting EXCEPT ![k] = Busy(file[k], a)]
    BY DEF ReadForAttestation
  <2>3. Busy(file[k], a) \in {Busy(F, c) : F \in ProtectionRecords, c \in MinimalAttestations}
    BY <2>1, SMT, SMTT(20)
  <2> QED BY <1>1, <2>2, <2>3, SMT, SMTT(20) DEF MinimalInv, MinimalTypeOK
<1>3. SignedAreRecorded'
  BY <1>1 DEF MinimalInv, SignedAreRecorded
<1>4. ReadIsCurrent'
  <2> SUFFICES ASSUME NEW j \in MinimalKeys
               PROVE  /\ ~(attesting'[j].busy /\ proposing[j].busy)
                      /\ attesting'[j].busy => /\ attesting'[j].read = file[j]
                                               /\ AttestationAllowed(file[j], attesting'[j].message)
                      /\ proposing[j].busy => /\ proposing[j].read = file[j]
                                              /\ ProposalAllowed(file[j], proposing[j].message)
    BY <1>1 DEF ReadIsCurrent
  <2>1. CASE j = k
    <3>1. attesting'[j] = Busy(file[k], a)
      BY <2>1, SMT, SMTT(20) DEF ReadForAttestation, MinimalInv, MinimalTypeOK
    <3>2. ~proposing[j].busy
      BY <2>1, BusyType DEF ReadForAttestation, MinimalInv
    <3> QED BY <3>1, <3>2, <2>1, SMT, SMTT(20) DEF ReadForAttestation, Busy
  <2>2. CASE j # k
    <3>1. attesting'[j] = attesting[j]
      BY <2>2, SMT, SMTT(20) DEF ReadForAttestation, MinimalInv, MinimalTypeOK
    <3> QED BY <3>1 DEF MinimalInv, ReadIsCurrent
  <2> QED BY <2>1, <2>2
<1> QED BY <1>2, <1>3, <1>4 DEF MinimalInv

\* SlashableProposalCheck reads the file of the key.
LEMMA ReadForProposalStep ==
  ASSUME ~Overlap, MinimalInv, NEW k \in MinimalKeys, NEW b \in MinimalProposals, ReadForProposal(k, b)
  PROVE  MinimalInv'
<1>1. file' = file /\ attesting' = attesting /\ attested' = attested /\ proposed' = proposed
  BY DEF ReadForProposal
<1>2. MinimalTypeOK'
  <2>1. file[k] \in ProtectionRecords
    BY BusyType DEF MinimalInv
  <2>2. proposing' = [proposing EXCEPT ![k] = Busy(file[k], b)]
    BY DEF ReadForProposal
  <2>3. Busy(file[k], b) \in {Busy(F, c) : F \in ProtectionRecords, c \in MinimalProposals}
    BY <2>1, SMT, SMTT(20)
  <2> QED BY <1>1, <2>2, <2>3, SMT, SMTT(20) DEF MinimalInv, MinimalTypeOK
<1>3. SignedAreRecorded'
  BY <1>1 DEF MinimalInv, SignedAreRecorded
<1>4. ReadIsCurrent'
  <2> SUFFICES ASSUME NEW j \in MinimalKeys
               PROVE  /\ ~(attesting[j].busy /\ proposing'[j].busy)
                      /\ attesting[j].busy => /\ attesting[j].read = file[j]
                                              /\ AttestationAllowed(file[j], attesting[j].message)
                      /\ proposing'[j].busy => /\ proposing'[j].read = file[j]
                                               /\ ProposalAllowed(file[j], proposing'[j].message)
    BY <1>1 DEF ReadIsCurrent
  <2>1. CASE j = k
    <3>1. proposing'[j] = Busy(file[k], b)
      BY <2>1, SMT, SMTT(20) DEF ReadForProposal, MinimalInv, MinimalTypeOK
    <3>2. ~attesting[j].busy
      BY <2>1, BusyType DEF ReadForProposal, MinimalInv
    <3> QED BY <3>1, <3>2, <2>1, SMT, SMTT(20) DEF ReadForProposal, Busy
  <2>2. CASE j # k
    <3>1. proposing'[j] = proposing[j]
      BY <2>2, SMT, SMTT(20) DEF ReadForProposal, MinimalInv, MinimalTypeOK
    <3> QED BY <3>1 DEF MinimalInv, ReadIsCurrent
  <2> QED BY <2>1, <2>2
<1> QED BY <1>2, <1>3, <1>4 DEF MinimalInv

\* What a save leaves of the keys it does not touch.
LEMMA OtherKeysKept ==
  ASSUME MinimalInv, NEW k \in MinimalKeys, NEW j \in MinimalKeys, j # k,
         file'[j] = file[j], attested'[j] = attested[j], proposed'[j] = proposed[j],
         attesting'[j] = attesting[j], proposing'[j] = proposing[j]
  PROVE  /\ \A a \in attested'[j] : a.source <= file'[j].source /\ a.target <= file'[j].target
         /\ \A b \in proposed'[j] : b.slot <= file'[j].slot
         /\ ~(attesting'[j].busy /\ proposing'[j].busy)
         /\ attesting'[j].busy => /\ attesting'[j].read = file'[j]
                                  /\ AttestationAllowed(file'[j], attesting'[j].message)
         /\ proposing'[j].busy => /\ proposing'[j].read = file'[j]
                                  /\ ProposalAllowed(file'[j], proposing'[j].message)
BY DEF MinimalInv, SignedAreRecorded, ReadIsCurrent

\* Saving an attestation keeps the slot of the record.
LEMMA WithAttestationFields ==
  ASSUME NEW P \in ProtectionRecords, NEW a
  PROVE  WithAttestation(P, a) = [slot |-> P.slot, source |-> a.source, target |-> a.target]
BY DEF WithAttestation, ProtectionRecords

\* SaveAttestationForPubKey writes the file back.
LEMMA SaveAttestationStep ==
  ASSUME MinimalInv, NEW k \in MinimalKeys, WriteAttestation(k)
  PROVE  MinimalInv'
<1> DEFINE a == attesting[k].message
<1>1. /\ a \in MinimalAttestations /\ file[k] \in ProtectionRecords
      /\ attesting[k].read = file[k] /\ AttestationAllowed(file[k], a) /\ ~proposing[k].busy
  BY BusyType DEF MinimalInv, ReadIsCurrent, WriteAttestation
<1> DEFINE F == WithAttestation(file[k], a)
<1>2. /\ file' = [file EXCEPT ![k] = F]
      /\ attested' = [attested EXCEPT ![k] = @ \union {a}]
      /\ attesting' = [attesting EXCEPT ![k] = Idle]
      /\ proposing' = proposing /\ proposed' = proposed
  BY <1>1 DEF WriteAttestation
<1>3. /\ F \in ProtectionRecords /\ F.slot = file[k].slot
      /\ F.source = a.source /\ F.target = a.target
      /\ F.source >= file[k].source /\ F.target >= file[k].target
  <2>1. a.source \in Nat /\ a.target \in Nat
    BY <1>1, MessageTypes
  <2>2. /\ F.slot = file[k].slot /\ F.source = a.source /\ F.target = a.target
        /\ F = [slot |-> file[k].slot, source |-> a.source, target |-> a.target]
    BY <1>1, WithAttestationFields, SMTT(20), SMTT(40)
  <2>3. F \in ProtectionRecords
    BY <1>1, <2>1, <2>2 DEF ProtectionRecords
  <2> QED BY <1>1, <2>1, <2>2, <2>3, SMT, SMTT(20) DEF AttestationAllowed, ProtectionRecords, Nil
<1> HIDE DEF F, a
<1>4. MinimalTypeOK'
  BY <1>1, <1>2, <1>3, SMT, SMTT(20) DEF MinimalInv, MinimalTypeOK
<1>5. /\ file'[k] = F /\ attested'[k] = attested[k] \union {a}
      /\ attesting'[k] = Idle /\ proposing'[k] = proposing[k] /\ proposed'[k] = proposed[k]
      /\ \A j \in MinimalKeys : j # k => /\ file'[j] = file[j] /\ attested'[j] = attested[j]
                                         /\ proposed'[j] = proposed[j] /\ attesting'[j] = attesting[j]
                                         /\ proposing'[j] = proposing[j]
  BY <1>2, SMT, SMTT(20) DEF MinimalInv, MinimalTypeOK
<1>6. \A c \in attested'[k] : c.source <= file'[k].source /\ c.target <= file'[k].target
  <2> SUFFICES ASSUME NEW c \in attested[k] \union {a}
               PROVE  c.source <= F.source /\ c.target <= F.target
    BY <1>5
  <2>1. CASE c = a
    BY <2>1, <1>1, <1>3, MessageTypes, SMT, SMTT(20)
  <2>2. CASE c \in attested[k]
    <3>1. c.source <= file[k].source /\ c.target <= file[k].target
      BY <2>2 DEF MinimalInv, SignedAreRecorded
    <3>2. c.source \in Nat /\ c.target \in Nat
      BY <2>2, MessageTypes, SMT, SMTT(20) DEF MinimalInv, MinimalTypeOK
    <3>3. file[k].source \in Int /\ file[k].target \in Int /\ F.source \in Int /\ F.target \in Int
      BY <1>1, <1>3, SMT, SMTT(20) DEF ProtectionRecords, Nil
    <3> QED BY <3>1, <3>2, <3>3, <1>3, SMT, SMTT(20)
  <2> QED BY <2>1, <2>2
<1>7. \A b \in proposed'[k] : b.slot <= file'[k].slot
  BY <1>3, <1>5 DEF MinimalInv, SignedAreRecorded
<1>8. ~attesting'[k].busy /\ ~proposing'[k].busy
  BY <1>1, <1>5, SMT, SMTT(20) DEF Idle
<1>9. SignedAreRecorded'
  BY <1>5, <1>6, <1>7, OtherKeysKept DEF SignedAreRecorded
<1>10. ReadIsCurrent'
  BY <1>5, <1>8, OtherKeysKept DEF ReadIsCurrent
<1> QED BY <1>4, <1>9, <1>10 DEF MinimalInv

\* SaveProposalHistoryForSlot writes the file back.
LEMMA SaveProposalStep ==
  ASSUME MinimalInv, NEW k \in MinimalKeys, WriteProposal(k)
  PROVE  MinimalInv'
<1> DEFINE b == proposing[k].message
<1>1. /\ b \in MinimalProposals /\ file[k] \in ProtectionRecords
      /\ proposing[k].read = file[k] /\ ProposalAllowed(file[k], b) /\ ~attesting[k].busy
  BY BusyType DEF MinimalInv, ReadIsCurrent, WriteProposal
<1> DEFINE F == WithProposal(file[k], b)
<1>2. /\ file' = [file EXCEPT ![k] = F]
      /\ proposed' = [proposed EXCEPT ![k] = @ \union {b}]
      /\ proposing' = [proposing EXCEPT ![k] = Idle]
      /\ attesting' = attesting /\ attested' = attested
  BY <1>1 DEF WriteProposal
<1>3. /\ F \in ProtectionRecords /\ F.slot = b.slot /\ F.slot >= file[k].slot
      /\ F.source = file[k].source /\ F.target = file[k].target
  BY <1>1, MessageTypes, SMT, SMTT(20) DEF WithProposal, ProposalAllowed, ProtectionRecords, Nil
<1> HIDE DEF F, b
<1>4. MinimalTypeOK'
  BY <1>1, <1>2, <1>3, SMT, SMTT(20) DEF MinimalInv, MinimalTypeOK
<1>5. /\ file'[k] = F /\ proposed'[k] = proposed[k] \union {b}
      /\ proposing'[k] = Idle /\ attesting'[k] = attesting[k] /\ attested'[k] = attested[k]
      /\ \A j \in MinimalKeys : j # k => /\ file'[j] = file[j] /\ attested'[j] = attested[j]
                                         /\ proposed'[j] = proposed[j] /\ attesting'[j] = attesting[j]
                                         /\ proposing'[j] = proposing[j]
  BY <1>2, SMT, SMTT(20) DEF MinimalInv, MinimalTypeOK
<1>6. \A c \in proposed'[k] : c.slot <= file'[k].slot
  <2> SUFFICES ASSUME NEW c \in proposed[k] \union {b}
               PROVE  c.slot <= F.slot
    BY <1>5
  <2>1. CASE c = b
    BY <2>1, <1>1, <1>3, MessageTypes, SMT, SMTT(20)
  <2>2. CASE c \in proposed[k]
    <3>1. c.slot <= file[k].slot
      BY <2>2 DEF MinimalInv, SignedAreRecorded
    <3>2. c.slot \in Nat
      BY <2>2, MessageTypes, SMT, SMTT(20) DEF MinimalInv, MinimalTypeOK
    <3>3. file[k].slot \in Int /\ F.slot \in Int
      BY <1>1, <1>3, SMT, SMTT(20) DEF ProtectionRecords, Nil
    <3> QED BY <3>1, <3>2, <3>3, <1>3, SMT, SMTT(20)
  <2> QED BY <2>1, <2>2
<1>7. \A c \in attested'[k] : c.source <= file'[k].source /\ c.target <= file'[k].target
  BY <1>3, <1>5 DEF MinimalInv, SignedAreRecorded
<1>8. ~attesting'[k].busy /\ ~proposing'[k].busy
  BY <1>1, <1>5, SMT, SMTT(20) DEF Idle
<1>9. SignedAreRecorded'
  BY <1>5, <1>6, <1>7, OtherKeysKept DEF SignedAreRecorded
<1>10. ReadIsCurrent'
  BY <1>5, <1>8, OtherKeysKept DEF ReadIsCurrent
<1> QED BY <1>4, <1>9, <1>10 DEF MinimalInv

\* The larger of two bounds.
LEMMA MaxOfBounds ==
  ASSUME NEW x \in Int, NEW y \in Int
  PROVE  MaxOf(x, y) \in {x, y} /\ MaxOf(x, y) >= x
BY SMT, SMTT(20) DEF MaxOf

\* An import only raises the bounds of the file.
LEMMA ImportAttestationStep ==
  ASSUME MinimalInv, NEW k \in MinimalKeys, NEW a \in MinimalAttestations, ImportAttestation(k, a)
  PROVE  MinimalInv'
<1> DEFINE F == [slot |-> file[k].slot,
                 source |-> MaxOf(file[k].source, a.source),
                 target |-> MaxOf(file[k].target, a.target)]
<1>1. /\ file[k] \in ProtectionRecords /\ a.source \in Nat /\ a.target \in Nat
      /\ ~attesting[k].busy /\ ~proposing[k].busy
  BY BusyType, MessageTypes DEF MinimalInv, ImportAttestation
<1>2. /\ file' = [file EXCEPT ![k] = F]
      /\ attesting' = attesting /\ proposing' = proposing
      /\ attested' = attested /\ proposed' = proposed
  BY DEF ImportAttestation
<1>3. /\ F \in ProtectionRecords /\ F.slot = file[k].slot
      /\ F.source >= file[k].source /\ F.target >= file[k].target
  BY <1>1, MaxOfBounds, SMT, SMTT(20) DEF ProtectionRecords, Nil
<1> HIDE DEF F
<1>4. MinimalTypeOK'
  BY <1>2, <1>3, SMT, SMTT(20) DEF MinimalInv, MinimalTypeOK
<1>5. file'[k] = F /\ \A j \in MinimalKeys : j # k => file'[j] = file[j]
  BY <1>2, SMT, SMTT(20) DEF MinimalInv, MinimalTypeOK
<1>6. \A c \in attested[k] : c.source <= file'[k].source /\ c.target <= file'[k].target
  <2> SUFFICES ASSUME NEW c \in attested[k]
               PROVE  c.source <= F.source /\ c.target <= F.target
    BY <1>5
  <2>1. c.source <= file[k].source /\ c.target <= file[k].target
    BY DEF MinimalInv, SignedAreRecorded
  <2>2. c.source \in Nat /\ c.target \in Nat
    BY MessageTypes, SMT, SMTT(20) DEF MinimalInv, MinimalTypeOK
  <2>3. file[k].source \in Int /\ file[k].target \in Int /\ F.source \in Int /\ F.target \in Int
    BY <1>1, <1>3, SMT, SMTT(20) DEF ProtectionRecords, Nil
  <2> QED BY <2>1, <2>2, <2>3, <1>3, SMT, SMTT(20)
<1>7. SignedAreRecorded'
  BY <1>2, <1>3, <1>5, <1>6 DEF MinimalInv, SignedAreRecorded
<1>8. ReadIsCurrent'
  BY <1>1, <1>2, <1>5 DEF MinimalInv, ReadIsCurrent
<1> QED BY <1>4, <1>7, <1>8 DEF MinimalInv

\* A crash forgets the checks in progress and leaves the files.
LEMMA CrashStep ==
  ASSUME ~TornWrites, MinimalInv, NEW torn \in SUBSET MinimalKeys, MinimalCrash(torn)
  PROVE  MinimalInv'
<1>1. file' = file /\ attested' = attested /\ proposed' = proposed
  BY SMT, SMTT(20) DEF MinimalCrash, MinimalInv, MinimalTypeOK
<1>2. \A k \in MinimalKeys : attesting'[k] = Idle /\ proposing'[k] = Idle
  BY DEF MinimalCrash
<1>3. MinimalTypeOK'
  BY <1>1, SMT, SMTT(20) DEF MinimalCrash, MinimalInv, MinimalTypeOK
<1>4. SignedAreRecorded'
  BY <1>1 DEF MinimalInv, SignedAreRecorded
<1>5. ReadIsCurrent'
  BY <1>2, SMT, SMTT(20) DEF ReadIsCurrent, Idle
<1> QED BY <1>3, <1>4, <1>5 DEF MinimalInv

\* Every step keeps the invariant.
LEMMA NextIInv ==
  ASSUME ~Overlap, ~TornWrites, MinimalInv, [MinimalNext]_minimalVars
  PROVE  MinimalInv'
<1>1. CASE UNCHANGED minimalVars
  BY <1>1, SMT, SMTT(20) DEF minimalVars, MinimalInv, MinimalTypeOK, SignedAreRecorded, ReadIsCurrent
<1>2. CASE \E k \in MinimalKeys, a \in MinimalAttestations : ReadForAttestation(k, a) \/ ImportAttestation(k, a)
  BY <1>2, ReadForAttestationStep, ImportAttestationStep
<1>3. CASE \E k \in MinimalKeys, b \in MinimalProposals : ReadForProposal(k, b)
  BY <1>3, ReadForProposalStep
<1>4. CASE \E k \in MinimalKeys : WriteAttestation(k) \/ WriteProposal(k)
  BY <1>4, SaveAttestationStep, SaveProposalStep
<1>5. CASE \E torn \in SUBSET MinimalKeys : MinimalCrash(torn)
  BY <1>5, CrashStep
<1> QED BY <1>1, <1>2, <1>3, <1>4, <1>5 DEF MinimalNext

\* The invariant of the minimal database.
LEMMA MinimalInvariance ==
  ASSUME ~Overlap, ~TornWrites
  PROVE  MinimalSpec => []MinimalInv
<1>1. MinimalInv /\ [MinimalNext]_minimalVars => MinimalInv'
  BY NextIInv
<1> QED BY <1>1, InitIInv, PTL DEF MinimalSpec

\* Whatever the checks of the minimal database accepted stays recorded, when
\* the roles of a key do not overlap and writes are not torn.
THEOREM RecordedForEver ==
  ASSUME ~Overlap, ~TornWrites
  PROVE  MinimalSpec => []SignedAreRecorded
<1>1. MinimalInv => SignedAreRecorded
  BY DEF MinimalInv
<1> QED BY <1>1, MinimalInvariance, PTL

\* What passes the check of an attestation conflicts with nothing signed.
LEMMA SaveIsPublish ==
  ASSUME MinimalInv, NEW k \in MinimalKeys, WriteAttestation(k)
  PROVE  Attester!Publish(k, attesting[k].message)
<1> DEFINE a == attesting[k].message
<1>1. a \in MinimalAttestations /\ AttestationAllowed(file[k], a) /\ file[k] \in ProtectionRecords
  BY BusyType DEF MinimalInv, ReadIsCurrent, WriteAttestation
<1>2. ASSUME NEW n \in attested[k]
      PROVE  ~IsSlashableAttestationData(n, a) /\ ~IsSlashableAttestationData(a, n)
  <2>1. n.source <= file[k].source /\ n.target <= file[k].target
    BY DEF MinimalInv, SignedAreRecorded
  <2>2. n.source \in Nat /\ n.target \in Nat /\ a.source \in Nat /\ a.target \in Nat
    BY <1>1, MessageTypes, SMT, SMTT(20) DEF MinimalInv, MinimalTypeOK
  <2>3. file[k].source \in Int /\ file[k].target \in Int
    BY <1>1, SMT, SMTT(20) DEF ProtectionRecords, Nil
  <2>4. n.source <= a.source /\ n.target < a.target
    BY <1>1, <2>1, <2>2, <2>3, SMT, SMTT(20) DEF AttestationAllowed
  <2> QED BY <2>2, <2>4, SMT, SMTT(20) DEF IsSlashableAttestationData, IsDoubleVote, IsSurround
<1> QED BY <1>2 DEF Attester!Publish, WriteAttestation

\* Writing the file is the step at which the block is handed over.
LEMMA SaveIsPublishProposal ==
  ASSUME MinimalInv, NEW k \in MinimalKeys, WriteProposal(k)
  PROVE  Proposer!Publish(k, proposing[k].message)
<1> DEFINE b == proposing[k].message
<1>1. b \in MinimalProposals /\ ProposalAllowed(file[k], b) /\ file[k] \in ProtectionRecords
  BY BusyType DEF MinimalInv, ReadIsCurrent, WriteProposal
<1>2. ASSUME NEW n \in proposed[k]
      PROVE  ~IsDoubleProposal(n, b) /\ ~IsDoubleProposal(b, n)
  <2>1. n.slot <= file[k].slot
    BY DEF MinimalInv, SignedAreRecorded
  <2>2. n.slot \in Nat /\ b.slot \in Nat /\ file[k].slot \in Int
    BY <1>1, MessageTypes, SMT, SMTT(20) DEF MinimalInv, MinimalTypeOK, ProtectionRecords, Nil
  <2>3. n.slot < b.slot
    BY <1>1, <2>1, <2>2, SMT, SMTT(20) DEF ProposalAllowed
  <2> QED BY <2>2, <2>3, SMT, SMTT(20) DEF IsDoubleProposal
<1> QED BY <1>2 DEF Proposer!Publish, WriteProposal

\* The attester's use of the minimal database implements slashing protection:
\* no attestation that conflicts with an earlier one of its key is submitted.
THEOREM AttesterIsProtected ==
  ASSUME ~Overlap, ~TornWrites
  PROVE  MinimalSpec => AttestationsProtected
<1>1. MinimalInit => Attester!Init
  BY DEF MinimalInit, Attester!Init
<1>2. ASSUME MinimalInv, [MinimalNext]_minimalVars PROVE [Attester!Next]_attested
  <2>1. CASE \E k \in MinimalKeys : WriteAttestation(k)
    <3>1. PICK k \in MinimalKeys : WriteAttestation(k)
      BY <2>1
    <3>2. attesting[k].message \in MinimalAttestations
      BY <3>1, <1>2, BusyType DEF MinimalInv, WriteAttestation
    <3> QED BY <3>1, <3>2, <1>2, SaveIsPublish DEF Attester!Next
  <2>2. CASE ~\E k \in MinimalKeys : WriteAttestation(k)
    BY <1>2, <2>2 DEF MinimalNext, minimalVars, ReadForAttestation, ImportAttestation, ReadForProposal,
                      WriteProposal, MinimalCrash
  <2> QED BY <2>1, <2>2
<1> QED BY <1>1, <1>2, MinimalInvariance, PTL DEF MinimalSpec, AttestationsProtected, Attester!Spec

\* The proposer's use of the minimal database implements slashing protection:
\* no second block is submitted for a slot of its key.
THEOREM ProposerIsProtected ==
  ASSUME ~Overlap, ~TornWrites
  PROVE  MinimalSpec => ProposalsProtected
<1>1. MinimalInit => Proposer!Init
  BY DEF MinimalInit, Proposer!Init
<1>2. ASSUME MinimalInv, [MinimalNext]_minimalVars PROVE [Proposer!Next]_proposed
  <2>1. CASE \E k \in MinimalKeys : WriteProposal(k)
    <3>1. PICK k \in MinimalKeys : WriteProposal(k)
      BY <2>1
    <3>2. proposing[k].message \in MinimalProposals
      BY <3>1, <1>2, BusyType DEF MinimalInv, WriteProposal
    <3> QED BY <3>1, <3>2, <1>2, SaveIsPublishProposal DEF Proposer!Next
  <2>2. CASE ~\E k \in MinimalKeys : WriteProposal(k)
    BY <1>2, <2>2 DEF MinimalNext, minimalVars, ReadForAttestation, ImportAttestation, ReadForProposal,
                      WriteAttestation, MinimalCrash
  <2> QED BY <2>1, <2>2
<1> QED BY <1>1, <1>2, MinimalInvariance, PTL DEF MinimalSpec, ProposalsProtected, Proposer!Spec

-----------------------------------------------------------------------------
(***************************************************************************)
(* Keys are exclusive and Unlock never sends on a closed channel, for any  *)
(* number of goroutines and keys.  The argument: as long as a goroutine's  *)
(* channel is not closed it is the registered one of the key it waits for  *)
(* (WaitersAreCurrent), two keys never share a channel (OneChannelPerKey), *)
(* and a registered channel is closed only between Clean's loop and its    *)
(* deletion (ClosedAreSwept).                                              *)
(***************************************************************************)

OneChannelPerKey ==
  \A j, k \in Keys : j # k /\ list[j] # NoChan => list[j] # list[k]

WaitersAreCurrent ==
  \A t \in Threads : at[t] \in {"receive", "parked"} =>
    /\ ref[t] \in Chans /\ key[t] \in Keys
    /\ chan[ref[t]] # "closed" => list[key[t]] = ref[t]

ParkedAreQueued ==
  /\ \A t \in Threads : at[t] = "parked" =>
       /\ chan[ref[t]] = "empty"
       /\ \E i \in 1 .. Len(waiters[ref[t]]) : waiters[ref[t]][i] = t
  /\ \A c \in Chans : \A i \in 1 .. Len(waiters[c]) :
       /\ at[waiters[c][i]] = "parked" /\ ref[waiters[c][i]] = c
       /\ \A j \in 1 .. Len(waiters[c]) : i # j => waiters[c][i] # waiters[c][j]

ClosedAreSwept ==
  /\ \A k \in Keys : list[k] # NoChan /\ chan[list[k]] = "closed" => k \in toDelete
  /\ \A k \in toDelete : list[k] # NoChan /\ chan[list[k]] = "closed"
  /\ \A k \in unswept : list[k] # NoChan
  /\ owner = NoChan => toDelete = {} /\ unswept = {}

IInv ==
  /\ LockTypeOK /\ HeldChannelsAreOpen /\ MutualExclusion
  /\ OneChannelPerKey /\ WaitersAreCurrent /\ ParkedAreQueued /\ ClosedAreSwept


(* Queues hold threads. *)
LEMMA QueuedAreThreads ==
  ASSUME LockTypeOK, NEW c \in Chans, NEW i \in 1 .. Len(waiters[c])
  PROVE  waiters[c][i] \in Threads
<1>. waiters[c] \in Seq(Threads)
  BY DEF LockTypeOK
<1>. QED BY SMT, SMTT(20)

(* A thread that is not parked is in no queue. *)
LEMMA RunningAreNotQueued ==
  ASSUME LockTypeOK, ParkedAreQueued, NEW t \in Threads, at[t] # "parked"
  PROVE  \A c \in Chans : \A i \in 1 .. Len(waiters[c]) : waiters[c][i] # t
BY SMT, SMTT(20) DEF ParkedAreQueued

(* Queues are kept when no queued thread moves. *)
LEMMA QueuesKept ==
  ASSUME LockTypeOK, ParkedAreQueued, waiters' = waiters,
         \A u \in Threads : at'[u] = "parked" <=> at[u] = "parked",
         \A u \in Threads : at[u] = "parked" => ref'[u] = ref[u] /\ ref[u] \in Chans,
         \A c \in Chans : chan[c] = "empty" =>
            chan'[c] = "empty" \/ \A u \in Threads : ~(at[u] = "parked" /\ ref[u] = c)
  PROVE  ParkedAreQueued'
<1>1. ASSUME NEW u \in Threads, at'[u] = "parked"
      PROVE  /\ chan'[ref'[u]] = "empty"
             /\ \E i \in 1 .. Len(waiters'[ref'[u]]) : waiters'[ref'[u]][i] = u
  BY <1>1, SMT, SMTT(20) DEF ParkedAreQueued
<1>2. ASSUME NEW c \in Chans, NEW i \in 1 .. Len(waiters[c])
      PROVE  /\ at'[waiters[c][i]] = "parked" /\ ref'[waiters[c][i]] = c
             /\ \A j \in 1 .. Len(waiters[c]) : i # j => waiters[c][i] # waiters[c][j]
  BY QueuedAreThreads, SMT, SMTT(20) DEF ParkedAreQueued
<1>. QED BY <1>1, <1>2, SMT, SMTT(20) DEF ParkedAreQueued

(* Lock only moves the caller to its first key. *)
LEMMA LockStep ==
  ASSUME NEW t \in Threads, IInv, Lock(t)
  PROVE  IInv'
<1>1. LockTypeOK'
  BY MultilockAssumption DEF IInv, LockTypeOK, Locations, Lock
<1>2. HeldChannelsAreOpen' /\ MutualExclusion' /\ OneChannelPerKey' /\ ClosedAreSwept'
  BY SMT, SMTT(20) DEF IInv, Lock, HeldChannelsAreOpen, MutualExclusion, Got, OneChannelPerKey, ClosedAreSwept
<1>3. WaitersAreCurrent'
  BY DEF IInv, LockTypeOK, Lock, WaitersAreCurrent
<1>4. ParkedAreQueued'
  BY QueuesKept DEF IInv, LockTypeOK, Lock, WaitersAreCurrent
<1>. QED BY <1>1, <1>2, <1>3, <1>4 DEF IInv

(* getChan returns the registered channel of the next key, or registers a  *)
(* channel that nobody can reach.                                          *)
LEMMA GetChanStep ==
  ASSUME NEW t \in Threads, IInv, GetChan(t)
  PROVE  IInv'
<1>1. PICK k \in Want[t] :
        /\ key' = [key EXCEPT ![t] = k]
        /\ \/ list[k] # NoChan /\ ref' = [ref EXCEPT ![t] = list[k]] /\ UNCHANGED <<list, chan>>
           \/ /\ list[k] = NoChan
              /\ \E c \in Chans : /\ Unreachable(c)
                                  /\ list' = [list EXCEPT ![k] = c]
                                  /\ chan' = [chan EXCEPT ![c] = "full"]
                                  /\ ref' = [ref EXCEPT ![t] = c]
  <2>1. PICK k \in Want[t] :
          /\ key' = [key EXCEPT ![t] = k]
          /\ \/ list[k] # NoChan /\ ref' = [ref EXCEPT ![t] = list[k]] /\ UNCHANGED <<list, chan>>
             \/ /\ list[k] = NoChan
                /\ \E c \in Chans : Unreachable(c)
                /\ list' = [list EXCEPT ![k] = CHOOSE c \in Chans : Unreachable(c)]
                /\ chan' = [chan EXCEPT ![CHOOSE c \in Chans : Unreachable(c)] = "full"]
                /\ ref' = [ref EXCEPT ![t] = CHOOSE c \in Chans : Unreachable(c)]
    BY DEF GetChan
  <2>. QED BY <2>1
<1>2. k \in Keys
  BY MultilockAssumption
<1>3. /\ at[t] = "getChan" /\ owner = NoChan /\ at' = [at EXCEPT ![t] = "receive"]
      /\ UNCHANGED <<owner, waiters, chans, unswept, toDelete, rounds>>
  BY DEF GetChan
<1>4. MutualExclusion'
  BY <1>3 DEF IInv, MutualExclusion, Got
<1>5. toDelete = {} /\ unswept = {}
  BY <1>3 DEF IInv, ClosedAreSwept
<1>6. CASE list[k] # NoChan
  <2>1. ref' = [ref EXCEPT ![t] = list[k]] /\ list' = list /\ chan' = chan
    BY <1>1, <1>6
  <2>2. LockTypeOK'
    BY <1>1, <1>2, <1>3, <1>6, <2>1, MultilockAssumption DEF IInv, LockTypeOK, Locations
  <2>3. HeldChannelsAreOpen' /\ OneChannelPerKey' /\ ClosedAreSwept'
    BY <1>3, <2>1, SMT, SMTT(20) DEF IInv, HeldChannelsAreOpen, Got, OneChannelPerKey, ClosedAreSwept
  <2>4. WaitersAreCurrent'
    BY <1>1, <1>2, <1>3, <1>6, <2>1 DEF IInv, LockTypeOK, WaitersAreCurrent
  <2>5. ParkedAreQueued'
    BY <1>3, <2>1, QueuesKept DEF IInv, LockTypeOK, WaitersAreCurrent
  <2>. QED BY <1>4, <2>2, <2>3, <2>4, <2>5 DEF IInv
<1>7. CASE list[k] = NoChan
  <2>1. PICK c \in Chans : /\ Unreachable(c)
                           /\ list' = [list EXCEPT ![k] = c]
                           /\ chan' = [chan EXCEPT ![c] = "full"]
                           /\ ref' = [ref EXCEPT ![t] = c]
    BY <1>1, <1>7
  <2>2. LockTypeOK'
    BY <1>1, <1>2, <1>3, <2>1, MultilockAssumption, SMT, SMTT(20) DEF IInv, LockTypeOK, Locations
  <2>3. HeldChannelsAreOpen'
    BY <1>3, <1>7, <2>1, SMT, SMTT(20) DEF IInv, LockTypeOK, HeldChannelsAreOpen, Got, Unreachable
  <2>4. OneChannelPerKey'
    BY <1>2, <2>1 DEF IInv, LockTypeOK, OneChannelPerKey, Unreachable
  <2>5. ClosedAreSwept'
    BY <1>2, <1>3, <1>5, <2>1 DEF IInv, LockTypeOK, ClosedAreSwept, Unreachable
  <2>6. WaitersAreCurrent'
    BY <1>1, <1>2, <1>3, <1>7, <2>1, MultilockAssumption, SMT, SMTT(20) DEF IInv, LockTypeOK, WaitersAreCurrent, Unreachable
  <2>7. ParkedAreQueued'
    BY <1>3, <2>1, QueuesKept DEF IInv, LockTypeOK, WaitersAreCurrent, Unreachable
  <2>. QED BY <1>4, <2>2, <2>3, <2>4, <2>5, <2>6, <2>7 DEF IInv
<1>. QED BY <1>6, <1>7

(* A thread receives the token of the registered channel of its key, which *)
(* nobody holds then; or parks; or sees that the channel was closed.       *)
LEMMA ReceiveStep ==
  ASSUME NEW t \in Threads, IInv, Receive(t)
  PROVE  IInv'
<1>1. /\ at[t] = "receive" /\ ref[t] \in Chans /\ key[t] \in Keys
      /\ chan[ref[t]] # "closed" => list[key[t]] = ref[t]
      /\ UNCHANGED <<list, owner, key, unswept, toDelete, rounds>>
  BY DEF IInv, WaitersAreCurrent, Receive
<1>2. OneChannelPerKey'
  BY <1>1 DEF IInv, OneChannelPerKey
<1>3. CASE chan[ref[t]] = "full"
  <2>1. /\ chan' = [chan EXCEPT ![ref[t]] = "empty"]
        /\ chans' = [chans EXCEPT ![t][key[t]] = ref[t]]
        /\ at' = [at EXCEPT ![t] = IF Want[t] \subseteq Got(t) \union {key[t]} THEN "locked" ELSE "getChan"]
        /\ ref' = [ref EXCEPT ![t] = NoChan] /\ waiters' = waiters
    BY <1>1, <1>3 DEF Receive, Received
  <2>2. at'[t] \in {"locked", "getChan"} /\ at' \in [Threads -> Locations]
    BY <2>1 DEF IInv, LockTypeOK, Locations
  <2>3. \A u \in Threads : u # t => at'[u] = at[u] /\ ref'[u] = ref[u]
    BY <2>1 DEF IInv, LockTypeOK
  <2>4. LockTypeOK'
    BY <1>1, <2>1, <2>2, <2>3, MultilockAssumption DEF IInv, LockTypeOK
  <2>5. \A u \in Threads, k \in Keys : chans[u][k] # NoChan => chans[u][k] # ref[t] /\ k # key[t]
    BY <1>1, <1>3, SMT, SMTT(20) DEF IInv, HeldChannelsAreOpen, Got
  <2>6. \A u \in Threads, k \in Keys :
          chans'[u][k] = IF u = t /\ k = key[t] THEN ref[t] ELSE chans[u][k]
    BY <1>1, <2>1 DEF IInv, LockTypeOK
  <2>7. HeldChannelsAreOpen'
    BY <1>1, <1>3, <2>1, <2>5, <2>6, MultilockAssumption, SMT, SMTT(20) DEF IInv, LockTypeOK, HeldChannelsAreOpen, Got
  <2>8. MutualExclusion'
    BY <1>1, <2>5, <2>6, SMT, SMTT(20) DEF IInv, MutualExclusion, Got
  <2>9. WaitersAreCurrent'
    BY <1>1, <1>3, <2>1, <2>2, <2>3 DEF IInv, LockTypeOK, WaitersAreCurrent
  <2>10. ParkedAreQueued'
    BY <1>1, <2>1, <2>2, <2>3, QueuesKept DEF IInv, LockTypeOK, WaitersAreCurrent
  <2>11. ClosedAreSwept'
    BY <1>1, <1>3, <2>1, SMT, SMTT(20) DEF IInv, LockTypeOK, ClosedAreSwept
  <2>. QED BY <1>2, <2>4, <2>7, <2>8, <2>9, <2>10, <2>11 DEF IInv
<1>4. CASE chan[ref[t]] = "empty"
  <2>1. /\ waiters' = [waiters EXCEPT ![ref[t]] = Append(@, t)]
        /\ at' = [at EXCEPT ![t] = "parked"] /\ UNCHANGED <<chan, ref, chans>>
    BY <1>1, <1>4 DEF Receive, Received
  <2>2. LockTypeOK'
    BY <1>1, <2>1, SMT, SMTT(20) DEF IInv, LockTypeOK, Locations
  <2>3. HeldChannelsAreOpen' /\ MutualExclusion' /\ ClosedAreSwept'
    <3>1. UNCHANGED <<list, chan, chans, owner, unswept, toDelete>>
      BY <1>1, <2>1
    <3>2. HeldChannelsAreOpen' /\ MutualExclusion'
      BY <3>1, SMT, SMTT(20) DEF IInv, HeldChannelsAreOpen, MutualExclusion, Got
    <3>3. ClosedAreSwept'
      BY <3>1 DEF IInv, ClosedAreSwept
    <3>. QED BY <3>2, <3>3
  <2>4. WaitersAreCurrent'
    BY <1>1, <2>1 DEF IInv, LockTypeOK, WaitersAreCurrent
  <2>5. \A c \in Chans : c # ref[t] => waiters'[c] = waiters[c]
    BY <2>1 DEF IInv, LockTypeOK
  <2>6. /\ waiters[ref[t]] \in Seq(Threads)
        /\ waiters'[ref[t]] = Append(waiters[ref[t]], t)
    BY <1>1, <2>1 DEF IInv, LockTypeOK
  <2>7. /\ Len(waiters'[ref[t]]) = Len(waiters[ref[t]]) + 1
        /\ waiters'[ref[t]][Len(waiters[ref[t]]) + 1] = t
        /\ \A i \in 1 .. Len(waiters[ref[t]]) : waiters'[ref[t]][i] = waiters[ref[t]][i]
        /\ Len(waiters[ref[t]]) \in Nat
    BY <2>6, SMT, SMTT(20)
  <2>8. \A u \in Threads : at'[u] = IF u = t THEN "parked" ELSE at[u]
    BY <2>1 DEF IInv, LockTypeOK
  <2>9. ASSUME NEW u \in Threads, at'[u] = "parked"
        PROVE  chan[ref[u]] = "empty" /\ \E i \in 1 .. Len(waiters'[ref[u]]) : waiters'[ref[u]][i] = u
    <3>1. CASE u = t
      BY <1>4, <2>7, <3>1, SMT, SMTT(20)
    <3>2. CASE u # t /\ ref[u] = ref[t]
      BY <2>7, <2>8, <2>9, <3>2, SMTT(20), SMTT(40) DEF IInv, ParkedAreQueued
    <3>3. CASE u # t /\ ref[u] # ref[t]
      <4>1. at[u] = "parked" /\ ref[u] \in Chans
        BY <2>8, <2>9, <3>3 DEF IInv, WaitersAreCurrent
      <4>. QED BY <2>5, <3>3, <4>1, SMT, SMTT(20) DEF IInv, ParkedAreQueued
    <3>. QED BY <3>1, <3>2, <3>3
  <2>10. ASSUME NEW c \in Chans, NEW i \in 1 .. Len(waiters'[c])
         PROVE  /\ at'[waiters'[c][i]] = "parked" /\ ref[waiters'[c][i]] = c
                /\ \A j \in 1 .. Len(waiters'[c]) : i # j => waiters'[c][i] # waiters'[c][j]
    <3>1. \A d \in Chans : \A j \in 1 .. Len(waiters[d]) : waiters[d][j] # t /\ waiters[d][j] \in Threads
      BY <1>1, RunningAreNotQueued, QueuedAreThreads DEF IInv
    <3>2. CASE c # ref[t]
      BY <2>5, <2>8, <2>10, <3>1, <3>2, SMT, SMTT(20) DEF IInv, ParkedAreQueued
    <3>3. CASE c = ref[t]
      <4>. DEFINE n == Len(waiters[c])
                  q == waiters[c]
                  r == waiters'[c]
      <4>1. n \in Nat /\ Len(r) = n + 1 /\ r[n + 1] = t /\ \A j \in 1 .. n : r[j] = q[j]
        BY <2>7, <3>3
      <4>2. \A j \in 1 .. n : q[j] # t /\ at'[q[j]] = "parked" /\ ref[q[j]] = c
        BY <2>8, <3>1, SMT, SMTT(20) DEF IInv, ParkedAreQueued
      <4>3. \A j, m \in 1 .. n : j # m => q[j] # q[m]
        BY SMT, SMTT(20) DEF IInv, ParkedAreQueued
      <4>4. at'[t] = "parked"
        BY <2>8
      <4>. HIDE DEF n, q, r
      <4>5. i \in 1 .. n \/ i = n + 1
        BY <2>10, <4>1, SMT, SMTT(20) DEF r
      <4>6. at'[r[i]] = "parked" /\ ref[r[i]] = c
        BY <3>3, <4>1, <4>2, <4>4, <4>5
      <4>7. \A j \in 1 .. n + 1 : i # j => r[i] # r[j]
        BY <4>1, <4>2, <4>3, <4>5, SMT, SMTT(20)
      <4>. QED BY <4>1, <4>6, <4>7 DEF r
    <3>. QED BY <3>2, <3>3
  <2>11. ParkedAreQueued'
    <3>1. ref' = ref /\ chan' = chan
      BY <2>1
    <3>2. \A u \in Threads : at'[u] = "parked" =>
            /\ chan'[ref'[u]] = "empty"
            /\ \E i \in 1 .. Len(waiters'[ref'[u]]) : waiters'[ref'[u]][i] = u
      BY <2>9, <3>1, Zenon, ZenonT(20)
    <3>3. \A c \in Chans : \A i \in 1 .. Len(waiters'[c]) :
            /\ at'[waiters'[c][i]] = "parked" /\ ref'[waiters'[c][i]] = c
            /\ \A j \in 1 .. Len(waiters'[c]) : i # j => waiters'[c][i] # waiters'[c][j]
      BY <2>10, <3>1, Zenon, ZenonT(20)
    <3>. QED BY <3>2, <3>3, Zenon, ZenonT(20) DEF ParkedAreQueued
  <2>. QED BY <1>2, <2>2, <2>3, <2>4, <2>11 DEF IInv
<1>5. CASE chan[ref[t]] = "closed"
  <2>1. /\ at' = [at EXCEPT ![t] = "getChan"] /\ ref' = [ref EXCEPT ![t] = NoChan]
        /\ UNCHANGED <<chan, waiters, chans>>
    BY <1>1, <1>5 DEF Receive, Received
  <2>2. LockTypeOK'
    BY <1>1, <2>1 DEF IInv, LockTypeOK, Locations
  <2>3. HeldChannelsAreOpen' /\ MutualExclusion' /\ ClosedAreSwept'
    <3>1. UNCHANGED <<list, chan, chans, owner, unswept, toDelete>>
      BY <1>1, <2>1
    <3>2. HeldChannelsAreOpen' /\ MutualExclusion'
      BY <3>1, SMT, SMTT(20) DEF IInv, HeldChannelsAreOpen, MutualExclusion, Got
    <3>3. ClosedAreSwept'
      BY <3>1 DEF IInv, ClosedAreSwept
    <3>. QED BY <3>2, <3>3
  <2>4. WaitersAreCurrent'
    BY <1>1, <2>1 DEF IInv, LockTypeOK, WaitersAreCurrent
  <2>5. ParkedAreQueued'
    BY <1>1, <2>1, QueuesKept DEF IInv, LockTypeOK, WaitersAreCurrent
  <2>. QED BY <1>2, <2>2, <2>3, <2>4, <2>5 DEF IInv
<1>. QED BY <1>1, <1>3, <1>4, <1>5 DEF IInv, LockTypeOK

(* Clean starts with locks.lock. *)
LEMMA CleanStartStep ==
  ASSUME NEW t \in Threads, IInv, CleanStart(t)
  PROVE  IInv'
<1>1. LockTypeOK'
  BY MultilockAssumption DEF IInv, LockTypeOK, Locations, CleanStart
<1>2. HeldChannelsAreOpen' /\ MutualExclusion' /\ OneChannelPerKey'
  BY SMT, SMTT(20) DEF IInv, CleanStart, HeldChannelsAreOpen, MutualExclusion, Got, OneChannelPerKey
<1>3. WaitersAreCurrent'
  BY DEF IInv, LockTypeOK, CleanStart, WaitersAreCurrent
<1>4. ParkedAreQueued'
  BY QueuesKept DEF IInv, LockTypeOK, CleanStart, WaitersAreCurrent
<1>5. ClosedAreSwept'
  BY MultilockAssumption DEF IInv, CleanStart, ClosedAreSwept
<1>. QED BY <1>1, <1>2, <1>3, <1>4, <1>5 DEF IInv

(* Clean closes a channel that has its token: nobody holds it or is parked *)
(* on it.                                                                  *)
LEMMA SweepStep ==
  ASSUME NEW t \in Threads, NEW k \in Keys, IInv, Sweep(t, k)
  PROVE  IInv'
<1>1. /\ at[t] = "sweep" /\ owner = t /\ k \in unswept /\ list[k] \in Chans
      /\ unswept' = unswept \ {k}
      /\ UNCHANGED <<list, owner, waiters, at, key, ref, chans, rounds>>
  BY DEF IInv, LockTypeOK, ClosedAreSwept, Sweep
<1>2. MutualExclusion' /\ OneChannelPerKey'
  BY <1>1 DEF IInv, MutualExclusion, Got, OneChannelPerKey
<1>3. CASE chan[list[k]] = "full"
  <2>1. chan' = [chan EXCEPT ![list[k]] = "closed"] /\ toDelete' = toDelete \union {k}
    BY <1>3 DEF Sweep
  <2>2. LockTypeOK'
    BY <1>1, <2>1 DEF IInv, LockTypeOK
  <2>3. HeldChannelsAreOpen'
    BY <1>1, <1>3, <2>1, SMT, SMTT(20) DEF IInv, LockTypeOK, HeldChannelsAreOpen, Got
  <2>4. WaitersAreCurrent'
    BY <1>1, <1>3, <2>1 DEF IInv, LockTypeOK, WaitersAreCurrent
  <2>5. ParkedAreQueued'
    BY <1>1, <1>3, <2>1, QueuesKept DEF IInv, LockTypeOK, WaitersAreCurrent
  <2>6. \A j \in Keys : j # k => list[j] # list[k]
    BY <1>1, MultilockAssumption DEF IInv, OneChannelPerKey
  <2>7. ClosedAreSwept'
    BY <1>1, <1>3, <2>1, <2>6, MultilockAssumption DEF IInv, LockTypeOK, ClosedAreSwept
  <2>. QED BY <1>2, <2>2, <2>3, <2>4, <2>5, <2>7 DEF IInv
<1>4. CASE chan[list[k]] # "full"
  <2>1. chan' = chan /\ toDelete' = toDelete
    BY <1>4 DEF Sweep
  <2>2. LockTypeOK'
    BY <1>1, <2>1 DEF IInv, LockTypeOK
  <2>3. HeldChannelsAreOpen' /\ WaitersAreCurrent' /\ ParkedAreQueued' /\ ClosedAreSwept'
    BY <1>1, <2>1, MultilockAssumption, SMTT(60), SMTT(80)
    DEF IInv, HeldChannelsAreOpen, Got, WaitersAreCurrent, ParkedAreQueued, ClosedAreSwept
  <2>. QED BY <1>2, <2>2, <2>3 DEF IInv
<1>. QED BY <1>3, <1>4

(* Clean forgets the closed channels; no held or awaited key has one.      *)
LEMMA CleanEndStep ==
  ASSUME NEW t \in Threads, IInv, CleanEnd(t)
  PROVE  IInv'
<1>1. /\ at[t] = "sweep" /\ unswept = {}
      /\ list' = [k \in Keys |-> IF k \in toDelete THEN NoChan ELSE list[k]]
      /\ owner' = NoChan /\ at' = [at EXCEPT ![t] = "idle"]
      /\ key' = [key EXCEPT ![t] = NoChan]
      /\ rounds' = [rounds EXCEPT ![t] = @ + 1] /\ toDelete' = {}
      /\ UNCHANGED <<chan, waiters, ref, chans, unswept>>
  BY DEF CleanEnd
<1>2. LockTypeOK'
  BY <1>1, MultilockAssumption, SMT, SMTT(20) DEF IInv, LockTypeOK, Locations
<1>3. HeldChannelsAreOpen'
  BY <1>1, SMT, SMTT(20) DEF IInv, LockTypeOK, HeldChannelsAreOpen, Got, ClosedAreSwept
<1>4. MutualExclusion' /\ OneChannelPerKey'
  BY <1>1 DEF IInv, MutualExclusion, Got, OneChannelPerKey
<1>5. WaitersAreCurrent'
  BY <1>1, SMT, SMTT(20) DEF IInv, LockTypeOK, WaitersAreCurrent, ClosedAreSwept
<1>6. ParkedAreQueued'
  BY <1>1, QueuesKept DEF IInv, LockTypeOK, WaitersAreCurrent
<1>7. ClosedAreSwept'
  BY <1>1, MultilockAssumption DEF IInv, LockTypeOK, ClosedAreSwept
<1>. QED BY <1>2, <1>3, <1>4, <1>5, <1>6, <1>7 DEF IInv

(* Giving back a token to a channel without queue frees the key.           *)
LEMMA FreeStep ==
  ASSUME NEW t \in Threads, NEW k \in Keys, NEW c \in Chans, IInv,
         at[t] \in {"locked", "unlock"}, chans[t][k] = c, waiters[c] = <<>>,
         chan' = [chan EXCEPT ![c] = "full"],
         chans' = [chans EXCEPT ![t][k] = NoChan],
         NEW l \in {"clean", "unlock"}, at' = [at EXCEPT ![t] = l],
         UNCHANGED <<waiters, ref, list, owner, key, unswept, toDelete, rounds>>
  PROVE  IInv'
<1>1. list[k] = c /\ chan[c] = "empty"
  BY MultilockAssumption DEF IInv, HeldChannelsAreOpen, Got
<1>2. \A u \in Threads, j \in Keys : chans'[u][j] = IF u = t /\ j = k THEN NoChan ELSE chans[u][j]
  BY DEF IInv, LockTypeOK
<1>3. \A u \in Threads : u # t => at'[u] = at[u]
  BY DEF IInv, LockTypeOK
<1>4. at'[t] = l
  BY DEF IInv, LockTypeOK
<1>5. LockTypeOK'
  BY <1>2, <1>3, <1>4, MultilockAssumption DEF IInv, LockTypeOK, Locations
<1>6. \A u \in Threads, j \in Keys : chans'[u][j] # NoChan => chans'[u][j] # c
  <2>. SUFFICES ASSUME NEW u \in Threads, NEW j \in Keys, chans'[u][j] # NoChan, chans'[u][j] = c
                PROVE  FALSE
    OBVIOUS
  <2>1. chans[u][j] = c /\ ~(u = t /\ j = k)
    BY <1>2
  <2>2. list[j] = c
    BY <2>1, MultilockAssumption DEF IInv, HeldChannelsAreOpen, Got
  <2>3. j = k
    BY <1>1, <2>2, MultilockAssumption DEF IInv, OneChannelPerKey
  <2>4. k \in Got(u) /\ k \in Got(t)
    BY <2>1, <2>3, MultilockAssumption DEF Got
  <2>. QED BY <2>1, <2>3, <2>4 DEF IInv, MutualExclusion
<1>7. HeldChannelsAreOpen'
  BY <1>2, <1>6, SMT, SMTT(20) DEF IInv, LockTypeOK, HeldChannelsAreOpen, Got
<1>8. MutualExclusion' /\ OneChannelPerKey'
  BY <1>2, SMT, SMTT(20) DEF IInv, MutualExclusion, Got, OneChannelPerKey
<1>9. WaitersAreCurrent'
  BY <1>1, <1>3, <1>4 DEF IInv, LockTypeOK, WaitersAreCurrent
<1>10. \A u \in Threads : ~(at[u] = "parked" /\ ref[u] = c)
  BY SMT, SMTT(20) DEF IInv, ParkedAreQueued
<1>11. ParkedAreQueued'
  BY <1>3, <1>4, <1>10, QueuesKept DEF IInv, LockTypeOK, WaitersAreCurrent
<1>12. ClosedAreSwept'
  BY <1>1, SMT, SMTT(20) DEF IInv, LockTypeOK, ClosedAreSwept
<1>. QED BY <1>5, <1>7, <1>8, <1>9, <1>11, <1>12 DEF IInv

(* Giving back a token to a channel with a queue passes the key to the     *)
(* first thread w of the queue, which waits for that same key.             *)
LEMMA HandOverStep ==
  ASSUME NEW t \in Threads, NEW k \in Keys, NEW c \in Chans, IInv,
         at[t] \in {"locked", "unlock"}, chans[t][k] = c,
         waiters[c] # <<>>, NEW w, w = Head(waiters[c]),
         waiters' = [waiters EXCEPT ![c] = Tail(@)],
         chans' = [chans EXCEPT ![t][k] = NoChan, ![w][key[w]] = c],
         NEW l \in {"clean", "unlock"}, NEW m \in {"locked", "getChan"},
         at' = [at EXCEPT ![t] = l, ![w] = m], ref' = [ref EXCEPT ![w] = NoChan],
         UNCHANGED <<chan, list, owner, key, unswept, toDelete, rounds>>
  PROVE  IInv'
<1>. DEFINE q == waiters[c]
            n == Len(q)
<1>1. q \in Seq(Threads) /\ n \in Nat /\ n >= 1 /\ w = q[1]
  BY SMT, SMTT(20) DEF IInv, LockTypeOK
<1>2. w \in Threads /\ at[w] = "parked" /\ ref[w] = c /\ w # t
  BY <1>1, SMT, SMTT(20) DEF IInv, ParkedAreQueued
<1>3. list[k] = c /\ chan[c] = "empty"
  BY MultilockAssumption DEF IInv, HeldChannelsAreOpen, Got
<1>4. key[w] \in Keys /\ list[key[w]] = c
  BY <1>2, <1>3 DEF IInv, WaitersAreCurrent
<1>5. key[w] = k
  BY <1>3, <1>4, MultilockAssumption DEF IInv, OneChannelPerKey
<1>6. /\ \A u \in Threads, j \in Keys : j # k => chans'[u][j] = chans[u][j]
      /\ \A u \in Threads : u # t /\ u # w => chans'[u][k] = chans[u][k]
      /\ chans'[w][k] = c /\ chans'[t][k] = NoChan
  BY <1>2, <1>4, <1>5 DEF IInv, LockTypeOK
<1>7. \A u \in Threads : at'[u] = IF u = w THEN m ELSE IF u = t THEN l ELSE at[u]
  BY <1>2 DEF IInv, LockTypeOK
<1>8. \A u \in Threads : ref'[u] = IF u = w THEN NoChan ELSE ref[u]
  BY <1>2 DEF IInv, LockTypeOK
<1>9. chans' \in [Threads -> [Keys -> Chans \union {NoChan}]]
  BY <1>2, <1>4 DEF IInv, LockTypeOK
<1>10. at' \in [Threads -> Locations] /\ \A u \in Threads : at'[u] = "sweep" <=> at[u] = "sweep"
  BY <1>2, <1>7 DEF IInv, LockTypeOK, Locations
<1>11. waiters' \in [Chans -> Seq(Threads)]
  BY <1>1, SMT, SMTT(20) DEF IInv, LockTypeOK
<1>12. LockTypeOK'
  BY <1>2, <1>9, <1>10, <1>11 DEF IInv, LockTypeOK
<1>13. HeldChannelsAreOpen'
  <2>. SUFFICES ASSUME NEW u \in Threads, NEW j \in Keys, chans'[u][j] # NoChan
                PROVE  list[j] = chans'[u][j] /\ chan[chans'[u][j]] = "empty"
    BY DEF HeldChannelsAreOpen, Got
  <2>1. CASE chans'[u][j] = chans[u][j]
    <3>1. HeldChannelsAreOpen
      BY DEF IInv
    <3>2. j \in Got(u)
      BY <2>1 DEF Got
    <3>3. list[j] = chans[u][j] /\ chan[chans[u][j]] = "empty"
      BY <3>1, <3>2, Zenon, ZenonT(20) DEF HeldChannelsAreOpen
    <3>. QED BY <2>1, <3>3
  <2>2. CASE j = k /\ u = w
    BY <1>3, <1>6, <2>2
  <2>. QED BY <1>6, <2>1, <2>2, Zenon, ZenonT(20)
<1>14. \A u \in Threads : u # t => chans[u][k] = NoChan
  BY MultilockAssumption DEF IInv, MutualExclusion, Got
<1>15. MutualExclusion'
  <2>. SUFFICES ASSUME NEW u \in Threads, NEW v \in Threads, u # v, NEW j \in Keys,
                       chans'[u][j] # NoChan, chans'[v][j] # NoChan
                PROVE  FALSE
    BY DEF MutualExclusion, Got
  <2>1. CASE j # k
    <3>1. j \in Got(u) /\ j \in Got(v)
      BY <1>6, <2>1, Zenon, ZenonT(20) DEF Got
    <3>. QED BY <3>1 DEF IInv, MutualExclusion
  <2>2. CASE j = k
    <3>1. ASSUME NEW x \in Threads, x # w PROVE chans'[x][k] = NoChan
      <4>1. CASE x = t
        BY <1>6, <4>1, Zenon, ZenonT(20)
      <4>2. CASE x # t
        <5>1. chans'[x][k] = chans[x][k]
          BY <1>6, <3>1, <4>2, Zenon, ZenonT(20)
        <5>2. chans[x][k] = NoChan
          BY <1>14, <4>2, Zenon, ZenonT(20)
        <5>. QED BY <5>1, <5>2, Zenon, ZenonT(20)
      <4>. QED BY <4>1, <4>2
    <3>2. chans'[u][k] # NoChan /\ chans'[v][k] # NoChan
      BY <2>2, Zenon, ZenonT(20)
    <3>3. u = w /\ v = w
      BY <3>1, <3>2, Zenon, ZenonT(20)
    <3>. QED BY <3>3
  <2>. QED BY <2>1, <2>2
<1>16. OneChannelPerKey' /\ ClosedAreSwept'
  BY DEF IInv, OneChannelPerKey, ClosedAreSwept
<1>17. WaitersAreCurrent'
  BY <1>7, <1>8, SMT, SMTT(20) DEF IInv, WaitersAreCurrent
<1>18. \A d \in Chans : d # c => waiters'[d] = waiters[d]
  BY DEF IInv, LockTypeOK
<1>19. Len(waiters'[c]) = n - 1 /\ \A i \in 1 .. n - 1 : waiters'[c][i] = q[i + 1]
  BY <1>1, SMT, SMTT(20) DEF IInv, LockTypeOK
<1>20. \A d \in Chans : \A i \in 1 .. Len(waiters[d]) :
         /\ waiters[d][i] \in Threads /\ at[waiters[d][i]] = "parked" /\ ref[waiters[d][i]] = d
         /\ \A j \in 1 .. Len(waiters[d]) : i # j => waiters[d][i] # waiters[d][j]
  BY QueuedAreThreads, SMTT(60), SMTT(80) DEF IInv, ParkedAreQueued
<1>21. ASSUME NEW u \in Threads, at'[u] = "parked"
       PROVE  /\ chan'[ref'[u]] = "empty"
              /\ \E i \in 1 .. Len(waiters'[ref'[u]]) : waiters'[ref'[u]][i] = u
  <2>1. u # w /\ u # t /\ at[u] = "parked" /\ ref'[u] = ref[u] /\ ref[u] \in Chans
    BY <1>7, <1>8, <1>21, SMT, SMTT(20) DEF IInv, WaitersAreCurrent
  <2>2. chan[ref[u]] = "empty"
    BY <2>1 DEF IInv, ParkedAreQueued
  <2>3. PICK i \in 1 .. Len(waiters[ref[u]]) : waiters[ref[u]][i] = u
    BY <2>1 DEF IInv, ParkedAreQueued
  <2>4. CASE ref[u] # c
    BY <1>18, <2>1, <2>2, <2>3, <2>4
  <2>5. CASE ref[u] = c
    <3>1. i # 1 /\ i - 1 \in 1 .. n - 1 /\ (i - 1) + 1 = i
      BY <1>1, <2>1, <2>3, <2>5, SMT, SMTT(20)
    <3>2. waiters'[c][i - 1] = u
      BY <1>19, <2>3, <2>5, <3>1
    <3>. QED BY <1>19, <2>1, <2>2, <2>5, <3>1, <3>2
  <2>. QED BY <2>4, <2>5
<1>22. ASSUME NEW d \in Chans, NEW i \in 1 .. Len(waiters'[d])
       PROVE  /\ at'[waiters'[d][i]] = "parked" /\ ref'[waiters'[d][i]] = d
              /\ \A j \in 1 .. Len(waiters'[d]) : i # j => waiters'[d][i] # waiters'[d][j]
  <2>1. CASE d # c
    <3>1. waiters'[d] = waiters[d]
      BY <1>18, <2>1
    <3>2. waiters[d][i] # w /\ waiters[d][i] # t
      BY <1>2, <1>20, <1>22, <2>1, <3>1, SMT, SMTT(20)
    <3>3. /\ waiters[d][i] \in Threads /\ at[waiters[d][i]] = "parked" /\ ref[waiters[d][i]] = d
          /\ \A j \in 1 .. Len(waiters[d]) : i # j => waiters[d][i] # waiters[d][j]
      BY <1>20, <1>22, <3>1, SMT, SMTT(20)
    <3>4. at'[waiters[d][i]] = "parked" /\ ref'[waiters[d][i]] = d
      BY <1>7, <1>8, <3>2, <3>3
    <3>. QED BY <3>1, <3>3, <3>4
  <2>2. CASE d = c
    <3>1. i \in 1 .. n - 1 /\ i + 1 \in 1 .. n /\ i + 1 # 1 /\ 1 \in 1 .. n /\ waiters'[c][i] = q[i + 1]
      BY <1>1, <1>19, <1>22, <2>2, SMT, SMTT(20)
    <3>2. /\ q[i + 1] \in Threads /\ at[q[i + 1]] = "parked" /\ ref[q[i + 1]] = c
          /\ q[i + 1] # q[1]
      BY <1>20, <3>1, SMT, SMTT(20)
    <3>2a. q[i + 1] # w /\ q[i + 1] # t
      BY <1>1, <3>2
    <3>3. at'[q[i + 1]] = "parked" /\ ref'[q[i + 1]] = c
      BY <1>7, <1>8, <3>2, <3>2a
    <3>4. ASSUME NEW j \in 1 .. n - 1, i # j
          PROVE  waiters'[c][i] # waiters'[c][j]
      <4>1. j + 1 \in 1 .. n /\ j + 1 # i + 1
        BY <1>1, <3>1, <3>4, SMT, SMTT(20)
      <4>. QED BY <1>19, <1>20, <3>1, <4>1, SMT, SMTT(20)
    <3>. QED BY <1>19, <2>2, <3>1, <3>3, <3>4
  <2>. QED BY <2>1, <2>2
<1>23. ParkedAreQueued'
  BY <1>21, <1>22 DEF ParkedAreQueued
<1>. QED BY <1>12, <1>13, <1>15, <1>16, <1>17, <1>23 DEF IInv

\* One round of the loop of Unlock: the token goes back to the channel, or to
\* the first goroutine that waits for it.
LEMMA UnlockStep ==
  ASSUME NEW t \in Threads, IInv, Unlock(t)
  PROVE  IInv'
<1>1. PICK k \in Want[t] : Least(k, Got(t)) /\ chan[chans[t][k]] = "empty" /\ GiveBack(t, k, chans[t][k])
  BY DEF Unlock
<1>. DEFINE c == chans[t][k]
            l == IF Got(t) = {k} THEN "clean" ELSE "unlock"
            w == Head(waiters[c])
            m == IF Want[w] \subseteq Got(w) \union {key[w]} THEN "locked" ELSE "getChan"
<1>2. k \in Keys /\ c \in Chans
  <2>1. k \in Keys /\ chans[t][k] # NoChan
    BY <1>1 DEF Least, Got
  <2>. QED BY <2>1, SMT, SMTT(20) DEF IInv, LockTypeOK
<1>3. l \in {"clean", "unlock"} /\ m \in {"locked", "getChan"}
  OBVIOUS
<1>4. at[t] \in {"locked", "unlock"} /\ UNCHANGED <<list, owner, key, unswept, toDelete, rounds>>
  BY DEF Unlock
<1>5. \/ /\ waiters[c] = <<>> /\ chan' = [chan EXCEPT ![c] = "full"]
         /\ chans' = [chans EXCEPT ![t][k] = NoChan]
         /\ at' = [at EXCEPT ![t] = l] /\ UNCHANGED <<waiters, ref>>
      \/ /\ waiters[c] # <<>> /\ waiters' = [waiters EXCEPT ![c] = Tail(@)]
         /\ chans' = [chans EXCEPT ![t][k] = NoChan, ![w][key[w]] = c]
         /\ at' = [at EXCEPT ![t] = l, ![w] = m] /\ ref' = [ref EXCEPT ![w] = NoChan]
         /\ chan' = chan
  BY <1>1 DEF GiveBack
<1>. HIDE DEF l, m, c, w
<1>6. c = chans[t][k] /\ w = Head(waiters[c])
  BY DEF c, w
<1>7. CASE waiters[c] = <<>>
  BY <1>2, <1>3, <1>4, <1>5, <1>6, <1>7, FreeStep
<1>8. CASE waiters[c] # <<>>
  <2>1. /\ waiters' = [waiters EXCEPT ![c] = Tail(@)]
        /\ chans' = [chans EXCEPT ![t][k] = NoChan, ![w][key[w]] = c]
        /\ at' = [at EXCEPT ![t] = l, ![w] = m] /\ ref' = [ref EXCEPT ![w] = NoChan]
        /\ UNCHANGED <<chan, list, owner, key, unswept, toDelete, rounds>>
    BY <1>4, <1>5, <1>8
  <2>. QED BY <1>2, <1>3, <1>4, <1>6, <1>8, <2>1, HandOverStep
<1>. QED BY <1>7, <1>8

(* The invariant holds of every behaviour of Lock, Unlock and Clean.       *)
LEMMA Invariance == LockSpec => []IInv
<1>1. LockInit => IInv
  BY MultilockAssumption, SMT, SMTT(20)
  DEF LockInit, IInv, LockTypeOK, Locations, HeldChannelsAreOpen, MutualExclusion, Got,
      OneChannelPerKey, WaitersAreCurrent, ParkedAreQueued, ClosedAreSwept
<1>2. IInv /\ [LockNext]_lockVars => IInv'
  <2>. SUFFICES ASSUME IInv, [LockNext]_lockVars PROVE IInv'
    OBVIOUS
  <2>1. CASE LockNext
    BY <2>1, LockStep, GetChanStep, ReceiveStep, UnlockStep, CleanStartStep, SweepStep, CleanEndStep
    DEF LockNext, ThreadStep
  <2>2. CASE UNCHANGED lockVars
    <3>1. LockTypeOK'
      BY <2>2 DEF lockVars, IInv, LockTypeOK
    <3>2. HeldChannelsAreOpen' /\ MutualExclusion'
      <4>1. HeldChannelsAreOpen /\ MutualExclusion /\ chans' = chans /\ list' = list /\ chan' = chan
        BY <2>2 DEF lockVars, IInv
      <4>2. \A u \in Threads : Got(u)' = Got(u)
        BY <4>1 DEF Got
      <4>. QED BY <4>1, <4>2 DEF HeldChannelsAreOpen, MutualExclusion
    <3>3. OneChannelPerKey' /\ WaitersAreCurrent'
      BY <2>2 DEF lockVars, IInv, OneChannelPerKey, WaitersAreCurrent
    <3>4. ParkedAreQueued' /\ ClosedAreSwept'
      BY <2>2, SMT, SMTT(20) DEF lockVars, IInv, ParkedAreQueued, ClosedAreSwept
    <3> QED BY <3>1, <3>2, <3>3, <3>4 DEF IInv
  <2>. QED BY <2>1, <2>2
<1>. QED BY <1>1, <1>2, PTL DEF LockSpec

(* No two goroutines hold one key, for any goroutines, keys and overlaps,  *)
(* although Clean replaces the channels of keys all the time.              *)
THEOREM KeysAreExclusive == LockSpec => []MutualExclusion
BY Invariance, PTL DEF IInv

(* Unlock never sends on a closed channel (which would panic) nor on one   *)
(* that has its token (which would block).                                 *)
THEOREM UnlockNeverPanics == LockSpec => []HeldChannelsAreOpen
BY Invariance, PTL DEF IInv
=============================================================================
