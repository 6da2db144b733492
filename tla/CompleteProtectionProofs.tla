----------------------- MODULE CompleteProtectionProofs -----------------------
(***************************************************************************)
(* The complete slashing protection database keeps what it promises, for   *)
(* any keys, proposals and attestations.                                   *)
(***************************************************************************)
EXTENDS ProposerProtection, AttesterProtection, WellFoundedInduction, TLAPS

\* Most leaves are first-order; the solver takes arithmetic and sequences.
USE ZenonT(10), SMTT(20), ZenonT(30), SMTT(40)

-----------------------------------------------------------------------------
(***************************************************************************)
(* The complete database protects proposals although it is pruned, for any *)
(* keys, slots and periods: a submitted block is in the database or older  *)
(* than the period, and the database holds one block per slot.             *)
(***************************************************************************)

\* The history is a map from slots to signing roots.
OnePerSlot ==
  \A k \in ProposerKeys : \A p, q \in signed[k] : p.slot = q.slot => p = q

\* A block that waits to be submitted conflicts with none that was.
PendingIsSafe ==
  \A k \in ProposerKeys : \A b \in pending[k], n \in submitted[k] : n.slot = b.slot => n = b

ProposerInv == ProposerTypeOK /\ RecentAreKept /\ OnePerSlot /\ PendingIsSafe

\* Slots are numbers.
LEMMA SlotType == \A b \in Proposals : b.slot \in Nat
BY ProposerAssumption

\* Integer division by the length of an epoch is monotone.
LEMMA EpochMonotone ==
  ASSUME NEW x \in Int, NEW y \in Int, x <= y
  PROVE  ToEpoch(x) <= ToEpoch(y) /\ ToEpoch(x) \in Int /\ ToEpoch(y) \in Int
<1> DEFINE N == SlotsPerEpoch
           p == x \div N
           q == y \div N
<1>1. N \in Nat /\ N >= 1
  BY ProposerAssumption, SMT, SMTT(20)
<1>2. p \in Int /\ q \in Int
  BY <1>1, SMT, SMTT(20)
<1>3. N * p <= x /\ x < N * p + N /\ N * q <= y /\ y < N * q + N
  BY <1>1, SMT, SMTT(20)
<1> HIDE DEF N, p, q
<1>4. SUFFICES ASSUME q + 1 <= p PROVE FALSE
  BY <1>2, SMT, SMTT(20) DEF ToEpoch, N, p, q
<1>5. N * (q + 1) <= N * p
  BY <1>1, <1>2, <1>4, SMT, SMTT(20)
<1>6. N * (q + 1) = N * q + N
  BY <1>1, <1>2, SMT, SMTT(20)
<1>7. N * p \in Int /\ N * q \in Int
  BY <1>1, <1>2, SMT, SMTT(20)
<1> QED BY <1>1, <1>3, <1>5, <1>6, <1>7, SMT, SMTT(20)

\* What is too old for a slot is too old for a later one.
LEMMA OldMonotone ==
  ASSUME NEW s \in Nat, NEW x \in Int, NEW y \in Int, x <= y, IsOld(s, x)
  PROVE  IsOld(s, y)
BY EpochMonotone, ProposerAssumption, SMT, SMTT(20) DEF IsOld

\* A block is not too old for its own slot.
LEMMA FreshIsKept ==
  ASSUME NEW s \in Nat
  PROVE  ~Prunable(s, s)
<1>1. ToEpoch(s) \in Int
  BY EpochMonotone, SMT, SMTT(20)
<1> QED BY <1>1, ProposerAssumption, SMT, SMTT(20) DEF Prunable

\* Nothing is signed at first.
LEMMA ProposerInitInv == ProposerInit => ProposerInv
BY DEF ProposerInit, ProposerInv, ProposerTypeOK, RecentAreKept, OnePerSlot, PendingIsSafe, NoSlot

\* SlashableProposalCheck: the check, the save and the pruning that goes with it.
LEMMA ProposalCheckStep ==
  ASSUME ProposerInv, NEW k \in ProposerKeys, NEW b \in Proposals, CheckProposal(k, b)
  PROVE  ProposerInv'
<1> DEFINE S == {p \in {q \in signed[k] : q.slot # b.slot} \union {b} : ~Prunable(p.slot, b.slot)}
           H == IF b.slot > highest[k] THEN b.slot ELSE highest[k]
<1>1. /\ signed' = [signed EXCEPT ![k] = S]
      /\ lowest' = [lowest EXCEPT ![k] = IF lowest[k] = NoSlot \/ b.slot < lowest[k] THEN b.slot ELSE lowest[k]]
      /\ highest' = [highest EXCEPT ![k] = H]
      /\ pending' = [pending EXCEPT ![k] = {b}]
      /\ submitted' = submitted
  BY DEF CheckProposal, SaveProposal
<1>2. b.slot \in Nat /\ highest[k] \in Int /\ highest[k] \in Nat \union {NoSlot}
  BY SlotType, SMT, SMTT(20) DEF ProposerInv, ProposerTypeOK, NoSlot
<1>3. H \in Nat \union {NoSlot} /\ H \in Int /\ H >= b.slot /\ H >= highest[k]
  BY <1>2, SMT, SMTT(20) DEF NoSlot
<1>4. b \in S /\ S \subseteq signed[k] \union {b}
  BY FreshIsKept, <1>2
<1>5. /\ signed'[k] = S /\ highest'[k] = H /\ pending'[k] = {b} /\ submitted'[k] = submitted[k]
      /\ \A j \in ProposerKeys : j # k => /\ signed'[j] = signed[j] /\ highest'[j] = highest[j]
                                          /\ pending'[j] = pending[j] /\ submitted'[j] = submitted[j]
  BY <1>1 DEF ProposerInv, ProposerTypeOK
<1>6. ProposerTypeOK'
  <2>1. S \subseteq Proposals
    BY <1>4 DEF ProposerInv, ProposerTypeOK
  <2> HIDE DEF S, H
  <2>2. (IF lowest[k] = NoSlot \/ b.slot < lowest[k] THEN b.slot ELSE lowest[k]) \in Nat \union {NoSlot}
    BY <1>2 DEF ProposerInv, ProposerTypeOK
  <2> QED BY <1>1, <1>3, <2>1, <2>2 DEF ProposerInv, ProposerTypeOK
<1>7. ASSUME NEW c \in submitted[k]
      PROVE  /\ c \in S \/ IsOld(c.slot, H)
             /\ c.slot = b.slot => c = b
  <2>1. c \in Proposals /\ c.slot \in Nat
    BY SlotType DEF ProposerInv, ProposerTypeOK
  <2>2. c \in signed[k] \/ IsOld(c.slot, highest[k])
    BY DEF ProposerInv, RecentAreKept
  <2>3. c.slot = b.slot => c = b
    <3> SUFFICES ASSUME c.slot = b.slot PROVE c = b
      OBVIOUS
    <3>1. c \in signed[k]
      BY <2>2 DEF CheckProposal
    <3>2. b \in signed[k]
      BY <3>1 DEF CheckProposal, IsSafeProposal, ProposalAtSlotExists
    <3> QED BY <3>1, <3>2 DEF ProposerInv, OnePerSlot
  <2>4. CASE IsOld(c.slot, highest[k])
    BY <2>1, <2>3, <2>4, <1>2, <1>3, OldMonotone
  <2>5. CASE c \in signed[k] /\ ~Prunable(c.slot, b.slot)
    BY <2>3, <2>5, <1>4
  <2>6. CASE Prunable(c.slot, b.slot)
    BY <2>1, <2>3, <2>6, <1>2, <1>3, OldMonotone, SMT, SMTT(20) DEF Prunable, IsOld
  <2> QED BY <2>2, <2>4, <2>5, <2>6
<1>8. RecentAreKept'
  <2> HIDE DEF S, H
  <2> SUFFICES ASSUME NEW j \in ProposerKeys, NEW c \in submitted'[j] \union pending'[j]
               PROVE  c \in signed'[j] \/ IsOld(c.slot, highest'[j])
    BY DEF RecentAreKept, IsOld, ToEpoch
  <2>1. CASE j = k
    BY <2>1, <1>4, <1>5, <1>7
  <2>2. CASE j # k
    BY <2>2, <1>5 DEF ProposerInv, RecentAreKept
  <2> QED BY <2>1, <2>2
<1>9. OnePerSlot'
  <2> SUFFICES ASSUME NEW j \in ProposerKeys, NEW p \in signed'[j], NEW q \in signed'[j], p.slot = q.slot
               PROVE  p = q
    BY DEF OnePerSlot
  <2>1. CASE j = k
    BY <2>1, <1>5 DEF ProposerInv, OnePerSlot
  <2>2. CASE j # k
    BY <2>2, <1>5 DEF ProposerInv, OnePerSlot
  <2> QED BY <2>1, <2>2
<1>10. PendingIsSafe'
  <2> HIDE DEF S, H
  <2> SUFFICES ASSUME NEW j \in ProposerKeys, NEW c \in pending'[j], NEW n \in submitted'[j], n.slot = c.slot
               PROVE  n = c
    BY DEF PendingIsSafe
  <2>1. CASE j = k
    BY <2>1, <1>5, <1>7
  <2>2. CASE j # k
    BY <2>2, <1>5 DEF ProposerInv, PendingIsSafe
  <2> QED BY <2>1, <2>2
<1> QED BY <1>6, <1>8, <1>9, <1>10 DEF ProposerInv

\* Handing the block to the beacon node, after the check.
LEMMA SubmitStep ==
  ASSUME ProposerInv, NEW k \in ProposerKeys, SubmitProposal(k)
  PROVE  ProposerInv'
<1>1. /\ signed' = signed /\ highest' = highest /\ lowest' = lowest
      /\ submitted' = [submitted EXCEPT ![k] = @ \union pending[k]]
      /\ pending' = [pending EXCEPT ![k] = {}]
  BY DEF SubmitProposal
<1>2. pending[k] \subseteq Proposals
  <2>1. pending[k] \in {{}} \union {{b} : b \in Proposals}
    BY DEF ProposerInv, ProposerTypeOK
  <2> QED BY <2>1
<1>3. ProposerTypeOK'
  BY <1>1, <1>2 DEF ProposerInv, ProposerTypeOK
<1>4. \A j \in ProposerKeys : /\ submitted'[j] \union pending'[j] \subseteq submitted[j] \union pending[j]
                              /\ j # k => submitted'[j] = submitted[j] /\ pending'[j] = pending[j]
                              /\ j = k => pending'[j] = {}
  BY <1>1 DEF ProposerInv, ProposerTypeOK
<1>5. RecentAreKept'
  <2> SUFFICES ASSUME NEW j \in ProposerKeys, NEW c \in submitted'[j] \union pending'[j]
               PROVE  c \in signed[j] \/ IsOld(c.slot, highest[j])
    BY <1>1 DEF RecentAreKept, IsOld, ToEpoch
  <2> QED BY <1>4 DEF ProposerInv, RecentAreKept
<1>6. OnePerSlot' /\ PendingIsSafe'
  BY <1>1, <1>4, SMT, SMTT(20) DEF ProposerInv, OnePerSlot, PendingIsSafe
<1> QED BY <1>3, <1>5, <1>6 DEF ProposerInv

\* A crash loses what was checked and not submitted.
LEMMA ProposerCrashStep ==
  ASSUME ProposerInv, ProposerCrash
  PROVE  ProposerInv'
<1>1. /\ signed' = signed /\ highest' = highest /\ lowest' = lowest /\ submitted' = submitted
      /\ \A k \in ProposerKeys : pending'[k] = {}
  BY DEF ProposerCrash
<1>2. ProposerTypeOK'
  BY DEF ProposerCrash, ProposerInv, ProposerTypeOK
<1>3. RecentAreKept' /\ OnePerSlot' /\ PendingIsSafe'
  BY <1>1 DEF ProposerInv, RecentAreKept, OnePerSlot, PendingIsSafe, IsOld, ToEpoch
<1> QED BY <1>2, <1>3 DEF ProposerInv

\* The invariant of the proposer side.
LEMMA ProposerInvariance == ProposerSpec => []ProposerInv
<1>1. ASSUME ProposerInv, [ProposerNext]_proposerVars PROVE ProposerInv'
  <2>1. CASE UNCHANGED proposerVars
    BY <1>1, <2>1 DEF proposerVars, ProposerInv, ProposerTypeOK, RecentAreKept, OnePerSlot, PendingIsSafe, IsOld, ToEpoch
  <2>2. CASE ProposerNext
    BY <1>1, <2>2, ProposalCheckStep, SubmitStep, ProposerCrashStep DEF ProposerNext
  <2> QED BY <1>1, <2>1, <2>2
<1> QED BY <1>1, ProposerInitInv, PTL DEF ProposerSpec

\* Pruning never deletes a submitted block that is younger than the weak
\* subjectivity period.
THEOREM PruningKeepsRecent == ProposerSpec => []RecentAreKept
<1>1. ProposerInv => RecentAreKept
  BY DEF ProposerInv
<1> QED BY <1>1, ProposerInvariance, PTL

\* SlashableProposalCheck implements slashing protection: of each key at most
\* one block is submitted per slot.
THEOREM ProposerIsProtected == ProposerSpec => NoSecondProposal
<1>1. ProposerInit => ProposalHistory!Init
  BY DEF ProposerInit, ProposalHistory!Init
<1>2. ASSUME ProposerInv, [ProposerNext]_proposerVars PROVE [ProposalHistory!Next]_submitted
  <2>1. CASE \E k \in ProposerKeys : SubmitProposal(k)
    <3>1. PICK k \in ProposerKeys : SubmitProposal(k)
      BY <2>1
    <3>2. pending[k] \in {{}} \union {{b} : b \in Proposals} /\ pending[k] # {}
      BY <3>1, <1>2 DEF ProposerInv, ProposerTypeOK, SubmitProposal
    <3>3. PICK b \in Proposals : pending[k] = {b}
      BY <3>2
    <3>4. \A n \in submitted[k] : ~IsDoubleProposal(n, b) /\ ~IsDoubleProposal(b, n)
      BY <3>3, <1>2 DEF ProposerInv, PendingIsSafe, IsDoubleProposal
    <3>5. ProposalHistory!Publish(k, b)
      BY <3>1, <3>3, <3>4 DEF ProposalHistory!Publish, SubmitProposal
    <3> QED BY <3>5 DEF ProposalHistory!Next
  <2>2. CASE ~\E k \in ProposerKeys : SubmitProposal(k)
    BY <1>2, <2>2 DEF ProposerNext, proposerVars, CheckProposal, ProposerCrash
  <2> QED BY <2>1, <2>2
<1> QED BY <1>1, <1>2, ProposerInvariance, PTL DEF ProposerSpec, NoSecondProposal, ProposalHistory!Spec

-----------------------------------------------------------------------------
(***************************************************************************)
(* The complete database, attestations.  What is published while no record *)
(* of its key is on its way has been written: from then on the signing     *)
(* roots hold it, or its epoch is over, and some vote in the database has  *)
(* at least its source.  Attestations are checked at the epoch of the      *)
(* clock, so whatever passes the check later is the same vote or a later   *)
(* one that does not surround it; failing flushes, crashes and pruning     *)
(* keep all of this.                                                       *)
(***************************************************************************)

(* A nonempty set of naturals has a lowest member, and a highest one if it *)
(* is bounded.                                                             *)
LEMMA LowestMember ==
    ASSUME NEW S \in SUBSET Nat, S # {}
    PROVE  Min(S) \in S /\ \A e \in S : Min(S) <= e
<1>1. PICK d \in S : \A c \in S : ~(<<c, d>> \in OpToRel(<, Nat))
  BY NatLessThanWellFounded, WFMin
<1>2. \A c \in S : d <= c
  <2> SUFFICES ASSUME NEW c \in S, c < d PROVE FALSE
    BY SMT, SMTT(20)
  <2>1. <<c, d>> \in OpToRel(<, Nat)
    BY DEF OpToRel
  <2> QED
    BY <1>1, <2>1
<1> QED
  BY <1>2 DEF Min

\* A bounded set of numbers has its maximum.
LEMMA HighestMember ==
    ASSUME NEW n \in Nat, NEW S \in SUBSET (0 .. n), S # {}
    PROVE  Max(S) \in S /\ \A e \in S : Max(S) >= e
<1> DEFINE D == {n - e : e \in S}
<1>1. D \subseteq Nat
  <2>1. \A e \in S : e \in 0 .. n
    OBVIOUS
  <2> QED
    BY <2>1, SMT, SMTT(20)
<1>2. D # {}
  <2>1. PICK e \in S : TRUE
    OBVIOUS
  <2>2. n - e \in D
    OBVIOUS
  <2> QED
    BY <2>2
<1> HIDE DEF D
<1>3. PICK d \in D : \A c \in D : d <= c
  BY <1>1, <1>2, LowestMember
<1>4. PICK m \in S : d = n - m
  BY DEF D
<1>5. \A e \in S : m >= e
  <2> SUFFICES ASSUME NEW e \in S PROVE m >= e
    OBVIOUS
  <2>1. n - e \in D
    BY DEF D
  <2>2. e \in 0 .. n /\ m \in 0 .. n
    OBVIOUS
  <2> QED
    BY <1>3, <1>4, <2>1, <2>2, SMT, SMTT(20)
<1> QED
  BY <1>5 DEF Max

(* The ranges of sequences that grow, shrink and are joined.               *)
LEMMA Ranges ==
    ASSUME NEW R, NEW s \in Seq(R), NEW x \in R
    PROVE  /\ Range(Append(s, x)) = Range(s) \cup {x}
           /\ s # <<>> => Range(s) = {Head(s)} \cup Range(Tail(s))
           /\ Range(<<>>) = {}
           /\ Range(s) \subseteq R
<1>1. Range(Append(s, x)) = Range(s) \cup {x}
  <2>1. DOMAIN Append(s, x) = 1 .. (Len(s) + 1) /\ DOMAIN s = 1 .. Len(s) /\ Len(s) \in Nat
    BY SMT, SMTT(20)
  <2>2. \A i \in DOMAIN s : Append(s, x)[i] = s[i]
    BY <2>1, SMT, SMTT(20)
  <2>3. Append(s, x)[Len(s) + 1] = x
    BY <2>1, SMT, SMTT(20)
  <2> QED
    BY <2>1, <2>2, <2>3, SMT, SMTT(20) DEF Range
<1>2. ASSUME s # <<>> PROVE Range(s) = {Head(s)} \cup Range(Tail(s))
  <2> DEFINE t == Tail(s)
  <2>1. /\ Len(s) \in Nat \ {0} /\ DOMAIN s = 1 .. Len(s)
        /\ DOMAIN t = 1 .. (Len(s) - 1)
        /\ \A i \in 1 .. (Len(s) - 1) : t[i] = s[i + 1]
        /\ Head(s) = s[1]
    BY <1>2, SMT, SMTT(20)
  <2> HIDE DEF t
  <2>2. ASSUME NEW i \in DOMAIN s, i # 1
        PROVE  \E j \in DOMAIN t : t[j] = s[i]
    <3>1. i - 1 \in 1 .. (Len(s) - 1) /\ (i - 1) + 1 = i
      BY <2>1, <2>2, SMT, SMTT(20)
    <3>2. t[i - 1] = s[i]
      BY <2>1, <3>1
    <3> QED
      BY <2>1, <3>1, <3>2
  <2>3. \A j \in DOMAIN t : \E i \in DOMAIN s : t[j] = s[i]
    BY <2>1, SMT, SMTT(20)
  <2>4. 1 \in DOMAIN s
    BY <2>1, SMT, SMTT(20)
  <2>5. Range(s) = {Head(s)} \cup Range(t)
    BY <2>1, <2>2, <2>3, <2>4, SMT, SMTT(20) DEF Range
  <2> QED
    BY <2>5 DEF t
<1>3. Range(<<>>) = {}
  BY SMT, SMTT(20) DEF Range
<1>4. Range(s) \subseteq R
  BY SMT, SMTT(20) DEF Range
<1> QED
  BY <1>1, <1>2, <1>3, <1>4

-----------------------------------------------------------------------------
(* The inductive invariant *)

(* The record of an attestation of a key.                                  *)
RecordOf(k, a) == [key |-> k, att |-> a]

(* Where a sequence of records stands with the key k: it has none of it,   *)
(* or r is the last one.                                                   *)
Without(s, k) == \A j \in DOMAIN s : s[j].key # k

LastOf(s, k, r) == \E i \in DOMAIN s : s[i] = r /\ \A j \in DOMAIN s : j > i => s[j].key # k

(* The record of a signer that waits is the last of its key on the way to  *)
(* the database, or it has arrived and nothing follows it.                 *)
Delivered(k) ==
    \/ LastOf(queue, k, RecordOf(k, att[k]))
    \/ Without(queue, k) /\ LastOf(batch, k, RecordOf(k, att[k]))
    \/ /\ Without(queue, k) /\ Without(batch, k)
       /\ flusher = "save" /\ LastOf(flushing, k, RecordOf(k, att[k]))
    \/ ~OnItsWay(k) /\ Saved(k, att[k])

(* b may follow a: it is a again, or a later vote that does not surround   *)
(* it.                                                                     *)
Follows(a, b) == b = a \/ (a.target < b.target /\ a.source <= b.source)

(* The history H of a key reaches no further than the epoch e, and what it *)
(* holds for e is in the signing roots too.                                *)
UpTo(H, e) ==
    /\ \A t \in Epochs : H.roots[t] # None => t <= e
    /\ \A p \in H.bySource : p[2] <= e /\ (p[2] = e => H.roots[e] # None)

(* The history H protects a at epoch e: the signing root of a is there     *)
(* unless its epoch is over, later votes follow it, and some vote has at   *)
(* least its source.                                                       *)
Protects(H, a, e) ==
    /\ a.target <= e
    /\ H.roots[a.target] = a \/ (H.roots[a.target] = None /\ a.target < e)
    /\ \A t \in Epochs : t > a.target /\ H.roots[t] # None => Follows(a, H.roots[t])
    /\ \E p \in H.bySource : p[1] >= a.source

History == [roots : [Epochs -> Attestations \cup {None}],
            bySource : SUBSET (Epochs \X Epochs), byTarget : SUBSET (Epochs \X Epochs),
            lowestSource : Epochs \cup {None}, lowestTarget : Epochs \cup {None}]

AttesterType ==
    /\ epoch \in Nat
    /\ db \in [PubKeys -> History]
    /\ queue \in Seq(Record) /\ batch \in Seq(Record) /\ flushing \in Seq(Record)
    /\ flusher \in {"select", "save", "ok", "error"}
    /\ flusher = "save" => batch = <<>>
    /\ pc \in [PubKeys -> {"idle", "checked", "queued", "subscribed"}]
    /\ att \in [PubKeys -> Attestations \cup {None}]
    /\ \A k \in PubKeys : pc[k] # "idle" => att[k] \in Attestations
    /\ published \in [PubKeys -> SUBSET Attestations]
    /\ early \in [PubKeys -> SUBSET Attestations]

(* Nothing known of a key is ahead of the clock, nor of the attestation    *)
(* that its signer is about.                                               *)
NothingAhead(k) ==
    /\ UpTo(db[k], epoch)
    /\ \A r \in InFlight : r.key = k => r.att.target <= epoch
    /\ pc[k] # "idle" =>
         /\ att[k].target <= epoch
         /\ \A r \in InFlight : r.key = k => r.att.target <= att[k].target
         /\ \A t \in Epochs : db[k].roots[t] # None => t <= att[k].target

(* An attestation that was not published early is protected, and all that  *)
(* is on its way follows it.                                               *)
Settled(k, a) ==
    /\ Protects(db[k], a, epoch)
    /\ \A r \in InFlight : r.key = k => Follows(a, r.att)
    /\ pc[k] # "idle" => Follows(a, att[k])

AttesterInv ==
    /\ AttesterType
    /\ \A k \in PubKeys :
         /\ pc[k] \in {"queued", "subscribed"} => Delivered(k)
         /\ NothingAhead(k)
         /\ \A a \in published[k] \ early[k] :
              /\ Settled(k, a)
              /\ \A b \in published[k] \ early[k] : Follows(a, b) \/ Follows(b, a)

-----------------------------------------------------------------------------
(* The check *)

(* SlashableAttestationCheck at epoch e lets only attestations pass that   *)
(* follow those the history protects.                                      *)
LEMMA CheckedFollows ==
    ASSUME NEW H \in History, NEW e \in Nat, UpTo(H, e),
           NEW a \in Attestations, Protects(H, a, e),
           NEW b \in Attestations, b.target = e, IsSafe(H, b)
    PROVE  Follows(a, b)
<1>1. /\ a.source \in Nat /\ a.target \in Nat /\ b.source \in Nat
      /\ a.target \in Epochs /\ e \in Epochs /\ a # None
  BY AttesterAssumption, SMT, SMTT(20) DEF Epochs
<1>2. H.roots[e] # None => H.roots[e] = b
  BY DEF IsSafe, DoubleVote
<1>3. CASE a.target = e
  BY <1>1, <1>2, <1>3, SMT, SMTT(20) DEF Protects, Follows
<1>4. CASE a.target < e /\ a.source <= b.source
  BY <1>4 DEF Follows
<1>5. CASE a.target < e /\ b.source < a.source
  <2>1. PICK p \in H.bySource : p[1] >= a.source
    BY DEF Protects
  <2>2. p \in Epochs \X Epochs /\ p[1] \in Nat /\ p[2] \in Nat
    BY SMT, SMTT(20) DEF History, Epochs
  <2>3. CASE p[2] = e
    BY <1>1, <1>2, <1>5, <2>3 DEF UpTo, Protects
  <2>4. CASE p[2] # e
    <3>1. p[2] < e /\ p[1] > b.source
      BY <1>1, <1>5, <2>1, <2>2, <2>4, SMT, SMTT(20) DEF UpTo
    <3>2. Surrounding(H, b)
      BY <3>1 DEF Surrounding, IsSurround
    <3> QED
      BY <3>2 DEF IsSafe
  <2> QED
    BY <2>3, <2>4
<1> QED
  BY <1>1, <1>3, <1>4, <1>5, SMT, SMTT(20) DEF Protects

-----------------------------------------------------------------------------
(* The database *)

\* The lowest signed epoch of a key is an epoch, or absent.
LEMMA LowestType ==
    ASSUME NEW low \in Epochs \cup {None}, NEW targets \in SUBSET Epochs
    PROVE  Lowest(low, targets) \in Epochs \cup {None}
<1> DEFINE all == targets \cup ({low} \ {None})
<1>1. all \subseteq Epochs
  OBVIOUS
<1>4. Epochs \subseteq Nat
  BY AttesterAssumption, SMT, SMTT(20) DEF Epochs
<1>2. CASE all = {}
  BY <1>2 DEF Lowest
<1>3. CASE all # {}
  <2>1. Lowest(low, targets) = Min(all)
    BY <1>3 DEF Lowest
  <2> HIDE DEF all
  <2>2. Min(all) \in all
    BY <1>1, <1>3, <1>4, LowestMember
  <2> QED
    BY <1>1, <2>1, <2>2
<1> QED
  BY <1>2, <1>3

(* What a transaction that puts the records leaves of the history K of a   *)
(* key: the history H.                                                     *)
Written(H, K, records, k) ==
  LET of == {i \in DOMAIN records : records[i].key = k} IN
  /\ H \in History
  /\ K.bySource \subseteq H.bySource
  /\ \A i \in of : <<records[i].att.source, records[i].att.target>> \in H.bySource
  /\ \A p \in H.bySource : p \in K.bySource
       \/ \E i \in of : p = <<records[i].att.source, records[i].att.target>>
  /\ \A t \in Epochs :
       \/ H.roots[t] = K.roots[t] /\ \A i \in of : records[i].att.target # t
       \/ \E i \in of : /\ H.roots[t] = records[i].att
                        /\ records[i].att.target = t
                        /\ \A j \in of : records[j].att.target = t => j <= i

(* What saveAttestationRecords does to the history of a key.               *)
LEMMA SaveFields ==
    ASSUME NEW D \in [PubKeys -> History], NEW records \in Seq(Record), NEW k \in PubKeys
    PROVE  Written(SaveRecords(D, records)[k], D[k], records, k)
<1> DEFINE of == {i \in DOMAIN records : records[i].key = k}
           for(t) == {i \in of : records[i].att.target = t}
           pairs == {<<records[i].att.source, records[i].att.target>> : i \in of}
           roots == [t \in Epochs |-> IF for(t) = {} THEN D[k].roots[t]
                                                     ELSE records[Max(for(t))].att]
           ls == Lowest(D[k].lowestSource, {p[1] : p \in pairs})
           lt == Lowest(D[k].lowestTarget, {p[2] : p \in pairs})
           H == SaveRecords(D, records)[k]
<1>1. H = [roots |-> roots, bySource |-> D[k].bySource \cup pairs,
           byTarget |-> D[k].byTarget \cup pairs, lowestSource |-> ls, lowestTarget |-> lt]
  BY DEF SaveRecords
<1>2. \A i \in of : /\ records[i] \in Record /\ records[i].att \in Attestations
                    /\ records[i].att.source \in Epochs /\ records[i].att.target \in Epochs
  <2>1. \A i \in DOMAIN records : records[i] \in Record
    BY SMT, SMTT(20)
  <2>2. \A r \in Record : r.att \in Attestations
    BY DEF Record
  <2> QED
    BY <2>1, <2>2, AttesterAssumption
<1>3. pairs \subseteq Epochs \X Epochs
  BY <1>2, SMT, SMTT(20)
<1>4. D[k] \in History
  OBVIOUS
<1>5. ASSUME NEW t \in Epochs, for(t) # {}
      PROVE  Max(for(t)) \in for(t) /\ \A j \in for(t) : Max(for(t)) >= j
  <2>1. Len(records) \in Nat /\ for(t) \subseteq 0 .. Len(records)
    BY SMT, SMTT(20)
  <2> HIDE DEF for
  <2> QED
    BY <1>5, <2>1, HighestMember
<1>6. roots \in [Epochs -> Attestations \cup {None}]
  BY <1>2, <1>4, <1>5 DEF History
<1>7. ls \in Epochs \cup {None} /\ lt \in Epochs \cup {None}
  <2>1. {p[1] : p \in pairs} \subseteq Epochs /\ {p[2] : p \in pairs} \subseteq Epochs
    BY <1>3
  <2>2. D[k].lowestSource \in Epochs \cup {None} /\ D[k].lowestTarget \in Epochs \cup {None}
    BY <1>4 DEF History
  <2> HIDE DEF pairs
  <2> QED
    BY <2>1, <2>2, LowestType
<1>8. D[k].bySource \subseteq Epochs \X Epochs /\ D[k].byTarget \subseteq Epochs \X Epochs
  BY <1>4 DEF History
<1>9. ASSUME NEW t \in Epochs
      PROVE  \/ /\ roots[t] = D[k].roots[t]
                /\ \A i \in of : records[i].att.target # t
             \/ \E i \in of : /\ roots[t] = records[i].att
                              /\ records[i].att.target = t
                              /\ \A j \in of : records[j].att.target = t => j <= i
  BY <1>5
<1> HIDE DEF H, pairs, roots, ls, lt, of
<1>10. H \in History
  BY <1>1, <1>3, <1>6, <1>7, <1>8 DEF History
<1>11. H.roots = roots /\ H.bySource = D[k].bySource \cup pairs
  BY <1>1
<1> QED
  BY <1>9, <1>10, <1>11 DEF Written, pairs, of, H

(* saveAttestationRecords keeps what the invariant says of a history.      *)
LEMMA SaveKeeps ==
    ASSUME NEW D \in [PubKeys -> History], NEW records \in Seq(Record), NEW k \in PubKeys,
           NEW e \in Nat, UpTo(D[k], e),
           \A i \in DOMAIN records : records[i].key = k => records[i].att.target <= e,
           NEW H, H = SaveRecords(D, records)[k]
    PROVE  /\ UpTo(H, e)
           /\ \A a \in Attestations :
                /\ Protects(D[k], a, e)
                /\ \A i \in DOMAIN records : records[i].key = k => Follows(a, records[i].att)
                => Protects(H, a, e)
<1> DEFINE of == {i \in DOMAIN records : records[i].key = k}
<1>1. /\ H \in History
      /\ D[k].bySource \subseteq H.bySource
      /\ \A p \in H.bySource : p \in D[k].bySource
           \/ \E i \in of : p = <<records[i].att.source, records[i].att.target>>
      /\ \A t \in Epochs :
           \/ H.roots[t] = D[k].roots[t] /\ \A i \in of : records[i].att.target # t
           \/ \E i \in of : H.roots[t] = records[i].att /\ records[i].att.target = t
  <2>1. Written(H, D[k], records, k)
    BY SaveFields
  <2> QED
    BY <2>1 DEF Written
<1>2. \A i \in of : /\ records[i].att \in Attestations /\ records[i].att # None
                    /\ records[i].att.target <= e
                    /\ records[i].att.target \in Epochs
  <2>1. \A i \in DOMAIN records : records[i] \in Record
    BY SMT, SMTT(20)
  <2>2. \A r \in Record : r.att \in Attestations
    BY DEF Record
  <2> QED
    BY <2>1, <2>2, AttesterAssumption
<1>3. UpTo(H, e)
  <2>1. \A t \in Epochs : H.roots[t] # None => t <= e
    BY <1>1, <1>2 DEF UpTo
  <2>2. ASSUME NEW p \in H.bySource
        PROVE  p[2] <= e /\ (p[2] = e => H.roots[e] # None)
    <3>1. p[2] \in Epochs
      BY <1>1 DEF History
    <3>2. CASE p \in D[k].bySource
      BY <1>1, <1>2, <3>1, <3>2, SMT, SMTT(20) DEF UpTo
    <3>3. CASE p \notin D[k].bySource
      <4>1. PICK i \in of : p[2] = records[i].att.target
        BY <1>1, <3>3, SMT, SMTT(20)
      <4> QED
        BY <1>1, <1>2, <3>1, <4>1, SMT, SMTT(20)
    <3> QED
      BY <3>2, <3>3
  <2> QED
    BY <2>1, <2>2 DEF UpTo
<1>4. ASSUME NEW a \in Attestations, Protects(D[k], a, e),
             \A i \in DOMAIN records : records[i].key = k => Follows(a, records[i].att)
      PROVE  Protects(H, a, e)
  <2>1. a.target \in Epochs /\ a.target \in Nat
    BY AttesterAssumption, SMT, SMTT(20) DEF Epochs
  <2>2. \A i \in of : records[i].att.target = a.target => records[i].att = a
    BY <1>4, <2>1, SMT, SMTT(20) DEF Follows
  <2>3. H.roots[a.target] = a \/ (H.roots[a.target] = None /\ a.target < e)
    BY <1>1, <1>4, <2>1, <2>2, SMT, SMTT(20) DEF Protects
  <2>4. \A t \in Epochs : t > a.target /\ H.roots[t] # None => Follows(a, H.roots[t])
    BY <1>1, <1>4 DEF Protects
  <2>5. \E p \in H.bySource : p[1] >= a.source
    BY <1>1, <1>4 DEF Protects
  <2> QED
    BY <1>4, <2>3, <2>4, <2>5 DEF Protects
<1> QED
  BY <1>3, <1>4

(* The cutoff is not above the highest key of the bucket.                  *)
LEMMA CutoffFacts ==
    ASSUME NEW keys \in SUBSET Epochs, keys # {}
    PROVE  /\ Cutoff(keys) \in Nat
           /\ \E top \in keys : Cutoff(keys) <= top /\ \A e \in keys : e <= top
<1>1. keys \in SUBSET (0 .. MaxEpoch)
  BY DEF Epochs
<1>2. MaxEpoch \in Nat /\ PruningEpochs \in Nat
  BY AttesterAssumption
<1>3. Max(keys) \in keys /\ \A e \in keys : Max(keys) >= e
  BY <1>1, <1>2, HighestMember
<1>4. \A e \in keys : e \in Nat
  BY <1>1, <1>2, SMT, SMTT(20)
<1>5. Cutoff(keys) \in Nat /\ Cutoff(keys) <= Max(keys)
  BY <1>2, <1>3, <1>4, SMT, SMTT(20) DEF Cutoff
<1> QED
  BY <1>3, <1>4, <1>5

(* What pruning does to a history: a signing root goes only if there is a  *)
(* later one, and a vote goes only if there is one with a higher source.   *)
LEMMA PruneFacts ==
    ASSUME NEW H \in History
    PROVE  /\ PruneHistory(H) \in History
           /\ PruneHistory(H).bySource \subseteq H.bySource
           /\ \A p \in H.bySource : \E q \in PruneHistory(H).bySource : q[1] >= p[1]
           /\ \A t \in Epochs :
                \/ PruneHistory(H).roots[t] = H.roots[t]
                \/ /\ PruneHistory(H).roots[t] = None
                   /\ \E u \in Epochs : H.roots[u] # None /\ t < u
<1>1. CASE H.bySource = {}
  BY <1>1 DEF PruneHistory
<1>2. CASE H.bySource # {}
  <2> DEFINE targets == {t \in Epochs : H.roots[t] # None}
             bs == {p \in H.bySource : p[1] >= Cutoff({q[1] : q \in H.bySource})}
             bt == {p \in H.byTarget : p[2] >= Cutoff({q[2] : q \in H.byTarget})}
             ro == [t \in Epochs |-> IF t \in targets /\ t < Cutoff(targets)
                                     THEN None ELSE H.roots[t]]
             T == PruneHistory(H)
  <2>1. T = [H EXCEPT !.bySource = bs, !.byTarget = bt, !.roots = ro]
    BY <1>2 DEF PruneHistory, History
  <2>2. /\ H.bySource \subseteq Epochs \X Epochs /\ H.byTarget \subseteq Epochs \X Epochs
        /\ H.roots \in [Epochs -> Attestations \cup {None}]
    BY DEF History
  <2>3. bs \subseteq H.bySource /\ bt \subseteq H.byTarget
        /\ ro \in [Epochs -> Attestations \cup {None}]
    BY <2>2
  <2>4. \A p \in H.bySource : \E q \in bs : q[1] >= p[1]
    <3> DEFINE keys == {q[1] : q \in H.bySource}
    <3>1. keys \subseteq Epochs
      BY <2>2
    <3>2. keys # {}
      <4>1. PICK q \in H.bySource : TRUE
        BY <1>2
      <4> QED
        BY <4>1
    <3>3. PICK top \in keys : Cutoff(keys) <= top /\ \A e \in keys : e <= top
      <4> HIDE DEF keys
      <4> QED
        BY <3>1, <3>2, CutoffFacts
    <3>4. PICK q \in H.bySource : q[1] = top
      OBVIOUS
    <3>5. q \in bs
      BY <3>3, <3>4, CutoffFacts
    <3>6. \A p \in H.bySource : p[1] <= top
      BY <3>3
    <3> QED
      BY <3>4, <3>5, <3>6
  <2>5. ASSUME NEW t \in Epochs, ro[t] # H.roots[t]
        PROVE  ro[t] = None /\ \E u \in Epochs : H.roots[u] # None /\ t < u
    <3>1. t \in targets /\ t < Cutoff(targets) /\ ro[t] = None
      BY <2>5
    <3>2. PICK top \in targets : Cutoff(targets) <= top
      BY <3>1, CutoffFacts
    <3>3. t \in Nat /\ top \in Nat /\ Cutoff(targets) \in Nat
      BY <3>1, CutoffFacts, SMT, SMTT(20) DEF Epochs
    <3> QED
      BY <3>1, <3>2, <3>3, SMT, SMTT(20)
  <2> HIDE DEF bs, bt, ro, T
  <2>6. T \in History /\ T.bySource = bs /\ T.roots = ro
    BY <2>1, <2>2, <2>3 DEF History
  <2> QED
    BY <2>3, <2>4, <2>5, <2>6 DEF T
<1> QED
  BY <1>1, <1>2

(* Pruning keeps what the invariant says of a history.                     *)
LEMMA PruneKeeps ==
    ASSUME NEW H \in History, NEW e \in Nat, UpTo(H, e)
    PROVE  /\ UpTo(PruneHistory(H), e)
           /\ \A a \in Attestations : Protects(H, a, e) => Protects(PruneHistory(H), a, e)
<1> DEFINE T == PruneHistory(H)
<1>1. /\ T \in History
      /\ T.bySource \subseteq H.bySource
      /\ \A p \in H.bySource : \E q \in T.bySource : q[1] >= p[1]
      /\ \A t \in Epochs :
           \/ T.roots[t] = H.roots[t]
           \/ T.roots[t] = None /\ \E u \in Epochs : H.roots[u] # None /\ t < u
  BY PruneFacts
<1> HIDE DEF T
<1>2. \A t \in Epochs : t \in Nat
  BY SMT, SMTT(20) DEF Epochs
<1>3. \A t \in Epochs : T.roots[t] # H.roots[t] => T.roots[t] = None /\ t < e
  BY <1>1, <1>2, SMT, SMTT(20) DEF UpTo
<1>4. \A p \in H.bySource : p[1] \in Nat /\ p[2] \in Epochs
  BY SMT, SMTT(20) DEF History, Epochs
<1>5. UpTo(T, e)
  BY <1>1, <1>2, <1>3, <1>4, SMT, SMTT(20) DEF UpTo
<1>6. ASSUME NEW a \in Attestations, Protects(H, a, e)
      PROVE  Protects(T, a, e)
  <2>1. a.target \in Epochs /\ a.source \in Nat
    BY AttesterAssumption, SMT, SMTT(20) DEF Epochs
  <2>2. \E p \in T.bySource : p[1] >= a.source
    <3>1. PICK p \in H.bySource : p[1] >= a.source
      BY <1>6 DEF Protects
    <3>2. PICK q \in T.bySource : q[1] >= p[1]
      BY <1>1
    <3> QED
      BY <1>1, <1>4, <2>1, <3>1, <3>2, SMT, SMTT(20)
  <2> QED
    BY <1>3, <1>6, <2>1, <2>2 DEF Protects
<1> QED
  BY <1>5, <1>6 DEF T

-----------------------------------------------------------------------------
(* Records on their way *)

\* No record of a key is in a sequence if none is among its elements.
LEMMA WithoutRange ==
    ASSUME NEW s, NEW k
    PROVE  Without(s, k) <=> \A r \in Range(s) : r.key # k
  BY DEF Without, Range

(* A record that comes last, and one that comes after it.                  *)
LEMMA LastAppended ==
    ASSUME NEW s \in Seq(Record), NEW x \in Record, NEW k, NEW r
    PROVE  /\ LastOf(Append(s, x), k, x)
           /\ x.key # k /\ LastOf(s, k, r) => LastOf(Append(s, x), k, r)
           /\ x.key # k /\ Without(s, k) => Without(Append(s, x), k)
<1> DEFINE t == Append(s, x)
<1>1. /\ Len(s) \in Nat /\ DOMAIN s = 1 .. Len(s) /\ DOMAIN t = 1 .. (Len(s) + 1)
      /\ \A i \in 1 .. Len(s) : t[i] = s[i]
      /\ t[Len(s) + 1] = x
  BY SMT, SMTT(20)
<1> HIDE DEF t
<1>2. LastOf(t, k, x)
  <2>1. Len(s) + 1 \in DOMAIN t /\ ~ \E j \in DOMAIN t : j > Len(s) + 1
    BY <1>1, SMT, SMTT(20)
  <2> QED
    BY <1>1, <2>1 DEF LastOf
<1>3. ASSUME x.key # k, LastOf(s, k, r) PROVE LastOf(t, k, r)
  <2>1. PICK i \in DOMAIN s : s[i] = r /\ \A j \in DOMAIN s : j > i => s[j].key # k
    BY <1>3 DEF LastOf
  <2>2. i \in DOMAIN t /\ t[i] = r
    BY <1>1, <2>1, SMT, SMTT(20)
  <2>3. \A j \in DOMAIN t : j > i => t[j].key # k
    <3> SUFFICES ASSUME NEW j \in DOMAIN t, j > i PROVE t[j].key # k
      OBVIOUS
    <3>1. j \in DOMAIN s \/ j = Len(s) + 1
      BY <1>1, SMT, SMTT(20)
    <3> QED
      BY <1>1, <1>3, <2>1, <3>1
  <2> QED
    BY <2>2, <2>3 DEF LastOf
<1>4. ASSUME x.key # k, Without(s, k) PROVE Without(t, k)
  <2> SUFFICES ASSUME NEW j \in DOMAIN t PROVE t[j].key # k
    BY DEF Without
  <2>1. j \in DOMAIN s \/ j = Len(s) + 1
    BY <1>1, SMT, SMTT(20)
  <2> QED
    BY <1>1, <1>4, <2>1 DEF Without
<1> QED
  BY <1>2, <1>3, <1>4 DEF t

(* The head of a sequence is taken off.                                    *)
LEMMA LastTail ==
    ASSUME NEW s \in Seq(Record), s # <<>>, NEW k, NEW r
    PROVE  /\ LastOf(s, k, r) => \/ LastOf(Tail(s), k, r)
                                 \/ Head(s) = r /\ Without(Tail(s), k)
           /\ Without(s, k) => Without(Tail(s), k) /\ Head(s).key # k
<1> DEFINE t == Tail(s)
<1>1. /\ Len(s) \in Nat \ {0} /\ DOMAIN s = 1 .. Len(s)
      /\ DOMAIN t = 1 .. (Len(s) - 1)
      /\ \A i \in 1 .. (Len(s) - 1) : t[i] = s[i + 1]
      /\ Head(s) = s[1]
  BY SMT, SMTT(20)
<1> HIDE DEF t
<1>2. \A j \in DOMAIN t : j + 1 \in DOMAIN s /\ t[j] = s[j + 1]
  BY <1>1, SMT, SMTT(20)
<1>3. 1 \in DOMAIN s
  BY <1>1, SMT, SMTT(20)
<1>4. ASSUME LastOf(s, k, r) PROVE LastOf(t, k, r) \/ (Head(s) = r /\ Without(t, k))
  <2>1. PICK i \in DOMAIN s : s[i] = r /\ \A j \in DOMAIN s : j > i => s[j].key # k
    BY <1>4 DEF LastOf
  <2>2. CASE i = 1
    <3>1. \A j \in DOMAIN t : t[j].key # k
      <4> SUFFICES ASSUME NEW j \in DOMAIN t PROVE t[j].key # k
        OBVIOUS
      <4>1. j + 1 > i
        BY <1>1, <2>2, SMT, SMTT(20)
      <4> QED
        BY <1>2, <2>1, <4>1
    <3> QED
      BY <1>1, <2>1, <2>2, <3>1 DEF Without
  <2>3. CASE i # 1
    <3>1. i - 1 \in DOMAIN t /\ (i - 1) + 1 = i
      BY <1>1, <2>3, SMT, SMTT(20)
    <3>2. t[i - 1] = r
      BY <1>2, <2>1, <3>1
    <3>3. ASSUME NEW j \in DOMAIN t, j > i - 1
          PROVE  t[j].key # k
      <4>1. j + 1 > i
        BY <1>1, <3>3, SMT, SMTT(20)
      <4> QED
        BY <1>2, <2>1, <4>1
    <3> QED
      BY <3>1, <3>2, <3>3 DEF LastOf
  <2> QED
    BY <2>2, <2>3
<1>5. Without(s, k) => Without(t, k) /\ Head(s).key # k
  BY <1>1, <1>2, <1>3 DEF Without
<1> QED
  BY <1>4, <1>5 DEF t

(* While the record of a signer is not last on its way, it is saved.       *)
LEMMA DeliveredFacts ==
    ASSUME NEW k \in PubKeys, Delivered(k)
    PROVE  /\ OnItsWay(k) => RecordOf(k, att[k]) \in InFlight
           /\ ~OnItsWay(k) => Saved(k, att[k])
<1> DEFINE r == RecordOf(k, att[k])
<1>1. r.key = k
  BY DEF RecordOf
<1>2. \A s : LastOf(s, k, r) => r \in Range(s)
  BY DEF LastOf, Range
<1> HIDE DEF r
<1>3. CASE r \in InFlight
  BY <1>1, <1>3 DEF OnItsWay, r
<1>4. CASE ~OnItsWay(k) /\ Saved(k, att[k])
  BY <1>4
<1> QED
  BY <1>2, <1>3, <1>4 DEF Delivered, InFlight, r

-----------------------------------------------------------------------------
(* The steps *)

(* What holds at an epoch holds at later ones.                             *)
LEMMA LaterEpoch ==
    ASSUME NEW H \in History, NEW e \in Nat, NEW f \in Nat, e <= f, UpTo(H, e)
    PROVE  /\ UpTo(H, f)
           /\ \A a \in Attestations : Protects(H, a, e) => Protects(H, a, f)
<1>1. \A t \in Epochs : t \in Nat
  BY SMT, SMTT(20) DEF Epochs
<1>2. \A p \in H.bySource : p[2] \in Epochs
  BY DEF History
<1>3. UpTo(H, f)
  BY <1>1, <1>2, SMT, SMTT(20) DEF UpTo
<1>4. \A a \in Attestations : a.target \in Nat
  BY AttesterAssumption, SMT, SMTT(20) DEF Epochs
<1> QED
  BY <1>3, <1>4, SMT, SMTT(20) DEF Protects

(* A step that checks and publishes nothing keeps the invariant, if what   *)
(* it does to the histories and to the last records does.                  *)
LEMMA StepKeeps ==
    ASSUME AttesterInv, AttesterType', epoch <= epoch',
           published' = published, early' = early,
           \A r \in InFlight' : r \in InFlight
             \/ \E k \in PubKeys : pc[k] # "idle" /\ r = RecordOf(k, att[k]),
           \A k \in PubKeys : pc'[k] # "idle" => pc[k] # "idle" /\ att'[k] = att[k],
           \A k \in PubKeys : pc'[k] \in {"queued", "subscribed"} => Delivered(k)',
           \A k \in PubKeys : UpTo(db'[k], epoch'),
           \A k \in PubKeys : \A a \in published[k] \ early[k] : Protects(db'[k], a, epoch'),
           \A k \in PubKeys : pc'[k] # "idle" =>
             \A t \in Epochs : db'[k].roots[t] # None => t <= att[k].target
    PROVE  AttesterInv'
<1>1. epoch \in Nat /\ epoch' \in Nat
  BY DEF AttesterInv, AttesterType
<1>2. ASSUME NEW k \in PubKeys, NEW r \in InFlight', r.key = k
      PROVE  r \in InFlight \/ (pc[k] # "idle" /\ r.att = att[k])
  BY <1>2, SMT, SMTT(20) DEF RecordOf
<1>3. ASSUME NEW r \in InFlight' PROVE r.att.target \in Nat
  <2>1. r \in Record
    BY SMT, SMTT(20) DEF InFlight, AttesterType, Range
  <2> QED
    BY <2>1, AttesterAssumption, SMT, SMTT(20) DEF Record, Epochs
<1>4. \A k \in PubKeys : pc[k] # "idle" => att[k].target \in Nat
  BY AttesterAssumption, SMT, SMTT(20) DEF AttesterInv, AttesterType, Epochs
<1>5. ASSUME NEW k \in PubKeys PROVE NothingAhead(k)'
  <2>1. NothingAhead(k)
    BY DEF AttesterInv
  <2>2. ASSUME NEW r \in InFlight', r.key = k
        PROVE  /\ r.att.target <= epoch'
               /\ pc'[k] # "idle" => r.att.target <= att'[k].target
    BY <1>1, <1>2, <1>3, <1>4, <2>1, <2>2, SMT, SMTT(20) DEF NothingAhead
  <2>3. pc'[k] # "idle" => att'[k].target <= epoch'
    BY <1>1, <1>4, <2>1, SMT, SMTT(20) DEF NothingAhead
  <2> QED
    BY <2>2, <2>3 DEF NothingAhead
<1>6. ASSUME NEW k \in PubKeys, NEW a \in published[k] \ early[k]
      PROVE  Settled(k, a)'
  <2>1. Settled(k, a)
    BY DEF AttesterInv
  <2>2. ASSUME NEW r \in InFlight', r.key = k
        PROVE  Follows(a, r.att)
    BY <1>2, <2>1, <2>2 DEF Settled
  <2>3. pc'[k] # "idle" => Follows(a, att'[k])
    BY <2>1 DEF Settled
  <2> QED
    BY <2>2, <2>3 DEF Settled
<1> QED
  BY <1>5, <1>6 DEF AttesterInv

(* SlashableAttestationCheck.                                              *)
LEMMA CheckStep ==
    ASSUME AttesterInv, NEW k \in PubKeys, NEW a \in Attestations, CheckAttestation(k, a)
    PROVE  AttesterInv'
<1>1. /\ pc' = [pc EXCEPT ![k] = "checked"] /\ att' = [att EXCEPT ![k] = a]
      /\ a.target = epoch /\ IsSafe(db[k], a)
      /\ epoch' = epoch /\ db' = db /\ queue' = queue /\ batch' = batch
      /\ flushing' = flushing /\ flusher' = flusher
      /\ published' = published /\ early' = early
  BY DEF CheckAttestation
<1>2. AttesterType'
  BY <1>1 DEF AttesterInv, AttesterType
<1>3. InFlight' = InFlight
  BY <1>1 DEF InFlight
<1>4. /\ pc'[k] = "checked" /\ att'[k] = a
      /\ \A j \in PubKeys \ {k} : pc'[j] = pc[j] /\ att'[j] = att[j]
  BY <1>1 DEF AttesterInv, AttesterType
<1>5. ASSUME NEW j \in PubKeys, pc'[j] \in {"queued", "subscribed"}
      PROVE  Delivered(j)'
  <2>1. j # k /\ Delivered(j)
    BY <1>4, <1>5 DEF AttesterInv
  <2> QED
    BY <1>1, <1>3, <1>4, <2>1 DEF Delivered, OnItsWay, Saved
<1>6. ASSUME NEW j \in PubKeys PROVE NothingAhead(j)'
  <2>1. NothingAhead(j)
    BY DEF AttesterInv
  <2>2. epoch \in Nat
    BY DEF AttesterInv, AttesterType
  <2> QED
    BY <1>1, <1>3, <1>4, <2>1, <2>2, SMT, SMTT(20) DEF NothingAhead, UpTo
<1>7. ASSUME NEW j \in PubKeys, NEW b \in published[j] \ early[j]
      PROVE  Settled(j, b)'
  <2>1. Settled(j, b) /\ NothingAhead(j)
    BY DEF AttesterInv
  <2>2. epoch \in Nat /\ db[j] \in History /\ b \in Attestations
    BY DEF AttesterInv, AttesterType
  <2>3. j = k => Follows(b, a)
    BY <1>1, <2>1, <2>2, CheckedFollows DEF Settled, NothingAhead
  <2> QED
    BY <1>1, <1>3, <1>4, <2>1, <2>3 DEF Settled
<1> QED
  BY <1>1, <1>2, <1>5, <1>6, <1>7 DEF AttesterInv

(* The answer to SubmitAttestation.                                        *)
LEMMA RespondStep ==
    ASSUME AttesterInv, NEW k \in PubKeys, Respond(k)
    PROVE  AttesterInv'
<1>0. PICK a \in Attestations : a = att[k]
  BY DEF Respond, AttesterInv, AttesterType
<1> DEFINE P == published[k] \ early[k]
<1>1. /\ pc[k] = "subscribed"
      /\ pc' = [pc EXCEPT ![k] = "idle"] /\ att' = [att EXCEPT ![k] = None]
      /\ epoch' = epoch /\ db' = db /\ queue' = queue /\ batch' = batch
      /\ flushing' = flushing /\ flusher' = flusher
      /\ published' = [published EXCEPT ![k] =
                         IF response[k] = "ok" THEN @ \cup {a} ELSE @]
      /\ early' = [early EXCEPT ![k] =
                     IF response[k] = "ok" /\ OnItsWay(k) THEN @ \cup {a} ELSE @]
  BY <1>0 DEF Respond
<1>2. AttesterType'
  BY <1>1 DEF AttesterInv, AttesterType
<1>3. InFlight' = InFlight
  BY <1>1 DEF InFlight
<1>4. /\ pc'[k] = "idle"
      /\ \A j \in PubKeys \ {k} : /\ pc'[j] = pc[j] /\ att'[j] = att[j]
                                  /\ published'[j] = published[j] /\ early'[j] = early[j]
  BY <1>1 DEF AttesterInv, AttesterType
<1>5. published'[k] \ early'[k] \subseteq IF OnItsWay(k) THEN P ELSE P \cup {a}
  BY <1>1 DEF AttesterInv, AttesterType
<1>6. ASSUME NEW j \in PubKeys, pc'[j] \in {"queued", "subscribed"}
      PROVE  Delivered(j)'
  <2>1. j # k /\ Delivered(j)
    BY <1>4, <1>6 DEF AttesterInv
  <2> QED
    BY <1>1, <1>3, <1>4, <2>1 DEF Delivered, OnItsWay, Saved
<1>7. ASSUME NEW j \in PubKeys PROVE NothingAhead(j)'
  <2>1. NothingAhead(j)
    BY DEF AttesterInv
  <2> QED
    BY <1>1, <1>3, <1>4, <2>1 DEF NothingAhead, UpTo
<1>8. ASSUME NEW j \in PubKeys, NEW b \in published[j] \ early[j]
      PROVE  Settled(j, b)'
  <2>1. Settled(j, b)
    BY DEF AttesterInv
  <2> QED
    BY <1>1, <1>3, <1>4, <2>1 DEF Settled
<1>9. ASSUME ~OnItsWay(k)
      PROVE  Settled(k, a)' /\ \A b \in P : Follows(b, a)
  <2>1. Saved(k, a) /\ NothingAhead(k)
    BY <1>0, <1>1, <1>9, DeliveredFacts DEF AttesterInv
  <2>2. a.target \in Epochs /\ a.source \in Nat
    BY AttesterAssumption, SMT, SMTT(20) DEF Epochs
  <2>3. Protects(db[k], a, epoch)
    <3>1. a.target <= epoch /\ db[k].roots[a.target] = a
      BY <1>0, <1>1, <2>1 DEF NothingAhead, Saved
    <3>2. \A t \in Epochs : t > a.target => db[k].roots[t] = None
      BY <1>0, <1>1, <2>1, <2>2, SMT, SMTT(20) DEF NothingAhead, Epochs
    <3>3. \E p \in db[k].bySource : p[1] >= a.source
      <4>1. <<a.source, a.target>> \in db[k].bySource
        BY <2>1 DEF Saved
      <4>2. <<a.source, a.target>>[1] >= a.source
        BY <2>2, SMT, SMTT(20)
      <4> QED
        BY <4>1, <4>2
    <3> QED
      BY <3>1, <3>2, <3>3 DEF Protects
  <2>4. Settled(k, a)'
    BY <1>1, <1>3, <1>4, <1>9, <2>3 DEF Settled, OnItsWay
  <2>5. \A b \in P : Follows(b, a)
    BY <1>0, <1>1 DEF AttesterInv, Settled
  <2> QED
    BY <2>4, <2>5
<1>10. Follows(a, a)
  BY DEF Follows
<1>11. ASSUME NEW j \in PubKeys, NEW b \in published'[j] \ early'[j]
       PROVE  /\ Settled(j, b)'
              /\ \A c \in published'[j] \ early'[j] : Follows(b, c) \/ Follows(c, b)
  <2>1. \A b1, c1 \in published[j] \ early[j] : Follows(b1, c1) \/ Follows(c1, b1)
    BY DEF AttesterInv
  <2>2. CASE j # k
    BY <1>4, <1>8, <2>1, <2>2
  <2>3. CASE j = k
    BY <1>5, <1>8, <1>9, <1>10, <2>1, <2>3
  <2> QED
    BY <2>2, <2>3
<1> QED
  BY <1>2, <1>6, <1>7, <1>11 DEF AttesterInv

(* A step that moves records and leaves the database alone.                *)
Moves ==
    /\ AttesterType' /\ epoch <= epoch' /\ db' = db
    /\ published' = published /\ early' = early
    /\ \A r \in InFlight' : r \in InFlight
         \/ \E k \in PubKeys : pc[k] # "idle" /\ r = RecordOf(k, att[k])
    /\ \A k \in PubKeys : pc'[k] # "idle" => pc[k] # "idle" /\ att'[k] = att[k]
    /\ \A k \in PubKeys : pc'[k] \in {"queued", "subscribed"} => Delivered(k)'

\* A step that only moves records along, or the clock, keeps the invariant.
LEMMA MovesKeep ==
    ASSUME AttesterInv, Moves
    PROVE  AttesterInv'
<1>1. epoch \in Nat /\ epoch' \in Nat /\ epoch <= epoch' /\ db' = db
  BY DEF AttesterInv, AttesterType, Moves
<1>2. \A k \in PubKeys :
        /\ db[k] \in History /\ NothingAhead(k)
        /\ \A a \in published[k] \ early[k] : a \in Attestations /\ Settled(k, a)
  BY DEF AttesterInv, AttesterType
<1>3. \A k \in PubKeys : UpTo(db'[k], epoch')
  BY <1>1, <1>2, LaterEpoch DEF NothingAhead
<1>4. \A k \in PubKeys : \A a \in published[k] \ early[k] : Protects(db'[k], a, epoch')
  <2> SUFFICES ASSUME NEW k \in PubKeys, NEW a \in published[k] \ early[k]
               PROVE  Protects(db[k], a, epoch')
    BY <1>1
  <2>1. UpTo(db[k], epoch) /\ Protects(db[k], a, epoch) /\ a \in Attestations
    BY <1>2 DEF NothingAhead, Settled
  <2> QED
    BY <1>1, <1>2, <2>1, LaterEpoch
<1>5. \A k \in PubKeys : pc'[k] # "idle" =>
        \A t \in Epochs : db'[k].roots[t] # None => t <= att[k].target
  BY <1>1, <1>2 DEF NothingAhead, Moves
<1> QED
  BY <1>1, <1>3, <1>4, <1>5, StepKeeps DEF Moves

(* The record goes into the channel.                                       *)
LEMMA EnqueueStep ==
    ASSUME AttesterInv, NEW k \in PubKeys, Enqueue(k)
    PROVE  Moves
<1>0. PICK r \in Record : r = RecordOf(k, att[k]) /\ r.key = k
  <2>1. att[k] \in Attestations
    BY DEF Enqueue, AttesterInv, AttesterType
  <2>2. RecordOf(k, att[k]) \in Record /\ RecordOf(k, att[k]).key = k
    BY <2>1 DEF Record, RecordOf
  <2> QED
    BY <2>2
<1>1. /\ pc[k] = "checked"
      /\ queue' = Append(queue, r) /\ pc' = [pc EXCEPT ![k] = "queued"]
      /\ epoch' = epoch /\ db' = db /\ batch' = batch /\ flushing' = flushing
      /\ flusher' = flusher /\ att' = att /\ published' = published /\ early' = early
  BY <1>0 DEF Enqueue, RecordOf
<1>2. /\ AttesterType /\ queue \in Seq(Record) /\ epoch \in Nat
      /\ pc \in [PubKeys -> {"idle", "checked", "queued", "subscribed"}]
  BY DEF AttesterInv, AttesterType
<1>3. AttesterType'
  <2>1. queue' \in Seq(Record)
    BY <1>1, <1>2, SMT, SMTT(20)
  <2> QED
    BY <1>1, <1>2, <2>1 DEF AttesterType
<1>4. Range(queue') = Range(queue) \cup {r}
  BY <1>1, <1>2, Ranges, SMT, SMTT(20)
<1>5. InFlight' = InFlight \cup {r}
  BY <1>1, <1>4 DEF InFlight
<1>6. ASSUME NEW j \in PubKeys, pc'[j] \in {"queued", "subscribed"}
      PROVE  Delivered(j)'
  <2>1. CASE j = k
    <3>1. LastOf(queue', k, r)
      BY <1>1, <1>2, LastAppended
    <3> QED
      BY <1>0, <1>1, <2>1, <3>1 DEF Delivered
  <2>2. CASE j # k
    <3>1. Delivered(j) /\ r.key # j
      BY <1>0, <1>1, <1>2, <1>6, <2>2 DEF AttesterInv
    <3>2. /\ Without(queue, j) => Without(queue', j)
          /\ LastOf(queue, j, RecordOf(j, att[j])) => LastOf(queue', j, RecordOf(j, att[j]))
      BY <1>1, <1>2, <3>1, LastAppended
    <3>3. OnItsWay(j)' <=> OnItsWay(j)
      BY <1>5, <3>1 DEF OnItsWay
    <3> QED
      BY <1>1, <3>1, <3>2, <3>3 DEF Delivered, Saved
  <2> QED
    BY <2>1, <2>2
<1>7. \A j \in PubKeys : pc'[j] # "idle" => pc[j] # "idle" /\ att'[j] = att[j]
  BY <1>1, <1>2
<1>8. \A x \in InFlight' : x \in InFlight
        \/ \E j \in PubKeys : pc[j] # "idle" /\ x = RecordOf(j, att[j])
  BY <1>0, <1>1, <1>5
<1> QED
  BY <1>1, <1>2, <1>3, <1>6, <1>7, <1>8, SMT, SMTT(20) DEF Moves

(* Steps that leave the records where they are.                            *)
LEMMA SubscribeStep ==
    ASSUME AttesterInv, NEW k \in PubKeys, Subscribe(k)
    PROVE  Moves
<1>1. /\ pc[k] = "queued" /\ pc' = [pc EXCEPT ![k] = "subscribed"]
      /\ epoch' = epoch /\ db' = db /\ queue' = queue /\ batch' = batch
      /\ flushing' = flushing /\ flusher' = flusher /\ att' = att
      /\ published' = published /\ early' = early
  BY DEF Subscribe
<1>2. /\ AttesterType /\ epoch \in Nat
      /\ pc \in [PubKeys -> {"idle", "checked", "queued", "subscribed"}]
  BY DEF AttesterInv, AttesterType
<1>3. AttesterType'
  BY <1>1, <1>2 DEF AttesterType
<1>4. InFlight' = InFlight
  BY <1>1 DEF InFlight
<1>5. \A j \in PubKeys : pc'[j] \in {"queued", "subscribed"} => Delivered(j)'
  BY <1>1, <1>2, <1>4 DEF AttesterInv, Delivered, OnItsWay, Saved
<1> QED
  BY <1>1, <1>2, <1>3, <1>4, <1>5, SMT, SMTT(20) DEF Moves

\* Telling the subscribers, and the clock, are such steps.
LEMMA NotifyStep ==
    ASSUME AttesterInv, Notify \/ NextEpoch \/ UNCHANGED attesterVars
    PROVE  Moves
<1>1. /\ pc' = pc /\ epoch' \in {epoch, epoch + 1} /\ db' = db
      /\ queue' = queue /\ batch' = batch /\ att' = att
      /\ published' = published /\ early' = early
      /\ \/ flushing' = flushing /\ flusher' = flusher
         \/ flushing' = <<>> /\ flusher # "save" /\ flusher' = "select"
  BY DEF Notify, NextEpoch, signer, attesterVars
<1>2. AttesterType /\ epoch \in Nat
  BY DEF AttesterInv, AttesterType
<1>3. AttesterType'
  <2>1. epoch' \in Nat /\ <<>> \in Seq(Record)
    BY <1>1, <1>2, SMT, SMTT(20)
  <2> QED
    BY <1>1, <1>2, <2>1 DEF AttesterType
<1>4. InFlight' = InFlight
  BY <1>1 DEF InFlight
<1>5. \A j \in PubKeys : pc'[j] \in {"queued", "subscribed"} => Delivered(j)'
  BY <1>1, <1>2, <1>4 DEF AttesterInv, Delivered, OnItsWay, Saved
<1> QED
  BY <1>1, <1>2, <1>3, <1>4, <1>5, SMT, SMTT(20) DEF Moves

(* A batch is handed to a flush, or comes back from a failed one.          *)
LEMMA HandOverStep ==
    ASSUME AttesterInv, Tick \/ FlushFails
    PROVE  Moves
<1>1. /\ pc' = pc /\ epoch' = epoch /\ db' = db /\ queue' = queue /\ att' = att
      /\ published' = published /\ early' = early
      /\ \/ /\ flusher = "select" /\ flusher' = "save"
            /\ flushing' = batch /\ batch' = <<>>
         \/ /\ flusher = "save" /\ flusher' = "error"
            /\ flushing' = flushing /\ batch' = batch \o flushing
  BY DEF Tick, StartFlush, FlushFails, signer
<1>2. /\ AttesterType /\ epoch \in Nat
      /\ batch \in Seq(Record) /\ flushing \in Seq(Record)
  BY DEF AttesterInv, AttesterType
<1>3. flusher = "save" => batch = <<>> /\ batch \o flushing = flushing
  <2>1. <<>> \o flushing = flushing
    BY <1>2, SMT, SMTT(20)
  <2> QED
    BY <1>2, <2>1 DEF AttesterType
<1>4. AttesterType'
  <2>1. <<>> \in Seq(Record)
    BY SMT, SMTT(20)
  <2>2. batch' \in Seq(Record) /\ flushing' \in Seq(Record)
    BY <1>1, <1>2, <1>3, <2>1
  <2> QED
    BY <1>1, <1>2, <2>2 DEF AttesterType
<1>5. Range(<<>>) = {} /\ \A j : Without(<<>>, j)
  BY SMT, SMTT(20) DEF Range, Without
<1>6. InFlight' = InFlight
  BY <1>1, <1>3, <1>5 DEF InFlight
<1>7. \A j, r : ~LastOf(<<>>, j, r)
  BY SMT, SMTT(20) DEF LastOf
<1>8. \A j \in PubKeys : pc'[j] \in {"queued", "subscribed"} => Delivered(j)'
  <2> SUFFICES ASSUME NEW j \in PubKeys, pc[j] \in {"queued", "subscribed"}
               PROVE  Delivered(j)'
    BY <1>1
  <2>1. Delivered(j) /\ att'[j] = att[j]
    BY <1>1 DEF AttesterInv
  <2>2. CASE ~OnItsWay(j) /\ Saved(j, att[j])
    BY <1>1, <1>6, <2>1, <2>2 DEF Delivered, OnItsWay, Saved
  <2>3. CASE LastOf(queue, j, RecordOf(j, att[j]))
    BY <1>1, <2>1, <2>3 DEF Delivered
  <2>4. CASE flusher = "select" /\ flusher' = "save" /\ flushing' = batch /\ batch' = <<>>
    BY <1>1, <1>5, <2>1, <2>2, <2>3, <2>4 DEF Delivered
  <2>5. CASE flusher = "save" /\ batch = <<>> /\ batch' = flushing
    BY <1>1, <1>7, <2>1, <2>2, <2>3, <2>5 DEF Delivered
  <2> QED
    BY <1>1, <1>3, <2>4, <2>5
<1> QED
  BY <1>1, <1>2, <1>4, <1>6, <1>8, SMT, SMTT(20) DEF Moves

(* A record is taken from the channel into the batch, which may be full.   *)
LEMMA CollectStep ==
    ASSUME AttesterInv, Collect
    PROVE  Moves
<1> DEFINE x == Head(queue)
           records == Append(batch, x)
<1>1. /\ pc' = pc /\ epoch' = epoch /\ db' = db /\ att' = att
      /\ published' = published /\ early' = early
      /\ flusher = "select" /\ queue # <<>> /\ queue' = Tail(queue)
      /\ \/ flushing' = records /\ batch' = <<>> /\ flusher' = "save"
         \/ batch' = records /\ flushing' = flushing /\ flusher' = flusher
  BY DEF Collect, StartFlush, signer
<1>2. /\ AttesterType /\ epoch \in Nat /\ queue \in Seq(Record) /\ batch \in Seq(Record)
  BY DEF AttesterInv, AttesterType
<1>3. x \in Record /\ records \in Seq(Record) /\ queue' \in Seq(Record)
  BY <1>1, <1>2, SMT, SMTT(20)
<1>4. Range(queue) = {x} \cup Range(queue') /\ Range(records) = Range(batch) \cup {x}
  BY <1>1, <1>2, <1>3, Ranges, SMT, SMTT(20)
<1>5. /\ \A j, r : LastOf(queue, j, r) => LastOf(queue', j, r)
                                         \/ (x = r /\ Without(queue', j))
      /\ \A j : Without(queue, j) => Without(queue', j) /\ x.key # j
  BY <1>1, <1>2, LastTail
<1>6. /\ \A j : LastOf(records, j, x)
      /\ \A j, r : x.key # j /\ LastOf(batch, j, r) => LastOf(records, j, r)
      /\ \A j : x.key # j /\ Without(batch, j) => Without(records, j)
  BY <1>2, <1>3, LastAppended
<1> HIDE DEF x, records
<1>7. AttesterType'
  <2>1. <<>> \in Seq(Record)
    BY SMT, SMTT(20)
  <2>2. batch' \in Seq(Record) /\ flushing' \in Seq(Record)
    BY <1>1, <1>2, <1>3, <2>1 DEF AttesterType
  <2> QED
    BY <1>1, <1>2, <1>3, <2>2 DEF AttesterType
<1>8. Range(<<>>) = {} /\ \A j : Without(<<>>, j)
  BY SMT, SMTT(20) DEF Range, Without
<1>9. InFlight' = InFlight
  BY <1>1, <1>4, <1>8 DEF InFlight
<1>10. ASSUME NEW j \in PubKeys, pc'[j] \in {"queued", "subscribed"}
       PROVE  Delivered(j)'
  <2> DEFINE r == RecordOf(j, att[j])
  <2>1. Delivered(j) /\ att'[j] = att[j]
    BY <1>1, <1>10 DEF AttesterInv
  <2>2. CASE LastOf(queue', j, r)
    BY <2>1, <2>2 DEF Delivered
  <2>3. CASE Without(queue', j) /\ LastOf(records, j, r)
    BY <1>1, <1>8, <2>1, <2>3 DEF Delivered
  <2>4. CASE ~OnItsWay(j) /\ Saved(j, att[j])
    BY <1>1, <1>9, <2>1, <2>4 DEF Delivered, OnItsWay, Saved
  <2> HIDE DEF r
  <2>5. CASE LastOf(queue, j, r)
    BY <1>5, <1>6, <2>2, <2>3, <2>5
  <2>6. CASE Without(queue, j) /\ LastOf(batch, j, r)
    BY <1>5, <1>6, <2>3, <2>6
  <2> QED
    BY <1>1, <2>1, <2>4, <2>5, <2>6 DEF Delivered, r
<1> QED
  BY <1>1, <1>2, <1>7, <1>9, <1>10, SMT, SMTT(20) DEF Moves

(* The transaction commits: the records of the flush are written.          *)
LEMMA FlushStep ==
    ASSUME AttesterInv, FlushSucceeds
    PROVE  AttesterInv'
<1>1. /\ pc' = pc /\ epoch' = epoch /\ att' = att /\ queue' = queue /\ batch' = batch
      /\ flushing' = flushing /\ published' = published /\ early' = early
      /\ flusher = "save" /\ flusher' = "ok" /\ db' = SaveRecords(db, flushing)
  BY DEF FlushSucceeds, signer
<1>2. /\ AttesterType /\ epoch \in Nat /\ db \in [PubKeys -> History]
      /\ flushing \in Seq(Record) /\ batch = <<>>
  BY <1>1 DEF AttesterInv, AttesterType
<1>0. \A k \in PubKeys : Written(db'[k], db[k], flushing, k)
  BY <1>1, <1>2, SaveFields
<1>3. /\ \A k \in PubKeys : db'[k] \in History
      /\ db' \in [PubKeys -> History]
  <2>1. \A k \in PubKeys : db'[k] \in History
    BY <1>0 DEF Written
  <2>2. DOMAIN db' = PubKeys /\ db' = [k \in PubKeys |-> db'[k]]
    BY <1>1 DEF SaveRecords
  <2> QED
    BY <2>1, <2>2
<1>4. AttesterType'
  BY <1>1, <1>2, <1>3 DEF AttesterType
<1>5. /\ InFlight = InFlight' \cup Range(flushing)
      /\ \A i \in DOMAIN flushing : flushing[i] \in InFlight
  BY <1>1 DEF InFlight, Range
<1>6. ASSUME NEW k \in PubKeys
      PROVE  /\ UpTo(db'[k], epoch)
             /\ \A a \in published[k] \ early[k] : Protects(db'[k], a, epoch)
  <2>1. NothingAhead(k)
    BY DEF AttesterInv
  <2>2. \A i \in DOMAIN flushing : flushing[i].key = k => flushing[i].att.target <= epoch
    BY <1>5, <2>1 DEF NothingAhead
  <2>a. UpTo(db[k], epoch) /\ db'[k] = SaveRecords(db, flushing)[k]
    BY <1>1, <2>1 DEF NothingAhead
  <2>3. /\ UpTo(db'[k], epoch)
        /\ \A a \in Attestations :
             /\ Protects(db[k], a, epoch)
             /\ \A i \in DOMAIN flushing : flushing[i].key = k => Follows(a, flushing[i].att)
             => Protects(db'[k], a, epoch)
    BY <1>2, <2>2, <2>a, SaveKeeps, SMT, SMTT(20)
  <2>4. ASSUME NEW a \in published[k] \ early[k]
        PROVE  Protects(db'[k], a, epoch)
    <3>1. Settled(k, a) /\ a \in Attestations
      BY DEF AttesterInv, AttesterType
    <3>2. \A i \in DOMAIN flushing : flushing[i].key = k => Follows(a, flushing[i].att)
      BY <1>5, <3>1 DEF Settled
    <3> QED
      BY <2>3, <3>1, <3>2 DEF Settled
  <2> QED
    BY <2>3, <2>4
<1>7. ASSUME NEW k \in PubKeys, pc[k] # "idle", NEW t \in Epochs, db'[k].roots[t] # None
      PROVE  t <= att[k].target
  <2>1. NothingAhead(k)
    BY DEF AttesterInv
  <2>2. \/ db'[k].roots[t] = db[k].roots[t]
        \/ \E i \in DOMAIN flushing : flushing[i].key = k /\ flushing[i].att.target = t
    BY <1>0, SMT, SMTT(20) DEF Written
  <2> QED
    BY <1>5, <1>7, <2>1, <2>2 DEF NothingAhead
<1>8. ASSUME NEW k \in PubKeys, pc[k] \in {"queued", "subscribed"}
      PROVE  Delivered(k)'
  <2>1. Delivered(k) /\ att[k] \in Attestations /\ att[k].target \in Epochs
    BY <1>8, AttesterAssumption DEF AttesterInv, AttesterType
  <2>2. CASE LastOf(queue, k, RecordOf(k, att[k]))
    BY <1>1, <2>2 DEF Delivered
  <2> DEFINE of == {i \in DOMAIN flushing : flushing[i].key = k}
  <2>3. /\ db[k].bySource \subseteq db'[k].bySource
        /\ \A i \in of : <<flushing[i].att.source, flushing[i].att.target>> \in db'[k].bySource
        /\ \A t \in Epochs :
             \/ db'[k].roots[t] = db[k].roots[t] /\ \A i \in of : flushing[i].att.target # t
             \/ \E i \in of : /\ db'[k].roots[t] = flushing[i].att
                              /\ flushing[i].att.target = t
                              /\ \A j \in of : flushing[j].att.target = t => j <= i
    BY <1>0 DEF Written
  <2>4. CASE Without(queue, k) /\ LastOf(flushing, k, RecordOf(k, att[k]))
    <3>1. PICK i \in DOMAIN flushing : /\ flushing[i] = RecordOf(k, att[k])
                                      /\ \A j \in DOMAIN flushing : j > i => flushing[j].key # k
      BY <2>4 DEF LastOf
    <3>2. i \in of /\ flushing[i].att = att[k] /\ \A j \in of : j <= i
      BY <1>2, <3>1, SMT, SMTT(20) DEF RecordOf
    <3>3. db'[k].roots[att[k].target] = att[k]
      <4>1. PICK j \in of : /\ db'[k].roots[att[k].target] = flushing[j].att
                            /\ i <= j
        BY <2>1, <2>3, <3>2
      <4>2. i \in Nat /\ j \in Nat
        BY <1>2, SMT, SMTT(20)
      <4>3. j = i
        BY <3>2, <4>1, <4>2, SMT, SMTT(20)
      <4> QED
        BY <3>2, <4>1, <4>3
    <3>4. <<att[k].source, att[k].target>> \in db'[k].bySource
      BY <2>3, <3>2
    <3>5. \A r \in InFlight' : r.key # k
      <4>1. InFlight' = Range(queue)
        BY <1>1, <1>2, SMT, SMTT(20) DEF InFlight, Range
      <4> QED
        BY <2>4, <4>1, WithoutRange
    <3> QED
      BY <1>1, <3>3, <3>4, <3>5 DEF Delivered, Saved, OnItsWay
  <2>5. CASE ~OnItsWay(k) /\ Saved(k, att[k])
    <3>1. of = {}
      BY <1>5, <2>5 DEF OnItsWay
    <3>2. \A r \in InFlight' : r.key # k
      BY <1>5, <2>5 DEF OnItsWay
    <3>3. db'[k].roots[att[k].target] = att[k]
      BY <2>1, <2>3, <2>5, <3>1 DEF Saved
    <3> HIDE DEF of
    <3> QED
      BY <1>1, <2>3, <2>5, <3>2, <3>3 DEF Delivered, Saved, OnItsWay
  <2>6. ~LastOf(batch, k, RecordOf(k, att[k]))
    BY <1>2, SMT, SMTT(20) DEF LastOf
  <2> QED
    BY <2>1, <2>2, <2>4, <2>5, <2>6 DEF Delivered
<1>9. /\ epoch' = epoch /\ epoch <= epoch' /\ published' = published /\ early' = early
      /\ \A k \in PubKeys : pc'[k] # "idle" => pc[k] # "idle" /\ att'[k] = att[k]
  BY <1>1, <1>2, SMT, SMTT(20)
<1>10. \A r \in InFlight' : r \in InFlight
  BY <1>5
<1>11. \A k \in PubKeys : /\ UpTo(db'[k], epoch')
                          /\ \A a \in published[k] \ early[k] : Protects(db'[k], a, epoch')
  BY <1>6, <1>9
<1>12. \A k \in PubKeys : pc'[k] \in {"queued", "subscribed"} => Delivered(k)'
  BY <1>1, <1>8
<1>13. \A k \in PubKeys : pc'[k] # "idle" =>
         \A t \in Epochs : db'[k].roots[t] # None => t <= att[k].target
  BY <1>1, <1>7
<1> QED
  BY <1>4, <1>9, <1>10, <1>11, <1>12, <1>13, StepKeeps

(* The process stops; NewKVStore opens, and may prune, the database.       *)
LEMMA AttesterCrashStep ==
    ASSUME AttesterInv, NEW prune \in BOOLEAN, AttesterCrash(prune)
    PROVE  AttesterInv'
<1>1. /\ pc' = [k \in PubKeys |-> "idle"] /\ att' = [k \in PubKeys |-> None]
      /\ epoch' = epoch /\ published' = published /\ early' = early
      /\ queue' = <<>> /\ batch' = <<>> /\ flushing' = <<>> /\ flusher' = "select"
      /\ db' = IF prune THEN [k \in PubKeys |-> PruneHistory(db[k])] ELSE db
  BY DEF AttesterCrash
<1>2. AttesterType /\ epoch \in Nat /\ db \in [PubKeys -> History]
  BY DEF AttesterInv, AttesterType
<1>3. \A k \in PubKeys : db'[k] \in {db[k], PruneHistory(db[k])}
  BY <1>1
<1>4. db' \in [PubKeys -> History]
  <2>1. \A k \in PubKeys : PruneHistory(db[k]) \in History
    BY <1>2, PruneFacts
  <2> QED
    BY <1>1, <1>2, <2>1
<1>5. AttesterType'
  <2>1. <<>> \in Seq(Record)
    BY SMT, SMTT(20)
  <2> QED
    BY <1>1, <1>2, <1>4, <2>1 DEF AttesterType
<1>6. InFlight' = {}
  BY <1>1, SMT, SMTT(20) DEF InFlight, Range
<1>7. ASSUME NEW k \in PubKeys
      PROVE  /\ UpTo(db'[k], epoch)
             /\ \A a \in published[k] \ early[k] : Protects(db'[k], a, epoch)
  <2>1. UpTo(db[k], epoch) /\ \A a \in published[k] \ early[k] :
                                a \in Attestations /\ Protects(db[k], a, epoch)
    BY DEF AttesterInv, AttesterType, NothingAhead, Settled
  <2>2. /\ UpTo(PruneHistory(db[k]), epoch)
        /\ \A a \in Attestations :
             Protects(db[k], a, epoch) => Protects(PruneHistory(db[k]), a, epoch)
    BY <1>2, <2>1, PruneKeeps
  <2> QED
    BY <1>3, <2>1, <2>2
<1>8. \A k \in PubKeys : pc'[k] = "idle"
  BY <1>1
<1> QED
  BY <1>1, <1>2, <1>5, <1>6, <1>7, <1>8, StepKeeps, SMT, SMTT(20)

\* The database is empty at first.
LEMMA AttesterInitInv ==
    AttesterInit => AttesterInv
<1> SUFFICES ASSUME AttesterInit PROVE AttesterInv
  OBVIOUS
<1>1. EmptyHistory \in History
  BY DEF EmptyHistory, History
<1>2. <<>> \in Seq(Record)
  BY SMT, SMTT(20)
<1>3. AttesterType
  BY <1>1, <1>2 DEF AttesterInit, AttesterType
<1>4. InFlight = {}
  BY SMT, SMTT(20) DEF AttesterInit, InFlight, Range
<1>5. \A k \in PubKeys : NothingAhead(k)
  BY <1>4 DEF AttesterInit, NothingAhead, UpTo, EmptyHistory
<1> QED
  BY <1>3, <1>5 DEF AttesterInit, AttesterInv

\* One case for each action of signer, flusher and environment.
LEMMA AttesterNextInv ==
    AttesterInv /\ [AttesterNext]_attesterVars => AttesterInv'
<1> SUFFICES ASSUME AttesterInv, [AttesterNext]_attesterVars PROVE AttesterInv'
  OBVIOUS
<1>1. CASE UNCHANGED attesterVars
  BY <1>1, NotifyStep, MovesKeep
<1>2. ASSUME NEW k \in PubKeys, SubmitAttestation(k) PROVE AttesterInv'
  BY <1>2, CheckStep, EnqueueStep, SubscribeStep, RespondStep, MovesKeep DEF SubmitAttestation
<1>3. CASE BatchAttestationWrites
  BY <1>3, CollectStep, HandOverStep, FlushStep, NotifyStep, MovesKeep
  DEF BatchAttestationWrites
<1>4. CASE NextEpoch
  BY <1>4, NotifyStep, MovesKeep
<1>5. ASSUME NEW prune \in BOOLEAN, AttesterCrash(prune) PROVE AttesterInv'
  BY <1>5, AttesterCrashStep
<1> QED
  BY <1>1, <1>2, <1>3, <1>4, <1>5 DEF AttesterNext

\* The invariant of the attester side.
LEMMA AttesterInvariance ==
    AttesterSpec => []AttesterInv
  BY AttesterInitInv, AttesterNextInv, PTL DEF AttesterSpec

(***************************************************************************)
(* The complete protection is complete for what is written: whatever       *)
(* flushes fail, wherever the process stops and however the database is    *)
(* pruned, two attestations of a key that were published while no record   *)
(* of the key was waiting to be written do not conflict.                   *)
(***************************************************************************)
THEOREM ConflictsAreEarly ==
    AttesterSpec => []ConflictsStartEarly
<1>1. AttesterInv => ConflictsStartEarly
  <2> SUFFICES ASSUME AttesterInv, NEW k \in PubKeys,
                      NEW a \in published[k], NEW b \in published[k],
                      a \notin early[k], b \notin early[k]
               PROVE  ~IsSlashableAttestationData(a, b)
    BY DEF ConflictsStartEarly
  <2>1. Follows(a, b) \/ Follows(b, a)
    BY DEF AttesterInv
  <2>2. /\ a.source \in Nat /\ a.target \in Nat
        /\ b.source \in Nat /\ b.target \in Nat
    <3>1. a \in Attestations /\ b \in Attestations
      BY DEF AttesterInv, AttesterType
    <3> QED
      BY <3>1, AttesterAssumption, SMT, SMTT(20) DEF Epochs
  <2> QED
    BY <2>1, <2>2, SMT, SMTT(20) DEF Follows, IsSlashableAttestationData, IsDoubleVote, IsSurround
<1> QED
  BY <1>1, AttesterInvariance, PTL

(***************************************************************************)
(* No record is lost: while SubmitAttestation waits for an answer, the     *)
(* record of its attestation is on its way through the channel, the batch  *)
(* and the flush, or in the database, where nothing replaces it.           *)
(***************************************************************************)
THEOREM NoRecordIsLost ==
    AttesterSpec => []RecordsAreNotLost
<1>1. AttesterInv => RecordsAreNotLost
  BY DeliveredFacts DEF AttesterInv, RecordsAreNotLost, RecordOf
<1> QED
  BY <1>1, AttesterInvariance, PTL
=============================================================================
