--------------------------- MODULE SigningHistory ---------------------------
(***************************************************************************)
(* What slashing protection promises to a validator: whatever is handed to *)
(* the beacon node for a key never conflicts with what was handed over for *)
(* that key before.  The databases of validator/db implement this.         *)
(***************************************************************************)
CONSTANTS PubKeys,         \* validator keys
          Messages,        \* attestations or block proposals
          Slashable(_, _)  \* two messages of one key are slashable evidence

VARIABLE published         \* published[k]: messages handed over for key k

Init == published = [k \in PubKeys |-> {}]

Publish(k, m) ==
  /\ \A n \in published[k] : ~Slashable(n, m) /\ ~Slashable(m, n)
  /\ published' = [published EXCEPT ![k] = @ \union {m}]

Next == \E k \in PubKeys, m \in Messages : Publish(k, m)

Spec == Init /\ [][Next]_published
=============================================================================
