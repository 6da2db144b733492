--------------------------- MODULE MCMultilock ---------------------------
(***************************************************************************)
(* Three goroutines over three keys: each two of them share a key, and     *)
(* taken in another order than the sorted one they would wait in a cycle.  *)
(***************************************************************************)
EXTENDS Multilock, TLC

MCWant == "a" :> {1, 2} @@ "b" :> {2, 3} @@ "c" :> {1, 3}
MCRounds == "a" :> 1 @@ "b" :> 1 @@ "c" :> 1
=============================================================================
