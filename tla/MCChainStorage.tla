--------------------------- MODULE MCChainStorage ---------------------------
(***************************************************************************)
(* A chain g-b2-b3-b5-b6-b8 in epochs of two slots, named for its slots.   *)
(* The state of b6 justifies b3, that of b8 justifies b6 and finalizes b3; *)
(* what b5, b6 and b8 make unrealized, fork choice may adopt earlier.      *)
(***************************************************************************)
EXTENDS ChainStorage

Cp(e, r) == [epoch |-> e, root |-> r]

CBlocks == {"b2", "b3", "b5", "b6", "b8"}
CParent == [b2 |-> "g", b3 |-> "b2", b5 |-> "b3", b6 |-> "b5", b8 |-> "b6"]
CSlot   == [g |-> 0, b2 |-> 2, b3 |-> 3, b5 |-> 5, b6 |-> 6, b8 |-> 8]

AtGenesis == [r \in CBlocks \cup {"g"} |-> Cp(0, "g")]
CPostJ == [AtGenesis EXCEPT !["b6"] = Cp(2, "b3"), !["b8"] = Cp(3, "b6")]
CPostF == [AtGenesis EXCEPT !["b8"] = Cp(2, "b3")]
CTipJ  == [AtGenesis EXCEPT !["b5"] = Cp(2, "b3"), !["b6"] = Cp(3, "b6"), !["b8"] = Cp(4, "b8")]
CTipF  == [AtGenesis EXCEPT !["b6"] = Cp(2, "b3"), !["b8"] = Cp(3, "b6")]

CBatches == {{"b2", "b3", "b5"}, {"b6", "b8"}}
=============================================================================
