------------------------------- MODULE MCPanel -------------------------------
(* Small instances of PanelTransactions.                                   *)
EXTENDS PanelTransactions

CONSTANTS p1, p2, north, south

(* Both orders of two pictures.                                            *)
MCOrders == {<<p1, p2>>, <<p2, p1>>}

(* Two lists that insert the same names in opposite orders, and a shorter. *)
MCLists == {<<north, south>>, <<south, north>>, <<Blank, south>>}
=============================================================================
