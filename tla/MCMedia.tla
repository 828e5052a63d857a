------------------------------- MODULE MCMedia -------------------------------
(***************************************************************************)
(* Two companies: one with a service and a certification, one with a       *)
(* project.                                                                *)
(***************************************************************************)
EXTENDS Media, TLC

MCOwner == [x \in Row |-> IF x \in Project THEN "b" ELSE "a"]

Interchangeable == Permutations(Request)
=============================================================================
