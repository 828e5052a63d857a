----------------------------- MODULE MCUpgrade -----------------------------
(***************************************************************************)
(* The instance of Upgrade: nothing tells applications apart, nor          *)
(* addresses.  Backfill's CHOOSE is of sets with one element.              *)
(***************************************************************************)
EXTENDS Upgrade, TLC

(* Migration 003 writes the administrator's address in small letters.      *)
MCAdminEmail == Address \X {"plain"}

Symmetry == Permutations(Application) \cup Permutations(Address)
=============================================================================
