----------------------------- MODULE MCApproval -----------------------------
(***************************************************************************)
(* Small instances of Approval for TLC.  Names "a" and "b" are chosen so   *)
(* that the second candidate slug of one is the first of the other, as     *)
(* "Acme" and "Acme 2" are.                                                *)
(***************************************************************************)
EXTENDS ApprovalProperties, TLC

MCSlugFor == [x \in Name \X (1..3) |->
                CASE x = <<"a", 1>> -> "s1"
                  [] x \in {<<"a", 2>>, <<"b", 1>>} -> "s2"
                  [] OTHER -> "s3"]

Symmetry == Permutations(Worker) \cup Permutations(Registration)
              \cup Permutations(Company) \cup Permutations(User)
=============================================================================
