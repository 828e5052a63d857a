------------------------------- MODULE MCInbox -------------------------------
(* Small instances of Inbox; no property tells companies, ids, texts or    *)
(* requests apart.                                                         *)
EXTENDS Inbox, TLC

Interchangeable == Permutations(Company) \cup Permutations(Quote)
                     \cup Permutations(Note) \cup Permutations(Request)
=============================================================================
