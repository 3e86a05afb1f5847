--------------------------- MODULE MCUserAccount ---------------------------
(* Instances of UserAccount for TLC. *)
EXTENDS UserAccount, TLC

\* Requests are interchangeable.
Symmetry == Permutations(Requests)
=============================================================================
