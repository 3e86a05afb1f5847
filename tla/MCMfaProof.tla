----------------------------- MODULE MCMfaProof -----------------------------
(* Instances of MfaProof for TLC. *)
EXTENDS MfaProof, TLC

\* Requests, families, nonces and the codes of batches are interchangeable.
Symmetry == Permutations(Requests) \cup Permutations(Families) \cup Permutations(Nonces)
    \cup Permutations(Numbers)
=============================================================================
