--------------------------- MODULE MCSessionStore ---------------------------
(* Instances of SessionStore for TLC. *)
EXTENDS SessionStore, TLC

\* Users, ids and request slots are interchangeable.  Not used with liveness.
Symmetry ==
    UNION {Permutations(S) : S \in {Users, Families, RefreshTokens, AccessTokens, Requests}}
=============================================================================
