---------------------------- MODULE MCRateLimiter ----------------------------
(* Instances of RateLimiter for TLC. *)
EXTENDS RateLimiter, TLC

CONSTANTS change, read, list

\* A route of verifySensitiveMfa, and two with one limiter that fails open.
MCRoute ==
    change :> <<"mfaVerification", "sensitiveOperations">>
    @@ read :> <<"authenticatedRead">> @@ list :> <<"authenticatedRead">>
MCMax == change :> 2 @@ read :> 1 @@ list :> 1

\* The two are interchangeable.
Symmetry == Permutations(Procs) \cup Permutations(Requests) \cup Permutations({read, list})
=============================================================================
