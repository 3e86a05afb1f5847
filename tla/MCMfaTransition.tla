-------------------------- MODULE MCMfaTransition --------------------------
(* Instances of MfaTransition for TLC. *)
EXTENDS MfaTransition, TLC

\* Family ids and attempts are interchangeable.
Symmetry == Permutations(Families) \cup Permutations(Attempts)

\* What retries may follow: an enable whose second or third step or last call
\* fails, or whose first does; a disable that crashes anywhere, and whose progress
\* may expire; transitions of both kinds, whose second step fails; and both, with
\* crashes and failing compensations.
Retries ==
    {[kinds |-> {"enable"}, faults |-> {"apply", "revoke", "clear"}, maxTime |-> 2],
     [kinds |-> {"enable"}, faults |-> {"create", "revoke"}, maxTime |-> 2],
     [kinds |-> {"disable"}, faults |-> {"crash"}, maxTime |-> 5],
     [kinds |-> Kinds, faults |-> {"apply"}, maxTime |-> 2],
     [kinds |-> Kinds, faults |-> {"crash", "compensation"}, maxTime |-> 2]}

\* Nothing fails and no time passes: what overlapping enables do alone.
Overlaps == {[kinds |-> {"enable"}, faults |-> {}, maxTime |-> 0]}

\* A call of the second step fails, perhaps after the commit.
Undone == {[kinds |-> {"enable"}, faults |-> {"apply"}, maxTime |-> 0]}
=============================================================================
