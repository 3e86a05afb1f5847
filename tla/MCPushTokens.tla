---------------------------- MODULE MCPushTokens ----------------------------
(* Instances of PushTokens for TLC. *)
EXTENDS PushTokens, TLC

\* Users, devices, tokens and requests are interchangeable.
Symmetry ==
    Permutations(Users) \cup Permutations(Devices) \cup Permutations(Tokens)
        \cup Permutations(Requests)
=============================================================================
