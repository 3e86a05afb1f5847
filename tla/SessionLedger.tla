--------------------------- MODULE SessionLedger ---------------------------
(***************************************************************************)
(* What the session records promise, whatever requests do to the three     *)
(* collections: a session family is opened once, with one refresh token;   *)
(* from then on its only usable token is replaced by a newly issued one,   *)
(* step by step; and once it is closed it stays closed, with no new token. *)
(***************************************************************************)
EXTENDS FiniteSets

CONSTANTS Families, RefreshTokens

VARIABLES
    status,  \* of each family: "unborn", "open" or "closed"
    heads,   \* the usable refresh tokens of each family
    issued   \* the refresh tokens that have ever been issued

vars == <<status, heads, issued>>

Init ==
    /\ status = [f \in Families |-> "unborn"]
    /\ heads = [f \in Families |-> {}]
    /\ issued = {}

Open(f, t) ==
    /\ status[f] = "unborn"
    /\ t \notin issued
    /\ status' = [status EXCEPT ![f] = "open"]
    /\ heads' = [heads EXCEPT ![f] = {t}]
    /\ issued' = issued \cup {t}

Rotate(f, t, next) ==
    /\ status[f] = "open"
    /\ heads[f] = {t}
    /\ next \notin issued
    /\ heads' = [heads EXCEPT ![f] = {next}]
    /\ issued' = issued \cup {next}
    /\ UNCHANGED status

\* Families are closed and tokens become unusable, any number in one write.
Close(fs, ts) ==
    /\ \A f \in fs : status[f] = "open"
    /\ status' = [f \in Families |-> IF f \in fs THEN "closed" ELSE status[f]]
    /\ heads' = [f \in Families |-> heads[f] \ ts]
    /\ UNCHANGED issued

Next ==
    \/ \E f \in Families, t \in RefreshTokens : Open(f, t)
    \/ \E f \in Families, t, next \in RefreshTokens : Rotate(f, t, next)
    \/ \E fs \in SUBSET Families, ts \in SUBSET RefreshTokens : Close(fs, ts)

Spec == Init /\ [][Next]_vars
=============================================================================
