------------------------------ MODULE MfaProof ------------------------------
(***************************************************************************)
(* The proofs of one user that MFA asks for: recovery codes and TOTP codes, *)
(* and the setup nonces that show a fresh login.  Requests interleave at    *)
(* every database call; a transaction or a batch is one action.  What       *)
(* enabling and disabling do to sessions is in MfaTransition.               *)
(***************************************************************************)
EXTENDS Naturals, FiniteSets

CONSTANTS
    Requests, Families, Nonces,
    Ops,              \* what the user asks for, of AllOps
    Numbers,          \* of the codes of a batch, RECOVERY_CODE_COUNT of them
    Threshold,        \* AUTO_REGENERATE_THRESHOLD
    FreshWindow,      \* FRESH_SESSION_WINDOW_MS
    NonceLife,        \* MFA_SETUP_NONCE_TTL_MS
    SetupLife,        \* MFA_SETUP_EXPIRY_MINUTES
    MaxBatches,       \* bound: batches of recovery codes
    MaxTime,          \* bound: the clock
    Null

AllOps == {"login", "mint", "setup", "enable", "disable", "regenerate"}

ASSUME MfaProofAssumption ==
    /\ Ops \subseteq AllOps
    /\ IsFiniteSet(Numbers) /\ Threshold \in Nat /\ Threshold < Cardinality(Numbers)
    /\ FreshWindow \in Nat /\ NonceLife \in Nat /\ SetupLife \in Nat
    /\ MaxBatches \in Nat /\ MaxTime \in Nat

VARIABLES
    mfaEnabled,   \* of the user document
    codes,        \* the recovery codes of the user's MFA document, or Null without one
    setup,        \* the user's setup document: a batch and an expiry, or Null
    cleaning,     \* whether cleanupExpiredMfaSetups holds a page with the setup document
    nonces,       \* the nonce documents: family, expiry and whether consumed, or Null
    families,     \* createdAt of each session family, or Null
    minted,       \* history: of each nonce, its family, when, and its setups
    spent,        \* history: the codes accepted since they were last installed
    batches,      \* history: how many batches of codes were generated
    now,
    req

account == <<mfaEnabled, codes, setup>>
history == <<minted, spent, batches>>
vars == <<account, cleaning, nonces, families, history, now, req>>

-----------------------------------------------------------------------------
(* State *)

\* The codes of batch b, as in the MFA document.
Batch(b) == [batch |-> b, left |-> Numbers]
Codes == [batch: 1 .. MaxBatches, left: SUBSET Numbers]
Setup == [batch: 1 .. MaxBatches, expiresAt: Nat]

Nonce == [family: Families, expiresAt: Nat, consumed: BOOLEAN]
Minted == [family: Families, at: Nat, setups: Nat]

\* Null stands for no document.
ASSUME NullIsNoDocument == Null \notin Codes \cup Nonce \cup Minted

Labels ==
    {"idle", "begin", "stateRead", "proving", "checking", "proved", "minting", "consuming",
     "issuing", "committing", "deleting", "reading", "writing", "creating"}

Request ==
    [pc: Labels, op: Ops \cup {"none"}, family: Families \cup {Null}, nonce: Nonces \cup {Null},
     setup: Setup \cup {Null},        \* the setup document as read
     consumedAt: Nat]

NoRequest ==
    [pc |-> "idle", op |-> "none", family |-> Null, nonce |-> Null, setup |-> Null, consumedAt |-> 0]

TypeOK ==
    /\ mfaEnabled \in BOOLEAN
    /\ codes \in Codes \cup {Null}
    /\ setup \in Setup \cup {Null}
    /\ cleaning \in BOOLEAN
    /\ nonces \in [Nonces -> Nonce \cup {Null}]
    /\ families \in [Families -> Nat \cup {Null}]
    /\ minted \in [Nonces -> Minted \cup {Null}]
    /\ spent \subseteq (1 .. MaxBatches) \X Numbers
    /\ batches \in 0 .. MaxBatches
    /\ now \in Nat
    /\ req \in [Requests -> Request]

\* An account without MFA, and a session.
Init ==
    /\ mfaEnabled = FALSE /\ codes = Null /\ setup = Null /\ cleaning = FALSE
    /\ nonces = [n \in Nonces |-> Null]
    /\ \E f \in Families : families = [g \in Families |-> IF g = f THEN 0 ELSE Null]
    /\ minted = [n \in Nonces |-> Null]
    /\ spent = {} /\ batches = 0 /\ now = 0
    /\ req = [r \in Requests |-> NoRequest]

-----------------------------------------------------------------------------
(* Helpers *)

At(r, op, pc) == req[r].op = op /\ req[r].pc = pc
Become(r, next) == req' = [req EXCEPT ![r] = next]
Goto(r, pc) == [req[r] EXCEPT !.pc = pc]
End(r) == Become(r, NoRequest)

\* A new batch of recovery codes has been generated.
Generate == batches < MaxBatches /\ batches' = batches + 1

\* An account that is asked for a code proves itself, and goes on to pc.
After(r) == CASE req[r].op = "login" -> "creating"
              [] req[r].op = "mint" -> "minting"
              [] OTHER -> "proved"

-----------------------------------------------------------------------------
(* Requests begin with Firebase authentication, the login, or with a session *)

Begin(r, op, f) ==
    /\ req[r].pc = "idle" /\ op \in Ops
    /\ f # Null <=> op # "login"
    /\ f # Null => families[f] # Null
    /\ Become(r, [NoRequest EXCEPT !.pc = "begin", !.op = op, !.family = f])
    /\ UNCHANGED <<account, cleaning, nonces, families, history, now>>

\* Whatever was awaited fails, or the code is wrong: the request is over.
Fail(r) ==
    /\ req[r].pc # "idle"
    /\ End(r)
    /\ UNCHANGED <<account, cleaning, nonces, families, history, now>>

\* getUserMfaState, of a login, of verifySensitiveMfa and of a mint whose family
\* is not fresh
ReadMfaState(r) ==
    /\ \/ req[r].op \in {"login", "disable", "regenerate"} /\ req[r].pc = "begin"
       \/ At(r, "mint", "stateRead")
    /\ Become(r, IF mfaEnabled THEN Goto(r, "proving")
                 ELSE IF req[r].op = "mint" THEN NoRequest ELSE Goto(r, After(r)))
    /\ UNCHANGED <<account, cleaning, nonces, families, history, now>>

\* ... and again in verifyMfaTotpCode and verifyAndConsumeRecoveryCode
ReadMfaStateAgain(r) ==
    /\ req[r].pc = "proving"
    /\ Become(r, IF mfaEnabled THEN Goto(r, "checking") ELSE NoRequest)
    /\ UNCHANGED <<account, cleaning, nonces, families, history, now>>

\* verifyMfaTotpCode, with a right code
CheckTotp(r) ==
    /\ req[r].pc = "checking" /\ codes # Null
    /\ Become(r, Goto(r, After(r)))
    /\ UNCHANGED <<account, cleaning, nonces, families, history, now>>

\* So few codes are left that they are replaced.
Remaining(left) == Cardinality(left) <= Threshold

\* Mutant: the code is not taken out.
Without_Kept(i) == codes.left

Without(i) == codes.left \ {i}

\* The transaction of verifyAndConsumeRecoveryCode.  A code of an earlier batch
\* is not found.
SpendCode(r, b, i) ==
    /\ req[r].pc = "checking" /\ codes # Null
    /\ b = codes.batch /\ i \in codes.left
    /\ IF Remaining(Without(i))
       THEN Generate /\ codes' = Batch(batches')
       ELSE codes' = [codes EXCEPT !.left = Without(i)] /\ UNCHANGED batches
    /\ spent' = spent \cup {<<b, i>>}
    /\ Become(r, Goto(r, After(r)))
    /\ UNCHANGED <<mfaEnabled, setup, cleaning, nonces, families, minted, now>>

\* createBackendSession of a login
CreateSession(r, f) ==
    /\ At(r, "login", "creating") /\ families[f] = Null
    /\ families' = [families EXCEPT ![f] = now]
    /\ End(r)
    /\ UNCHANGED <<account, cleaning, nonces, history, now>>

-----------------------------------------------------------------------------
(* mintMfaSetupNonce and consumeMfaSetupNonce *)

Fresh(createdAt) == now - createdAt <= FreshWindow

\* assertFamilyFreshOrMfaProved
ReadFamily(r) ==
    /\ At(r, "mint", "begin")
    /\ Become(r, Goto(r, IF Fresh(families[req[r].family]) THEN "minting" ELSE "stateRead"))
    /\ UNCHANGED <<account, cleaning, nonces, families, history, now>>

\* A nonce is random: each one is minted once.
MintNonce(r, n) ==
    /\ At(r, "mint", "minting") /\ minted[n] = Null
    /\ nonces' = [nonces EXCEPT ![n] =
                    [family |-> req[r].family, expiresAt |-> now + NonceLife, consumed |-> FALSE]]
    /\ minted' = [minted EXCEPT ![n] =
                    [family |-> req[r].family, at |-> now, setups |-> 0]]
    /\ End(r)
    /\ UNCHANGED <<account, cleaning, families, spent, batches, now>>

\* Setting up: no account with MFA gets further.
ReadForSetup(r) ==
    /\ At(r, "setup", "begin")
    /\ IF mfaEnabled THEN End(r) ELSE Become(r, Goto(r, "consuming"))
    /\ UNCHANGED <<account, cleaning, nonces, families, history, now>>

\* Mutant: a nonce is good for every session of its user.
Valid_AnyFamily(n, f) == nonces[n] # Null /\ ~nonces[n].consumed /\ nonces[n].expiresAt > now

Valid(n, f) ==
    /\ nonces[n] # Null
    /\ nonces[n].family = f
    /\ ~nonces[n].consumed
    /\ nonces[n].expiresAt > now

\* Mutant: the consumed nonce is written without its expiry.
Consumed_NoExpiry(n) == [family |-> nonces[n].family, consumed |-> TRUE]

Consumed(n) == [nonces[n] EXCEPT !.consumed = TRUE]

\* The transaction of consumeMfaSetupNonce
ConsumeNonce(r, n) ==
    /\ At(r, "setup", "consuming")
    /\ Valid(n, req[r].family)
    /\ nonces' = [nonces EXCEPT ![n] = Consumed(n)]
    /\ minted' = [minted EXCEPT ![n].setups = minted[n].setups + 1]
    /\ Become(r, [Goto(r, "issuing") EXCEPT !.nonce = n, !.consumedAt = now])
    /\ UNCHANGED <<account, cleaning, families, spent, batches, now>>

\* A secret and new codes are stored as the setup document, and answered.
IssueSetup(r) ==
    /\ At(r, "setup", "issuing")
    /\ Generate
    /\ setup' = [batch |-> batches', expiresAt |-> now + SetupLife]
    /\ End(r)
    /\ UNCHANGED <<mfaEnabled, codes, cleaning, nonces, families, minted, spent, now>>

\* cleanupExpiredMfaSetups reads a page of documents and deletes them by reference.
\* A nonce document that has expired stays as it is until then.
CleanUp(n) ==
    /\ nonces[n] # Null /\ nonces[n].expiresAt < now
    /\ nonces' = [nonces EXCEPT ![n] = Null]
    /\ UNCHANGED <<account, cleaning, families, history, now, req>>

\* A setup document may be another one by then.
FindExpiredSetup ==
    /\ ~cleaning /\ setup # Null /\ setup.expiresAt < now
    /\ cleaning' = TRUE
    /\ UNCHANGED <<account, nonces, families, history, now, req>>

\* The batch of deletes, or its failure.
CleanUpSetup ==
    /\ cleaning /\ cleaning' = FALSE
    /\ setup' \in {setup, Null}
    /\ UNCHANGED <<mfaEnabled, codes, nonces, families, history, now, req>>

-----------------------------------------------------------------------------
(* verifyAndEnableMfa, disableMfa and regenerateMfaRecoveryCodes *)

\* An expired setup document is deleted, and the request refused.
ReadSetup(r) ==
    /\ At(r, "enable", "begin")
    /\ setup # Null
    /\ Become(r, IF setup.expiresAt < now
                 THEN Goto(r, "deleting")
                 ELSE [Goto(r, "committing") EXCEPT !.setup = setup])
    /\ UNCHANGED <<account, cleaning, nonces, families, history, now>>

\* One batch.  The codes of the setup document are all good, once more if they
\* were in use before.
CommitEnable(r) ==
    /\ At(r, "enable", "committing")
    /\ LET b == req[r].setup.batch
       IN codes' = Batch(b) /\ spent' = {x \in spent : x[1] # b}
    /\ mfaEnabled' = TRUE
    /\ Become(r, Goto(r, "deleting"))
    /\ UNCHANGED <<setup, cleaning, nonces, families, minted, batches, now>>

\* The setup document is deleted, whatever it is by now: it may be a new one.
DeleteSetup(r) ==
    /\ At(r, "enable", "deleting")
    /\ setup' = Null
    /\ End(r)
    /\ UNCHANGED <<mfaEnabled, codes, cleaning, nonces, families, history, now>>

\* One batch, after verifySensitiveMfa.
CommitDisable(r) ==
    /\ At(r, "disable", "proved")
    /\ mfaEnabled' = FALSE /\ codes' = Null
    /\ End(r)
    /\ UNCHANGED <<setup, cleaning, nonces, families, history, now>>

\* The state is read once more, then the MFA document.
ReadForCodes(r) ==
    /\ At(r, "regenerate", "proved")
    /\ Become(r, IF mfaEnabled THEN Goto(r, "reading") ELSE NoRequest)
    /\ UNCHANGED <<account, cleaning, nonces, families, history, now>>
ReadCodes(r) ==
    /\ At(r, "regenerate", "reading")
    /\ Become(r, IF codes # Null THEN Goto(r, "writing") ELSE NoRequest)
    /\ UNCHANGED <<account, cleaning, nonces, families, history, now>>

\* Mutant: the document is written, there or not.
Writable_Always == TRUE

\* An update fails without its document.
Writable == codes # Null

WriteCodes(r) ==
    /\ At(r, "regenerate", "writing")
    /\ Writable
    /\ Generate
    /\ codes' = Batch(batches')
    /\ End(r)
    /\ UNCHANGED <<mfaEnabled, setup, cleaning, nonces, families, minted, spent, now>>

Tick ==
    /\ now < MaxTime
    /\ now' = now + 1
    /\ UNCHANGED <<account, cleaning, nonces, families, history, req>>

-----------------------------------------------------------------------------
(* The specification *)

Step(r) ==
    \/ \E op \in Ops, f \in Families \cup {Null} : Begin(r, op, f)
    \/ Fail(r)
    \/ ReadMfaState(r) \/ ReadMfaStateAgain(r) \/ CheckTotp(r)
    \/ \E b \in 1 .. batches, i \in Numbers : SpendCode(r, b, i)
    \/ \E f \in Families : CreateSession(r, f)
    \/ ReadFamily(r) \/ ReadForSetup(r) \/ IssueSetup(r)
    \/ \E n \in Nonces : MintNonce(r, n) \/ ConsumeNonce(r, n)
    \/ ReadSetup(r) \/ CommitEnable(r) \/ DeleteSetup(r)
    \/ CommitDisable(r)
    \/ ReadForCodes(r) \/ ReadCodes(r) \/ WriteCodes(r)

Next ==
    \/ \E r \in Requests : Step(r)
    \/ FindExpiredSetup \/ CleanUpSetup \/ \E n \in Nonces : CleanUp(n)
    \/ Tick

Spec == Init /\ [][Next]_vars

-----------------------------------------------------------------------------
(* Properties *)

\* A nonce authorises one setup at most, of the session it was minted for, and
\* not after its time: whatever replays, failures and cleaning up come between.
NonceAuthorisesOnce ==
    /\ \A n \in Nonces : minted[n] # Null => minted[n].setups <= 1
    /\ \A r \in Requests :
         req[r].pc = "issuing" =>
            /\ minted[req[r].nonce].family = req[r].family
            /\ req[r].consumedAt < minted[req[r].nonce].at + NonceLife

\* No code that was accepted is good again, through regeneration by request, by
\* the threshold or by both at once, until MFA is enabled with its setup again.
CodeSpentOnce ==
    codes # Null => \A i \in codes.left : <<codes.batch, i>> \notin spent

\* An account with MFA has its MFA document, and with it more codes than the
\* threshold; an account without has none, whoever regenerates or spends codes
\* while it is disabled.
NeverRunsDry ==
    /\ mfaEnabled <=> codes # Null
    /\ codes # Null => Cardinality(codes.left) > Threshold
=============================================================================
