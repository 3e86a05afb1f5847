--------------------------- MODULE MfaTransition ---------------------------
(***************************************************************************)
(* Enabling and disabling MFA for one account: the three-step transitions  *)
(* of MfaSessionService.ts, the runner that executes them and the progress *)
(* document that lets a retry resume.  Every Firestore call is one action, *)
(* and the attempts of several clients interleave.  Session families are   *)
(* seen here as live or not; SessionStore has their records.               *)
(***************************************************************************)
EXTENDS Integers, FiniteSets

CONSTANTS
    Families,       \* refresh-token family ids
    Attempts,       \* requests that run a transition
    Scenarios,      \* what is asked for, what may fail and until when: see Scenario
    SetupLife, ProgressLife,  \* 10 and 15 minutes in the code
    None

Kinds == {"enable", "disable"}

Faults == {"create", "apply", "revoke", "clear", "compensation", "crash"}

\* maxTime bounds the clock, for TLC only.
Scenario == [kinds: SUBSET Kinds, faults: SUBSET Faults, maxTime: Nat]

ASSUME MfaAssumption ==
    /\ \A s \in Scenarios : s \in Scenario
    /\ {SetupLife, ProgressLife} \subseteq Nat
    /\ None \notin Families

VARIABLES
    mfaEnabled,  \* users/<uid>.mfaEnabled; the secret is written with it
    setup,       \* expiry of the pending MFA setup document, or None
    progress,    \* the progress document of each transition, or None
    families,    \* each session family: unborn, plain, mfa or revoked
    held,        \* families whose tokens have reached a client
    attempt,     \* the transitions being executed
    now,
    scenario     \* the scenario of this run, which no step changes

vars == <<mfaEnabled, setup, progress, families, held, attempt, now, scenario>>

-----------------------------------------------------------------------------
(* Documents and attempts *)

Steps == {"createSession", "applyMfa", "revokeOldSessions"}

\* The stored session response is known by its family.
Progress == [steps: SUBSET Steps, session: Families \cup {None}, expiresAt: Nat]

ASSUME NoneIsNoProgress == None \notin Progress

Labels == {"idle", "admitted", "started", "resuming", "running", "saving", "writing",
           "proving", "checking", "dropping", "committing", "consuming",
           "paging", "revoking", "ending", "sweeping", "compensating", "clearing",
           "retryable", "answered"}

Attempt ==
    [pc: Labels, kind: Kinds,
     client: Families \cup {None},   \* the session the request came with
     right: BOOLEAN,                 \* its code is right for the secret it meets
     resume: BOOLEAN,                \* isResume
     session: Families \cup {None},  \* sessionResponse
     done: SUBSET Steps,             \* completedSteps
     step: Steps,                    \* the step complete() is saving
     saved: Progress \cup {None},    \* what complete() read
     page: SUBSET Families,          \* the page of families about to be deleted
     was: BOOLEAN,                   \* req.userData.mfaEnabled, read when it began ...
     began: Nat]                     \* ... and history: when that was

NoAttempt ==
    [pc |-> "idle", kind |-> "enable", client |-> None, right |-> FALSE,
     resume |-> FALSE, session |-> None, done |-> {},
     step |-> "createSession", saved |-> None, page |-> {}, was |-> FALSE,
     began |-> 0]

TypeOK ==
    /\ mfaEnabled \in BOOLEAN
    /\ setup \in Nat \cup {None}
    /\ progress \in [Kinds -> Progress \cup {None}]
    /\ families \in [Families -> {"unborn", "plain", "mfa", "revoked"}]
    /\ held \subseteq Families
    /\ attempt \in [Attempts -> Attempt]
    /\ now \in Nat
    /\ scenario \in Scenarios

Live(f) == f # None /\ families[f] \in {"plain", "mfa"}
KindOfFamily(enabled) == IF enabled THEN "mfa" ELSE "plain"

Init ==
    /\ mfaEnabled \in BOOLEAN
    /\ setup = None
    /\ progress = [k \in Kinds |-> None]
    /\ \E f \in Families :
         /\ families = [g \in Families |-> IF g = f THEN KindOfFamily(mfaEnabled) ELSE "unborn"]
         /\ held = {f}
    /\ attempt = [a \in Attempts |-> NoAttempt]
    /\ now = 0
    /\ scenario \in Scenarios

-----------------------------------------------------------------------------
(* Helpers *)

Become(a, next) == attempt' = [attempt EXCEPT ![a] = next]
Goto(a, pc) == [attempt[a] EXCEPT !.pc = pc]
Doc(a) == progress[attempt[a].kind]

\* MfaTransitionStore.read
Readable(doc) == doc # None /\ doc.expiresAt > now

\* executeTransition runs the first step not completed yet.
NextSteps(a) == Steps \ attempt[a].done
AtStep(a, step) ==
    /\ attempt[a].pc = "running"
    /\ step \in NextSteps(a)
    /\ step = "applyMfa" => "createSession" \notin NextSteps(a)
    /\ step = "revokeOldSessions" => NextSteps(a) = {"revokeOldSessions"}

\* A step returned: it is completed, and complete() starts.
Completed(a, step) ==
    [Goto(a, "saving") EXCEPT !.done = attempt[a].done \cup {step}, !.step = step]

InStep(a, step) ==
    \/ AtStep(a, step)
    \/ attempt[a].pc \in {"saving", "writing"} /\ attempt[a].step = step

Revoke(fs) == [f \in Families |-> IF f \in fs /\ Live(f) THEN "revoked" ELSE families[f]]

-----------------------------------------------------------------------------
(* setupMfa, and the two routes up to runTransition *)

\* Only an account without MFA gets a setup document; it replaces the last one.
SetupMfa ==
    /\ "enable" \in scenario.kinds
    /\ ~mfaEnabled
    /\ \E f \in held : Live(f)
    /\ setup' = now + SetupLife
    /\ UNCHANGED <<mfaEnabled, progress, families, held, attempt, now>>

\* authenticate('session').  Only disable has verifySensitiveMfa after it.
Begin(a, kind, f, right) ==
    /\ attempt[a].pc = "idle"
    /\ f \in held /\ Live(f)
    /\ Become(a, [NoAttempt EXCEPT !.pc = IF kind = "disable" THEN "admitted" ELSE "started",
                                   !.kind = kind, !.client = f, !.right = right,
                                   !.was = mfaEnabled, !.began = now])
    /\ UNCHANGED <<mfaEnabled, setup, progress, families, held, now>>

\* verifySensitiveMfa: if MFA was enabled, the code must be right for the secret
\* there is, and the family is marked, which takes a live one.
VerifySensitive(a) ==
    /\ attempt[a].pc = "admitted"
    /\ LET admitted == attempt[a].was => attempt[a].right /\ mfaEnabled /\ Live(attempt[a].client)
       IN  Become(a, IF admitted THEN Goto(a, "started") ELSE NoAttempt)
    /\ UNCHANGED <<mfaEnabled, setup, progress, families, held, now>>

\* runTransition reads the progress once for isResume and the stored session ...
ReadProgress(a) ==
    /\ attempt[a].pc = "started"
    /\ Become(a, [Goto(a, "resuming") EXCEPT
                    !.resume = Readable(Doc(a)),
                    !.session = IF Readable(Doc(a)) THEN Doc(a).session ELSE None])
    /\ UNCHANGED <<mfaEnabled, setup, progress, families, held, now>>

\* ... and executeTransition reads it again for the completed steps.
StartRun(a) ==
    /\ attempt[a].pc = "resuming"
    /\ Become(a, [Goto(a, "running") EXCEPT
                    !.done = IF Readable(Doc(a)) THEN Doc(a).steps ELSE {}])
    /\ UNCHANGED <<mfaEnabled, setup, progress, families, held, now>>

-----------------------------------------------------------------------------
(* Step 1: createBackendSession with sweepStaleFamilies = false *)

CreateSession(a) ==
    /\ AtStep(a, "createSession")
    /\ \E f \in Families :
         /\ families[f] = "unborn"
         /\ families' = [families EXCEPT ![f] = KindOfFamily(attempt[a].kind = "enable")]
         /\ Become(a, [Completed(a, "createSession") EXCEPT !.session = f])
    /\ UNCHANGED <<mfaEnabled, setup, progress, held, now>>

-----------------------------------------------------------------------------
(* Step 2: verifyAndEnableMfa, or disableMfa *)

ApplyFailed(a) ==
    IF attempt[a].session = None THEN NoAttempt ELSE Goto(a, "compensating")

\* A resumed attempt that finds MFA enabled only has to verify the code.
ReadMfaState(a) ==
    /\ AtStep(a, "applyMfa") /\ attempt[a].kind = "enable"
    /\ Become(a, Goto(a, IF attempt[a].resume /\ mfaEnabled THEN "proving" ELSE "checking"))
    /\ UNCHANGED <<mfaEnabled, setup, progress, families, held, now>>

\* The code is checked against the secret, which is gone with MFA.
ProvePossession(a) ==
    /\ attempt[a].pc = "proving"
    /\ Become(a, IF attempt[a].right /\ mfaEnabled THEN Completed(a, "applyMfa") ELSE ApplyFailed(a))
    /\ UNCHANGED <<mfaEnabled, setup, progress, families, held, now>>

\* Otherwise the setup document is read ...
CheckSetup(a) ==
    /\ attempt[a].pc = "checking"
    /\ LET expired == setup # None /\ setup < now
           accepted == setup # None /\ attempt[a].right
       IN  Become(a, CASE expired -> Goto(a, "dropping")
                       [] ~expired /\ accepted -> Goto(a, "committing")
                       [] OTHER -> ApplyFailed(a))
    /\ UNCHANGED <<mfaEnabled, setup, progress, families, held, now>>

\* ... and an expired one deleted, or the one that has replaced it.
DropSetup(a) ==
    /\ attempt[a].pc = "dropping"
    /\ setup' = None
    /\ Become(a, ApplyFailed(a))
    /\ UNCHANGED <<mfaEnabled, progress, families, held, now>>

CommitEnable(a) ==
    /\ attempt[a].pc = "committing"
    /\ mfaEnabled' = TRUE
    /\ Become(a, Goto(a, "consuming"))
    /\ UNCHANGED <<setup, progress, families, held, now>>

ConsumeSetup(a) ==
    /\ attempt[a].pc = "consuming"
    /\ setup' = None
    /\ Become(a, Completed(a, "applyMfa"))
    /\ UNCHANGED <<mfaEnabled, progress, families, held, now>>

CommitDisable(a) ==
    /\ AtStep(a, "applyMfa") /\ attempt[a].kind = "disable"
    /\ mfaEnabled' = FALSE
    /\ Become(a, Completed(a, "applyMfa"))
    /\ UNCHANGED <<setup, progress, families, held, now>>

-----------------------------------------------------------------------------
(* Step 3: revokeAllUserSessions, sparing the new family.  Access sessions *)
(* go before the families, but a family left can get another; the refresh  *)
(* tokens go last.  A page of families is read, then deleted by reference, *)
(* until a page is short or has nothing to delete; the page budget of      *)
(* chunkedWrites.ts is taken to be enough.                                 *)

\* A page that is short of pageSize, as an empty one is, holds all there are.
FindFamilies(a) ==
    /\ AtStep(a, "revokeOldSessions") \/ attempt[a].pc = "paging"
    /\ LET others == {f \in Families \ {attempt[a].session} : Live(f)}
       IN  IF attempt[a].session = None
           THEN Become(a, Goto(a, "retryable"))
           ELSE \E page \in SUBSET others, short \in BOOLEAN :
                  /\ page = {} => short
                  /\ short => page = others
                  /\ Become(a, [Goto(a, IF short THEN "ending" ELSE "revoking") EXCEPT !.page = page])
    /\ UNCHANGED <<mfaEnabled, setup, progress, families, held, now>>

\* Mutant: no session is spared.
RevokeFamilies_SparesNone(a) ==
    /\ attempt[a].pc \in {"revoking", "ending"}
    /\ families' = Revoke(Families)
    /\ Become(a, Goto(a, "sweeping"))
    /\ UNCHANGED <<mfaEnabled, setup, progress, held, now>>

RevokeFamilies(a) ==
    /\ attempt[a].pc \in {"revoking", "ending"}
    /\ families' = Revoke(attempt[a].page)
    /\ Become(a, [Goto(a, IF attempt[a].pc = "ending" THEN "sweeping" ELSE "paging")
                   EXCEPT !.page = {}])
    /\ UNCHANGED <<mfaEnabled, setup, progress, held, now>>

RevokeTokens(a) ==
    /\ attempt[a].pc = "sweeping"
    /\ Become(a, Completed(a, "revokeOldSessions"))
    /\ UNCHANGED <<mfaEnabled, setup, progress, families, held, now>>

-----------------------------------------------------------------------------
(* MfaTransitionStore.complete: a read, and a write of what was read plus   *)
(* the step.  An existing document keeps its expiry, lapsed or not.        *)

ReadSaved(a) ==
    /\ attempt[a].pc = "saving"
    /\ Become(a, [Goto(a, "writing") EXCEPT !.saved = Doc(a)])
    /\ UNCHANGED <<mfaEnabled, setup, progress, families, held, now>>

\* Mutant: the lifetime is subtracted.
Merged_PastExpiry(a) ==
    [steps |-> {attempt[a].step}, session |-> attempt[a].session,
     expiresAt |-> now - ProgressLife]

\* Mutant: the step that was saved last is dropped.
Merged_KeepsFirst(a) ==
    [steps |-> {"createSession", attempt[a].step}, session |-> attempt[a].session,
     expiresAt |-> now + ProgressLife]

\* Mutant: the steps saved before are dropped.
Merged_Forgets(a) ==
    [steps |-> {attempt[a].step},
     session |-> IF attempt[a].step = "createSession" THEN attempt[a].session ELSE None,
     expiresAt |-> now + ProgressLife]

Merged(a) ==
    LET old == attempt[a].saved
        session == IF attempt[a].step = "createSession" THEN attempt[a].session
                   ELSE IF old = None THEN None ELSE old.session
    IN  IF old = None
        THEN [steps |-> {attempt[a].step}, session |-> session, expiresAt |-> now + ProgressLife]
        ELSE [steps |-> old.steps \cup {attempt[a].step}, session |-> session,
              expiresAt |-> old.expiresAt]

WriteSaved(a) ==
    /\ attempt[a].pc = "writing"
    /\ progress' = [progress EXCEPT ![attempt[a].kind] = Merged(a)]
    /\ Become(a, [Goto(a, "running") EXCEPT !.saved = None])
    /\ UNCHANGED <<mfaEnabled, setup, families, held, now>>

-----------------------------------------------------------------------------
(* The end of a transition *)

\* All steps are completed: the progress is cleared and the session returned.
\* A failed clear is only logged.
Finish(a, cleared) ==
    /\ attempt[a].pc = "running" /\ NextSteps(a) = {}
    /\ cleared \/ "clear" \in scenario.faults
    /\ progress' = IF cleared THEN [progress EXCEPT ![attempt[a].kind] = None] ELSE progress
    /\ held' = IF attempt[a].session = None THEN held ELSE held \cup {attempt[a].session}
    /\ Become(a, IF attempt[a].session = None THEN NoAttempt ELSE Goto(a, "answered"))
    /\ UNCHANGED <<mfaEnabled, setup, families, now>>

\* A read of the progress fails, or a call of step 1, or saving it: the request
\* ends in an error, and nothing is compensated.
CreateFails(a) ==
    /\ "create" \in scenario.faults
    /\ attempt[a].pc \in {"started", "resuming"} \/ InStep(a, "createSession")
    /\ Become(a, NoAttempt)
    /\ UNCHANGED <<mfaEnabled, setup, progress, families, held, now>>

\* An awaited call of step 2, or saving it, fails.
ApplyFails(a) ==
    /\ "apply" \in scenario.faults
    /\ InStep(a, "applyMfa") \/ attempt[a].pc \in {"proving", "checking", "dropping", "committing", "consuming"}
    /\ Become(a, ApplyFailed(a))
    /\ UNCHANGED <<mfaEnabled, setup, progress, families, held, now>>

\* The same for step 3: the caller is told to retry.
RevokeFails(a) ==
    /\ "revoke" \in scenario.faults
    /\ InStep(a, "revokeOldSessions") \/ attempt[a].pc \in {"paging", "revoking", "ending", "sweeping"}
    /\ Become(a, [Goto(a, "retryable") EXCEPT !.page = {}])
    /\ UNCHANGED <<mfaEnabled, setup, progress, families, held, now>>

\* Compensation of a failed step 2: revokeSessionFamily, then clear.
CompensateSession(a) ==
    /\ attempt[a].pc = "compensating"
    /\ families' = Revoke({attempt[a].session})
    /\ Become(a, Goto(a, "clearing"))
    /\ UNCHANGED <<mfaEnabled, setup, progress, held, now>>

\* Mutant: the progress survives the compensation.
CompensateProgress_Kept(a) ==
    /\ attempt[a].pc = "clearing"
    /\ Become(a, NoAttempt)
    /\ UNCHANGED <<mfaEnabled, setup, progress, families, held, now>>

CompensateProgress(a) ==
    /\ attempt[a].pc = "clearing"
    /\ progress' = [progress EXCEPT ![attempt[a].kind] = None]
    /\ Become(a, NoAttempt)
    /\ UNCHANGED <<mfaEnabled, setup, families, held, now>>

\* A failed compensation is logged, and the attempt answers with its error.
CompensationFails(a) ==
    /\ "compensation" \in scenario.faults
    /\ attempt[a].pc \in {"compensating", "clearing"}
    /\ Become(a, NoAttempt)
    /\ UNCHANGED <<mfaEnabled, setup, progress, families, held, now>>

\* The answer, or the retryable error, has left.
Leave(a) ==
    /\ attempt[a].pc \in {"answered", "retryable"}
    /\ Become(a, NoAttempt)
    /\ UNCHANGED <<mfaEnabled, setup, progress, families, held, now>>

\* The process dies.
Crash(a) ==
    /\ "crash" \in scenario.faults
    /\ attempt[a].pc # "idle"
    /\ Become(a, NoAttempt)
    /\ UNCHANGED <<mfaEnabled, setup, progress, families, held, now>>

\* A request may straddle an expiry, but is short against the lives: it sees
\* the clock move once.
Tick ==
    /\ now < scenario.maxTime
    /\ \A a \in Attempts : attempt[a].pc # "idle" => attempt[a].began = now
    /\ now' = now + 1
    /\ UNCHANGED <<mfaEnabled, setup, progress, families, held, attempt>>

Run(a) ==
    \/ VerifySensitive(a) \/ ReadProgress(a) \/ StartRun(a)
    \/ CreateSession(a)
    \/ ReadMfaState(a) \/ ProvePossession(a) \/ CheckSetup(a) \/ DropSetup(a)
    \/ CommitEnable(a) \/ ConsumeSetup(a) \/ CommitDisable(a)
    \/ FindFamilies(a) \/ RevokeFamilies(a) \/ RevokeTokens(a)
    \/ ReadSaved(a) \/ WriteSaved(a)
    \/ \E cleared \in BOOLEAN : Finish(a, cleared)
    \/ CompensateSession(a) \/ CompensateProgress(a)
    \/ Leave(a)

Fault(a) == CreateFails(a) \/ ApplyFails(a) \/ RevokeFails(a) \/ CompensationFails(a) \/ Crash(a)

Next ==
    /\ \/ SetupMfa \/ Tick
       \/ \E a \in Attempts :
            \/ \E k \in scenario.kinds, f \in Families, right \in BOOLEAN :
                 Begin(a, k, f, right)
            \/ Run(a) \/ Fault(a)
    /\ UNCHANGED scenario

Spec == Init /\ [][Next]_vars

-----------------------------------------------------------------------------
(* Properties *)

\* What may be asked for and fail where the next two properties hold.  A failed
\* compensation is not among it; unless only calls of step 2 fail, all
\* transitions are of one kind; and a process dies only where it never
\* compensates, which is when it disables and step 2 does not fail.
Orderly(s) ==
    /\ "compensation" \notin s.faults
    /\ s.faults \subseteq {"apply"} \/ \E k \in Kinds : s.kinds \subseteq {k}
    /\ "crash" \in s.faults => "enable" \notin s.kinds /\ "apply" \notin s.faults

\* Some session of the user works at every moment: the new one is created before
\* anything else is touched (MfaSessionService.ts, first invariant).
SomeSession == \E f \in Families : Live(f)
NeverStranded == Orderly(scenario) => SomeSession

\* The answer of a transition is a working session that carries the MFA state
\* the transition asked for, that state is in force, and no session from before
\* is left (the state machines in MfaSessionService.ts).
FinalAnswers ==
    \A a \in Attempts : attempt[a].pc = "answered" =>
        /\ Live(attempt[a].session)
        /\ mfaEnabled = (attempt[a].kind = "enable")
        /\ \A f \in Families : Live(f) => families[f] = KindOfFamily(mfaEnabled)
AnswerIsFinal == Orderly(scenario) => FinalAnswers

\* Retries after failed calls create no duplicate session: besides what clients
\* hold, at most one live family of each transition waits to be delivered.  (A
\* request that ends before it has saved the family leaves it behind.)
NoDuplicateSession ==
    scenario.faults \cap {"create", "crash"} = {} =>
        \A f, g \in Families \ held : Live(f) /\ families[f] = families[g] => f = g

\* A session that a client has been given is not taken away by a later attempt
\* that finds it in the progress and fails: what a compensation revokes is in
\* nobody's hands.
CompensationSparesClients ==
    \A a \in Attempts : attempt[a].pc = "compensating" => attempt[a].session \notin held

\* A transition that compensates has not changed the MFA state ("the created
\* session claims the post-transition state that never materialized",
\* MfaSessionService.ts).
CompensationMeansUnchanged ==
    \A a \in Attempts :
        attempt[a].pc \in {"compensating", "clearing"} => mfaEnabled = attempt[a].was

-----------------------------------------------------------------------------
(* What the code does not have, for TLC to show how: see the README *)

\* After a retryable error the client can retry: the session it called with
\* still authenticates ("a retry resumes from this step").
RetryAuthenticates ==
    \A a \in Attempts : attempt[a].pc = "retryable" => Live(attempt[a].client)

\* Progress that has just been saved can be resumed.
SavedProgressResumes ==
    [][\A k \in Kinds : progress'[k] # progress[k] /\ progress'[k] # None =>
         progress'[k].expiresAt > now]_vars
=============================================================================
