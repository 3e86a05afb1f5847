----------------------- MODULE MfaTransitionTheorems -----------------------
(* Theorems about MfaTransition, for any families, attempts and lifetimes. *)
EXTENDS MfaTransition, TLAPS

-----------------------------------------------------------------------------
(* Types *)

LEMMA NoAttemptType == NoAttempt \in Attempt
BY DEF NoAttempt, Attempt, Labels, Kinds, Steps

LEMMA KindType == \A e \in BOOLEAN : KindOfFamily(e) \in {"plain", "mfa"}
BY DEF KindOfFamily

LEMMA BecomeType ==
    ASSUME attempt \in [Attempts -> Attempt], NEW a \in Attempts, NEW next \in Attempt, Become(a, next)
    PROVE  attempt' \in [Attempts -> Attempt]
BY DEF Become

\* What the helpers make of an attempt is one.
LEMMA HelperTypes ==
    ASSUME TypeOK, NEW a \in Attempts
    PROVE  /\ \A pc \in Labels : Goto(a, pc) \in Attempt
           /\ \A step \in Steps : Completed(a, step) \in Attempt
           /\ ApplyFailed(a) \in Attempt
<1>1. attempt[a] \in Attempt
  BY DEF TypeOK
<1>2. \A pc \in Labels : Goto(a, pc) \in Attempt
  BY <1>1 DEF Goto, Attempt
<1>3. \A step \in Steps : Completed(a, step) \in Attempt
  BY <1>1 DEF Completed, Goto, Attempt, Labels
<1>4. ApplyFailed(a) \in Attempt
  BY <1>2, NoAttemptType DEF ApplyFailed, Labels
<1> QED  BY <1>2, <1>3, <1>4

LEMMA PagedType ==
    ASSUME TypeOK, NEW a \in Attempts, NEW pc \in Labels, NEW page \in SUBSET Families
    PROVE  [Goto(a, pc) EXCEPT !.page = page] \in Attempt
<1>1. Goto(a, pc) \in Attempt
  BY HelperTypes
<1> QED  BY <1>1 DEF Attempt

LEMMA RevokeType ==
    ASSUME TypeOK, NEW fs
    PROVE  Revoke(fs) \in [Families -> {"unborn", "plain", "mfa", "revoked"}]
BY DEF Revoke, TypeOK

LEMMA MergedType ==
    ASSUME TypeOK, NEW a \in Attempts
    PROVE  Merged(a) \in Progress
<1>1. attempt[a] \in Attempt /\ now \in Nat /\ ProgressLife \in Nat
  BY MfaAssumption DEF TypeOK
<1>2. CASE attempt[a].saved = None
  BY <1>1, <1>2 DEF Merged, Attempt, Progress
<1>3. CASE attempt[a].saved # None
  <2>1. attempt[a].saved \in Progress
    BY <1>1, <1>3 DEF Attempt
  <2> QED  BY <1>1, <1>3, <2>1 DEF Merged, Attempt, Progress
<1> QED  BY <1>2, <1>3

LEMMA TypeInit == Init => TypeOK
<1> SUFFICES ASSUME Init PROVE TypeOK
  OBVIOUS
<1>1. progress \in [Kinds -> Progress \cup {None}] /\ attempt \in [Attempts -> Attempt]
  BY NoAttemptType DEF Init
<1>2. families \in [Families -> {"unborn", "plain", "mfa", "revoked"}] /\ held \subseteq Families
  BY KindType DEF Init
<1> QED  BY <1>1, <1>2 DEF Init, TypeOK

LEMMA TypeOfRun ==
    ASSUME TypeOK, UNCHANGED scenario, NEW a \in Attempts, Run(a)
    PROVE  TypeOK'
<1>1. /\ mfaEnabled \in BOOLEAN /\ setup \in Nat \cup {None}
      /\ progress \in [Kinds -> Progress \cup {None}]
      /\ families \in [Families -> {"unborn", "plain", "mfa", "revoked"}] /\ held \subseteq Families
      /\ attempt \in [Attempts -> Attempt] /\ attempt[a] \in Attempt
      /\ now \in Nat /\ scenario \in Scenarios
  BY DEF TypeOK
<1>2. /\ \A pc \in Labels : Goto(a, pc) \in Attempt
      /\ \A step \in Steps : Completed(a, step) \in Attempt
      /\ ApplyFailed(a) \in Attempt
  BY HelperTypes
<1>3. Doc(a) \in Progress \cup {None}
  BY <1>1 DEF Doc, Attempt
<1>4. CASE ReadProgress(a)
  <2>1. [Goto(a, "resuming") EXCEPT
           !.resume = Readable(Doc(a)),
           !.session = IF Readable(Doc(a)) THEN Doc(a).session ELSE None] \in Attempt
    <3>1. PICK resume \in BOOLEAN : resume = Readable(Doc(a))
      BY DEF Readable
    <3>2. resume => Doc(a).session \in Families \cup {None}
      BY <1>3, <3>1 DEF Readable, Progress
    <3>3. Goto(a, "resuming") \in Attempt
      BY <1>2 DEF Labels
    <3>4. (IF resume THEN Doc(a).session ELSE None) \in Families \cup {None}
      BY <3>2
    <3> QED  BY <3>1, <3>3, <3>4 DEF Attempt
  <2> QED  BY <1>1, <1>4, <2>1, BecomeType DEF ReadProgress, TypeOK
<1>5. CASE StartRun(a)
  <2>1. (IF Readable(Doc(a)) THEN Doc(a).steps ELSE {}) \in SUBSET Steps
    BY <1>3 DEF Readable, Progress
  <2>2. Goto(a, "running") \in Attempt
    BY <1>2 DEF Labels
  <2>3. [Goto(a, "running") EXCEPT !.done = IF Readable(Doc(a)) THEN Doc(a).steps ELSE {}] \in Attempt
    BY <2>1, <2>2 DEF Attempt
  <2> QED  BY <1>1, <1>5, <2>3, BecomeType DEF StartRun, TypeOK
<1>6. CASE CreateSession(a)
  <2>1. PICK f \in Families :
          /\ families' = [families EXCEPT ![f] = KindOfFamily(attempt[a].kind = "enable")]
          /\ Become(a, [Completed(a, "createSession") EXCEPT !.session = f])
    BY <1>6 DEF CreateSession
  <2>2. Completed(a, "createSession") \in Attempt
    BY <1>2 DEF Steps
  <2>3. [Completed(a, "createSession") EXCEPT !.session = f] \in Attempt
    BY <2>2 DEF Attempt
  <2>4. families' \in [Families -> {"unborn", "plain", "mfa", "revoked"}]
    BY <1>1, <2>1 DEF KindOfFamily
  <2> QED  BY <1>1, <1>6, <2>1, <2>3, <2>4, BecomeType DEF CreateSession, TypeOK
<1>7. CASE ReadMfaState(a)
  <2>1. Goto(a, IF attempt[a].resume /\ mfaEnabled THEN "proving" ELSE "checking") \in Attempt
    BY <1>2 DEF Labels
  <2> QED  BY <1>1, <1>7, <2>1, BecomeType DEF ReadMfaState, TypeOK
<1>8. CASE ProvePossession(a)
  <2>1. Completed(a, "applyMfa") \in Attempt
    BY <1>2 DEF Steps
  <2>2. (IF attempt[a].right /\ mfaEnabled THEN Completed(a, "applyMfa") ELSE ApplyFailed(a)) \in Attempt
    BY <1>2, <2>1
  <2> QED  BY <1>1, <1>8, <2>2, BecomeType DEF ProvePossession, TypeOK
<1>9. CASE CheckSetup(a)
  <2>1. PICK next \in Attempt : Become(a, next)
    BY <1>2, <1>9 DEF CheckSetup, Labels
  <2> QED  BY <1>1, <1>9, <2>1, BecomeType DEF CheckSetup, TypeOK
<1>10. CASE CommitEnable(a)
  BY <1>1, <1>2, <1>10, BecomeType DEF CommitEnable, TypeOK, Labels
<1>11. CASE ConsumeSetup(a)
  BY <1>1, <1>2, <1>11, BecomeType DEF ConsumeSetup, TypeOK, Steps
<1>12. CASE CommitDisable(a)
  BY <1>1, <1>2, <1>12, BecomeType DEF CommitDisable, TypeOK, Steps
<1>13. CASE RevokeFamilies(a)
  <2>1. PICK pc \in Labels : Become(a, [Goto(a, pc) EXCEPT !.page = {}])
    BY <1>13 DEF RevokeFamilies, Labels
  <2>2. families' \in [Families -> {"unborn", "plain", "mfa", "revoked"}]
    BY <1>1, <1>13, RevokeType DEF RevokeFamilies
  <2> QED  BY <1>1, <1>13, <2>1, <2>2, PagedType, BecomeType DEF RevokeFamilies, TypeOK
<1>14. CASE RevokeTokens(a)
  BY <1>1, <1>2, <1>14, BecomeType DEF RevokeTokens, TypeOK, Steps
<1>15. CASE ReadSaved(a)
  <2>1. Goto(a, "writing") \in Attempt
    BY <1>2 DEF Labels
  <2>2. [Goto(a, "writing") EXCEPT !.saved = Doc(a)] \in Attempt
    BY <1>3, <2>1 DEF Attempt
  <2> QED  BY <1>1, <1>15, <2>2, BecomeType DEF ReadSaved, TypeOK
<1>16. CASE WriteSaved(a)
  <2>1. Goto(a, "running") \in Attempt
    BY <1>2 DEF Labels
  <2>2. [Goto(a, "running") EXCEPT !.saved = None] \in Attempt
    BY <2>1 DEF Attempt
  <2>3. progress' \in [Kinds -> Progress \cup {None}]
    BY <1>1, <1>16, MergedType DEF WriteSaved
  <2> QED  BY <1>1, <1>16, <2>2, <2>3, BecomeType DEF WriteSaved, TypeOK
<1>17. CASE \E cleared \in BOOLEAN : Finish(a, cleared)
  <2>1. PICK cleared \in BOOLEAN : Finish(a, cleared)
    BY <1>17
  <2>2. PICK next \in Attempt : Become(a, next)
    BY <1>2, <2>1, NoAttemptType DEF Finish, Labels
  <2>3. progress' \in [Kinds -> Progress \cup {None}]
    BY <1>1, <2>1 DEF Finish
  <2>4. held' \subseteq Families
    BY <1>1, <2>1 DEF Finish, Attempt
  <2> QED  BY <1>1, <2>1, <2>2, <2>3, <2>4, BecomeType DEF Finish, TypeOK
<1>18. CASE CompensateSession(a)
  <2>1. families' \in [Families -> {"unborn", "plain", "mfa", "revoked"}]
    BY <1>18, RevokeType DEF CompensateSession
  <2> QED  BY <1>1, <1>2, <1>18, <2>1, BecomeType DEF CompensateSession, TypeOK, Labels
<1>19. CASE CompensateProgress(a)
  <2>1. progress' \in [Kinds -> Progress \cup {None}]
    BY <1>1, <1>19 DEF CompensateProgress
  <2> QED  BY <1>1, <1>19, <2>1, NoAttemptType, BecomeType DEF CompensateProgress, TypeOK
<1>20. CASE Leave(a)
  BY <1>1, <1>20, NoAttemptType, BecomeType DEF Leave, TypeOK
<1>21. CASE VerifySensitive(a)
  <2>1. PICK next \in Attempt : Become(a, next)
    BY <1>2, <1>21, NoAttemptType DEF VerifySensitive, Labels
  <2> QED  BY <1>1, <1>21, <2>1, BecomeType DEF VerifySensitive, TypeOK
<1>22. CASE DropSetup(a)
  BY <1>1, <1>2, <1>22, BecomeType DEF DropSetup, TypeOK
<1>23. CASE FindFamilies(a)
  <2>1. PICK next \in Attempt : Become(a, next)
    <3>1. CASE attempt[a].session = None
      BY <1>2, <1>23, <3>1 DEF FindFamilies, Labels
    <3>2. CASE attempt[a].session # None
      <4>1. PICK pc \in Labels, page \in SUBSET Families : Become(a, [Goto(a, pc) EXCEPT !.page = page])
        BY <1>23, <3>2 DEF FindFamilies, Labels
      <4> QED  BY <4>1, PagedType
    <3> QED  BY <3>1, <3>2
  <2> QED  BY <1>1, <1>23, <2>1, BecomeType DEF FindFamilies, TypeOK
<1> QED  BY <1>4, <1>5, <1>6, <1>7, <1>8, <1>9, <1>10, <1>11, <1>12, <1>13, <1>14, <1>15, <1>16, <1>17, <1>18, <1>19, <1>20, <1>21, <1>22, <1>23 DEF Run

LEMMA TypeOfFault ==
    ASSUME TypeOK, UNCHANGED scenario, NEW a \in Attempts, Fault(a)
    PROVE  TypeOK'
<1>1. PICK next \in Attempt : Become(a, next)
  <2>1. ApplyFailed(a) \in Attempt /\ [Goto(a, "retryable") EXCEPT !.page = {}] \in Attempt
    BY HelperTypes, PagedType DEF Labels
  <2> QED  BY <2>1, NoAttemptType DEF Fault, CreateFails, ApplyFails, RevokeFails, CompensationFails, Crash
<1>2. UNCHANGED <<mfaEnabled, setup, progress, families, held, now>>
  BY DEF Fault, CreateFails, ApplyFails, RevokeFails, CompensationFails, Crash
<1> QED  BY <1>1, <1>2, BecomeType DEF TypeOK

LEMMA TypeOfBegin ==
    ASSUME TypeOK, UNCHANGED scenario, NEW a \in Attempts, NEW k \in scenario.kinds, NEW f \in Families,
           NEW right \in BOOLEAN, Begin(a, k, f, right)
    PROVE  TypeOK'
<1>1. k \in Kinds
  BY MfaAssumption DEF TypeOK, Scenario
<1>2. [NoAttempt EXCEPT !.pc = IF k = "disable" THEN "admitted" ELSE "started",
                        !.kind = k, !.client = f, !.right = right,
                        !.was = mfaEnabled, !.began = now] \in Attempt
  <2>1. PICK pc \in Labels : pc = IF k = "disable" THEN "admitted" ELSE "started"
    BY DEF Labels
  <2>2. mfaEnabled \in BOOLEAN /\ now \in Nat
    BY DEF TypeOK
  <2>3. [NoAttempt EXCEPT !.pc = pc, !.kind = k, !.client = f, !.right = right,
                          !.was = mfaEnabled, !.began = now] \in Attempt
    BY <1>1, <2>2, NoAttemptType DEF Attempt
  <2> QED  BY <2>1, <2>3
<1> QED  BY <1>2, BecomeType DEF Begin, TypeOK

LEMMA TypeStep == TypeOK /\ [Next]_vars => TypeOK'
<1> SUFFICES ASSUME TypeOK, [Next]_vars PROVE TypeOK'
  OBVIOUS
<1>1. CASE SetupMfa /\ UNCHANGED scenario
  BY <1>1, MfaAssumption DEF SetupMfa, TypeOK
<1>2. CASE Tick /\ UNCHANGED scenario
  BY <1>2 DEF Tick, TypeOK
<1>3. ASSUME NEW a \in Attempts, Run(a) \/ Fault(a), UNCHANGED scenario PROVE TypeOK'
  BY <1>3, TypeOfRun, TypeOfFault
<1>4. ASSUME NEW a \in Attempts, NEW k \in scenario.kinds, NEW f \in Families, NEW right \in BOOLEAN,
             Begin(a, k, f, right), UNCHANGED scenario
      PROVE  TypeOK'
  BY <1>4, TypeOfBegin
<1>5. CASE UNCHANGED vars
  BY <1>5 DEF vars, TypeOK
<1> QED  BY <1>1, <1>2, <1>3, <1>4, <1>5 DEF Next

\* Documents and attempts keep their types: a resumed transition finds a session
\* family and steps in the progress document, whoever wrote it.
THEOREM TypeCorrect == Spec => []TypeOK
BY TypeInit, TypeStep, PTL DEF Spec

-----------------------------------------------------------------------------
(* What the helpers leave alone *)

LEMMA GotoIs ==
    ASSUME TypeOK, NEW a \in Attempts, NEW pc
    PROVE  LET s == attempt[a]  e == Goto(a, pc) IN
           /\ e.pc = pc /\ e.kind = s.kind /\ e.client = s.client /\ e.right = s.right
           /\ e.resume = s.resume /\ e.session = s.session /\ e.done = s.done /\ e.step = s.step
           /\ e.saved = s.saved /\ e.page = s.page /\ e.was = s.was /\ e.began = s.began
BY DEF TypeOK, Goto, Attempt

LEMMA PagedIs ==
    ASSUME TypeOK, NEW a \in Attempts, NEW pc, NEW page
    PROVE  LET s == attempt[a]  e == [Goto(a, pc) EXCEPT !.page = page] IN
           /\ e.pc = pc /\ e.page = page /\ e.kind = s.kind /\ e.client = s.client
           /\ e.session = s.session /\ e.done = s.done /\ e.step = s.step /\ e.saved = s.saved
BY DEF TypeOK, Goto, Attempt

LEMMA CompletedIs ==
    ASSUME TypeOK, NEW a \in Attempts, NEW step \in Steps
    PROVE  LET s == attempt[a]  e == Completed(a, step) IN
           /\ e.pc = "saving" /\ e.done = s.done \cup {step} /\ e.step = step
           /\ e.kind = s.kind /\ e.client = s.client /\ e.right = s.right
           /\ e.resume = s.resume /\ e.session = s.session
           /\ e.saved = s.saved /\ e.was = s.was /\ e.began = s.began
BY DEF TypeOK, Completed, Goto, Attempt

\* A failed step 2 ends in nothing, or in compensation.
LEMMA ApplyFailedIs ==
    ASSUME TypeOK, NEW a \in Attempts
    PROVE  \/ attempt[a].session = None /\ ApplyFailed(a) = NoAttempt
           \/ attempt[a].session # None /\ ApplyFailed(a) = Goto(a, "compensating")
BY DEF ApplyFailed

-----------------------------------------------------------------------------
(* One transition at a time: what the properties below hold under.  The run  *)
(* mfa_overlap shows that the code does not see to it.                       *)

OneAtATime == \E a : Attempts = {a}

LEMMA OneBecomes ==
    ASSUME OneAtATime, TypeOK, NEW a \in Attempts, NEW next, Become(a, next)
    PROVE  attempt'[a] = next /\ \A b \in Attempts : b = a
BY DEF OneAtATime, TypeOK, Become

-----------------------------------------------------------------------------
(* The inductive invariant *)

\* The families that a transition creates.
Want(k) == KindOfFamily(k = "enable")

InOrder(steps) ==
    /\ "createSession" \in steps
    /\ "revokeOldSessions" \in steps => "applyMfa" \in steps

Before == {"idle", "admitted", "started", "resuming"}
Checks == {"proving", "checking", "dropping", "committing", "consuming"}
Sweeps == {"paging", "revoking", "ending", "sweeping"}
Over == {"idle", "retryable", "answered"}

Created(s) == s.pc \notin Before /\ "createSession" \in s.done
Creating(s) == s.pc \in {"saving", "writing"} /\ s.step = "createSession"

\* What stage and completed steps of an attempt owe each other.
Shape(s) ==
    /\ s.pc # "idle" => s.kind \in scenario.kinds /\ s.client \in held
    /\ s.pc \in Before => s.done = {}
    /\ s.pc = "running" => s.done = {} \/ InOrder(s.done)
    /\ s.pc \notin Before \cup {"running"} => InOrder(s.done)
    /\ s.pc \in {"saving", "writing"} =>
         /\ s.step \in s.done
         /\ s.step = "createSession" => s.done = {"createSession"}
         /\ s.step = "applyMfa" => "revokeOldSessions" \notin s.done
    /\ s.pc \in Checks => s.kind = "enable" /\ "applyMfa" \notin s.done
    /\ s.pc \in Sweeps \cup {"retryable"} => "applyMfa" \in s.done
    /\ s.pc \in Sweeps => "revokeOldSessions" \notin s.done
    /\ s.pc \in {"compensating", "clearing"} =>
         "crash" \notin scenario.faults /\ "revokeOldSessions" \notin s.done
    /\ s.pc = "retryable" => "revoke" \in scenario.faults
    /\ s.pc = "answered" => s.session \in held /\ s.done = Steps

AllWant(k) == \A f \in Families : Live(f) => families[f] = Want(k)

\* The new family works until it is compensated, and is nobody's before the end;
\* the client's works until the old ones are revoked, page by page.
SessionOK(s) ==
    /\ Created(s) => s.session \in Families
    /\ Created(s) /\ s.pc # "clearing" =>
         /\ families[s.session] = Want(s.kind)
         /\ "revokeOldSessions" \notin s.done => s.session \notin held
    /\ s.pc = "clearing" => ~Live(s.session)
    /\ "revokeOldSessions" \notin s.done /\ s.pc \notin {"idle", "retryable"} \cup Sweeps =>
         Live(s.client)
    /\ s.pc \in {"revoking", "ending"} => s.session \notin s.page
    /\ s.pc = "ending" => \A f \in Families : Live(f) => f \in s.page \cup {s.session}
    /\ s.pc = "sweeping" \/ "revokeOldSessions" \in s.done => AllWant(s.kind)

\* The MFA state is the one asked for once step 2 is completed.
StateOK(s) ==
    /\ "applyMfa" \in s.done /\ s.pc \notin {"compensating", "clearing"} =>
         mfaEnabled = (s.kind = "enable")
    /\ s.pc = "consuming" => mfaEnabled

Saved(doc, step) == doc # None /\ step \in doc.steps

\* What the attempt knows of its transition's document, and the document of it.
Reads(s, doc) ==
    /\ s.pc = "resuming" /\ Readable(doc) => s.session = doc.session
    /\ (s.pc = "running" /\ s.done = {}) \/ Creating(s) => ~Readable(doc)
    /\ s.pc = "writing" => s.saved = doc
    /\ Created(s) /\ ~Creating(s) =>
         /\ s.pc # "answered" => doc # None
         /\ doc # None => doc.session = s.session
    /\ s.pc \in {"running"} \cup Sweeps \cup Checks => \A x \in s.done : Saved(doc, x)
    /\ s.pc \in {"saving", "writing"} => \A x \in s.done : x = s.step \/ Saved(doc, x)

\* What can be resumed is true.
Resumable(k, doc) ==
    /\ families[doc.session] = Want(k)
    /\ "applyMfa" \in doc.steps => mfaEnabled = (k = "enable")
    /\ "revokeOldSessions" \in doc.steps => AllWant(k)
    /\ "revokeOldSessions" \notin doc.steps => doc.session \notin held

\* Only the attempt s leaves a document to the next one, and only where all are
\* of its kind.
DocOK(k, s) ==
    LET doc == progress[k]
    IN doc # None =>
         /\ InOrder(doc.steps) /\ doc.session \in Families
         /\ scenario.kinds = {k} \/ (s.kind = k /\ s.pc \notin Before \cup Over)
         /\ Readable(doc) /\ ~(s.kind = k /\ s.pc = "clearing") => Resumable(k, doc)

AttemptInv(s) ==
    /\ Shape(s) /\ SessionOK(s) /\ StateOK(s) /\ Reads(s, progress[s.kind])
    /\ \A k \in Kinds : DocOK(k, s)

SomeLive == \E f \in Families : Live(f)

HeldBorn == \A f \in held : families[f] # "unborn"

Inv ==
    /\ TypeOK /\ Orderly(scenario) /\ SomeLive /\ HeldBorn
    /\ \A a \in Attempts : AttemptInv(attempt[a])

LEMMA Keeps ==
    ASSUME OneAtATime, Inv, NEW a \in Attempts, NEW next, Become(a, next), TypeOK', UNCHANGED scenario,
           SomeLive', HeldBorn', AttemptInv(next)'
    PROVE  Inv'
<1>1. attempt'[a] = next /\ \A b \in Attempts : b = a
  BY OneBecomes DEF Inv
<1>2. AttemptInv(attempt[a])'
  BY <1>1 DEF AttemptInv, Shape, SessionOK, StateOK, Reads, DocOK, Created, Creating, Sweeps
<1> QED  BY <1>1, <1>2 DEF Inv

\* Where only the attempt changes.
LEMMA LocalKeeps ==
    ASSUME OneAtATime, Inv, NEW a \in Attempts, NEW next, Become(a, next), TypeOK',
           UNCHANGED scenario, UNCHANGED <<mfaEnabled, progress, families, held, now>>,
           attempt[a].pc # "clearing",
           Shape(next), SessionOK(next), StateOK(next), Reads(next, progress[next.kind]),
           \A k \in Kinds : progress[k] # None =>
               scenario.kinds = {k} \/ (next.kind = k /\ next.pc \notin Before \cup Over)
    PROVE  Inv'
<1>1. SomeLive' /\ HeldBorn'
  BY DEF Inv, SomeLive, HeldBorn, Live
<1>2. Shape(next)'
  BY DEF Shape, Sweeps
<1>3. SessionOK(next)'
  BY DEF SessionOK, Live, AllWant, Sweeps
<1>4. StateOK(next)'
  BY DEF StateOK
<1>5. Reads(next, progress[next.kind])'
  BY DEF Reads, Readable, Sweeps
<1>6. ASSUME NEW k \in Kinds PROVE DocOK(k, next)'
  <2>1. DocOK(k, attempt[a])
    BY DEF Inv, AttemptInv
  <2>2. DocOK(k, next)
    BY <2>1 DEF DocOK
  <2> QED  BY <2>2 DEF DocOK, Readable, Resumable, AllWant, Live
<1>7. AttemptInv(next)'
  BY <1>2, <1>3, <1>4, <1>5, <1>6 DEF AttemptInv
<1> QED  BY <1>1, <1>7, Keeps

\* There is no document of the other transition while one is under way.
LEMMA OtherDocs ==
    ASSUME Inv, NEW a \in Attempts, attempt[a].pc # "idle", NEW k \in Kinds, k # attempt[a].kind
    PROVE  progress[k] = None
<1>1. attempt[a].kind \in scenario.kinds /\ DocOK(k, attempt[a])
  BY DEF Inv, AttemptInv, Shape, Sweeps
<1> QED  BY <1>1 DEF DocOK

\* The state of the attempt that takes a step.
LEMMA Here ==
    ASSUME Inv, NEW a \in Attempts
    PROVE  LET s == attempt[a] IN
           /\ s \in Attempt /\ Shape(s) /\ SessionOK(s) /\ StateOK(s) /\ Reads(s, progress[s.kind])
           /\ \A k \in Kinds : DocOK(k, s)
           /\ \A k \in Kinds : progress[k] # None =>
                scenario.kinds = {k} \/ (s.kind = k /\ s.pc \notin Before \cup Over)
           /\ s.done \subseteq Steps /\ s.kind \in Kinds /\ progress[s.kind] \in Progress \cup {None}
           /\ s.pc # "idle" => scenario.kinds \subseteq Kinds /\ s.kind \in scenario.kinds
BY MfaAssumption DEF Inv, TypeOK, AttemptInv, Attempt, DocOK, Shape, Scenario, Sweeps

\* An attempt in nobody's hands asks nothing of the state.
LEMMA IdleKeeps ==
    ASSUME OneAtATime, Inv, NEW a \in Attempts, Become(a, NoAttempt), TypeOK',
           UNCHANGED scenario, UNCHANGED <<mfaEnabled, progress, families, held, now>>,
           attempt[a].pc # "clearing",
           \A k \in Kinds : progress[k] # None => scenario.kinds = {k}
    PROVE  Inv'
<1>1. /\ NoAttempt.pc = "idle" /\ NoAttempt.done = {}
  BY DEF NoAttempt
<1>2. /\ Shape(NoAttempt) /\ SessionOK(NoAttempt) /\ StateOK(NoAttempt)
      /\ Reads(NoAttempt, progress[NoAttempt.kind])
  BY <1>1 DEF Shape, SessionOK, StateOK, Reads, Created, Creating, Before, Checks, Sweeps
<1> QED  BY <1>2, LocalKeeps

\* Where more than step 2 may fail, all documents are of the attempt's kind.
LEMMA OneKind ==
    ASSUME Inv, NEW a \in Attempts, attempt[a].pc # "idle", ~(scenario.faults \subseteq {"apply"})
    PROVE  \A k \in Kinds : progress[k] # None => scenario.kinds = {k}
<1>1. \A k \in Kinds : progress[k] # None => scenario.kinds = {k} \/ attempt[a].kind = k
  BY Here
<1>2. attempt[a].kind \in scenario.kinds
  BY Here
<1>3. PICK k \in Kinds : scenario.kinds \subseteq {k}
  BY DEF Inv, Orderly
<1> QED  BY <1>1, <1>2, <1>3

-----------------------------------------------------------------------------
(* The steps *)

LEMMA BeginInv ==
    ASSUME OneAtATime, Inv, TypeOK', UNCHANGED scenario, NEW a \in Attempts, NEW k \in scenario.kinds,
           NEW f \in Families, NEW right \in BOOLEAN, Begin(a, k, f, right)
    PROVE  Inv'
<1>1. PICK s, next :
        /\ s = attempt[a] /\ Become(a, next)
        /\ next = [NoAttempt EXCEPT !.pc = IF k = "disable" THEN "admitted" ELSE "started",
                                    !.kind = k, !.client = f, !.right = right,
                                    !.was = mfaEnabled, !.began = now]
  BY DEF Begin
<1>2. UNCHANGED <<mfaEnabled, progress, families, held, now>> /\ s.pc = "idle" /\ f \in held /\ Live(f)
  BY <1>1 DEF Begin
<1>3. next.pc \in {"admitted", "started"} /\ next.kind = k /\ next.client = f /\ next.done = {}
  BY <1>1 DEF NoAttempt
<1>4. Shape(next) /\ SessionOK(next) /\ StateOK(next) /\ Reads(next, progress[next.kind])
  BY <1>2, <1>3 DEF Shape, SessionOK, StateOK, Reads, Created, Creating, Before, Checks, Sweeps
<1>5. \A j \in Kinds : progress[j] # None => scenario.kinds = {j}
  BY <1>1, <1>2, Here DEF Before
<1> QED  BY <1>1, <1>2, <1>4, <1>5, LocalKeeps

LEMMA VerifySensitiveInv ==
    ASSUME OneAtATime, Inv, TypeOK', UNCHANGED scenario, NEW a \in Attempts, VerifySensitive(a)
    PROVE  Inv'
<1>1. UNCHANGED <<mfaEnabled, progress, families, held, now>> /\ attempt[a].pc = "admitted"
  BY DEF VerifySensitive
<1>2. \A k \in Kinds : progress[k] # None => scenario.kinds = {k}
  BY <1>1, Here DEF Before
<1>3. CASE Become(a, NoAttempt)
  BY <1>1, <1>2, <1>3, IdleKeeps
<1>4. CASE Become(a, Goto(a, "started"))
  <2>1. PICK s, next : s = attempt[a] /\ next = Goto(a, "started")
    OBVIOUS
  <2>2. /\ next.pc = "started" /\ next.kind = s.kind /\ next.client = s.client /\ next.done = s.done
    BY <2>1, GotoIs DEF Inv
  <2>3. Shape(s) /\ SessionOK(s)
    BY <2>1, Here
  <2>4. Shape(next) /\ SessionOK(next) /\ StateOK(next) /\ Reads(next, progress[next.kind])
    BY <1>1, <2>1, <2>2, <2>3 DEF Shape, SessionOK, StateOK, Reads, Created, Creating, Before, Checks, Sweeps
  <2> QED  BY <1>1, <1>2, <1>4, <2>1, <2>4, LocalKeeps
<1> QED  BY <1>3, <1>4 DEF VerifySensitive

LEMMA ReadProgressInv ==
    ASSUME OneAtATime, Inv, TypeOK', UNCHANGED scenario, NEW a \in Attempts, ReadProgress(a)
    PROVE  Inv'
<1>1. PICK s, doc, next :
        /\ s = attempt[a] /\ doc = progress[s.kind] /\ Become(a, next)
        /\ next = [Goto(a, "resuming") EXCEPT
                     !.resume = Readable(doc),
                     !.session = IF Readable(doc) THEN doc.session ELSE None]
  BY DEF ReadProgress, Doc
<1>2. UNCHANGED <<mfaEnabled, progress, families, held, now>> /\ s.pc = "started"
  BY <1>1 DEF ReadProgress
<1>3. /\ next.pc = "resuming" /\ next.kind = s.kind /\ next.client = s.client /\ next.done = s.done
      /\ Readable(doc) => next.session = doc.session
  <2>1. s \in Attempt
    BY <1>1, Here
  <2> QED  BY <1>1, <2>1 DEF Goto, Attempt
<1>4. Shape(s) /\ SessionOK(s)
  BY <1>1, Here
<1>5. Shape(next) /\ SessionOK(next) /\ StateOK(next) /\ Reads(next, doc)
  BY <1>2, <1>3, <1>4 DEF Shape, SessionOK, StateOK, Reads, Created, Creating, Before, Checks, Sweeps
<1>6. \A k \in Kinds : progress[k] # None => scenario.kinds = {k}
  BY <1>1, <1>2, Here DEF Before
<1> QED  BY <1>1, <1>2, <1>3, <1>5, <1>6, LocalKeeps

\* What is resumed is true, so the attempt is where the one before it was.
LEMMA StartRunInv ==
    ASSUME OneAtATime, Inv, TypeOK', UNCHANGED scenario, NEW a \in Attempts, StartRun(a)
    PROVE  Inv'
<1>1. PICK s, doc, next :
        /\ s = attempt[a] /\ doc = progress[s.kind] /\ Become(a, next)
        /\ next = [Goto(a, "running") EXCEPT !.done = IF Readable(doc) THEN doc.steps ELSE {}]
  BY DEF StartRun, Doc
<1>2. UNCHANGED <<mfaEnabled, progress, families, held, now>> /\ s.pc = "resuming"
  BY <1>1 DEF StartRun
<1>3. /\ next.pc = "running" /\ next.kind = s.kind /\ next.client = s.client /\ next.session = s.session
      /\ next.done = IF Readable(doc) THEN doc.steps ELSE {}
  <2>1. s \in Attempt
    BY <1>1, Here
  <2> QED  BY <1>1, <2>1 DEF Goto, Attempt
<1>4. Shape(s) /\ SessionOK(s) /\ Reads(s, doc) /\ DocOK(s.kind, s) /\ s.done = {}
  BY <1>1, <1>2, Here DEF Shape, Before, Sweeps
<1>5. CASE Readable(doc)
  <2>1. doc # None /\ InOrder(doc.steps) /\ doc.session \in Families /\ Resumable(s.kind, doc)
    BY <1>1, <1>2, <1>4, <1>5 DEF DocOK, Readable
  <2>2. next.session = doc.session /\ next.done = doc.steps
    BY <1>2, <1>3, <1>4, <1>5 DEF Reads, Sweeps
  <2>3. Shape(next)
    BY <1>2, <1>3, <1>4, <2>1, <2>2 DEF Shape, Before, Checks, Sweeps
  <2>4. SessionOK(next)
    BY <1>2, <1>3, <1>4, <2>1, <2>2 DEF SessionOK, Resumable, Before, Sweeps
  <2>5. StateOK(next)
    BY <1>3, <2>1, <2>2 DEF StateOK, Resumable
  <2>6. Reads(next, doc)
    BY <1>3, <2>1, <2>2 DEF Reads, Creating, InOrder, Saved, Sweeps
  <2> QED  BY ZenonT(40), <2>3, <2>4, <2>5, <2>6, <1>1, <1>2, <1>3, Here, LocalKeeps DEF Before
<1>6. CASE ~Readable(doc)
  <2>1. Shape(next) /\ SessionOK(next) /\ StateOK(next) /\ Reads(next, doc)
    BY <1>2, <1>3, <1>4, <1>6 DEF Shape, SessionOK, StateOK, Reads, Created, Creating, Before, Checks, Sweeps
  <2> QED  BY ZenonT(40), <2>1, <1>1, <1>2, <1>3, Here, LocalKeeps DEF Before
<1> QED  BY <1>5, <1>6

LEMMA ReadMfaStateInv ==
    ASSUME OneAtATime, Inv, TypeOK', UNCHANGED scenario, NEW a \in Attempts, ReadMfaState(a)
    PROVE  Inv'
<1>1. PICK s, pc, next :
        /\ s = attempt[a] /\ pc \in {"proving", "checking"} /\ Become(a, next) /\ next = Goto(a, pc)
  BY DEF ReadMfaState
<1>2. /\ UNCHANGED <<mfaEnabled, progress, families, held, now>> /\ s.pc = "running"
      /\ s.kind = "enable" /\ "applyMfa" \notin s.done /\ "createSession" \in s.done
  BY <1>1 DEF ReadMfaState, AtStep, NextSteps, Steps
<1>3. /\ next.pc \in {"proving", "checking"} /\ next.kind = s.kind /\ next.client = s.client
      /\ next.session = s.session /\ next.done = s.done
  BY <1>1, GotoIs DEF Inv
<1>4. Shape(s) /\ SessionOK(s) /\ Reads(s, progress[s.kind])
  BY <1>1, Here
<1>5. Shape(next)
  BY <1>2, <1>3, <1>4 DEF Shape, Before, Checks, Sweeps
<1>6. SessionOK(next)
  BY <1>2, <1>3, <1>4 DEF SessionOK, Created, Before, Sweeps
<1>7. StateOK(next)
  BY <1>2, <1>3 DEF StateOK
<1>8. Reads(next, progress[next.kind])
  BY <1>2, <1>3, <1>4 DEF Reads, Created, Creating, Before, Checks, Sweeps
<1> QED  BY <1>1, <1>2, <1>3, <1>5, <1>6, <1>7, <1>8, Here, LocalKeeps DEF Before, Over

\* The session of an attempt that fails is the one it has to compensate.
LEMMA ApplyFailedInv ==
    ASSUME OneAtATime, Inv, TypeOK', UNCHANGED scenario, NEW a \in Attempts, Become(a, ApplyFailed(a)),
           UNCHANGED <<mfaEnabled, progress, families, held, now>>,
           \/ attempt[a].pc \in Checks
           \/ "apply" \in scenario.faults /\ InStep(a, "applyMfa")
    PROVE  Inv'
<1>1. PICK s : s = attempt[a]
  OBVIOUS
<1>2. /\ Shape(s) /\ SessionOK(s) /\ Reads(s, progress[s.kind])
  BY <1>1, Here
<1>3. /\ s.pc \in Checks \cup {"running", "saving", "writing"}
      /\ InOrder(s.done) /\ "revokeOldSessions" \notin s.done /\ ~Creating(s)
      /\ "crash" \notin scenario.faults
  <2>1. CASE s.pc \in Checks
    <3>1. "crash" \notin scenario.faults
      BY <1>1, <1>2, <2>1, Here DEF Checks, Shape, Inv, Orderly, Sweeps
    <3> QED  BY <1>2, <2>1, <3>1 DEF Shape, Checks, Before, Creating, InOrder, Sweeps
  <2>2. CASE "apply" \in scenario.faults /\ InStep(a, "applyMfa")
    <3>1. "crash" \notin scenario.faults
      BY <2>2 DEF Inv, Orderly
    <3>2. CASE AtStep(a, "applyMfa")
      BY <1>1, <1>2, <3>1, <3>2 DEF AtStep, NextSteps, Steps, Shape, Creating, InOrder, Sweeps
    <3>3. CASE s.pc \in {"saving", "writing"} /\ s.step = "applyMfa"
      BY <1>2, <3>1, <3>3 DEF Shape, Creating, Before, Sweeps
    <3> QED  BY <1>1, <2>2, <3>2, <3>3 DEF InStep
  <2> QED  BY <1>1, <2>1, <2>2
<1>4. Created(s) /\ s.session \in Families
  BY <1>2, <1>3 DEF Created, Before, Checks, Sweeps, InOrder, SessionOK
<1>5. PICK next : next = Goto(a, "compensating") /\ Become(a, next)
  BY <1>1, <1>4, ApplyFailedIs, MfaAssumption DEF Inv
<1>6. /\ next.pc = "compensating" /\ next.kind = s.kind /\ next.client = s.client
      /\ next.session = s.session /\ next.done = s.done
  BY <1>1, <1>5, GotoIs DEF Inv
<1>7. Shape(next)
  BY <1>2, <1>3, <1>6 DEF Shape, Before, Checks, Sweeps
<1>8. SessionOK(next)
  BY <1>2, <1>3, <1>4, <1>6 DEF SessionOK, Created, Before, Checks, Sweeps
<1>9. StateOK(next)
  BY <1>6 DEF StateOK
<1>10. Reads(next, progress[next.kind])
  BY <1>2, <1>3, <1>4, <1>6 DEF Reads, Creating, Checks, Sweeps
<1>11. \A k \in Kinds : progress[k] # None =>
         scenario.kinds = {k} \/ (next.kind = k /\ next.pc \notin Before \cup Over)
  BY <1>1, <1>6, Here DEF Before, Over
<1>12. s.pc # "clearing"
  BY <1>3 DEF Checks
<1> QED  BY <1>1, <1>5, <1>7, <1>8, <1>9, <1>10, <1>11, <1>12, LocalKeeps

\* Step 2 is completed.
LEMMA AppliedInv ==
    ASSUME OneAtATime, Inv, TypeOK', UNCHANGED scenario, NEW a \in Attempts,
           Become(a, Completed(a, "applyMfa")),
           UNCHANGED <<mfaEnabled, progress, families, held, now>>,
           attempt[a].pc \in {"proving", "consuming"}, mfaEnabled
    PROVE  Inv'
<1>1. PICK s, next : s = attempt[a] /\ next = Completed(a, "applyMfa")
  OBVIOUS
<1>2. /\ Shape(s) /\ SessionOK(s) /\ Reads(s, progress[s.kind])
  BY <1>1, Here
<1>3. /\ next.pc = "saving" /\ next.kind = s.kind /\ next.client = s.client
      /\ next.session = s.session /\ next.done = s.done \cup {"applyMfa"} /\ next.step = "applyMfa"
  BY <1>1, CompletedIs DEF Inv, Steps
<1>4. s.kind = "enable" /\ InOrder(s.done) /\ "applyMfa" \notin s.done /\ s.pc \in {"proving", "consuming"}
  BY <1>1, <1>2 DEF Shape, Checks, Before, Sweeps
<1>5. Shape(next)
  BY <1>2, <1>3, <1>4 DEF Shape, Before, Checks, Sweeps, InOrder
<1>6. SessionOK(next)
  BY <1>2, <1>3, <1>4 DEF SessionOK, Created, Before, InOrder, Sweeps
<1>7. StateOK(next)
  BY <1>3, <1>4 DEF StateOK
<1>8. Reads(next, progress[next.kind])
  BY <1>2, <1>3, <1>4 DEF Reads, Created, Creating, Before, Checks, Sweeps, InOrder
<1>9. \A k \in Kinds : progress[k] # None =>
         scenario.kinds = {k} \/ (next.kind = k /\ next.pc \notin Before \cup Over)
  BY <1>1, <1>3, Here DEF Before, Over
<1> QED  BY <1>1, <1>4, <1>5, <1>6, <1>7, <1>8, <1>9, LocalKeeps

LEMMA ProvePossessionInv ==
    ASSUME OneAtATime, Inv, TypeOK', UNCHANGED scenario, NEW a \in Attempts, ProvePossession(a)
    PROVE  Inv'
<1>1. attempt[a].pc = "proving" /\ UNCHANGED <<mfaEnabled, progress, families, held, now>>
  BY DEF ProvePossession
<1>2. CASE attempt[a].right /\ mfaEnabled
  BY <1>1, <1>2, AppliedInv DEF ProvePossession
<1>3. CASE ~(attempt[a].right /\ mfaEnabled)
  BY <1>1, <1>3, ApplyFailedInv DEF ProvePossession, Checks
<1> QED  BY <1>2, <1>3

LEMMA ConsumeSetupInv ==
    ASSUME OneAtATime, Inv, TypeOK', UNCHANGED scenario, NEW a \in Attempts, ConsumeSetup(a)
    PROVE  Inv'
<1>1. attempt[a].pc = "consuming" /\ UNCHANGED <<mfaEnabled, progress, families, held, now>>
  BY DEF ConsumeSetup
<1>2. mfaEnabled
  BY <1>1, Here DEF StateOK
<1> QED  BY <1>1, <1>2, AppliedInv DEF ConsumeSetup

LEMMA CheckSetupInv ==
    ASSUME OneAtATime, Inv, TypeOK', UNCHANGED scenario, NEW a \in Attempts, CheckSetup(a)
    PROVE  Inv'
<1>1. attempt[a].pc = "checking" /\ UNCHANGED <<mfaEnabled, progress, families, held, now>>
  BY DEF CheckSetup
<1>2. CASE Become(a, ApplyFailed(a))
  BY <1>1, <1>2, ApplyFailedInv DEF Checks
<1>3. ASSUME NEW pc \in {"committing", "dropping"}, Become(a, Goto(a, pc)) PROVE Inv'
  <2>1. PICK s, next : s = attempt[a] /\ next = Goto(a, pc)
    OBVIOUS
  <2>2. /\ next.pc = pc /\ next.kind = s.kind /\ next.client = s.client
        /\ next.session = s.session /\ next.done = s.done
    BY <2>1, GotoIs DEF Inv
  <2>3. Shape(s) /\ SessionOK(s) /\ Reads(s, progress[s.kind])
    BY <2>1, Here
  <2>4. Shape(next) /\ StateOK(next)
    BY <1>1, <2>1, <2>2, <2>3 DEF Shape, StateOK, Before, Checks, Sweeps
  <2>5. SessionOK(next)
    BY <1>1, <2>1, <2>2, <2>3 DEF SessionOK, Created, Before, Sweeps
  <2>6. Reads(next, progress[next.kind])
    BY <1>1, <2>1, <2>2, <2>3 DEF Reads, Created, Creating, Before, Checks, Sweeps
  <2>7. \A k \in Kinds : progress[k] # None =>
          scenario.kinds = {k} \/ (next.kind = k /\ next.pc \notin Before \cup Over)
    BY <2>1, <2>2, Here DEF Before, Over
  <2> QED  BY <1>1, <1>3, <2>1, <2>4, <2>5, <2>6, <2>7, LocalKeeps
<1>4. \/ Become(a, ApplyFailed(a))
      \/ \E pc \in {"committing", "dropping"} : Become(a, Goto(a, pc))
  <2>1. PICK expired, accepted \in BOOLEAN :
          Become(a, CASE expired -> Goto(a, "dropping")
                      [] ~expired /\ accepted -> Goto(a, "committing")
                      [] OTHER -> ApplyFailed(a))
    BY DEF CheckSetup
  <2> QED  BY <2>1
<1> QED  BY <1>2, <1>3, <1>4

LEMMA DropSetupInv ==
    ASSUME OneAtATime, Inv, TypeOK', UNCHANGED scenario, NEW a \in Attempts, DropSetup(a)
    PROVE  Inv'
<1>1. attempt[a].pc = "dropping" /\ UNCHANGED <<mfaEnabled, progress, families, held, now>>
  BY DEF DropSetup
<1> QED  BY <1>1, ApplyFailedInv DEF DropSetup, Checks

\* The two commits.
LEMMA CommitInv ==
    ASSUME OneAtATime, Inv, TypeOK', UNCHANGED scenario, NEW a \in Attempts,
           CommitEnable(a) \/ CommitDisable(a)
    PROVE  Inv'
<1>0. /\ CommitEnable(a) => Become(a, Goto(a, "consuming"))
      /\ CommitDisable(a) => Become(a, Completed(a, "applyMfa"))
  BY DEF CommitEnable, CommitDisable
<1>1. PICK s, next :
        /\ s = attempt[a] /\ Become(a, next)
        /\ \/ CommitEnable(a) /\ next = Goto(a, "consuming")
           \/ CommitDisable(a) /\ next = Completed(a, "applyMfa")
  <2>1. CASE CommitEnable(a)
    BY <1>0, <2>1, Zenon
  <2>2. CASE CommitDisable(a)
    BY <1>0, <2>2, Zenon
  <2> QED  BY <2>1, <2>2
<1>2. UNCHANGED <<progress, families, held, now>>
  BY DEF CommitEnable, CommitDisable
<1>3. Shape(s) /\ SessionOK(s) /\ Reads(s, progress[s.kind])
  BY <1>1, Here
<1>4. /\ s.pc \in {"running", "committing"} /\ InOrder(s.done) /\ "applyMfa" \notin s.done
      /\ mfaEnabled' = (s.kind = "enable")
  <2>1. CASE CommitEnable(a)
    BY <1>1, <1>3, <2>1 DEF CommitEnable, Shape, Before, Checks, Sweeps
  <2>2. CASE CommitDisable(a)
    BY <1>1, <1>3, <2>2 DEF CommitDisable, AtStep, NextSteps, Steps, Shape, InOrder, Sweeps
  <2> QED  BY <2>1, <2>2
<1>5. /\ next.kind = s.kind /\ next.client = s.client /\ next.session = s.session
      /\ \/ next.pc = "consuming" /\ next.done = s.done /\ s.kind = "enable"
         \/ next.pc = "saving" /\ next.step = "applyMfa" /\ next.done = s.done \cup {"applyMfa"}
  <2>1. CASE CommitEnable(a) /\ next = Goto(a, "consuming")
    BY <1>1, <1>3, <2>1, GotoIs DEF CommitEnable, Inv, Shape, Checks, Sweeps
  <2>2. CASE CommitDisable(a) /\ next = Completed(a, "applyMfa")
    BY <1>1, <2>2, CompletedIs DEF Inv, Steps
  <2> QED  BY <1>1, <2>1, <2>2
<1>6. SomeLive' /\ HeldBorn'
  BY <1>2 DEF Inv, SomeLive, HeldBorn, Live
<1>7. Shape(next)'
  <2>1. Shape(next)
    BY <1>3, <1>4, <1>5 DEF Shape, Before, Checks, Sweeps, InOrder
  <2> QED  BY <1>2, <2>1 DEF Shape, Sweeps
<1>8. SessionOK(next)'
  <2>1. SessionOK(next)
    BY <1>3, <1>4, <1>5 DEF SessionOK, Created, Before, InOrder, Sweeps
  <2> QED  BY <1>2, <2>1 DEF SessionOK, Live, AllWant, Sweeps
<1>9. StateOK(next)'
  BY <1>4, <1>5 DEF StateOK
<1>10. Reads(next, progress[next.kind])'
  <2>1. Reads(next, progress[s.kind])
    BY <1>3, <1>4, <1>5 DEF Reads, Created, Creating, Before, Checks, Sweeps, InOrder
  <2> QED  BY <1>2, <1>5, <2>1 DEF Reads, Readable, Sweeps
<1>11. ASSUME NEW k \in Kinds PROVE DocOK(k, next)'
  <2>1. CASE k # s.kind
    <3>1. progress'[k] = None
      BY <1>1, <1>2, <1>4, <2>1, OtherDocs
    <3> QED  BY <3>1 DEF DocOK
  <2>2. CASE k = s.kind
    <3>1. DocOK(k, s)
      BY <1>1, Here
    <3>2. DocOK(k, next)
      BY <1>4, <1>5, <3>1, <2>2 DEF DocOK, Before, Over
    <3>3. Readable(progress[k]) => Resumable(k, progress[k])
      BY <1>4, <2>2, <3>1 DEF DocOK, Readable
    <3>4. Readable(progress[k]) => Resumable(k, progress[k])'
      BY <1>2, <1>4, <2>2, <3>3 DEF Resumable, AllWant, Live
    <3> QED  BY <1>2, <3>2, <3>4 DEF DocOK, Readable
  <2> QED  BY <2>1, <2>2
<1>12. AttemptInv(next)'
  BY <1>7, <1>8, <1>9, <1>10, <1>11 DEF AttemptInv
<1> QED  BY <1>1, <1>6, <1>12, Keeps

LEMMA WantLive == \A k : Want(k) \in {"plain", "mfa"}
BY DEF Want, KindOfFamily

LEMMA CreateSessionInv ==
    ASSUME OneAtATime, Inv, TypeOK', UNCHANGED scenario, NEW a \in Attempts, CreateSession(a)
    PROVE  Inv'
<1>1. PICK s : s = attempt[a]
  OBVIOUS
<1>2. PICK f, next :
        /\ f \in Families /\ families[f] = "unborn" /\ families' = [families EXCEPT ![f] = Want(s.kind)]
        /\ Become(a, next) /\ next = [Completed(a, "createSession") EXCEPT !.session = f]
  BY <1>1 DEF CreateSession, Want
<1>3. /\ UNCHANGED <<mfaEnabled, progress, held, now>>
      /\ s.pc = "running" /\ "createSession" \notin s.done
  BY <1>1 DEF CreateSession, AtStep, NextSteps
<1>4. s \in Attempt /\ Shape(s) /\ SessionOK(s) /\ Reads(s, progress[s.kind])
  BY <1>1, Here
<1>5. s.done = {}
  BY <1>3, <1>4 DEF Shape, InOrder, Sweeps
<1>6. /\ next.pc = "saving" /\ next.step = "createSession" /\ next.done = {"createSession"}
      /\ next.kind = s.kind /\ next.client = s.client /\ next.session = f
  BY <1>1, <1>2, <1>4, <1>5 DEF Completed, Goto, Attempt
<1>7. families \in [Families -> {"unborn", "plain", "mfa", "revoked"}] /\ held \subseteq Families
  BY DEF Inv, TypeOK
<1>8. families'[f] = Want(s.kind) /\ f \notin held /\ \A g \in Families : g # f => families'[g] = families[g]
  BY <1>2, <1>7 DEF Inv, HeldBorn
<1>9. \A g \in Families : g # f => (Live(g)' <=> Live(g))
  BY <1>8 DEF Live
<1>10. SomeLive' /\ HeldBorn'
  <2>1. Live(f)'
    BY <1>2, <1>8, WantLive, MfaAssumption DEF Live
  <2>2. HeldBorn'
    BY <1>3, <1>7, <1>8 DEF Inv, HeldBorn
  <2> QED  BY <1>2, <2>1, <2>2 DEF SomeLive
<1>11. Shape(next)' /\ StateOK(next)'
  BY <1>3, <1>4, <1>6 DEF Shape, StateOK, Before, Checks, Sweeps, InOrder
<1>12. SessionOK(next)'
  <2>1. Live(s.client) /\ s.client \in held
    BY <1>3, <1>4, <1>5 DEF Shape, SessionOK, Sweeps
  <2>2. Live(s.client)'
    BY <1>7, <1>8, <1>9, <2>1
  <2> QED  BY <1>2, <1>3, <1>6, <1>8, <2>2 DEF SessionOK, Created, Before, Sweeps
<1>13. Reads(next, progress[next.kind])'
  <2>1. ~Readable(progress[s.kind])
    BY <1>3, <1>4, <1>5 DEF Reads, Sweeps
  <2> QED  BY <1>3, <1>6, <2>1 DEF Reads, Readable, Created, Creating, Before, Checks, Sweeps
<1>14. ASSUME NEW k \in Kinds PROVE DocOK(k, next)'
  <2>1. CASE k # s.kind
    <3>1. progress'[k] = None
      BY <1>1, <1>3, <2>1, OtherDocs
    <3> QED  BY <3>1 DEF DocOK
  <2>2. CASE k = s.kind
    <3>1. DocOK(k, s)
      BY <1>1, Here
    <3>2. ~Readable(progress[k])'
      BY <1>3, <1>4, <1>5, <2>2 DEF Reads, Readable, Sweeps
    <3> QED  BY <1>3, <1>6, <2>2, <3>1, <3>2 DEF DocOK, Before, Over
  <2> QED  BY <2>1, <2>2
<1>15. AttemptInv(next)'
  BY <1>11, <1>12, <1>13, <1>14 DEF AttemptInv
<1> QED  BY <1>2, <1>10, <1>15, Keeps

\* The new session is not among those to be deleted.
LEMMA FindFamiliesInv ==
    ASSUME OneAtATime, Inv, TypeOK', UNCHANGED scenario, NEW a \in Attempts, FindFamilies(a)
    PROVE  Inv'
<1>1. PICK s : s = attempt[a]
  OBVIOUS
<1>2. UNCHANGED <<mfaEnabled, progress, families, held, now>>
  BY DEF FindFamilies
<1>3. s \in Attempt /\ Shape(s) /\ SessionOK(s) /\ StateOK(s) /\ Reads(s, progress[s.kind])
  BY <1>1, Here
<1>4. /\ s.pc \in {"running", "paging"} /\ InOrder(s.done) /\ "applyMfa" \in s.done
      /\ "revokeOldSessions" \notin s.done
  <2>1. CASE AtStep(a, "revokeOldSessions")
    BY <1>1, <2>1 DEF AtStep, NextSteps, Steps, InOrder
  <2>2. CASE s.pc = "paging"
    BY <1>3, <2>2 DEF Shape, Before, Sweeps
  <2> QED  BY <1>1, <2>1, <2>2 DEF FindFamilies
<1>5. Created(s) /\ ~Creating(s) /\ s.session \in Families /\ s.session # None
  BY <1>3, <1>4, MfaAssumption DEF Created, Creating, Before, SessionOK, InOrder
<1>6. PICK others, page, short, next :
        /\ others = {f \in Families \ {s.session} : Live(f)}
        /\ page \subseteq others /\ short \in BOOLEAN /\ (short => page = others)
        /\ next = [Goto(a, IF short THEN "ending" ELSE "revoking") EXCEPT !.page = page]
        /\ Become(a, next)
  <2>1. PICK others : others = {f \in Families \ {s.session} : Live(f)}
    OBVIOUS
  <2>2. PICK page \in SUBSET others, short \in BOOLEAN :
          /\ short => page = others
          /\ Become(a, [Goto(a, IF short THEN "ending" ELSE "revoking") EXCEPT !.page = page])
    BY <1>1, <1>5, <2>1 DEF FindFamilies
  <2> QED  BY <2>1, <2>2
<1>7. /\ next.pc = IF short THEN "ending" ELSE "revoking"
      /\ next.page = page /\ next.kind = s.kind /\ next.client = s.client
      /\ next.session = s.session /\ next.done = s.done
  BY <1>1, <1>6, PagedIs DEF Inv
<1>8. Shape(next) /\ StateOK(next)
  BY <1>3, <1>4, <1>7 DEF Shape, StateOK, Before, Checks, Sweeps
<1>9. SessionOK(next)
  <2>1. s.session \notin page /\ (short => \A f \in Families : Live(f) => f \in page \cup {s.session})
    BY <1>6
  <2> QED  BY <1>3, <1>4, <1>5, <1>7, <2>1 DEF SessionOK, Created, Before, Sweeps
<1>10. Reads(next, progress[next.kind])
  BY <1>3, <1>4, <1>5, <1>7 DEF Reads, Created, Creating, Before, Checks, Sweeps
<1>11. \A k \in Kinds : progress[k] # None =>
         scenario.kinds = {k} \/ (next.kind = k /\ next.pc \notin Before \cup Over)
  BY <1>1, <1>4, <1>7, Here DEF Before, Over
<1> QED  BY <1>1, <1>2, <1>4, <1>6, <1>8, <1>9, <1>10, <1>11, LocalKeeps

\* The new session is spared, and after the last page it is the only one.
LEMMA RevokeFamiliesInv ==
    ASSUME OneAtATime, Inv, TypeOK', UNCHANGED scenario, NEW a \in Attempts, RevokeFamilies(a)
    PROVE  Inv'
<1>1. PICK s, next :
        /\ s = attempt[a] /\ Become(a, next)
        /\ next = [Goto(a, IF s.pc = "ending" THEN "sweeping" ELSE "paging") EXCEPT !.page = {}]
  BY DEF RevokeFamilies
<1>2. /\ UNCHANGED <<mfaEnabled, progress, held, now>> /\ s.pc \in {"revoking", "ending"}
      /\ families' = Revoke(s.page)
  BY <1>1 DEF RevokeFamilies
<1>3. Shape(s) /\ SessionOK(s) /\ StateOK(s) /\ Reads(s, progress[s.kind])
  BY <1>1, Here
<1>4. /\ InOrder(s.done) /\ "applyMfa" \in s.done /\ "revokeOldSessions" \notin s.done
      /\ Created(s) /\ ~Creating(s) /\ s.session \in Families /\ families[s.session] = Want(s.kind)
      /\ s.session \notin held /\ s.session \notin s.page
  <2>1. InOrder(s.done) /\ "applyMfa" \in s.done /\ "revokeOldSessions" \notin s.done
    BY <1>2, <1>3 DEF Shape, Before, Sweeps
  <2> QED  BY <1>2, <1>3, <2>1 DEF Created, Creating, Before, SessionOK, InOrder
<1>5. /\ next.pc = IF s.pc = "ending" THEN "sweeping" ELSE "paging"
      /\ next.kind = s.kind /\ next.client = s.client
      /\ next.session = s.session /\ next.done = s.done
  BY <1>1, PagedIs DEF Inv
<1>6. /\ \A f \in Families : families'[f] = IF f \in s.page /\ Live(f) THEN "revoked" ELSE families[f]
      /\ families'[s.session] = Want(s.kind)
      /\ \A f \in Families : Live(f)' => Live(f) /\ f \notin s.page /\ families'[f] = families[f]
  <2>1. \A f \in Families : families'[f] = IF f \in s.page /\ Live(f) THEN "revoked" ELSE families[f]
    BY <1>2 DEF Revoke
  <2> QED  BY <1>4, <2>1 DEF Live
<1>7. SomeLive' /\ HeldBorn'
  <2>1. Live(s.session)'
    BY <1>4, <1>6, WantLive, MfaAssumption DEF Live
  <2>2. HeldBorn'
    BY <1>2, <1>6 DEF Inv, HeldBorn, TypeOK
  <2> QED  BY <1>4, <2>1, <2>2 DEF SomeLive
<1>8. ASSUME NEW k, AllWant(k) PROVE AllWant(k)'
  BY <1>6, <1>8 DEF AllWant
<1>9. next.pc = "sweeping" => AllWant(s.kind)'
  <2> SUFFICES ASSUME s.pc = "ending", NEW f \in Families, Live(f)' PROVE families'[f] = Want(s.kind)
    BY <1>5 DEF AllWant
  <2>1. f = s.session
    BY <1>3, <1>6 DEF SessionOK
  <2> QED  BY <1>6, <2>1
<1>10. Shape(next)' /\ StateOK(next)'
  <2>1. Shape(next) /\ StateOK(next)
    BY <1>2, <1>3, <1>4, <1>5 DEF Shape, StateOK, Before, Checks, Sweeps
  <2> QED  BY <1>2, <2>1 DEF Shape, StateOK
<1>11. SessionOK(next)'
  <2>1. next.pc \in {"paging", "sweeping"}
    BY <1>5
  <2> QED  BY <1>2, <1>4, <1>5, <1>6, <1>9, <2>1 DEF SessionOK, Sweeps
<1>12. Reads(next, progress[next.kind])'
  <2>1. Reads(next, progress[s.kind])
    BY <1>2, <1>3, <1>4, <1>5 DEF Reads, Creating, Checks, Sweeps
  <2> QED  BY <1>2, <1>5, <2>1 DEF Reads, Readable
<1>13. ASSUME NEW k \in Kinds PROVE DocOK(k, next)'
  <2>1. CASE k # s.kind
    <3>1. progress'[k] = None
      BY <1>1, <1>2, <2>1, OtherDocs
    <3> QED  BY <3>1 DEF DocOK
  <2>2. CASE k = s.kind
    <3>1. DocOK(k, s)
      BY <1>1, Here
    <3>2. progress[k] # None => progress[k].session = s.session
      BY <1>2, <1>3, <1>4, <2>2 DEF Reads
    <3>3. progress[k] # None /\ Readable(progress[k]) => Resumable(k, progress[k])
      BY <1>2, <3>1 DEF DocOK
    <3>4. progress[k] # None /\ Readable(progress[k]) => Resumable(k, progress[k])'
      BY <1>2, <1>6, <1>8, <2>2, <3>2, <3>3 DEF Resumable
    <3> QED  BY <1>2, <1>5, <2>2, <3>1, <3>4 DEF DocOK, Readable, Before, Over
  <2> QED  BY <2>1, <2>2
<1>14. AttemptInv(next)'
  BY <1>10, <1>11, <1>12, <1>13 DEF AttemptInv
<1> QED  BY <1>1, <1>7, <1>14, Keeps

LEMMA RevokeTokensInv ==
    ASSUME OneAtATime, Inv, TypeOK', UNCHANGED scenario, NEW a \in Attempts, RevokeTokens(a)
    PROVE  Inv'
<1>1. PICK s, next : s = attempt[a] /\ next = Completed(a, "revokeOldSessions") /\ Become(a, next)
  BY DEF RevokeTokens
<1>2. UNCHANGED <<mfaEnabled, progress, families, held, now>> /\ s.pc = "sweeping"
  BY <1>1 DEF RevokeTokens
<1>3. Shape(s) /\ SessionOK(s) /\ StateOK(s) /\ Reads(s, progress[s.kind])
  BY <1>1, Here
<1>4. /\ next.pc = "saving" /\ next.kind = s.kind /\ next.client = s.client /\ next.session = s.session
      /\ next.done = s.done \cup {"revokeOldSessions"} /\ next.step = "revokeOldSessions"
  BY <1>1, CompletedIs DEF Inv, Steps
<1>5. Shape(next) /\ StateOK(next)
  BY <1>2, <1>3, <1>4 DEF Shape, StateOK, Before, Checks, Sweeps, InOrder
<1>6. SessionOK(next)
  BY <1>2, <1>3, <1>4 DEF SessionOK, Created, Before, Shape, InOrder, Sweeps
<1>7. Reads(next, progress[next.kind])
  BY <1>2, <1>3, <1>4 DEF Reads, Created, Creating, Before, Checks, Sweeps, Shape, InOrder
<1>8. \A k \in Kinds : progress[k] # None =>
         scenario.kinds = {k} \/ (next.kind = k /\ next.pc \notin Before \cup Over)
  BY <1>1, <1>4, Here DEF Before, Over
<1> QED  BY <1>1, <1>2, <1>5, <1>6, <1>7, <1>8, LocalKeeps

LEMMA ReadSavedInv ==
    ASSUME OneAtATime, Inv, TypeOK', UNCHANGED scenario, NEW a \in Attempts, ReadSaved(a)
    PROVE  Inv'
<1>1. PICK s, next :
        /\ s = attempt[a] /\ Become(a, next)
        /\ next = [Goto(a, "writing") EXCEPT !.saved = progress[s.kind]]
  BY DEF ReadSaved, Doc
<1>2. UNCHANGED <<mfaEnabled, progress, families, held, now>> /\ s.pc = "saving"
  BY <1>1 DEF ReadSaved
<1>3. s \in Attempt /\ Shape(s) /\ SessionOK(s) /\ StateOK(s) /\ Reads(s, progress[s.kind])
  BY <1>1, Here
<1>4. /\ next.pc = "writing" /\ next.kind = s.kind /\ next.client = s.client /\ next.session = s.session
      /\ next.done = s.done /\ next.step = s.step /\ next.saved = progress[s.kind]
  BY <1>1, <1>3 DEF Goto, Attempt
<1>5. Shape(next) /\ StateOK(next)
  BY <1>2, <1>3, <1>4 DEF Shape, StateOK, Before, Checks, Sweeps
<1>6. SessionOK(next)
  BY <1>2, <1>3, <1>4 DEF SessionOK, Created, Before, Sweeps
<1>7. Reads(next, progress[next.kind])
  BY <1>2, <1>3, <1>4 DEF Reads, Created, Creating, Before, Checks, Sweeps
<1>8. \A k \in Kinds : progress[k] # None =>
         scenario.kinds = {k} \/ (next.kind = k /\ next.pc \notin Before \cup Over)
  BY <1>1, <1>4, Here DEF Before, Over
<1> QED  BY <1>1, <1>2, <1>5, <1>6, <1>7, <1>8, LocalKeeps

\* A document that had lapsed stays lapsed; any other has the session that the
\* attempt has, and gets a step that is completed.
LEMMA MergedSays ==
    ASSUME Inv, NEW a \in Attempts, attempt[a].pc = "writing"
    PROVE  LET s == attempt[a]  doc == progress[s.kind]  new == Merged(a) IN
           /\ new \in Progress /\ new # None
           /\ new.session = s.session /\ new.session \in Families
           /\ InOrder(new.steps) /\ \A x \in s.done : x \in new.steps
           /\ Readable(new) => Resumable(s.kind, new)
           /\ new.expiresAt = IF doc = None THEN now + ProgressLife ELSE doc.expiresAt
<1>1. PICK s, doc, new : s = attempt[a] /\ doc = progress[s.kind] /\ new = Merged(a)
  OBVIOUS
<1>2. /\ Shape(s) /\ SessionOK(s) /\ StateOK(s) /\ Reads(s, doc) /\ DocOK(s.kind, s)
      /\ s \in Attempt /\ doc \in Progress \cup {None} /\ s.pc = "writing" /\ s.kind \in Kinds
  BY <1>1, Here
<1>3. s.saved = doc /\ s.step \in s.done /\ InOrder(s.done) /\ Created(s)
      /\ s.session \in Families /\ families[s.session] = Want(s.kind)
  BY <1>2 DEF Reads, Shape, Before, Created, InOrder, SessionOK, Sweeps
<1>4. new \in Progress /\ new # None
  BY <1>1, MergedType, NoneIsNoProgress DEF Inv
<1>5. CASE s.step = "createSession"
  <2>1. Creating(s) /\ s.done = {"createSession"} /\ ~Readable(doc)
    BY <1>2, <1>5 DEF Creating, Reads, Shape, Sweeps
  <2>2. CASE doc = None
    <3>1. new = [steps |-> {"createSession"}, session |-> s.session, expiresAt |-> now + ProgressLife]
      BY <1>1, <1>3, <1>5, <2>2 DEF Merged
    <3>2. new.steps = {"createSession"} /\ new.session = s.session /\ new.expiresAt = now + ProgressLife
      BY <3>1
    <3>3. s.session \notin held
      BY <1>2, <1>3, <2>1 DEF SessionOK, Sweeps
    <3>4. Resumable(s.kind, new)
      BY <1>3, <3>2, <3>3 DEF Resumable
    <3> QED  BY <1>1, <1>3, <1>4, <2>1, <2>2, <3>2, <3>4 DEF InOrder
  <2>3. CASE doc # None
    <3>1. new = [steps |-> doc.steps \cup {"createSession"}, session |-> s.session, expiresAt |-> doc.expiresAt]
      BY <1>1, <1>3, <1>5, <2>3 DEF Merged
    <3>2. /\ new.steps = doc.steps \cup {"createSession"} /\ new.session = s.session
          /\ new.expiresAt = doc.expiresAt
      BY <3>1
    <3>3. ~Readable(new) /\ InOrder(doc.steps)
      BY <1>1, <1>2, <2>1, <2>3, <3>2 DEF Readable, DocOK
    <3> QED  BY <1>1, <1>3, <1>4, <2>1, <2>3, <3>2, <3>3 DEF InOrder
  <2> QED  BY <2>2, <2>3
<1>6. CASE s.step # "createSession"
  <2>1. ~Creating(s) /\ doc # None /\ doc.session = s.session
    BY <1>2, <1>3, <1>6 DEF Creating, Reads, Sweeps
  <2>2. new = [steps |-> doc.steps \cup {s.step}, session |-> doc.session, expiresAt |-> doc.expiresAt]
    BY <1>1, <1>3, <1>6, <2>1 DEF Merged
  <2>3. new.steps = doc.steps \cup {s.step} /\ new.session = doc.session /\ new.expiresAt = doc.expiresAt
    BY <2>2
  <2>4. \A x \in s.done : x \in new.steps
    BY <1>2, <2>3 DEF Reads, Saved, Sweeps
  <2>5. InOrder(new.steps)
    BY <1>1, <1>2, <1>3, <2>1, <2>3, <2>4 DEF DocOK, InOrder
  <2>6. ASSUME Readable(new) PROVE Resumable(s.kind, new)
    <3>1. Resumable(s.kind, doc)
      BY <1>1, <1>2, <2>1, <2>3, <2>6 DEF Readable, DocOK
    <3>2. "applyMfa" \in new.steps => mfaEnabled = (s.kind = "enable")
      BY <1>2, <1>3, <2>3, <3>1 DEF StateOK, Resumable
    <3>3. "revokeOldSessions" \in new.steps => AllWant(s.kind)
      BY <1>2, <1>3, <2>3, <3>1 DEF SessionOK, Resumable, Sweeps
    <3> QED  BY <2>3, <3>1, <3>2, <3>3 DEF Resumable
  <2> QED  BY <1>1, <1>3, <1>4, <2>1, <2>3, <2>4, <2>5, <2>6
<1> QED  BY <1>5, <1>6

LEMMA WriteSavedInv ==
    ASSUME OneAtATime, Inv, TypeOK', UNCHANGED scenario, NEW a \in Attempts, WriteSaved(a)
    PROVE  Inv'
<1>1. PICK s, new, next :
        /\ s = attempt[a] /\ new = Merged(a) /\ Become(a, next)
        /\ next = [Goto(a, "running") EXCEPT !.saved = None]
  BY DEF WriteSaved
<1>2. /\ progress' = [progress EXCEPT ![s.kind] = new] /\ s.pc = "writing"
      /\ UNCHANGED <<mfaEnabled, families, held, now>>
  BY <1>1 DEF WriteSaved
<1>3. s \in Attempt /\ Shape(s) /\ SessionOK(s) /\ StateOK(s) /\ s.kind \in Kinds
  BY <1>1, Here
<1>4. /\ new # None /\ new.session = s.session /\ new.session \in Families
      /\ InOrder(new.steps) /\ \A x \in s.done : x \in new.steps
      /\ Readable(new) => Resumable(s.kind, new)
  BY <1>1, <1>2, MergedSays
<1>5. /\ next.pc = "running" /\ next.kind = s.kind /\ next.client = s.client
      /\ next.session = s.session /\ next.done = s.done
  BY <1>1, <1>3 DEF Goto, Attempt
<1>6. progress'[s.kind] = new /\ \A k \in Kinds : k # s.kind => progress'[k] = None
  <2>1. \A k \in Kinds : k # s.kind => progress[k] = None
    BY <1>1, <1>2, OtherDocs
  <2> QED  BY <1>2, <1>3, <2>1 DEF Inv, TypeOK
<1>7. SomeLive' /\ HeldBorn'
  BY <1>2 DEF Inv, SomeLive, HeldBorn, Live
<1>8. Shape(next)' /\ StateOK(next)'
  <2>1. Shape(next) /\ StateOK(next)
    BY <1>2, <1>3, <1>5 DEF Shape, StateOK, Before, Checks, Sweeps
  <2> QED  BY <1>2, <2>1 DEF Shape, StateOK, Sweeps
<1>9. SessionOK(next)'
  <2>1. SessionOK(next)
    BY <1>2, <1>3, <1>5 DEF SessionOK, Created, Before, Sweeps
  <2> QED  BY <1>2, <2>1 DEF SessionOK, Live, AllWant, Sweeps
<1>10. Reads(next, progress[next.kind])'
  <2>1. s.done # {}
    BY <1>2, <1>3 DEF Shape, Sweeps
  <2> QED  BY <1>4, <1>5, <1>6, <2>1 DEF Reads, Created, Creating, Saved, Checks, Sweeps
<1>11. ASSUME NEW k \in Kinds PROVE DocOK(k, next)'
  <2>1. Readable(new)' => Resumable(s.kind, new)'
    BY <1>2, <1>4 DEF Readable, Resumable, AllWant, Live
  <2> QED  BY <1>4, <1>5, <1>6, <2>1 DEF DocOK, Before, Over
<1>12. AttemptInv(next)'
  BY <1>8, <1>9, <1>10, <1>11 DEF AttemptInv
<1> QED  BY <1>1, <1>7, <1>12, Keeps

LEMMA FinishInv ==
    ASSUME OneAtATime, Inv, TypeOK', UNCHANGED scenario, NEW a \in Attempts,
           NEW cleared \in BOOLEAN, Finish(a, cleared)
    PROVE  Inv'
<1>1. PICK s, next : s = attempt[a] /\ next = Goto(a, "answered")
  OBVIOUS
<1>2. /\ UNCHANGED <<mfaEnabled, families, now>> /\ s.pc = "running" /\ NextSteps(a) = {}
      /\ progress' = IF cleared THEN [progress EXCEPT ![s.kind] = None] ELSE progress
      /\ cleared \/ "clear" \in scenario.faults
  BY <1>1 DEF Finish
<1>3. Shape(s) /\ SessionOK(s) /\ StateOK(s) /\ Reads(s, progress[s.kind]) /\ s.kind \in Kinds
  BY <1>1, Here
<1>4. s.done = Steps
  BY ZenonT(40), <1>1, <1>2, Here DEF NextSteps
<1>5. Created(s) /\ ~Creating(s) /\ s.session \in Families /\ s.session # None
  BY <1>2, <1>3, <1>4, MfaAssumption DEF Created, Creating, Before, Steps, SessionOK, Sweeps
<1>6. held' = held \cup {s.session} /\ Become(a, next)
  BY <1>1, <1>5 DEF Finish
<1>7. /\ next.pc = "answered" /\ next.kind = s.kind /\ next.client = s.client
      /\ next.session = s.session /\ next.done = s.done
  BY <1>1, GotoIs DEF Inv
<1>8. SomeLive' /\ HeldBorn'
  <2>1. families[s.session] # "unborn"
    BY <1>2, <1>3, <1>5, WantLive DEF SessionOK, Sweeps
  <2> QED  BY <1>2, <1>6, <2>1 DEF Inv, SomeLive, HeldBorn, Live
<1>9. Shape(next)' /\ StateOK(next)'
  BY <1>2, <1>3, <1>4, <1>6, <1>7 DEF Shape, StateOK, Before, Checks, Sweeps, InOrder, Steps
<1>10. SessionOK(next)'
  BY <1>2, <1>3, <1>4, <1>5, <1>7 DEF SessionOK, Live, AllWant, Steps, Sweeps
<1>11. Reads(next, progress[next.kind])'
  <2>1. progress'[s.kind] \in {None, progress[s.kind]}
    BY <1>2, <1>3 DEF Inv, TypeOK
  <2>2. progress[s.kind].session = s.session
    BY <1>2, <1>3, <1>5 DEF Reads, Sweeps
  <2> QED  BY <1>7, <2>1, <2>2 DEF Reads, Created, Creating, Checks, Sweeps
<1>12. ASSUME NEW k \in Kinds PROVE DocOK(k, next)'
  <2>1. CASE k # s.kind
    <3>1. progress[k] = None
      BY <1>1, <1>2, <2>1, OtherDocs
    <3>2. progress'[k] = None
      BY <1>2, <2>1, <3>1 DEF Inv, TypeOK
    <3> QED  BY <3>2 DEF DocOK
  <2>2. CASE k = s.kind /\ cleared
    <3>1. progress'[k] = None
      BY <1>2, <2>2 DEF Inv, TypeOK
    <3> QED  BY <3>1 DEF DocOK
  <2>3. CASE k = s.kind /\ ~cleared
    <3>1. DocOK(k, s) /\ progress' = progress
      BY <1>1, <1>2, <2>3, Here
    <3>2. progress[k] # None => scenario.kinds = {k}
      BY <1>1, <1>2, <2>3, OneKind
    <3>3. "revokeOldSessions" \in progress[k].steps
      BY <1>2, <1>3, <1>4, <2>3 DEF Reads, Saved, Steps, Sweeps
    <3>4. progress[k] # None /\ Readable(progress[k]) => Resumable(k, progress[k])
      BY <1>2, <3>1 DEF DocOK
    <3>5. progress[k] # None /\ Readable(progress[k]) => Resumable(k, progress[k])'
      BY <1>2, <3>1, <3>3, <3>4 DEF Resumable, AllWant, Live
    <3> QED  BY <1>2, <3>1, <3>2, <3>5 DEF DocOK, Readable
  <2> QED  BY <2>1, <2>2, <2>3
<1>13. AttemptInv(next)'
  BY <1>9, <1>10, <1>11, <1>12 DEF AttemptInv
<1> QED  BY <1>6, <1>8, <1>13, Keeps

\* The family that is revoked is not the client's, which is still there.
LEMMA CompensateSessionInv ==
    ASSUME OneAtATime, Inv, TypeOK', UNCHANGED scenario, NEW a \in Attempts, CompensateSession(a)
    PROVE  Inv'
<1>1. PICK s, next : s = attempt[a] /\ next = Goto(a, "clearing") /\ Become(a, next)
  BY DEF CompensateSession
<1>2. /\ UNCHANGED <<mfaEnabled, progress, held, now>> /\ s.pc = "compensating"
      /\ families' = Revoke({s.session})
  BY <1>1 DEF CompensateSession
<1>3. Shape(s) /\ SessionOK(s) /\ Reads(s, progress[s.kind])
  BY <1>1, Here
<1>4. /\ "revokeOldSessions" \notin s.done /\ Created(s) /\ ~Creating(s)
      /\ s.client \in held /\ Live(s.client) /\ s.session \notin held
  BY <1>2, <1>3 DEF Shape, SessionOK, Created, Creating, Before, InOrder, Sweeps
<1>5. /\ next.pc = "clearing" /\ next.kind = s.kind /\ next.client = s.client
      /\ next.session = s.session /\ next.done = s.done
  BY <1>1, GotoIs DEF Inv
<1>6. /\ held \subseteq Families
      /\ \A f \in Families : families'[f] = IF f = s.session /\ Live(f) THEN "revoked" ELSE families[f]
  BY <1>2 DEF Inv, TypeOK, Revoke
<1>7. Live(s.client)' /\ ~Live(s.session)'
  <2>1. s.session \in Families
    BY <1>3, <1>4 DEF SessionOK, Sweeps
  <2> QED  BY <1>4, <1>6, <2>1 DEF Live
<1>8. SomeLive' /\ HeldBorn'
  BY <1>2, <1>4, <1>6, <1>7 DEF Inv, SomeLive, HeldBorn
<1>9. Shape(next)' /\ StateOK(next)'
  BY <1>2, <1>3, <1>5 DEF Shape, StateOK, Before, Checks, Sweeps
<1>10. SessionOK(next)'
  BY <1>2, <1>3, <1>4, <1>5, <1>7 DEF SessionOK, Created, Sweeps
<1>11. Reads(next, progress[next.kind])'
  <2>1. Reads(next, progress[s.kind])
    BY <1>2, <1>3, <1>4, <1>5 DEF Reads, Created, Creating, Before, Checks, Sweeps
  <2> QED  BY <1>2, <1>5, <2>1 DEF Reads, Readable, Sweeps
<1>12. ASSUME NEW k \in Kinds PROVE DocOK(k, next)'
  <2>1. CASE k # s.kind
    <3>1. progress'[k] = None
      BY <1>1, <1>2, <2>1, OtherDocs
    <3> QED  BY <3>1 DEF DocOK
  <2>2. CASE k = s.kind
    <3>1. DocOK(k, s)
      BY <1>1, Here
    <3> QED  BY <1>2, <1>5, <2>2, <3>1 DEF DocOK, Before, Over
  <2> QED  BY <2>1, <2>2
<1>13. AttemptInv(next)'
  BY <1>9, <1>10, <1>11, <1>12 DEF AttemptInv
<1> QED  BY <1>1, <1>8, <1>13, Keeps

LEMMA CompensateProgressInv ==
    ASSUME OneAtATime, Inv, TypeOK', UNCHANGED scenario, NEW a \in Attempts, CompensateProgress(a)
    PROVE  Inv'
<1>1. PICK s, next : s = attempt[a] /\ next = NoAttempt /\ Become(a, next)
  BY DEF CompensateProgress
<1>2. /\ UNCHANGED <<mfaEnabled, families, held, now>> /\ s.pc = "clearing"
      /\ progress' = [progress EXCEPT ![s.kind] = None]
  BY <1>1 DEF CompensateProgress
<1>3. next.pc = "idle" /\ next.done = {}
  BY <1>1 DEF NoAttempt
<1>4. \A k \in Kinds : progress'[k] = None
  <2>1. \A k \in Kinds : k # s.kind => progress[k] = None
    BY <1>1, <1>2, OtherDocs
  <2> QED  BY <1>2, <2>1 DEF Inv, TypeOK
<1>5. SomeLive' /\ HeldBorn'
  BY <1>2 DEF Inv, SomeLive, HeldBorn, Live
<1>6. AttemptInv(next)'
  <2>1. \A k \in Kinds : DocOK(k, next)'
    BY <1>4 DEF DocOK
  <2>2. Shape(next)' /\ SessionOK(next)' /\ StateOK(next)' /\ Reads(next, progress[next.kind])'
    BY <1>3 DEF Shape, SessionOK, StateOK, Reads, Created, Creating, Before, Checks, Sweeps
  <2> QED  BY <2>1, <2>2 DEF AttemptInv
<1> QED  BY <1>1, <1>5, <1>6, Keeps

LEMMA LeaveInv ==
    ASSUME OneAtATime, Inv, TypeOK', UNCHANGED scenario, NEW a \in Attempts, Leave(a)
    PROVE  Inv'
<1>1. attempt[a].pc \in {"answered", "retryable"} /\ Become(a, NoAttempt)
      /\ UNCHANGED <<mfaEnabled, progress, families, held, now>>
  BY DEF Leave
<1>2. \A k \in Kinds : progress[k] # None => scenario.kinds = {k}
  BY <1>1, Here DEF Over
<1> QED  BY <1>1, <1>2, IdleKeeps

LEMMA RunInv ==
    ASSUME OneAtATime, Inv, TypeOK', UNCHANGED scenario, NEW a \in Attempts, Run(a)
    PROVE  Inv'
BY VerifySensitiveInv, ReadProgressInv, StartRunInv, CreateSessionInv, ReadMfaStateInv,
   ProvePossessionInv, CheckSetupInv, DropSetupInv,
   CommitInv, ConsumeSetupInv, FindFamiliesInv, RevokeFamiliesInv, RevokeTokensInv, ReadSavedInv, WriteSavedInv,
   FinishInv, CompensateSessionInv, CompensateProgressInv, LeaveInv DEF Run

-----------------------------------------------------------------------------
(* Faults *)

LEMMA RevokeFailsInv ==
    ASSUME OneAtATime, Inv, TypeOK', UNCHANGED scenario, NEW a \in Attempts, RevokeFails(a)
    PROVE  Inv'
<1>1. PICK s, next :
        s = attempt[a] /\ next = [Goto(a, "retryable") EXCEPT !.page = {}] /\ Become(a, next)
  BY DEF RevokeFails
<1>2. /\ UNCHANGED <<mfaEnabled, progress, families, held, now>> /\ "revoke" \in scenario.faults
      /\ InStep(a, "revokeOldSessions") \/ s.pc \in Sweeps
  BY <1>1 DEF RevokeFails, Sweeps
<1>3. Shape(s) /\ SessionOK(s) /\ StateOK(s) /\ Reads(s, progress[s.kind])
  BY <1>1, Here
<1>4. /\ s.pc \in {"running", "saving", "writing"} \cup Sweeps /\ ~Creating(s)
      /\ InOrder(s.done) /\ "applyMfa" \in s.done
  <2>1. CASE AtStep(a, "revokeOldSessions")
    BY <1>1, <1>3, <2>1 DEF AtStep, NextSteps, Steps, Shape, Creating, InOrder, Sweeps
  <2>2. CASE s.pc \in {"saving", "writing"} /\ s.step = "revokeOldSessions"
    BY <1>3, <2>2 DEF Shape, Creating, Before, InOrder, Sweeps
  <2>3. CASE s.pc \in Sweeps
    BY <1>3, <2>3 DEF Shape, Creating, Before, Sweeps
  <2> QED  BY <1>1, <1>2, <2>1, <2>2, <2>3 DEF InStep
<1>5. /\ next.pc = "retryable" /\ next.kind = s.kind /\ next.client = s.client
      /\ next.session = s.session /\ next.done = s.done
  BY <1>1, PagedIs DEF Inv
<1>6. Shape(next) /\ StateOK(next)
  BY <1>2, <1>3, <1>4, <1>5 DEF Shape, StateOK, Before, Checks, Sweeps
<1>7. SessionOK(next)
  BY <1>3, <1>4, <1>5 DEF SessionOK, Created, Before, Sweeps
<1>8. Reads(next, progress[next.kind])
  BY <1>3, <1>4, <1>5 DEF Reads, Created, Creating, Before, Checks, Sweeps
<1>9. \A k \in Kinds : progress[k] # None => scenario.kinds = {k}
  <2>1. s.pc # "idle" /\ ~(scenario.faults \subseteq {"apply"})
    BY <1>2, <1>4 DEF Sweeps
  <2> QED  BY <1>1, <2>1, OneKind
<1>10. s.pc # "clearing"
  BY <1>4 DEF Sweeps
<1> QED  BY <1>1, <1>2, <1>6, <1>7, <1>8, <1>9, <1>10, LocalKeeps

\* A family that is not saved is left where it is: the attempt ends.
LEMMA CreateFailsInv ==
    ASSUME OneAtATime, Inv, TypeOK', UNCHANGED scenario, NEW a \in Attempts, CreateFails(a)
    PROVE  Inv'
<1>1. /\ "create" \in scenario.faults /\ Become(a, NoAttempt)
      /\ UNCHANGED <<mfaEnabled, progress, families, held, now>>
  BY DEF CreateFails
<1>2. attempt[a].pc \notin {"idle", "clearing"}
  BY DEF CreateFails, InStep, AtStep
<1>3. \A k \in Kinds : progress[k] # None => scenario.kinds = {k}
  BY <1>1, <1>2, OneKind
<1> QED  BY <1>1, <1>2, <1>3, IdleKeeps

LEMMA CrashInv ==
    ASSUME OneAtATime, Inv, TypeOK', UNCHANGED scenario, NEW a \in Attempts, Crash(a)
    PROVE  Inv'
<1>1. /\ "crash" \in scenario.faults /\ attempt[a].pc # "idle" /\ Become(a, NoAttempt)
      /\ UNCHANGED <<mfaEnabled, progress, families, held, now>>
  BY DEF Crash
<1>2. attempt[a].pc # "clearing"
  BY <1>1, Here DEF Shape, Sweeps
<1>3. \A k \in Kinds : progress[k] # None => scenario.kinds = {k}
  BY <1>1, OneKind
<1> QED  BY <1>1, <1>2, <1>3, IdleKeeps

LEMMA FaultInv ==
    ASSUME OneAtATime, Inv, TypeOK', UNCHANGED scenario, NEW a \in Attempts, Fault(a)
    PROVE  Inv'
<1>1. CASE ApplyFails(a)
  BY <1>1, ApplyFailedInv DEF ApplyFails, Checks
<1>2. CASE RevokeFails(a)
  BY <1>2, RevokeFailsInv
<1>3. CASE CompensationFails(a)
  BY <1>3 DEF CompensationFails, Inv, Orderly
<1>4. CASE Crash(a)
  BY <1>4, CrashInv
<1>5. CASE CreateFails(a)
  BY <1>5, CreateFailsInv
<1> QED  BY <1>1, <1>2, <1>3, <1>4, <1>5 DEF Fault

\* Time only makes documents lapse.
LEMMA TimeInv ==
    ASSUME OneAtATime, Inv, TypeOK', UNCHANGED scenario, SetupMfa \/ Tick \/ UNCHANGED vars
    PROVE  Inv'
<1>1. UNCHANGED <<mfaEnabled, progress, families, held, attempt>> /\ now' \in Nat /\ now' >= now
  <2>1. now \in Nat
    BY DEF Inv, TypeOK
  <2> QED  BY <2>1 DEF SetupMfa, Tick, vars
<1>2. \A k \in Kinds : Readable(progress[k])' => Readable(progress[k])
  <2> SUFFICES ASSUME NEW k \in Kinds, Readable(progress[k])' PROVE Readable(progress[k])
    OBVIOUS
  <2>1. progress[k] \in Progress /\ now \in Nat
    BY <1>1 DEF Inv, TypeOK, Readable
  <2> QED  BY <1>1, <2>1 DEF Readable, Progress
<1>3. SomeLive' /\ HeldBorn'
  BY <1>1 DEF Inv, SomeLive, HeldBorn, Live
<1>4. ASSUME NEW a \in Attempts PROVE AttemptInv(attempt[a])'
  <2>1. PICK s : s = attempt[a]
    OBVIOUS
  <2>2. Shape(s) /\ SessionOK(s) /\ StateOK(s) /\ Reads(s, progress[s.kind]) /\ s.kind \in Kinds
        /\ \A k \in Kinds : DocOK(k, s)
    BY <2>1, Here
  <2>3. Shape(s)' /\ SessionOK(s)' /\ StateOK(s)'
    BY <1>1, <2>2 DEF Shape, SessionOK, StateOK, Live, AllWant, Sweeps
  <2>4. Reads(s, progress[s.kind])'
    BY <1>1, <1>2, <2>2 DEF Reads, Sweeps
  <2>5. ASSUME NEW k \in Kinds PROVE DocOK(k, s)'
    BY <1>1, <1>2, <2>2 DEF DocOK, Resumable, AllWant, Live
  <2>6. AttemptInv(s)'
    BY <2>3, <2>4, <2>5 DEF AttemptInv
  <2> QED  BY <1>1, <2>1, <2>6 DEF AttemptInv, Shape, SessionOK, StateOK, Reads, DocOK, Created, Creating, Sweeps
<1> QED  BY <1>1, <1>3, <1>4 DEF Inv

LEMMA InitInv == Init /\ Orderly(scenario) => Inv
<1> SUFFICES ASSUME Init, Orderly(scenario) PROVE Inv
  OBVIOUS
<1>1. PICK f \in Families :
        families = [g \in Families |-> IF g = f THEN KindOfFamily(mfaEnabled) ELSE "unborn"] /\ held = {f}
  BY DEF Init
<1>2. SomeLive /\ HeldBorn
  BY <1>1, KindType, MfaAssumption DEF Init, SomeLive, HeldBorn, Live, KindOfFamily
<1>3. NoAttempt.pc = "idle" /\ NoAttempt.done = {}
  BY DEF NoAttempt
<1>4. \A a \in Attempts : attempt[a] = NoAttempt
  BY DEF Init
<1>5. \A k \in Kinds : progress[k] = None
  BY DEF Init
<1>6. \A k \in Kinds : DocOK(k, NoAttempt)
  BY <1>5 DEF DocOK
<1>7. Shape(NoAttempt) /\ SessionOK(NoAttempt) /\ StateOK(NoAttempt) /\ Reads(NoAttempt, progress[NoAttempt.kind])
  BY <1>3 DEF Shape, SessionOK, StateOK, Reads, Created, Creating, Before, Checks, Sweeps
<1> QED  BY <1>2, <1>4, <1>6, <1>7, TypeInit DEF Inv, AttemptInv

LEMMA StepInv == OneAtATime /\ Inv /\ [Next]_vars => Inv'
<1> SUFFICES ASSUME OneAtATime, Inv, [Next]_vars PROVE Inv'
  OBVIOUS
<1>1. TypeOK' /\ UNCHANGED scenario
  BY TypeStep DEF Inv, Next, vars
<1>2. CASE SetupMfa \/ Tick \/ UNCHANGED vars
  BY <1>1, <1>2, TimeInv
<1>3. ASSUME NEW a \in Attempts, Run(a) \/ Fault(a) PROVE Inv'
  BY <1>1, <1>3, RunInv, FaultInv
<1>4. ASSUME NEW a \in Attempts, NEW k \in scenario.kinds, NEW f \in Families, NEW right \in BOOLEAN,
             Begin(a, k, f, right)
      PROVE  Inv'
  BY <1>1, <1>4, BeginInv
<1> QED  BY <1>2, <1>3, <1>4 DEF Next

-----------------------------------------------------------------------------
(* Safety *)

LEMMA InvAlways == OneAtATime => (Spec /\ Orderly(scenario) => []Inv)
<1> SUFFICES ASSUME OneAtATime PROVE Spec /\ Orderly(scenario) => []Inv
  OBVIOUS
<1> QED  BY InitInv, StepInv, PTL DEF Spec

\* A scenario stays as orderly as it is.
LEMMA InvOrNot == OneAtATime => (Spec => [](Inv \/ ~Orderly(scenario)))
<1> SUFFICES ASSUME OneAtATime PROVE Spec => [](Inv \/ ~Orderly(scenario))
  OBVIOUS
<1>1. ~Orderly(scenario) /\ [Next]_vars => ~Orderly(scenario)'
  BY DEF Next, vars, Orderly
<1> QED  BY <1>1, InitInv, StepInv, PTL DEF Spec

\* In an Orderly scenario the user is never locked out: some session works at every
\* moment of every transition, of what it may meet there and of its retries.
THEOREM AlwaysSomeSession == OneAtATime => (Spec => []NeverStranded)
<1> SUFFICES ASSUME OneAtATime PROVE Spec => []NeverStranded
  OBVIOUS
<1>1. Inv => NeverStranded
  BY DEF Inv, SomeLive, SomeSession, NeverStranded
<1>2. ~Orderly(scenario) => NeverStranded
  BY DEF NeverStranded
<1> QED  BY <1>1, <1>2, InvOrNot, PTL

\* A transition that answers has done all of it: its session works, the MFA
\* state is the one asked for, and no session from before is left, whatever was
\* done before a retry and whatever was resumed.
THEOREM AnswersAreFinal == OneAtATime => (Spec => []AnswerIsFinal)
<1> SUFFICES ASSUME OneAtATime PROVE Spec => []AnswerIsFinal
  OBVIOUS
<1>1. ASSUME Inv, NEW a \in Attempts, attempt[a].pc = "answered"
      PROVE  /\ Live(attempt[a].session)
             /\ mfaEnabled = (attempt[a].kind = "enable")
             /\ \A f \in Families : Live(f) => families[f] = KindOfFamily(mfaEnabled)
  <2>1. PICK s : s = attempt[a]
    OBVIOUS
  <2>2. Shape(s) /\ SessionOK(s) /\ StateOK(s)
    BY <1>1, <2>1, Here
  <2>3. Created(s) /\ s.done = Steps
    BY <1>1, <2>1, <2>2 DEF Shape, Created, Before, Steps, Sweeps
  <2>4. s.session \in Families /\ families[s.session] = Want(s.kind)
    BY <1>1, <2>1, <2>2, <2>3 DEF SessionOK, Sweeps
  <2>5. mfaEnabled = (s.kind = "enable") /\ AllWant(s.kind)
    BY <1>1, <2>1, <2>2, <2>3 DEF SessionOK, StateOK, Steps, Sweeps
  <2>6. Live(s.session)
    BY <2>4, WantLive, MfaAssumption DEF Live
  <2> QED  BY <2>1, <2>5, <2>6 DEF AllWant, Want
<1>2. Inv => AnswerIsFinal
  BY <1>1 DEF FinalAnswers, AnswerIsFinal
<1>3. ~Orderly(scenario) => AnswerIsFinal
  BY DEF AnswerIsFinal
<1> QED  BY <1>2, <1>3, InvOrNot, PTL

\* What a compensation revokes is in nobody's hands: an attempt that has resumed
\* a session which an answer delivered does not come to fail in its second step.
THEOREM CompensationsSpareClients ==
    OneAtATime => (Spec /\ Orderly(scenario) => []CompensationSparesClients)
<1> SUFFICES ASSUME OneAtATime PROVE Spec /\ Orderly(scenario) => []CompensationSparesClients
  OBVIOUS
<1>1. ASSUME Inv, NEW a \in Attempts, attempt[a].pc = "compensating"
      PROVE  attempt[a].session \notin held
  <2>1. PICK s : s = attempt[a]
    OBVIOUS
  <2>2. Shape(s) /\ SessionOK(s)
    BY <2>1, <1>1, Here
  <2>3. Created(s) /\ "revokeOldSessions" \notin s.done
    BY <1>1, <2>1, <2>2 DEF Shape, InOrder, Created, Before
  <2> QED  BY <1>1, <2>1, <2>2, <2>3 DEF SessionOK
<1>2. Inv => CompensationSparesClients
  BY <1>1 DEF CompensationSparesClients
<1> QED  BY <1>2, InvAlways, PTL

-----------------------------------------------------------------------------
(* Sessions that nobody has been given *)

\* Where a retry may be needed, it comes while the progress lasts.
Lasts(s) == "revoke" \in s.faults => s.maxTime < ProgressLife

Timely ==
    "revoke" \in scenario.faults =>
        /\ scenario.maxTime < ProgressLife /\ now <= scenario.maxTime
        /\ \A k \in Kinds : progress[k] # None => progress[k].expiresAt > scenario.maxTime

\* No request ends with a family that it has created and not saved.
Recorded(s) == s.faults \cap {"create", "crash"} = {}

Waiting(f) == Live(f) /\ f \notin held

\* A retry will find it.
Left(f) ==
    /\ "revoke" \in scenario.faults
    /\ \E k \in Kinds : progress[k] # None /\ progress[k].session = f

\* A family that waits is the one that the transition under way has created, or
\* the one that a retry will resume.
Awaited(f) == Left(f) \/ \E a \in Attempts : Created(attempt[a]) /\ attempt[a].session = f

Expected == Recorded(scenario) => \A f \in Families : Waiting(f) => Awaited(f)

LEMMA TimelyReads ==
    ASSUME Inv, Timely, "revoke" \in scenario.faults, NEW k \in Kinds, progress[k] # None
    PROVE  Readable(progress[k])
<1>1. progress[k] \in Progress /\ now \in Nat /\ scenario.maxTime \in Nat
  BY MfaAssumption DEF Inv, TypeOK, Scenario
<1> QED  BY <1>1 DEF Timely, Readable, Progress

LEMMA TimelyStep ==
    ASSUME Inv, Timely, [Next]_vars
    PROVE  Timely'
<1>1. /\ now \in Nat /\ scenario.maxTime \in Nat /\ ProgressLife \in Nat
      /\ progress \in [Kinds -> Progress \cup {None}] /\ UNCHANGED scenario
  BY MfaAssumption DEF Inv, TypeOK, Scenario, Next, vars
<1>2. CASE UNCHANGED progress
  <2>1. ASSUME NEW a \in Attempts, Run(a) \/ Fault(a) PROVE now' = now
    <3>1. CASE Fault(a)
      BY <3>1 DEF Fault, CreateFails, ApplyFails, RevokeFails, CompensationFails, Crash
    <3>2. CASE \/ VerifySensitive(a) \/ ReadProgress(a) \/ StartRun(a) \/ CreateSession(a) \/ ReadMfaState(a)
               \/ ProvePossession(a) \/ CheckSetup(a) \/ DropSetup(a) \/ CommitEnable(a) \/ ConsumeSetup(a)
      BY <3>2 DEF VerifySensitive, ReadProgress, StartRun, CreateSession, ReadMfaState, ProvePossession,
                  CheckSetup, DropSetup, CommitEnable, ConsumeSetup
    <3>3. CASE \/ CommitDisable(a) \/ FindFamilies(a) \/ RevokeFamilies(a) \/ RevokeTokens(a) \/ ReadSaved(a) \/ WriteSaved(a)
               \/ CompensateSession(a) \/ CompensateProgress(a) \/ Leave(a)
      BY <3>3 DEF CommitDisable, FindFamilies, RevokeFamilies, RevokeTokens, ReadSaved, WriteSaved,
                  CompensateSession, CompensateProgress, Leave
    <3>4. CASE \E cleared \in BOOLEAN : Finish(a, cleared)
      BY <3>4 DEF Finish
    <3> QED  BY <2>1, <3>1, <3>2, <3>3, <3>4 DEF Run
  <2>2. now' = now \/ (now' = now + 1 /\ now < scenario.maxTime)
    BY <2>1 DEF Next, Begin, SetupMfa, Tick, vars
  <2> QED  BY <1>1, <1>2, <2>2 DEF Timely
<1>3. ASSUME NEW a \in Attempts, WriteSaved(a) PROVE Timely'
  <2>1. PICK k \in Kinds, new \in Progress :
          /\ progress' = [progress EXCEPT ![k] = new] /\ now' = now
          /\ new.expiresAt = IF progress[k] = None THEN now + ProgressLife ELSE progress[k].expiresAt
    BY ZenonT(40), <1>3, MergedSays, Here DEF WriteSaved
  <2>2. "revoke" \in scenario.faults => new.expiresAt > scenario.maxTime
    BY <1>1, <2>1 DEF Timely
  <2> QED  BY <1>1, <2>1, <2>2 DEF Timely
<1>4. ASSUME NEW a \in Attempts, CompensateProgress(a) \/ \E cleared \in BOOLEAN : Finish(a, cleared)
      PROVE  Timely'
  <2>1. now' = now /\ \A k \in Kinds : progress'[k] \in {None, progress[k]}
    BY <1>1, <1>4 DEF CompensateProgress, Finish
  <2> QED  BY <1>1, <2>1 DEF Timely
<1>5. \/ UNCHANGED progress
      \/ \E a \in Attempts : \/ WriteSaved(a) \/ CompensateProgress(a)
                             \/ \E cleared \in BOOLEAN : Finish(a, cleared)
  <2>1. ASSUME NEW a \in Attempts, Fault(a) PROVE UNCHANGED progress
    BY <2>1 DEF Fault, CreateFails, ApplyFails, RevokeFails, CompensationFails, Crash
  <2>2. ASSUME NEW a \in Attempts, Run(a)
        PROVE  \/ UNCHANGED progress
               \/ WriteSaved(a) \/ CompensateProgress(a) \/ \E cleared \in BOOLEAN : Finish(a, cleared)
    <3>1. CASE \/ VerifySensitive(a) \/ ReadProgress(a) \/ StartRun(a) \/ CreateSession(a)
               \/ ReadMfaState(a) \/ ProvePossession(a) \/ CheckSetup(a) \/ DropSetup(a)
      BY <3>1 DEF VerifySensitive, ReadProgress, StartRun, CreateSession, ReadMfaState, ProvePossession,
                  CheckSetup, DropSetup
    <3>2. CASE \/ CommitEnable(a) \/ ConsumeSetup(a) \/ CommitDisable(a) \/ FindFamilies(a)
               \/ RevokeFamilies(a) \/ RevokeTokens(a) \/ ReadSaved(a) \/ CompensateSession(a) \/ Leave(a)
      BY <3>2 DEF CommitEnable, ConsumeSetup, CommitDisable, FindFamilies, RevokeFamilies, RevokeTokens,
                  ReadSaved, CompensateSession, Leave
    <3> QED  BY <2>2, <3>1, <3>2 DEF Run
  <2> QED  BY <2>1, <2>2 DEF Next, SetupMfa, Tick, Begin, vars
<1> QED  BY <1>2, <1>3, <1>4, <1>5

\* The attempt hands nothing over.
LEMMA StillExpected ==
    ASSUME OneAtATime, Inv, Expected, NEW a \in Attempts, NEW next, Become(a, next),
           UNCHANGED <<scenario, progress>>, \A f \in Families : Waiting(f)' => Waiting(f),
           NEW s, s = attempt[a],
           Created(s) /\ Waiting(s.session)' => (Created(next) /\ next.session = s.session) \/ Left(s.session)
    PROVE  Expected'
<1>1. attempt'[a] = next /\ \A b \in Attempts : b = a
  BY OneBecomes DEF Inv
<1> SUFFICES ASSUME Recorded(scenario)', NEW f \in Families, Waiting(f)' PROVE Awaited(f)'
  BY DEF Expected
<1>2. Left(f) \/ (Created(s) /\ s.session = f)
  <2>1. Recorded(scenario) /\ Waiting(f)
    OBVIOUS
  <2> QED  BY <1>1, <2>1 DEF Expected, Awaited
<1>3. CASE Left(f)
  BY <1>3 DEF Left, Awaited
<1>4. CASE Created(s) /\ s.session = f
  <2>1. (Created(next) /\ next.session = f) \/ Left(f)
    BY <1>4
  <2> QED  BY <1>1, <2>1 DEF Left, Awaited, Created
<1> QED  BY <1>2, <1>3, <1>4

\* It goes on with the session it has.
LEMMA GoesOn ==
    ASSUME OneAtATime, Inv, Expected, NEW a \in Attempts, NEW next, Become(a, next),
           UNCHANGED <<scenario, progress>>, \A f \in Families : Waiting(f)' => Waiting(f),
           \/ attempt[a].pc \in Before
           \/ /\ next.pc \notin Before /\ next.session = attempt[a].session
              /\ attempt[a].done \subseteq next.done
    PROVE  Expected'
<1>1. PICK s : s = attempt[a]
  OBVIOUS
<1>2. Created(s) => Created(next) /\ next.session = s.session
  BY <1>1 DEF Created
<1> QED  BY <1>1, <1>2, StillExpected

LEMMA RevokedWaits ==
    ASSUME Inv, NEW fs, families' = Revoke(fs), UNCHANGED held
    PROVE  \A f \in Families : Waiting(f)' => Waiting(f)
BY DEF Revoke, Waiting, Live

LEMMA SameWaits ==
    ASSUME UNCHANGED <<families, held>>
    PROVE  \A f \in Families : Waiting(f)' => Waiting(f)
BY DEF Waiting, Live

\* A step of the run that changes nothing but the attempt, and keeps its session.
LEMMA LocalExpected ==
    ASSUME OneAtATime, Inv, Expected, NEW a \in Attempts, UNCHANGED scenario,
           \/ VerifySensitive(a) \/ ReadProgress(a) \/ StartRun(a) \/ ReadMfaState(a)
           \/ ConsumeSetup(a) \/ CommitEnable(a) \/ CommitDisable(a) \/ RevokeTokens(a) \/ ReadSaved(a)
    PROVE  Expected'
<1>1. PICK s : s = attempt[a]
  OBVIOUS
<1>2. UNCHANGED <<progress, families, held>>
  BY DEF VerifySensitive, ReadProgress, StartRun, ReadMfaState, ConsumeSetup, CommitEnable, CommitDisable,
         RevokeTokens, ReadSaved
<1>3. \A f \in Families : Waiting(f)' => Waiting(f)
  BY <1>2, SameWaits
<1>4. CASE VerifySensitive(a) \/ ReadProgress(a) \/ StartRun(a)
  <2>1. attempt[a].pc \in Before /\ \E next : Become(a, next)
    BY <1>4 DEF VerifySensitive, ReadProgress, StartRun, Before
  <2> QED  BY <1>2, <1>3, <2>1, GoesOn
<1>5. CASE ReadMfaState(a) \/ CommitEnable(a)
  <2>1. PICK pc \in {"proving", "checking", "consuming"} : Become(a, Goto(a, pc))
    BY <1>5 DEF ReadMfaState, CommitEnable
  <2> QED  BY <1>2, <1>3, <2>1, GotoIs, GoesOn DEF Inv, Before
<1>6. CASE ConsumeSetup(a) \/ CommitDisable(a) \/ RevokeTokens(a)
  <2>1. PICK step \in Steps : Become(a, Completed(a, step))
    BY <1>6 DEF ConsumeSetup, CommitDisable, RevokeTokens, Steps
  <2>2. PICK next : next = Completed(a, step)
    OBVIOUS
  <2>3. next.pc \notin Before /\ next.session = s.session /\ s.done \subseteq next.done
    BY <1>1, <2>2, CompletedIs DEF Inv, Before
  <2> QED  BY <1>1, <1>2, <1>3, <2>1, <2>2, <2>3, GoesOn
<1>7. CASE ReadSaved(a)
  <2>1. PICK next : next = [Goto(a, "writing") EXCEPT !.saved = Doc(a)] /\ Become(a, next)
    BY <1>7 DEF ReadSaved
  <2>2. next.pc \notin Before /\ next.session = s.session /\ s.done \subseteq next.done
    BY <1>1, <2>1, Here DEF Goto, Attempt, Before
  <2> QED  BY <1>1, <1>2, <1>3, <2>1, <2>2, GoesOn
<1> QED  BY <1>4, <1>5, <1>6, <1>7

\* So does step 2 where it fails, since there is a session to compensate.
LEMMA FailedExpected ==
    ASSUME OneAtATime, Inv, Expected, NEW a \in Attempts, UNCHANGED scenario,
           ProvePossession(a) \/ CheckSetup(a) \/ DropSetup(a) \/ ApplyFails(a)
    PROVE  Expected'
<1>1. PICK s : s = attempt[a]
  OBVIOUS
<1>2. UNCHANGED <<progress, families, held>>
  BY DEF ProvePossession, CheckSetup, DropSetup, ApplyFails
<1>3. \A f \in Families : Waiting(f)' => Waiting(f)
  BY <1>2, SameWaits
<1>4. PICK next : /\ Become(a, next)
                  /\ \/ next = Completed(a, "applyMfa") \/ next = ApplyFailed(a)
                     \/ next \in {Goto(a, "committing"), Goto(a, "dropping")}
  BY DEF ProvePossession, CheckSetup, DropSetup, ApplyFails
<1>5. CASE next = Completed(a, "applyMfa")
  <2>1. next.pc \notin Before /\ next.session = s.session /\ s.done \subseteq next.done
    BY <1>1, <1>5, CompletedIs DEF Inv, Before, Steps
  <2> QED  BY <1>1, <1>2, <1>3, <1>4, <2>1, GoesOn
<1>6. CASE next \in {Goto(a, "committing"), Goto(a, "dropping"), Goto(a, "compensating")}
  <2>1. next.pc \notin Before /\ next.session = s.session /\ s.done \subseteq next.done
    BY <1>1, <1>6, GotoIs DEF Inv, Before
  <2> QED  BY <1>1, <1>2, <1>3, <1>4, <2>1, GoesOn
<1>7. CASE s.session = None
  <2>1. ~Created(s)
    BY <1>1, <1>7, Here, MfaAssumption DEF SessionOK, Sweeps
  <2> QED  BY <1>1, <1>2, <1>3, <1>4, <2>1, StillExpected
<1> QED  BY <1>1, <1>4, <1>5, <1>6, <1>7, ApplyFailedIs DEF Inv

LEMMA BeginExpected ==
    ASSUME OneAtATime, Inv, Expected, NEW a \in Attempts, NEW k, NEW f, NEW right, UNCHANGED scenario,
           Begin(a, k, f, right)
    PROVE  Expected'
<1>1. attempt[a].pc \in Before /\ UNCHANGED <<progress, families, held>> /\ \E next : Become(a, next)
  BY DEF Begin, Before
<1> QED  BY <1>1, SameWaits, GoesOn

\* The family created is the attempt's, which had none.
LEMMA CreateSessionExpected ==
    ASSUME OneAtATime, Inv, Expected, NEW a \in Attempts, UNCHANGED scenario, CreateSession(a)
    PROVE  Expected'
<1>1. PICK s : s = attempt[a]
  OBVIOUS
<1>2. PICK f, next :
        /\ f \in Families /\ families' = [families EXCEPT ![f] = KindOfFamily(s.kind = "enable")]
        /\ Become(a, next) /\ next = [Completed(a, "createSession") EXCEPT !.session = f]
  BY <1>1 DEF CreateSession
<1>3. UNCHANGED <<progress, held>> /\ s.pc = "running" /\ "createSession" \notin s.done
  BY <1>1 DEF CreateSession, AtStep, NextSteps
<1>4. next.pc = "saving" /\ next.session = f /\ "createSession" \in next.done
  BY <1>1, <1>2, Here DEF Completed, Goto, Attempt
<1>5. attempt'[a] = next /\ \A b \in Attempts : b = a
  BY <1>2, OneBecomes DEF Inv
<1> SUFFICES ASSUME Recorded(scenario)', NEW g \in Families, Waiting(g)' PROVE Awaited(g)'
  BY DEF Expected
<1>6. CASE g = f
  BY <1>4, <1>5, <1>6 DEF Awaited, Created, Before
<1>7. CASE g # f
  <2>1. Waiting(g) /\ Recorded(scenario)
    BY <1>2, <1>3, <1>7 DEF Inv, TypeOK, Waiting, Live
  <2>2. Left(g)
    BY <1>1, <1>3, <1>5, <2>1 DEF Expected, Awaited, Created
  <2> QED  BY <1>3, <2>2 DEF Left, Awaited
<1> QED  BY <1>6, <1>7

\* A document that is overwritten names the same session: where a retry counts on
\* it, it has not lapsed.
LEMMA WriteSavedExpected ==
    ASSUME OneAtATime, Inv, Timely, Expected, NEW a \in Attempts, UNCHANGED scenario, WriteSaved(a)
    PROVE  Expected'
<1>1. PICK s, next : s = attempt[a] /\ Become(a, next) /\ next = [Goto(a, "running") EXCEPT !.saved = None]
  BY DEF WriteSaved
<1>2. UNCHANGED <<families, held>> /\ s.pc = "writing"
  BY <1>1 DEF WriteSaved
<1>3. s \in Attempt /\ Shape(s) /\ Reads(s, progress[s.kind]) /\ s.kind \in Kinds
  BY <1>1, Here
<1>4. Created(s)
  BY <1>2, <1>3 DEF Shape, InOrder, Created, Before, Sweeps
<1>5. Created(next) /\ next.session = s.session
  BY <1>1, <1>3, <1>4 DEF Goto, Attempt, Created, Before
<1>6. attempt'[a] = next /\ \A b \in Attempts : b = a
  BY <1>1, OneBecomes DEF Inv
<1> SUFFICES ASSUME Recorded(scenario)', NEW f \in Families, Waiting(f)' PROVE Awaited(f)'
  BY DEF Expected
<1>7. Waiting(f) /\ Recorded(scenario)
  BY <1>2 DEF Waiting, Live
<1>8. ASSUME Left(f) PROVE f = s.session
  <2>1. PICK k \in Kinds : progress[k] # None /\ progress[k].session = f
    BY <1>8 DEF Left
  <2>2. k = s.kind
    BY <1>1, <1>2, <2>1, OtherDocs
  <2>3. Readable(progress[k])
    BY <1>8, <2>1, TimelyReads DEF Left
  <2> QED  BY <1>3, <1>4, <2>1, <2>2, <2>3 DEF Reads, Sweeps
<1>9. f = s.session
  BY <1>1, <1>6, <1>7, <1>8 DEF Expected, Awaited
<1> QED  BY <1>5, <1>6, <1>9 DEF Awaited, Created

\* Nothing waits where the transition under way has nothing left to hand over.
LEMMA NothingWaits ==
    ASSUME OneAtATime, Inv, Expected, NEW a \in Attempts, NEW s, s = attempt[a], s.pc # "idle",
           Created(s), ~Creating(s), UNCHANGED scenario,
           \A f \in Families : Waiting(f)' => Waiting(f) /\ f # s.session
    PROVE  Expected'
<1> SUFFICES ASSUME Recorded(scenario)', NEW f \in Families, Waiting(f)' PROVE FALSE
  BY DEF Expected
<1>1. Waiting(f) /\ f # s.session /\ Recorded(scenario)
  OBVIOUS
<1>2. Left(f)
  BY <1>1 DEF OneAtATime, Expected, Awaited
<1>3. PICK k \in Kinds : progress[k] # None /\ progress[k].session = f
  BY <1>2 DEF Left
<1>4. k = s.kind
  BY <1>3, OtherDocs
<1> QED  BY <1>1, <1>3, <1>4, Here DEF Reads, Sweeps

LEMMA FinishExpected ==
    ASSUME OneAtATime, Inv, Expected, NEW a \in Attempts, UNCHANGED scenario,
           NEW cleared \in BOOLEAN, Finish(a, cleared)
    PROVE  Expected'
<1>1. PICK s : s = attempt[a]
  OBVIOUS
<1>2. s.pc = "running" /\ NextSteps(a) = {} /\ families' = families
  BY <1>1 DEF Finish
<1>3. s.done = Steps /\ SessionOK(s)
  BY <1>1, <1>2, Here DEF NextSteps
<1>4. Created(s) /\ ~Creating(s) /\ s.session \in Families /\ s.session # None
  BY <1>2, <1>3, MfaAssumption DEF Created, Creating, Before, Steps, SessionOK, Sweeps
<1>5. held' = held \cup {s.session}
  BY <1>1, <1>4 DEF Finish
<1>6. \A f \in Families : Waiting(f)' => Waiting(f) /\ f # s.session
  BY <1>2, <1>5 DEF Waiting, Live
<1> QED  BY <1>1, <1>2, <1>4, <1>6, NothingWaits

LEMMA CompensateExpected ==
    ASSUME OneAtATime, Inv, Expected, NEW a \in Attempts, UNCHANGED scenario,
           CompensateSession(a) \/ CompensateProgress(a)
    PROVE  Expected'
<1>1. PICK s : s = attempt[a]
  OBVIOUS
<1>2. s.pc \in {"compensating", "clearing"} /\ held' = held
  BY <1>1 DEF CompensateSession, CompensateProgress
<1>3. Created(s) /\ ~Creating(s) /\ SessionOK(s)
  BY <1>1, <1>2, Here DEF Shape, InOrder, Created, Creating, Before, Sweeps
<1>4. CASE CompensateSession(a)
  <2>1. families' = Revoke({s.session})
    BY <1>1, <1>4 DEF CompensateSession
  <2>2. \A f \in Families : Waiting(f)' => Waiting(f) /\ f # s.session
    BY <1>2, <2>1 DEF Revoke, Waiting, Live
  <2> QED  BY <1>1, <1>2, <1>3, <2>2, NothingWaits
<1>5. CASE CompensateProgress(a)
  <2>1. families' = families /\ ~Live(s.session)
    BY <1>1, <1>3, <1>5 DEF CompensateProgress, SessionOK, Sweeps
  <2>2. \A f \in Families : Waiting(f)' => Waiting(f) /\ f # s.session
    BY <1>2, <2>1 DEF Waiting, Live
  <2> QED  BY <1>1, <1>2, <1>3, <2>2, NothingWaits
<1> QED  BY <1>4, <1>5

\* An answer hands the session to the client, a retryable error leaves it in the
\* progress.
LEMMA LeaveExpected ==
    ASSUME OneAtATime, Inv, Expected, NEW a \in Attempts, UNCHANGED scenario, Leave(a)
    PROVE  Expected'
<1>1. PICK s : s = attempt[a]
  OBVIOUS
<1>2. /\ UNCHANGED <<progress, families, held>> /\ Become(a, NoAttempt)
      /\ s.pc \in {"answered", "retryable"}
  BY <1>1 DEF Leave
<1>3. Shape(s) /\ Reads(s, progress[s.kind]) /\ s.kind \in Kinds
  BY <1>1, Here
<1>4. Created(s) /\ ~Creating(s)
  BY <1>2, <1>3 DEF Shape, InOrder, Created, Creating, Before, Sweeps
<1>5. CASE s.pc = "answered"
  <2>1. ~Waiting(s.session)'
    BY <1>2, <1>3, <1>5 DEF Shape, Waiting, Sweeps
  <2> QED  BY <1>1, <1>2, <2>1, SameWaits, StillExpected
<1>6. CASE s.pc = "retryable"
  <2>1. Left(s.session)
    BY <1>3, <1>4, <1>6 DEF Shape, Reads, Left, Sweeps
  <2> QED  BY <1>1, <1>2, <2>1, SameWaits, StillExpected
<1> QED  BY <1>2, <1>5, <1>6

\* The revocation of the old sessions, and its failure, lose no session that waits.
LEMMA RevokingExpected ==
    ASSUME OneAtATime, Inv, Expected, NEW a \in Attempts, UNCHANGED scenario,
           FindFamilies(a) \/ RevokeFamilies(a) \/ RevokeFails(a)
    PROVE  Expected'
<1>1. PICK s, next :
        /\ s = attempt[a] /\ Become(a, next)
        /\ next.pc \notin Before /\ next.session = s.session /\ s.done = next.done
  <2>1. \/ \E pc \in Labels \ Before : Become(a, Goto(a, pc))
        \/ \E pc \in Labels \ Before, page \in SUBSET Families : Become(a, [Goto(a, pc) EXCEPT !.page = page])
    BY DEF FindFamilies, RevokeFamilies, RevokeFails, Labels, Before
  <2>2. CASE \E pc \in Labels \ Before : Become(a, Goto(a, pc))
    BY <2>2, GotoIs DEF Inv
  <2>3. CASE \E pc \in Labels \ Before, page \in SUBSET Families : Become(a, [Goto(a, pc) EXCEPT !.page = page])
    <3>1. PICK pc \in Labels \ Before, page \in SUBSET Families :
            Become(a, [Goto(a, pc) EXCEPT !.page = page])
      BY <2>3
    <3>2. PICK next : next = [Goto(a, pc) EXCEPT !.page = page]
      OBVIOUS
    <3>3. next.pc = pc /\ next.session = attempt[a].session /\ next.done = attempt[a].done
      BY <3>2, PagedIs DEF Inv
    <3> QED  BY <3>1, <3>2, <3>3
  <2> QED  BY <2>1, <2>2, <2>3
<1>2. UNCHANGED <<progress, held>>
  BY DEF FindFamilies, RevokeFamilies, RevokeFails
<1>3. \A f \in Families : Waiting(f)' => Waiting(f)
  <2>1. CASE RevokeFamilies(a)
    BY <1>2, <2>1, RevokedWaits DEF RevokeFamilies
  <2>2. CASE FindFamilies(a) \/ RevokeFails(a)
    <3>1. families' = families
      BY <2>2 DEF FindFamilies, RevokeFails
    <3> QED  BY <1>2, <3>1, SameWaits
  <2> QED  BY <2>1, <2>2
<1> QED  BY <1>1, <1>2, <1>3, GoesOn

LEMMA ExpectedStep ==
    ASSUME OneAtATime, Inv, Timely, Expected, [Next]_vars
    PROVE  Expected'
<1>1. UNCHANGED scenario
  BY DEF Next, vars
<1>2. CASE SetupMfa \/ Tick \/ UNCHANGED vars
  <2>1. UNCHANGED <<progress, families, held, attempt>>
    BY <1>2 DEF SetupMfa, Tick, vars
  <2> QED  BY <1>1, <2>1 DEF Expected, Waiting, Live, Awaited, Left, Created
<1>3. ASSUME NEW a \in Attempts, Run(a) PROVE Expected'
  BY <1>1, <1>3, LocalExpected, FailedExpected, CreateSessionExpected, RevokingExpected,
     WriteSavedExpected, FinishExpected, CompensateExpected, LeaveExpected DEF Run
<1>4. ASSUME NEW a \in Attempts, Fault(a) PROVE Expected'
  <2>1. ~CompensationFails(a)
    BY DEF CompensationFails, Inv, Orderly
  <2>2. CreateFails(a) \/ Crash(a) => Expected'
    BY <1>1 DEF CreateFails, Crash, Expected, Recorded
  <2> QED  BY <1>1, <1>4, <2>1, <2>2, RevokingExpected, FailedExpected DEF Fault
<1>5. ASSUME NEW a \in Attempts, NEW k \in scenario.kinds, NEW f \in Families, NEW right \in BOOLEAN,
             Begin(a, k, f, right)
      PROVE  Expected'
  BY <1>1, <1>5, BeginExpected
<1> QED  BY <1>2, <1>3, <1>4, <1>5 DEF Next

\* All documents that stand are of one transition.
LEMMA OneDocument ==
    ASSUME Inv, NEW a \in Attempts,
           NEW k \in Kinds, NEW l \in Kinds, progress[k] # None, progress[l] # None
    PROVE  k = l
<1>1. CASE attempt[a].pc = "idle"
  BY <1>1, Here DEF Before, Over
<1>2. CASE attempt[a].pc # "idle"
  BY <1>2, OtherDocs
<1> QED  BY <1>1, <1>2

LEMMA OneWaits ==
    ASSUME OneAtATime, Inv, Timely, Expected
    PROVE  NoDuplicateSession
<1> SUFFICES ASSUME Recorded(scenario), NEW f \in Families, NEW g \in Families,
                    Waiting(f), Waiting(g)
             PROVE  f = g
  BY MfaAssumption DEF NoDuplicateSession, Recorded, Waiting, Live
<1>1. PICK a \in Attempts : \A b \in Attempts : b = a
  BY DEF OneAtATime
<1>2. PICK s : s = attempt[a]
  OBVIOUS
<1>3. ASSUME NEW h \in Families, Left(h), Created(s) PROVE h = s.session
  <2>1. PICK k \in Kinds : progress[k] # None /\ progress[k].session = h
    BY <1>3 DEF Left
  <2>2. k = s.kind
    BY <1>2, <1>3, <2>1, OtherDocs DEF Created, Before
  <2>3. Readable(progress[k])
    BY <1>3, <2>1, TimelyReads DEF Left
  <2> QED  BY <1>2, <1>3, <2>1, <2>2, <2>3, Here DEF Reads, Sweeps
<1>4. CASE Created(s)
  <2>1. ASSUME NEW h \in Families, Waiting(h) PROVE h = s.session
    <3>1. Left(h) \/ s.session = h
      BY <1>1, <1>2, <2>1 DEF Expected, Awaited
    <3> QED  BY <1>3, <1>4, <3>1
  <2> QED  BY <2>1
<1>5. CASE ~Created(s)
  <2>1. Left(f) /\ Left(g)
    BY <1>1, <1>2, <1>5 DEF Expected, Awaited
  <2>2. PICK k \in Kinds, l \in Kinds :
          /\ progress[k] # None /\ progress[k].session = f
          /\ progress[l] # None /\ progress[l].session = g
    BY <2>1 DEF Left
  <2>3. k = l
    BY <2>2, OneDocument
  <2> QED  BY <2>2, <2>3
<1> QED  BY <1>4, <1>5

\* Retries create no second session: where no process dies, and a retry comes
\* while its progress lasts, at most one live family is in nobody's hands, and a
\* transition under way, or the progress, knows it.
THEOREM RetriesDuplicateNothing ==
    OneAtATime => (Spec /\ Orderly(scenario) /\ Lasts(scenario) => []NoDuplicateSession)
<1> SUFFICES ASSUME OneAtATime PROVE Spec /\ Orderly(scenario) /\ Lasts(scenario) => []NoDuplicateSession
  OBVIOUS
<1>1. Init /\ Orderly(scenario) /\ Lasts(scenario) => Inv /\ Timely /\ Expected
  <2> SUFFICES ASSUME Init, Orderly(scenario), Lasts(scenario) PROVE Inv /\ Timely /\ Expected
    OBVIOUS
  <2>1. Inv
    BY InitInv
  <2>2. scenario.maxTime \in Nat /\ now = 0 /\ \A k \in Kinds : progress[k] = None
    BY MfaAssumption DEF Init, Scenario
  <2>3. Timely
    BY <2>2 DEF Timely, Lasts
  <2>4. Expected
    BY MfaAssumption DEF Init, Expected, Waiting, Live
  <2> QED  BY <2>1, <2>3, <2>4
<1>2. Inv /\ Timely /\ Expected /\ [Next]_vars => (Inv /\ Timely /\ Expected)'
  BY StepInv, TimelyStep, ExpectedStep
<1>3. Inv /\ Timely /\ Expected => NoDuplicateSession
  BY OneWaits
<1> QED  BY <1>1, <1>2, <1>3, PTL DEF Spec
=============================================================================
