-------------------------- MODULE MfaProofTheorems --------------------------
(* Theorems about MfaProof, for every value of its constants. *)
EXTENDS MfaProof, FiniteSetTheorems, TLAPS

-----------------------------------------------------------------------------
(* The inductive invariant *)

\* A request with a session knows its family, one that enables its setup.
Located ==
    \A r \in Requests :
        /\ req[r].pc # "idle" /\ req[r].op # "login" => req[r].family # Null
        /\ req[r].pc = "committing" => req[r].setup # Null

\* Only codes of batches that were generated have been spent.
Drawn == spent \subseteq (1 .. batches) \X Numbers

\* A nonce document tells what its history tells, and one that is not consumed
\* has authorised nothing.
NonceKnown ==
    \A n \in Nonces : nonces[n] # Null =>
        /\ minted[n] # Null
        /\ nonces[n].family = minted[n].family
        /\ nonces[n].expiresAt = minted[n].at + NonceLife
        /\ ~nonces[n].consumed => minted[n].setups = 0

\* A request that issues a setup has consumed a nonce.
Authorised ==
    \A r \in Requests : req[r].pc = "issuing" => req[r].nonce \in Nonces /\ minted[req[r].nonce] # Null

IInv ==
    /\ TypeOK
    /\ Located
    /\ Drawn
    /\ NonceKnown
    /\ Authorised
    /\ NonceAuthorisesOnce
    /\ CodeSpentOnce
    /\ NeverRunsDry
-----------------------------------------------------------------------------
(* Lemmas about the operators every action is built from *)

LEMMA NoRequestType == NoRequest \in Request
BY DEF NoRequest, Request, Labels

LEMMA GotoType ==
    ASSUME TypeOK, NEW r \in Requests, NEW pc \in Labels
    PROVE  Goto(r, pc) \in Request
BY DEF TypeOK, Goto, Request

LEMMA BecomeType ==
    ASSUME TypeOK, NEW r \in Requests, NEW next \in Request, Become(r, next)
    PROVE  req' \in [Requests -> Request]
BY DEF TypeOK, Become

LEMMA EndType ==
    ASSUME TypeOK, NEW r \in Requests, End(r)
    PROVE  req' \in [Requests -> Request]
BY NoRequestType, BecomeType DEF End

LEMMA AfterType == ASSUME NEW r \in Requests PROVE After(r) \in Labels
BY DEF After, Labels

\* A batch that was just generated is one the model has room for.
LEMMA GenerateType ==
    ASSUME TypeOK, Generate
    PROVE  /\ batches' \in 1 .. MaxBatches
           /\ batches' = batches + 1
           /\ Batch(batches') \in Codes
BY MfaProofAssumption DEF TypeOK, Generate, Batch, Codes

\* A new list of codes is longer than the threshold that makes it due.
LEMMA BatchIsFull ==
    ASSUME NEW b \in 1 .. MaxBatches
    PROVE  /\ Batch(b) \in Codes
           /\ Batch(b) # Null
           /\ Cardinality(Batch(b).left) > Threshold
<1>1. Batch(b) \in Codes
  BY DEF Batch, Codes
<1>2. Cardinality(Numbers) \in Nat
  BY MfaProofAssumption, FS_CardinalityType
<1> QED  BY <1>1, <1>2, NullIsNoDocument, MfaProofAssumption DEF Batch

-----------------------------------------------------------------------------
(* Type correctness *)

LEMMA InitType == Init => TypeOK
<1> SUFFICES ASSUME Init PROVE TypeOK
  OBVIOUS
<1>1. req \in [Requests -> Request]
  BY NoRequestType DEF Init
<1>2. families \in [Families -> Nat \cup {Null}]
  BY DEF Init
<1>3. batches \in 0 .. MaxBatches
  BY MfaProofAssumption DEF Init
<1> QED  BY <1>1, <1>2, <1>3 DEF Init, TypeOK

\* The steps that only move their request on.
Moves(r) ==
    \/ \E op \in Ops, f \in Families \cup {Null} : Begin(r, op, f)
    \/ Fail(r)
    \/ ReadMfaState(r) \/ ReadMfaStateAgain(r) \/ CheckTotp(r)
    \/ ReadFamily(r) \/ ReadForSetup(r) \/ ReadSetup(r)
    \/ ReadForCodes(r) \/ ReadCodes(r)

LEMMA MovesType ==
    ASSUME TypeOK, NEW r \in Requests, Moves(r)
    PROVE  /\ req' \in [Requests -> Request]
           /\ UNCHANGED <<account, cleaning, nonces, families, history, now>>
<1>1. ASSUME NEW op \in Ops, NEW f \in Families \cup {Null}, Begin(r, op, f)
      PROVE  req' \in [Requests -> Request]
  <2>1. [NoRequest EXCEPT !.pc = "begin", !.op = op, !.family = f] \in Request
    BY DEF NoRequest, Request, Labels
  <2> QED  BY <1>1, <2>1, BecomeType DEF Begin
<1>2. CASE Fail(r)
  BY <1>2, EndType DEF Fail
<1>3. CASE ReadMfaState(r)
  <2>1. Goto(r, "proving") \in Request /\ Goto(r, After(r)) \in Request
    BY GotoType, AfterType DEF Labels
  <2> QED  BY <1>3, <2>1, NoRequestType, BecomeType DEF ReadMfaState
<1>4. CASE ReadMfaStateAgain(r)
  <2>1. Goto(r, "checking") \in Request
    BY GotoType DEF Labels
  <2> QED  BY <1>4, <2>1, NoRequestType, BecomeType DEF ReadMfaStateAgain
<1>5. CASE CheckTotp(r)
  BY <1>5, GotoType, AfterType, BecomeType DEF CheckTotp
<1>6. CASE ReadFamily(r)
  <2>1. Goto(r, IF Fresh(families[req[r].family]) THEN "minting" ELSE "stateRead") \in Request
    BY GotoType DEF Labels
  <2> QED  BY <1>6, <2>1, BecomeType DEF ReadFamily
<1>7. CASE ReadForSetup(r)
  <2>1. Goto(r, "consuming") \in Request
    BY GotoType DEF Labels
  <2> QED  BY <1>7, <2>1, EndType, BecomeType DEF ReadForSetup
<1>8. CASE ReadForCodes(r) \/ ReadCodes(r)
  <2>1. Goto(r, "reading") \in Request /\ Goto(r, "writing") \in Request
    BY GotoType DEF Labels
  <2> QED  BY <1>8, <2>1, NoRequestType, BecomeType DEF ReadForCodes, ReadCodes
<1>9. CASE ReadSetup(r)
  <2>1. Goto(r, "committing") \in Request /\ Goto(r, "deleting") \in Request
    BY GotoType DEF Labels
  <2>2. [Goto(r, "committing") EXCEPT !.setup = setup] \in Request
    BY <2>1 DEF Request, TypeOK
  <2> QED  BY <1>9, <2>1, <2>2, BecomeType DEF ReadSetup
<1>10. req' \in [Requests -> Request]
  BY <1>1, <1>2, <1>3, <1>4, <1>5, <1>6, <1>7, <1>8, <1>9 DEF Moves
<1> QED
  BY <1>10 DEF Moves, Begin, Fail, ReadMfaState, ReadMfaStateAgain, CheckTotp, ReadFamily,
               ReadForSetup, ReadForCodes, ReadCodes, ReadSetup

LEMMA SpendCodeType ==
    ASSUME TypeOK, NEW r \in Requests, NEW b \in 1 .. batches, NEW i \in Numbers,
           SpendCode(r, b, i)
    PROVE  TypeOK'
<1>1. b \in 1 .. MaxBatches
  BY MfaProofAssumption DEF TypeOK
<1>2. codes \in Codes
  BY DEF SpendCode, TypeOK
<1>3. codes' \in Codes /\ batches' \in 0 .. MaxBatches
  <2>1. CASE Remaining(Without(i))
    BY <2>1, GenerateType DEF SpendCode
  <2>2. CASE ~Remaining(Without(i))
    BY <2>2, <1>2 DEF SpendCode, Without, Codes, TypeOK
  <2> QED  BY <2>1, <2>2
<1>4. spent' \subseteq (1 .. MaxBatches) \X Numbers
  BY <1>1 DEF SpendCode, TypeOK
<1>5. req' \in [Requests -> Request]
  BY GotoType, AfterType, BecomeType DEF SpendCode
<1> QED  BY <1>3, <1>4, <1>5 DEF SpendCode, TypeOK

LEMMA CreateSessionType ==
    ASSUME TypeOK, NEW r \in Requests, NEW f \in Families, CreateSession(r, f)
    PROVE  TypeOK'
<1>1. req' \in [Requests -> Request]
  BY EndType DEF CreateSession
<1>2. families' \in [Families -> Nat \cup {Null}]
  BY DEF CreateSession, TypeOK
<1> QED  BY <1>1, <1>2 DEF CreateSession, TypeOK, account, history

LEMMA NonceType ==
    ASSUME TypeOK, Located, NonceKnown, NEW r \in Requests, NEW n \in Nonces,
           MintNonce(r, n) \/ ConsumeNonce(r, n)
    PROVE  TypeOK'
<1>1. CASE MintNonce(r, n)
  <2>1. req[r].family \in Families
    BY <1>1 DEF MintNonce, At, Located, TypeOK, Request
  <2>2. now + NonceLife \in Nat
    BY MfaProofAssumption DEF TypeOK
  <2>3. nonces' \in [Nonces -> Nonce \cup {Null}]
    BY <1>1, <2>1, <2>2 DEF MintNonce, Nonce, TypeOK
  <2>4. minted' \in [Nonces -> Minted \cup {Null}]
    BY <1>1, <2>1 DEF MintNonce, Minted, TypeOK
  <2>5. req' \in [Requests -> Request]
    BY <1>1, EndType DEF MintNonce
  <2> QED  BY <1>1, <2>3, <2>4, <2>5 DEF MintNonce, TypeOK, account
<1>2. CASE ConsumeNonce(r, n)
  <2>1. nonces' \in [Nonces -> Nonce \cup {Null}]
    BY ZenonT(40), <1>2 DEF ConsumeNonce, Valid, Consumed, Nonce, TypeOK
  <2>2. minted' \in [Nonces -> Minted \cup {Null}]
    <3>1. minted[n] \in Minted
      BY <1>2 DEF ConsumeNonce, Valid, NonceKnown, TypeOK
    <3> QED  BY <1>2, <3>1 DEF ConsumeNonce, Minted, TypeOK
  <2>3. Goto(r, "issuing") \in Request
    BY GotoType DEF Labels
  <2>4. [Goto(r, "issuing") EXCEPT !.nonce = n, !.consumedAt = now] \in Request
    BY <2>3 DEF Request, TypeOK
  <2>5. req' \in [Requests -> Request]
    BY <1>2, <2>4, BecomeType DEF ConsumeNonce
  <2> QED  BY <1>2, <2>1, <2>2, <2>5 DEF ConsumeNonce, TypeOK, account
<1> QED  BY <1>1, <1>2

LEMMA SetupType ==
    ASSUME TypeOK, Located, NEW r \in Requests,
           IssueSetup(r) \/ CommitEnable(r) \/ DeleteSetup(r)
    PROVE  TypeOK'
<1>1. CASE IssueSetup(r)
  <2>1. now + SetupLife \in Nat
    BY MfaProofAssumption DEF TypeOK
  <2>2. setup' \in Setup /\ batches' \in 0 .. MaxBatches
    BY <1>1, <2>1, GenerateType DEF IssueSetup, Setup
  <2>3. req' \in [Requests -> Request]
    BY <1>1, EndType DEF IssueSetup
  <2> QED  BY <1>1, <2>2, <2>3 DEF IssueSetup, TypeOK
<1>2. CASE CommitEnable(r)
  <2>1. req[r].setup \in Setup
    BY <1>2 DEF CommitEnable, At, Located, TypeOK, Request
  <2>2. codes' \in Codes
    BY <1>2, <2>1, BatchIsFull DEF CommitEnable, Setup
  <2>3. spent' \subseteq (1 .. MaxBatches) \X Numbers
    BY <1>2 DEF CommitEnable, TypeOK
  <2>4. req' \in [Requests -> Request]
    BY <1>2, GotoType, BecomeType DEF CommitEnable, Labels
  <2>5. mfaEnabled' \in BOOLEAN
    BY <1>2 DEF CommitEnable
  <2> QED  BY <1>2, <2>2, <2>3, <2>4, <2>5 DEF CommitEnable, TypeOK
<1>3. CASE DeleteSetup(r)
  <2>1. req' \in [Requests -> Request]
    BY <1>3, EndType DEF DeleteSetup
  <2> QED  BY <1>3, <2>1 DEF DeleteSetup, TypeOK, history
<1> QED  BY <1>1, <1>2, <1>2, <1>3

LEMMA WriteType ==
    ASSUME TypeOK, NEW r \in Requests, CommitDisable(r) \/ WriteCodes(r)
    PROVE  TypeOK'
<1>1. req' \in [Requests -> Request]
  BY EndType DEF CommitDisable, WriteCodes
<1>2. CASE CommitDisable(r)
  <2>1. mfaEnabled' \in BOOLEAN /\ codes' \in Codes \cup {Null}
    BY <1>2 DEF CommitDisable
  <2> QED  BY <1>1, <1>2, <2>1 DEF CommitDisable, TypeOK, history
<1>3. CASE WriteCodes(r)
  <2>1. codes' \in Codes /\ batches' \in 0 .. MaxBatches
    BY <1>3, GenerateType DEF WriteCodes
  <2> QED  BY <1>1, <1>3, <2>1 DEF WriteCodes, TypeOK
<1> QED  BY <1>2, <1>3

LEMMA CleanUpType ==
    ASSUME TypeOK, FindExpiredSetup \/ CleanUpSetup \/ (\E n \in Nonces : CleanUp(n)) \/ Tick
    PROVE  TypeOK'
<1>1. CASE FindExpiredSetup \/ CleanUpSetup
  BY <1>1 DEF FindExpiredSetup, CleanUpSetup, TypeOK, account, history
<1>2. CASE \E n \in Nonces : CleanUp(n)
  <2>1. nonces' \in [Nonces -> Nonce \cup {Null}]
    BY <1>2 DEF CleanUp, TypeOK
  <2> QED  BY <1>2, <2>1 DEF CleanUp, TypeOK, account, history
<1>3. CASE Tick
  BY <1>3 DEF Tick, TypeOK, account, history
<1> QED  BY <1>1, <1>2, <1>3

LEMMA StepType == TypeOK /\ Located /\ NonceKnown /\ [Next]_vars => TypeOK'
<1> SUFFICES ASSUME TypeOK, Located, NonceKnown, [Next]_vars PROVE TypeOK'
  OBVIOUS
<1>1. ASSUME NEW r \in Requests, Moves(r) PROVE TypeOK'
  BY <1>1, MovesType DEF TypeOK, account, history
<1>2. ASSUME NEW r \in Requests, Step(r) PROVE TypeOK'
  BY <1>1, <1>2, SpendCodeType, CreateSessionType, NonceType, SetupType, WriteType
     DEF Step, Moves
<1>3. CASE UNCHANGED vars
  BY <1>3 DEF TypeOK, vars, account, history
<1> QED  BY <1>2, <1>3, CleanUpType DEF Next

-----------------------------------------------------------------------------
(* What a request carries *)

LEMMA InitLocated == Init => Located
BY DEF Init, Located, NoRequest

\* Only its own steps change a request, and none of them forgets its family.
LEMMA StepLocated == TypeOK /\ Located /\ [Next]_vars => Located'
<1> SUFFICES ASSUME TypeOK, Located, [Next]_vars PROVE Located'
  OBVIOUS
<1> DEFINE Ready(q) == /\ q.pc # "idle" /\ q.op # "login" => q.family # Null
                       /\ q.pc = "committing" => q.setup # Null
<1>1. \A r \in Requests : Ready(req[r])
  BY DEF Located
<1>2. Ready(NoRequest)
  BY DEF NoRequest
<1>3. ASSUME NEW r \in Requests, NEW next, Become(r, next), Ready(next) PROVE Located'
  BY <1>1, <1>3 DEF Become, Located, TypeOK
<1>4. ASSUME NEW r \in Requests, End(r) PROVE Located'
  BY <1>2, <1>3, <1>4 DEF End
<1>5. ASSUME NEW r \in Requests, NEW pc, req[r].pc # "idle", pc # "committing"
      PROVE  Ready(Goto(r, pc))
  BY <1>1, <1>5 DEF Goto, TypeOK, Request
<1>6. ASSUME NEW r \in Requests, Step(r) PROVE Located'
  <2>1. ASSUME NEW op \in Ops, NEW f \in Families \cup {Null}, Begin(r, op, f) PROVE Located'
    <3>1. Ready([NoRequest EXCEPT !.pc = "begin", !.op = op, !.family = f])
      BY <2>1 DEF Begin, NoRequest
    <3> QED  BY <2>1, <3>1, <1>3 DEF Begin
  <2>2. CASE \/ Fail(r) \/ IssueSetup(r) \/ DeleteSetup(r) \/ CommitDisable(r) \/ WriteCodes(r)
             \/ (\E f \in Families : CreateSession(r, f))
             \/ (\E n \in Nonces : MintNonce(r, n))
    BY <2>2, <1>4
       DEF Fail, IssueSetup, DeleteSetup, CommitDisable, WriteCodes, CreateSession, MintNonce
  <2>3. After(r) # "committing"
    BY DEF After
  <2>4. CASE ReadMfaState(r) \/ ReadMfaStateAgain(r) \/ CheckTotp(r)
    <3>1. req[r].pc # "idle"
      BY <2>4 DEF ReadMfaState, ReadMfaStateAgain, CheckTotp, At
    <3> QED  BY <2>3, <2>4, <3>1, <1>2, <1>3, <1>5 DEF ReadMfaState, ReadMfaStateAgain, CheckTotp
  <2>5. ASSUME NEW b \in 1 .. batches, NEW i \in Numbers, SpendCode(r, b, i) PROVE Located'
    BY <2>3, <2>5, <1>3, <1>5 DEF SpendCode
  <2>6. CASE ReadFamily(r) \/ ReadForSetup(r) \/ ReadForCodes(r) \/ ReadCodes(r) \/ CommitEnable(r)
    <3>1. req[r].pc # "idle"
      BY <2>6 DEF ReadFamily, ReadForSetup, ReadForCodes, ReadCodes, CommitEnable, At
    <3> QED  BY <2>6, <3>1, <1>2, <1>3, <1>4, <1>5
             DEF ReadFamily, ReadForSetup, ReadForCodes, ReadCodes, CommitEnable
  <2>7. ASSUME NEW n \in Nonces, ConsumeNonce(r, n) PROVE Located'
    <3>1. Ready(Goto(r, "issuing")) /\ Goto(r, "issuing") \in Request
      BY <2>7, <1>5, GotoType DEF ConsumeNonce, At, Labels
    <3>2. Ready([Goto(r, "issuing") EXCEPT !.nonce = n, !.consumedAt = now])
      BY <3>1 DEF Request
    <3> QED  BY <2>7, <3>2, <1>3 DEF ConsumeNonce
  <2>8. CASE ReadSetup(r)
    <3>1. Goto(r, "committing") \in Request
      BY GotoType DEF Labels
    <3>2. /\ Goto(r, "committing").op = req[r].op
          /\ Goto(r, "committing").family = req[r].family
      BY DEF Goto, TypeOK, Request
    <3>3. Ready([Goto(r, "committing") EXCEPT !.setup = setup])
      BY <2>8, <3>1, <3>2, <1>1 DEF ReadSetup, At, Request
    <3>4. Ready(Goto(r, "deleting"))
      BY <2>8, <1>5 DEF ReadSetup, At
    <3> QED  BY <2>8, <3>3, <3>4, <1>3 DEF ReadSetup
  <2> QED  BY <1>6, <2>1, <2>2, <2>4, <2>5, <2>6, <2>7, <2>8 DEF Step
<1>7. CASE \/ FindExpiredSetup \/ CleanUpSetup \/ (\E n \in Nonces : CleanUp(n)) \/ Tick
           \/ UNCHANGED vars
  BY <1>7 DEF FindExpiredSetup, CleanUpSetup, CleanUp, Tick, vars, Located
<1> QED  BY <1>6, <1>7 DEF Next

-----------------------------------------------------------------------------
(* The codes *)

LEMMA InitCodes == Init => Drawn /\ CodeSpentOnce /\ NeverRunsDry
BY DEF Init, Drawn, CodeSpentOnce, NeverRunsDry

\* A step that leaves the account and what was spent alone.
LEMMA CodesKept ==
    ASSUME Drawn, CodeSpentOnce, NeverRunsDry, batches \in Nat,
           UNCHANGED <<mfaEnabled, codes, spent>>, batches' \in {batches, batches + 1}
    PROVE  (Drawn /\ CodeSpentOnce /\ NeverRunsDry)'
BY DEF Drawn, CodeSpentOnce, NeverRunsDry

\* Nothing of a batch that is generated now has been spent.
LEMMA NewCodes ==
    ASSUME TypeOK, Drawn, NeverRunsDry, mfaEnabled, UNCHANGED mfaEnabled, Generate,
           codes' = Batch(batches'), spent' \subseteq (1 .. batches) \X Numbers
    PROVE  (Drawn /\ CodeSpentOnce /\ NeverRunsDry)'
<1>1. batches \in Nat /\ batches' = batches + 1 /\ batches' \in 1 .. MaxBatches
  BY GenerateType, MfaProofAssumption DEF TypeOK
<1>2. Drawn'
  BY <1>1 DEF Drawn
<1>3. \A i \in Numbers : <<batches', i>> \notin spent'
  BY <1>1
<1>4. CodeSpentOnce'
  BY <1>3 DEF CodeSpentOnce, Batch
<1>5. NeverRunsDry'
  BY <1>1, BatchIsFull DEF NeverRunsDry
<1> QED  BY <1>2, <1>4, <1>5

LEMMA SpendCodeCodes ==
    ASSUME TypeOK, Drawn, CodeSpentOnce, NeverRunsDry,
           NEW r \in Requests, NEW b \in 1 .. batches, NEW i \in Numbers, SpendCode(r, b, i)
    PROVE  (Drawn /\ CodeSpentOnce /\ NeverRunsDry)'
<1>1. codes # Null /\ codes \in Codes /\ b = codes.batch /\ mfaEnabled /\ UNCHANGED mfaEnabled
  BY DEF SpendCode, TypeOK, NeverRunsDry
<1>2. spent' = spent \cup {<<b, i>>} /\ spent' \subseteq (1 .. batches) \X Numbers
  BY DEF SpendCode, Drawn
<1>3. CASE Remaining(Without(i))
  BY <1>1, <1>2, <1>3, NewCodes DEF SpendCode
<1>4. CASE ~Remaining(Without(i))
  <2>1. codes' = [codes EXCEPT !.left = Without(i)] /\ batches' = batches
    BY <1>4 DEF SpendCode
  <2>2. codes' \in Codes /\ codes'.batch = b /\ codes'.left = codes.left \ {i}
    BY <1>1, <2>1 DEF Codes, Without
  <2>3. Drawn'
    BY <1>2, <2>1 DEF Drawn
  <2>4. CodeSpentOnce'
    BY <1>1, <1>2, <2>2 DEF CodeSpentOnce
  <2>5. Cardinality(codes'.left) \in Nat
    <3>1. codes'.left \subseteq Numbers
      BY <2>2 DEF Codes
    <3> QED  BY <3>1, MfaProofAssumption, FS_Subset, FS_CardinalityType
  <2>6. Cardinality(codes'.left) > Threshold
    BY <1>4, <2>2, <2>5, MfaProofAssumption DEF Remaining, Without
  <2>7. mfaEnabled' /\ codes' # Null
    BY <1>1, <2>2, NullIsNoDocument
  <2>8. NeverRunsDry'
    BY <2>6, <2>7 DEF NeverRunsDry
  <2> QED  BY <2>3, <2>4, <2>8
<1> QED  BY <1>3, <1>4

LEMMA CommitEnableCodes ==
    ASSUME TypeOK, Located, Drawn, NEW r \in Requests, CommitEnable(r)
    PROVE  (Drawn /\ CodeSpentOnce /\ NeverRunsDry)'
<1> DEFINE b == req[r].setup.batch
<1>1. req[r].setup \in Setup
  BY DEF CommitEnable, At, Located, TypeOK, Request
<1>2. b \in 1 .. MaxBatches
  BY <1>1 DEF Setup
<1> HIDE DEF b
<1>3. codes' = Batch(b) /\ spent' = {x \in spent : x[1] # b} /\ mfaEnabled' /\ UNCHANGED batches
  BY DEF CommitEnable, b
<1>4. Drawn'
  BY <1>3 DEF Drawn
<1>5. \A i \in Numbers : <<b, i>> \notin spent'
  BY <1>3
<1>6. CodeSpentOnce'
  BY <1>3, <1>5 DEF CodeSpentOnce, Batch
<1>7. NeverRunsDry'
  BY <1>2, <1>3, BatchIsFull DEF NeverRunsDry
<1> QED  BY <1>4, <1>6, <1>7

LEMMA StepCodes ==
    TypeOK /\ Located /\ Drawn /\ CodeSpentOnce /\ NeverRunsDry /\ [Next]_vars
        => (Drawn /\ CodeSpentOnce /\ NeverRunsDry)'
<1> SUFFICES ASSUME TypeOK, Located, Drawn, CodeSpentOnce, NeverRunsDry, [Next]_vars
             PROVE  (Drawn /\ CodeSpentOnce /\ NeverRunsDry)'
  OBVIOUS
<1>1. batches \in Nat
  BY MfaProofAssumption DEF TypeOK
<1> DEFINE Kept == UNCHANGED <<mfaEnabled, codes, spent, batches>>
<1>2. ASSUME Kept PROVE (Drawn /\ CodeSpentOnce /\ NeverRunsDry)'
  BY <1>1, <1>2, CodesKept
<1>3. ASSUME NEW r \in Requests, Step(r) PROVE (Drawn /\ CodeSpentOnce /\ NeverRunsDry)'
  <2>1. CASE Moves(r)
    BY <2>1, <1>2, MovesType DEF account, history
  <2>2. CASE IssueSetup(r)
    BY <2>2, <1>1, CodesKept DEF IssueSetup, Generate
  <2>3. CASE \/ \E f \in Families : CreateSession(r, f)
             \/ \E n \in Nonces : MintNonce(r, n) \/ ConsumeNonce(r, n)
             \/ DeleteSetup(r)
    BY <2>3, <1>2
       DEF CreateSession, MintNonce, ConsumeNonce, DeleteSetup, account, history
  <2>4. CASE CommitDisable(r)
    BY <2>4 DEF CommitDisable, Drawn, CodeSpentOnce, NeverRunsDry, history
  <2>5. CASE WriteCodes(r)
    <3>1. mfaEnabled
      BY <2>5 DEF WriteCodes, Writable, NeverRunsDry
    <3>2. spent' \subseteq (1 .. batches) \X Numbers
      BY <2>5 DEF WriteCodes, Drawn
    <3> QED  BY <2>5, <3>1, <3>2, NewCodes DEF WriteCodes
  <2> QED  BY <1>3, <2>1, <2>2, <2>3, <2>4, <2>5, SpendCodeCodes, CommitEnableCodes DEF Step, Moves
<1>4. CASE \/ FindExpiredSetup \/ CleanUpSetup \/ (\E n \in Nonces : CleanUp(n)) \/ Tick
           \/ UNCHANGED vars
  BY <1>4, <1>2 DEF FindExpiredSetup, CleanUpSetup, CleanUp, Tick, vars, account, history
<1> QED  BY <1>3, <1>4 DEF Next

-----------------------------------------------------------------------------
(* The nonces *)

LEMMA InitNonces == Init => NonceKnown /\ Authorised /\ NonceAuthorisesOnce
BY DEF Init, NonceKnown, Authorised, NonceAuthorisesOnce, NoRequest

\* A step of a request that neither mints nor consumes.
LEMMA NoncesKept ==
    ASSUME TypeOK, NonceKnown, Authorised, NonceAuthorisesOnce, UNCHANGED <<nonces, minted>>,
           \A r \in Requests : req'[r].pc = "issuing" => req'[r] = req[r]
    PROVE  (NonceKnown /\ Authorised /\ NonceAuthorisesOnce)'
BY DEF NonceKnown, Authorised, NonceAuthorisesOnce

\* No other step sends a request to issue a setup.
LEMMA OnlyConsumed ==
    ASSUME TypeOK, NEW r \in Requests, Step(r), \A n \in Nonces : ~ConsumeNonce(r, n)
    PROVE  \A q \in Requests : req'[q].pc = "issuing" => req'[q] = req[q]
<1> DEFINE Good == \A q \in Requests : req'[q].pc = "issuing" => req'[q] = req[q]
<1>1. ASSUME NEW next, Become(r, next), next.pc # "issuing" PROVE Good
  BY <1>1 DEF Become, TypeOK
<1>2. NoRequest.pc # "issuing"
  BY DEF NoRequest
<1>3. ASSUME End(r) PROVE Good
  BY <1>1, <1>2, <1>3 DEF End
<1>4. ASSUME NEW pc, pc # "issuing" PROVE Goto(r, pc).pc # "issuing"
  BY <1>4 DEF Goto, TypeOK, Request
<1>5. After(r) # "issuing"
  BY DEF After
<1>6. ASSUME NEW op \in Ops, NEW f \in Families \cup {Null}, Begin(r, op, f) PROVE Good
  <2>1. [NoRequest EXCEPT !.pc = "begin", !.op = op, !.family = f].pc # "issuing"
    BY DEF NoRequest
  <2> QED  BY <1>1, <1>6, <2>1 DEF Begin
<1>7. CASE \/ Fail(r) \/ IssueSetup(r) \/ DeleteSetup(r) \/ CommitDisable(r) \/ WriteCodes(r)
           \/ (\E f \in Families : CreateSession(r, f))
           \/ (\E n \in Nonces : MintNonce(r, n))
  BY <1>3, <1>7
     DEF Fail, IssueSetup, DeleteSetup, CommitDisable, WriteCodes, CreateSession, MintNonce
<1>8. CASE ReadMfaState(r) \/ ReadMfaStateAgain(r) \/ CheckTotp(r)
  BY <1>1, <1>2, <1>4, <1>5, <1>8 DEF ReadMfaState, ReadMfaStateAgain, CheckTotp
<1>9. ASSUME NEW b \in 1 .. batches, NEW i \in Numbers, SpendCode(r, b, i) PROVE Good
  BY <1>1, <1>4, <1>5, <1>9 DEF SpendCode
<1>10. CASE ReadFamily(r) \/ ReadForSetup(r) \/ ReadForCodes(r) \/ ReadCodes(r) \/ CommitEnable(r)
  BY <1>1, <1>2, <1>3, <1>4, <1>10
     DEF ReadFamily, ReadForSetup, ReadForCodes, ReadCodes, CommitEnable
<1>11. CASE ReadSetup(r)
  <2>1. Goto(r, "committing") \in Request /\ Goto(r, "committing").pc # "issuing"
    BY <1>4, GotoType DEF Labels
  <2>2. [Goto(r, "committing") EXCEPT !.setup = setup].pc # "issuing"
    BY <2>1 DEF Request
  <2>3. Goto(r, "deleting").pc # "issuing"
    BY <1>4
  <2> QED  BY <1>1, <1>11, <2>2, <2>3 DEF ReadSetup
<1> QED  BY <1>6, <1>7, <1>8, <1>9, <1>10, <1>11 DEF Step

LEMMA MintNonceNonces ==
    ASSUME TypeOK, Located, NonceKnown, Authorised, NonceAuthorisesOnce,
           NEW r \in Requests, NEW n \in Nonces, MintNonce(r, n)
    PROVE  (NonceKnown /\ Authorised /\ NonceAuthorisesOnce)'
<1>1. minted[n] = Null /\ req[r].family \in Families /\ now + NonceLife \in Nat
  BY MfaProofAssumption DEF MintNonce, At, Located, TypeOK, Request
<1>2. /\ minted' = [minted EXCEPT ![n] = [family |-> req[r].family, at |-> now, setups |-> 0]]
      /\ nonces' = [nonces EXCEPT ![n] =
            [family |-> req[r].family, expiresAt |-> now + NonceLife, consumed |-> FALSE]]
  BY DEF MintNonce
<1>3. minted'[n] \in Minted /\ minted'[n].setups = 0 /\ minted'[n] # Null
  BY <1>1, <1>2, NullIsNoDocument DEF Minted, TypeOK
<1>4. NonceKnown'
  BY <1>2, <1>3 DEF NonceKnown, TypeOK
<1>5. \A q \in Requests : req'[q].pc = "issuing" => req'[q] = req[q]
  BY DEF MintNonce, End, Become, NoRequest, TypeOK
<1>6. \A q \in Requests : req[q].pc = "issuing" => req[q].nonce \in Nonces \ {n}
  BY <1>1 DEF Authorised
<1>7. \A m \in Nonces \ {n} : minted'[m] = minted[m]
  BY <1>2 DEF TypeOK
<1>8. Authorised'
  BY <1>5, <1>6, <1>7 DEF Authorised
<1>9. NonceAuthorisesOnce'
  <2>1. \A m \in Nonces : minted'[m] # Null => minted'[m].setups <= 1
    BY <1>3, <1>7 DEF NonceAuthorisesOnce
  <2>2. \A q \in Requests : req'[q].pc = "issuing" =>
            /\ minted'[req'[q].nonce].family = req'[q].family
            /\ req'[q].consumedAt < minted'[req'[q].nonce].at + NonceLife
    BY <1>5, <1>6, <1>7 DEF NonceAuthorisesOnce
  <2> QED  BY <2>1, <2>2 DEF NonceAuthorisesOnce
<1> QED  BY <1>4, <1>8, <1>9

LEMMA ConsumeNonceNonces ==
    ASSUME TypeOK, NonceKnown, Authorised, NonceAuthorisesOnce,
           NEW r \in Requests, NEW n \in Nonces, ConsumeNonce(r, n)
    PROVE  (NonceKnown /\ Authorised /\ NonceAuthorisesOnce)'
<1>1. /\ nonces[n] \in Nonce /\ minted[n] \in Minted /\ minted[n] # Null
      /\ nonces[n].family = req[r].family /\ ~nonces[n].consumed /\ nonces[n].expiresAt > now
      /\ nonces[n].family = minted[n].family
      /\ nonces[n].expiresAt = minted[n].at + NonceLife
      /\ minted[n].setups = 0
  BY DEF ConsumeNonce, Valid, NonceKnown, TypeOK
<1>2. /\ nonces' = [nonces EXCEPT ![n] = Consumed(n)]
      /\ minted' = [minted EXCEPT ![n].setups = minted[n].setups + 1]
  BY DEF ConsumeNonce
<1>3. /\ nonces'[n].consumed /\ nonces'[n].family = nonces[n].family
      /\ nonces'[n].expiresAt = nonces[n].expiresAt
  BY <1>1, <1>2 DEF Consumed, Nonce, TypeOK
<1>4. /\ minted'[n] \in Minted /\ minted'[n] # Null /\ minted'[n].setups = 1
      /\ minted'[n].family = minted[n].family /\ minted'[n].at = minted[n].at
  BY <1>1, <1>2, NullIsNoDocument DEF Minted, TypeOK
<1>5. \A m \in Nonces \ {n} : nonces'[m] = nonces[m] /\ minted'[m] = minted[m]
  BY <1>2 DEF TypeOK
<1>6. NonceKnown'
  BY <1>1, <1>3, <1>4, <1>5 DEF NonceKnown
<1>7. /\ req'[r].nonce = n /\ req'[r].family = req[r].family /\ req'[r].consumedAt = now
      /\ \A q \in Requests \ {r} : req'[q] = req[q]
  <2>1. Goto(r, "issuing") \in Request
    BY GotoType DEF Labels
  <2>2. Goto(r, "issuing").family = req[r].family
    BY DEF Goto, TypeOK, Request
  <2>3. /\ req'[r] = [Goto(r, "issuing") EXCEPT !.nonce = n, !.consumedAt = now]
        /\ \A q \in Requests \ {r} : req'[q] = req[q]
    BY DEF ConsumeNonce, Become, TypeOK
  <2> QED  BY <2>1, <2>2, <2>3 DEF Request
<1>8. Authorised'
  BY <1>4, <1>5, <1>7 DEF Authorised
<1>9. NonceAuthorisesOnce'
  <2>1. \A m \in Nonces : minted'[m] # Null => minted'[m].setups <= 1
    BY <1>4, <1>5 DEF NonceAuthorisesOnce
  <2>2. ASSUME NEW q \in Requests, req'[q].pc = "issuing"
        PROVE  /\ minted'[req'[q].nonce].family = req'[q].family
               /\ req'[q].consumedAt < minted'[req'[q].nonce].at + NonceLife
    <3>1. CASE q = r
      BY <3>1, <1>1, <1>4, <1>7
    <3>2. CASE q # r
      BY <2>2, <3>2, <1>4, <1>5, <1>7 DEF Authorised, NonceAuthorisesOnce
    <3> QED  BY <3>1, <3>2
  <2> QED  BY <2>1, <2>2 DEF NonceAuthorisesOnce
<1> QED  BY <1>6, <1>8, <1>9

LEMMA StepNonces ==
    TypeOK /\ Located /\ NonceKnown /\ Authorised /\ NonceAuthorisesOnce /\ [Next]_vars
        => (NonceKnown /\ Authorised /\ NonceAuthorisesOnce)'
<1> SUFFICES ASSUME TypeOK, Located, NonceKnown, Authorised, NonceAuthorisesOnce, [Next]_vars
             PROVE  (NonceKnown /\ Authorised /\ NonceAuthorisesOnce)'
  OBVIOUS
<1>1. ASSUME NEW r \in Requests, Step(r)
      PROVE  (NonceKnown /\ Authorised /\ NonceAuthorisesOnce)'
  <2>1. CASE \E n \in Nonces : MintNonce(r, n) \/ ConsumeNonce(r, n)
    BY <2>1, MintNonceNonces, ConsumeNonceNonces
  <2>2. CASE ~ \E n \in Nonces : MintNonce(r, n) \/ ConsumeNonce(r, n)
    <3>1. UNCHANGED <<nonces, minted>>
      <4>1. CASE Moves(r)
        BY <4>1, MovesType DEF history
      <4>2. CASE ~Moves(r)
        BY <1>1, <2>2, <4>2
           DEF Step, Moves, SpendCode, CreateSession, IssueSetup, CommitEnable,
               DeleteSetup, CommitDisable, WriteCodes, history
      <4> QED  BY <4>1, <4>2
    <3> QED  BY <1>1, <2>2, <3>1, OnlyConsumed, NoncesKept
  <2> QED  BY <2>1, <2>2
<1>2. CASE FindExpiredSetup \/ CleanUpSetup \/ Tick \/ UNCHANGED vars
  BY <1>2, NoncesKept DEF FindExpiredSetup, CleanUpSetup, Tick, vars, history
<1>3. ASSUME NEW n \in Nonces, CleanUp(n)
      PROVE  (NonceKnown /\ Authorised /\ NonceAuthorisesOnce)'
  BY <1>3 DEF CleanUp, NonceKnown, Authorised, NonceAuthorisesOnce, TypeOK, history
<1> QED  BY <1>1, <1>2, <1>3 DEF Next

-----------------------------------------------------------------------------
(* The theorems *)

LEMMA Inductive == Spec => []IInv
<1>1. Init => IInv
  BY InitType, InitLocated, InitCodes, InitNonces DEF IInv
<1>2. IInv /\ [Next]_vars => IInv'
  BY StepType, StepLocated, StepCodes, StepNonces DEF IInv
<1> QED  BY <1>1, <1>2, PTL DEF Spec

\* The user's documents and every request have the shape the code gives them.
THEOREM TypeCorrect == Spec => []TypeOK
<1>1. IInv => TypeOK
  BY DEF IInv
<1> QED  BY <1>1, Inductive, PTL

\* consumeMfaSetupNonce lets one setup through for each nonce, in the session it
\* was minted for and in time, whatever the number of requests and sessions.
THEOREM NoncesAreSingleUse == Spec => []NonceAuthorisesOnce
<1>1. IInv => NonceAuthorisesOnce
  BY DEF IInv
<1> QED  BY <1>1, Inductive, PTL

\* Until its setup is enabled again, a spent code stays spent: spending and
\* regenerating codes, by request or at the threshold, never makes it good again,
\* whatever the length of a list.  Enabling with the setup that brought it does.
THEOREM CodesAreSingleUse == Spec => []CodeSpentOnce
<1>1. IInv => CodeSpentOnce
  BY DEF IInv
<1> QED  BY <1>1, Inductive, PTL

\* MFA is in force exactly when its document is there, with more codes than the
\* threshold at which they are replaced.
THEOREM CodesNeverRunOut == Spec => []NeverRunsDry
<1>1. IInv => NeverRunsDry
  BY DEF IInv
<1> QED  BY <1>1, Inductive, PTL
=============================================================================
