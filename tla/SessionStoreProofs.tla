------------------------- MODULE SessionStoreProofs -------------------------
(* Theorems about SessionStore, for every value of its constants. *)
EXTENDS SessionStore, TLAPS

-----------------------------------------------------------------------------
(* Lemmas about the operators every action is built from *)

LEMMA FirstPage == 0 \in Pages
BY ConstantsAssumption DEF Pages

LEMMA GotoType ==
    ASSUME TypeOK, NEW r \in Requests, NEW pc \in Labels
    PROVE  Goto(r, pc) \in Request
BY DEF TypeOK, Goto, Request

LEMMA BecomeType ==
    ASSUME TypeOK, NEW r \in Requests, NEW next \in Request, Become(r, next)
    PROVE  req' \in [Requests -> Request]
BY DEF TypeOK, Become

LEMMA IdleRequestType == IdleRequest \in Request
BY FirstPage DEF IdleRequest, Request, Labels

LEMMA DeleteType ==
    ASSUME TypeOK, NEW gone
    PROVE  /\ Delete(families, gone) \in [Families -> Family \cup {None}]
           /\ Delete(refreshTokens, gone) \in [RefreshTokens -> RefreshToken \cup {None}]
           /\ Delete(sessions, gone) \in [AccessTokens -> Session \cup {None}]
BY DEF Delete, TypeOK

\* The budget is looked at before the next page is read.
LEMMA NextPage ==
    ASSUME NEW w, NEW gone, NEW page \in Pages, ~LastPage(w, gone, page)
    PROVE  page + 1 \in Pages
<1>1. MaxPages \in Nat /\ ~(page + 1 >= MaxPages)
  BY ConstantsAssumption DEF LastPage
<1> QED  BY <1>1 DEF Pages

LEMMA AfterPageType ==
    ASSUME TypeOK, NEW r \in Requests, NEW w, NEW gone, NEW next \in Request,
           AfterPage(r, w, gone, next)
    PROVE  req' \in [Requests -> Request]
<1>1. [next EXCEPT !.page = 0] \in Request
  BY FirstPage DEF Request
<1>2. ASSUME ~LastPage(w, gone, req[r].page)
      PROVE  [req[r] EXCEPT !.page = req[r].page + 1] \in Request
  <2>1. req[r].page \in Pages
    BY DEF Request, TypeOK
  <2>2. req[r].page + 1 \in Pages
    BY <1>2, <2>1, NextPage
  <2> QED  BY <2>2 DEF Request, TypeOK
<1> QED  BY <1>1, <1>2, BecomeType DEF AfterPage

-----------------------------------------------------------------------------
(* Type correctness *)

LEMMA InitType == Init => TypeOK
<1> SUFFICES ASSUME Init PROVE TypeOK
  OBVIOUS
<1>1. req \in [Requests -> Request]
  BY IdleRequestType DEF Init
<1>2. job \in Job
  BY FirstPage DEF Init, IdleJob, Job
<1> QED  BY <1>1, <1>2 DEF Init, TypeOK

LEMMA LoginType ==
    ASSUME TypeOK, NEW r \in Requests, NEW u \in Users, NEW d \in Devices \cup {None},
           NEW m \in BOOLEAN, NEW tr \in BOOLEAN, NEW sweep \in BOOLEAN,
           Login(r, u, d, m, tr, sweep)
    PROVE  TypeOK'
<1> PICK f \in Fresh(Families), t \in Fresh(RefreshTokens) :
      /\ families' = [families EXCEPT ![f] =
           [user |-> u, device |-> d, hasMfa |-> m, trusted |-> m /\ tr,
            verifiedAt |-> IF m THEN now ELSE Never,
            expiresAt |-> now + RefreshLife, revoked |-> FALSE]]
      /\ refreshTokens' = [refreshTokens EXCEPT ![t] =
           [family |-> f, user |-> u, expiresAt |-> now + RefreshLife,
            used |-> FALSE, replacedBy |-> None]]
      /\ minted' = minted \cup {f, t}
      /\ Become(r, [Goto(r, IF d # None /\ sweep THEN "loggedIn" ELSE "issuing")
                      EXCEPT !.user = u, !.device = d, !.family = f, !.token = t])
  BY DEF Login
<1> f \in Families /\ t \in RefreshTokens
  BY DEF Fresh
<1>1. now + RefreshLife \in Nat
  BY ConstantsAssumption DEF TypeOK
<1>2. (m /\ tr) \in BOOLEAN
  OBVIOUS
<1>3. families' \in [Families -> Family \cup {None}]
  BY <1>1, <1>2 DEF Family, TypeOK
<1>4. refreshTokens' \in [RefreshTokens -> RefreshToken \cup {None}]
  BY <1>1 DEF RefreshToken, TypeOK
<1>5. req' \in [Requests -> Request]
  <2> DEFINE pc == IF d # None /\ sweep THEN "loggedIn" ELSE "issuing"
  <2>1. Goto(r, pc) \in Request
    BY GotoType DEF Labels
  <2>2. [Goto(r, pc) EXCEPT !.user = u, !.device = d, !.family = f, !.token = t] \in Request
    BY <2>1 DEF Request
  <2> QED  BY <2>2, BecomeType
<1>6. minted' \subseteq Ids
  BY DEF TypeOK, Ids
<1> QED  BY <1>3, <1>4, <1>5, <1>6 DEF TypeOK, Login

LEMMA SweepType ==
    ASSUME TypeOK, NEW r \in Requests,
           FindStaleFamilies(r) \/ SweepNextFamily(r) \/ SweepFails(r)
    PROVE  TypeOK'
<1>1. CASE FindStaleFamilies(r)
  <2> PICK stale \in SUBSET Families :
        Become(r, [Goto(r, IF stale = {} THEN "issuing" ELSE "sweeping") EXCEPT !.todo = stale])
    BY <1>1 DEF FindStaleFamilies
  <2>1. Goto(r, IF stale = {} THEN "issuing" ELSE "sweeping") \in Request
    BY GotoType DEF Labels
  <2>2. [Goto(r, IF stale = {} THEN "issuing" ELSE "sweeping") EXCEPT !.todo = stale] \in Request
    BY <2>1 DEF Request
  <2>3. req' \in [Requests -> Request]
    BY <2>2, BecomeType
  <2> QED  BY <2>3, <1>1 DEF FindStaleFamilies, TypeOK, docs, issued
<1>2. CASE SweepNextFamily(r)
  <2> PICK g \in req[r].todo :
        /\ families' = Delete(families, {g})
        /\ Become(r, [Goto(r, "childSessions") EXCEPT !.target = g])
    BY <1>2 DEF SweepNextFamily
  <2>1. g \in Families
    BY DEF TypeOK, Request
  <2>2. [Goto(r, "childSessions") EXCEPT !.target = g] \in Request
    BY <2>1, GotoType DEF Labels, Request
  <2>3. req' \in [Requests -> Request]
    BY <2>2, BecomeType
  <2>4. families' \in [Families -> Family \cup {None}]
    BY DeleteType
  <2> QED  BY <2>3, <2>4, <1>2 DEF SweepNextFamily, TypeOK, issued
<1>3. CASE SweepFails(r)
  <2> Goto(r, "issuing") \in Request
    BY GotoType DEF Labels
  <2>1. [Goto(r, "issuing") EXCEPT !.todo = {}, !.target = None, !.page = 0] \in Request
    BY FirstPage DEF Request
  <2>2. req' \in [Requests -> Request]
    BY <1>3, <2>1, BecomeType DEF SweepFails
  <2> QED  BY <2>2, <1>3 DEF SweepFails, TypeOK, docs, issued
<1> QED  BY <1>1, <1>2, <1>3

\* What a request carries on its way to CreateAccessToken.
Carries(q) == q.user # None /\ q.family # None /\ q.token # None

Issuer(q) ==
    \/ q.pc \in {"loggedIn", "sweeping", "issuing"}
    \/ q.pc \in {"childSessions", "childTokens"} /\ q.target # q.family

IssuerCarries == \A r \in Requests : Issuer(req[r]) => Carries(req[r])

LEMMA CreateAccessTokenType ==
    ASSUME TypeOK, IssuerCarries, NEW r \in Requests, CreateAccessToken(r)
    PROVE  TypeOK'
<1> PICK a \in Fresh(AccessTokens) :
      /\ sessions' = [sessions EXCEPT ![a] =
           [family |-> req[r].family, user |-> req[r].user, expiresAt |-> now + AccessLife]]
      /\ minted' = minted \cup {a}
  BY DEF CreateAccessToken
<1>1. /\ req[r].family \in Families
      /\ req[r].user \in Users
      /\ req[r].token \in RefreshTokens
  BY DEF TypeOK, IssuerCarries, Issuer, Carries, CreateAccessToken, Request
<1>2. now + AccessLife \in Nat
  BY ConstantsAssumption DEF TypeOK
<1>3. sessions' \in [AccessTokens -> Session \cup {None}]
  BY <1>1, <1>2 DEF Session, TypeOK, Fresh
<1>4. minted' \subseteq Ids /\ delivered' \subseteq RefreshTokens
  BY <1>1 DEF TypeOK, CreateAccessToken, Ids, Fresh
<1>5. req' \in [Requests -> Request]
  BY IdleRequestType, BecomeType DEF CreateAccessToken
<1> QED  BY <1>3, <1>4, <1>5 DEF TypeOK, CreateAccessToken

LEMMA ChildrenDeletedType ==
    ASSUME TypeOK, NEW r \in Requests
    PROVE  ChildrenDeleted(r) \in Request
<1> DEFINE rest == req[r].todo \ {req[r].target}
<1>1. rest \in SUBSET Families
  BY DEF TypeOK, Request
<1>2. Goto(r, IF rest = {} THEN "issuing" ELSE "sweeping") \in Request
  BY GotoType DEF Labels
<1>3. [Goto(r, IF rest = {} THEN "issuing" ELSE "sweeping")
         EXCEPT !.todo = rest, !.target = None] \in Request
  BY ZenonT(60), <1>1, <1>2 DEF Request
<1> QED  BY <1>3, IdleRequestType DEF ChildrenDeleted

LEMMA DeleteChildrenType ==
    ASSUME TypeOK, NEW r \in Requests, DeleteChildSessions(r) \/ DeleteChildTokens(r)
    PROVE  TypeOK'
<1>1. CASE DeleteChildSessions(r)
  <2>1. Goto(r, "childTokens") \in Request
    BY GotoType DEF Labels
  <2>2. req' \in [Requests -> Request]
    BY <1>1, <2>1, AfterPageType DEF DeleteChildSessions
  <2>3. sessions' \in [AccessTokens -> Session \cup {None}]
    BY <1>1, DeleteType DEF DeleteChildSessions
  <2> QED  BY <2>2, <2>3, <1>1 DEF DeleteChildSessions, TypeOK, issued
<1>2. CASE DeleteChildTokens(r)
  <2>1. ChildrenDeleted(r) \in Request
    BY ChildrenDeletedType
  <2>2. req' \in [Requests -> Request]
    BY <1>2, <2>1, AfterPageType DEF DeleteChildTokens
  <2>3. refreshTokens' \in [RefreshTokens -> RefreshToken \cup {None}]
    BY <1>2, DeleteType DEF DeleteChildTokens
  <2> QED  BY <2>2, <2>3, <1>2 DEF DeleteChildTokens, TypeOK, issued
<1> QED  BY <1>1, <1>2

\* The family of a refresh in progress, and the documents it reads.
LEMMA RefreshingType ==
    ASSUME TypeOK, NEW r \in Requests, Refreshing(r)
    PROVE  /\ req[r].token \in RefreshTokens
           /\ refreshTokens[req[r].token] \in RefreshToken
           /\ refreshTokens[req[r].token].family \in Families
           /\ families[refreshTokens[req[r].token].family] \in Family
<1>1. req[r].token \in RefreshTokens /\ refreshTokens[req[r].token] \in RefreshToken
  BY DEF Refreshing, Exists, TypeOK, Request
<1>2. refreshTokens[req[r].token].family \in Families
  BY <1>1 DEF RefreshToken
<1> QED  BY <1>1, <1>2 DEF Refreshing, Exists, TypeOK

LEMMA RefreshType ==
    ASSUME TypeOK, NEW r \in Requests,
           \/ \E t \in RefreshTokens, a \in AccessTokens \cup {None} : BeginRefresh(r, t, a)
           \/ TokenReused(r) \/ TokenExpired(r) \/ Rotate(r)
    PROVE  TypeOK'
<1> DEFINE t == req[r].token
           f == refreshTokens[t].family
<1>1. ASSUME NEW t0 \in RefreshTokens, NEW a \in AccessTokens \cup {None},
             BeginRefresh(r, t0, a)
      PROVE  TypeOK'
  <2>1. Goto(r, "refreshing") \in Request
    BY GotoType DEF Labels
  <2>2. [Goto(r, "refreshing") EXCEPT !.token = t0, !.access = a, !.at = now] \in Request
    BY <2>1 DEF Request, TypeOK
  <2>3. req' \in [Requests -> Request]
    BY <1>1, <2>2, BecomeType DEF BeginRefresh
  <2> QED  BY <2>3, <1>1 DEF BeginRefresh, TypeOK, docs, issued
<1>2. CASE TokenReused(r)
  <2>1. Refreshing(r)
    BY <1>2 DEF TokenReused
  <2>2. [families[f] EXCEPT !.revoked = TRUE] \in Family
    BY <2>1, RefreshingType DEF Family
  <2>3. families' \in [Families -> Family \cup {None}]
    BY <1>2, <2>2 DEF TokenReused, TypeOK
  <2>4. req' \in [Requests -> Request]
    BY <1>2, IdleRequestType, BecomeType DEF TokenReused
  <2>5. sessions' \in [AccessTokens -> Session \cup {None}]
    BY <1>2, DeleteType DEF TokenReused
  <2> QED  BY <2>3, <2>4, <2>5, <1>2 DEF TokenReused, TypeOK, issued
<1>3. CASE TokenExpired(r)
  <2>1. req' \in [Requests -> Request]
    BY <1>3, IdleRequestType, BecomeType DEF TokenExpired
  <2>2. /\ families' \in [Families -> Family \cup {None}]
        /\ refreshTokens' \in [RefreshTokens -> RefreshToken \cup {None}]
        /\ sessions' \in [AccessTokens -> Session \cup {None}]
    BY <1>3, DeleteType DEF TokenExpired
  <2> QED  BY <2>1, <2>2, <1>3 DEF TokenExpired, TypeOK, issued
<1>4. CASE Rotate(r)
  <2> DEFINE expiresAt == req[r].at + RefreshLife
  <2>1. Refreshing(r)
    BY <1>4 DEF Rotate, MayRotate
  <2>2. expiresAt \in Nat
    BY ConstantsAssumption DEF TypeOK, Request
  <2> PICK t2 \in Fresh(RefreshTokens) :
        /\ refreshTokens' =
             [refreshTokens EXCEPT
                ![t].used = TRUE, ![t].replacedBy = t2,
                ![t2] = [family |-> f, user |-> families[f].user,
                         expiresAt |-> expiresAt, used |-> FALSE, replacedBy |-> None]]
        /\ minted' = minted \cup {t2}
        /\ Become(r, [IdleRequest EXCEPT !.pc = "issuing", !.family = f,
                        !.user = families[f].user, !.token = t2])
    BY <1>4 DEF Rotate
  <2>3. families[f].user \in Users /\ t2 \in RefreshTokens
    BY <2>1, RefreshingType DEF Family, Fresh
  <2>4. [refreshTokens[t] EXCEPT !.used = TRUE, !.replacedBy = t2] \in RefreshToken
    BY <2>1, <2>3, RefreshingType DEF RefreshToken
  <2>5. [family |-> f, user |-> families[f].user, expiresAt |-> expiresAt,
         used |-> FALSE, replacedBy |-> None] \in RefreshToken
    BY <2>1, <2>2, <2>3, RefreshingType DEF RefreshToken
  <2>6. refreshTokens' \in [RefreshTokens -> RefreshToken \cup {None}]
    BY <2>1, <2>3, <2>4, <2>5, RefreshingType DEF TypeOK
  <2>7. [families[f] EXCEPT !.expiresAt = expiresAt] \in Family
    BY <2>1, <2>2, RefreshingType DEF Family
  <2>8. families' \in [Families -> Family \cup {None}]
    BY <1>4, <2>7 DEF Rotate, TypeOK
  <2>9. sessions' \in [AccessTokens -> Session \cup {None}]
    BY <1>4, DeleteType DEF Rotate
  <2>10. [IdleRequest EXCEPT !.pc = "issuing", !.family = f,
            !.user = families[f].user, !.token = t2] \in Request
    BY <2>1, <2>3, RefreshingType, IdleRequestType DEF Request, Labels
  <2>11. req' \in [Requests -> Request]
    BY <2>10, BecomeType
  <2> QED  BY <2>3, <2>6, <2>8, <2>9, <2>11, <1>4 DEF Rotate, TypeOK, Ids
<1> QED  BY <1>1, <1>2, <1>3, <1>4

LEMMA ValidateType ==
    ASSUME TypeOK, NEW r \in Requests,
           \/ \E a \in AccessTokens : Authenticate(r, a)
           \/ CheckFamily(r) \/ DropAccessSession(r)
    PROVE  TypeOK'
<1>1. ASSUME NEW a \in AccessTokens, Authenticate(r, a)
      PROVE  TypeOK'
  <2> DEFINE pc == IF sessions[a].expiresAt < now THEN "rejecting" ELSE "authenticating"
  <2>1. sessions[a].user \in Users /\ sessions[a].family \in Families
    BY <1>1 DEF Authenticate, Exists, TypeOK, Session
  <2>2. Goto(r, pc) \in Request
    BY GotoType DEF Labels
  <2>3. [Goto(r, pc) EXCEPT !.access = a, !.user = sessions[a].user,
                            !.family = sessions[a].family] \in Request
    <3> HIDE DEF pc
    <3> QED  BY <2>1, <2>2 DEF Request
  <2>4. req' \in [Requests -> Request]
    BY <1>1, <2>3, BecomeType DEF Authenticate
  <2> QED  BY <2>4, <1>1 DEF Authenticate, TypeOK, docs, issued
<1>2. CASE CheckFamily(r)
  <2>1. Goto(r, "authed") \in Request /\ Goto(r, "rejecting") \in Request
    BY GotoType DEF Labels
  <2>2. [Goto(r, "authed") EXCEPT !.access = None] \in Request
    BY <2>1 DEF Request
  <2>3. \/ Become(r, [Goto(r, "authed") EXCEPT !.access = None])
        \/ Become(r, Goto(r, "rejecting"))
    BY <1>2 DEF CheckFamily
  <2>4. req' \in [Requests -> Request]
    BY <2>1, <2>2, <2>3, BecomeType
  <2> QED  BY <2>4, <1>2 DEF CheckFamily, TypeOK, docs, issued
<1>3. CASE DropAccessSession(r)
  <2>1. req' \in [Requests -> Request]
    BY <1>3, IdleRequestType, BecomeType DEF DropAccessSession
  <2>2. sessions' \in [AccessTokens -> Session \cup {None}]
    BY <1>3, DeleteType DEF DropAccessSession
  <2> QED  BY <2>1, <2>2, <1>3 DEF DropAccessSession, TypeOK, issued
<1> QED  BY <1>1, <1>2, <1>3

LEMMA FamilyMutationType ==
    ASSUME TypeOK, NEW r \in Requests,
           \/ \E update \in {"verify", "trust", "untrust"} : ReadOwnedFamily(r, update)
           \/ UpdateFamily(r) \/ SignOut(r)
    PROVE  TypeOK'
<1> DEFINE f == req[r].family
<1>1. ASSUME NEW update \in {"verify", "trust", "untrust"}, ReadOwnedFamily(r, update)
      PROVE  TypeOK'
  <2>1. Goto(r, "writing") \in Request
    BY GotoType DEF Labels
  <2>2. [Goto(r, "writing") EXCEPT !.update = update, !.at = now] \in Request
    BY <2>1 DEF Request, TypeOK
  <2>3. req' \in [Requests -> Request]
    BY <1>1, <2>2, BecomeType DEF ReadOwnedFamily
  <2> QED  BY <2>3, <1>1 DEF ReadOwnedFamily, TypeOK, docs, issued
<1>2. CASE UpdateFamily(r)
  <2>1. f \in Families /\ families[f] \in Family
    BY <1>2 DEF UpdateFamily, Exists, TypeOK, Request
  <2> DEFINE verifiedAt == IF families[f].hasMfa THEN req[r].at ELSE Never
             trusted == IF req[r].update = "verify" THEN families[f].trusted
                        ELSE families[f].hasMfa /\ req[r].update = "trust"
  <2>2. verifiedAt \in Nat \cup {Never}
    BY DEF TypeOK, Request
  <2>3. trusted \in BOOLEAN
    BY <2>1 DEF Family
  <2>4. [families[f] EXCEPT !.verifiedAt = verifiedAt, !.trusted = trusted] \in Family
    BY <2>1, <2>2, <2>3 DEF Family
  <2>5. families' = [families EXCEPT ![f] = [families[f] EXCEPT !.verifiedAt = verifiedAt,
                                                               !.trusted = trusted]]
    BY <1>2, <2>1 DEF UpdateFamily, TypeOK
  <2>6. families' \in [Families -> Family \cup {None}]
    BY <2>4, <2>5 DEF TypeOK
  <2>7. Goto(r, "authed") \in Request
    BY GotoType DEF Labels
  <2>8. [Goto(r, "authed") EXCEPT !.update = "none", !.at = 0] \in Request
    BY <2>7 DEF Request
  <2>9. \/ Become(r, [Goto(r, "authed") EXCEPT !.update = "none", !.at = 0])
        \/ Become(r, IdleRequest)
    BY <1>2 DEF UpdateFamily
  <2>10. req' \in [Requests -> Request]
    BY <2>8, <2>9, IdleRequestType, BecomeType
  <2> QED  BY <2>6, <2>10, <1>2 DEF UpdateFamily, TypeOK, issued
<1>3. CASE SignOut(r)
  <2>1. f \in Families
    BY <1>3 DEF SignOut, Exists, TypeOK, Request
  <2>2. Goto(r, "childSessions") \in Request
    BY GotoType DEF Labels
  <2>3. [Goto(r, "childSessions") EXCEPT !.target = f] \in Request
    BY <2>1, <2>2 DEF Request
  <2>4. req' \in [Requests -> Request]
    BY <1>3, <2>3, BecomeType DEF SignOut
  <2>5. families' \in [Families -> Family \cup {None}]
    BY <1>3, DeleteType DEF SignOut
  <2> QED  BY <2>4, <2>5, <1>3 DEF SignOut, TypeOK, issued
<1> QED  BY <1>1, <1>2, <1>3

LEMMA RevokeType ==
    ASSUME TypeOK, NEW r \in Requests,
           \/ \E spared \in Families \cup {None} : BeginRevokeAll(r, spared)
           \/ RevokeSessions(r) \/ RevokeFamilies(r) \/ RevokeTokens(r) \/ EndRequest(r)
    PROVE  TypeOK'
<1>1. ASSUME NEW spared \in Families \cup {None}, BeginRevokeAll(r, spared)
      PROVE  TypeOK'
  <2> DEFINE prior == {f \in Families \ {spared} : /\ Exists(families, f)
                                                   /\ families[f].user = req[r].user}
  <2>1. Goto(r, "revokeSessions") \in Request
    BY GotoType DEF Labels
  <2>2. [Goto(r, "revokeSessions") EXCEPT !.target = spared, !.prior = prior] \in Request
    BY <2>1 DEF Request
  <2>3. req' \in [Requests -> Request]
    BY <1>1, <2>2, BecomeType DEF BeginRevokeAll
  <2> QED  BY <2>3, <1>1 DEF BeginRevokeAll, TypeOK, docs, issued
<1>2. CASE RevokeSessions(r)
  <2>1. Goto(r, "revokeFamilies") \in Request
    BY GotoType DEF Labels
  <2>2. req' \in [Requests -> Request]
    BY <1>2, <2>1, AfterPageType DEF RevokeSessions
  <2>3. sessions' \in [AccessTokens -> Session \cup {None}]
    BY <1>2, DeleteType DEF RevokeSessions
  <2> QED  BY <2>2, <2>3, <1>2 DEF RevokeSessions, TypeOK, issued
<1>3. CASE RevokeFamilies(r)
  <2>1. Goto(r, "revokeTokens") \in Request
    BY GotoType DEF Labels
  <2>2. req' \in [Requests -> Request]
    BY <1>3, <2>1, AfterPageType DEF RevokeFamilies
  <2>3. families' \in [Families -> Family \cup {None}]
    BY <1>3, DeleteType DEF RevokeFamilies
  <2> QED  BY <2>2, <2>3, <1>3 DEF RevokeFamilies, TypeOK, issued
<1>4. CASE RevokeTokens(r)
  <2>1. Goto(r, "revoked") \in Request
    BY GotoType DEF Labels
  <2>2. req' \in [Requests -> Request]
    BY <1>4, <2>1, AfterPageType DEF RevokeTokens
  <2>3. refreshTokens' \in [RefreshTokens -> RefreshToken \cup {None}]
    BY <1>4, DeleteType DEF RevokeTokens
  <2> QED  BY <2>2, <2>3, <1>4 DEF RevokeTokens, TypeOK, issued
<1>5. CASE EndRequest(r)
  <2>1. req' \in [Requests -> Request]
    BY <1>5, IdleRequestType, BecomeType DEF EndRequest
  <2> QED  BY <2>1, <1>5 DEF EndRequest, TypeOK, docs, issued
<1> QED  BY <1>1, <1>2, <1>3, <1>4, <1>5

LEMMA JobType ==
    ASSUME TypeOK, JobStep
    PROVE  TypeOK'
<1>1. IdleJob \in Job
  BY FirstPage DEF IdleJob, Job
<1>2. ASSUME NEW phase \in JobPhases
      PROVE  AfterPhase(phase) \in Job
  BY <1>1, FirstPage DEF AfterPhase, JobPhases, Job, TypeOK
<1>3. CASE StartJob
  BY <1>3 DEF StartJob, TypeOK, Job, JobPhases, docs, issued
<1>4. CASE JobReadsPage
  <2>1. job.pc \in JobPhases
    BY <1>4 DEF JobReadsPage, TypeOK, Job
  <2> PICK w \in Windows(ExpiredAt(Collection(job.pc), job.at)) :
        job' = IF w = {} THEN AfterPhase(job.pc) ELSE [job EXCEPT !.batch = w]
    BY <1>4 DEF JobReadsPage
  <2>2. DOMAIN Collection(job.pc) \subseteq Ids
    BY <2>1 DEF Collection, JobPhases, TypeOK, Ids
  <2>3. w \in SUBSET Ids
    BY <2>2 DEF Windows, ExpiredAt
  <2>4. [job EXCEPT !.batch = w] \in Job
    BY <2>3 DEF TypeOK, Job
  <2>5. job' \in Job
    BY <1>2, <2>1, <2>4
  <2> QED  BY <2>5, <1>4 DEF JobReadsPage, TypeOK, docs, issued
<1>5. CASE JobDeletesPage
  <2>1. job.pc \in JobPhases
    BY <1>5 DEF JobDeletesPage, TypeOK, Job
  <2>2. ASSUME ~LastPage(job.batch, job.batch, job.page)
        PROVE  [job EXCEPT !.batch = {}, !.page = job.page + 1] \in Job
    <3>1. job.page \in Pages /\ {} \in SUBSET Ids
      BY DEF TypeOK, Job
    <3>2. job.page + 1 \in Pages
      BY <2>2, <3>1, NextPage
    <3> QED  BY <3>1, <3>2 DEF TypeOK, Job
  <2>3. job' \in Job
    BY <1>2, <1>5, <2>1, <2>2 DEF JobDeletesPage
  <2>4. /\ families' \in [Families -> Family \cup {None}]
        /\ refreshTokens' \in [RefreshTokens -> RefreshToken \cup {None}]
        /\ sessions' \in [AccessTokens -> Session \cup {None}]
    BY <1>5, DeleteType DEF JobDeletesPage, TypeOK
  <2> QED  BY <2>3, <2>4, <1>5 DEF JobDeletesPage, TypeOK, issued
<1>6. CASE JobFails
  BY <1>1, <1>6 DEF JobFails, TypeOK, docs, issued
<1> QED  BY <1>3, <1>4, <1>5, <1>6 DEF JobStep

LEMMA NextType == TypeOK /\ IssuerCarries /\ [Next]_vars => TypeOK'
<1> SUFFICES ASSUME TypeOK, IssuerCarries, [Next]_vars
             PROVE  TypeOK'
  OBVIOUS
<1>1. CASE Tick
  BY <1>1 DEF Tick, TypeOK, docs, issued
<1>2. CASE JobStep
  BY <1>2, JobType
<1>3. ASSUME NEW r \in Requests, Step(r)
      PROVE  TypeOK'
  BY <1>3, LoginType, SweepType, CreateAccessTokenType, DeleteChildrenType, RefreshType,
     ValidateType, FamilyMutationType, RevokeType DEF Step
<1>4. CASE UNCHANGED vars
  BY <1>4 DEF vars, TypeOK
<1> QED  BY <1>1, <1>2, <1>3, <1>4 DEF Next

-----------------------------------------------------------------------------
(* What a request carries *)

LEMMA BecomeCarries ==
    ASSUME TypeOK, IssuerCarries, NEW r \in Requests, NEW next, Become(r, next),
           Issuer(next) => Carries(next)
    PROVE  IssuerCarries'
BY DEF TypeOK, IssuerCarries, Become, Issuer, Carries

LEMMA AfterPageCarries ==
    ASSUME TypeOK, IssuerCarries, NEW r \in Requests, NEW w, NEW gone, NEW next \in Request,
           AfterPage(r, w, gone, next), Issuer(next) => Carries(next)
    PROVE  IssuerCarries'
<1>1. LET q == [next EXCEPT !.page = 0] IN Issuer(q) => Carries(q)
  BY DEF Issuer, Carries, Request
<1>2. LET q == [req[r] EXCEPT !.page = req[r].page + 1] IN Issuer(q) => Carries(q)
  BY DEF Issuer, Carries, Request, IssuerCarries, TypeOK
<1> QED  BY <1>1, <1>2, BecomeCarries DEF AfterPage

LEMMA IdleCarries == Issuer(IdleRequest) => Carries(IdleRequest)
BY DEF Issuer, IdleRequest

LEMMA LoginCarries ==
    ASSUME TypeOK, IssuerCarries, NEW r \in Requests, NEW u \in Users,
           NEW d \in Devices \cup {None}, NEW m \in BOOLEAN, NEW tr \in BOOLEAN,
           NEW sweep \in BOOLEAN, Login(r, u, d, m, tr, sweep)
    PROVE  IssuerCarries'
<1> DEFINE pc == IF d # None /\ sweep THEN "loggedIn" ELSE "issuing"
<1> PICK f \in Fresh(Families), t \in Fresh(RefreshTokens) :
      Become(r, [Goto(r, pc) EXCEPT !.user = u, !.device = d, !.family = f, !.token = t])
  BY DEF Login
<1>1. Goto(r, pc) \in Request
  BY GotoType DEF Labels
<1>2. u # None /\ f # None /\ t # None
  BY ConstantsAssumption DEF Fresh, Ids
<1>3. Carries([Goto(r, pc) EXCEPT !.user = u, !.device = d, !.family = f, !.token = t])
  BY <1>1, <1>2 DEF Carries, Request
<1> QED  BY <1>3, BecomeCarries

LEMMA SweepCarries ==
    ASSUME TypeOK, IssuerCarries, NEW r \in Requests,
           FindStaleFamilies(r) \/ SweepNextFamily(r) \/ SweepFails(r)
    PROVE  IssuerCarries'
<1>1. Carries(req[r]) /\ req[r] \in Request
  BY DEF FindStaleFamilies, SweepNextFamily, SweepFails, IssuerCarries, Issuer, TypeOK
<1>2. CASE FindStaleFamilies(r)
  <2> PICK stale : Become(r, [Goto(r, IF stale = {} THEN "issuing" ELSE "sweeping")
                                EXCEPT !.todo = stale])
    BY <1>2 DEF FindStaleFamilies
  <2>1. Carries([Goto(r, IF stale = {} THEN "issuing" ELSE "sweeping") EXCEPT !.todo = stale])
    BY <1>1 DEF Carries, Request, Goto
  <2> QED  BY <2>1, BecomeCarries
<1>3. CASE SweepNextFamily(r)
  <2> PICK g \in req[r].todo : Become(r, [Goto(r, "childSessions") EXCEPT !.target = g])
    BY <1>3 DEF SweepNextFamily
  <2>1. Carries([Goto(r, "childSessions") EXCEPT !.target = g])
    BY <1>1 DEF Carries, Request, Goto
  <2> QED  BY <2>1, BecomeCarries
<1>4. CASE SweepFails(r)
  <2>1. Carries([Goto(r, "issuing") EXCEPT !.todo = {}, !.target = None, !.page = 0])
    BY <1>1 DEF Carries, Request, Goto
  <2> QED  BY <1>4, <2>1, BecomeCarries DEF SweepFails
<1> QED  BY <1>2, <1>3, <1>4

LEMMA DeleteChildrenCarries ==
    ASSUME TypeOK, IssuerCarries, NEW r \in Requests,
           DeleteChildSessions(r) \/ DeleteChildTokens(r)
    PROVE  IssuerCarries'
<1>1. /\ req[r].target # req[r].family => Carries(req[r])
      /\ req[r] \in Request
  BY DEF DeleteChildSessions, DeleteChildTokens, IssuerCarries, Issuer, TypeOK
<1>2. CASE DeleteChildSessions(r)
  <2>1. Goto(r, "childTokens") \in Request
    BY GotoType DEF Labels
  <2>2. Issuer(Goto(r, "childTokens")) => Carries(Goto(r, "childTokens"))
    BY <1>1 DEF Carries, Issuer, Request, Goto
  <2> QED  BY <1>2, <2>1, <2>2, AfterPageCarries DEF DeleteChildSessions
<1>3. CASE DeleteChildTokens(r)
  <2> DEFINE rest == req[r].todo \ {req[r].target}
  <2>1. ChildrenDeleted(r) \in Request
    BY ChildrenDeletedType
  <2>2. CASE req[r].target = req[r].family
    BY <1>3, <2>1, <2>2, IdleCarries, AfterPageCarries DEF DeleteChildTokens, ChildrenDeleted
  <2>3. CASE req[r].target # req[r].family
    <3>1. Carries([Goto(r, IF rest = {} THEN "issuing" ELSE "sweeping")
                     EXCEPT !.todo = rest, !.target = None])
      BY <1>1, <2>3 DEF Carries, Request, Goto
    <3> QED  BY <1>3, <2>1, <2>3, <3>1, AfterPageCarries DEF DeleteChildTokens, ChildrenDeleted
  <2> QED  BY <2>2, <2>3
<1> QED  BY <1>2, <1>3

LEMMA RefreshCarries ==
    ASSUME TypeOK, IssuerCarries, NEW r \in Requests,
           \/ \E t \in RefreshTokens, a \in AccessTokens \cup {None} : BeginRefresh(r, t, a)
           \/ TokenReused(r) \/ TokenExpired(r) \/ Rotate(r)
    PROVE  IssuerCarries'
<1>1. ASSUME NEW t \in RefreshTokens, NEW a \in AccessTokens \cup {None}, BeginRefresh(r, t, a)
      PROVE  IssuerCarries'
  <2>1. ~Issuer([Goto(r, "refreshing") EXCEPT !.token = t, !.access = a, !.at = now])
    BY DEF Issuer, Goto, TypeOK, Request
  <2> QED  BY <1>1, <2>1, BecomeCarries DEF BeginRefresh
<1>2. CASE TokenReused(r) \/ TokenExpired(r)
  BY <1>2, IdleCarries, BecomeCarries DEF TokenReused, TokenExpired
<1>3. CASE Rotate(r)
  <2> DEFINE f == refreshTokens[req[r].token].family
  <2> PICK t2 \in Fresh(RefreshTokens) :
        Become(r, [IdleRequest EXCEPT !.pc = "issuing", !.family = f,
                     !.user = families[f].user, !.token = t2])
    BY <1>3 DEF Rotate
  <2>1. Refreshing(r)
    BY <1>3 DEF Rotate, MayRotate
  <2>2. f \in Families /\ families[f].user \in Users /\ t2 \in RefreshTokens
    BY <2>1, RefreshingType DEF Family, Fresh
  <2>3. f # None /\ families[f].user # None /\ t2 # None
    BY <2>2, ConstantsAssumption DEF Ids
  <2>4. Carries([IdleRequest EXCEPT !.pc = "issuing", !.family = f,
                   !.user = families[f].user, !.token = t2])
    BY <2>3 DEF Carries, IdleRequest
  <2> QED  BY <2>4, BecomeCarries
<1> QED  BY <1>1, <1>2, <1>3

LEMMA SessionRouteCarries ==
    ASSUME TypeOK, IssuerCarries, NEW r \in Requests,
           \/ \E a \in AccessTokens : Authenticate(r, a)
           \/ CheckFamily(r) \/ DropAccessSession(r)
           \/ \E update \in {"verify", "trust", "untrust"} : ReadOwnedFamily(r, update)
           \/ UpdateFamily(r) \/ SignOut(r)
    PROVE  IssuerCarries'
<1>1. req[r] \in Request
  BY DEF TypeOK
<1>2. ASSUME NEW a \in AccessTokens, Authenticate(r, a)
      PROVE  IssuerCarries'
  <2> DEFINE pc == IF sessions[a].expiresAt < now THEN "rejecting" ELSE "authenticating"
  <2>1. ~Issuer([Goto(r, pc) EXCEPT !.access = a, !.user = sessions[a].user,
                                    !.family = sessions[a].family])
    BY <1>1 DEF Issuer, Goto, Request
  <2> QED  BY <1>2, <2>1, BecomeCarries DEF Authenticate
<1>3. CASE CheckFamily(r)
  <2>1. /\ ~Issuer([Goto(r, "authed") EXCEPT !.access = None])
        /\ ~Issuer(Goto(r, "rejecting"))
    BY <1>1 DEF Issuer, Goto, Request
  <2>2. \/ Become(r, [Goto(r, "authed") EXCEPT !.access = None])
        \/ Become(r, Goto(r, "rejecting"))
    BY <1>3 DEF CheckFamily
  <2> QED  BY <2>1, <2>2, BecomeCarries
<1>4. CASE DropAccessSession(r)
  BY <1>4, IdleCarries, BecomeCarries DEF DropAccessSession
<1>5. ASSUME NEW update \in {"verify", "trust", "untrust"}, ReadOwnedFamily(r, update)
      PROVE  IssuerCarries'
  <2>1. ~Issuer([Goto(r, "writing") EXCEPT !.update = update, !.at = now])
    BY <1>1 DEF Issuer, Goto, Request
  <2> QED  BY <1>5, <2>1, BecomeCarries DEF ReadOwnedFamily
<1>6. CASE UpdateFamily(r)
  <2>1. ~Issuer([Goto(r, "authed") EXCEPT !.update = "none", !.at = 0])
    BY <1>1 DEF Issuer, Goto, Request
  <2>2. \/ Become(r, [Goto(r, "authed") EXCEPT !.update = "none", !.at = 0])
        \/ Become(r, IdleRequest)
    BY <1>6 DEF UpdateFamily
  <2> QED  BY <2>1, <2>2, IdleCarries, BecomeCarries
<1>7. CASE SignOut(r)
  <2>1. ~Issuer([Goto(r, "childSessions") EXCEPT !.target = req[r].family])
    BY <1>1 DEF Issuer, Goto, Request
  <2> QED  BY <1>7, <2>1, BecomeCarries DEF SignOut
<1> QED  BY <1>2, <1>3, <1>4, <1>5, <1>6, <1>7

LEMMA RevokeCarries ==
    ASSUME TypeOK, IssuerCarries, NEW r \in Requests,
           \/ \E spared \in Families \cup {None} : BeginRevokeAll(r, spared)
           \/ RevokeSessions(r) \/ RevokeFamilies(r) \/ RevokeTokens(r) \/ EndRequest(r)
    PROVE  IssuerCarries'
<1>1. req[r] \in Request
  BY DEF TypeOK
<1>2. ASSUME NEW pc \in {"revokeFamilies", "revokeTokens", "revoked"}
      PROVE  Goto(r, pc) \in Request /\ ~Issuer(Goto(r, pc))
  <2>1. Goto(r, pc) \in Request
    BY GotoType DEF Labels
  <2>2. Goto(r, pc).pc = pc
    BY <1>1 DEF Goto, Request
  <2> QED  BY <2>1, <2>2 DEF Issuer
<1>3. ASSUME NEW spared \in Families \cup {None}, BeginRevokeAll(r, spared)
      PROVE  IssuerCarries'
  <2> PICK prior : Become(r, [Goto(r, "revokeSessions") EXCEPT !.target = spared,
                                                               !.prior = prior])
    BY <1>3 DEF BeginRevokeAll
  <2>1. ~Issuer([Goto(r, "revokeSessions") EXCEPT !.target = spared, !.prior = prior])
    BY <1>1 DEF Issuer, Goto, Request
  <2> QED  BY <2>1, BecomeCarries
<1>4. CASE RevokeSessions(r)
  BY <1>2, <1>4, AfterPageCarries DEF RevokeSessions
<1>5. CASE RevokeFamilies(r)
  BY <1>2, <1>5, AfterPageCarries DEF RevokeFamilies
<1>6. CASE RevokeTokens(r)
  BY <1>2, <1>6, AfterPageCarries DEF RevokeTokens
<1>7. CASE EndRequest(r)
  BY <1>7, IdleCarries, BecomeCarries DEF EndRequest
<1> QED  BY <1>3, <1>4, <1>5, <1>6, <1>7

LEMMA CreateAccessTokenCarries ==
    ASSUME TypeOK, IssuerCarries, NEW r \in Requests, CreateAccessToken(r)
    PROVE  IssuerCarries'
BY IdleCarries, BecomeCarries DEF CreateAccessToken

LEMMA NextCarries == TypeOK /\ IssuerCarries /\ [Next]_vars => IssuerCarries'
<1> SUFFICES ASSUME TypeOK, IssuerCarries, [Next]_vars
             PROVE  IssuerCarries'
  OBVIOUS
<1>1. CASE Tick \/ JobStep \/ UNCHANGED vars
  <2>1. UNCHANGED req
    BY <1>1 DEF Tick, JobStep, StartJob, JobReadsPage, JobDeletesPage, JobFails, vars
  <2> QED  BY <2>1 DEF IssuerCarries, Issuer, Carries
<1>2. ASSUME NEW r \in Requests, Step(r)
      PROVE  IssuerCarries'
  BY <1>2, LoginCarries, SweepCarries, CreateAccessTokenCarries, DeleteChildrenCarries,
     RefreshCarries, SessionRouteCarries, RevokeCarries DEF Step
<1> QED  BY <1>1, <1>2 DEF Next

LEMMA InitCarries == Init => IssuerCarries
BY DEF Init, IssuerCarries, Issuer, IdleRequest

\* Whatever requests are in flight, the three collections hold only well-formed
\* documents and every request only values of its route (all of SessionStore).
THEOREM TypeCorrect == Spec => []TypeOK
<1>1. Init => TypeOK /\ IssuerCarries
  BY InitType, InitCarries
<1>2. TypeOK /\ IssuerCarries /\ [Next]_vars => TypeOK' /\ IssuerCarries'
  BY NextType, NextCarries
<1> QED  BY <1>1, <1>2, PTL DEF Spec

-----------------------------------------------------------------------------
(* What a step does to the documents: it opens a family, or it rotates a   *)
(* token, or nothing grows.                                                *)

\* The ids found in documents are ids drawn before.
Recorded ==
    /\ \A f \in Families : families[f] # None => f \in minted
    /\ \A t \in RefreshTokens : refreshTokens[t] # None =>
         /\ t \in minted
         /\ refreshTokens[t].family \in minted
         /\ refreshTokens[t].replacedBy # None => refreshTokens[t].replacedBy \in minted

Opens(f, t) ==
    /\ f \in Families \ minted /\ t \in RefreshTokens \ minted
    /\ minted' = minted \cup {f, t}
    /\ Live(f)' /\ \A g \in Families \ {f} : families'[g] = families[g]
    /\ /\ refreshTokens'[t] # None
       /\ refreshTokens'[t].family = f
       /\ ~refreshTokens'[t].used
       /\ refreshTokens'[t].replacedBy = None
    /\ \A t1 \in RefreshTokens \ {t} : refreshTokens'[t1] = refreshTokens[t1]

Rotates(f, t, t2) ==
    /\ f \in Families /\ Live(f) /\ Live(f)'
    /\ \A g \in Families \ {f} : families'[g] = families[g]
    /\ t \in UnusedTokens(f)
    /\ t2 \in RefreshTokens \ minted
    /\ minted' = minted \cup {t2}
    /\ refreshTokens'[t] = [refreshTokens[t] EXCEPT !.used = TRUE, !.replacedBy = t2]
    /\ /\ refreshTokens'[t2] # None
       /\ refreshTokens'[t2].family = f
       /\ ~refreshTokens'[t2].used
       /\ refreshTokens'[t2].replacedBy = None
    /\ \A t1 \in RefreshTokens \ {t, t2} : refreshTokens'[t1] = refreshTokens[t1]

NothingGrows ==
    /\ \A f \in Families : /\ Exists(families, f)' => Exists(families, f)
                           /\ Live(f)' => Live(f)
    /\ \A t \in RefreshTokens : refreshTokens'[t] \in {refreshTokens[t], None}
    /\ \E as \in SUBSET AccessTokens : minted' = minted \cup as

LEMMA DeleteShrinks ==
    ASSUME TypeOK, NEW gone
    PROVE  /\ \A f \in Families : Delete(families, gone)[f] \in {families[f], None}
           /\ \A t \in RefreshTokens : Delete(refreshTokens, gone)[t] \in {refreshTokens[t], None}
BY DEF Delete, TypeOK

\* A step that deletes families or tokens, if it writes to them at all.
LEMMA ShrinkingStep ==
    ASSUME TypeOK, TypeOK',
           \A f \in Families : families'[f] \in {families[f], None},
           \A t \in RefreshTokens : refreshTokens'[t] \in {refreshTokens[t], None},
           \E as \in SUBSET AccessTokens : minted' = minted \cup as
    PROVE  NothingGrows
BY DEF NothingGrows, Exists, Live

LEMMA LoginOpens ==
    ASSUME TypeOK, NEW r \in Requests, NEW u \in Users, NEW d \in Devices \cup {None},
           NEW m \in BOOLEAN, NEW tr \in BOOLEAN, NEW sweep \in BOOLEAN,
           Login(r, u, d, m, tr, sweep)
    PROVE  \E f \in Families, t \in RefreshTokens : Opens(f, t)
<1> DEFINE family == [user |-> u, device |-> d, hasMfa |-> m, trusted |-> m /\ tr,
                      verifiedAt |-> IF m THEN now ELSE Never,
                      expiresAt |-> now + RefreshLife, revoked |-> FALSE]
<1> PICK f \in Fresh(Families), t \in Fresh(RefreshTokens) :
      /\ families' = [families EXCEPT ![f] = family]
      /\ refreshTokens' = [refreshTokens EXCEPT ![t] =
           [family |-> f, user |-> u, expiresAt |-> now + RefreshLife,
            used |-> FALSE, replacedBy |-> None]]
      /\ minted' = minted \cup {f, t}
  BY DEF Login
<1>1. f \in Families \ minted /\ t \in RefreshTokens \ minted
  BY DEF Fresh
<1>2. families'[f] = family /\ \A g \in Families \ {f} : families'[g] = families[g]
  BY <1>1 DEF TypeOK
<1>3. family \in Family /\ f # None
  <2>1. now + RefreshLife \in Nat
    BY ConstantsAssumption DEF TypeOK
  <2>2. (m /\ tr) \in BOOLEAN
    OBVIOUS
  <2> QED  BY <1>1, <2>1, <2>2, ConstantsAssumption DEF Family, TypeOK, Ids
<1>4. Live(f)'
  <2>1. family # None
    BY <1>3, NoneIsNoDocument
  <2>2. ~family.revoked
    OBVIOUS
  <2> HIDE DEF family
  <2> QED  BY <1>2, <1>3, <2>1, <2>2 DEF Live, Exists
<1>5. now + RefreshLife \in Nat /\ t # None
  BY <1>1, ConstantsAssumption DEF TypeOK, Ids
<1>6. [family |-> f, user |-> u, expiresAt |-> now + RefreshLife,
       used |-> FALSE, replacedBy |-> None] \in RefreshToken
  BY <1>1, <1>5 DEF RefreshToken
<1>7. refreshTokens'[t] = [family |-> f, user |-> u, expiresAt |-> now + RefreshLife,
                           used |-> FALSE, replacedBy |-> None]
  BY <1>1 DEF TypeOK
<1>8. \A t1 \in RefreshTokens \ {t} : refreshTokens'[t1] = refreshTokens[t1]
  BY <1>1 DEF TypeOK
<1>9. /\ refreshTokens'[t] # None
      /\ refreshTokens'[t].family = f
      /\ ~refreshTokens'[t].used
      /\ refreshTokens'[t].replacedBy = None
  <2>1. refreshTokens'[t] # None
    BY <1>6, <1>7, NoneIsNoDocument
  <2>2. ~refreshTokens'[t].used
    BY <1>7
  <2> QED  BY <1>7, <2>1, <2>2
<1>10. Opens(f, t)
  BY <1>1, <1>2, <1>4, <1>8, <1>9 DEF Opens
<1> QED  BY <1>1, <1>10

LEMMA RotateRotates ==
    ASSUME TypeOK, Recorded, NEW r \in Requests, Rotate(r)
    PROVE  \E f \in Families, t, t2 \in RefreshTokens : Rotates(f, t, t2)
<1>1. Refreshing(r)
  BY DEF Rotate, MayRotate
<1> PICK t \in RefreshTokens : t = req[r].token
  BY <1>1, RefreshingType
<1> PICK f \in Families : f = refreshTokens[t].family
  BY <1>1, RefreshingType
<1>2. /\ refreshTokens[t] # None /\ refreshTokens[t] \in RefreshToken
      /\ families[f] # None /\ families[f] \in Family
      /\ f # None /\ t # None
  BY <1>1, RefreshingType DEF Refreshing, Exists
<1>3. ~refreshTokens[t].used /\ ~families[f].revoked
  BY DEF Rotate, MayRotate
<1> DEFINE expiresAt == req[r].at + RefreshLife
           next == [family |-> f, user |-> families[f].user, expiresAt |-> expiresAt,
                    used |-> FALSE, replacedBy |-> None]
<1> PICK t2 \in Fresh(RefreshTokens) :
      /\ refreshTokens' = [refreshTokens EXCEPT ![t].used = TRUE, ![t].replacedBy = t2,
                                                ![t2] = next]
      /\ minted' = minted \cup {t2}
  BY DEF Rotate
<1>4. t2 \in RefreshTokens \ minted /\ t2 # t
  BY <1>2 DEF Fresh, Recorded
<1>5. expiresAt \in Nat
  BY ConstantsAssumption DEF TypeOK, Request
<1>6. Live(f) /\ t \in UnusedTokens(f)
  BY <1>2, <1>3 DEF Live, UnusedTokens, Exists
<1>7. Live(f)'
  <2>1. families'[f] = [families[f] EXCEPT !.expiresAt = expiresAt]
    BY <1>2 DEF TypeOK, Rotate
  <2>2. families'[f] \in Family
    BY <1>2, <1>5, <2>1 DEF Family
  <2>3. families'[f].revoked = families[f].revoked
    BY <1>2, <2>1 DEF Family
  <2>4. families'[f] # None
    BY <2>2, NoneIsNoDocument
  <2> QED  BY <1>2, <1>3, <2>3, <2>4 DEF Live, Exists
<1>8. \A g \in Families \ {f} : families'[g] = families[g]
  BY DEF Rotate, TypeOK
<1>9. refreshTokens'[t2] = next
  BY <1>4 DEF TypeOK
<1>10. refreshTokens'[t] = [refreshTokens[t] EXCEPT !.used = TRUE, !.replacedBy = t2]
  BY <1>2, <1>4 DEF TypeOK
<1>11. \A t1 \in RefreshTokens \ {t, t2} : refreshTokens'[t1] = refreshTokens[t1]
  BY <1>2, <1>4 DEF TypeOK
<1>12. next \in RefreshToken
  BY <1>2, <1>5 DEF Family, RefreshToken
<1>13. refreshTokens'[t2] # None /\ ~refreshTokens'[t2].used
  <2>1. refreshTokens'[t2] # None
    <3> HIDE DEF next
    <3> QED  BY <1>9, <1>12, NoneIsNoDocument
  <2>2. ~next.used
    OBVIOUS
  <2> HIDE DEF next
  <2> QED  BY <1>9, <2>1, <2>2
<1>14. refreshTokens'[t2].family = f /\ refreshTokens'[t2].replacedBy = None
  <2>1. next.family = f /\ next.replacedBy = None
    OBVIOUS
  <2> HIDE DEF next
  <2> QED  BY <1>9, <2>1
<1>15. Rotates(f, t, t2)
  <2> HIDE DEF next, expiresAt
  <2> QED  BY <1>4, <1>6, <1>7, <1>8, <1>10, <1>11, <1>13, <1>14 DEF Rotates
<1> QED  BY <1>4, <1>15

\* The writes of every other step.
LEMMA OtherStepsShrink ==
    ASSUME TypeOK, IssuerCarries, [Next]_vars,
           \A r \in Requests : ~Rotate(r),
           \A r \in Requests, u \in Users, d \in Devices \cup {None},
              m, tr, sweep \in BOOLEAN : ~Login(r, u, d, m, tr, sweep)
    PROVE  NothingGrows
<1> USE DeleteShrinks
<1>1. TypeOK'
  BY NextType
<1>2. ASSUME UNCHANGED <<families, refreshTokens, minted>>
      PROVE  NothingGrows
  <2>1. minted' = minted \cup {}
    BY <1>2
  <2> QED  BY <1>1, <1>2, <2>1, ShrinkingStep
<1>3. CASE Tick \/ UNCHANGED vars
  BY <1>2, <1>3 DEF Tick, docs, issued, vars
<1>4. CASE JobStep
  <2>1. CASE StartJob \/ JobReadsPage \/ JobFails
    BY <1>2, <2>1 DEF StartJob, JobReadsPage, JobFails, docs, issued
  <2>2. CASE JobDeletesPage
    <3>1. \A f \in Families : families'[f] \in {families[f], None}
      BY <2>2 DEF JobDeletesPage
    <3>2. \A t \in RefreshTokens : refreshTokens'[t] \in {refreshTokens[t], None}
      BY <2>2 DEF JobDeletesPage
    <3>3. minted' = minted \cup {}
      BY <2>2 DEF JobDeletesPage, issued
    <3> QED  BY <1>1, <3>1, <3>2, <3>3, ShrinkingStep
  <2> QED  BY <1>4, <2>1, <2>2 DEF JobStep
<1>5. ASSUME NEW r \in Requests,
             \/ FindStaleFamilies(r) \/ SweepFails(r) \/ DeleteChildSessions(r)
             \/ \E t \in RefreshTokens, a \in AccessTokens \cup {None} : BeginRefresh(r, t, a)
             \/ \E a \in AccessTokens : Authenticate(r, a)
             \/ CheckFamily(r) \/ DropAccessSession(r)
             \/ \E update \in {"verify", "trust", "untrust"} : ReadOwnedFamily(r, update)
             \/ \E spared \in Families \cup {None} : BeginRevokeAll(r, spared)
             \/ RevokeSessions(r) \/ EndRequest(r)
      PROVE  NothingGrows
  <2>1. UNCHANGED <<families, refreshTokens, minted>>
    BY <1>5 DEF FindStaleFamilies, SweepFails, DeleteChildSessions, BeginRefresh, Authenticate,
         CheckFamily, DropAccessSession, ReadOwnedFamily, BeginRevokeAll, RevokeSessions,
         EndRequest, docs, issued
  <2> QED  BY <1>2, <2>1
<1>6. ASSUME NEW r \in Requests,
             \/ SweepNextFamily(r) \/ DeleteChildTokens(r) \/ TokenExpired(r) \/ SignOut(r)
             \/ RevokeFamilies(r) \/ RevokeTokens(r)
      PROVE  NothingGrows
  <2>1. \A f \in Families : families'[f] \in {families[f], None}
    BY <1>6 DEF SweepNextFamily, DeleteChildTokens, TokenExpired, SignOut, RevokeFamilies,
         RevokeTokens
  <2>2. \A t \in RefreshTokens : refreshTokens'[t] \in {refreshTokens[t], None}
    BY <1>6 DEF SweepNextFamily, DeleteChildTokens, TokenExpired, SignOut, RevokeFamilies,
         RevokeTokens
  <2>3. minted' = minted \cup {}
    BY <1>6 DEF SweepNextFamily, DeleteChildTokens, TokenExpired, SignOut, RevokeFamilies,
         RevokeTokens, issued
  <2> QED  BY <1>1, <2>1, <2>2, <2>3, ShrinkingStep
<1>7. ASSUME NEW r \in Requests, CreateAccessToken(r)
      PROVE  NothingGrows
  <2>1. UNCHANGED <<families, refreshTokens>>
    BY <1>7 DEF CreateAccessToken
  <2>2. \E as \in SUBSET AccessTokens : minted' = minted \cup as
    BY <1>7 DEF CreateAccessToken, Fresh
  <2> QED  BY <1>1, <2>1, <2>2, ShrinkingStep
<1>8. ASSUME NEW r \in Requests, TokenReused(r) \/ UpdateFamily(r)
      PROVE  NothingGrows
  <2>1. UNCHANGED <<refreshTokens, minted>>
    BY <1>8 DEF TokenReused, UpdateFamily, issued
  <2>2. ASSUME NEW f \in Families
        PROVE  /\ Exists(families, f)' => Exists(families, f)
               /\ Live(f)' => Live(f)
    <3>1. CASE TokenReused(r)
      <4>1. Refreshing(r)
        BY <3>1 DEF TokenReused
      <4> PICK g \in Families : /\ g = refreshTokens[req[r].token].family
                                /\ families[g] \in Family
        BY <4>1, RefreshingType
      <4>2. families[g] # None
        BY NoneIsNoDocument
      <4>3. families' = [families EXCEPT ![g] = [families[g] EXCEPT !.revoked = TRUE]]
        BY <3>1 DEF TokenReused
      <4>4. families'[g].revoked
        BY <4>3 DEF TypeOK, Family
      <4>5. f # g => families'[f] = families[f]
        BY <4>3 DEF TypeOK
      <4> QED  BY <4>2, <4>4, <4>5 DEF Exists, Live
    <3>2. CASE UpdateFamily(r)
      <4> PICK g \in Families : /\ g = req[r].family
                                /\ families[g] # None
        BY <3>2 DEF UpdateFamily, Exists, TypeOK, Request
      <4>1. families[g] \in Family
        BY DEF TypeOK
      <4> PICK at, trusted : families' = [families EXCEPT ![g].verifiedAt = at,
                                                          ![g].trusted = trusted]
        BY <3>2 DEF UpdateFamily
      <4>2. families'[g].revoked = families[g].revoked
        BY <4>1 DEF TypeOK, Family
      <4>3. f # g => families'[f] = families[f]
        BY DEF TypeOK
      <4> QED  BY <4>2, <4>3 DEF Exists, Live
    <3> QED  BY <1>8, <3>1, <3>2
  <2>3. minted' = minted \cup {}
    BY <2>1
  <2> QED  BY <2>1, <2>2, <2>3 DEF NothingGrows
<1> QED  BY <1>3, <1>4, <1>5, <1>6, <1>7, <1>8 DEF Next, Step

LEMMA StepShape ==
    ASSUME TypeOK, IssuerCarries, Recorded, [Next]_vars
    PROVE  \/ \E f \in Families, t \in RefreshTokens : Opens(f, t)
           \/ \E f \in Families, t, t2 \in RefreshTokens : Rotates(f, t, t2)
           \/ NothingGrows
BY LoginOpens, RotateRotates, OtherStepsShrink

-----------------------------------------------------------------------------
(* The chain of refresh tokens *)

LEMMA StepRecorded ==
    ASSUME TypeOK, IssuerCarries, Recorded, [Next]_vars
    PROVE  Recorded'
<1>1. ASSUME NEW f \in Families, NEW t \in RefreshTokens, Opens(f, t)
      PROVE  Recorded'
  BY <1>1 DEF Opens, Recorded
<1>2. ASSUME NEW f \in Families, NEW t \in RefreshTokens, NEW t2 \in RefreshTokens,
             Rotates(f, t, t2)
      PROVE  Recorded'
  <2>1. refreshTokens[t] \in RefreshToken /\ refreshTokens[t].family = f
    BY <1>2 DEF Rotates, UnusedTokens, Exists, TypeOK
  <2>2. refreshTokens'[t].family = f /\ refreshTokens'[t].replacedBy = t2
    BY <1>2, <2>1 DEF Rotates, RefreshToken
  <2>3. f \in minted /\ t \in minted
    BY <1>2 DEF Rotates, Live, Exists, Recorded, UnusedTokens
  <2>4. minted' = minted \cup {t2}
    BY <1>2 DEF Rotates
  <2>5. ASSUME NEW g \in Families, families'[g] # None PROVE g \in minted'
    <3>1. CASE g = f
      BY <2>3, <2>4, <3>1
    <3>2. CASE g # f
      BY <1>2, <2>4, <2>5, <3>2 DEF Rotates, Recorded
    <3> QED  BY <3>1, <3>2
  <2>6. ASSUME NEW t1 \in RefreshTokens, refreshTokens'[t1] # None
        PROVE  /\ t1 \in minted'
               /\ refreshTokens'[t1].family \in minted'
               /\ refreshTokens'[t1].replacedBy # None => refreshTokens'[t1].replacedBy \in minted'
    <3>1. CASE t1 = t
      BY <2>2, <2>3, <2>4, <3>1
    <3>2. CASE t1 = t2
      BY <1>2, <2>3, <2>4, <3>2 DEF Rotates
    <3>3. CASE t1 \notin {t, t2}
      <4>1. refreshTokens'[t1] = refreshTokens[t1]
        BY <1>2, <3>3 DEF Rotates
      <4> QED  BY <2>4, <2>6, <4>1 DEF Recorded
    <3> QED  BY <3>1, <3>2, <3>3
  <2> QED  BY <2>5, <2>6 DEF Recorded
<1>3. CASE NothingGrows
  <2>1. minted \subseteq minted'
    BY <1>3 DEF NothingGrows
  <2>2. \A f \in Families : families'[f] # None => f \in minted
    <3>1. \A f \in Families : f # None
      BY ConstantsAssumption DEF Ids
    <3> QED  BY <1>3, <3>1 DEF NothingGrows, Recorded, Exists
  <2>3. \A t \in RefreshTokens : refreshTokens'[t] # None => refreshTokens'[t] = refreshTokens[t]
    BY <1>3 DEF NothingGrows
  <2> QED  BY <2>1, <2>2, <2>3 DEF Recorded
<1> QED  BY <1>1, <1>2, <1>3, StepShape

LEMMA StepChain ==
    ASSUME TypeOK, IssuerCarries, Recorded, LinearChain, [Next]_vars
    PROVE  LinearChain'
<1>1. ASSUME NEW f \in Families, NEW t \in RefreshTokens, Opens(f, t)
      PROVE  LinearChain'
  <2>1. \A t1 \in RefreshTokens : refreshTokens[t1] # None => refreshTokens[t1].family # f
    BY <1>1 DEF Opens, Recorded
  <2> QED  BY <1>1, <2>1 DEF Opens, LinearChain, UnusedTokens, Exists
<1>2. ASSUME NEW f \in Families, NEW t \in RefreshTokens, NEW t2 \in RefreshTokens,
             Rotates(f, t, t2)
      PROVE  LinearChain'
  <2>1. refreshTokens[t] \in RefreshToken /\ refreshTokens[t].family = f
    BY <1>2 DEF Rotates, UnusedTokens, Exists, TypeOK
  <2>2. refreshTokens'[t].family = f /\ refreshTokens'[t].replacedBy = t2 /\ refreshTokens'[t].used
    BY <1>2, <2>1 DEF Rotates, RefreshToken
  <2>3. \A t1 \in RefreshTokens : refreshTokens[t1] # None => refreshTokens[t1].replacedBy # t2
    BY <1>2, ConstantsAssumption DEF Rotates, Recorded, Ids
  <2>4. \A g \in Families, t1 \in RefreshTokens \ {t2} :
          t1 \in UnusedTokens(g)' => t1 \in UnusedTokens(g) /\ t1 # t
    BY ZenonT(60), <1>2, <2>2 DEF Rotates, UnusedTokens, Exists
  <2>5. \A g \in Families : t2 \in UnusedTokens(g)' => g = f
    BY <1>2 DEF Rotates, UnusedTokens
  <2>6. \A g \in Families : \A t1, t3 \in UnusedTokens(g)' : t1 = t3
    <3> SUFFICES ASSUME NEW g \in Families, NEW t1 \in UnusedTokens(g)', NEW t3 \in UnusedTokens(g)'
                 PROVE  t1 = t3
      OBVIOUS
    <3>1. t1 \in RefreshTokens /\ t3 \in RefreshTokens
      BY DEF UnusedTokens
    <3>2. t \in UnusedTokens(f)
      BY <1>2 DEF Rotates
    <3> QED  BY <2>4, <2>5, <3>1, <3>2 DEF LinearChain
  <2>7. ASSUME NEW t1 \in RefreshTokens, NEW t3 \in RefreshTokens,
               Exists(refreshTokens, t1)', refreshTokens'[t1].replacedBy # None,
               Exists(refreshTokens, t3)',
               refreshTokens'[t1].replacedBy = refreshTokens'[t3].replacedBy
        PROVE  t1 = t3
    <3>1. t1 # t2 /\ t3 # t2
      BY <1>2, <2>7 DEF Rotates
    <3>2. CASE t1 = t \/ t3 = t
      BY ZenonT(60), <1>2, <2>2, <2>3, <2>7, <3>1, <3>2 DEF Rotates, Exists
    <3>3. CASE t1 # t /\ t3 # t
      BY <1>2, <2>7, <3>1, <3>3 DEF Rotates, LinearChain, Exists
    <3> QED  BY <3>2, <3>3
  <2> QED  BY <2>6, <2>7 DEF LinearChain
<1>3. CASE NothingGrows
  <2>1. \A t \in RefreshTokens : refreshTokens'[t] # None => refreshTokens'[t] = refreshTokens[t]
    BY <1>3 DEF NothingGrows
  <2> QED  BY <2>1 DEF LinearChain, UnusedTokens, Exists
<1> QED  BY <1>1, <1>2, <1>3, StepShape

\* The inductive invariant.
IInv == TypeOK /\ IssuerCarries /\ Recorded /\ LinearChain

LEMMA Inductive == Spec => []IInv
<1>1. Init => IInv
  <2> SUFFICES ASSUME Init PROVE IInv
    OBVIOUS
  <2>1. Recorded /\ LinearChain
    BY DEF Init, Recorded, LinearChain, UnusedTokens, Exists
  <2> QED  BY <2>1, InitType, InitCarries DEF IInv
<1>2. IInv /\ [Next]_vars => IInv'
  BY NextType, NextCarries, StepRecorded, StepChain DEF IInv
<1> QED  BY <1>1, <1>2, PTL DEF Spec

\* However many refreshes race, are retried or fail half way, a session family
\* has at most one usable refresh token and no token has two predecessors
\* (the transaction of rotateRefreshToken.ts).
THEOREM ChainIsLinear == Spec => []LinearChain
BY Inductive, PTL DEF IInv

-----------------------------------------------------------------------------
(* Revocation is final *)

LEMMA StepSticks ==
    ASSUME IInv, [Next]_vars, NEW f \in Families \cap minted, ~Live(f)
    PROVE  ~Live(f)' /\ UnusedTokens(f)' \subseteq UnusedTokens(f)
<1>1. ASSUME NEW g \in Families, NEW t \in RefreshTokens, Opens(g, t)
      PROVE  ~Live(f)' /\ UnusedTokens(f)' \subseteq UnusedTokens(f)
  <2>1. f # g
    BY <1>1 DEF Opens
  <2> QED  BY <1>1, <2>1 DEF Opens, Live, Exists, UnusedTokens
<1>2. ASSUME NEW g \in Families, NEW t \in RefreshTokens, NEW t2 \in RefreshTokens,
             Rotates(g, t, t2)
      PROVE  ~Live(f)' /\ UnusedTokens(f)' \subseteq UnusedTokens(f)
  <2>1. f # g
    BY <1>2 DEF Rotates
  <2>2. refreshTokens[t] \in RefreshToken /\ refreshTokens[t].family = g
    BY <1>2 DEF Rotates, UnusedTokens, Exists, TypeOK, IInv
  <2>3. refreshTokens'[t].family = g
    BY <1>2, <2>2 DEF Rotates, RefreshToken
  <2> QED  BY <1>2, <2>1, <2>3 DEF Rotates, Live, Exists, UnusedTokens
<1>3. CASE NothingGrows
  <2>1. \A t \in RefreshTokens : refreshTokens'[t] # None => refreshTokens'[t] = refreshTokens[t]
    BY <1>3 DEF NothingGrows
  <2>2. UnusedTokens(f)' \subseteq UnusedTokens(f)
    BY <2>1 DEF UnusedTokens, Exists
  <2>3. ~Live(f)'
    BY <1>3 DEF NothingGrows, Live, Exists
  <2> QED  BY <2>2, <2>3
<1> QED  BY <1>1, <1>2, <1>3, StepShape DEF IInv

\* A family that was revoked or deleted never becomes usable again and gains no
\* usable token: no trust change, MFA verification or rotation decided on an
\* older read undoes a revocation (sessionFamilyMutations.ts, rotateRefreshToken.ts).
THEOREM RevocationIsFinal == Spec => RevocationSticks
<1>1. IInv /\ [Next]_vars =>
        [\A f \in Families \cap minted : ~Live(f) =>
           /\ ~Live(f)'
           /\ UnusedTokens(f)' \subseteq UnusedTokens(f)]_vars
  BY StepSticks
<1> QED  BY <1>1, Inductive, PTL DEF Spec, RevocationSticks

-----------------------------------------------------------------------------
(* The records implement the ledger *)

\* The refinement mapping of Ledger, by name.
Status == [f \in Families |-> IF f \notin minted THEN "unborn"
                              ELSE IF Live(f) THEN "open" ELSE "closed"]
Heads == [f \in Families |-> UnusedTokens(f)]

LEMMA InitLedger == Init => Ledger!Init
<1> SUFFICES ASSUME Init PROVE Ledger!Init
  OBVIOUS
<1>1. \A f \in Families : UnusedTokens(f) = {} /\ f \notin minted
  BY DEF Init, UnusedTokens, Exists
<1> QED  BY <1>1 DEF Init, Ledger!Init

LEMMA OpenStep ==
    ASSUME IInv, NEW f \in Families, NEW t \in RefreshTokens, Opens(f, t)
    PROVE  Ledger!Open(f, t)
<1>1. Status[f] = "unborn" /\ t \notin minted \cap RefreshTokens
  BY DEF Opens, Status
<1>2. Status' = [Status EXCEPT ![f] = "open"]
  <2>1. f \in minted'
    BY DEF Opens
  <2>2. \A g \in Families \ {f} : /\ g \in minted' <=> g \in minted
                                  /\ Live(g)' <=> Live(g)
    BY ConstantsAssumption DEF Opens, Live, Exists
  <2>3. Live(f)'
    BY DEF Opens
  <2> QED  BY <2>1, <2>2, <2>3 DEF Status
<1>3. Heads' = [Heads EXCEPT ![f] = {t}]
  <2>1. t # None
    BY ConstantsAssumption DEF Ids
  <2>2. UnusedTokens(f)' = {t}
    <3>1. \A t1 \in RefreshTokens \ {t} : refreshTokens'[t1] # None => refreshTokens'[t1].family # f
      BY DEF Opens, IInv, Recorded
    <3> QED  BY <2>1, <3>1 DEF Opens, UnusedTokens, Exists
  <2>3. \A g \in Families \ {f} : UnusedTokens(g)' = UnusedTokens(g)
    <3>1. refreshTokens[t] = None
      BY DEF Opens, IInv, Recorded
    <3> QED  BY <3>1 DEF Opens, UnusedTokens, Exists
  <2> QED  BY <2>2, <2>3 DEF Heads
<1>4. (minted \cap RefreshTokens)' = (minted \cap RefreshTokens) \cup {t}
  BY ConstantsAssumption DEF Opens
<1> QED  BY <1>1, <1>2, <1>3, <1>4 DEF Ledger!Open, Status, Heads

LEMMA RotateStep ==
    ASSUME IInv, NEW f \in Families, NEW t \in RefreshTokens, NEW t2 \in RefreshTokens,
           Rotates(f, t, t2)
    PROVE  Ledger!Rotate(f, t, t2)
<1>1. Status[f] = "open" /\ t2 \notin minted \cap RefreshTokens
  BY DEF Rotates, Status, IInv, Recorded, Live, Exists
<1>2. Heads[f] = {t}
  BY DEF Rotates, Heads, IInv, LinearChain
<1>3. UNCHANGED Status
  <2>1. \A g \in Families : /\ g \in minted' <=> g \in minted
                            /\ Live(g)' <=> Live(g)
    BY ConstantsAssumption DEF Rotates, Live, Exists
  <2> QED  BY <2>1 DEF Status
<1>4. Heads' = [Heads EXCEPT ![f] = {t2}]
  <2>1. t2 # None
    BY ConstantsAssumption DEF Ids
  <2>2. refreshTokens[t] \in RefreshToken /\ refreshTokens[t].family = f
    BY DEF Rotates, UnusedTokens, Exists, TypeOK, IInv
  <2>3. refreshTokens'[t].family = f /\ refreshTokens'[t].used
    BY <2>2 DEF Rotates, RefreshToken
  <2>4. refreshTokens[t2] = None
    BY DEF Rotates, IInv, Recorded
  <2>5. \A g \in Families \ {f} : UnusedTokens(g)' = UnusedTokens(g)
    <3> SUFFICES ASSUME NEW g \in Families \ {f}, NEW t1 \in RefreshTokens
                 PROVE  t1 \in UnusedTokens(g)' <=> t1 \in UnusedTokens(g)
      BY DEF UnusedTokens
    <3>1. CASE t1 \in {t, t2}
      BY <2>2, <2>3, <2>4, <3>1 DEF Rotates, UnusedTokens, Exists
    <3>2. CASE t1 \notin {t, t2}
      BY <3>2 DEF Rotates, UnusedTokens, Exists
    <3> QED  BY <3>1, <3>2
  <2>6. UnusedTokens(f)' = {t2}
    <3>1. t2 \in UnusedTokens(f)'
      BY <2>1 DEF Rotates, UnusedTokens, Exists
    <3>2. ASSUME NEW t1 \in UnusedTokens(f)', t1 # t2
          PROVE  FALSE
      <4>1. t1 \in RefreshTokens \ {t, t2}
        BY <2>3, <3>2 DEF UnusedTokens
      <4>2. t1 \in UnusedTokens(f)
        BY <3>2, <4>1 DEF Rotates, UnusedTokens, Exists
      <4> QED  BY <1>2, <4>1, <4>2 DEF Heads
    <3> QED  BY <3>1, <3>2
  <2> QED  BY <2>5, <2>6 DEF Heads
<1>5. (minted \cap RefreshTokens)' = (minted \cap RefreshTokens) \cup {t2}
  BY ConstantsAssumption DEF Rotates
<1> QED  BY <1>1, <1>2, <1>3, <1>4, <1>5 DEF Ledger!Rotate, Status, Heads

LEMMA CloseStep ==
    ASSUME IInv, NothingGrows
    PROVE  \E fs \in SUBSET Families, ts \in SUBSET RefreshTokens : Ledger!Close(fs, ts)
<1> PICK fs \in SUBSET Families : fs = {f \in Families : Live(f) /\ ~Live(f)'}
  OBVIOUS
<1> PICK ts \in SUBSET RefreshTokens : ts = {t \in RefreshTokens : refreshTokens'[t] = None}
  OBVIOUS
<1>1. \A f \in Families : f \in minted' <=> f \in minted
  BY ConstantsAssumption DEF NothingGrows
<1>2. \A f \in Families : Live(f) => f \in minted
  BY DEF IInv, Recorded, Live, Exists
<1>3. \A f \in Families : Live(f)' => Live(f)
  BY DEF NothingGrows
<1>4. \A f \in fs : Status[f] = "open"
  BY <1>2 DEF Status
<1>5. Status' = [f \in Families |-> IF f \in fs THEN "closed" ELSE Status[f]]
  BY <1>1, <1>2, <1>3 DEF Status
<1>6. \A f \in Families : UnusedTokens(f)' = UnusedTokens(f) \ ts
  BY DEF NothingGrows, UnusedTokens, Exists
<1>7. Heads' = [f \in Families |-> Heads[f] \ ts]
  BY <1>6 DEF Heads
<1>8. UNCHANGED (minted \cap RefreshTokens)
  BY ConstantsAssumption DEF NothingGrows
<1>9. Ledger!Close(fs, ts)
  BY <1>4, <1>5, <1>7, <1>8 DEF Ledger!Close, Status, Heads
<1> QED  BY <1>9

LEMMA StepLedger == IInv /\ [Next]_vars => [Ledger!Next]_(Ledger!vars)
<1> SUFFICES ASSUME IInv, [Next]_vars PROVE Ledger!Next
  OBVIOUS
<1> QED  BY StepShape, OpenStep, RotateStep, CloseStep DEF IInv, Ledger!Next

\* Every write of every request and of the maintenance job is a step of the
\* ledger (SessionLedger): families open once, hand on one usable refresh token
\* at a time, close for good, whatever the number of requests and documents.
THEOREM ImplementsLedgerTheorem == Spec => ImplementsLedger
<1> QED  BY InitLedger, StepLedger, Inductive, PTL DEF Spec, ImplementsLedger, Ledger!Spec
=============================================================================
