------------------------- MODULE SessionEndTheorems -------------------------
(* Theorems about SessionStore: how session families end. *)
EXTENDS SessionStoreProofs, FiniteSetTheorems

-----------------------------------------------------------------------------
(* What a step does to a family document *)

\* The steps that change a family document in place.
InPlace(r, f) ==
    \/ Rotate(r) /\ f = refreshTokens[req[r].token].family
    \/ TokenReused(r) /\ f = refreshTokens[req[r].token].family
    \/ UpdateFamily(r) /\ f = req[r].family

Touches(r) == Rotate(r) \/ TokenReused(r) \/ UpdateFamily(r)

\* A family that a step has left standing, and not opened, is the same or was
\* changed in place.
LEMMA StandingFamily ==
    ASSUME IInv, [Next]_vars, NEW f \in Families, families[f] # None, families'[f] # None
    PROVE  families'[f] = families[f] \/ \E r \in Requests : InPlace(r, f)
<1> USE DeleteShrinks DEF IInv
<1>1. CASE Tick \/ UNCHANGED vars
  BY <1>1 DEF Tick, docs, vars
<1>2. CASE JobStep
  BY <1>2 DEF JobStep, StartJob, JobReadsPage, JobDeletesPage, JobFails, docs
<1>3. ASSUME NEW r \in Requests, NEW u \in Users, NEW d \in Devices \cup {None},
             NEW m \in BOOLEAN, NEW tr \in BOOLEAN, NEW sweep \in BOOLEAN,
             Login(r, u, d, m, tr, sweep)
      PROVE  families'[f] = families[f]
  <2>1. f \in minted
    BY DEF Recorded
  <2> QED  BY <1>3, <2>1 DEF Login, Fresh, TypeOK
<1>4. ASSUME NEW r \in Requests,
             \/ FindStaleFamilies(r) \/ SweepFails(r) \/ DeleteChildSessions(r) \/ DeleteChildTokens(r)
             \/ CreateAccessToken(r)
             \/ \E t \in RefreshTokens, a \in AccessTokens \cup {None} : BeginRefresh(r, t, a)
             \/ \E a \in AccessTokens : Authenticate(r, a)
             \/ CheckFamily(r) \/ DropAccessSession(r)
             \/ \E update \in {"verify", "trust", "untrust"} : ReadOwnedFamily(r, update)
             \/ \E spared \in Families \cup {None} : BeginRevokeAll(r, spared)
             \/ RevokeSessions(r) \/ RevokeTokens(r) \/ EndRequest(r)
      PROVE  families'[f] = families[f]
  BY <1>4 DEF FindStaleFamilies, SweepFails, DeleteChildSessions, DeleteChildTokens, CreateAccessToken,
              BeginRefresh, Authenticate, CheckFamily, DropAccessSession, ReadOwnedFamily,
              BeginRevokeAll, RevokeSessions, RevokeTokens, EndRequest, docs
<1>5. ASSUME NEW r \in Requests,
             SweepNextFamily(r) \/ TokenExpired(r) \/ SignOut(r) \/ RevokeFamilies(r)
      PROVE  families'[f] = families[f]
  <2>1. \E gone : families' = Delete(families, gone)
    BY <1>5, Zenon DEF SweepNextFamily, TokenExpired, SignOut, RevokeFamilies
  <2> QED  BY <2>1
<1>6. ASSUME NEW r \in Requests, Touches(r)
      PROVE  families'[f] = families[f] \/ InPlace(r, f)
  BY <1>6 DEF Touches, InPlace, Rotate, TokenReused, UpdateFamily, TypeOK
<1> QED  BY <1>1, <1>2, <1>3, <1>4, <1>5, <1>6 DEF Next, Step, Touches


\* Whose family it is, and whether its account has MFA, stays; only a change of
\* trust changes the trust, and only a rotation puts the expiry off.
LEMMA FamilyKeeps ==
    ASSUME IInv, [Next]_vars, NEW f \in Families, families[f] # None, families'[f] # None
    PROVE  /\ families'[f].user = families[f].user
           /\ families'[f].hasMfa = families[f].hasMfa
           /\ \/ families'[f].trusted = families[f].trusted
              \/ \E r \in Requests : UpdateFamily(r) /\ req[r].family = f
           /\ \/ families'[f].expiresAt = families[f].expiresAt
              \/ \E r \in Requests : Rotate(r) /\ f = refreshTokens[req[r].token].family
<1>1. families[f] \in Family
  BY DEF IInv, TypeOK
<1>2. ASSUME NEW r \in Requests, Rotate(r), f = refreshTokens[req[r].token].family
      PROVE  /\ families'[f].user = families[f].user /\ families'[f].hasMfa = families[f].hasMfa
             /\ families'[f].trusted = families[f].trusted
  <2>1. families' = [families EXCEPT ![f] = [families[f] EXCEPT !.expiresAt = req[r].at + RefreshLife]]
    BY <1>2 DEF Rotate
  <2> QED  BY <1>1, <2>1 DEF Family, IInv, TypeOK
<1>3. ASSUME NEW r \in Requests, TokenReused(r), f = refreshTokens[req[r].token].family
      PROVE  /\ families'[f].user = families[f].user /\ families'[f].hasMfa = families[f].hasMfa
             /\ families'[f].trusted = families[f].trusted
             /\ families'[f].expiresAt = families[f].expiresAt
  <2>1. families' = [families EXCEPT ![f] = [families[f] EXCEPT !.revoked = TRUE]]
    BY <1>3 DEF TokenReused
  <2> QED  BY <1>1, <2>1 DEF Family, IInv, TypeOK
<1>4. ASSUME NEW r \in Requests, UpdateFamily(r), f = req[r].family
      PROVE  /\ families'[f].user = families[f].user /\ families'[f].hasMfa = families[f].hasMfa
             /\ families'[f].expiresAt = families[f].expiresAt
  <2>1. families' = [families EXCEPT
                       ![f].verifiedAt = IF families[f].hasMfa THEN req[r].at ELSE Never,
                       ![f].trusted = IF req[r].update = "verify" THEN families[f].trusted
                                      ELSE families[f].hasMfa /\ req[r].update = "trust"]
    BY <1>4 DEF UpdateFamily
  <2> QED  BY <1>1, <2>1 DEF Family, IInv, TypeOK
<1>5. CASE families'[f] = families[f]
  BY <1>5
<1>6. CASE \E r \in Requests : InPlace(r, f)
  BY <1>2, <1>3, <1>4, <1>6 DEF InPlace
<1> QED  BY <1>5, <1>6, StandingFamily

\* An id drawn before never gets a document again.
LEMMA NeverReborn ==
    ASSUME IInv, [Next]_vars, NEW f \in Families, f \in minted, families[f] = None
    PROVE  families'[f] = None
<1>1. f # None
  BY ConstantsAssumption DEF Ids
<1>2. CASE \E g \in Families, t \in RefreshTokens : Opens(g, t)
  BY <1>2 DEF Opens
<1>3. CASE \E g \in Families, t, t2 \in RefreshTokens : Rotates(g, t, t2)
  BY <1>3 DEF Rotates, Live, Exists
<1>4. CASE NothingGrows
  BY <1>1, <1>4 DEF NothingGrows, Exists
<1> QED  BY <1>2, <1>3, <1>4, StepShape DEF IInv

LEMMA MintedGrows ==
    ASSUME IInv, [Next]_vars
    PROVE  minted \subseteq minted'
BY StepShape DEF IInv, Opens, Rotates, NothingGrows

\* A document that is changed in place is still there.
LEMMA TouchedStands ==
    ASSUME IInv, NEW r \in Requests, Touches(r), NEW f \in Families, families[f] # None
    PROVE  families'[f] # None
<1> USE DEF IInv
<1>1. ASSUME NEW g \in Families, NEW doc \in Family, families' = [families EXCEPT ![g] = doc]
      PROVE  families'[f] # None
  BY <1>1, NoneIsNoDocument DEF TypeOK
<1>2. CASE Rotate(r)
  <2>1. PICK g : g = refreshTokens[req[r].token].family /\ g \in Families /\ families[g] \in Family
    BY <1>2, RefreshingType DEF Rotate, MayRotate
  <2>2. req[r].at + RefreshLife \in Nat
    BY ConstantsAssumption DEF TypeOK, Request
  <2>3. [families[g] EXCEPT !.expiresAt = req[r].at + RefreshLife] \in Family
    BY <2>1, <2>2 DEF Family
  <2> QED  BY <1>1, <1>2, <2>1, <2>3 DEF Rotate
<1>3. CASE TokenReused(r)
  <2>1. PICK g : g = refreshTokens[req[r].token].family /\ g \in Families /\ families[g] \in Family
    BY <1>3, RefreshingType DEF TokenReused
  <2>2. [families[g] EXCEPT !.revoked = TRUE] \in Family
    BY <2>1 DEF Family
  <2> QED  BY <1>1, <1>3, <2>1, <2>2 DEF TokenReused
<1>4. CASE UpdateFamily(r)
  <2>1. PICK g : g = req[r].family /\ g \in Families /\ families[g] \in Family
    BY <1>4 DEF UpdateFamily, Exists, TypeOK, Request
  <2>2. PICK at \in Nat \cup {Never}, trusted \in BOOLEAN :
          families' = [families EXCEPT ![g] = [families[g] EXCEPT !.verifiedAt = at, !.trusted = trusted]]
    <3>1. (IF families[g].hasMfa THEN req[r].at ELSE Never) \in Nat \cup {Never}
      BY DEF TypeOK, Request
    <3>2. (IF req[r].update = "verify" THEN families[g].trusted
           ELSE families[g].hasMfa /\ req[r].update = "trust") \in BOOLEAN
      BY <2>1 DEF Family
    <3> QED  BY ZenonT(40), <1>4, <2>1, <3>1, <3>2 DEF UpdateFamily
  <2>3. [families[g] EXCEPT !.verifiedAt = at, !.trusted = trusted] \in Family
    BY <2>1 DEF Family
  <2> QED  BY <1>1, <2>1, <2>2, <2>3
<1> QED  BY <1>2, <1>3, <1>4 DEF Touches

\* A document that goes in a step of a request goes by one of these deletions.
LEMMA DeletingRequest ==
    ASSUME IInv, NEW r \in Requests, Step(r), NEW f \in Families, families[f] # None, families'[f] = None
    PROVE  \/ SweepNextFamily(r) /\ f \in req[r].todo
           \/ TokenExpired(r) /\ f = refreshTokens[req[r].token].family
           \/ SignOut(r) /\ families[f].user = req[r].user
           \/ RevokeFamilies(r) /\ families[f].user = req[r].user
<1> USE DEF IInv
<1>1. families' # families
  OBVIOUS
<1>0. ASSUME NEW gone, families' = Delete(families, gone) PROVE f \in gone
  BY <1>0 DEF Delete, TypeOK
<1>2. ASSUME SweepNextFamily(r) PROVE f \in req[r].todo
  <2>1. PICK g \in req[r].todo : families' = Delete(families, {g})
    BY <1>2 DEF SweepNextFamily
  <2> QED  BY <1>0, <2>1
<1>3. ASSUME TokenExpired(r) PROVE f = refreshTokens[req[r].token].family
  <2>1. families' = Delete(families, {refreshTokens[req[r].token].family})
    BY <1>3 DEF TokenExpired
  <2> QED  BY <1>0, <2>1
<1>4. ASSUME SignOut(r) PROVE families[f].user = req[r].user
  <2>1. families' = Delete(families, {req[r].family}) /\ families[req[r].family].user = req[r].user
    BY <1>4 DEF SignOut
  <2> QED  BY <1>0, <2>1
<1>5. ASSUME RevokeFamilies(r) PROVE families[f].user = req[r].user
  <2>1. PICK w : /\ w \in Windows(OwnedBy(families, req[r].user))
                 /\ families' = Delete(families, w \ {req[r].target})
    BY <1>5 DEF RevokeFamilies
  <2>2. f \in w
    BY <1>0, <2>1
  <2> QED  BY <2>1, <2>2 DEF Windows, OwnedBy
<1>6. ASSUME Touches(r) PROVE FALSE
  BY <1>6, TouchedStands DEF Touches
<1>7. ASSUME NEW u \in Users, NEW d \in Devices \cup {None},
             NEW m \in BOOLEAN, NEW tr \in BOOLEAN, NEW sweep \in BOOLEAN,
             Login(r, u, d, m, tr, sweep)
      PROVE  FALSE
  BY <1>7 DEF Login, Fresh, Recorded, TypeOK
<1>8. ASSUME \/ FindStaleFamilies(r) \/ SweepFails(r) \/ DeleteChildSessions(r) \/ DeleteChildTokens(r)
             \/ CreateAccessToken(r)
             \/ \E t \in RefreshTokens, a \in AccessTokens \cup {None} : BeginRefresh(r, t, a)
             \/ \E a \in AccessTokens : Authenticate(r, a)
             \/ CheckFamily(r) \/ DropAccessSession(r)
             \/ \E update \in {"verify", "trust", "untrust"} : ReadOwnedFamily(r, update)
             \/ \E spared \in Families \cup {None} : BeginRevokeAll(r, spared)
             \/ RevokeSessions(r) \/ RevokeTokens(r) \/ EndRequest(r)
      PROVE  FALSE
  BY <1>1, <1>8 DEF FindStaleFamilies, SweepFails, DeleteChildSessions, DeleteChildTokens, CreateAccessToken,
              BeginRefresh, Authenticate, CheckFamily, DropAccessSession, ReadOwnedFamily,
              BeginRevokeAll, RevokeSessions, RevokeTokens, EndRequest, docs
<1>9. SweepNextFamily(r) \/ TokenExpired(r) \/ SignOut(r) \/ RevokeFamilies(r)
  BY <1>6, <1>7, <1>8 DEF Step, Touches
<1> QED  BY <1>2, <1>3, <1>4, <1>5, <1>9


-----------------------------------------------------------------------------
(* What a request knows *)

\* A login sweeps families of its own user; a clock reading is not ahead.
Known(q) ==
    /\ q.pc \notin {"sweeping", "childSessions", "childTokens"} => q.todo = {}
    /\ \A g \in q.todo : g \in minted /\ (families[g] # None => families[g].user = q.user)
    /\ q.at <= now

LEMMA FamilyStays ==
    ASSUME IInv, [Next]_vars, NEW g \in Families, g \in minted, families'[g] # None
    PROVE  families[g] # None /\ families'[g].user = families[g].user /\ g \in minted'
BY NeverReborn, FamilyKeeps, MintedGrows

LEMMA TimePasses ==
    ASSUME IInv, [Next]_vars
    PROVE  now \in Nat /\ now' \in Nat /\ now' >= now
<1>1. now \in Nat
  BY DEF IInv, TypeOK
<1>2. CASE Tick
  BY <1>1, <1>2 DEF Tick
<1>3. CASE JobStep \/ UNCHANGED vars
  BY <1>1, <1>3 DEF JobStep, StartJob, JobReadsPage, JobDeletesPage, JobFails, vars
<1>4. ASSUME NEW r \in Requests, Step(r) PROVE now' = now
  <2>1. CASE \/ \E u \in Users, d \in Devices \cup {None}, m, tr, sweep \in BOOLEAN :
                  Login(r, u, d, m, tr, sweep)
             \/ FindStaleFamilies(r) \/ SweepNextFamily(r) \/ SweepFails(r) \/ CreateAccessToken(r)
             \/ DeleteChildSessions(r) \/ DeleteChildTokens(r)
             \/ \E t \in RefreshTokens, a \in AccessTokens \cup {None} : BeginRefresh(r, t, a)
    BY <2>1 DEF Login, FindStaleFamilies, SweepNextFamily, SweepFails, CreateAccessToken,
                DeleteChildSessions, DeleteChildTokens, BeginRefresh
  <2>2. CASE \/ TokenReused(r) \/ TokenExpired(r) \/ Rotate(r)
             \/ \E a \in AccessTokens : Authenticate(r, a)
             \/ CheckFamily(r) \/ DropAccessSession(r)
             \/ \E update \in {"verify", "trust", "untrust"} : ReadOwnedFamily(r, update)
             \/ UpdateFamily(r)
    BY <2>2 DEF TokenReused, TokenExpired, Rotate, Authenticate, CheckFamily, DropAccessSession,
                ReadOwnedFamily, UpdateFamily
  <2>3. CASE \/ SignOut(r) \/ \E spared \in Families \cup {None} : BeginRevokeAll(r, spared)
             \/ RevokeSessions(r) \/ RevokeFamilies(r) \/ RevokeTokens(r) \/ EndRequest(r)
    BY <2>3 DEF SignOut, BeginRevokeAll, RevokeSessions, RevokeFamilies, RevokeTokens, EndRequest
  <2> QED  BY <1>4, <2>1, <2>2, <2>3 DEF Step
<1> QED  BY <1>1, <1>2, <1>3, <1>4 DEF Next

LEMMA KnownStays ==
    ASSUME IInv, [Next]_vars, NEW q \in Request, Known(q)
    PROVE  Known(q)'
<1>1. q.todo \subseteq Families /\ q.at \in Nat
  BY DEF Request
<1>2. q.at <= now'
  BY <1>1, TimePasses DEF Known
<1>3. ASSUME NEW g \in q.todo
      PROVE  g \in minted' /\ (families'[g] # None => families'[g].user = q.user)
  <2>1. g \in Families /\ g \in minted /\ (families[g] # None => families[g].user = q.user)
    BY <1>1 DEF Known
  <2>2. g \in minted'
    BY <2>1, MintedGrows
  <2> QED  BY <2>1, <2>2, FamilyStays
<1> QED  BY <1>2, <1>3 DEF Known

\* A request that has no sweep under way.
LEMMA UnsweptKnown ==
    ASSUME NEW q, q.todo = {}, q.at <= now
    PROVE  Known(q)
BY DEF Known

LEMMA IdleKnown == now \in Nat => Known(IdleRequest)
BY DEF IdleRequest, Known

\* Steps that leave the request at a stage without a sweep.
LEMMA UnsweptNext ==
    ASSUME IInv, NEW r \in Requests, Known(req[r]),
           \/ \E u \in Users, d \in Devices \cup {None}, m, tr, sweep \in BOOLEAN :
                Login(r, u, d, m, tr, sweep)
           \/ SweepFails(r) \/ CreateAccessToken(r)
           \/ \E t \in RefreshTokens, a \in AccessTokens \cup {None} : BeginRefresh(r, t, a)
           \/ TokenReused(r) \/ TokenExpired(r) \/ Rotate(r)
           \/ \E a \in AccessTokens : Authenticate(r, a)
           \/ CheckFamily(r) \/ DropAccessSession(r)
           \/ \E update \in {"verify", "trust", "untrust"} : ReadOwnedFamily(r, update)
           \/ UpdateFamily(r) \/ SignOut(r) \/ EndRequest(r)
           \/ \E spared \in Families \cup {None} : BeginRevokeAll(r, spared)
    PROVE  \E next : Become(r, next) /\ Known(next)
<1>1. now \in Nat /\ req[r] \in Request
  BY DEF IInv, TypeOK
<1> DEFINE s == req[r]
<1>2. /\ s.pc \notin {"sweeping", "childSessions", "childTokens"} => s.todo = {}
      /\ s.at <= now
  BY DEF Known
<1>3. ASSUME NEW next, Become(r, next), next.todo = {}, next.at <= now
      PROVE  \E n : Become(r, n) /\ Known(n)
  BY <1>3, UnsweptKnown
<1>4. ASSUME NEW u \in Users, NEW d \in Devices \cup {None},
             NEW m \in BOOLEAN, NEW tr \in BOOLEAN, NEW sweep \in BOOLEAN,
             Login(r, u, d, m, tr, sweep)
      PROVE  \E next : Become(r, next) /\ next.todo = {} /\ next.at <= now
  <2>1. PICK f, t, next :
          /\ next = [Goto(r, IF d # None /\ sweep THEN "loggedIn" ELSE "issuing")
                       EXCEPT !.user = u, !.device = d, !.family = f, !.token = t]
          /\ Become(r, next)
    BY <1>4 DEF Login
  <2>2. next.todo = s.todo /\ next.at = s.at
    BY <1>1, <2>1 DEF Goto, Request
  <2> QED  BY <1>2, <1>4, <2>1, <2>2 DEF Login, Idle
<1>5. CASE SweepFails(r)
  <2>1. PICK next : /\ next = [Goto(r, "issuing") EXCEPT !.todo = {}, !.target = None, !.page = 0]
                    /\ Become(r, next)
    BY <1>5 DEF SweepFails
  <2>2. next.todo = {} /\ next.at = s.at
    BY <1>1, <2>1 DEF Goto, Request
  <2> QED  BY <1>2, <1>3, <2>1, <2>2
<1>6. CASE CreateAccessToken(r) \/ TokenReused(r) \/ TokenExpired(r) \/ DropAccessSession(r) \/ EndRequest(r)
  <2>1. Become(r, IdleRequest)
    BY <1>6 DEF CreateAccessToken, TokenReused, TokenExpired, DropAccessSession, EndRequest
  <2> QED  BY <1>1, <2>1, IdleKnown
<1>7. CASE Rotate(r)
  <2>1. PICK t, f, u, next :
          /\ next = [IdleRequest EXCEPT !.pc = "issuing", !.family = f, !.user = u, !.token = t]
          /\ Become(r, next)
    BY <1>7 DEF Rotate
  <2>2. next.todo = {} /\ next.at = 0
    BY <2>1 DEF IdleRequest
  <2>3. next.at <= now
    BY <1>1, <2>2
  <2> QED  BY <1>3, <2>1, <2>2, <2>3
<1>8. ASSUME NEW t, NEW a, BeginRefresh(r, t, a)
      PROVE  \E next : Become(r, next) /\ next.todo = {} /\ next.at <= now
  <2>1. PICK next : /\ next = [Goto(r, "refreshing") EXCEPT !.token = t, !.access = a, !.at = now]
                    /\ Become(r, next) /\ s.pc = "idle"
    BY <1>8 DEF BeginRefresh, Idle
  <2>2. next.todo = s.todo /\ next.at = now
    BY <1>1, <2>1 DEF Goto, Request
  <2>3. next.at <= now
    BY <1>1, <2>2
  <2> QED  BY <1>2, <2>1, <2>2, <2>3
<1>9. ASSUME NEW a, Authenticate(r, a)
      PROVE  \E next : Become(r, next) /\ next.todo = {} /\ next.at <= now
  <2>1. PICK next : /\ next = [Goto(r, IF sessions[a].expiresAt < now THEN "rejecting" ELSE "authenticating")
                                 EXCEPT !.access = a, !.user = sessions[a].user, !.family = sessions[a].family]
                    /\ Become(r, next) /\ s.pc = "idle"
    BY <1>9 DEF Authenticate, Idle
  <2>2. next.todo = s.todo /\ next.at = s.at
    BY <1>1, <2>1 DEF Goto, Request
  <2> QED  BY <1>2, <2>1, <2>2
<1>10. CASE CheckFamily(r)
  <2>1. PICK next : /\ \/ next = [Goto(r, "authed") EXCEPT !.access = None]
                       \/ next = Goto(r, "rejecting")
                    /\ Become(r, next) /\ s.pc = "authenticating"
    BY <1>10 DEF CheckFamily
  <2>2. next.todo = s.todo /\ next.at = s.at
    BY <1>1, <2>1 DEF Goto, Request
  <2> QED  BY <1>2, <1>3, <2>1, <2>2
<1>11. ASSUME NEW update, ReadOwnedFamily(r, update)
       PROVE  \E next : Become(r, next) /\ next.todo = {} /\ next.at <= now
  <2>1. PICK next : /\ next = [Goto(r, "writing") EXCEPT !.update = update, !.at = now]
                    /\ Become(r, next) /\ s.pc = "authed"
    BY <1>11 DEF ReadOwnedFamily
  <2>2. next.todo = s.todo /\ next.at = now
    BY <1>1, <2>1 DEF Goto, Request
  <2>3. next.at <= now
    BY <1>1, <2>2
  <2> QED  BY <1>2, <2>1, <2>2, <2>3
<1>12. CASE UpdateFamily(r)
  <2>1. PICK next : /\ \/ next = [Goto(r, "authed") EXCEPT !.update = "none", !.at = 0]
                       \/ next = IdleRequest
                    /\ Become(r, next) /\ s.pc = "writing"
    BY <1>12 DEF UpdateFamily
  <2>2. CASE next = IdleRequest
    BY <1>1, <2>1, <2>2, IdleKnown
  <2>3. CASE next = [Goto(r, "authed") EXCEPT !.update = "none", !.at = 0]
    <3>1. next.todo = s.todo /\ next.at = 0
      BY <1>1, <2>3 DEF Goto, Request
    <3>2. next.at <= now
      BY <1>1, <3>1
    <3> QED  BY <1>2, <1>3, <2>1, <3>1, <3>2
  <2> QED  BY <2>1, <2>2, <2>3
<1>13. CASE SignOut(r)
  <2>1. PICK next : /\ next = [Goto(r, "childSessions") EXCEPT !.target = s.family]
                    /\ Become(r, next) /\ s.pc = "authed"
    BY <1>13 DEF SignOut
  <2>2. next.todo = s.todo /\ next.at = s.at
    BY <1>1, <2>1 DEF Goto, Request
  <2> QED  BY <1>2, <1>3, <2>1, <2>2
<1>14. ASSUME NEW spared, BeginRevokeAll(r, spared)
       PROVE  \E next : Become(r, next) /\ next.todo = {} /\ next.at <= now
  <2>1. PICK prior, next : /\ next = [Goto(r, "revokeSessions") EXCEPT !.target = spared, !.prior = prior]
                           /\ Become(r, next) /\ s.pc = "authed"
    BY <1>14 DEF BeginRevokeAll
  <2>2. next.todo = s.todo /\ next.at = s.at
    BY <1>1, <2>1 DEF Goto, Request
  <2> QED  BY <1>2, <2>1, <2>2
<1> QED  BY <1>3, <1>4, <1>5, <1>6, <1>7, <1>8, <1>9, <1>10, <1>11, <1>12, <1>13, <1>14


\* A sweep that goes on, and a request without one.
LEMMA LessTodo ==
    ASSUME NEW q, NEW next, Known(q), next.todo \subseteq q.todo,
           next.pc \in {"sweeping", "childSessions", "childTokens"} \/ next.todo = {},
           next.user = q.user, next.at = q.at
    PROVE  Known(next)
BY DEF Known

LEMMA AfterPageKnown ==
    ASSUME NEW r, NEW w, NEW gone, NEW onward, AfterPage(r, w, gone, onward),
           Known(req[r]), req[r] \in Request, onward \in Request, Known(onward)
    PROVE  \E next : Become(r, next) /\ Known(next)
<1> DEFINE s == req[r]
<1>1. PICK next : Become(r, next) /\ (\/ next = [onward EXCEPT !.page = 0]
                                      \/ next = [s EXCEPT !.page = s.page + 1])
  BY DEF AfterPage
<1>2. CASE next = [onward EXCEPT !.page = 0]
  <2>1. next.todo = onward.todo /\ next.pc = onward.pc /\ next.user = onward.user /\ next.at = onward.at
    BY <1>2 DEF Request
  <2> QED  BY <2>1, <1>1 DEF Known
<1>3. CASE next = [s EXCEPT !.page = s.page + 1]
  <2>1. next.todo = s.todo /\ next.pc = s.pc /\ next.user = s.user /\ next.at = s.at
    BY <1>3 DEF Request
  <2> QED  BY <2>1, <1>1 DEF Known
<1> QED  BY <1>1, <1>2, <1>3

\* The steps of a sweep, and those of a deletion of everything.
LEMMA SweptNext ==
    ASSUME IInv, NEW r \in Requests, Known(req[r]),
           \/ FindStaleFamilies(r) \/ SweepNextFamily(r) \/ DeleteChildSessions(r) \/ DeleteChildTokens(r)
           \/ RevokeSessions(r) \/ RevokeFamilies(r) \/ RevokeTokens(r)
    PROVE  \E next : Become(r, next) /\ Known(next)
<1> DEFINE s == req[r]
<1>1. s \in Request /\ s.pc \in Labels /\ s.todo \subseteq Families
  BY DEF IInv, TypeOK, Request
<1>2. ASSUME NEW pc \in Labels
      PROVE  /\ Goto(r, pc) \in Request /\ Goto(r, pc).todo = s.todo /\ Goto(r, pc).pc = pc
             /\ Goto(r, pc).user = s.user /\ Goto(r, pc).at = s.at
  BY <1>1 DEF Goto, Request
<1>3. CASE FindStaleFamilies(r)
  <2> DEFINE stale == {g \in Families \ {s.family} :
                       /\ Exists(families, g)
                       /\ families[g].user = s.user
                       /\ families[g].device = s.device}
             next == [Goto(r, IF stale = {} THEN "issuing" ELSE "sweeping") EXCEPT !.todo = stale]
  <2>1. Become(r, next)
    BY <1>3 DEF FindStaleFamilies
  <2>2. /\ next.todo = stale /\ next.user = s.user /\ next.at = s.at
        /\ stale # {} => next.pc = "sweeping"
    BY <1>1 DEF Goto, Request
  <2>3. \A g \in stale : g \in minted /\ families[g].user = s.user
    BY DEF IInv, Recorded, Exists
  <2> HIDE DEF next, stale
  <2>4. Known(next)
    BY <2>2, <2>3 DEF Known
  <2> QED  BY <2>1, <2>4
<1>4. CASE SweepNextFamily(r)
  <2>1. PICK g, next : next = [Goto(r, "childSessions") EXCEPT !.target = g] /\ Become(r, next)
    BY <1>4 DEF SweepNextFamily
  <2>2. next.todo = s.todo /\ next.user = s.user /\ next.at = s.at /\ next.pc = "childSessions"
    BY <1>1, <2>1 DEF Goto, Request
  <2>3. Known(next)
    BY <2>2, LessTodo
  <2> QED  BY <2>1, <2>3
<1>5. CASE DeleteChildSessions(r)
  <2>1. PICK w : AfterPage(r, w, w, Goto(r, "childTokens"))
    BY <1>5 DEF DeleteChildSessions
  <2>2. "childTokens" \in Labels
    BY DEF Labels
  <2>3. Known(Goto(r, "childTokens"))
    BY <1>2, <2>2, LessTodo
  <2> QED  BY <1>1, <1>2, <2>1, <2>2, <2>3, AfterPageKnown
<1>6. CASE DeleteChildTokens(r)
  <2>1. PICK w : AfterPage(r, w, w, ChildrenDeleted(r))
    BY <1>6 DEF DeleteChildTokens
  <2>2. CASE s.target = s.family
    <3>1. ChildrenDeleted(r) = IdleRequest
      BY <2>2 DEF ChildrenDeleted
    <3>2. IdleRequest \in Request
      BY IdleRequestType
    <3>3. Known(IdleRequest)
      BY IdleKnown DEF IInv, TypeOK
    <3> QED  BY <1>1, <2>1, <3>1, <3>2, <3>3, AfterPageKnown
  <2>3. CASE s.target # s.family
    <3> DEFINE rest == s.todo \ {s.target}
               onward == [Goto(r, IF rest = {} THEN "issuing" ELSE "sweeping") EXCEPT !.todo = rest, !.target = None]
    <3>1. ChildrenDeleted(r) = onward
      BY <2>3 DEF ChildrenDeleted
    <3>2. /\ onward.todo = rest /\ onward.user = s.user /\ onward.at = s.at
          /\ rest # {} => onward.pc = "sweeping"
      BY <1>1 DEF Goto, Request
    <3>3. rest \subseteq s.todo
      OBVIOUS
    <3>5. onward \in Request
      BY <1>1, <3>1, ChildrenDeletedType DEF IInv
    <3> HIDE DEF onward, rest
    <3>4. Known(onward)
      BY <3>2, <3>3, LessTodo
    <3> QED  BY <1>1, <2>1, <3>1, <3>4, <3>5, AfterPageKnown
  <2> QED  BY <2>2, <2>3
<1>7. ASSUME NEW pc \in {"revokeFamilies", "revokeTokens", "revoked"}, NEW w, NEW gone,
             AfterPage(r, w, gone, Goto(r, pc)),
             s.pc \in {"revokeSessions", "revokeFamilies", "revokeTokens"}
      PROVE  \E next : Become(r, next) /\ Known(next)
  <2>1. pc \in Labels /\ s.todo = {}
    BY <1>7 DEF Labels, Known
  <2>2. Known(Goto(r, pc))
    BY <1>2, <2>1, LessTodo
  <2> QED  BY <1>1, <1>2, <1>7, <2>1, <2>2, AfterPageKnown
<1>8. CASE RevokeSessions(r)
  BY <1>7, <1>8 DEF RevokeSessions
<1>9. CASE RevokeFamilies(r)
  BY <1>7, <1>9 DEF RevokeFamilies
<1>10. CASE RevokeTokens(r)
  BY <1>7, <1>10 DEF RevokeTokens
<1> QED  BY <1>3, <1>4, <1>5, <1>6, <1>8, <1>9, <1>10

\* Every request keeps what it knows.
LEMMA KnownInit == Init => \A r \in Requests : Known(req[r])
BY IdleKnown DEF Init

LEMMA KnownStep ==
    ASSUME IInv, TypeOK', [Next]_vars, \A r \in Requests : Known(req[r])
    PROVE  (\A r \in Requests : Known(req[r]))'
<1> USE DEF IInv
<1>1. CASE req' = req
  <2>1. \A q : q \in {req[r] : r \in Requests} => Known(q)'
    BY KnownStays DEF TypeOK
  <2> QED  BY <1>1, <2>1
<1>2. CASE req' # req
  <2>1. PICK r \in Requests : Step(r)
    BY <1>2 DEF Next, Tick, JobStep, StartJob, JobReadsPage, JobDeletesPage, JobFails, vars
  <2>2. \E next : Become(r, next) /\ Known(next)
    BY <2>1, UnsweptNext, SweptNext DEF Step
  <2>3. PICK next : Become(r, next) /\ Known(next)
    BY <2>2
  <2>4. next \in Request
    BY <2>3 DEF Become, TypeOK
  <2>5. ASSUME NEW q \in Requests PROVE Known(req[q])'
    <3>1. PICK then \in Request : then = req'[q] /\ Known(then)
      BY <2>3, <2>4 DEF Become, TypeOK
    <3>2. Known(then)'
      BY <3>1, KnownStays
    <3> QED  BY <3>1, <3>2 DEF Known
  <2> QED  BY <2>5
<1> QED  BY <1>1, <1>2


-----------------------------------------------------------------------------
(* A family expires with its usable token *)

SameEnd ==
    \A t \in RefreshTokens :
        /\ refreshTokens[t] # None /\ ~refreshTokens[t].used
        /\ families[refreshTokens[t].family] # None
        => refreshTokens[t].expiresAt = families[refreshTokens[t].family].expiresAt

LEMMA SameEndLogin ==
    ASSUME IInv, SameEnd, [Next]_vars,
           NEW r \in Requests, NEW u \in Users, NEW d \in Devices \cup {None},
           NEW m \in BOOLEAN, NEW tr \in BOOLEAN, NEW sweep \in BOOLEAN,
           Login(r, u, d, m, tr, sweep)
    PROVE  SameEnd'
<1> USE DEF IInv
<1>1. PICK f \in Fresh(Families), t \in Fresh(RefreshTokens) :
         /\ families' = [families EXCEPT ![f] =
              [user |-> u, device |-> d, hasMfa |-> m,
               trusted |-> m /\ tr,
               verifiedAt |-> IF m THEN now ELSE Never,
               expiresAt |-> now + RefreshLife, revoked |-> FALSE]]
         /\ refreshTokens' = [refreshTokens EXCEPT ![t] =
              [family |-> f, user |-> u, expiresAt |-> now + RefreshLife,
               used |-> FALSE, replacedBy |-> None]]
  BY DEF Login
<1>2. f \in Families /\ f \notin minted /\ t \in RefreshTokens
  BY DEF Fresh
<1>3. /\ refreshTokens'[t].family = f /\ refreshTokens'[t].expiresAt = now + RefreshLife
      /\ families'[f].expiresAt = now + RefreshLife
  BY <1>1, <1>2 DEF TypeOK
<1>4. ASSUME NEW t1 \in RefreshTokens \ {t}, refreshTokens'[t1] # None, ~refreshTokens'[t1].used,
             families'[refreshTokens'[t1].family] # None
      PROVE  refreshTokens'[t1].expiresAt = families'[refreshTokens'[t1].family].expiresAt
  <2>1. refreshTokens'[t1] = refreshTokens[t1]
    BY <1>1, <1>2 DEF TypeOK
  <2>2. refreshTokens[t1].family \in minted /\ refreshTokens[t1].family \in Families
    BY <1>4, <2>1 DEF Recorded, TypeOK, RefreshToken
  <2>3. families'[refreshTokens[t1].family] = families[refreshTokens[t1].family]
    BY <1>1, <1>2, <2>2 DEF TypeOK
  <2> QED  BY <1>4, <2>1, <2>3 DEF SameEnd
<1> QED  BY <1>3, <1>4 DEF SameEnd

LEMMA SameEndRotate ==
    ASSUME IInv, SameEnd, [Next]_vars, NEW r \in Requests, Rotate(r)
    PROVE  SameEnd'
<1> USE DEF IInv
<1> DEFINE t == req[r].token
           f == refreshTokens[t].family
           expiresAt == req[r].at + RefreshLife
<1>1. PICK t2 \in Fresh(RefreshTokens) :
             refreshTokens' =
                  [refreshTokens EXCEPT
                     ![t].used = TRUE, ![t].replacedBy = t2,
                     ![t2] = [family |-> f, user |-> families[f].user,
                              expiresAt |-> expiresAt, used |-> FALSE,
                              replacedBy |-> None]]
  BY DEF Rotate
<1>2. families' = [families EXCEPT ![f].expiresAt = expiresAt]
  BY DEF Rotate
<1>3. /\ t \in RefreshTokens /\ refreshTokens[t] # None /\ refreshTokens[t] \in RefreshToken
      /\ f \in Families /\ families[f] \in Family /\ ~refreshTokens[t].used
  BY RefreshingType DEF Rotate, MayRotate, Refreshing, Exists
<1>4. t2 \in RefreshTokens /\ t2 # t
  BY <1>3 DEF Fresh, Recorded
<1>5. families'[f].expiresAt = expiresAt /\ \A g \in Families \ {f} : families'[g] = families[g]
  <2>1. families' = [families EXCEPT ![f] = [families[f] EXCEPT !.expiresAt = expiresAt]]
    BY <1>2
  <2> QED  BY <1>3, <2>1 DEF TypeOK, Family
<1>6. refreshTokens'[t2].family = f /\ refreshTokens'[t2].expiresAt = expiresAt
  BY <1>1, <1>4 DEF TypeOK
<1>7. refreshTokens'[t].used
  BY <1>1, <1>3, <1>4 DEF TypeOK, RefreshToken
<1>8. ASSUME NEW t1 \in RefreshTokens \ {t, t2}, refreshTokens'[t1] # None, ~refreshTokens'[t1].used,
             families'[refreshTokens'[t1].family] # None
      PROVE  refreshTokens'[t1].expiresAt = families'[refreshTokens'[t1].family].expiresAt
  <2>1. refreshTokens'[t1] = refreshTokens[t1]
    BY <1>1, <1>3, <1>4 DEF TypeOK
  <2>2. t1 # None /\ t # None
    BY <1>3, ConstantsAssumption DEF Ids
  <2>3. refreshTokens[t1].family # f
    BY <1>3, <1>8, <2>1, <2>2 DEF LinearChain, UnusedTokens, Exists
  <2>4. refreshTokens[t1].family \in Families
    BY <1>8, <2>1 DEF TypeOK, RefreshToken
  <2>5. families'[refreshTokens[t1].family] = families[refreshTokens[t1].family]
    BY <1>5, <2>3, <2>4
  <2> QED  BY <1>8, <2>1, <2>5 DEF SameEnd
<1> HIDE DEF t, f, expiresAt
<1> QED  BY <1>5, <1>6, <1>7, <1>8 DEF SameEnd

LEMMA SameEndStep ==
    ASSUME IInv, SameEnd, [Next]_vars
    PROVE  SameEnd'
<1>1. CASE \E r \in Requests : Rotate(r)
  BY <1>1, SameEndRotate
<1>2. CASE \E r \in Requests, u \in Users, d \in Devices \cup {None}, m, tr, sweep \in BOOLEAN :
             Login(r, u, d, m, tr, sweep)
  BY <1>2, SameEndLogin
<1>3. ASSUME \A r \in Requests : ~Rotate(r),
             \A r \in Requests, u \in Users, d \in Devices \cup {None}, m, tr, sweep \in BOOLEAN :
               ~Login(r, u, d, m, tr, sweep)
      PROVE  SameEnd'
  <2>1. NothingGrows
    BY <1>3, OtherStepsShrink DEF IInv
  <2> SUFFICES ASSUME NEW t \in RefreshTokens, refreshTokens'[t] # None, ~refreshTokens'[t].used,
                      families'[refreshTokens'[t].family] # None
               PROVE  refreshTokens'[t].expiresAt = families'[refreshTokens'[t].family].expiresAt
    BY DEF SameEnd
  <2>2. refreshTokens'[t] = refreshTokens[t]
    BY <2>1 DEF NothingGrows
  <2>3. PICK g \in Families : g = refreshTokens[t].family /\ g \in minted
    BY <2>2 DEF IInv, TypeOK, RefreshToken, Recorded
  <2>4. families[g] # None
    BY <2>2, <2>3, NeverReborn
  <2>5. families'[g].expiresAt = families[g].expiresAt
    BY <1>3, <2>2, <2>3, <2>4, FamilyKeeps
  <2>6. refreshTokens[t].expiresAt = families[g].expiresAt
    BY <2>2, <2>3, <2>4 DEF SameEnd
  <2> QED  BY <2>2, <2>3, <2>5, <2>6
<1> QED  BY <1>1, <1>2, <1>3

-----------------------------------------------------------------------------
(* Whose families a request deletes *)

\* The inductive invariant.
EInv == IInv /\ SameEnd /\ \A r \in Requests : Known(req[r])

LEMMA EndInductive == Spec => []EInv
<1>1. Init => SameEnd
  BY DEF Init, SameEnd
<1>2. IInv /\ EInv /\ IInv' /\ [Next]_vars => EInv'
  <2>1. IInv' => TypeOK'
    BY DEF IInv
  <2> QED  BY <2>1, KnownStep, SameEndStep DEF EInv
<1>3. Init /\ IInv => EInv
  BY <1>1, KnownInit DEF EInv
<1> QED  BY <1>2, <1>3, Inductive, PTL DEF Spec

LEMMA OwnUserStep ==
    ASSUME EInv, [Next]_vars, NEW f \in Families, Exists(families, f), families'[f] = None, req' # req
    PROVE  \/ \E r \in Requests : req'[r] # req[r] /\ req[r].user = families[f].user
           \/ families[f].expiresAt < now
<1> USE DEF EInv
<1>0. IInv /\ families[f] # None /\ now \in Nat
  BY DEF Exists, IInv, TypeOK
<1>1. PICK r \in Requests :
             \/ SweepNextFamily(r) /\ f \in req[r].todo
             \/ TokenExpired(r) /\ f = refreshTokens[req[r].token].family
             \/ SignOut(r) /\ families[f].user = req[r].user
             \/ RevokeFamilies(r) /\ families[f].user = req[r].user
  <2>1. PICK r \in Requests : Step(r)
    BY DEF Next, Tick, JobStep, StartJob, JobReadsPage, JobDeletesPage, JobFails, vars
  <2> QED  BY <1>0, <2>1, DeletingRequest
<1>2. \E next : Become(r, next)
  BY <1>0, <1>1, UnsweptNext, SweptNext
<1>3. req'[r] # req[r]
  BY <1>0, <1>2 DEF Become, IInv, TypeOK
<1>4. CASE SweepNextFamily(r) /\ f \in req[r].todo
  BY <1>0, <1>3, <1>4 DEF Known
<1>5. CASE TokenExpired(r) /\ f = refreshTokens[req[r].token].family
  <2>1. PICK t \in RefreshTokens : t = req[r].token /\ refreshTokens[t] # None
    BY <1>0, <1>5, RefreshingType DEF TokenExpired, Refreshing, Exists, IInv
  <2>2. ~refreshTokens[t].used /\ IsExpired(t, req[r].at)
    BY <1>5, <2>1 DEF TokenExpired
  <2>3. refreshTokens[t].expiresAt = families[f].expiresAt
    BY <1>0, <1>5, <2>1, <2>2 DEF SameEnd
  <2>4. families[f].expiresAt < req[r].at
    BY <1>5, <2>1, <2>2, <2>3 DEF IsExpired
  <2>5. req[r].at \in Nat /\ req[r].at <= now /\ families[f].expiresAt \in Nat
    BY <1>0 DEF Known, IInv, TypeOK, Request, Family
  <2> QED  BY <1>0, <2>4, <2>5
<1> QED  BY <1>1, <1>3, <1>4, <1>5

\* A request deletes session families of its own user only, or one that has
\* expired: however logins on a shared device interleave, no account ends the
\* sessions of another (deleteStaleDeviceFamilies, deleteAllUserSessions,
\* revokeSessionFamily, rotateRefreshToken.ts).
THEOREM DeletedForOwnUser == Spec => DeletedByOwnUser
<1>1. EInv /\ [Next]_vars =>
        [\A f \in Families : Exists(families, f) /\ families'[f] = None /\ req' # req =>
           \/ \E r \in Requests : req'[r] # req[r] /\ req[r].user = families[f].user
           \/ families[f].expiresAt < now]_vars
  BY OwnUserStep
<1> QED  BY <1>1, EndInductive, PTL DEF Spec, DeletedByOwnUser


-----------------------------------------------------------------------------
(* A lapsed family *)

\* The request is not at work for family f.
Quiet(q, f) == (q.family = f => q.pc = "rejecting") /\ q.pc # "refreshing"

LEMMA IdleQuiet == \A f \in Families : Quiet(IdleRequest, f)
BY ConstantsAssumption DEF Quiet, IdleRequest, Ids

LEMMA AfterPageQuiet ==
    ASSUME NEW r, NEW w, NEW gone, NEW onward, NEW f, AfterPage(r, w, gone, onward),
           req[r] \in Request, onward \in Request, Quiet(req[r], f), Quiet(onward, f)
    PROVE  \E next : Become(r, next) /\ Quiet(next, f)
<1>1. PICK next : Become(r, next) /\ (\/ next = [onward EXCEPT !.page = 0]
                                      \/ next = [req[r] EXCEPT !.page = req[r].page + 1])
  BY DEF AfterPage
<1>2. CASE next = [onward EXCEPT !.page = 0]
  <2>1. next.pc = onward.pc /\ next.family = onward.family
    BY <1>2 DEF Request
  <2> QED  BY <2>1, <1>1 DEF Quiet
<1>3. CASE next = [req[r] EXCEPT !.page = req[r].page + 1]
  <2>1. next.pc = req[r].pc /\ next.family = req[r].family
    BY <1>3 DEF Request
  <2> QED  BY <2>1, <1>1 DEF Quiet
<1> QED  BY <1>1, <1>2, <1>3

\* No request starts to work for a lapsed family: an access session of it is
\* rejected, and a refresh has no active access session to go by.
LEMMA LapsedNext ==
    ASSUME IInv, NEW r \in Requests, Step(r), NEW f \in Families, Lapsed(f)
    PROVE  \E next : /\ Become(r, next)
                     /\ \/ Quiet(next, f)
                        \/ next.family # f /\ next.at = now /\ sessions' = sessions
<1> USE DEF IInv
<1> DEFINE s == req[r]
<1>1. s \in Request /\ f # None /\ families[f] # None
  BY ConstantsAssumption DEF TypeOK, Lapsed, Exists, Ids
<1>2. s.pc # "rejecting" => s.family # f
  BY DEF Lapsed
<1>3. ASSUME NEW pc \in Labels
      PROVE  Goto(r, pc).family = s.family /\ Goto(r, pc).pc = pc /\ Goto(r, pc) \in Request
  BY <1>1, GotoType DEF Goto, Request
<1>4. ASSUME NEW u \in Users, NEW d \in Devices \cup {None},
             NEW m \in BOOLEAN, NEW tr \in BOOLEAN, NEW sweep \in BOOLEAN,
             Login(r, u, d, m, tr, sweep)
      PROVE  \E next : Become(r, next) /\ Quiet(next, f)
  <2>1. PICK g, t, next :
          /\ g \in Fresh(Families)
          /\ next = [Goto(r, IF d # None /\ sweep THEN "loggedIn" ELSE "issuing")
                       EXCEPT !.user = u, !.device = d, !.family = g, !.token = t]
          /\ Become(r, next)
    BY <1>4 DEF Login
  <2>2. next.family = g /\ next.pc # "refreshing"
    BY <1>1, <2>1 DEF Goto, Request
  <2>3. g # f
    BY <1>1, <2>1 DEF Recorded, Fresh
  <2> QED  BY <2>1, <2>2, <2>3 DEF Quiet
<1>5. CASE FindStaleFamilies(r) \/ SweepFails(r)
  <2>1. CASE FindStaleFamilies(r)
    <3> DEFINE stale == {g \in Families \ {req[r].family} :
                           /\ Exists(families, g)
                           /\ families[g].user = req[r].user
                           /\ families[g].device = req[r].device}
               then == [Goto(r, IF stale = {} THEN "issuing" ELSE "sweeping") EXCEPT !.todo = stale]
    <3>1. Become(r, then) /\ s.pc = "loggedIn"
      BY <2>1 DEF FindStaleFamilies
    <3>2. then.family = s.family /\ then.pc # "refreshing"
      BY <1>1 DEF Goto, Request
    <3> HIDE DEF then
    <3> QED  BY <1>2, <3>1, <3>2 DEF Quiet
  <2>2. CASE SweepFails(r)
    <3> DEFINE then == [Goto(r, "issuing") EXCEPT !.todo = {}, !.target = None, !.page = 0]
    <3>1. Become(r, then) /\ s.pc # "rejecting"
      BY <2>2 DEF SweepFails
    <3>2. then.family = s.family /\ then.pc # "refreshing"
      BY <1>1 DEF Goto, Request
    <3> HIDE DEF then
    <3> QED  BY <1>2, <3>1, <3>2 DEF Quiet
  <2> QED  BY <1>5, <2>1, <2>2
<1>6. CASE SweepNextFamily(r)
  <2>1. PICK g, next : /\ next = [Goto(r, "childSessions") EXCEPT !.target = g]
                       /\ Become(r, next) /\ s.pc = "sweeping"
    BY <1>6 DEF SweepNextFamily
  <2>2. next.family = s.family /\ next.pc # "refreshing"
    BY <1>1, <2>1 DEF Goto, Request
  <2> QED  BY <1>2, <2>1, <2>2 DEF Quiet
<1>7. CASE CreateAccessToken(r) \/ TokenReused(r) \/ TokenExpired(r) \/ DropAccessSession(r) \/ EndRequest(r)
  <2>1. Become(r, IdleRequest)
    BY <1>7 DEF CreateAccessToken, TokenReused, TokenExpired, DropAccessSession, EndRequest
  <2> QED  BY <2>1, IdleQuiet
<1>8. ASSUME NEW w, NEW gone, NEW onward \in Request, AfterPage(r, w, gone, onward),
             s.pc \notin {"rejecting", "refreshing"}, onward.pc # "refreshing",
             onward.family = s.family \/ onward = IdleRequest
      PROVE  \E next : Become(r, next) /\ Quiet(next, f)
  <2>1. Quiet(s, f) /\ Quiet(onward, f)
    BY <1>2, <1>8, IdleQuiet DEF Quiet
  <2> QED  BY <1>1, <1>8, <2>1, AfterPageQuiet
<1>9. CASE DeleteChildSessions(r)
  <2>1. PICK w : AfterPage(r, w, w, Goto(r, "childTokens")) /\ s.pc = "childSessions"
    BY <1>9 DEF DeleteChildSessions
  <2>2. "childTokens" \in Labels
    BY DEF Labels
  <2> QED  BY <1>3, <1>8, <2>1, <2>2
<1>10. CASE DeleteChildTokens(r)
  <2>1. PICK w : AfterPage(r, w, w, ChildrenDeleted(r)) /\ s.pc = "childTokens"
    BY <1>10 DEF DeleteChildTokens
  <2>2. ChildrenDeleted(r) \in Request
    BY ChildrenDeletedType
  <2>3. \/ ChildrenDeleted(r) = IdleRequest
        \/ ChildrenDeleted(r).family = s.family /\ ChildrenDeleted(r).pc # "refreshing"
    BY <1>1 DEF ChildrenDeleted, Goto, Request
  <2>4. IdleRequest.pc # "refreshing"
    BY DEF IdleRequest
  <2> QED  BY <1>8, <2>1, <2>2, <2>3, <2>4
<1>11. CASE RevokeSessions(r)
  <2>1. PICK w, gone : AfterPage(r, w, gone, Goto(r, "revokeFamilies")) /\ s.pc = "revokeSessions"
    BY <1>11 DEF RevokeSessions
  <2>2. "revokeFamilies" \in Labels
    BY DEF Labels
  <2> QED  BY <1>3, <1>8, <2>1, <2>2
<1>12. CASE RevokeFamilies(r)
  <2>1. PICK w, gone : AfterPage(r, w, gone, Goto(r, "revokeTokens")) /\ s.pc = "revokeFamilies"
    BY <1>12 DEF RevokeFamilies
  <2>2. "revokeTokens" \in Labels
    BY DEF Labels
  <2> QED  BY <1>3, <1>8, <2>1, <2>2
<1>13. CASE RevokeTokens(r)
  <2>1. PICK w, gone : AfterPage(r, w, gone, Goto(r, "revoked")) /\ s.pc = "revokeTokens"
    BY <1>13 DEF RevokeTokens
  <2>2. "revoked" \in Labels
    BY DEF Labels
  <2> QED  BY <1>3, <1>8, <2>1, <2>2
<1>14. ASSUME NEW t, NEW a, BeginRefresh(r, t, a)
       PROVE  \E next : Become(r, next) /\ next.family # f /\ next.at = now /\ sessions' = sessions
  <2>1. PICK next : /\ next = [Goto(r, "refreshing") EXCEPT !.token = t, !.access = a, !.at = now]
                    /\ Become(r, next) /\ s.pc = "idle" /\ sessions' = sessions
    BY <1>14 DEF BeginRefresh, Idle, docs
  <2>2. next.family = s.family /\ next.at = now
    BY <1>1, <2>1 DEF Goto, Request
  <2> QED  BY <1>2, <2>1, <2>2
<1>15. CASE Rotate(r)
  <2>1. PICK u, g, t, next :
          /\ g = refreshTokens[s.token].family
          /\ next = [IdleRequest EXCEPT !.pc = "issuing", !.family = g, !.user = u, !.token = t]
          /\ Become(r, next)
    BY <1>15 DEF Rotate
  <2>2. next.family = refreshTokens[s.token].family /\ next.pc = "issuing"
    BY <2>1 DEF IdleRequest
  <2>3. next.family # f
    <3> SUFFICES ASSUME refreshTokens[s.token].family = f PROVE FALSE
      BY <2>2
    <3>1. /\ s.pc = "refreshing"
          /\ ~RequiresMfaForRefresh(families[f], HasActiveAccess(r, f), s.at)
      BY <1>15 DEF Rotate, MayRotate, Refreshing
    <3> QED  BY <3>1 DEF Lapsed, RequiresMfaForRefresh
  <2> QED  BY <2>1, <2>2, <2>3 DEF Quiet
<1>16. ASSUME NEW a \in AccessTokens, Authenticate(r, a)
       PROVE  \E next : Become(r, next) /\ Quiet(next, f)
  <2>1. PICK next :
          /\ next = [Goto(r, IF sessions[a].expiresAt < now THEN "rejecting" ELSE "authenticating")
                       EXCEPT !.access = a, !.user = sessions[a].user, !.family = sessions[a].family]
          /\ Become(r, next) /\ Exists(sessions, a)
    BY <1>16 DEF Authenticate
  <2>2. /\ next.family = sessions[a].family /\ next.pc # "refreshing"
        /\ sessions[a].expiresAt < now => next.pc = "rejecting"
    BY <1>1, <2>1 DEF Goto, Request
  <2> QED  BY <2>1, <2>2 DEF Quiet, Lapsed
<1>17. CASE CheckFamily(r)
  <2>1. PICK next : /\ \/ next = [Goto(r, "authed") EXCEPT !.access = None]
                       \/ next = Goto(r, "rejecting")
                    /\ Become(r, next) /\ s.pc = "authenticating"
    BY <1>17 DEF CheckFamily
  <2>2. next.family = s.family /\ next.pc # "refreshing"
    BY <1>1, <2>1 DEF Goto, Request
  <2> QED  BY <1>2, <2>1, <2>2 DEF Quiet
<1>18. ASSUME NEW update, ReadOwnedFamily(r, update)
       PROVE  \E next : Become(r, next) /\ Quiet(next, f)
  <2>1. PICK next : /\ next = [Goto(r, "writing") EXCEPT !.update = update, !.at = now]
                    /\ Become(r, next) /\ s.pc = "authed"
    BY <1>18 DEF ReadOwnedFamily
  <2>2. next.family = s.family /\ next.pc # "refreshing"
    BY <1>1, <2>1 DEF Goto, Request
  <2> QED  BY <1>2, <2>1, <2>2 DEF Quiet
<1>19. CASE UpdateFamily(r)
  <2>1. PICK next : /\ \/ next = [Goto(r, "authed") EXCEPT !.update = "none", !.at = 0]
                       \/ next = IdleRequest
                    /\ Become(r, next) /\ s.pc = "writing"
    BY <1>19 DEF UpdateFamily
  <2>2. CASE next = IdleRequest
    BY <2>1, <2>2, IdleQuiet
  <2>3. CASE next = [Goto(r, "authed") EXCEPT !.update = "none", !.at = 0]
    <3>1. next.family = s.family /\ next.pc # "refreshing"
      BY <1>1, <2>3 DEF Goto, Request
    <3> QED  BY <1>2, <2>1, <3>1 DEF Quiet
  <2> QED  BY <2>1, <2>2, <2>3
<1>20. CASE SignOut(r)
  <2>1. PICK next : /\ next = [Goto(r, "childSessions") EXCEPT !.target = s.family]
                    /\ Become(r, next) /\ s.pc = "authed"
    BY <1>20 DEF SignOut
  <2>2. next.family = s.family /\ next.pc # "refreshing"
    BY <1>1, <2>1 DEF Goto, Request
  <2> QED  BY <1>2, <2>1, <2>2 DEF Quiet
<1>21. ASSUME NEW spared, BeginRevokeAll(r, spared)
       PROVE  \E next : Become(r, next) /\ Quiet(next, f)
  <2>1. PICK prior, next : /\ next = [Goto(r, "revokeSessions") EXCEPT !.target = spared, !.prior = prior]
                           /\ Become(r, next) /\ s.pc = "authed"
    BY <1>21 DEF BeginRevokeAll
  <2>2. next.family = s.family /\ next.pc # "refreshing"
    BY <1>1, <2>1 DEF Goto, Request
  <2> QED  BY <1>2, <2>1, <2>2 DEF Quiet
<1>22. CASE \E next : Become(r, next) /\ Quiet(next, f)
  BY <1>22
<1>23. CASE \E t \in RefreshTokens, a \in AccessTokens \cup {None} : BeginRefresh(r, t, a)
  BY <1>14, <1>23
<1> QED  BY <1>4, <1>5, <1>6, <1>7, <1>9, <1>10, <1>11, <1>12, <1>13, <1>15, <1>16, <1>17, <1>18,
            <1>19, <1>20, <1>21, <1>22, <1>23 DEF Step


\* An access session that a step has left, it has not changed, or it has written
\* it for the family of its request.
LEMMA SessionsKeep ==
    ASSUME IInv, [Next]_vars, NEW a \in AccessTokens, sessions'[a] # None
    PROVE  \/ sessions'[a] = sessions[a]
           \/ \E r \in Requests : CreateAccessToken(r) /\ sessions'[a].family = req[r].family
<1> USE DEF IInv
<1>0. ASSUME NEW gone, sessions' = Delete(sessions, gone)
      PROVE  sessions'[a] = sessions[a]
  BY <1>0 DEF Delete, TypeOK
<1>1. CASE Tick \/ UNCHANGED vars
  BY <1>1 DEF Tick, docs, vars
<1>2. CASE JobStep
  BY <1>0, <1>2 DEF JobStep, StartJob, JobReadsPage, JobDeletesPage, JobFails, docs
<1>3. ASSUME NEW r \in Requests, CreateAccessToken(r)
      PROVE  sessions'[a] = sessions[a] \/ sessions'[a].family = req[r].family
  BY <1>3 DEF CreateAccessToken, TypeOK
<1>4. ASSUME NEW r \in Requests,
             \/ \E u \in Users, d \in Devices \cup {None}, m, tr, sweep \in BOOLEAN :
                  Login(r, u, d, m, tr, sweep)
             \/ FindStaleFamilies(r) \/ SweepNextFamily(r) \/ SweepFails(r) \/ DeleteChildTokens(r)
             \/ \E t \in RefreshTokens, b \in AccessTokens \cup {None} : BeginRefresh(r, t, b)
             \/ \E b \in AccessTokens : Authenticate(r, b)
             \/ CheckFamily(r) \/ UpdateFamily(r) \/ SignOut(r)
             \/ \E update \in {"verify", "trust", "untrust"} : ReadOwnedFamily(r, update)
             \/ \E spared \in Families \cup {None} : BeginRevokeAll(r, spared)
             \/ RevokeFamilies(r) \/ RevokeTokens(r) \/ EndRequest(r)
      PROVE  sessions' = sessions
  BY <1>4 DEF Login, FindStaleFamilies, SweepNextFamily, SweepFails, DeleteChildTokens, BeginRefresh,
              Authenticate, CheckFamily, UpdateFamily, SignOut, ReadOwnedFamily, BeginRevokeAll,
              RevokeFamilies, RevokeTokens, EndRequest, docs
<1>5. ASSUME NEW r \in Requests,
             \/ DeleteChildSessions(r) \/ TokenReused(r) \/ TokenExpired(r) \/ Rotate(r)
             \/ DropAccessSession(r) \/ RevokeSessions(r)
      PROVE  sessions'[a] = sessions[a]
  <2>1. \E gone : sessions' = Delete(sessions, gone)
    BY <1>5, Zenon DEF DeleteChildSessions, TokenReused, TokenExpired, Rotate, DropAccessSession, RevokeSessions
  <2> QED  BY <1>0, <2>1
<1> QED  BY <1>1, <1>2, <1>3, <1>4, <1>5 DEF Next, Step

LEMMA LapsedStep ==
    ASSUME IInv, [Next]_vars, NEW f \in Families, Lapsed(f), Exists(families, f)'
    PROVE  Lapsed(f)'
<1> USE DEF IInv
<1>1. families[f] # None /\ families'[f] # None
  BY DEF Lapsed, Exists
<1>2. families'[f].hasMfa /\ ~families'[f].trusted /\ families'[f].user = families[f].user
  <2>1. \A r \in Requests : ~(UpdateFamily(r) /\ req[r].family = f)
    BY DEF Lapsed, UpdateFamily
  <2> QED  BY <1>1, <2>1, FamilyKeeps DEF Lapsed
<1>3. ASSUME NEW a \in AccessTokens, sessions'[a] # None, sessions'[a].family = f
      PROVE  sessions'[a] = sessions[a]
  <2>1. ASSUME NEW r \in Requests, CreateAccessToken(r) PROVE req[r].family # f
    BY <2>1 DEF CreateAccessToken, Lapsed
  <2> QED  BY <1>3, <2>1, SessionsKeep
<1>4. ASSUME NEW a \in AccessTokens, Exists(sessions, a)', sessions'[a].family = f
      PROVE  sessions'[a].expiresAt < now'
  <2>1. sessions'[a] = sessions[a] /\ sessions[a] \in Session
    BY <1>3, <1>4 DEF Exists, TypeOK
  <2>2. sessions[a].expiresAt < now
    BY <1>4, <2>1 DEF Lapsed, Exists
  <2> QED  BY <2>1, <2>2, TimePasses DEF Session
\* What the step does not change of a request's right to refresh.
<1>5. ASSUME NEW r \in Requests, req'[r] = req[r]
      PROVE  /\ req'[r].family = f => req'[r].pc = "rejecting"
             /\ req'[r].pc = "refreshing" => ~HasActiveAccess(r, f)'
  <2>1. req'[r].family = f => req'[r].pc = "rejecting"
    BY <1>5 DEF Lapsed
  <2>2. ASSUME req'[r].pc = "refreshing", HasActiveAccess(r, f)' PROVE FALSE
    <3>1. PICK a \in AccessTokens : a = req[r].access
      BY <1>5, <2>2 DEF HasActiveAccess, Exists, TypeOK, Request
    <3>2. /\ a # None /\ sessions'[a] # None /\ sessions'[a].expiresAt > req[r].at
          /\ sessions'[a].family = f /\ sessions'[a].user = families'[f].user
      BY <1>5, <2>2, <3>1 DEF HasActiveAccess, Exists
    <3>3. sessions'[a] = sessions[a]
      BY <1>3, <3>2
    <3>4. HasActiveAccess(r, f)
      BY <1>2, <3>1, <3>2, <3>3 DEF HasActiveAccess, Exists
    <3> QED  BY <1>5, <2>2, <3>4 DEF Lapsed
  <2> QED  BY <2>1, <2>2
<1>6. ASSUME NEW r \in Requests, Step(r)
      PROVE  \A q \in Requests :
               /\ req'[q].family = f => req'[q].pc = "rejecting"
               /\ req'[q].pc = "refreshing" => ~HasActiveAccess(q, f)'
  <2>1. PICK next : /\ Become(r, next)
                    /\ \/ Quiet(next, f)
                       \/ next.family # f /\ next.at = now /\ sessions' = sessions
    BY <1>6, LapsedNext
  <2>2. req'[r] = next /\ \A q \in Requests \ {r} : req'[q] = req[q]
    BY <2>1 DEF Become, TypeOK
  <2>3. /\ req'[r].family = f => req'[r].pc = "rejecting"
        /\ req'[r].pc = "refreshing" => ~HasActiveAccess(r, f)'
    <3>1. CASE Quiet(next, f)
      BY <2>2, <3>1 DEF Quiet
    <3>2. ASSUME next.family # f, next.at = now, sessions' = sessions, HasActiveAccess(r, f)'
          PROVE  FALSE
      <4>1. PICK a : a = req'[r].access
        OBVIOUS
      <4>2. /\ a # None /\ sessions[a] # None /\ sessions[a].expiresAt > now
            /\ sessions[a].family = f
        BY <2>2, <3>2, <4>1 DEF HasActiveAccess, Exists
      <4>3. a \in AccessTokens
        <5>1. TypeOK'
          BY NextType
        <5> QED  BY <4>1, <4>2, <5>1 DEF TypeOK, Request
      <4>4. sessions[a] \in Session /\ sessions[a].expiresAt < now
        BY <4>2, <4>3 DEF TypeOK, Lapsed, Exists
      <4> QED  BY <4>2, <4>4 DEF Session, TypeOK
    <3> QED  BY <2>1, <2>2, <3>1, <3>2
  <2> QED  BY <1>5, <2>2, <2>3
<1>7. \A q \in Requests :
               /\ req'[q].family = f => req'[q].pc = "rejecting"
               /\ req'[q].pc = "refreshing" => ~HasActiveAccess(q, f)'
  <2>1. CASE Tick \/ JobStep \/ UNCHANGED vars
    <3>1. req' = req
      BY <2>1 DEF Tick, JobStep, StartJob, JobReadsPage, JobDeletesPage, JobFails, vars
    <3> QED  BY <1>5, <3>1
  <2> QED  BY <1>6, <2>1 DEF Next
<1> QED  BY <1>2, <1>4, <1>7 DEF Lapsed

\* An MFA family that is not trusted and whose access sessions have run out can
\* only be deleted: neither a refresh, nor a late trust change, nor a request
\* already under way revives it, so the user logs in with a code again
\* (sessionMfaPolicy.ts, validateSession.ts).
THEOREM LapsedStaysLapsed == Spec => LapsedIsFinal
<1>1. IInv /\ [Next]_vars =>
        [\A f \in Families : Lapsed(f) => Lapsed(f)' \/ ~Exists(families, f)']_vars
  BY LapsedStep
<1> QED  BY <1>1, Inductive, PTL DEF Spec, LapsedIsFinal


-----------------------------------------------------------------------------
(* What a revocation of everything has done *)

\* Until the families are gone the request has them all to find; then they are
\* gone.
Revokes(q) ==
    /\ q.pc \in {"revokeSessions", "revokeFamilies"} =>
         \A f \in q.prior : /\ f # q.target /\ f \in minted
                            /\ families[f] # None => families[f].user = q.user
    /\ q.pc \in {"revokeTokens", "revoked"} =>
         \A f \in q.prior : f \in minted /\ families[f] = None

RevokeLabels == {"revokeSessions", "revokeFamilies", "revokeTokens", "revoked"}

LEMMA RevokesStays ==
    ASSUME IInv, [Next]_vars, NEW q \in Request, Revokes(q)
    PROVE  Revokes(q)'
<1>1. ASSUME NEW f \in q.prior, f \in minted
      PROVE  /\ f \in minted'
             /\ families[f] = None => families'[f] = None
             /\ (families[f] # None => families[f].user = q.user)
                  => (families'[f] # None => families'[f].user = q.user)
  <2>1. f \in Families
    BY DEF Request
  <2>2. f \in minted'
    BY <1>1, MintedGrows
  <2> QED  BY <1>1, <2>1, <2>2, NeverReborn, FamilyStays
<1> QED  BY <1>1 DEF Revokes

\* A refresh begins with the present reading of the clock, and a refresh token
\* a request has is an old one or one it has just drawn.
Carried(was, next) ==
    /\ next.pc = "refreshing" => next.at = now
    /\ next.token \in {was.token, None} \cup delivered \cup minted'

\* The steps outside a revocation.
LEMMA OutsideNext ==
    ASSUME IInv, NEW r \in Requests,
           \/ \E u \in Users, d \in Devices \cup {None}, m, tr, sweep \in BOOLEAN :
                Login(r, u, d, m, tr, sweep)
           \/ FindStaleFamilies(r) \/ SweepNextFamily(r) \/ SweepFails(r) \/ CreateAccessToken(r)
           \/ DeleteChildSessions(r) \/ DeleteChildTokens(r)
           \/ \E t \in RefreshTokens, a \in AccessTokens \cup {None} : BeginRefresh(r, t, a)
           \/ TokenReused(r) \/ TokenExpired(r) \/ Rotate(r)
           \/ \E a \in AccessTokens : Authenticate(r, a)
           \/ CheckFamily(r) \/ DropAccessSession(r)
           \/ \E update \in {"verify", "trust", "untrust"} : ReadOwnedFamily(r, update)
           \/ UpdateFamily(r) \/ SignOut(r) \/ EndRequest(r)
    PROVE  \E next : Become(r, next) /\ next.pc \notin RevokeLabels /\ Carried(req[r], next)
<1> USE DEF RevokeLabels, Carried
<1>1. req[r] \in Request
  BY DEF IInv, TypeOK
<1>2. IdleRequest.pc \notin RevokeLabels /\ Carried(req[r], IdleRequest)
  BY DEF IdleRequest
<1>3. CASE CreateAccessToken(r) \/ TokenReused(r) \/ TokenExpired(r) \/ DropAccessSession(r) \/ EndRequest(r)
  <2>1. Become(r, IdleRequest)
    BY <1>3 DEF CreateAccessToken, TokenReused, TokenExpired, DropAccessSession, EndRequest
  <2> QED  BY <1>2, <2>1
<1>4. ASSUME NEW u \in Users, NEW d \in Devices \cup {None},
             NEW m \in BOOLEAN, NEW tr \in BOOLEAN, NEW sweep \in BOOLEAN,
             Login(r, u, d, m, tr, sweep)
      PROVE  \E next : Become(r, next) /\ next.pc \notin RevokeLabels /\ Carried(req[r], next)
  <2>1. PICK f, t, next :
          /\ next = [Goto(r, IF d # None /\ sweep THEN "loggedIn" ELSE "issuing")
                       EXCEPT !.user = u, !.device = d, !.family = f, !.token = t]
          /\ Become(r, next) /\ t \in minted'
    BY <1>4 DEF Login
  <2>2. next.pc \in {"loggedIn", "issuing"} /\ next.token = t
    BY <1>1, <2>1 DEF Goto, Request
  <2> QED  BY <2>1, <2>2
<1>5. CASE FindStaleFamilies(r)
  <2>1. PICK todo, next :
          /\ next = [Goto(r, IF todo = {} THEN "issuing" ELSE "sweeping") EXCEPT !.todo = todo]
          /\ Become(r, next)
    BY <1>5 DEF FindStaleFamilies
  <2>2. next.pc \in {"issuing", "sweeping"} /\ next.token = req[r].token
    BY <1>1, <2>1 DEF Goto, Request
  <2> QED  BY <2>1, <2>2
<1>6. CASE SweepNextFamily(r) \/ SweepFails(r) \/ SignOut(r)
  <2>1. CASE SweepNextFamily(r)
    <3>1. PICK g, next : next = [Goto(r, "childSessions") EXCEPT !.target = g] /\ Become(r, next)
      BY <2>1 DEF SweepNextFamily
    <3>2. next.pc = "childSessions" /\ next.token = req[r].token
      BY <1>1, <3>1 DEF Goto, Request
    <3> QED  BY <3>1, <3>2
  <2>2. CASE SweepFails(r)
    <3>1. PICK next : /\ next = [Goto(r, "issuing") EXCEPT !.todo = {}, !.target = None, !.page = 0]
                      /\ Become(r, next)
      BY <2>2 DEF SweepFails
    <3>2. next.pc = "issuing" /\ next.token = req[r].token
      BY <1>1, <3>1 DEF Goto, Request
    <3> QED  BY <3>1, <3>2
  <2>3. CASE SignOut(r)
    <3>1. PICK g, next : next = [Goto(r, "childSessions") EXCEPT !.target = g] /\ Become(r, next)
      BY <2>3 DEF SignOut
    <3>2. next.pc = "childSessions" /\ next.token = req[r].token
      BY <1>1, <3>1 DEF Goto, Request
    <3> QED  BY <3>1, <3>2
  <2> QED  BY <1>6, <2>1, <2>2, <2>3
<1>7. ASSUME NEW w, NEW gone, NEW onward \in Request, AfterPage(r, w, gone, onward),
             req[r].pc \notin RevokeLabels \cup {"refreshing"}, onward.pc \notin RevokeLabels \cup {"refreshing"},
             onward.token \in {req[r].token, None}
      PROVE  \E next : Become(r, next) /\ next.pc \notin RevokeLabels /\ Carried(req[r], next)
  <2>1. PICK next : Become(r, next) /\ (\/ next = [onward EXCEPT !.page = 0]
                                        \/ next = [req[r] EXCEPT !.page = req[r].page + 1])
    BY <1>7 DEF AfterPage
  <2>2. next.pc \in {onward.pc, req[r].pc} /\ next.token \in {onward.token, req[r].token}
    BY <1>1, <2>1 DEF Request
  <2> QED  BY <1>7, <2>1, <2>2
<1>8. CASE DeleteChildSessions(r)
  <2>1. PICK w : AfterPage(r, w, w, Goto(r, "childTokens")) /\ req[r].pc = "childSessions"
    BY <1>8 DEF DeleteChildSessions
  <2>2. /\ Goto(r, "childTokens") \in Request /\ Goto(r, "childTokens").pc = "childTokens"
        /\ Goto(r, "childTokens").token = req[r].token
    BY <1>1 DEF Goto, Request, Labels
  <2> QED  BY <1>7, <2>1, <2>2
<1>9. CASE DeleteChildTokens(r)
  <2>1. PICK w : AfterPage(r, w, w, ChildrenDeleted(r)) /\ req[r].pc = "childTokens"
    BY <1>9 DEF DeleteChildTokens
  <2>2. ChildrenDeleted(r) \in Request
    BY ChildrenDeletedType DEF IInv
  <2>3. /\ ChildrenDeleted(r).pc \in {"idle", "issuing", "sweeping"}
        /\ ChildrenDeleted(r).token \in {req[r].token, None}
    BY <1>1 DEF ChildrenDeleted, Goto, Request, IdleRequest
  <2> QED  BY <1>7, <2>1, <2>2, <2>3
<1>10. ASSUME NEW t, NEW a, BeginRefresh(r, t, a)
       PROVE  \E next : Become(r, next) /\ next.pc \notin RevokeLabels /\ Carried(req[r], next)
  <2>1. PICK next : /\ next = [Goto(r, "refreshing") EXCEPT !.token = t, !.access = a, !.at = now]
                    /\ Become(r, next) /\ t \in delivered
    BY <1>10 DEF BeginRefresh
  <2>2. next.pc = "refreshing" /\ next.token = t /\ next.at = now
    BY <1>1, <2>1 DEF Goto, Request
  <2> QED  BY <2>1, <2>2
<1>11. CASE Rotate(r)
  <2>1. PICK u, g, t, next :
          /\ next = [IdleRequest EXCEPT !.pc = "issuing", !.family = g, !.user = u, !.token = t]
          /\ Become(r, next) /\ t \in minted'
    BY <1>11 DEF Rotate
  <2>2. next.pc = "issuing" /\ next.token = t
    BY <2>1 DEF IdleRequest
  <2> QED  BY <2>1, <2>2
<1>12. ASSUME NEW a, Authenticate(r, a)
       PROVE  \E next : Become(r, next) /\ next.pc \notin RevokeLabels /\ Carried(req[r], next)
  <2>1. PICK next :
          /\ next = [Goto(r, IF sessions[a].expiresAt < now THEN "rejecting" ELSE "authenticating")
                       EXCEPT !.access = a, !.user = sessions[a].user, !.family = sessions[a].family]
          /\ Become(r, next)
    BY <1>12 DEF Authenticate
  <2>2. next.pc \in {"rejecting", "authenticating"} /\ next.token = req[r].token
    BY <1>1, <2>1 DEF Goto, Request
  <2> QED  BY <2>1, <2>2
<1>13. CASE CheckFamily(r)
  <2>1. PICK next : /\ \/ next = [Goto(r, "authed") EXCEPT !.access = None]
                       \/ next = Goto(r, "rejecting")
                    /\ Become(r, next)
    BY <1>13 DEF CheckFamily
  <2>2. next.pc \in {"rejecting", "authed"} /\ next.token = req[r].token
    BY <1>1, <2>1 DEF Goto, Request
  <2> QED  BY <2>1, <2>2
<1>14. ASSUME NEW update, ReadOwnedFamily(r, update)
       PROVE  \E next : Become(r, next) /\ next.pc \notin RevokeLabels /\ Carried(req[r], next)
  <2>1. PICK next : /\ next = [Goto(r, "writing") EXCEPT !.update = update, !.at = now]
                    /\ Become(r, next)
    BY <1>14 DEF ReadOwnedFamily
  <2>2. next.pc = "writing" /\ next.token = req[r].token
    BY <1>1, <2>1 DEF Goto, Request
  <2> QED  BY <2>1, <2>2
<1>15. CASE UpdateFamily(r)
  <2>1. PICK next : /\ \/ next = [Goto(r, "authed") EXCEPT !.update = "none", !.at = 0]
                       \/ next = IdleRequest
                    /\ Become(r, next)
    BY <1>15 DEF UpdateFamily
  <2>2. (next.pc = "authed" /\ next.token = req[r].token) \/ next = IdleRequest
    BY <1>1, <2>1 DEF Goto, Request
  <2> QED  BY <1>2, <2>1, <2>2
<1> QED  BY <1>3, <1>4, <1>5, <1>6, <1>8, <1>9, <1>10, <1>11, <1>12, <1>13, <1>14, <1>15

\* The steps of a revocation.
LEMMA InsideNext ==
    ASSUME IInv, NEW r \in Requests,
           \/ \E spared \in Families \cup {None} : BeginRevokeAll(r, spared)
           \/ RevokeSessions(r) \/ RevokeFamilies(r) \/ RevokeTokens(r)
    PROVE  \E next : Become(r, next) /\ Carried(req[r], next)
<1>1. req[r] \in Request
  BY DEF IInv, TypeOK
<1>2. ASSUME NEW spared, BeginRevokeAll(r, spared)
      PROVE  \E next : Become(r, next) /\ Carried(req[r], next)
  <2>1. PICK prior, next : /\ next = [Goto(r, "revokeSessions") EXCEPT !.target = spared, !.prior = prior]
                           /\ Become(r, next)
    BY <1>2 DEF BeginRevokeAll
  <2>2. next.pc = "revokeSessions" /\ next.token = req[r].token
    BY <1>1, <2>1 DEF Goto, Request
  <2> QED  BY <2>1, <2>2 DEF Carried
<1>3. ASSUME NEW w, NEW gone, NEW pc, AfterPage(r, w, gone, Goto(r, pc)),
             pc # "refreshing", req[r].pc # "refreshing"
      PROVE  \E next : Become(r, next) /\ Carried(req[r], next)
  <2>1. PICK next : Become(r, next) /\ (\/ next = [Goto(r, pc) EXCEPT !.page = 0]
                                        \/ next = [req[r] EXCEPT !.page = req[r].page + 1])
    BY <1>3 DEF AfterPage
  <2>2. next.pc \in {pc, req[r].pc} /\ next.token = req[r].token
    BY <1>1, <2>1 DEF Goto, Request
  <2> QED  BY <1>3, <2>1, <2>2 DEF Carried
<1>4. CASE RevokeSessions(r)
  BY <1>3, <1>4 DEF RevokeSessions
<1>5. CASE RevokeFamilies(r)
  BY <1>3, <1>5 DEF RevokeFamilies
<1>6. CASE RevokeTokens(r)
  BY <1>3, <1>6 DEF RevokeTokens
<1> QED  BY <1>2, <1>4, <1>5, <1>6

\* The page budget reaches to the end: on the last page a revocation may read,
\* the query returns every family that is left.
WithinBudget ==
    \A r \in Requests :
        req[r].pc = "revokeFamilies" /\ req[r].page + 1 >= MaxPages =>
            Cardinality(OwnedBy(families, req[r].user)) <= PageSize

\* A window that ends the loop holds every family there is, apart from the one
\* to be spared.
LEMMA LastWindow ==
    ASSUME NEW matching, NEW w \in Windows(matching), NEW target, NEW page \in Nat, PageSize > 1,
           LastPage(w, w \ {target}, page),
           page + 1 >= MaxPages => Cardinality(matching) <= PageSize
    PROVE  w = matching
<1>1. PageSize \in Nat
  BY ConstantsAssumption
<1>2. IF Cardinality(matching) <= PageSize THEN w = matching ELSE Cardinality(w) = PageSize
  BY DEF Windows
<1>3. CASE page + 1 >= MaxPages
  BY <1>2, <1>3
<1>4. CASE Cardinality(w) < PageSize
  BY <1>1, <1>2, <1>4
<1>5. CASE w \ {target} = {}
  <2>1. w = {} \/ w = {target}
    BY <1>5
  <2>2. Cardinality(w) = 0 \/ Cardinality(w) = 1
    BY <2>1, FS_EmptySet, FS_Singleton
  <2> QED  BY <1>1, <1>2, <2>2
<1> QED  BY <1>3, <1>4, <1>5 DEF LastPage

LEMMA BeginRevokes ==
    ASSUME IInv, NEW r \in Requests, NEW spared, BeginRevokeAll(r, spared)
    PROVE  \E next : Become(r, next) /\ Revokes(next)
<1>1. req[r] \in Request
  BY DEF IInv, TypeOK
<1> DEFINE prior == {f \in Families \ {spared} : /\ Exists(families, f)
                                                 /\ families[f].user = req[r].user}
           next == [Goto(r, "revokeSessions") EXCEPT !.target = spared, !.prior = prior]
<1>2. Become(r, next)
  BY DEF BeginRevokeAll
<1>3. next.pc = "revokeSessions" /\ next.target = spared /\ next.prior = prior /\ next.user = req[r].user
  BY <1>1 DEF Goto, Request
<1>4. \A f \in prior : f # spared /\ f \in minted /\ families[f].user = req[r].user
  BY DEF IInv, Recorded, Exists
<1> HIDE DEF next, prior
<1> QED  BY <1>2, <1>3, <1>4 DEF Revokes

\* A page of a revocation's sessions or refresh tokens.
LEMMA PageRevokes ==
    ASSUME IInv, NEW r \in Requests, Revokes(req[r]), RevokeSessions(r) \/ RevokeTokens(r)
    PROVE  \E next : Become(r, next) /\ Revokes(next)
<1> DEFINE s == req[r]
<1>1. s \in Request
  BY DEF IInv, TypeOK
<1>2. ASSUME NEW w, NEW gone, NEW pc,
             \/ s.pc = "revokeSessions" /\ pc = "revokeFamilies"
             \/ s.pc = "revokeTokens" /\ pc = "revoked",
             AfterPage(r, w, gone, Goto(r, pc))
      PROVE  \E next : Become(r, next) /\ Revokes(next)
  <2>1. PICK next : Become(r, next) /\ (\/ next = [Goto(r, pc) EXCEPT !.page = 0]
                                        \/ next = [s EXCEPT !.page = s.page + 1])
    BY <1>2 DEF AfterPage
  <2>2. /\ next.pc \in {s.pc, pc} /\ next.prior = s.prior
        /\ next.target = s.target /\ next.user = s.user
    BY <1>1, <2>1 DEF Goto, Request
  <2>3. Revokes(next)
    BY <1>2, <2>2 DEF Revokes
  <2> QED  BY <2>1, <2>3
<1>3. CASE RevokeSessions(r)
  BY <1>2, <1>3 DEF RevokeSessions
<1>4. CASE RevokeTokens(r)
  BY <1>2, <1>4 DEF RevokeTokens
<1> QED  BY <1>3, <1>4

\* A page of its families: the last one leaves none of those it had to end.
LEMMA FamiliesRevoked ==
    ASSUME IInv, [Next]_vars, WithinBudget, PageSize > 1,
           NEW r \in Requests, Revokes(req[r]), RevokeFamilies(r)
    PROVE  \E next : Become(r, next) /\ (Revokes(next) \/ Revokes(next)')
<1> DEFINE s == req[r]
           owned == OwnedBy(families, s.user)
<1>1. s \in Request /\ s.page \in Nat /\ s.prior \subseteq Families /\ s.pc = "revokeFamilies"
  BY DEF IInv, TypeOK, Request, Pages, RevokeFamilies
<1>2. PICK w \in Windows(owned) :
        /\ families' = Delete(families, w \ {s.target})
        /\ AfterPage(r, w, w \ {s.target}, Goto(r, "revokeTokens"))
  BY DEF RevokeFamilies
<1>3. CASE LastPage(w, w \ {s.target}, s.page)
  <2>1. PICK next, had : /\ next = [Goto(r, "revokeTokens") EXCEPT !.page = 0] /\ had = s.prior
                         /\ Become(r, next)
    BY <1>2, <1>3 DEF AfterPage
  <2>2. next.pc = "revokeTokens" /\ next.prior = had
    BY <1>1, <2>1 DEF Goto, Request
  <2>3. s.page + 1 >= MaxPages => Cardinality(owned) <= PageSize
    BY <1>1 DEF WithinBudget
  <2> HIDE DEF owned
  <2>4. w = owned
    BY <1>1, <1>2, <1>3, <2>3, LastWindow
  <2> USE DEF owned
  <2>5. ASSUME NEW f \in had PROVE f \in minted' /\ families'[f] = None
    <3>1. f \in Families /\ f # s.target /\ f \in minted /\ (families[f] # None => families[f].user = s.user)
      BY <1>1, <2>1 DEF Revokes
    <3>2. f # None
      BY <3>1, ConstantsAssumption DEF Ids
    <3>3. families[f] # None => f \in w
      BY <2>4, <3>1, <3>2 DEF OwnedBy, Exists, IInv, TypeOK
    <3>4. families'[f] = None
      BY <1>2, <3>1, <3>3 DEF Delete, IInv, TypeOK
    <3> QED  BY <3>1, <3>4, MintedGrows
  <2>6. Revokes(next)'
    BY <2>2, <2>5 DEF Revokes
  <2> QED  BY <2>1, <2>6
<1>4. CASE ~LastPage(w, w \ {s.target}, s.page)
  <2> DEFINE next == [s EXCEPT !.page = s.page + 1]
  <2>1. Become(r, next)
    BY <1>2, <1>4 DEF AfterPage
  <2>2. next.pc = s.pc /\ next.prior = s.prior /\ next.target = s.target /\ next.user = s.user
    BY <1>1 DEF Request
  <2> HIDE DEF next
  <2>3. Revokes(next)
    BY <2>2 DEF Revokes
  <2> QED  BY <2>1, <2>3
<1> QED  BY <1>3, <1>4

LEMMA RevokesStep ==
    ASSUME IInv, TypeOK', [Next]_vars, WithinBudget, PageSize > 1, \A r \in Requests : Revokes(req[r])
    PROVE  (\A r \in Requests : Revokes(req[r]))'
<1> USE DEF IInv
<1>1. CASE req' = req
  <2>1. \A q : q \in {req[r] : r \in Requests} => Revokes(q)'
    BY RevokesStays DEF TypeOK
  <2> QED  BY <1>1, <2>1
<1>2. CASE req' # req
  <2>1. PICK r \in Requests : Step(r)
    BY <1>2 DEF Next, Tick, JobStep, StartJob, JobReadsPage, JobDeletesPage, JobFails, vars
  <2>2. \E next : Become(r, next) /\ (Revokes(next) \/ Revokes(next)')
    <3>1. CASE RevokeFamilies(r)
      BY <3>1, FamiliesRevoked
    <3>2. CASE RevokeSessions(r) \/ RevokeTokens(r)
      BY <3>2, PageRevokes
    <3>3. CASE \E spared \in Families \cup {None} : BeginRevokeAll(r, spared)
      BY <3>3, BeginRevokes
    <3>4. CASE \E next : Become(r, next) /\ next.pc \notin RevokeLabels
      BY <3>4 DEF Revokes, RevokeLabels
    <3> QED  BY <2>1, <3>1, <3>2, <3>3, <3>4, OutsideNext DEF Step
  <2>3. PICK next : Become(r, next) /\ (Revokes(next) \/ Revokes(next)')
    BY <2>2
  <2>4. next \in Request /\ req'[r] = next /\ \A q \in Requests \ {r} : req'[q] = req[q]
    BY <2>3 DEF Become, TypeOK
  <2>5. Revokes(next)'
    BY <2>3, <2>4, RevokesStays
  <2>6. Revokes(req[r])'
    BY <2>4, <2>5 DEF Revokes
  <2>7. ASSUME NEW q \in Requests \ {r} PROVE Revokes(req[q])'
    <3>1. PICK then \in Request : then = req'[q] /\ Revokes(then)
      BY <2>4 DEF TypeOK
    <3>2. Revokes(then)'
      BY <3>1, RevokesStays
    <3> QED  BY <3>1, <3>2 DEF Revokes
  <2> QED  BY <2>6, <2>7
<1> QED  BY <1>1, <1>2

\* When a revocation of everything returns, none of the families the user had
\* when it began is left, apart from the one it spares, whatever logs in,
\* refreshes or signs out meanwhile: as long as the page budget reaches to the
\* end (deleteAllUserSessions, deletePagedQueryResults).
THEOREM RevocationEndsAll ==
    PageSize > 1 => (Spec /\ []WithinBudget => []RevocationComplete)
<1> SUFFICES ASSUME PageSize > 1 PROVE Spec /\ []WithinBudget => []RevocationComplete
  OBVIOUS
<1> DEFINE RInv == \A r \in Requests : Revokes(req[r])
<1>1. Init => RInv
  BY DEF Init, Revokes, IdleRequest
<1>2. IInv /\ IInv' /\ WithinBudget /\ RInv /\ [Next]_vars => RInv'
  <2>1. IInv' => TypeOK'
    BY DEF IInv
  <2> QED  BY <2>1, RevokesStep
<1>3. RInv => RevocationComplete
  BY DEF RevocationComplete, Revokes, Exists
<1> QED  BY <1>1, <1>2, <1>3, Inductive, PTL DEF Spec


-----------------------------------------------------------------------------
(* What the maintenance job has swept *)

Usable(t) == refreshTokens[t] # None /\ ~refreshTokens[t].used

\* Whoever presents token t has read the clock too late for it.
Doomed(t) ==
    /\ refreshTokens[t].expiresAt < now
    /\ \A r \in Requests : req[r].pc = "refreshing" /\ req[r].token = t =>
         req[r].at > refreshTokens[t].expiresAt

Outdated == {t \in RefreshTokens : Usable(t) /\ refreshTokens[t].expiresAt < job.at}

\* The job holds the last page of tokens that it is going to delete.
LastRead ==
    /\ job.pc = "refreshTokens" /\ job.batch # {}
    /\ Cardinality(job.batch) < PageSize \/ job.page + 1 >= MaxPages

\* The tokens of the families that the job has read are out of use.
Swept ==
    /\ job.at <= now
    /\ LastRead => \A t \in Outdated : t \in job.batch \/ Doomed(t)
    /\ job.pc = "families" =>
         /\ \A t \in Outdated : Doomed(t)
         /\ \A f \in job.batch : /\ f \in Families /\ f \in minted
                                 /\ families[f] # None => families[f].expiresAt < job.at

\* The page budget reaches to the end: on the last page of tokens the job may
\* read, the query returns every expired token that is left.
TokensWithinBudget ==
    job.pc = "refreshTokens" /\ job.batch = {} /\ job.page + 1 >= MaxPages =>
        Cardinality(ExpiredAt(refreshTokens, job.at)) <= PageSize

\* A refresh presents a token that was drawn before it began.
Drawn ==
    /\ delivered \subseteq minted
    /\ \A r \in Requests : req[r].token \in minted \cup {None}

LEMMA RequestNext ==
    ASSUME IInv, NEW r \in Requests, Step(r)
    PROVE  \E next : Become(r, next) /\ Carried(req[r], next)
<1>1. CASE \E next : Become(r, next) /\ next.pc \notin RevokeLabels /\ Carried(req[r], next)
  BY <1>1
<1>2. CASE \E next : Become(r, next) /\ Carried(req[r], next)
  BY <1>2
<1> QED  BY <1>1, <1>2, OutsideNext, InsideNext DEF Step

LEMMA RequestsAfter ==
    ASSUME IInv, [Next]_vars, NEW r \in Requests
    PROVE  req'[r] = req[r] \/ Carried(req[r], req'[r])
<1>1. CASE Tick \/ JobStep \/ UNCHANGED vars
  BY <1>1 DEF Tick, JobStep, StartJob, JobReadsPage, JobDeletesPage, JobFails, vars
<1>2. ASSUME NEW q \in Requests, Step(q)
      PROVE  req'[r] = req[r] \/ Carried(req[r], req'[r])
  <2>1. PICK next : Become(q, next) /\ Carried(req[q], next)
    BY <1>2, RequestNext
  <2>2. IF r = q THEN req'[r] = next ELSE req'[r] = req[r]
    BY <2>1 DEF Become, IInv, TypeOK
  <2> QED  BY <2>1, <2>2
<1> QED  BY <1>1, <1>2 DEF Next

LEMMA DrawnStep ==
    ASSUME IInv, [Next]_vars, Drawn
    PROVE  Drawn'
<1>1. minted \subseteq minted'
  BY MintedGrows
<1>2. ASSUME NEW r \in Requests PROVE req'[r].token \in minted' \cup {None}
  BY <1>1, RequestsAfter DEF Carried, Drawn
<1>3. delivered' \subseteq minted'
  <2>1. CASE Tick \/ JobStep \/ UNCHANGED vars
    BY <1>1, <2>1 DEF Drawn, Tick, JobStep, StartJob, JobReadsPage, JobDeletesPage, JobFails, vars, issued
  <2>2. ASSUME NEW r \in Requests, CreateAccessToken(r) PROVE delivered' \subseteq minted'
    <3>1. req[r].token # None
      BY <2>2 DEF CreateAccessToken, IInv, IssuerCarries, Issuer, Carries
    <3> QED  BY <1>1, <2>2, <3>1 DEF CreateAccessToken, Drawn
  <2>3. ASSUME NEW r \in Requests, Step(r), ~CreateAccessToken(r) PROVE delivered' = delivered
    <3>1. CASE \/ \E u \in Users, d \in Devices \cup {None}, m, tr, sweep \in BOOLEAN :
                    Login(r, u, d, m, tr, sweep)
               \/ FindStaleFamilies(r) \/ SweepNextFamily(r) \/ SweepFails(r)
               \/ DeleteChildSessions(r) \/ DeleteChildTokens(r)
               \/ \E t \in RefreshTokens, a \in AccessTokens \cup {None} : BeginRefresh(r, t, a)
      BY <3>1 DEF Login, FindStaleFamilies, SweepNextFamily, SweepFails, DeleteChildSessions,
                  DeleteChildTokens, BeginRefresh, issued
    <3>2. CASE \/ TokenReused(r) \/ TokenExpired(r) \/ Rotate(r)
               \/ \E a \in AccessTokens : Authenticate(r, a)
               \/ CheckFamily(r) \/ DropAccessSession(r)
               \/ \E update \in {"verify", "trust", "untrust"} : ReadOwnedFamily(r, update)
               \/ UpdateFamily(r)
      BY <3>2 DEF TokenReused, TokenExpired, Rotate, Authenticate, CheckFamily, DropAccessSession,
                  ReadOwnedFamily, UpdateFamily, issued
    <3>3. CASE \/ SignOut(r) \/ \E spared \in Families \cup {None} : BeginRevokeAll(r, spared)
               \/ RevokeSessions(r) \/ RevokeFamilies(r) \/ RevokeTokens(r) \/ EndRequest(r)
      BY <3>3 DEF SignOut, BeginRevokeAll, RevokeSessions, RevokeFamilies, RevokeTokens, EndRequest, issued
    <3> QED  BY <2>3, <3>1, <3>2, <3>3 DEF Step
  <2> QED  BY <1>1, <2>1, <2>2, <2>3 DEF Next, Drawn
<1> QED  BY <1>2, <1>3 DEF Drawn

\* A token that is usable after a step was so before, or has just been drawn.
LEMMA UsableBefore ==
    ASSUME IInv, [Next]_vars, NEW t \in RefreshTokens, Usable(t)'
    PROVE  \/ Usable(t) /\ refreshTokens'[t] = refreshTokens[t]
           \/ t \notin minted
<1>1. ASSUME NEW f \in Families, NEW t1 \in RefreshTokens, Opens(f, t1)
      PROVE  refreshTokens'[t] = refreshTokens[t] \/ t \notin minted
  BY <1>1 DEF Opens
<1>2. ASSUME NEW f \in Families, NEW t1 \in RefreshTokens, NEW t2 \in RefreshTokens, Rotates(f, t1, t2)
      PROVE  refreshTokens'[t] = refreshTokens[t] \/ t \notin minted
  <2>1. t1 \in UnusedTokens(f) /\ refreshTokens'[t1] = [refreshTokens[t1] EXCEPT !.used = TRUE, !.replacedBy = t2]
    BY <1>2 DEF Rotates
  <2>2. refreshTokens[t1] \in RefreshToken
    BY <2>1 DEF UnusedTokens, Exists, IInv, TypeOK
  <2>3. refreshTokens'[t1].used
    BY <2>1, <2>2 DEF RefreshToken
  <2>4. t # t1
    BY <2>3 DEF Usable
  <2> QED  BY <1>2, <2>4 DEF Rotates
<1>3. CASE NothingGrows
  BY <1>3 DEF NothingGrows, Usable
<1>4. refreshTokens'[t] = refreshTokens[t] \/ t \notin minted
  BY <1>1, <1>2, <1>3, StepShape DEF IInv
<1> QED  BY <1>4 DEF Usable

\* A token out of use stays so, and so does an expired one that has just been
\* drawn: nobody has presented it yet.
LEMMA StaysDoomed ==
    ASSUME IInv, TypeOK', Drawn, [Next]_vars, NEW t \in RefreshTokens, Usable(t)',
           refreshTokens'[t].expiresAt < now, Usable(t) => Doomed(t)
    PROVE  Doomed(t)'
<1> DEFINE e == refreshTokens'[t].expiresAt
<1>1. e \in Nat
  BY DEF Usable, TypeOK, RefreshToken
<1>2. now \in Nat /\ now' \in Nat /\ now' >= now
  BY TimePasses
<1>3. ASSUME NEW r \in Requests, req'[r].pc = "refreshing", req'[r].token = t
      PROVE  req'[r].at > e
  <2>1. CASE Carried(req[r], req'[r])
    BY <1>1, <1>2, <1>3, <2>1 DEF Carried
  <2>2. CASE req'[r] = req[r]
    <3>1. t # None
      BY ConstantsAssumption DEF Ids
    <3>2. t \in minted
      BY <1>3, <2>2, <3>1 DEF Drawn
    <3>3. Usable(t) /\ refreshTokens'[t] = refreshTokens[t]
      BY <3>2, UsableBefore
    <3> QED  BY <1>3, <2>2, <3>3 DEF Doomed
  <2> QED  BY <2>1, <2>2, RequestsAfter
<1> QED  BY <1>1, <1>2, <1>3 DEF Doomed

\* Nobody rotates a token out of use.
LEMMA DoomedStands ==
    ASSUME IInv, SameEnd, NEW r \in Requests, Rotate(r), NEW t \in RefreshTokens, t = req[r].token, Doomed(t)
    PROVE  FALSE
<1>1. /\ req[r].pc = "refreshing" /\ ~IsExpired(t, req[r].at)
      /\ refreshTokens[t] \in RefreshToken /\ req[r].at \in Nat
  BY RefreshingType DEF Rotate, MayRotate, Refreshing, IInv, TypeOK, Request
<1>2. req[r].at > refreshTokens[t].expiresAt
  BY <1>1 DEF Doomed
<1> QED  BY <1>1, <1>2 DEF IsExpired, RefreshToken


LEMMA EmptyWindow ==
    ASSUME NEW matching, {} \in Windows(matching)
    PROVE  matching = {}
<1>1. Cardinality({}) = 0 /\ PageSize \in Nat \ {0}
  BY FS_EmptySet, ConstantsAssumption
<1> QED  BY <1>1 DEF Windows

LEMMA AfterPhaseShape ==
    ASSUME TypeOK, job.pc # "idle"
    PROVE  /\ AfterPhase(job.pc).batch = {}
           /\ \/ job.pc = "sessions" /\ AfterPhase(job.pc).pc = "refreshTokens" /\ AfterPhase(job.pc).at = job.at
              \/ job.pc = "refreshTokens" /\ AfterPhase(job.pc).pc = "families" /\ AfterPhase(job.pc).at = job.at
              \/ job.pc = "families" /\ AfterPhase(job.pc).pc = "idle" /\ AfterPhase(job.pc).at = 0
<1>1. job \in Job /\ job.pc \in JobPhases
  BY DEF TypeOK, Job
<1>2. CASE job.pc = "sessions"
  BY <1>1, <1>2 DEF AfterPhase, Job
<1>3. CASE job.pc = "refreshTokens"
  BY <1>1, <1>3 DEF AfterPhase, Job
<1>4. CASE job.pc = "families"
  BY <1>1, <1>4 DEF AfterPhase, IdleJob
<1> QED  BY <1>1, <1>2, <1>3, <1>4 DEF JobPhases

\* While requests run, what the job has swept stays swept.
LEMMA SweptMeanwhile ==
    ASSUME EInv, TypeOK', Drawn, Swept, [Next]_vars, job' = job
    PROVE  Swept'
<1> USE DEF EInv
<1>1. now \in Nat /\ now' \in Nat /\ now' >= now /\ job.at \in Nat
  BY TimePasses DEF IInv, TypeOK, Job
<1>2. ASSUME NEW t \in RefreshTokens, t \in Outdated', t \in Outdated => Doomed(t)
      PROVE  Doomed(t)'
  <2>1. Usable(t)' /\ refreshTokens'[t].expiresAt < job.at /\ refreshTokens'[t].expiresAt \in Nat
    BY <1>2 DEF Outdated, Usable, TypeOK, RefreshToken
  <2>2. refreshTokens'[t].expiresAt < now
    BY <1>1, <2>1 DEF Swept
  <2>3. Usable(t) => Doomed(t)
    <3>1. Usable(t) => refreshTokens'[t] = refreshTokens[t]
      BY <2>1, UsableBefore DEF Usable, IInv, Recorded
    <3> QED  BY <1>2, <2>1, <3>1 DEF Outdated
  <2> QED  BY <2>1, <2>2, <2>3, StaysDoomed
<1>3. LastRead' => \A t \in Outdated' : t \in job'.batch \/ Doomed(t)'
  <2>1. LastRead' => LastRead
    BY DEF LastRead
  <2>2. Outdated' \subseteq RefreshTokens
    BY DEF Outdated
  <2> QED  BY <1>2, <2>1, <2>2 DEF Swept
<1>4. ASSUME job.pc = "families" PROVE \A t \in Outdated' : Doomed(t)'
  <2>2. Outdated' \subseteq RefreshTokens
    BY DEF Outdated
  <2> QED  BY <1>2, <1>4, <2>2 DEF Swept
<1>5. ASSUME job.pc = "families", NEW f \in job.batch
      PROVE  f \in Families /\ f \in minted' /\ (families'[f] # None => families'[f].expiresAt < job.at)
  <2>1. f \in Families /\ f \in minted /\ (families[f] # None => families[f].expiresAt < job.at)
    BY <1>5 DEF Swept
  <2>2. ASSUME families[f] # None, families'[f] # None, families'[f].expiresAt # families[f].expiresAt
        PROVE  FALSE
    <3>1. PICK r \in Requests : Rotate(r) /\ f = refreshTokens[req[r].token].family
      BY <2>1, <2>2, FamilyKeeps
    <3>2. PICK t \in RefreshTokens : t = req[r].token /\ Usable(t) /\ refreshTokens[t].family = f
      BY <3>1, RefreshingType DEF Rotate, MayRotate, Refreshing, Exists, Usable, IInv
    <3>3. refreshTokens[t].expiresAt = families[f].expiresAt
      BY <2>2, <3>2 DEF SameEnd, Usable
    <3>4. Doomed(t)
      BY <1>5, <2>1, <2>2, <3>2, <3>3 DEF Outdated, Swept
    <3> QED  BY <3>1, <3>2, <3>4, DoomedStands
  <2>3. families'[f] # None => families[f] # None
    BY <2>1, NeverReborn
  <2>4. f \in minted'
    BY <2>1, MintedGrows
  <2> QED  BY <2>1, <2>2, <2>3, <2>4
<1>6. job'.at <= now'
  BY <1>1 DEF Swept
<1> QED  BY <1>3, <1>4, <1>5, <1>6 DEF Swept

\* A step of the job between two phases, or back to idle.
LEMMA SweptBetween ==
    ASSUME job'.at <= now', job'.batch = {}, job'.pc # "families"
    PROVE  Swept'
BY DEF Swept, LastRead

LEMMA SweptRead ==
    ASSUME EInv, Swept, TokensWithinBudget, JobReadsPage
    PROVE  Swept'
<1> USE DEF EInv
<1>1. TypeOK /\ Recorded /\ job \in Job /\ now \in Nat /\ job.at \in Nat /\ job.at <= now
  BY DEF IInv, TypeOK, Job, Swept
<1>2. UNCHANGED <<families, refreshTokens, sessions, minted, now, req>>
  BY DEF JobReadsPage, docs, issued
<1> DEFINE expired == ExpiredAt(Collection(job.pc), job.at)
<1>3. PICK w \in Windows(expired) : job' = IF w = {} THEN AfterPhase(job.pc) ELSE [job EXCEPT !.batch = w]
  BY DEF JobReadsPage
<1>4. job.pc # "idle" /\ job.batch = {}
  BY DEF JobReadsPage
<1>5. \A t \in RefreshTokens : Doomed(t) => Doomed(t)'
  BY <1>2 DEF Doomed
<1>6. CASE w = {}
  <2>1. job' = AfterPhase(job.pc)
    BY <1>3, <1>6
  <2>2. job'.at <= now'
    BY <1>1, <1>2, <1>4, <2>1, AfterPhaseShape
  <2>3. CASE job.pc = "refreshTokens"
    <3>1. ExpiredAt(refreshTokens, job.at) = {}
      BY <1>3, <1>6, <2>3, EmptyWindow DEF Collection
    <3>2. job'.pc = "families" /\ job'.at = job.at /\ job'.batch = {}
      BY <1>1, <1>4, <2>1, <2>3, AfterPhaseShape
    <3>3. \A t \in RefreshTokens : t # None
      BY ConstantsAssumption DEF Ids
    <3>4. Outdated' = {}
      BY <1>1, <1>2, <3>1, <3>2, <3>3 DEF Outdated, Usable, ExpiredAt, Exists, TypeOK
    <3> QED  BY <2>2, <3>2, <3>4 DEF Swept, LastRead
  <2>4. CASE job.pc # "refreshTokens"
    BY <1>1, <1>4, <2>1, <2>2, <2>4, AfterPhaseShape, SweptBetween
  <2> QED  BY <2>3, <2>4
<1>7. CASE w # {}
  <2>1. job' = [job EXCEPT !.batch = w]
    BY <1>3, <1>7
  <2>2. job'.at = job.at /\ job'.pc = job.pc /\ job'.batch = w /\ job'.page = job.page
    BY <1>1, <2>1 DEF Job
  <2>3. Outdated' = Outdated
    BY <1>2, <2>2 DEF Outdated, Usable
  <2>4. LastRead' => Outdated \subseteq w
    <3> SUFFICES ASSUME LastRead', NEW t \in Outdated PROVE t \in w
      OBVIOUS
    <3>1. job.pc = "refreshTokens" /\ (Cardinality(w) < PageSize \/ job.page + 1 >= MaxPages)
      BY <2>2 DEF LastRead
    <3>2. w \in Windows(ExpiredAt(refreshTokens, job.at))
      BY <1>3, <3>1 DEF Collection
    <3>3. w = ExpiredAt(refreshTokens, job.at)
      BY <1>4, <3>1, <3>2, ConstantsAssumption DEF Windows, TokensWithinBudget
    <3>4. t # None
      BY ConstantsAssumption DEF Outdated, Ids
    <3> QED  BY <1>1, <3>3, <3>4 DEF Outdated, Usable, ExpiredAt, Exists, TypeOK
  <2>5. ASSUME job.pc = "families", NEW f \in w
        PROVE  f \in Families /\ f \in minted /\ families[f].expiresAt < job.at
    <3>1. f \in ExpiredAt(families, job.at)
      BY <1>3, <2>5 DEF Collection, Windows
    <3> QED  BY <1>1, <3>1 DEF ExpiredAt, Exists, Recorded, TypeOK
  <2>6. ASSUME job.pc = "families" PROVE \A t \in Outdated : Doomed(t)'
    BY <1>5, <2>6 DEF Swept, Outdated
  <2> QED  BY <1>1, <1>2, <2>2, <2>3, <2>4, <2>5, <2>6 DEF Swept
<1> QED  BY <1>6, <1>7

LEMMA SweptDelete ==
    ASSUME EInv, Swept, JobDeletesPage
    PROVE  Swept'
<1> USE DEF EInv
<1>1. TypeOK /\ job \in Job /\ now \in Nat /\ job.at \in Nat /\ job.at <= now
  BY DEF IInv, TypeOK, Job, Swept
<1>2. UNCHANGED <<minted, now, req>> /\ job.pc # "idle" /\ job.batch # {}
  BY DEF JobDeletesPage, issued
<1>3. \A t \in RefreshTokens : Doomed(t) /\ refreshTokens'[t] = refreshTokens[t] => Doomed(t)'
  BY <1>2 DEF Doomed
<1>4. job'.batch = {} /\ job'.at <= now'
  <2>1. CASE LastPage(job.batch, job.batch, job.page)
    BY <1>1, <1>2, <2>1, AfterPhaseShape DEF JobDeletesPage
  <2>2. CASE ~LastPage(job.batch, job.batch, job.page)
    BY <1>1, <1>2, <2>2 DEF JobDeletesPage, Job
  <2> QED  BY <2>1, <2>2
<1>5. CASE job'.pc # "families"
  BY <1>4, <1>5, SweptBetween
<1>6. CASE job'.pc = "families" /\ job.pc = "refreshTokens"
  <2>1. LastPage(job.batch, job.batch, job.page)
    BY <1>1, <1>6 DEF JobDeletesPage, Job
  <2>2. LastRead
    BY <1>2, <1>6, <2>1 DEF LastPage, LastRead
  <2>3. job'.at = job.at
    BY <1>1, <1>2, <1>6, <2>1, AfterPhaseShape DEF JobDeletesPage
  <2>4. ASSUME NEW t \in Outdated' PROVE Doomed(t)'
    <3>1. t \in RefreshTokens /\ refreshTokens' = Delete(refreshTokens, job.batch) /\ refreshTokens'[t] # None
      BY <1>6 DEF Outdated, Usable, JobDeletesPage
    <3>2. t \notin job.batch /\ refreshTokens'[t] = refreshTokens[t]
      BY <1>1, <3>1 DEF Delete, TypeOK
    <3>3. t \in Outdated
      BY <2>3, <2>4, <3>1, <3>2 DEF Outdated, Usable
    <3> QED  BY <1>3, <2>2, <3>1, <3>2, <3>3 DEF Swept
  <2> QED  BY <1>4, <2>4 DEF Swept, LastRead
<1>7. CASE job'.pc = "families" /\ job.pc = "families"
  <2>1. refreshTokens' = refreshTokens
    BY <1>7 DEF JobDeletesPage
  <2>2. job' = [job EXCEPT !.batch = {}, !.page = job.page + 1]
    BY <1>1, <1>2, <1>7, AfterPhaseShape DEF JobDeletesPage
  <2>3. job'.at = job.at
    BY <1>1, <2>2 DEF Job
  <2>4. Outdated' = Outdated
    BY <2>1, <2>3 DEF Outdated, Usable
  <2>5. \A t \in Outdated : Doomed(t)'
    BY <1>3, <1>7, <2>1 DEF Swept, Outdated
  <2> QED  BY <1>4, <2>4, <2>5 DEF Swept, LastRead
<1>8. job'.pc = "families" => job.pc \in {"refreshTokens", "families"}
  <2>1. CASE LastPage(job.batch, job.batch, job.page)
    BY <1>1, <1>2, <2>1, AfterPhaseShape DEF JobDeletesPage
  <2>2. CASE ~LastPage(job.batch, job.batch, job.page)
    BY <1>1, <1>2, <2>2 DEF JobDeletesPage, Job
  <2> QED  BY <2>1, <2>2
<1> QED  BY <1>5, <1>6, <1>7, <1>8

LEMMA SweptStep ==
    ASSUME EInv, TypeOK', Drawn, Swept, TokensWithinBudget, [Next]_vars
    PROVE  Swept'
<1>1. now \in Nat /\ job \in Job
  BY DEF EInv, IInv, TypeOK
<1>2. CASE StartJob
  <2>1. job' = [job EXCEPT !.pc = "sessions", !.at = now] /\ now' = now
    BY <1>2 DEF StartJob
  <2>2. job'.pc = "sessions" /\ job'.at = now
    BY <1>1, <2>1 DEF Job
  <2>3. job'.at <= now'
    BY <1>1, <2>1, <2>2
  <2> QED  BY <2>2, <2>3 DEF Swept, LastRead
<1>3. CASE JobFails
  <2>1. job' = IdleJob /\ now' = now
    BY <1>3 DEF JobFails
  <2>2. job'.at = 0 /\ job'.pc = "idle" /\ job'.batch = {}
    BY <2>1 DEF IdleJob
  <2>3. job'.at <= now'
    BY <1>1, <2>1, <2>2
  <2> QED  BY <2>2, <2>3, SweptBetween
<1>4. CASE JobReadsPage
  BY <1>4, SweptRead
<1>5. CASE JobDeletesPage
  BY <1>5, SweptDelete
<1>6. CASE job' = job
  BY <1>6, SweptMeanwhile
<1>7. ASSUME NEW r \in Requests, Step(r) PROVE job' = job
  <2>1. CASE \/ \E u \in Users, d \in Devices \cup {None}, m, tr, sweep \in BOOLEAN :
                  Login(r, u, d, m, tr, sweep)
             \/ FindStaleFamilies(r) \/ SweepNextFamily(r) \/ SweepFails(r) \/ CreateAccessToken(r)
             \/ DeleteChildSessions(r) \/ DeleteChildTokens(r)
             \/ \E t \in RefreshTokens, a \in AccessTokens \cup {None} : BeginRefresh(r, t, a)
    BY <2>1 DEF Login, FindStaleFamilies, SweepNextFamily, SweepFails, CreateAccessToken,
                DeleteChildSessions, DeleteChildTokens, BeginRefresh
  <2>2. CASE \/ TokenReused(r) \/ TokenExpired(r) \/ Rotate(r)
             \/ \E a \in AccessTokens : Authenticate(r, a)
             \/ CheckFamily(r) \/ DropAccessSession(r)
             \/ \E update \in {"verify", "trust", "untrust"} : ReadOwnedFamily(r, update)
             \/ UpdateFamily(r)
    BY <2>2 DEF TokenReused, TokenExpired, Rotate, Authenticate, CheckFamily, DropAccessSession,
                ReadOwnedFamily, UpdateFamily
  <2>3. CASE \/ SignOut(r) \/ \E spared \in Families \cup {None} : BeginRevokeAll(r, spared)
             \/ RevokeSessions(r) \/ RevokeFamilies(r) \/ RevokeTokens(r) \/ EndRequest(r)
    BY <2>3 DEF SignOut, BeginRevokeAll, RevokeSessions, RevokeFamilies, RevokeTokens, EndRequest
  <2> QED  BY <1>7, <2>1, <2>2, <2>3 DEF Step
<1>8. CASE Tick \/ UNCHANGED vars
  BY <1>6, <1>8 DEF Tick, vars
<1> QED  BY <1>2, <1>3, <1>4, <1>5, <1>6, <1>7, <1>8 DEF Next, JobStep

\* What the job deletes has expired when it does.
LEMMA ActiveStep ==
    ASSUME EInv, Swept, [Next]_vars, req' = req,
           NEW f \in Families, Live(f), families[f].expiresAt >= now
    PROVE  families'[f] # None
<1> USE DEF EInv
<1>1. /\ TypeOK /\ families[f] # None /\ families[f].expiresAt \in Nat
      /\ now \in Nat /\ job.at \in Nat /\ job.at <= now
  BY DEF Live, Exists, IInv, TypeOK, Family, Job, Swept
<1> SUFFICES ASSUME families'[f] = None PROVE FALSE
  OBVIOUS
<1>2. families' # families
  BY <1>1
<1>3. CASE JobDeletesPage
  <2>1. job.pc = "families" /\ families' = Delete(families, job.batch)
    BY <1>2, <1>3 DEF JobDeletesPage
  <2>2. f \in job.batch
    BY <1>1, <2>1 DEF Delete, TypeOK
  <2>3. families[f].expiresAt < job.at
    BY <1>1, <2>1, <2>2 DEF Swept
  <2> QED  BY <1>1, <2>3
<1>4. CASE Tick \/ StartJob \/ JobReadsPage \/ JobFails \/ UNCHANGED vars
  BY <1>2, <1>4 DEF Tick, StartJob, JobReadsPage, JobFails, vars, docs
<1>5. ASSUME NEW r \in Requests, Step(r), req' = req PROVE FALSE
  <2>1. req[r] \in Request
    BY DEF TypeOK, IInv
  <2>2. CASE SweepNextFamily(r)
    <3>1. PICK g : Become(r, [Goto(r, "childSessions") EXCEPT !.target = g]) /\ req[r].pc = "sweeping"
      BY <2>2 DEF SweepNextFamily
    <3>2. req'[r].pc = "childSessions"
      BY <1>1, <2>1, <3>1 DEF Become, Goto, Request, TypeOK
    <3> QED  BY <1>5, <3>1, <3>2
  <2>3. CASE TokenExpired(r)
    <3>1. req'[r].pc = "idle" /\ req[r].pc = "refreshing"
      BY <1>1, <2>3 DEF TokenExpired, Refreshing, Become, IdleRequest, TypeOK
    <3> QED  BY <1>5, <3>1
  <2>4. CASE SignOut(r)
    <3>1. PICK g : Become(r, [Goto(r, "childSessions") EXCEPT !.target = g]) /\ req[r].pc = "authed"
      BY <2>4 DEF SignOut
    <3>2. req'[r].pc = "childSessions"
      BY <1>1, <2>1, <3>1 DEF Become, Goto, Request, TypeOK
    <3> QED  BY <1>5, <3>1, <3>2
  <2>5. CASE RevokeFamilies(r)
    <3>1. PICK w, gone : AfterPage(r, w, gone, Goto(r, "revokeTokens")) /\ req[r].pc = "revokeFamilies"
      BY <2>5 DEF RevokeFamilies
    <3>2. PICK next : Become(r, next) /\ (\/ next = [Goto(r, "revokeTokens") EXCEPT !.page = 0]
                                          \/ next = [req[r] EXCEPT !.page = req[r].page + 1])
      BY <3>1 DEF AfterPage
    <3>3. next.pc = "revokeTokens" \/ next.page = req[r].page + 1
      BY <2>1, <3>2 DEF Goto, Request
    <3>4. next = req[r] /\ req[r].page \in Nat
      BY <1>1, <1>5, <2>1, <3>2 DEF Become, TypeOK, Request, Pages
    <3> QED  BY <3>1, <3>3, <3>4
  <2> QED  BY <1>1, <1>5, <2>2, <2>3, <2>4, <2>5, DeletingRequest
<1> QED  BY <1>3, <1>4, <1>5 DEF Next, JobStep

\* The maintenance job keeps active families: while it sweeps, a family it has
\* read as expired cannot be refreshed any more, whatever clock reading a refresh
\* works with, because its usable token is gone or out of use.  As long as the
\* page budget of the token phase reaches to the end (expiredSessionCleanup.ts).
THEOREM CleanupSparesActive == Spec /\ []TokensWithinBudget => CleanupKeepsActive
<1>1. Init => Drawn /\ Swept
  BY DEF Init, Drawn, Swept, LastRead, IdleJob, IdleRequest
<1>2. EInv /\ EInv' /\ Drawn /\ Swept /\ TokensWithinBudget /\ [Next]_vars => Drawn' /\ Swept'
  <2>1. EInv' => TypeOK'
    BY DEF EInv, IInv
  <2>2. EInv => IInv
    BY DEF EInv
  <2> QED  BY <2>1, <2>2, DrawnStep, SweptStep
<1>3. EInv /\ Swept /\ [Next]_vars =>
        [\A f \in Families :
           Live(f) /\ families[f].expiresAt >= now /\ req' = req => families'[f] # None]_vars
  BY ActiveStep
<1> QED  BY <1>1, <1>2, <1>3, EndInductive, PTL DEF Spec, CleanupKeepsActive
=============================================================================
