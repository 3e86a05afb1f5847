---------------------------- MODULE SessionStore ----------------------------
(***************************************************************************)
(* The session records of the backend: the three Firestore collections of  *)
(* sessionCollections.ts (refresh-token families, refresh tokens, access   *)
(* sessions) and every request that reads or writes them.  A request is a  *)
(* chain of Firestore calls separated by awaits: each call is one action,  *)
(* and calls of different requests interleave freely.  A request may fail  *)
(* after any call (Fail), which also stands for a crash of the process.    *)
(***************************************************************************)
EXTENDS Integers, FiniteSets

CONSTANTS
    Users, Devices,
    Families,       \* refresh-token family ids (random, never drawn twice)
    RefreshTokens,  \* refresh token ids
    AccessTokens,   \* access token hashes
    Requests,       \* request slots of the server
    None,           \* an absent document, id or field
    AccessLife, RefreshLife, MfaMaxAge,  \* the lifetimes of core/constants
    PageSize, MaxPages,                  \* the budget of one paged deletion
    MaxTime,        \* bound on the clock, for TLC only
    Routes          \* the routes clients call in this instance; no account has
                    \* MFA where "mfa" is not one

Ids == Families \cup RefreshTokens \cup AccessTokens

ASSUME ConstantsAssumption ==
    /\ None \notin Users \cup Devices \cup Ids
    /\ Families \cap RefreshTokens = {}
    /\ AccessTokens \cap (Families \cup RefreshTokens) = {}
    /\ {AccessLife, RefreshLife, MfaMaxAge, MaxTime} \subseteq Nat
    /\ {PageSize, MaxPages} \subseteq Nat \ {0}

VARIABLES
    families,       \* collection refreshTokenFamilies
    refreshTokens,  \* collection refreshTokens
    sessions,       \* collection sessions (access sessions)
    minted,         \* ids drawn so far: 32 random bytes are never drawn twice
    delivered,      \* refresh tokens that have reached a client in an answer
    now,            \* the server clock
    req,            \* the requests in progress
    job             \* the maintenance job cleanupExpiredSessionRecords

vars == <<families, refreshTokens, sessions, minted, delivered, now, req, job>>
docs == <<families, refreshTokens, sessions>>
issued == <<minted, delivered>>

-----------------------------------------------------------------------------
(* Documents and requests *)

Never == -1          \* mfaVerifiedAt: null

Family == [user: Users, device: Devices \cup {None}, hasMfa: BOOLEAN,
           trusted: BOOLEAN, verifiedAt: Nat \cup {Never},
           expiresAt: Nat, revoked: BOOLEAN]
RefreshToken == [family: Families, user: Users, expiresAt: Nat,
                 used: BOOLEAN, replacedBy: RefreshTokens \cup {None}]
Session == [family: Families, user: Users, expiresAt: Nat]

ASSUME NoneIsNoDocument == None \notin Family \cup RefreshToken \cup Session

\* The pages of one paged deletion.
Pages == 0 .. MaxPages - 1

Labels == {"idle", "authenticating", "rejecting", "authed", "writing",
           "refreshing", "loggedIn", "sweeping", "issuing",
           "childSessions", "childTokens",
           "revokeSessions", "revokeFamilies", "revokeTokens", "revoked"}

Request ==
    [pc: Labels,
     user: Users \cup {None},
     device: Devices \cup {None},
     family: Families \cup {None},        \* the family the request acts for
     token: RefreshTokens \cup {None},    \* refresh token presented, then minted
     access: AccessTokens \cup {None},    \* access token presented
     at: Nat,                             \* its own reading of the clock
     update: {"none", "verify", "trust", "untrust"},
     todo: SUBSET Families,               \* stale families still to sweep
     target: Families \cup {None},        \* family being deleted, or spared
     prior: SUBSET Families,              \* history: what revokeAll must end
     page: Pages]

IdleRequest ==
    [pc |-> "idle", user |-> None, device |-> None, family |-> None,
     token |-> None, access |-> None, at |-> 0, update |-> "none", todo |-> {},
     target |-> None, prior |-> {}, page |-> 0]

JobPhases == {"sessions", "refreshTokens", "families"}
Job == [pc: JobPhases \cup {"idle"}, at: Nat, batch: SUBSET Ids, page: Pages]
IdleJob == [pc |-> "idle", at |-> 0, batch |-> {}, page |-> 0]

\* No paged deletion reads more than its budget of pages.
TypeOK ==
    /\ families \in [Families -> Family \cup {None}]
    /\ refreshTokens \in [RefreshTokens -> RefreshToken \cup {None}]
    /\ sessions \in [AccessTokens -> Session \cup {None}]
    /\ minted \subseteq Ids
    /\ delivered \subseteq RefreshTokens
    /\ now \in Nat
    /\ req \in [Requests -> Request]
    /\ job \in Job

Init ==
    /\ families = [f \in Families |-> None]
    /\ refreshTokens = [t \in RefreshTokens |-> None]
    /\ sessions = [a \in AccessTokens |-> None]
    /\ minted = {}
    /\ delivered = {}
    /\ now = 0
    /\ req = [r \in Requests |-> IdleRequest]
    /\ job = IdleJob

-----------------------------------------------------------------------------
(* Helpers *)

Idle(r) == req[r].pc = "idle"
Goto(r, pc) == [req[r] EXCEPT !.pc = pc]
Become(r, next) == req' = [req EXCEPT ![r] = next]

Exists(collection, id) == id # None /\ collection[id] # None
Fresh(ids) == ids \ minted

-----------------------------------------------------------------------------
(* Paged deletion (chunkedWrites.ts) *)

Delete(collection, ids) ==
    [i \in DOMAIN collection |-> IF i \in ids THEN None ELSE collection[i]]

\* What query.limit(pageSize) may return out of the matching documents.
Windows(matching) ==
    {w \in SUBSET matching :
        IF Cardinality(matching) <= PageSize
        THEN w = matching
        ELSE Cardinality(w) = PageSize}

\* Mutant: the loop runs while page <= maxPages.
LastPage_OneMore(w, gone, page) ==
    \/ gone = {}
    \/ Cardinality(w) < PageSize
    \/ page >= MaxPages

\* Mutant: the documents deleted are counted, not those returned.
LastPage_CountsDeleted(w, gone, page) ==
    \/ Cardinality(gone) < PageSize
    \/ page + 1 >= MaxPages

\* The loop of deletePagedQueryResults ends after window w, of which gone was
\* deleted: nothing to delete, a short page, or the page budget is exhausted.
LastPage(w, gone, page) ==
    \/ gone = {}
    \/ Cardinality(w) < PageSize
    \/ page + 1 >= MaxPages

\* Request r has handled window w of its current loop; next is where it goes
\* once the loop has ended.
AfterPage(r, w, gone, next) ==
    Become(r, IF LastPage(w, gone, req[r].page)
              THEN [next EXCEPT !.page = 0]
              ELSE [req[r] EXCEPT !.page = req[r].page + 1])

-----------------------------------------------------------------------------
(* sessionMfaPolicy.ts *)

IsMfaVerificationFresh(family, at) ==
    /\ family.verifiedAt # Never
    /\ at - family.verifiedAt <= MfaMaxAge

\* Mutant: a fresh verification stands in for an active access session.
RequiresMfaForRefresh_Weaker(family, active, at) ==
    /\ family.hasMfa
    /\ ~family.trusted
    /\ ~active /\ ~IsMfaVerificationFresh(family, at)

RequiresMfaForRefresh(family, active, at) ==
    /\ family.hasMfa
    /\ ~family.trusted
    /\ ~active \/ ~IsMfaVerificationFresh(family, at)

-----------------------------------------------------------------------------
(* createBackendSession: POST /auth/session, and the first step of the MFA *)
(* transitions (sweep = FALSE).                                            *)

\* The family and its first refresh token are committed in one batch.
Login(r, u, d, hasMfa, trusted, sweep) ==
    /\ "login" \in Routes
    /\ hasMfa => "mfa" \in Routes
    /\ Idle(r)
    /\ \E f \in Fresh(Families), t \in Fresh(RefreshTokens) :
         /\ families' = [families EXCEPT ![f] =
              [user |-> u, device |-> d, hasMfa |-> hasMfa,
               trusted |-> hasMfa /\ trusted,
               verifiedAt |-> IF hasMfa THEN now ELSE Never,
               expiresAt |-> now + RefreshLife, revoked |-> FALSE]]
         /\ refreshTokens' = [refreshTokens EXCEPT ![t] =
              [family |-> f, user |-> u, expiresAt |-> now + RefreshLife,
               used |-> FALSE, replacedBy |-> None]]
         /\ minted' = minted \cup {f, t}
         /\ Become(r, [Goto(r, IF d # None /\ sweep THEN "loggedIn" ELSE "issuing")
                         EXCEPT !.user = u, !.device = d, !.family = f, !.token = t])
    /\ UNCHANGED <<sessions, delivered, now, job>>

\* Mutant: the device alone tells which families are stale.
FindStaleFamilies_AnyUser(r) ==
    /\ req[r].pc = "loggedIn"
    /\ LET stale == {g \in Families \ {req[r].family} :
                       Exists(families, g) /\ families[g].device = req[r].device}
       IN  Become(r, [Goto(r, IF stale = {} THEN "issuing" ELSE "sweeping")
                        EXCEPT !.todo = stale])
    /\ UNCHANGED <<docs, issued, now, job>>

\* deleteStaleDeviceFamilies reads the families of the device and keeps those
\* of the same user that are not the new one.
FindStaleFamilies(r) ==
    /\ req[r].pc = "loggedIn"
    /\ LET stale == {g \in Families \ {req[r].family} :
                       /\ Exists(families, g)
                       /\ families[g].user = req[r].user
                       /\ families[g].device = req[r].device}
       IN  Become(r, [Goto(r, IF stale = {} THEN "issuing" ELSE "sweeping")
                        EXCEPT !.todo = stale])
    /\ UNCHANGED <<docs, issued, now, job>>

SweepNextFamily(r) ==
    /\ req[r].pc = "sweeping"
    /\ \E g \in req[r].todo :
         /\ families' = Delete(families, {g})
         /\ Become(r, [Goto(r, "childSessions") EXCEPT !.target = g])
    /\ UNCHANGED <<refreshTokens, sessions, issued, now, job>>

\* A failed sweep is caught and logged: the login goes on.
SweepFails(r) ==
    /\ \/ req[r].pc \in {"loggedIn", "sweeping"}
       \/ /\ req[r].pc \in {"childSessions", "childTokens"}
          /\ req[r].target # req[r].family
    /\ Become(r, [Goto(r, "issuing") EXCEPT !.todo = {}, !.target = None, !.page = 0])
    /\ UNCHANGED <<docs, issued, now, job>>

\* createAccessTokenForFamily: writes the session document whether or not the
\* family still exists, then the response leaves the server.
CreateAccessToken(r) ==
    /\ req[r].pc = "issuing"
    /\ \E a \in Fresh(AccessTokens) :
         /\ sessions' = [sessions EXCEPT ![a] =
              [family |-> req[r].family, user |-> req[r].user,
               expiresAt |-> now + AccessLife]]
         /\ minted' = minted \cup {a}
    /\ delivered' = delivered \cup {req[r].token}
    /\ Become(r, IdleRequest)
    /\ UNCHANGED <<families, refreshTokens, now, job>>

-----------------------------------------------------------------------------
(* deleteFamilyRecords: the family document goes first, its children are   *)
(* swept page by page.  Sign-out deletes its own family; a login deletes   *)
(* the stale ones in turn.                                                 *)

ChildrenDeleted(r) ==
    IF req[r].target = req[r].family
    THEN IdleRequest
    ELSE LET rest == req[r].todo \ {req[r].target}
         IN  [Goto(r, IF rest = {} THEN "issuing" ELSE "sweeping")
                EXCEPT !.todo = rest, !.target = None]

DeleteChildSessions(r) ==
    /\ req[r].pc = "childSessions"
    /\ \E w \in Windows({a \in AccessTokens : /\ Exists(sessions, a)
                                              /\ sessions[a].family = req[r].target}) :
         /\ sessions' = Delete(sessions, w)
         /\ AfterPage(r, w, w, Goto(r, "childTokens"))
    /\ UNCHANGED <<families, refreshTokens, issued, now, job>>

DeleteChildTokens(r) ==
    /\ req[r].pc = "childTokens"
    /\ \E w \in Windows({t \in RefreshTokens : /\ Exists(refreshTokens, t)
                                               /\ refreshTokens[t].family = req[r].target}) :
         /\ refreshTokens' = Delete(refreshTokens, w)
         /\ AfterPage(r, w, w, ChildrenDeleted(r))
    /\ UNCHANGED <<families, sessions, issued, now, job>>

-----------------------------------------------------------------------------
(* rotateBackendRefreshToken: POST /auth/session/refresh.  The clock is    *)
(* read before the transaction; the transaction itself is one step.        *)

BeginRefresh(r, t, a) ==
    /\ "refresh" \in Routes
    /\ t \in delivered
    /\ Idle(r)
    /\ Become(r, [Goto(r, "refreshing") EXCEPT !.token = t, !.access = a, !.at = now])
    /\ UNCHANGED <<docs, issued, now, job>>

\* The presented token and its family both resolve; otherwise the request
\* fails without an effect.
Refreshing(r) ==
    /\ req[r].pc = "refreshing"
    /\ Exists(refreshTokens, req[r].token)
    /\ Exists(families, refreshTokens[req[r].token].family)

\* getValidActiveAccessSession deletes an expired access session it meets; the
\* deletion lands only if the transaction commits.
ExpiredAccess(r) ==
    {a \in {req[r].access} : Exists(sessions, a) /\ sessions[a].expiresAt <= req[r].at}

HasActiveAccess(r, f) ==
    LET a == req[r].access
    IN  /\ Exists(sessions, a)
        /\ sessions[a].expiresAt > req[r].at
        /\ sessions[a].family = f
        /\ sessions[a].user = families[f].user

TokenReused(r) ==
    LET f == refreshTokens[req[r].token].family
    IN  /\ Refreshing(r)
        /\ refreshTokens[req[r].token].used
        /\ families' = [families EXCEPT ![f].revoked = TRUE]
        /\ sessions' = Delete(sessions, ExpiredAccess(r))
        /\ Become(r, IdleRequest)
        /\ UNCHANGED <<refreshTokens, issued, now, job>>

IsExpired(t, at) ==
    \/ refreshTokens[t].expiresAt < at
    \/ families[refreshTokens[t].family].expiresAt < at

TokenExpired(r) ==
    LET t == req[r].token
        f == refreshTokens[t].family
    IN  /\ Refreshing(r)
        /\ ~refreshTokens[t].used
        /\ ~families[f].revoked
        /\ IsExpired(t, req[r].at)
        /\ families' = Delete(families, {f})
        /\ refreshTokens' = Delete(refreshTokens, {t})
        /\ sessions' = Delete(sessions, ExpiredAccess(r))
        /\ Become(r, IdleRequest)
        /\ UNCHANGED <<issued, now, job>>

\* Mutant: a token can be used more than once.
MayRotate_UsedToo(r) ==
    LET t == req[r].token
        f == refreshTokens[t].family
    IN  /\ Refreshing(r)
        /\ ~families[f].revoked
        /\ ~IsExpired(t, req[r].at)

\* Mutant: the revocation of the family is not looked at.
MayRotate_RevokedToo(r) ==
    LET t == req[r].token
    IN  /\ Refreshing(r)
        /\ ~refreshTokens[t].used
        /\ ~IsExpired(t, req[r].at)

MayRotate(r) ==
    LET t == req[r].token
        f == refreshTokens[t].family
    IN  /\ Refreshing(r)
        /\ ~refreshTokens[t].used
        /\ ~families[f].revoked
        /\ ~IsExpired(t, req[r].at)
        /\ ~RequiresMfaForRefresh(families[f], HasActiveAccess(r, f), req[r].at)

Rotate(r) ==
    LET t == req[r].token
        f == refreshTokens[t].family
        expiresAt == req[r].at + RefreshLife
    IN  /\ MayRotate(r)
        /\ \E t2 \in Fresh(RefreshTokens) :
             /\ refreshTokens' =
                  [refreshTokens EXCEPT
                     ![t].used = TRUE, ![t].replacedBy = t2,
                     ![t2] = [family |-> f, user |-> families[f].user,
                              expiresAt |-> expiresAt, used |-> FALSE,
                              replacedBy |-> None]]
             /\ minted' = minted \cup {t2}
             /\ Become(r, [IdleRequest EXCEPT !.pc = "issuing", !.family = f,
                              !.user = families[f].user, !.token = t2])
        /\ families' = [families EXCEPT ![f].expiresAt = expiresAt]
        /\ sessions' = Delete(sessions, ExpiredAccess(r))
        /\ UNCHANGED <<delivered, now, job>>

-----------------------------------------------------------------------------
(* validateBackendSession: authenticate('session') on every other route    *)

\* The session document is read.  Sign-out, revoke-all and trust continue from
\* "authed"; any other route ends there as far as the session records go.
Authenticate(r, a) ==
    /\ Routes \cap {"mfa", "signOut", "revokeAll", "other"} # {}
    /\ Idle(r)
    /\ Exists(sessions, a)
    /\ Become(r, [Goto(r, IF sessions[a].expiresAt < now THEN "rejecting" ELSE "authenticating")
                    EXCEPT !.access = a, !.user = sessions[a].user,
                           !.family = sessions[a].family])
    /\ UNCHANGED <<docs, issued, now, job>>

\* Then the family document, and the user's, which may be gone (known = FALSE).
CheckFamily(r) ==
    /\ req[r].pc = "authenticating"
    /\ \E known \in BOOLEAN :
       LET f == req[r].family
           valid == Exists(families, f) /\ ~families[f].revoked /\ known
       IN  Become(r, IF valid
                     THEN [Goto(r, "authed") EXCEPT !.access = None]
                     ELSE Goto(r, "rejecting"))
    /\ UNCHANGED <<docs, issued, now, job>>

DropAccessSession(r) ==
    /\ req[r].pc = "rejecting"
    /\ sessions' = Delete(sessions, {req[r].access})
    /\ Become(r, IdleRequest)
    /\ UNCHANGED <<families, refreshTokens, issued, now, job>>

-----------------------------------------------------------------------------
(* sessionFamilyMutations.ts: a read, a decision, and a later update()     *)

\* getOwnedFamilyRef, for markSessionFamilyMfaVerified ("verify") and
\* setSessionFamilyMfaTrust ("trust", "untrust").
ReadOwnedFamily(r, update) ==
    /\ "mfa" \in Routes
    /\ req[r].pc = "authed"
    /\ LET f == req[r].family
       IN  /\ Exists(families, f)
           /\ families[f].user = req[r].user
           /\ ~families[f].revoked
    /\ Become(r, [Goto(r, "writing") EXCEPT !.update = update, !.at = now])
    /\ UNCHANGED <<docs, issued, now, job>>

\* update() touches the named fields only, and fails on a missing document.
\* userHasMfa never changes, so the copy read earlier equals the stored one.
UpdateFamily(r) ==
    /\ req[r].pc = "writing"
    /\ LET f == req[r].family
       IN  /\ Exists(families, f)
           /\ families' = [families EXCEPT
                ![f].verifiedAt = IF families[f].hasMfa THEN req[r].at ELSE Never,
                ![f].trusted = IF req[r].update = "verify" THEN families[f].trusted
                               ELSE families[f].hasMfa /\ req[r].update = "trust"]
    /\ Become(r, IF req[r].update = "verify"
                 THEN [Goto(r, "authed") EXCEPT !.update = "none", !.at = 0]
                 ELSE IdleRequest)
    /\ UNCHANGED <<refreshTokens, sessions, issued, now, job>>

\* revokeSessionFamily: sign-out, and the compensation of the MFA transitions.
\* The read and the delete are one step: the owner never changes, and a family
\* deleted in between is deleted either way.
SignOut(r) ==
    /\ "signOut" \in Routes
    /\ req[r].pc = "authed"
    /\ LET f == req[r].family
       IN  /\ Exists(families, f)
           /\ families[f].user = req[r].user
           /\ families' = Delete(families, {f})
           /\ Become(r, [Goto(r, "childSessions") EXCEPT !.target = f])
    /\ UNCHANGED <<refreshTokens, sessions, issued, now, job>>

-----------------------------------------------------------------------------
(* deleteAllUserSessions: revoke-all, account deletion, and the last step  *)
(* of the MFA transitions, which spares the family they created.           *)

BeginRevokeAll(r, spared) ==
    /\ "revokeAll" \in Routes
    /\ req[r].pc = "authed"
    /\ spared \in minted \cup {None}
    /\ Become(r, [Goto(r, "revokeSessions") EXCEPT
         !.target = spared,
         !.prior = {f \in Families \ {spared} : /\ Exists(families, f)
                                                /\ families[f].user = req[r].user}])
    /\ UNCHANGED <<docs, issued, now, job>>

OwnedBy(collection, u) == {i \in DOMAIN collection : Exists(collection, i) /\ collection[i].user = u}

RevokeSessions(r) ==
    /\ req[r].pc = "revokeSessions"
    /\ \E w \in Windows(OwnedBy(sessions, req[r].user)) :
         LET gone == {a \in w : sessions[a].family # req[r].target}
         IN  /\ sessions' = Delete(sessions, gone)
             /\ AfterPage(r, w, gone, Goto(r, "revokeFamilies"))
    /\ UNCHANGED <<families, refreshTokens, issued, now, job>>

RevokeFamilies(r) ==
    /\ req[r].pc = "revokeFamilies"
    /\ \E w \in Windows(OwnedBy(families, req[r].user)) :
         LET gone == w \ {req[r].target}
         IN  /\ families' = Delete(families, gone)
             /\ AfterPage(r, w, gone, Goto(r, "revokeTokens"))
    /\ UNCHANGED <<refreshTokens, sessions, issued, now, job>>

RevokeTokens(r) ==
    /\ req[r].pc = "revokeTokens"
    /\ \E w \in Windows(OwnedBy(refreshTokens, req[r].user)) :
         LET gone == {t \in w : refreshTokens[t].family # req[r].target}
         IN  /\ refreshTokens' = Delete(refreshTokens, gone)
             /\ AfterPage(r, w, gone, Goto(r, "revoked"))
    /\ UNCHANGED <<families, sessions, issued, now, job>>

-----------------------------------------------------------------------------
(* cleanupExpiredSessionRecords, run hourly and never twice at a time      *)

\* Mutant: the cutoff is computed once, when the process starts.
StartJob_OldCutoff ==
    /\ "cleanup" \in Routes
    /\ job.pc = "idle"
    /\ job' = [job EXCEPT !.pc = "sessions"]
    /\ UNCHANGED <<docs, issued, now, req>>

StartJob ==
    /\ "cleanup" \in Routes
    /\ job.pc = "idle"
    /\ job' = [job EXCEPT !.pc = "sessions", !.at = now]
    /\ UNCHANGED <<docs, issued, now, req>>

Collection(phase) ==
    CASE phase = "sessions"      -> sessions
      [] phase = "refreshTokens" -> refreshTokens
      [] phase = "families"      -> families

\* Mutant: families are swept before their tokens.
AfterPhase_FamiliesFirst(phase) ==
    CASE phase = "sessions"      -> [job EXCEPT !.pc = "families", !.batch = {}, !.page = 0]
      [] phase = "families"      -> [job EXCEPT !.pc = "refreshTokens", !.batch = {}, !.page = 0]
      [] phase = "refreshTokens" -> IdleJob

AfterPhase(phase) ==
    CASE phase = "sessions"      -> [job EXCEPT !.pc = "refreshTokens", !.batch = {}, !.page = 0]
      [] phase = "refreshTokens" -> [job EXCEPT !.pc = "families", !.batch = {}, !.page = 0]
      [] phase = "families"      -> IdleJob

ExpiredAt(collection, at) ==
    {i \in DOMAIN collection : Exists(collection, i) /\ collection[i].expiresAt < at}

\* A page is read ...
JobReadsPage ==
    /\ job.pc # "idle"
    /\ job.batch = {}
    /\ \E w \in Windows(ExpiredAt(Collection(job.pc), job.at)) :
         job' = IF w = {} THEN AfterPhase(job.pc) ELSE [job EXCEPT !.batch = w]
    /\ UNCHANGED <<docs, issued, now, req>>

\* ... and deleted by document reference, whatever it holds by then.
JobDeletesPage ==
    /\ job.pc # "idle"
    /\ job.batch # {}
    /\ sessions' = IF job.pc = "sessions" THEN Delete(sessions, job.batch) ELSE sessions
    /\ refreshTokens' = IF job.pc = "refreshTokens" THEN Delete(refreshTokens, job.batch)
                        ELSE refreshTokens
    /\ families' = IF job.pc = "families" THEN Delete(families, job.batch) ELSE families
    /\ job' = IF LastPage(job.batch, job.batch, job.page)
              THEN AfterPhase(job.pc)
              ELSE [job EXCEPT !.batch = {}, !.page = job.page + 1]
    /\ UNCHANGED <<issued, now, req>>

JobFails ==
    /\ job.pc # "idle"
    /\ job' = IdleJob
    /\ UNCHANGED <<docs, issued, now, req>>

-----------------------------------------------------------------------------
(* A request ends: it has answered, an awaited call failed, or the process *)
(* died.  Nothing it wrote is undone.                                      *)
EndRequest(r) ==
    /\ ~Idle(r)
    /\ Become(r, IdleRequest)
    /\ UNCHANGED <<docs, issued, now, job>>

Tick ==
    /\ now < MaxTime
    /\ now' = now + 1
    /\ UNCHANGED <<docs, issued, req, job>>

Step(r) ==
    \/ \E u \in Users, d \in Devices \cup {None}, m, tr, sweep \in BOOLEAN :
         Login(r, u, d, m, tr, sweep)
    \/ FindStaleFamilies(r) \/ SweepNextFamily(r) \/ SweepFails(r)
    \/ CreateAccessToken(r)
    \/ DeleteChildSessions(r) \/ DeleteChildTokens(r)
    \/ \E t \in RefreshTokens, a \in AccessTokens \cup {None} : BeginRefresh(r, t, a)
    \/ TokenReused(r) \/ TokenExpired(r) \/ Rotate(r)
    \/ \E a \in AccessTokens : Authenticate(r, a)
    \/ CheckFamily(r) \/ DropAccessSession(r)
    \/ \E update \in {"verify", "trust", "untrust"} : ReadOwnedFamily(r, update)
    \/ UpdateFamily(r)
    \/ SignOut(r)
    \/ \E spared \in Families \cup {None} : BeginRevokeAll(r, spared)
    \/ RevokeSessions(r) \/ RevokeFamilies(r) \/ RevokeTokens(r)
    \/ EndRequest(r)

JobStep == StartJob \/ JobReadsPage \/ JobDeletesPage \/ JobFails

Next == Tick \/ JobStep \/ \E r \in Requests : Step(r)

Spec == Init /\ [][Next]_vars

\* The interval timer of maintenanceJobs.ts starts the job again and again, time
\* passes, and at some point the job stops failing.  A run that ends because it
\* reads an empty last page is the same step as one that fails there, and is kept.
FairSpec ==
    /\ Spec
    /\ WF_vars(Tick) /\ WF_vars(StartJob)
    /\ WF_vars(JobReadsPage) /\ WF_vars(JobDeletesPage)
    /\ <>[][JobFails => JobReadsPage \/ JobDeletesPage]_vars

-----------------------------------------------------------------------------
(* Properties *)

UnusedTokens(f) ==
    {t \in RefreshTokens : /\ Exists(refreshTokens, t)
                           /\ refreshTokens[t].family = f
                           /\ ~refreshTokens[t].used}

\* The refresh tokens of a family form one chain: at most one token of it is
\* unused, and no token is the successor of two others, however many refreshes
\* of the same family race (rotateRefreshToken.ts relies on the transaction).
LinearChain ==
    /\ \A f \in Families : \A t1, t2 \in UnusedTokens(f) : t1 = t2
    /\ \A t1, t2 \in RefreshTokens :
         /\ Exists(refreshTokens, t1) /\ refreshTokens[t1].replacedBy # None
         /\ Exists(refreshTokens, t2)
         /\ refreshTokens[t1].replacedBy = refreshTokens[t2].replacedBy
         => t1 = t2

Live(f) == Exists(families, f) /\ ~families[f].revoked

\* The records implement the ledger of SessionLedger: families open once, hand
\* one usable refresh token on from refresh to refresh, and never reopen.
Ledger == INSTANCE SessionLedger WITH
    status <- [f \in Families |-> IF f \notin minted THEN "unborn"
                                  ELSE IF Live(f) THEN "open" ELSE "closed"],
    heads <- [f \in Families |-> UnusedTokens(f)],
    issued <- minted \cap RefreshTokens

ImplementsLedger == Ledger!Spec

\* A revoked or deleted family stays so and gains no refresh token: no write
\* that was decided on an older read (trust, MFA verification, rotation) brings
\* it back (sessionFamilyMutations.ts, rotateRefreshToken.ts).
RevocationSticks ==
    [][\A f \in Families \cap minted : ~Live(f) =>
         /\ ~Live(f)'
         /\ UnusedTokens(f)' \subseteq UnusedTokens(f)]_vars

\* When deleteAllUserSessions returns, no family the user had when it began
\* still exists, apart from the one it spares (sessionDeletion.ts).
RevocationComplete ==
    \A r \in Requests : req[r].pc = "revoked" =>
        \A f \in req[r].prior : ~Exists(families, f)

\* A request deletes a family on behalf of its own user, or after it has expired:
\* sharing a device does not let one account end the sessions of another
\* (deleteStaleDeviceFamilies filters the device query by user).
DeletedByOwnUser ==
    [][\A f \in Families : Exists(families, f) /\ families'[f] = None /\ req' # req =>
         \/ \E r \in Requests : req'[r] # req[r] /\ req[r].user = families[f].user
         \/ families[f].expiresAt < now]_vars

\* An untrusted MFA family that has lapsed: none of its access sessions is
\* still accepted and no request is working for it.
Lapsed(f) ==
    /\ Exists(families, f) /\ families[f].hasMfa /\ ~families[f].trusted
    /\ \A a \in AccessTokens :
         Exists(sessions, a) /\ sessions[a].family = f => sessions[a].expiresAt < now
    /\ \A r \in Requests :
         /\ req[r].family = f => req[r].pc = "rejecting"
         /\ req[r].pc = "refreshing" => ~HasActiveAccess(r, f)

\* A lapsed family can only be deleted: neither a refresh nor a trust change
\* revives it, so the user must log in with a code again (sessionMfaPolicy.ts,
\* validateSession.ts).
LapsedIsFinal ==
    [][\A f \in Families : Lapsed(f) => Lapsed(f)' \/ ~Exists(families, f)']_vars

\* Expired families do not accumulate: the maintenance job, started again every
\* hour with a bounded page budget, gets to each of them (expiredSessionCleanup.ts).
ExpiredFamiliesSwept ==
    \A f \in Families :
        (Exists(families, f) /\ families[f].expiresAt < now)
            ~> ~(Exists(families, f) /\ families[f].expiresAt < now)

\* The maintenance job keeps active families (the test of
\* expiredSessionCleanup.ts says "while keeping active ones"): the refresh token
\* goes first, so a refresh that read the clock before the expiry comes too late
\* for a family the job has read.  Where the page budget leaves tokens behind it
\* does not: see the README.
CleanupKeepsActive ==
    [][\A f \in Families :
         Live(f) /\ families[f].expiresAt >= now /\ req' = req => families'[f] # None]_vars

-----------------------------------------------------------------------------
(* What the code does not have, for TLC to show how: see the README *)

\* Where logins are the only traffic, a login that answers leaves its device a
\* session, its own or that of a later login: only stale families are swept
\* (the test of sessionRecordStore.ts says "but keeps the new one").
LoginKeepsDevice ==
    \A r \in Requests : req[r].pc = "issuing" =>
        \E f \in Families : /\ Exists(families, f)
                            /\ families[f].user = req[r].user
                            /\ families[f].device = req[r].device
=============================================================================
