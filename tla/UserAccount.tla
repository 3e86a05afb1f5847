---------------------------- MODULE UserAccount -----------------------------
(***************************************************************************)
(* The account around the key records of UserKeys: its user document and   *)
(* Firebase identity, creation with rollback, the other writes of the      *)
(* document, the five-step deletion, and which requests are let in.        *)
(* Sessions are seen here as one live session or none; SessionStore has    *)
(* their records, PushTokens those the fourth step of a deletion removes.  *)
(***************************************************************************)
EXTENDS UserKeys

CONSTANTS
    Earlier,  \* stands for the request that created an account found in Init
    Ops       \* what clients ask for, of AllOps

AllOps == {"list", "add", "update", "delete", "create", "setUser", "remove"}

ASSUME UserAccountAssumption ==
    /\ Ops \subseteq AllOps /\ Earlier \notin Requests /\ Null \notin Requests \cup {Earlier}
    /\ MaxKeys <= MaxRecords

VARIABLES
    doc,       \* users/<uid>: Null, or the request that created it
    identity,  \* the Firebase Auth user exists
    session    \* the user has a live session

accountVars == <<doc, identity, session>>
vars == <<keyVars, accountVars>>

\* No account yet, or one with records of before updatedAt and of now.
Init ==
    /\ req = [r \in Requests |-> NoRequest]
    /\ now = 1
    /\ identity = TRUE
    /\ \/ doc = Null /\ keys = Null /\ session = FALSE /\ drawn = 0
       \/ /\ doc = Earlier /\ session = TRUE
          /\ \E n \in 0 .. MaxKeys :
               keys \in [1 .. n -> {Legacy, now}] /\ drawn = n

-----------------------------------------------------------------------------
(* Who is let in *)

\* verifyIdToken asks Firebase whether the identity is still there.
FirebaseAuth == identity

\* A live session, and a user document to read mfaEnabled from.
SessionAuth == session /\ doc # Null

\* POST /session: getUserMfaState answers 404 without the document.
CanLogin == FirebaseAuth /\ doc # Null
Login ==
    /\ CanLogin /\ ~session
    /\ session' = TRUE
    /\ UNCHANGED <<keyVars, doc, identity>>

KeyRequest(r) ==
    /\ SessionAuth
    /\ \/ "list" \in Ops /\ \E limit \in Limits, since \in 0 .. now : BeginList(r, limit, since)
       \/ "add" \in Ops /\ BeginAdd(r)
       \/ \E op \in Ops \cap {"update", "delete"}, id \in KnownIds : BeginChange(r, op, id)
    /\ UNCHANGED accountVars

KeyStep(r) ==
    /\ \/ ReadPage(r) \/ ReadNothing(r) \/ WriteStub(r)
       \/ AddRecord(r)
       \/ Precheck(r) \/ UpdateRecord(r) \/ VerifyStored(r) \/ DeleteRecord(r)
    /\ UNCHANGED accountVars

-----------------------------------------------------------------------------
(* createUser *)

BeginCreate(r) ==
    /\ "create" \in Ops
    /\ req[r].pc = "idle" /\ FirebaseAuth
    /\ Move(r, [NoRequest EXCEPT !.pc = IF doc = Null THEN "creating" ELSE "conflict", !.op = "create"])
    /\ UNCHANGED <<drawn, now, accountVars>>

\* The document is created; the ids of the n first records and their updatedAt
\* follow at once, before the set is stored.
Create(r, n) ==
    /\ drawn + n <= MaxRecords
    /\ drawn' = drawn + n
    /\ doc' = r
    /\ Move(r, [Goto(r, "initializing") EXCEPT !.ids = drawn + 1 .. drawn + n, !.at = now])
    /\ UNCHANGED <<now, identity, session>>

Refused(r) ==
    /\ doc # Null
    /\ Move(r, Goto(r, "conflict"))
    /\ UNCHANGED <<drawn, now, accountVars>>

\* Mutant: set() in place of create().
CreateDocument_Sets(r) ==
    /\ req[r].pc = "creating"
    /\ \E n \in 0 .. MaxKeys : Create(r, n)

\* create() fails when another request has created the document since.
CreateDocument(r) ==
    /\ req[r].pc = "creating"
    /\ \/ doc = Null /\ \E n \in 0 .. MaxKeys : Create(r, n)
       \/ Refused(r)

\* Mutant: update() in place of set().
InitializeKeys_Merges(r) ==
    /\ req[r].pc = "initializing"
    /\ keys' = Written(keys, Stamped(r))
    /\ Put(r, Goto(r, "ok"))
    /\ UNCHANGED <<drawn, now, accountVars>>

\* initializeUserEncryptedKeyRecords: a plain set() of the whole record set.
InitializeKeys(r) ==
    /\ req[r].pc = "initializing"
    /\ keys' = Stamped(r)
    /\ Put(r, Goto(r, "ok"))
    /\ UNCHANGED <<drawn, now, accountVars>>

\* It is answered with an error; the set may have been stored all the same.
InitializeFails(r) ==
    /\ req[r].pc = "initializing"
    /\ keys' \in {keys, Stamped(r)}
    /\ Put(r, Goto(r, "rollingBack"))
    /\ UNCHANGED <<drawn, now, accountVars>>

\* The rollback deletes the document, or fails with no more than a warning.
RollBack(r) ==
    /\ req[r].pc = "rollingBack"
    /\ doc' \in {doc, Null}
    /\ Move(r, Goto(r, "failed"))
    /\ UNCHANGED <<drawn, now, identity, session>>

-----------------------------------------------------------------------------
(* changeDekPassword and setPassphraseStorage *)

BeginSetUser(r) ==
    /\ "setUser" \in Ops
    /\ req[r].pc = "idle" /\ SessionAuth
    /\ Move(r, [NoRequest EXCEPT !.pc = "updatingUser", !.op = "setUser"])
    /\ UNCHANGED <<drawn, now, accountVars>>

\* update() fails without a document.
UpdateDocument(r) ==
    /\ req[r].pc = "updatingUser"
    /\ Move(r, Goto(r, IF doc = Null THEN "failed" ELSE "ok"))
    /\ UNCHANGED <<drawn, now, accountVars>>

-----------------------------------------------------------------------------
(* deleteUser: five steps, run in order; any of them may fail *)

BeginDeleteUser(r) ==
    /\ "remove" \in Ops
    /\ req[r].pc = "idle" /\ SessionAuth
    /\ Move(r, [NoRequest EXCEPT !.pc = "revoking", !.op = "remove", !.kept = Ids(keys)])
    /\ UNCHANGED <<drawn, now, accountVars>>

RevokeSessions(r) ==
    /\ req[r].pc = "revoking"
    /\ session' = FALSE
    /\ Move(r, Goto(r, "deletingUser"))
    /\ UNCHANGED <<drawn, now, doc, identity>>

\* Mutant: the identity is deleted before the keys.
DeleteUserDocuments_IdentityNext(r) ==
    /\ req[r].pc = "deletingUser"
    /\ doc' = Null
    /\ Move(r, Goto(r, "deletingIdentity"))
    /\ UNCHANGED <<drawn, now, identity, session>>

DeleteUserDocuments(r) ==
    /\ req[r].pc = "deletingUser"
    /\ doc' = Null
    /\ Move(r, Goto(r, "deletingKeys"))
    /\ UNCHANGED <<drawn, now, identity, session>>

DeleteEncryptedKeys(r) ==
    /\ req[r].pc = "deletingKeys"
    /\ keys' = Null
    /\ Put(r, Goto(r, "deletingPush"))
    /\ UNCHANGED <<drawn, now, accountVars>>

DeletePushTokens(r) ==
    /\ req[r].pc = "deletingPush"
    /\ Move(r, Goto(r, "deletingIdentity"))
    /\ UNCHANGED <<drawn, now, accountVars>>

\* An identity already gone counts as deleted.
DeleteFirebaseUser(r) ==
    /\ req[r].pc = "deletingIdentity"
    /\ identity' = FALSE
    /\ Move(r, Goto(r, "ok"))
    /\ UNCHANGED <<drawn, now, doc, session>>

CreateStep(r) == CreateDocument(r) \/ InitializeKeys(r) \/ InitializeFails(r) \/ RollBack(r)
DeleteStep(r) ==
    \/ RevokeSessions(r) \/ DeleteUserDocuments(r) \/ DeleteEncryptedKeys(r)
    \/ DeletePushTokens(r) \/ DeleteFirebaseUser(r)

\* A failing step ends the request; a process that dies has the same effect.
Answered == {"idle", "ok", "notFound", "quota", "conflict", "failed"}
Fails(r) ==
    /\ req[r].pc \notin Answered
    /\ Move(r, Goto(r, "failed"))
    /\ UNCHANGED <<drawn, now, accountVars>>

Tick ==
    /\ now < MaxTime
    /\ now' = now + 1
    /\ UNCHANGED <<keys, drawn, req, accountVars>>

Next ==
    \/ \E r \in Requests :
         \/ KeyRequest(r) \/ KeyStep(r)
         \/ BeginCreate(r) \/ CreateStep(r)
         \/ BeginSetUser(r) \/ UpdateDocument(r)
         \/ BeginDeleteUser(r) \/ DeleteStep(r)
         \/ Fails(r)
    \/ Login
    \/ Tick

Spec == Init /\ [][Next]_vars

-----------------------------------------------------------------------------
(* Properties *)

\* A creation that succeeded has its document and a record set, and in it nothing
\* of the creations that failed, rolled back or not, before, between or after its
\* steps (createUser).  It is so until somebody asks for the account's deletion.
CreationWhole ==
    \A r \in Requests : req[r].op = "create" /\ req[r].pc = "ok" =>
        \/ \E q \in Requests : req[q].op = "remove"
        \/ /\ doc = r /\ keys # Null
           /\ \A q \in Requests \ {r} : req[q].op = "create" => req[q].ids \cap Ids(keys) = {}

\* Two creations that race cannot overwrite each other's document, and no other
\* write brings back one that was deleted meanwhile.
DocumentLife ==
    [][doc' # doc => \/ doc' = Null
                     \/ doc = Null /\ \E r \in Requests : doc' = r /\ req[r].pc = "creating"]_vars

\* Once the identity is gone, every record that was stored when the deletion
\* began is gone too (comment in deleteUser), through failed attempts before it
\* and whatever other requests do meanwhile.
IdentityLast ==
    /\ ~identity => \E r \in Requests : req[r].op = "remove" /\ req[r].pc = "ok"
    /\ \A r \in Requests : req[r].op = "remove" /\ req[r].pc = "ok" => req[r].kept = {}

\* After a step of a deletion failed, the user can still authenticate to issue
\* it again (comment in deleteUser).
DeletionRetryable ==
    \A r \in Requests : req[r].op = "remove" /\ req[r].pc = "failed" /\ identity => CanLogin

-----------------------------------------------------------------------------
(* What the code does not have, for TLC to show how: see the README *)

\* A creation that failed leaves no document, so that the account can be created
\* after all (createUser).
CreationRetryable ==
    \A r \in Requests : req[r].op = "create" /\ req[r].pc = "failed" => doc # r
=============================================================================
