----------------------------- MODULE PushTokens -----------------------------
(***************************************************************************)
(* Push tokens.  A registration of a token by a user on a device is kept   *)
(* at three places of the Realtime Database, which are written together    *)
(* and cleaned up one by one.  Every database call is one action; saving,  *)
(* deleting and notifying interleave, and any cleaning call may fail.      *)
(***************************************************************************)
EXTENDS Naturals, FiniteSets

CONSTANTS
    Users, Devices, Tokens, Requests,
    Ops,   \* what clients ask for, of AllOps
    MaxRequests,   \* bound: requests in a behaviour
    Null

AllOps == {"save", "deleteToken", "deleteUser", "notify"}

ASSUME PushTokensAssumption ==
    /\ Ops \subseteq AllOps
    /\ MaxRequests \in Nat
    /\ Null \notin Users \cup Devices \cup Tokens

ASSUME NullIsNoRegistration ==
    Null \notin [user: Users, device: Devices] \cup [user: Users, token: Tokens]

VARIABLES
    tokens,   \* pushTokens/<token>: its user and device, or Null
    devices,  \* devicePushTokens/<device>: its user and token, or Null
    index,    \* userPushDevices/<user>/<device>: a token, or Null
    req,      \* the requests being executed
    begun     \* history: requests begun

store == <<tokens, devices, index>>
vars == <<store, req, begun>>

-----------------------------------------------------------------------------
(* Registrations and requests *)

\* A registration, at one of the places where it is kept: a pending compare-
\* and-remove names both.
Places == {"token", "device", "index"}
Removals == [at: Places, user: Users, device: Devices, token: Tokens]

\* Mutant: the user and the device in the wrong order.
Removal_Swapped(at, u, d, t) == [at |-> at, user |-> d, device |-> u, token |-> t]

Removal(at, u, d, t) == [at |-> at, user |-> u, device |-> d, token |-> t]

Request ==
    [pc: {"idle", "reading", "updating", "listing", "sending",
          "expiring", "removing", "clearing", "ok", "failed"},
     op: Ops \cup {"none"},
     user: Users \cup {Null}, device: Devices \cup {Null}, token: Tokens \cup {Null},
     unread: SUBSET Places,                     \* reads still to come
     entries: [Devices -> Tokens \cup {Null}],  \* what it read of its user's index and has not handled
     unowned: SUBSET Devices,                   \* entries whose device is another's by now
     todo: SUBSET Removals,
     got: SUBSET Tokens,    \* the tokens to notify, then those to delete
     failed: BOOLEAN,
     owned: SUBSET Tokens,  \* history: tokens of the notified user at any time since it began
     stands: BOOLEAN]       \* history: see Record

NoEntries == [d \in Devices |-> Null]
NoRequest ==
    [pc |-> "idle", op |-> "none", user |-> Null, device |-> Null, token |-> Null,
     unread |-> {}, entries |-> NoEntries, unowned |-> {}, todo |-> {},
     got |-> {}, failed |-> FALSE, owned |-> {}, stands |-> FALSE]

TypeOK ==
    /\ tokens \in [Tokens -> [user: Users, device: Devices] \cup {Null}]
    /\ devices \in [Devices -> [user: Users, token: Tokens] \cup {Null}]
    /\ index \in [Users -> [Devices -> Tokens \cup {Null}]]
    /\ req \in [Requests -> Request]
    /\ begun \in 0 .. MaxRequests

TokenIs(u, d, t) == tokens[t] = [user |-> u, device |-> d]
DeviceIs(u, d, t) == devices[d] = [user |-> u, token |-> t]

\* isCurrentAssignment, of an entry of the user's index
Current(u, d, t) == TokenIs(u, d, t) /\ DeviceIs(u, d, t)

Init ==
    /\ tokens = [t \in Tokens |-> Null]
    /\ devices = [d \in Devices |-> Null]
    /\ index = [u \in Users |-> NoEntries]
    /\ req = [r \in Requests |-> NoRequest]
    /\ begun = 0

-----------------------------------------------------------------------------
(* Helpers *)

Goto(r, pc) == [req[r] EXCEPT !.pc = pc]
Begin(op, u, pc) == [NoRequest EXCEPT !.op = op, !.user = u, !.pc = pc]

\* A request is executed in the place of one that has come back.
Free(r) == req[r].pc \in {"idle", "ok", "failed"}

\* r becomes next.  The claims of the ended requests end: of a save, that nobody
\* has replaced or deleted its registration; of a token's deletion, that its
\* user has not saved the token since.  A request that has come back and claims
\* nothing is forgotten.
OwnedBy(u) == {t \in Tokens : tokens'[t] # Null /\ tokens'[t].user = u}
Record(r, next, ended) ==
    req' = [q \in Requests |->
        LET s == IF q = r THEN next ELSE req[q]
            stands == s.stands /\ q \notin ended
        IN IF s.pc \in {"ok", "failed"} /\ ~stands THEN NoRequest
           ELSE [s EXCEPT !.stands = stands,
                          !.owned = IF s.pc \in {"listing", "sending"}
                                    THEN s.owned \cup OwnedBy(s.user) ELSE {}]]

\* All that was started in parallel has come back.
AllBack(s) ==
    /\ s.pc \in {"removing", "expiring"}
    /\ s.todo = {} /\ s.entries = NoEntries /\ s.unowned = {}
    /\ s.pc = "expiring" => s.got = {}

Settled(s) ==
    IF AllBack(s)
    THEN [s EXCEPT !.pc = IF s.failed THEN "failed" ELSE IF s.op = "deleteUser" THEN "clearing" ELSE "ok"]
    ELSE s

\* Mutant: only what notifications start from.
Everywhere_IndexOnly(u, d, t) == {Removal("index", u, d, t)}

\* The three compare-and-removes of one registration.
Everywhere(u, d, t) == {Removal(at, u, d, t) : at \in Places}

-----------------------------------------------------------------------------
(* savePushTokenToDb *)

BeginSave(r, u, d, t) ==
    /\ Free(r) /\ "save" \in Ops
    /\ UNCHANGED store
    /\ Record(r, [Begin("save", u, "reading") EXCEPT
                    !.device = d, !.token = t, !.unread = {"token", "device"}], {})

\* cleanupPreviousDeviceAssignment and cleanupPreviousTokenAssignment, for what
\* the two parallel reads returned: to be done after the update.
CleanupOfDevice(s, previous) ==
    {m \in {Removal("token", previous.user, s.device, previous.token)} : previous.token # s.token}
    \cup {m \in {Removal("index", previous.user, s.device, previous.token)} : previous.user # s.user}
CleanupOfToken(s, previous) ==
    {m \in {Removal(at, previous.user, previous.device, s.token) : at \in {"device", "index"}} :
        previous # [user |-> s.user, device |-> s.device]}

ReadPrevious(r, place) ==
    /\ req[r].pc = "reading"
    /\ place \in req[r].unread
    /\ UNCHANGED store
    /\ LET s == req[r]
           previous == IF place = "device" THEN devices[s.device] ELSE tokens[s.token]
           cleanup == IF previous = Null THEN {}
                      ELSE IF place = "device" THEN CleanupOfDevice(s, previous)
                      ELSE CleanupOfToken(s, previous)
           unread == s.unread \ {place}
       IN Record(r, [s EXCEPT !.unread = unread, !.todo = s.todo \cup cleanup,
                              !.pc = IF unread = {} THEN "updating" ELSE "reading"], {})

\* Another request has read the registration of u on d with t in order to remove
\* it, or is deleting all of u's.
Held(r, u, d, t) ==
    \E q \in Requests \ {r} :
        \/ Everywhere(u, d, t) \cap req[q].todo # {}
        \/ req[q].user = u /\ req[q].op = "deleteUser" /\ req[q].pc \notin {"ok", "failed"}

\* One update of all three places.
Update(r) ==
    LET u == req[r].user  d == req[r].device  t == req[r].token
    IN /\ req[r].pc = "updating"
       /\ tokens' = [tokens EXCEPT ![t] = [user |-> u, device |-> d]]
       /\ devices' = [devices EXCEPT ![d] = [user |-> u, token |-> t]]
       /\ index' = [index EXCEPT ![u][d] = t]
       /\ Record(r, Settled([Goto(r, "removing") EXCEPT !.stands = ~Held(r, u, d, t)]),
                 {q \in Requests \ {r} :
                    IF req[q].op = "save" THEN req[q].device = d \/ req[q].token = t
                    ELSE req[q].user = u /\ req[q].token = t})

-----------------------------------------------------------------------------
(* Compare and remove *)

\* Mutant: a token is enough, whoever has it.
Matches_AnyUser(m) ==
    CASE m.at = "token" -> tokens[m.token] # Null /\ tokens[m.token].device = m.device
      [] m.at = "device" -> devices[m.device] # Null /\ devices[m.device].token = m.token
      [] m.at = "index" -> index[m.user][m.device] = m.token

Matches(m) ==
    CASE m.at = "token" -> TokenIs(m.user, m.device, m.token)
      [] m.at = "device" -> DeviceIs(m.user, m.device, m.token)
      [] m.at = "index" -> index[m.user][m.device] = m.token

\* A removal that has come back, in a listing with the entry it was for.
Removed(s, m) ==
    IF s.pc = "listing"
    THEN [s EXCEPT !.todo = {}, !.device = Null, !.entries[m.device] = Null]
    ELSE Settled([s EXCEPT !.todo = s.todo \ {m}])

\* cleanupPreviousDeviceAssignment removes from the index last.
InTurn(s, m) ==
    s.op = "save" /\ m.at = "index" => Removal("token", m.user, m.device, m.token) \notin s.todo

\* A transaction: a stale null in it matches nothing and changes nothing.
RemoveIfMatches(r, m) ==
    /\ req[r].pc \in {"removing", "expiring", "listing"}
    /\ m \in req[r].todo /\ InTurn(req[r], m)
    /\ tokens' = IF m.at = "token" /\ Matches(m) THEN [tokens EXCEPT ![m.token] = Null] ELSE tokens
    /\ devices' = IF m.at = "device" /\ Matches(m) THEN [devices EXCEPT ![m.device] = Null] ELSE devices
    /\ index' = IF m.at = "index" /\ Matches(m) THEN [index EXCEPT ![m.user][m.device] = Null] ELSE index
    /\ Record(r, Removed(req[r], m), {})

\* The request fails; what runs in parallel goes on, what comes after does not.
RemovalFails(r, m) ==
    /\ req[r].pc \in {"removing", "expiring", "listing"}
    /\ m \in req[r].todo /\ InTurn(req[r], m)
    /\ UNCHANGED store
    /\ LET after == {x \in {[m EXCEPT !.at = "index"]} : req[r].op = "save" /\ m.at = "token"}
       IN Record(r, IF req[r].pc = "listing" THEN [NoRequest EXCEPT !.pc = "failed"]
                    ELSE Settled([req[r] EXCEPT !.failed = TRUE, !.todo = req[r].todo \ ({m} \cup after)]), {})

-----------------------------------------------------------------------------
(* deletePushTokensFromDb *)

\* The saves whose registration r has just read in order to delete it.
Claimed(r, todo) ==
    {q \in Requests \ {r} : req[q].op = "save" /\ Everywhere(req[q].user, req[q].device, req[q].token) \cap todo # {}}

\* The assignment of one of the tokens, read for the deletion s.
ReadAssignment(r, s, t) ==
    LET todo == IF tokens[t] = Null \/ tokens[t].user # s.user THEN {}
                ELSE Everywhere(s.user, tokens[t].device, t)
    IN /\ UNCHANGED store
       /\ Record(r, Settled([s EXCEPT !.got = s.got \ {t}, !.todo = s.todo \cup todo]), Claimed(r, todo))

BeginDeleteToken(r, u, t) ==
    /\ Free(r) /\ "deleteToken" \in Ops
    /\ ReadAssignment(r, [Begin("deleteToken", u, "expiring") EXCEPT !.token = t, !.got = {t}, !.stands = TRUE], t)

ReadNext(r, t) ==
    /\ req[r].pc = "expiring" /\ t \in req[r].got
    /\ ReadAssignment(r, req[r], t)

-----------------------------------------------------------------------------
(* deleteUserPushTokensFromDb *)

\* It begins with readUserDevicePushTokenEntries.
BeginDeleteUser(r, u) ==
    /\ Free(r) /\ "deleteUser" \in Ops
    /\ UNCHANGED store
    /\ Record(r, Settled([Begin("deleteUser", u, "removing") EXCEPT !.entries = index[u]]),
              {q \in Requests : req[q].op = "save" /\ req[q].user = u})

\* The entries are handled in parallel.  The token is that of the device if the
\* device is still the user's, and else that of the index, read after it.
ReadDevice(r, d) ==
    /\ req[r].pc = "removing"
    /\ req[r].entries[d] # Null
    /\ UNCHANGED store
    /\ LET s == [req[r] EXCEPT !.entries[d] = Null]
           own == devices[d] # Null /\ devices[d].user = s.user
       IN Record(r, IF own THEN [s EXCEPT !.todo = s.todo \cup Everywhere(s.user, d, devices[d].token)]
                    ELSE [s EXCEPT !.unowned = s.unowned \cup {d}], {})

ReadIndex(r, d) ==
    /\ req[r].pc = "removing"
    /\ d \in req[r].unowned
    /\ UNCHANGED store
    /\ LET s == [req[r] EXCEPT !.unowned = req[r].unowned \ {d}]
           t == index[s.user][d]
       IN Record(r, Settled(IF t = Null THEN s ELSE [s EXCEPT !.todo = s.todo \cup Everywhere(s.user, d, t)]), {})

\* At last all of the user's index, with what has been saved meanwhile.
ClearIndex(r) ==
    /\ req[r].pc = "clearing"
    /\ index' = [index EXCEPT ![req[r].user] = NoEntries]
    /\ UNCHANGED <<tokens, devices>>
    /\ Record(r, Goto(r, "ok"), {})

-----------------------------------------------------------------------------
(* sendPushNotification: getPushTokensFromDb, Expo, and its invalid tokens *)

BeginNotify(r, u) ==
    /\ Free(r) /\ "notify" \in Ops
    /\ UNCHANGED store
    /\ Record(r, [Begin("notify", u, "listing") EXCEPT !.entries = index[u]], {})

\* Mutant: the assignment of the token is not looked at.
EntryMatches_DeviceOnly(place, u, d, t) == place = "device" => DeviceIs(u, d, t)

EntryMatches(place, u, d, t) ==
    IF place = "token" THEN TokenIs(u, d, t) ELSE DeviceIs(u, d, t)

\* isCurrentAssignment of one entry after the other, in two parallel reads: the
\* first that does not match decides.
CheckEntry(r, d, place) ==
    /\ req[r].pc = "listing"
    /\ req[r].entries[d] # Null /\ req[r].todo = {}
    /\ req[r].device \in {d, Null}
    /\ req[r].device = d => place \in req[r].unread
    /\ UNCHANGED store
    /\ LET s == [req[r] EXCEPT !.device = d]
           t == s.entries[d]
           unread == (IF req[r].device = Null THEN {"token", "device"} ELSE s.unread) \ {place}
       IN Record(r, IF ~EntryMatches(place, s.user, d, t) THEN [s EXCEPT !.unread = {}, !.todo = {Removal("index", s.user, d, t)}]
                    ELSE IF unread # {} THEN [s EXCEPT !.unread = unread]
                    ELSE [s EXCEPT !.unread = {}, !.device = Null, !.entries[d] = Null, !.got = s.got \cup {t}], {})

FinishListing(r) ==
    /\ req[r].pc = "listing" /\ req[r].entries = NoEntries
    /\ UNCHANGED store
    /\ Record(r, Goto(r, "sending"), {})

\* Expo reports some of the tokens as invalid; those are deleted.
Send(r, invalid) ==
    /\ req[r].pc = "sending"
    /\ invalid \subseteq req[r].got
    /\ UNCHANGED store
    /\ Record(r, Settled([Goto(r, "expiring") EXCEPT !.got = invalid]), {})

-----------------------------------------------------------------------------
(* The specification *)

Step(r) ==
    \/ \E place \in {"token", "device"} : ReadPrevious(r, place)
    \/ Update(r)
    \/ \E m \in req[r].todo : RemoveIfMatches(r, m) \/ RemovalFails(r, m)
    \/ \E t \in Tokens : ReadNext(r, t)
    \/ ClearIndex(r)
    \/ \E d \in Devices : ReadDevice(r, d) \/ ReadIndex(r, d)
    \/ \E d \in Devices, place \in {"token", "device"} : CheckEntry(r, d, place)
    \/ FinishListing(r)
    \/ \E invalid \in SUBSET req[r].got : Send(r, invalid)

BeginRequest(r, u) ==
    \/ \E d \in Devices, t \in Tokens : BeginSave(r, u, d, t)
    \/ \E t \in Tokens : BeginDeleteToken(r, u, t)
    \/ BeginDeleteUser(r, u)
    \/ BeginNotify(r, u)

Next ==
    \E r \in Requests :
        \/ begun < MaxRequests /\ begun' = begun + 1 /\ \E u \in Users : BeginRequest(r, u)
        \/ Step(r) /\ UNCHANGED begun

Spec == Init /\ [][Next]_vars

-----------------------------------------------------------------------------
(* Properties *)

\* A notification goes only to tokens that were its user's at some time since
\* it was asked for, however stale the user's index is: nobody is notified on a
\* device that has changed hands before.
NotifiesOwner ==
    \A r \in Requests : req[r].pc = "sending" => req[r].got \subseteq req[r].owned

\* A registration that has been saved, and that nobody has replaced or deleted
\* since, is one notifications find: the cleaning up after other saves, deletions
\* and notifications, by what they read before, spares it.
NewRegistrationSurvives ==
    \A r \in Requests :
        LET s == req[r]
        IN s.op = "save" /\ s.pc \in {"removing", "ok", "failed"} /\ s.stands =>
             Current(s.user, s.device, s.token) /\ index[s.user][s.device] = s.token

\* After the deletion of a token has succeeded, nothing that was going on
\* meanwhile lets its user be notified by it, until the user saves it again.
DeletedNotNotified ==
    \A r \in Requests :
        LET s == req[r]
        IN s.op = "deleteToken" /\ s.pc = "ok" /\ s.stands =>
             \A d \in Devices : ~Current(s.user, d, s.token)
=============================================================================
