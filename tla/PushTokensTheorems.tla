------------------------- MODULE PushTokensTheorems -------------------------
(* Theorems about PushTokens, for any users, devices, tokens and requests. *)
EXTENDS PushTokens, TLAPS

-----------------------------------------------------------------------------
(* Requests *)

\* What the fields of a request owe each other at its stage.  All of it is read
\* off the locals of one request.
Shaped(s) ==
    /\ s \in Request
    /\ s.pc \notin {"idle", "failed"} => s.user \in Users
    /\ s.op = "none" => s.pc \in {"idle", "failed"}
    /\ s.op = "save" =>
         /\ s.pc \in {"reading", "updating", "removing", "ok", "failed"}
         /\ s.user \in Users /\ s.device \in Devices /\ s.token \in Tokens
         /\ s.entries = NoEntries /\ s.unowned = {}
         /\ Everywhere(s.user, s.device, s.token) \cap s.todo = {}
    /\ s.op = "deleteToken" => s.pc \in {"expiring", "ok", "failed"} /\ s.user \in Users /\ s.token \in Tokens
    /\ s.op = "deleteUser" =>
         /\ s.pc \in {"removing", "clearing", "ok", "failed"}
         /\ \A m \in s.todo : m.user = s.user
    /\ s.op \in {"deleteUser", "notify"} => ~s.stands
    /\ s.op = "notify" => s.pc \in {"listing", "sending", "expiring", "ok", "failed"}
    /\ s.pc \in {"clearing", "ok"} => s.todo = {} /\ ~s.failed

LEMMA NoRequestShaped == NoRequest \in Request /\ Shaped(NoRequest)
BY PushTokensAssumption DEF NoRequest, Request, NoEntries, Shaped

LEMMA RemovalType ==
    ASSUME NEW at \in Places, NEW u \in Users, NEW d \in Devices, NEW t \in Tokens
    PROVE  Removal(at, u, d, t) \in Removals
BY DEF Removal, Removals

LEMMA EverywhereType ==
    ASSUME NEW u \in Users, NEW d \in Devices, NEW t \in Tokens
    PROVE  /\ Everywhere(u, d, t) \subseteq Removals
           /\ \A m \in Removals :
                m \in Everywhere(u, d, t) <=> m.user = u /\ m.device = d /\ m.token = t
BY DEF Everywhere, Removal, Removals

-----------------------------------------------------------------------------
(* Record: what becomes of each request in a step of r *)

\* All that the program sees of two requests is the same.
Same(s, t) ==
    /\ s.pc = t.pc /\ s.op = t.op
    /\ s.user = t.user /\ s.device = t.device /\ s.token = t.token
    /\ s.unread = t.unread /\ s.entries = t.entries /\ s.unowned = t.unowned
    /\ s.todo = t.todo /\ s.got = t.got /\ s.failed = t.failed

Next1(r, next, q) == IF q = r THEN next ELSE req[q]

LEMMA RecordAt ==
    ASSUME req \in [Requests -> Request], NEW r \in Requests, NEW next \in Request, NEW ended,
           Record(r, next, ended), NEW q \in Requests
    PROVE  LET s == Next1(r, next, q) IN
           /\ s \in Request
           /\ req'[q] \in Request
           /\ \/ req'[q] = NoRequest
              \/ /\ Same(req'[q], s)
                 /\ req'[q].stands => s.stands /\ q \notin ended
                 /\ s.pc \in {"listing", "sending"} => req'[q].owned = s.owned \cup OwnedBy(s.user)
                 /\ s.pc \in {"ok", "failed"} => req'[q].stands
<1> DEFINE s == Next1(r, next, q)
           stands == s.stands /\ q \notin ended
           owned == IF s.pc \in {"listing", "sending"} THEN s.owned \cup OwnedBy(s.user) ELSE {}
<1>1. s \in Request
  BY DEF Next1
<1>2. req'[q] = IF s.pc \in {"ok", "failed"} /\ ~stands THEN NoRequest
                ELSE [s EXCEPT !.stands = stands, !.owned = owned]
  BY DEF Record, Next1
<1>3. stands \in BOOLEAN
  OBVIOUS
<1>4. owned \in SUBSET Tokens
  BY <1>1 DEF Request, OwnedBy
<1>5. CASE s.pc \in {"ok", "failed"} /\ ~stands
  BY <1>1, <1>2, <1>5, NoRequestShaped
<1>6. CASE ~(s.pc \in {"ok", "failed"} /\ ~stands)
  <2> HIDE DEF s, stands, owned
  <2>1. req'[q] = [s EXCEPT !.stands = stands, !.owned = owned]
    BY <1>2, <1>6
  <2>2. req'[q] \in Request /\ Same(req'[q], s) /\ req'[q].stands = stands /\ req'[q].owned = owned
    BY ZenonT(40), <1>1, <1>3, <1>4, <2>1 DEF Request, Same
  <2> QED  BY <1>1, <1>6, <2>2 DEF stands, owned, s
<1> QED  BY <1>5, <1>6

-----------------------------------------------------------------------------
(* The inductive invariant *)

StoreOK ==
    /\ tokens \in [Tokens -> [user: Users, device: Devices] \cup {Null}]
    /\ devices \in [Devices -> [user: Users, token: Tokens] \cup {Null}]
    /\ index \in [Users -> [Devices -> Tokens \cup {Null}]]

\* A request that has come back is there for its claim.
Claims(s) == s.pc \in {"ok", "failed"} => s.stands

\* What is to be notified, and an entry whose token has been found in order, has
\* been the user's: it is among those recorded, or the user's now (more).
Listed(s, more) ==
    /\ s.pc \in {"listing", "sending"} => s.got \subseteq s.owned \cup more
    /\ s.pc = "listing" /\ s.todo = {} /\ s.device # Null /\ "token" \notin s.unread =>
         s.entries[s.device] \in s.owned \cup more

Standing(s) == s.op = "save" /\ s.pc \in {"removing", "ok", "failed"} /\ s.stands

Found(s) == Current(s.user, s.device, s.token) /\ index[s.user][s.device] = s.token

\* The registration that s has saved is not p's to remove, or only after p has
\* replaced it.
Harmless(s, p) ==
    /\ p.op = "deleteUser" => p.user # s.user
    /\ Everywhere(s.user, s.device, s.token) \cap p.todo # {} =>
         /\ p.op = "save" /\ p.pc \in {"reading", "updating"}
         /\ p.device = s.device \/ p.token = s.token

\* What a token's deletion leaves to be found it is about to remove, unless it
\* has failed.
Deletes(s) ==
    s.op = "deleteToken" /\ s.stands =>
        \A d \in Devices : Current(s.user, d, s.token) =>
            s.failed \/ Removal("token", s.user, d, s.token) \in s.todo

Inv ==
    /\ StoreOK
    /\ req \in [Requests -> Request]
    /\ \A q \in Requests :
         /\ Shaped(req[q]) /\ Claims(req[q]) /\ Listed(req[q], {})
         /\ Standing(req[q]) => Found(req[q])
         /\ Deletes(req[q])
    /\ \A p, q \in Requests : p # q /\ Standing(req[p]) => Harmless(req[p], req[q])

LEMMA InitInv == Init => Inv
<1> SUFFICES ASSUME Init PROVE Inv
  OBVIOUS
<1>1. StoreOK
  BY DEF Init, StoreOK, NoEntries
<1>2. \A q \in Requests : req[q] = NoRequest
  BY DEF Init
<1>3. req \in [Requests -> Request]
  BY NoRequestShaped DEF Init
<1>4. Claims(NoRequest) /\ Listed(NoRequest, {}) /\ ~Standing(NoRequest) /\ Deletes(NoRequest)
  BY DEF Claims, Listed, Standing, Deletes, NoRequest
<1> QED  BY <1>1, <1>2, <1>3, <1>4, NoRequestShaped DEF Inv

\* What a step must show of the request it makes of r, and of the claims of the
\* others, for the invariant to hold after it.  (old is req before the step: what
\* is said of old[q] after the step is said of the request as it was.)
LEMMA StepKeeps ==
    ASSUME Inv, NEW r \in Requests, NEW old, old = req, NEW next, NEW ended,
           Record(r, next, ended),
           StoreOK', Shaped(next), Listed(next, OwnedBy(next.user)),
           Standing(next) => Found(next)' /\ \A q \in Requests \ {r} : Harmless(next, old[q]),
           Deletes(next)',
           \A q \in Requests \ {r} :
               /\ Standing(old[q]) /\ q \notin ended => Found(old[q])' /\ Harmless(old[q], next)
               /\ q \notin ended => Deletes(old[q])'
    PROVE  Inv'
<1> DEFINE S(q) == IF q = r THEN next ELSE old[q]
<1>1. old \in [Requests -> Request] /\ next \in Request
  BY DEF Inv, Shaped
<1>2. \A q \in Requests :
        /\ req'[q] \in Request
        /\ \/ req'[q] = NoRequest
           \/ /\ Same(req'[q], S(q))
              /\ req'[q].stands => S(q).stands /\ q \notin ended
              /\ S(q).pc \in {"listing", "sending"} => req'[q].owned = S(q).owned \cup OwnedBy(S(q).user)
              /\ S(q).pc \in {"ok", "failed"} => req'[q].stands
  BY <1>1, RecordAt DEF Next1
<1>3. req' \in [Requests -> Request]
  BY <1>2 DEF Record
<1>4. \A q \in Requests : Shaped(S(q)) /\ Listed(S(q), OwnedBy(S(q).user))
  BY DEF Inv, Listed
<1>5. ASSUME NEW q \in Requests PROVE Shaped(req'[q])
  <2>1. CASE req'[q] = NoRequest
    BY <2>1, NoRequestShaped
  <2>2. CASE Same(req'[q], S(q)) /\ (req'[q].stands => S(q).stands)
    <3> HIDE DEF S
    <3> QED  BY <1>2, <1>4, <2>2 DEF Same, Shaped
  <2> QED  BY <1>2, <2>1, <2>2
<1>6. ASSUME NEW q \in Requests PROVE Claims(req'[q]) /\ Listed(req'[q], {})
  <2>1. CASE req'[q] = NoRequest
    BY <2>1 DEF NoRequest, Claims, Listed
  <2>2. CASE /\ Same(req'[q], S(q))
             /\ S(q).pc \in {"listing", "sending"} => req'[q].owned = S(q).owned \cup OwnedBy(S(q).user)
             /\ S(q).pc \in {"ok", "failed"} => req'[q].stands
    <3> HIDE DEF S
    <3> QED  BY <1>4, <2>2 DEF Same, Claims, Listed
  <2> QED  BY <1>2, <2>1, <2>2
<1>7. ASSUME NEW q \in Requests PROVE (Standing(req[q]) => Found(req[q]))' /\ Deletes(req[q])'
  <2>1. CASE req'[q] = NoRequest
    BY <2>1 DEF NoRequest, Standing, Deletes
  <2>2. CASE Same(req'[q], S(q)) /\ (req'[q].stands => S(q).stands /\ q \notin ended)
    <3> DEFINE s == S(q)
    <3>1. Standing(s) /\ q \notin ended => Found(s)'
      BY <1>1
    <3>2. q \notin ended => Deletes(s)'
      BY <1>1
    <3> QED  BY <2>2, <3>1, <3>2 DEF Same, Standing, Found, Current, TokenIs, DeviceIs, Deletes
  <2> QED  BY <1>2, <2>1, <2>2
<1>8. ASSUME NEW p \in Requests, NEW q \in Requests, p # q, Standing(req[p])'
      PROVE  Harmless(req[p], req[q])'
  <2>1. Same(req'[p], S(p)) /\ Standing(S(p)) /\ p \notin ended
    BY <1>2, <1>8 DEF Same, Standing, NoRequest
  <2>2. Harmless(S(p), S(q))
    <3>1. CASE p = r
      BY <1>8, <2>1, <3>1
    <3>2. CASE q = r
      BY <1>8, <2>1, <3>2
    <3>3. CASE p # r /\ q # r
      BY <1>8, <2>1, <3>3 DEF Inv
    <3> QED  BY <3>1, <3>2, <3>3
  <2>3. req'[q] = NoRequest \/ Same(req'[q], S(q))
    BY <1>2
  <2>4. NoRequest.op = "none" /\ NoRequest.todo = {}
    BY DEF NoRequest
  <2> HIDE DEF S
  <2> QED  BY <2>1, <2>2, <2>3, <2>4 DEF Same, Harmless
<1> QED  BY <1>3, <1>5, <1>6, <1>7, <1>8 DEF Inv

\* The same for a step that only reads.
LEMMA ReadKeeps ==
    ASSUME Inv, NEW r \in Requests, NEW old, old = req, NEW next, NEW ended,
           Record(r, next, ended), UNCHANGED store,
           Shaped(next), Listed(next, OwnedBy(next.user)),
           Standing(next) =>
               /\ Standing(old[r]) /\ next.user = old[r].user
               /\ next.device = old[r].device /\ next.token = old[r].token,
           Deletes(next),
           \A q \in Requests \ {r} : Standing(old[q]) /\ q \notin ended => Harmless(old[q], next)
    PROVE  Inv'
<1>1. StoreOK'
  BY DEF Inv, StoreOK, store
<1>2. \A s : (Found(s) => Found(s)') /\ (Deletes(s) => Deletes(s)')
  BY DEF store, Found, Deletes, Current, TokenIs, DeviceIs
<1>3. Standing(next) => Found(next) /\ \A q \in Requests \ {r} : Harmless(next, old[q])
  <2> SUFFICES ASSUME Standing(next) PROVE Found(next) /\ \A q \in Requests \ {r} : Harmless(next, old[q])
    OBVIOUS
  <2>1. Found(old[r]) /\ \A q \in Requests \ {r} : Harmless(old[r], old[q])
    BY DEF Inv
  <2> QED  BY <2>1 DEF Found, Harmless
<1>4. \A q \in Requests : (Standing(old[q]) => Found(old[q])) /\ Deletes(old[q])
  BY DEF Inv
<1> QED  BY <1>1, <1>2, <1>3, <1>4, StepKeeps

LEMMA SettledShaped ==
    ASSUME NEW s, Shaped(s)
    PROVE  /\ Shaped(Settled(s))
           /\ Same(Settled(s), [s EXCEPT !.pc = Settled(s).pc])
           /\ Settled(s).stands = s.stands
           /\ \/ Settled(s).pc = s.pc
              \/ s.pc \in {"removing", "expiring"} /\ Settled(s).pc \in {"ok", "failed", "clearing"}
<1>1. CASE ~AllBack(s)
  BY <1>1 DEF Settled, Same, Shaped, Request
<1>2. CASE AllBack(s)
  <2>1. PICK pc : /\ Settled(s) = [s EXCEPT !.pc = pc]
                  /\ pc = IF s.failed THEN "failed" ELSE IF s.op = "deleteUser" THEN "clearing" ELSE "ok"
    BY <1>2 DEF Settled
  <2>2. s.pc \in {"removing", "expiring"} /\ s.todo = {}
    BY <1>2 DEF AllBack
  <2>3. s.op \in AllOps
    BY <2>2, PushTokensAssumption DEF Shaped, Request
  <2> QED  BY <2>1, <2>2, <2>3 DEF Same, Shaped, Request, AllOps
<1> QED  BY <1>1, <1>2

LEMMA SettledSays ==
    ASSUME NEW s, Shaped(s)
    PROVE  LET e == Settled(s) IN
           /\ Shaped(e)
           /\ e.user = s.user /\ e.device = s.device /\ e.token = s.token
           /\ Standing(e) <=> Standing(s)
           /\ \A x : Harmless(x, s) => Harmless(x, e)
           /\ \A more : Listed(s, more) => Listed(e, more)
           /\ (Deletes(s) => Deletes(e)) /\ (Deletes(s)' => Deletes(e)')
<1> DEFINE e == Settled(s)
<1>1. /\ e.op = s.op /\ e.user = s.user /\ e.device = s.device /\ e.token = s.token
      /\ e.unread = s.unread /\ e.entries = s.entries /\ e.todo = s.todo /\ e.got = s.got
      /\ e.failed = s.failed /\ e.stands = s.stands
      /\ \/ e.pc = s.pc /\ e.owned = s.owned
         \/ s.pc \in {"removing", "expiring"} /\ e.pc \in {"ok", "failed", "clearing"}
  <2>1. Same(e, [s EXCEPT !.pc = e.pc]) /\ e.stands = s.stands
    BY SettledShaped
  <2>2. s \in Request
    BY DEF Shaped
  <2>3. e.pc = s.pc => e = s
    BY <2>2 DEF Settled, AllBack, Request
  <2> QED  BY <2>1, <2>2, <2>3, SettledShaped DEF Same, Request
<1>2. Shaped(e)
  BY SettledShaped
<1> HIDE DEF e
<1>3. Standing(e) <=> Standing(s)
  BY <1>1, <1>2 DEF Standing, Shaped
<1>4. \A x : Harmless(x, s) => Harmless(x, e)
  BY <1>1 DEF Harmless
<1>5. \A more : Listed(s, more) => Listed(e, more)
  BY <1>1 DEF Listed
<1>6. (Deletes(s) => Deletes(e)) /\ (Deletes(s)' => Deletes(e)')
  BY <1>1 DEF Deletes, Current, TokenIs, DeviceIs
<1> QED  BY <1>1, <1>2, <1>3, <1>4, <1>5, <1>6 DEF e

-----------------------------------------------------------------------------
(* The steps of a save *)

LEMMA BeginSaveInv ==
    ASSUME Inv, NEW r \in Requests, NEW u \in Users, NEW d \in Devices, NEW t \in Tokens,
           BeginSave(r, u, d, t)
    PROVE  Inv'
<1>1. PICK old, next :
        /\ old = req
        /\ next = [Begin("save", u, "reading") EXCEPT
                     !.device = d, !.token = t, !.unread = {"token", "device"}]
  OBVIOUS
<1>2. Record(r, next, {}) /\ UNCHANGED store /\ "save" \in Ops
  BY <1>1 DEF BeginSave
<1>3. next \in Request /\ next.pc = "reading" /\ next.op = "save" /\ next.todo = {}
      /\ next.user = u /\ next.device = d /\ next.token = t
      /\ next.entries = NoEntries /\ next.unowned = {}
  BY <1>1, <1>2, NoRequestShaped DEF Begin, NoRequest, Request, Places
<1>4. Shaped(next) /\ Listed(next, OwnedBy(next.user)) /\ ~Standing(next) /\ Deletes(next)
  BY <1>3 DEF Shaped, Listed, Standing, Deletes
<1>5. \A s : Harmless(s, next)
  BY <1>3 DEF Harmless
<1> QED  BY <1>1, <1>2, <1>4, <1>5, ReadKeeps

\* What a save has to clean up is a registration that differs from its own.
LEMMA ReadPreviousInv ==
    ASSUME Inv, NEW r \in Requests, NEW place \in {"token", "device"}, ReadPrevious(r, place)
    PROVE  Inv'
<1>1. PICK old, s, previous, cleanup :
        /\ old = req /\ s = req[r]
        /\ previous = IF place = "device" THEN devices[s.device] ELSE tokens[s.token]
        /\ cleanup = IF previous = Null THEN {}
                     ELSE IF place = "device" THEN CleanupOfDevice(s, previous)
                     ELSE CleanupOfToken(s, previous)
  OBVIOUS
<1>2. PICK next :
        /\ next = [s EXCEPT !.unread = s.unread \ {place}, !.todo = s.todo \cup cleanup,
                            !.pc = IF s.unread \ {place} = {} THEN "updating" ELSE "reading"]
        /\ Record(r, next, {}) /\ UNCHANGED store
  BY <1>1 DEF ReadPrevious
<1>3. s \in Request /\ Shaped(s) /\ s.pc = "reading" /\ s.op = "save"
  BY <1>1, PushTokensAssumption DEF ReadPrevious, Inv, Shaped, Request, AllOps
<1>4. s.user \in Users /\ s.device \in Devices /\ s.token \in Tokens
  BY <1>3 DEF Shaped
<1>5. cleanup \subseteq Removals /\ Everywhere(s.user, s.device, s.token) \cap cleanup = {}
      /\ \A m \in cleanup : m.device = s.device \/ m.token = s.token
  <2>1. CASE previous # Null /\ place = "device"
    <3>1. previous \in [user: Users, token: Tokens]
      BY <1>1, <1>4, <2>1 DEF Inv, StoreOK
    <3> QED  BY <1>1, <1>4, <2>1, <3>1, EverywhereType DEF CleanupOfDevice, Removal, Removals, Places
  <2>2. CASE previous # Null /\ place = "token"
    <3>1. previous \in [user: Users, device: Devices]
      BY <1>1, <1>4, <2>2 DEF Inv, StoreOK
    <3>2. previous # [user |-> s.user, device |-> s.device] =>
            previous.user # s.user \/ previous.device # s.device
      BY <3>1
    <3> QED  BY <1>1, <1>4, <2>2, <3>1, <3>2, EverywhereType DEF CleanupOfToken, Removal, Removals, Places
  <2> QED  BY <1>1, <2>1, <2>2
<1>6. /\ next \in Request /\ next.pc \in {"reading", "updating"} /\ next.op = "save"
      /\ next.user = s.user /\ next.device = s.device /\ next.token = s.token
      /\ next.entries = s.entries /\ next.unowned = s.unowned /\ next.todo = s.todo \cup cleanup
  BY <1>2, <1>3, <1>5 DEF Request
<1>7. Shaped(next) /\ Listed(next, OwnedBy(next.user)) /\ ~Standing(next) /\ Deletes(next)
  BY <1>3, <1>5, <1>6 DEF Shaped, Listed, Standing, Deletes
<1>8. ASSUME NEW q \in Requests \ {r}, Standing(old[q]) PROVE Harmless(old[q], next)
  <2>1. Harmless(old[q], s)
    BY <1>1, <1>8 DEF Inv
  <2>2. old[q].user \in Users /\ old[q].device \in Devices /\ old[q].token \in Tokens
    BY <1>1, <1>8 DEF Inv, Standing, Shaped
  <2>3. \A m \in cleanup \cap Everywhere(old[q].user, old[q].device, old[q].token) :
           m.device = old[q].device /\ m.token = old[q].token
    BY <1>5, <2>2, EverywhereType
  <2> QED  BY <1>3, <1>5, <1>6, <2>1, <2>3 DEF Harmless
<1> QED  BY <1>1, <1>2, <1>7, <1>8, ReadKeeps

\* A stage with pc in the parallel part belongs to the operation that has it.
LEMMA OpAt ==
    ASSUME NEW s, Shaped(s)
    PROVE  /\ s.op \in AllOps \cup {"none"}
           /\ s.pc \in {"reading", "updating"} => s.op = "save"
           /\ s.pc = "removing" => s.op \in {"save", "deleteUser"}
           /\ s.pc = "expiring" => s.op \in {"deleteToken", "notify"}
           /\ s.pc \in {"listing", "sending"} => s.op = "notify"
           /\ s.pc = "clearing" => s.op = "deleteUser"
BY PushTokensAssumption DEF Shaped, Request, AllOps

\* The update ends the claims to what it replaces, and its own claim holds from
\* the start: nobody has read its registration in order to remove it.
LEMMA UpdateInv ==
    ASSUME Inv, NEW r \in Requests, Update(r)
    PROVE  Inv'
<1>1. PICK old, s, u, d, t, g, ended :
        /\ old = req /\ s = req[r] /\ u = s.user /\ d = s.device /\ t = s.token
        /\ g = [Goto(r, "removing") EXCEPT !.stands = ~Held(r, u, d, t)]
        /\ ended = {q \in Requests \ {r} :
                      IF req[q].op = "save" THEN req[q].device = d \/ req[q].token = t
                      ELSE req[q].user = u /\ req[q].token = t}
  OBVIOUS
<1>2. Record(r, Settled(g), ended) /\ s.pc = "updating"
  BY <1>1 DEF Update
<1>3. Shaped(s) /\ s.op = "save"
  BY <1>1, <1>2, OpAt DEF Inv
<1>4. u \in Users /\ d \in Devices /\ t \in Tokens
  BY <1>1, <1>3 DEF Shaped
<1>5. /\ tokens' = [tokens EXCEPT ![t] = [user |-> u, device |-> d]]
      /\ devices' = [devices EXCEPT ![d] = [user |-> u, token |-> t]]
      /\ index' = [index EXCEPT ![u][d] = t]
  BY <1>1 DEF Update
<1>6. PICK held \in BOOLEAN : held = Held(r, u, d, t)
  BY DEF Held
<1>7. /\ g \in Request /\ g.pc = "removing" /\ g.op = "save" /\ g.stands = ~held
      /\ g.user = u /\ g.device = d /\ g.token = t
      /\ g.entries = s.entries /\ g.unowned = s.unowned /\ g.todo = s.todo
  <2>1. g = [s EXCEPT !.pc = "removing", !.stands = ~held]
    BY <1>1, <1>6 DEF Goto
  <2>2. s \in Request
    BY <1>3 DEF Shaped
  <2> QED  BY ZenonT(40), <1>1, <1>3, <2>1, <2>2 DEF Request
<1>8. Shaped(g) /\ Listed(g, OwnedBy(u)) /\ Deletes(g)'
  BY <1>1, <1>3, <1>7 DEF Shaped, Listed, Deletes
<1>9. StoreOK'
  <2>1. /\ tokens \in [Tokens -> [user: Users, device: Devices] \cup {Null}]
        /\ devices \in [Devices -> [user: Users, token: Tokens] \cup {Null}]
        /\ index \in [Users -> [Devices -> Tokens \cup {Null}]]
    BY DEF Inv, StoreOK
  <2>2. tokens' \in [Tokens -> [user: Users, device: Devices] \cup {Null}]
    BY <1>4, <1>5, <2>1
  <2>3. devices' \in [Devices -> [user: Users, token: Tokens] \cup {Null}]
    BY <1>4, <1>5, <2>1
  <2>4. index' \in [Users -> [Devices -> Tokens \cup {Null}]]
    BY <1>4, <1>5, <2>1
  <2> QED  BY <2>2, <2>3, <2>4 DEF StoreOK
<1>10. Standing(g) => Found(g)' /\ \A q \in Requests \ {r} : Harmless(g, old[q])
  <2>1. Found(g)'
    BY <1>4, <1>5, <1>7 DEF Inv, StoreOK, Found, Current, TokenIs, DeviceIs
  <2>2. ASSUME ~held, NEW q \in Requests \ {r} PROVE Harmless(g, old[q])
    <3>1. /\ Everywhere(u, d, t) \cap old[q].todo = {}
          /\ ~(old[q].user = u /\ old[q].op = "deleteUser" /\ old[q].pc \notin {"ok", "failed"})
      BY <1>1, <1>6, <2>2 DEF Held
    <3>2. old[q].op = "deleteUser" => old[q].pc \notin {"ok", "failed"}
      BY <1>1 DEF Inv, Shaped, Claims
    <3> QED  BY <1>7, <3>1, <3>2 DEF Harmless
  <2> QED  BY <1>7, <2>1, <2>2 DEF Standing
<1>11. ASSUME NEW q \in Requests \ {r}, Standing(old[q]), q \notin ended
       PROVE  Found(old[q])' /\ Harmless(old[q], g)
  <2>1. old[q].device # d /\ old[q].token # t /\ Found(old[q])
    BY <1>1, <1>11 DEF Inv, Standing
  <2>2. old[q].user \in Users /\ old[q].device \in Devices /\ old[q].token \in Tokens
    BY <1>1, <1>11 DEF Inv, Standing, Shaped
  <2>3. Found(old[q])'
    BY <1>4, <1>5, <2>1, <2>2 DEF Inv, StoreOK, Found, Current, TokenIs, DeviceIs
  <2>4. Harmless(old[q], s)
    BY <1>1, <1>11 DEF Inv
  <2> QED  BY <1>1, <1>3, <1>7, <2>1, <2>3, <2>4 DEF Harmless
<1>12. ASSUME NEW q \in Requests \ {r}, q \notin ended PROVE Deletes(old[q])'
  <2> SUFFICES ASSUME old[q].op = "deleteToken", old[q].stands, NEW e \in Devices,
                      Current(old[q].user, e, old[q].token)'
               PROVE  old[q].failed \/ Removal("token", old[q].user, e, old[q].token) \in old[q].todo
    BY DEF Deletes
  <2>1. old[q].token \in Tokens /\ Deletes(old[q])
    BY <1>1 DEF Inv, Shaped
  <2>2. old[q].token # t
    BY <1>1, <1>4, <1>5, <1>12, <2>1 DEF Inv, StoreOK, Current, TokenIs
  <2>3. e # d
    BY <1>4, <1>5, <2>2 DEF Inv, StoreOK, Current, DeviceIs
  <2>4. Current(old[q].user, e, old[q].token)
    BY <1>4, <1>5, <2>1, <2>2, <2>3 DEF Inv, StoreOK, Current, TokenIs, DeviceIs
  <2> QED  BY <2>1, <2>4 DEF Deletes
<1>13. PICK next : next = Settled(g)
  OBVIOUS
<1>14. /\ Shaped(next) /\ Listed(next, OwnedBy(next.user)) /\ Deletes(next)'
       /\ next.user = u /\ next.device = d /\ next.token = t
       /\ Standing(next) <=> Standing(g)
       /\ \A x : Harmless(x, g) => Harmless(x, next)
  BY <1>7, <1>8, <1>13, SettledSays
<1>15. Standing(next) => Found(next)' /\ \A q \in Requests \ {r} : Harmless(next, old[q])
  BY <1>7, <1>10, <1>14 DEF Found, Current, TokenIs, DeviceIs, Harmless
<1> QED  BY <1>1, <1>2, <1>9, <1>11, <1>12, <1>13, <1>14, <1>15, StepKeeps


-----------------------------------------------------------------------------
(* Compare and remove *)

\* RemoveIfMatches, without what becomes of its request.
Remove(m) ==
    /\ tokens' = IF m.at = "token" /\ Matches(m) THEN [tokens EXCEPT ![m.token] = Null] ELSE tokens
    /\ devices' = IF m.at = "device" /\ Matches(m) THEN [devices EXCEPT ![m.device] = Null] ELSE devices
    /\ index' = IF m.at = "index" /\ Matches(m) THEN [index EXCEPT ![m.user][m.device] = Null] ELSE index

LEMMA MatchesIs ==
    ASSUME NEW m
    PROVE  /\ m.at = "token" => (Matches(m) <=> tokens[m.token] = [user |-> m.user, device |-> m.device])
           /\ m.at = "device" => (Matches(m) <=> devices[m.device] = [user |-> m.user, token |-> m.token])
           /\ m.at = "index" => (Matches(m) <=> index[m.user][m.device] = m.token)
BY DEF Matches, TokenIs, DeviceIs

LEMMA RemoveType ==
    ASSUME StoreOK, NEW m \in Removals, Remove(m)
    PROVE  StoreOK'
<1>1. /\ tokens \in [Tokens -> [user: Users, device: Devices] \cup {Null}]
      /\ devices \in [Devices -> [user: Users, token: Tokens] \cup {Null}]
      /\ index \in [Users -> [Devices -> Tokens \cup {Null}]]
  BY DEF StoreOK
<1>2. m.user \in Users /\ m.device \in Devices /\ m.token \in Tokens
  BY DEF Removals
<1>3. tokens' \in [Tokens -> [user: Users, device: Devices] \cup {Null}]
  BY <1>1, <1>2 DEF Remove
<1>4. devices' \in [Devices -> [user: Users, token: Tokens] \cup {Null}]
  BY <1>1, <1>2 DEF Remove
<1>5. index' \in [Users -> [Devices -> Tokens \cup {Null}]]
  BY <1>1, <1>2 DEF Remove
<1> QED  BY <1>3, <1>4, <1>5 DEF StoreOK

\* Whatever the removal compares with, it spares the other registrations.
LEMMA RemoveSpares ==
    ASSUME StoreOK, NEW m \in Removals, Remove(m),
           NEW x, x.user \in Users, x.device \in Devices, x.token \in Tokens,
           m \notin Everywhere(x.user, x.device, x.token), Found(x)
    PROVE  Found(x)'
<1>1. ~(m.user = x.user /\ m.device = x.device /\ m.token = x.token)
  BY EverywhereType
<1>2. TokenIs(x.user, x.device, x.token) /\ DeviceIs(x.user, x.device, x.token)
      /\ index[x.user][x.device] = x.token
  BY DEF Found, Current
<1>3. TokenIs(x.user, x.device, x.token)'
  <2>1. ~(m.at = "token" /\ Matches(m) /\ m.token = x.token)
    <3>1. ASSUME [user |-> m.user, device |-> m.device] = [user |-> x.user, device |-> x.device]
          PROVE  m.user = x.user /\ m.device = x.device
      BY <3>1
    <3> QED  BY <1>1, <1>2, <3>1, MatchesIs DEF TokenIs
  <2> QED  BY <1>2, <2>1 DEF StoreOK, Remove, TokenIs
<1>4. DeviceIs(x.user, x.device, x.token)'
  <2>1. ~(m.at = "device" /\ Matches(m) /\ m.device = x.device)
    <3>1. ASSUME [user |-> m.user, token |-> m.token] = [user |-> x.user, token |-> x.token]
          PROVE  m.user = x.user /\ m.token = x.token
      BY <3>1
    <3> QED  BY <1>1, <1>2, <3>1, MatchesIs DEF DeviceIs
  <2> QED  BY <1>2, <2>1 DEF StoreOK, Remove, DeviceIs
<1>5. index'[x.user][x.device] = x.token
  <2>1. ~(m.at = "index" /\ Matches(m) /\ m.user = x.user /\ m.device = x.device)
    <3>1. SUFFICES ASSUME m.at = "index", Matches(m), m.user = x.user, m.device = x.device
                   PROVE  FALSE
      OBVIOUS
    <3>2. index[m.user][m.device] = m.token
      BY <3>1, MatchesIs
    <3> QED  BY <1>1, <1>2, <3>1, <3>2
  <2> QED  BY <1>2, <2>1 DEF StoreOK, Remove, Removals
<1> QED  BY <1>3, <1>4, <1>5 DEF Found, Current

LEMMA RemoveRemoves ==
    ASSUME StoreOK, NEW m \in Removals, Remove(m),
           NEW u \in Users, NEW d \in Devices, NEW t \in Tokens, Current(u, d, t)'
    PROVE  Current(u, d, t) /\ m # Removal("token", u, d, t)
<1>1. /\ [user |-> u, device |-> d] # Null
      /\ [user |-> u, token |-> t] # Null
  BY NullIsNoRegistration
<1>2. tokens'[t] = [user |-> u, device |-> d] /\ devices'[d] = [user |-> u, token |-> t]
  BY DEF Current, TokenIs, DeviceIs
<1>3. tokens[t] = [user |-> u, device |-> d] /\ ~(m.at = "token" /\ Matches(m) /\ m.token = t)
  BY <1>1, <1>2 DEF StoreOK, Remove
<1>4. devices[d] = [user |-> u, token |-> t]
  BY <1>1, <1>2 DEF StoreOK, Remove
<1>5. m # Removal("token", u, d, t)
  <2> SUFFICES ASSUME m = Removal("token", u, d, t) PROVE FALSE
    OBVIOUS
  <2>1. m.at = "token" /\ m.user = u /\ m.device = d /\ m.token = t
    BY DEF Removal
  <2> QED  BY <1>3, <2>1, MatchesIs
<1> QED  BY <1>3, <1>4, <1>5 DEF Current, TokenIs, DeviceIs

\* A request one of whose removals has come back.
LEMMA RemovedSays ==
    ASSUME NEW s, Shaped(s), s.pc \in {"removing", "expiring", "listing"}, NEW m \in s.todo
    PROVE  LET e == Removed(s, m) IN
           /\ Shaped(e)
           /\ e.user = s.user
           /\ Standing(e) <=> Standing(s)
           /\ Standing(e) => e.device = s.device /\ e.token = s.token
           /\ \A x : Harmless(x, s) => Harmless(x, e)
           /\ \A more : Listed(s, more) => Listed(e, more)
<1>1. s \in Request /\ s.op \in AllOps \cup {"none"} /\ m \in Removals
  BY OpAt DEF Shaped, Request
<1>2. CASE s.pc = "listing"
  <2>1. PICK e : e = Removed(s, m)
    OBVIOUS
  <2>2. s.op = "notify"
    BY <1>2, OpAt
  <2>3. m.device \in Devices
    BY <1>1 DEF Removals
  <2>4. e = [s EXCEPT !.todo = {}, !.device = Null, !.entries[m.device] = Null]
    BY <1>2, <2>1 DEF Removed
  <2>5. /\ e \in Request /\ e.pc = "listing" /\ e.op = "notify" /\ e.user = s.user
        /\ e.todo = {} /\ e.device = Null /\ e.got = s.got /\ e.owned = s.owned /\ e.stands = s.stands
    BY <1>1, <1>2, <2>2, <2>3, <2>4 DEF Request
  <2>6. Shaped(e)
    BY <1>2, <2>2, <2>5 DEF Shaped
  <2>7. ~Standing(e) /\ ~Standing(s) /\ \A x : Harmless(x, e)
    BY <2>2, <2>5 DEF Standing, Harmless
  <2>8. \A more : Listed(s, more) => Listed(e, more)
    BY <1>2, <2>5 DEF Listed
  <2> QED  BY <2>1, <2>5, <2>6, <2>7, <2>8
<1>3. CASE s.pc # "listing"
  <2>1. PICK g : g = [s EXCEPT !.todo = s.todo \ {m}]
    OBVIOUS
  <2>2. Removed(s, m) = Settled(g)
    BY <1>3, <2>1 DEF Removed
  <2>3. /\ g \in Request /\ g.pc = s.pc /\ g.op = s.op /\ g.user = s.user
        /\ g.device = s.device /\ g.token = s.token /\ g.entries = s.entries
        /\ g.unowned = s.unowned /\ g.todo = s.todo \ {m} /\ g.stands = s.stands
        /\ g.got = s.got /\ g.owned = s.owned /\ g.failed = s.failed
    BY <1>1, <2>1 DEF Request
  <2>4. Shaped(g) /\ (Standing(g) <=> Standing(s))
    BY <1>3, <2>3 DEF Shaped, Standing
  <2>5. /\ \A x : Harmless(x, s) => Harmless(x, g)
        /\ \A more : Listed(g, more)
    BY <1>3, <2>3 DEF Harmless, Listed
  <2> QED  BY <2>2, <2>3, <2>4, <2>5, SettledSays
<1> QED  BY <1>2, <1>3

LEMMA RemoveIfMatchesInv ==
    ASSUME Inv, NEW r \in Requests, NEW m \in req[r].todo, RemoveIfMatches(r, m)
    PROVE  Inv'
<1>1. PICK old, s, next : old = req /\ s = req[r] /\ next = Removed(s, m)
  OBVIOUS
<1>2. Record(r, next, {}) /\ Remove(m) /\ s.pc \in {"removing", "expiring", "listing"}
  BY <1>1 DEF RemoveIfMatches, Remove
<1>3. Shaped(s) /\ Listed(s, {}) /\ (Standing(s) => Found(s)) /\ Deletes(s) /\ StoreOK
  BY <1>1 DEF Inv
<1>4. m \in Removals /\ m \in s.todo
  BY <1>1, <1>3 DEF Shaped, Request
<1>5. StoreOK'
  BY <1>2, <1>3, <1>4, RemoveType
<1>6. /\ Shaped(next) /\ next.user = s.user
      /\ Standing(next) <=> Standing(s)
      /\ Standing(next) => next.device = s.device /\ next.token = s.token
      /\ \A x : Harmless(x, s) => Harmless(x, next)
      /\ \A more : Listed(s, more) => Listed(next, more)
  BY <1>1, <1>2, <1>3, <1>4, RemovedSays
<1>7. Listed(next, OwnedBy(next.user))
  BY <1>3, <1>6 DEF Listed
<1>8. ASSUME NEW q \in Requests, Standing(old[q]) PROVE Found(old[q])'
  <2>1. /\ Found(old[q]) /\ old[q].user \in Users /\ old[q].device \in Devices /\ old[q].token \in Tokens
        /\ Everywhere(old[q].user, old[q].device, old[q].token) \cap old[q].todo = {}
    BY <1>1, <1>8 DEF Inv, Standing, Shaped
  <2>2. q # r => Harmless(old[q], s)
    BY <1>1, <1>8 DEF Inv
  <2>3. m \notin Everywhere(old[q].user, old[q].device, old[q].token)
    BY <1>1, <1>2, <1>4, <2>1, <2>2 DEF Harmless
  <2> QED  BY <1>2, <1>3, <1>4, <2>1, <2>3, RemoveSpares
<1>9. ASSUME NEW x, x.op = "deleteToken" => x.user \in Users /\ x.token \in Tokens, Deletes(x)
      PROVE  Deletes(x)'
  BY <1>2, <1>3, <1>4, <1>9, RemoveRemoves DEF Deletes
<1>10. \A q \in Requests : Deletes(old[q])'
  BY <1>1, <1>9 DEF Inv, Shaped
<1>11. Deletes(next)'
  <2>1. CASE s.pc = "listing"
    <3>1. next.op = s.op /\ s.op = "notify"
      BY <1>1, <1>3, <2>1, OpAt DEF Removed, Shaped, Request
    <3> QED  BY <3>1 DEF Deletes
  <2>2. CASE s.pc # "listing"
    <3>1. PICK g : g = [s EXCEPT !.todo = s.todo \ {m}]
      OBVIOUS
    <3>2. next = Settled(g)
      BY <1>1, <2>2, <3>1 DEF Removed
    <3>3. /\ g \in Request /\ g.pc = s.pc /\ g.op = s.op /\ g.user = s.user
          /\ g.device = s.device /\ g.token = s.token /\ g.entries = s.entries
          /\ g.unowned = s.unowned /\ g.todo = s.todo \ {m} /\ g.stands = s.stands /\ g.failed = s.failed
      BY <1>3, <3>1 DEF Shaped, Request
    <3>4. Shaped(g)
      BY <1>2, <1>3, <3>3 DEF Shaped
    <3>5. Deletes(g)'
      <4> SUFFICES ASSUME g.op = "deleteToken", g.stands, NEW d \in Devices, Current(g.user, d, g.token)'
                   PROVE  g.failed \/ Removal("token", g.user, d, g.token) \in g.todo
        BY DEF Deletes
      <4>1. s.user \in Users /\ s.token \in Tokens
        BY <1>2, <1>3, <3>3 DEF Shaped
      <4>2. Current(s.user, d, s.token) /\ m # Removal("token", s.user, d, s.token)
        BY <1>2, <1>3, <1>4, <3>3, <4>1, RemoveRemoves
      <4> QED  BY <1>3, <3>3, <4>2 DEF Deletes
    <3> QED  BY <3>2, <3>4, <3>5, SettledSays
  <2> QED  BY <2>1, <2>2
<1>12. Standing(next) => Found(next)' /\ \A q \in Requests \ {r} : Harmless(next, old[q])
  <2> SUFFICES ASSUME Standing(next) PROVE Found(next)' /\ \A q \in Requests \ {r} : Harmless(next, old[q])
    OBVIOUS
  <2>1. Standing(old[r]) /\ next.user = old[r].user /\ next.device = old[r].device /\ next.token = old[r].token
    BY <1>1, <1>6
  <2>2. Found(old[r])' /\ \A q \in Requests \ {r} : Harmless(old[r], old[q])
    BY <1>1, <1>8, <2>1 DEF Inv
  <2> QED  BY <2>1, <2>2 DEF Found, Current, TokenIs, DeviceIs, Harmless
<1>13. \A q \in Requests \ {r} : Standing(old[q]) => Found(old[q])' /\ Harmless(old[q], next)
  BY <1>1, <1>6, <1>8 DEF Inv
<1> QED  BY <1>1, <1>2, <1>5, <1>6, <1>7, <1>10, <1>11, <1>12, <1>13, StepKeeps


\* What is started before its removal has failed goes on; a failed listing is
\* forgotten.
LEMMA RemovalFailsInv ==
    ASSUME Inv, NEW r \in Requests, NEW m \in req[r].todo, RemovalFails(r, m)
    PROVE  Inv'
<1>1. PICK old, s, after :
        /\ old = req /\ s = req[r]
        /\ after = {x \in {[m EXCEPT !.at = "index"]} : req[r].op = "save" /\ m.at = "token"}
  OBVIOUS
<1>2. /\ s.pc \in {"removing", "expiring", "listing"} /\ UNCHANGED store
      /\ Record(r, IF s.pc = "listing" THEN [NoRequest EXCEPT !.pc = "failed"]
                   ELSE Settled([s EXCEPT !.failed = TRUE, !.todo = s.todo \ ({m} \cup after)]), {})
  BY <1>1 DEF RemovalFails
<1>3. Shaped(s) /\ s \in Request
  BY <1>1 DEF Inv
<1>4. CASE s.pc = "listing"
  <2>1. PICK next : next = [NoRequest EXCEPT !.pc = "failed"]
    OBVIOUS
  <2>2. /\ next \in Request /\ next.op = "none" /\ next.pc = "failed" /\ next.todo = {}
    BY <2>1, NoRequestShaped DEF NoRequest, Request
  <2>3. Shaped(next) /\ Listed(next, OwnedBy(next.user)) /\ ~Standing(next) /\ Deletes(next)
        /\ \A x : Harmless(x, next)
    BY <2>2 DEF Shaped, Listed, Standing, Deletes, Harmless
  <2>4. Record(r, next, {})
    BY <1>2, <1>4, <2>1
  <2> QED  BY <1>1, <1>2, <2>3, <2>4, ReadKeeps
<1>5. CASE s.pc # "listing"
  <2>1. PICK g, next : g = [s EXCEPT !.failed = TRUE, !.todo = s.todo \ ({m} \cup after)] /\ next = Settled(g)
    OBVIOUS
  <2>2. /\ g \in Request /\ g.pc = s.pc /\ g.op = s.op /\ g.user = s.user
        /\ g.device = s.device /\ g.token = s.token /\ g.entries = s.entries
        /\ g.unowned = s.unowned /\ g.todo \subseteq s.todo /\ g.stands = s.stands /\ g.failed
    BY <1>3, <2>1 DEF Request
  <2>3. /\ Shaped(g) /\ Listed(g, OwnedBy(g.user)) /\ (Standing(g) <=> Standing(s)) /\ Deletes(g)
        /\ \A x : Harmless(x, s) => Harmless(x, g)
    BY <1>2, <1>3, <1>5, <2>2 DEF Shaped, Listed, Standing, Deletes, Harmless
  <2>4. /\ Shaped(next) /\ Listed(next, OwnedBy(next.user)) /\ Deletes(next)
        /\ next.user = s.user /\ next.device = s.device /\ next.token = s.token
        /\ Standing(next) <=> Standing(s)
        /\ \A x : Harmless(x, s) => Harmless(x, next)
    BY <2>1, <2>2, <2>3, SettledSays
  <2>5. \A q \in Requests \ {r} : Standing(old[q]) => Harmless(old[q], next)
    BY <1>1, <2>4 DEF Inv
  <2>6. Record(r, next, {})
    BY <1>2, <1>5, <2>1
  <2> QED  BY <1>1, <1>2, <2>4, <2>5, <2>6, ReadKeeps
<1> QED  BY <1>4, <1>5

-----------------------------------------------------------------------------
(* Deleting tokens: by their user, and after a notification *)

\* A registration that is read in order to remove it is nobody's claim any more,
\* and the only one its token has.
LEMMA ReadAssignmentInv ==
    ASSUME Inv, NEW r \in Requests, NEW s, NEW t \in Tokens,
           Shaped(s), s.pc = "expiring", ReadAssignment(r, s, t),
           \A q \in Requests \ {r} : Standing(req[q]) => Harmless(req[q], s),
           s.op = "deleteToken" => s.token = t \/ Deletes(s)
    PROVE  Inv'
<1>1. PICK old, todo, g, next :
        /\ old = req
        /\ todo = IF tokens[t] = Null \/ tokens[t].user # s.user THEN {}
                  ELSE Everywhere(s.user, tokens[t].device, t)
        /\ g = [s EXCEPT !.got = s.got \ {t}, !.todo = s.todo \cup todo]
        /\ next = Settled(g)
  OBVIOUS
<1>2. UNCHANGED store /\ Record(r, next, Claimed(r, todo))
  BY <1>1 DEF ReadAssignment
<1>3. s \in Request /\ s.op \in {"deleteToken", "notify"} /\ s.user \in Users
  BY OpAt DEF Shaped
<1>4. todo \subseteq Removals
  <2>1. tokens[t] # Null => tokens[t].device \in Devices
    BY DEF Inv, StoreOK
  <2> QED  BY <1>1, <1>3, <2>1, EverywhereType
<1>5. /\ g \in Request /\ g.pc = "expiring" /\ g.op = s.op /\ g.user = s.user
      /\ g.token = s.token /\ g.todo = s.todo \cup todo /\ g.stands = s.stands /\ g.failed = s.failed
  BY <1>1, <1>3, <1>4 DEF Request
<1>6. Shaped(g) /\ Listed(g, OwnedBy(g.user)) /\ ~Standing(g)
  BY <1>3, <1>5 DEF Shaped, Listed, Standing
<1>7. ASSUME NEW q \in Requests \ {r}, Standing(old[q]), q \notin Claimed(r, todo)
      PROVE  Harmless(old[q], g)
  <2>1. Harmless(old[q], s)
    BY <1>1, <1>7
  <2>2. Everywhere(old[q].user, old[q].device, old[q].token) \cap todo = {}
    BY <1>1, <1>7 DEF Claimed, Standing
  <2> QED  BY <1>3, <1>5, <2>1, <2>2 DEF Harmless
<1>8. Deletes(g)
  <2> SUFFICES ASSUME g.op = "deleteToken", g.stands, NEW d \in Devices, Current(g.user, d, g.token)
               PROVE  g.failed \/ Removal("token", g.user, d, g.token) \in g.todo
    BY DEF Deletes
  <2>1. CASE Deletes(s)
    BY <1>5, <2>1 DEF Deletes
  <2>2. CASE s.token = t
    <3>1. tokens[t] = [user |-> s.user, device |-> d]
      BY <1>5, <2>2 DEF Current, TokenIs
    <3>2. tokens[t] # Null
      BY <1>3, <3>1, NullIsNoRegistration
    <3>3. todo = Everywhere(s.user, d, t)
      BY <1>1, <3>1, <3>2
    <3> QED  BY <1>5, <2>2, <3>3 DEF Everywhere, Places
  <2> QED  BY <1>5, <2>1, <2>2
<1>9. /\ Shaped(next) /\ Listed(next, OwnedBy(next.user)) /\ ~Standing(next) /\ Deletes(next)
      /\ \A x : Harmless(x, g) => Harmless(x, next)
  BY <1>1, <1>5, <1>6, <1>8, SettledSays
<1> QED  BY <1>1, <1>2, <1>7, <1>9, ReadKeeps

LEMMA BeginDeleteTokenInv ==
    ASSUME Inv, NEW r \in Requests, NEW u \in Users, NEW t \in Tokens, BeginDeleteToken(r, u, t)
    PROVE  Inv'
<1>1. PICK s : s = [Begin("deleteToken", u, "expiring") EXCEPT !.token = t, !.got = {t}, !.stands = TRUE]
  OBVIOUS
<1>2. ReadAssignment(r, s, t) /\ "deleteToken" \in Ops
  BY <1>1 DEF BeginDeleteToken
<1>3. /\ s \in Request /\ s.pc = "expiring" /\ s.op = "deleteToken" /\ s.user = u /\ s.token = t
      /\ s.todo = {}
  BY <1>1, <1>2, NoRequestShaped DEF Begin, NoRequest, Request
<1>4. Shaped(s) /\ \A x : Harmless(x, s)
  BY <1>3 DEF Shaped, Harmless
<1> QED  BY <1>2, <1>3, <1>4, ReadAssignmentInv

LEMMA ReadNextInv ==
    ASSUME Inv, NEW r \in Requests, NEW t \in Tokens, ReadNext(r, t)
    PROVE  Inv'
<1>1. PICK old, s : old = req /\ s = req[r]
  OBVIOUS
<1>2. ReadAssignment(r, s, t) /\ s.pc = "expiring"
  BY <1>1 DEF ReadNext
<1>3. Shaped(s) /\ Deletes(s) /\ \A q \in Requests \ {r} : Standing(req[q]) => Harmless(req[q], s)
  BY <1>1 DEF Inv
<1> QED  BY <1>2, <1>3, ReadAssignmentInv


-----------------------------------------------------------------------------
(* Deleting all of a user's tokens: the claims of the user's saves have ended *)

LEMMA BeginDeleteUserInv ==
    ASSUME Inv, NEW r \in Requests, NEW u \in Users, BeginDeleteUser(r, u)
    PROVE  Inv'
<1>1. PICK old, g, next, ended :
        /\ old = req
        /\ g = [Begin("deleteUser", u, "removing") EXCEPT !.entries = index[u]]
        /\ next = Settled(g)
        /\ ended = {q \in Requests : req[q].op = "save" /\ req[q].user = u}
  OBVIOUS
<1>2. Record(r, next, ended) /\ UNCHANGED store /\ "deleteUser" \in Ops
  BY <1>1 DEF BeginDeleteUser
<1>3. index[u] \in [Devices -> Tokens \cup {Null}]
  BY DEF Inv, StoreOK
<1>4. /\ g \in Request /\ g.pc = "removing" /\ g.op = "deleteUser" /\ g.user = u /\ g.todo = {}
      /\ ~g.stands
  BY <1>1, <1>2, <1>3, NoRequestShaped DEF Begin, NoRequest, Request
<1>5. Shaped(g) /\ Listed(g, OwnedBy(g.user)) /\ ~Standing(g) /\ Deletes(g)
  BY <1>4 DEF Shaped, Listed, Standing, Deletes
<1>6. \A q \in Requests \ {r} : Standing(old[q]) /\ q \notin ended => Harmless(old[q], g)
  BY <1>1, <1>4 DEF Standing, Harmless
<1>7. /\ Shaped(next) /\ Listed(next, OwnedBy(next.user)) /\ ~Standing(next) /\ Deletes(next)
      /\ \A x : Harmless(x, g) => Harmless(x, next)
  BY <1>1, <1>4, <1>5, SettledSays
<1> QED  BY <1>1, <1>2, <1>6, <1>7, ReadKeeps

\* What it finds, on the device or in the index, is of its own user.
LEMMA FoundToDelete ==
    ASSUME Inv, NEW r \in Requests, req[r].op = "deleteUser", req[r].pc = "removing",
           NEW g \in Request, g.pc = "removing", g.op = "deleteUser", g.user = req[r].user,
           g.stands = req[r].stands, \A m \in g.todo \ req[r].todo : m.user = g.user
    PROVE  /\ Shaped(g) /\ Listed(g, OwnedBy(g.user)) /\ ~Standing(g) /\ Deletes(g)
           /\ \A q \in Requests \ {r} : Standing(req[q]) => Harmless(req[q], g)
<1>1. Shaped(req[r]) /\ req[r].user \in Users
  BY DEF Inv, Shaped
<1>2. \A m \in g.todo : m \in Removals /\ m.user = g.user
  BY <1>1 DEF Shaped, Request
<1>3. Shaped(g) /\ Listed(g, OwnedBy(g.user)) /\ ~Standing(g) /\ Deletes(g)
  BY <1>1, <1>2 DEF Shaped, Listed, Standing, Deletes
<1>4. ASSUME NEW q \in Requests \ {r}, Standing(req[q]) PROVE Harmless(req[q], g)
  <2>1. req[q].user # g.user
    BY <1>4 DEF Inv, Harmless
  <2>2. req[q].user \in Users /\ req[q].device \in Devices /\ req[q].token \in Tokens
    BY <1>4 DEF Inv, Standing, Shaped
  <2>3. Everywhere(req[q].user, req[q].device, req[q].token) \cap g.todo = {}
    BY <1>2, <2>1, <2>2, EverywhereType
  <2> QED  BY <2>1, <2>3 DEF Harmless
<1> QED  BY <1>3, <1>4

LEMMA ReadDeviceInv ==
    ASSUME Inv, NEW r \in Requests, NEW d \in Devices, ReadDevice(r, d)
    PROVE  Inv'
<1>1. PICK old, x, s, next :
        /\ old = req /\ x = req[r] /\ s = [x EXCEPT !.entries[d] = Null]
        /\ next = IF devices[d] # Null /\ devices[d].user = s.user
                  THEN [s EXCEPT !.todo = s.todo \cup Everywhere(s.user, d, devices[d].token)]
                  ELSE [s EXCEPT !.unowned = s.unowned \cup {d}]
  OBVIOUS
<1>2. Record(r, next, {}) /\ UNCHANGED store /\ x.pc = "removing" /\ x.entries[d] # Null
  BY <1>1 DEF ReadDevice
<1>3. Shaped(x) /\ x \in Request
  BY <1>1 DEF Inv
<1>4. x.op = "deleteUser" /\ x.user \in Users
  BY <1>2, <1>3, OpAt DEF Shaped, NoEntries
<1>5. /\ s \in Request /\ s.pc = "removing" /\ s.op = "deleteUser" /\ s.user = x.user
      /\ s.todo = x.todo /\ s.stands = x.stands
  BY <1>1, <1>2, <1>3, <1>4 DEF Request
<1>6. CASE devices[d] # Null /\ devices[d].user = s.user
  <2>1. devices[d].token \in Tokens
    BY <1>6 DEF Inv, StoreOK
  <2>2. next = [s EXCEPT !.todo = s.todo \cup Everywhere(s.user, d, devices[d].token)]
    BY <1>1, <1>6
  <2>3. Everywhere(s.user, d, devices[d].token) \subseteq Removals
    BY <1>4, <1>5, <2>1, EverywhereType
  <2>4. /\ next \in Request /\ next.pc = "removing" /\ next.op = "deleteUser" /\ next.user = x.user
        /\ next.stands = x.stands /\ next.todo = x.todo \cup Everywhere(next.user, d, devices[d].token)
    BY <1>5, <2>2, <2>3 DEF Request
  <2>5. req[r].op = "deleteUser" /\ req[r].pc = "removing" /\ next.user = req[r].user
        /\ next.stands = req[r].stands /\ \A m \in next.todo \ req[r].todo : m.user = next.user
    BY <1>1, <1>2, <1>4, <2>1, <2>4, EverywhereType
  <2>6. /\ Shaped(next) /\ Listed(next, OwnedBy(next.user)) /\ ~Standing(next) /\ Deletes(next)
        /\ \A q \in Requests \ {r} : Standing(req[q]) => Harmless(req[q], next)
    BY <2>4, <2>5, FoundToDelete
  <2> QED  BY <1>1, <1>2, <2>6, ReadKeeps
<1>7. CASE ~(devices[d] # Null /\ devices[d].user = s.user)
  <2>1. next = [s EXCEPT !.unowned = s.unowned \cup {d}]
    BY <1>1, <1>7
  <2>2. /\ next \in Request /\ next.pc = "removing" /\ next.op = "deleteUser" /\ next.user = x.user
        /\ next.stands = x.stands /\ next.todo = x.todo
    BY <1>5, <2>1 DEF Request
  <2>3. req[r].op = "deleteUser" /\ req[r].pc = "removing" /\ next.user = req[r].user
        /\ next.stands = req[r].stands /\ \A m \in next.todo \ req[r].todo : m.user = next.user
    BY <1>1, <1>2, <1>4, <2>2
  <2>4. /\ Shaped(next) /\ Listed(next, OwnedBy(next.user)) /\ ~Standing(next) /\ Deletes(next)
        /\ \A q \in Requests \ {r} : Standing(req[q]) => Harmless(req[q], next)
    BY <2>2, <2>3, FoundToDelete
  <2> QED  BY <1>1, <1>2, <2>4, ReadKeeps
<1> QED  BY <1>6, <1>7

LEMMA ReadIndexInv ==
    ASSUME Inv, NEW r \in Requests, NEW d \in Devices, ReadIndex(r, d)
    PROVE  Inv'
<1>1. PICK old, x, s, t, g, next :
        /\ old = req /\ x = req[r] /\ s = [x EXCEPT !.unowned = x.unowned \ {d}]
        /\ t = index[s.user][d]
        /\ g = IF t = Null THEN s ELSE [s EXCEPT !.todo = s.todo \cup Everywhere(s.user, d, t)]
        /\ next = Settled(g)
  OBVIOUS
<1>2. Record(r, next, {}) /\ UNCHANGED store /\ x.pc = "removing" /\ d \in x.unowned
  BY <1>1 DEF ReadIndex
<1>3. Shaped(x) /\ x \in Request
  BY <1>1 DEF Inv
<1>4. x.op = "deleteUser" /\ x.user \in Users
  BY <1>2, <1>3, OpAt DEF Shaped
<1>5. /\ s \in Request /\ s.pc = "removing" /\ s.op = "deleteUser" /\ s.user = x.user
      /\ s.todo = x.todo /\ s.stands = x.stands
  BY <1>1, <1>2, <1>3, <1>4 DEF Request
<1>6. t \in Tokens \cup {Null}
  BY <1>1, <1>4, <1>5 DEF Inv, StoreOK
<1>7. /\ Shaped(g) /\ Listed(g, OwnedBy(g.user)) /\ ~Standing(g) /\ Deletes(g)
      /\ \A q \in Requests \ {r} : Standing(old[q]) => Harmless(old[q], g)
  <2>1. CASE t = Null
    <3>1. g = s
      BY <1>1, <2>1
    <3>2. /\ Shaped(s) /\ Listed(s, OwnedBy(s.user)) /\ ~Standing(s) /\ Deletes(s)
      BY <1>3, <1>4, <1>5, <1>2 DEF Shaped, Listed, Standing, Deletes
    <3>3. \A q \in Requests \ {r} : Standing(old[q]) => Harmless(old[q], s)
      BY <1>1, <1>4, <1>5 DEF Inv, Harmless
    <3> QED  BY <3>1, <3>2, <3>3
  <2>2. CASE t # Null
    <3>1. g = [s EXCEPT !.todo = s.todo \cup Everywhere(s.user, d, t)] /\ t \in Tokens
      BY <1>1, <1>6, <2>2
    <3>2. Everywhere(s.user, d, t) \subseteq Removals
      BY <1>4, <1>5, <3>1, EverywhereType
    <3>3. /\ g \in Request /\ g.pc = "removing" /\ g.op = "deleteUser" /\ g.user = x.user
          /\ g.stands = x.stands /\ g.todo = x.todo \cup Everywhere(g.user, d, t)
      BY <1>5, <3>1, <3>2 DEF Request
    <3>4. req[r].op = "deleteUser" /\ req[r].pc = "removing" /\ g.user = req[r].user
          /\ g.stands = req[r].stands /\ \A m \in g.todo \ req[r].todo : m.user = g.user
      <4>1. x = req[r] /\ g.user \in Users
        BY <1>1, <1>4, <3>3
      <4>2. \A m \in Removals : m \in Everywhere(g.user, d, t) => m.user = g.user
        BY <3>1, <4>1, EverywhereType
      <4>3. Everywhere(g.user, d, t) \subseteq Removals
        BY <3>1, <4>1, EverywhereType
      <4>4. \A m \in g.todo \ req[r].todo : m.user = g.user
        BY <3>3, <4>1, <4>2, <4>3
      <4> QED  BY <1>2, <1>4, <3>3, <4>1, <4>4
    <3>5. /\ Shaped(g) /\ Listed(g, OwnedBy(g.user)) /\ ~Standing(g) /\ Deletes(g)
          /\ \A q \in Requests \ {r} : Standing(req[q]) => Harmless(req[q], g)
      BY <3>3, <3>4, FoundToDelete
    <3> QED  BY <1>1, <3>5
  <2> QED  BY <2>1, <2>2
<1>8. /\ Shaped(next) /\ Listed(next, OwnedBy(next.user)) /\ ~Standing(next) /\ Deletes(next)
      /\ \A y : Harmless(y, g) => Harmless(y, next)
  <2>1. Shaped(g) /\ next = Settled(g)
    BY <1>1, <1>7
  <2>2. next.user = g.user
    BY <2>1, SettledSays
  <2> QED  BY <1>7, <2>1, <2>2, SettledSays
<1> QED  BY <1>1, <1>2, <1>7, <1>8, ReadKeeps

LEMMA ClearIndexInv ==
    ASSUME Inv, NEW r \in Requests, ClearIndex(r)
    PROVE  Inv'
<1>1. PICK old, s, next : old = req /\ s = req[r] /\ next = [s EXCEPT !.pc = "ok"]
  OBVIOUS
<1>2. /\ Record(r, next, {}) /\ s.pc = "clearing"
      /\ index' = [index EXCEPT ![s.user] = NoEntries] /\ tokens' = tokens /\ devices' = devices
  BY <1>1 DEF ClearIndex, Goto
<1>3. Shaped(s) /\ s \in Request /\ s.op = "deleteUser" /\ s.user \in Users
  BY <1>1, <1>2, OpAt DEF Inv, Shaped
<1>4. /\ next \in Request /\ next.pc = "ok" /\ next.op = "deleteUser" /\ next.user = s.user
      /\ next.todo = s.todo /\ next.stands = s.stands /\ next.failed = s.failed
  BY <1>1, <1>3 DEF Request
<1>5. Shaped(next) /\ Listed(next, OwnedBy(next.user)) /\ ~Standing(next) /\ Deletes(next)'
  BY <1>2, <1>3, <1>4 DEF Shaped, Listed, Standing, Deletes
<1>6. StoreOK'
  <2>1. NoEntries \in [Devices -> Tokens \cup {Null}]
    BY DEF NoEntries
  <2> QED  BY <1>2, <1>3, <2>1 DEF Inv, StoreOK
<1>7. ASSUME NEW q \in Requests \ {r}, Standing(old[q]) PROVE Found(old[q])' /\ Harmless(old[q], next)
  <2>1. Harmless(old[q], s) /\ Found(old[q]) /\ old[q].user \in Users
    BY <1>1, <1>7 DEF Inv, Standing, Shaped
  <2>2. old[q].user # s.user
    BY <1>3, <2>1 DEF Harmless
  <2>3. Found(old[q])'
    BY <1>2, <1>3, <2>1, <2>2 DEF Inv, StoreOK, Found, Current, TokenIs, DeviceIs
  <2> QED  BY <1>3, <1>4, <2>1, <2>3 DEF Harmless
<1>8. \A q \in Requests : Deletes(old[q])'
  BY <1>1, <1>2 DEF Inv, Deletes, Current, TokenIs, DeviceIs
<1> QED  BY <1>1, <1>2, <1>5, <1>6, <1>7, <1>8, StepKeeps


-----------------------------------------------------------------------------
(* Notifying: an entry of the index is removed only when it is not current *)

LEMMA BeginNotifyInv ==
    ASSUME Inv, NEW r \in Requests, NEW u \in Users, BeginNotify(r, u)
    PROVE  Inv'
<1>1. PICK old, next : old = req /\ next = [Begin("notify", u, "listing") EXCEPT !.entries = index[u]]
  OBVIOUS
<1>2. Record(r, next, {}) /\ UNCHANGED store /\ "notify" \in Ops
  BY <1>1 DEF BeginNotify
<1>3. index[u] \in [Devices -> Tokens \cup {Null}]
  BY DEF Inv, StoreOK
<1>4. /\ next \in Request /\ next.pc = "listing" /\ next.op = "notify" /\ next.user = u
      /\ next.todo = {} /\ ~next.stands /\ next.got = {} /\ next.device = Null
  BY <1>1, <1>2, <1>3, NoRequestShaped DEF Begin, NoRequest, Request
<1>5. Shaped(next) /\ Listed(next, OwnedBy(next.user)) /\ ~Standing(next) /\ Deletes(next)
      /\ \A x : Harmless(x, next)
  BY <1>4 DEF Shaped, Listed, Standing, Deletes, Harmless
<1> QED  BY <1>1, <1>2, <1>5, ReadKeeps

LEMMA CheckEntryInv ==
    ASSUME Inv, NEW r \in Requests, NEW d \in Devices, NEW place \in {"token", "device"},
           CheckEntry(r, d, place)
    PROVE  Inv'
<1>a. PICK old, x, s : old = req /\ x = req[r] /\ s = [x EXCEPT !.device = d]
  OBVIOUS
<1>b. PICK t, unread :
        /\ t = s.entries[d]
        /\ unread = (IF x.device = Null THEN {"token", "device"} ELSE s.unread) \ {place}
  OBVIOUS
<1>1. PICK next :
        /\ old = req /\ x = req[r] /\ s = [x EXCEPT !.device = d] /\ t = s.entries[d]
        /\ unread = (IF x.device = Null THEN {"token", "device"} ELSE s.unread) \ {place}
        /\ next = IF ~EntryMatches(place, s.user, d, t)
                  THEN [s EXCEPT !.unread = {}, !.todo = {Removal("index", s.user, d, t)}]
                  ELSE IF unread # {} THEN [s EXCEPT !.unread = unread]
                  ELSE [s EXCEPT !.unread = {}, !.device = Null, !.entries[d] = Null, !.got = s.got \cup {t}]
  BY <1>a, <1>b
<1>2. /\ Record(r, next, {}) /\ UNCHANGED store
      /\ x.pc = "listing" /\ x.entries[d] # Null /\ x.todo = {} /\ x.device \in {d, Null}
  BY <1>1 DEF CheckEntry
<1>3. Shaped(x) /\ Listed(x, {}) /\ x \in Request /\ x.op = "notify" /\ x.user \in Users
  BY <1>1, <1>2, OpAt DEF Inv, Shaped
<1>4. /\ s \in Request /\ s.pc = "listing" /\ s.op = "notify" /\ s.user = x.user /\ s.device = d
      /\ s.todo = {} /\ s.stands = x.stands /\ s.unread = x.unread /\ s.entries = x.entries
      /\ s.got = x.got /\ s.owned = x.owned
  BY <1>1, <1>2, <1>3 DEF Request
<1>5. t \in Tokens /\ t = x.entries[d]
  BY <1>1, <1>2, <1>3, <1>4 DEF Request
<1>6. /\ next \in Request /\ next.pc = "listing" /\ next.op = "notify" /\ next.user = x.user
      /\ next.stands = x.stands /\ next.owned = x.owned
  <2>1. CASE ~EntryMatches(place, s.user, d, t)
    <3>1. Removal("index", s.user, d, t) \in Removals
      BY <1>3, <1>4, <1>5, RemovalType DEF Places
    <3> QED  BY ZenonT(40), <1>1, <1>4, <2>1, <3>1 DEF Request
  <2>2. CASE EntryMatches(place, s.user, d, t) /\ unread # {}
    <3>1. unread \subseteq Places
      BY <1>1, <1>4 DEF Request, Places
    <3> QED  BY ZenonT(40), <1>1, <1>4, <2>2, <3>1 DEF Request
  <2>3. CASE EntryMatches(place, s.user, d, t) /\ unread = {}
    <3>1. next = [s EXCEPT !.unread = {}, !.device = Null, !.entries[d] = Null, !.got = s.got \cup {t}]
      BY <1>1, <2>3
    <3> QED  BY <1>4, <1>5, <3>1 DEF Request
  <2> QED  BY <2>1, <2>2, <2>3
<1>7. Shaped(next) /\ ~Standing(next) /\ Deletes(next)
  BY <1>3, <1>6 DEF Shaped, Standing, Deletes
<1>8. EntryMatches("token", x.user, d, t) => t \in OwnedBy(x.user)
  <2>1. EntryMatches("token", x.user, d, t) => tokens[t] = [user |-> x.user, device |-> d]
    BY DEF EntryMatches, TokenIs
  <2>2. [user |-> x.user, device |-> d] # Null
    BY <1>3, NullIsNoRegistration
  <2> QED  BY <1>2, <1>5, <2>1, <2>2 DEF OwnedBy, store
<1>9. Listed(next, OwnedBy(next.user))
  <2>1. x.got \subseteq x.owned
    BY <1>2, <1>3 DEF Listed
  <2>2. CASE ~EntryMatches(place, s.user, d, t)
    <3>1. next = [s EXCEPT !.unread = {}, !.todo = {Removal("index", s.user, d, t)}]
      BY <1>1, <2>2
    <3>2. next.got = x.got /\ next.todo # {}
      BY <1>4, <3>1 DEF Request
    <3> QED  BY <1>6, <2>1, <3>2 DEF Listed
  <2>3. CASE EntryMatches(place, s.user, d, t)
    <3>1. "token" \notin unread => t \in x.owned \cup OwnedBy(x.user)
      <4>1. CASE place = "token"
        BY <1>4, <1>8, <2>3, <4>1
      <4>2. CASE place = "device" /\ "token" \notin unread
        <5>1. x.device = d /\ x.device # Null /\ "token" \notin x.unread
          BY <1>1, <1>2, <1>4, <4>2, PushTokensAssumption
        <5> QED  BY <1>2, <1>3, <1>5, <5>1 DEF Listed
      <4> QED  BY <4>1, <4>2
    <3>2. CASE unread # {}
      <4>1. next = [s EXCEPT !.unread = unread]
        BY <1>1, <2>3, <3>2
      <4>2. next.got = x.got /\ next.unread = unread /\ next.device = d /\ next.entries = x.entries
        BY <1>4, <4>1 DEF Request
      <4> QED  BY <1>5, <1>6, <2>1, <3>1, <4>2 DEF Listed
    <3>3. CASE unread = {}
      <4>1. next = [s EXCEPT !.unread = {}, !.device = Null, !.entries[d] = Null, !.got = s.got \cup {t}]
        BY <1>1, <2>3, <3>3
      <4>2. next.got = x.got \cup {t} /\ next.device = Null
        BY <1>4, <4>1 DEF Request
      <4> QED  BY <1>6, <2>1, <3>1, <3>3, <4>2 DEF Listed
    <3> QED  BY <3>2, <3>3
  <2> QED  BY <2>2, <2>3
<1>10. ASSUME NEW q \in Requests \ {r}, Standing(old[q]) PROVE Harmless(old[q], next)
  <2>1. /\ old[q].user \in Users /\ old[q].device \in Devices /\ old[q].token \in Tokens
        /\ Found(old[q])
    BY <1>1, <1>10 DEF Inv, Standing, Shaped
  <2>2. CASE ~EntryMatches(place, s.user, d, t)
    <3>1. next.todo = {Removal("index", s.user, d, t)}
      BY <1>1, <1>4, <2>2 DEF Request
    <3>2. ~(old[q].user = s.user /\ old[q].device = d /\ old[q].token = t)
      BY <2>1, <2>2 DEF Found, Current, EntryMatches
    <3>3. Removal("index", s.user, d, t) \notin Everywhere(old[q].user, old[q].device, old[q].token)
      BY <3>2 DEF Everywhere, Removal
    <3> QED  BY <1>6, <3>1, <3>3 DEF Harmless
  <2>3. CASE EntryMatches(place, s.user, d, t)
    <3>1. next.todo = {}
      <4>1. CASE unread # {}
        <5>1. next = [s EXCEPT !.unread = unread]
          BY <1>1, <2>3, <4>1
        <5> QED  BY <1>4, <5>1 DEF Request
      <4>2. CASE unread = {}
        <5>1. next = [s EXCEPT !.unread = {}, !.device = Null, !.entries[d] = Null, !.got = s.got \cup {t}]
          BY <1>1, <2>3, <4>2
        <5> QED  BY <1>4, <5>1 DEF Request
      <4> QED  BY <4>1, <4>2
    <3> QED  BY <1>6, <3>1 DEF Harmless
  <2> QED  BY <2>2, <2>3
<1> QED  BY ZenonT(40), <1>1, <1>2, <1>7, <1>9, <1>10, ReadKeeps

LEMMA FinishListingInv ==
    ASSUME Inv, NEW r \in Requests, FinishListing(r)
    PROVE  Inv'
<1>1. PICK old, s, next : old = req /\ s = req[r] /\ next = [s EXCEPT !.pc = "sending"]
  OBVIOUS
<1>2. Record(r, next, {}) /\ UNCHANGED store /\ s.pc = "listing"
  BY <1>1 DEF FinishListing, Goto
<1>3. Shaped(s) /\ Listed(s, {}) /\ s \in Request /\ s.op = "notify"
  BY <1>1, <1>2, OpAt DEF Inv, Shaped
<1>4. /\ next \in Request /\ next.pc = "sending" /\ next.op = "notify" /\ next.user = s.user
      /\ next.todo = s.todo /\ next.stands = s.stands /\ next.got = s.got /\ next.owned = s.owned
  BY <1>1, <1>3 DEF Request
<1>5. Shaped(next) /\ Listed(next, OwnedBy(next.user)) /\ ~Standing(next) /\ Deletes(next)
      /\ \A x : Harmless(x, s) => Harmless(x, next)
  BY <1>2, <1>3, <1>4 DEF Shaped, Listed, Standing, Deletes, Harmless
<1>6. \A q \in Requests \ {r} : Standing(old[q]) => Harmless(old[q], next)
  BY <1>1, <1>5 DEF Inv
<1> QED  BY <1>1, <1>2, <1>5, <1>6, ReadKeeps

LEMMA SendInv ==
    ASSUME Inv, NEW r \in Requests, NEW invalid \in SUBSET req[r].got, Send(r, invalid)
    PROVE  Inv'
<1>1. PICK old, s, g, next :
        /\ old = req /\ s = req[r]
        /\ g = [[s EXCEPT !.pc = "expiring"] EXCEPT !.got = invalid] /\ next = Settled(g)
  OBVIOUS
<1>2. Record(r, next, {}) /\ UNCHANGED store /\ s.pc = "sending"
  BY <1>1 DEF Send, Goto
<1>3. Shaped(s) /\ s \in Request /\ s.op = "notify" /\ invalid \subseteq s.got
  BY <1>1, <1>2, OpAt DEF Inv, Shaped
<1>4. /\ g \in Request /\ g.pc = "expiring" /\ g.op = "notify" /\ g.user = s.user
      /\ g.todo = s.todo /\ g.stands = s.stands
  BY <1>1, <1>3 DEF Request
<1>5. Shaped(g) /\ Listed(g, OwnedBy(g.user)) /\ ~Standing(g) /\ Deletes(g)
      /\ \A x : Harmless(x, s) => Harmless(x, g)
  BY <1>2, <1>3, <1>4 DEF Shaped, Listed, Standing, Deletes, Harmless
<1>6. /\ Shaped(next) /\ Listed(next, OwnedBy(next.user)) /\ ~Standing(next) /\ Deletes(next)
      /\ \A x : Harmless(x, g) => Harmless(x, next)
  <2>1. next.user = g.user
    BY <1>1, <1>5, SettledSays
  <2> QED  BY <1>1, <1>5, <2>1, SettledSays
<1>7. \A q \in Requests \ {r} : Standing(old[q]) => Harmless(old[q], next)
  BY <1>1, <1>5, <1>6 DEF Inv
<1> QED  BY <1>1, <1>2, <1>6, <1>7, ReadKeeps


-----------------------------------------------------------------------------
(* The theorems *)

LEMMA BeginInv ==
    ASSUME Inv, NEW r \in Requests, NEW u \in Users, BeginRequest(r, u)
    PROVE  Inv'
<1>1. CASE \E d \in Devices, t \in Tokens : BeginSave(r, u, d, t)
  BY <1>1, BeginSaveInv
<1>2. CASE \E t \in Tokens : BeginDeleteToken(r, u, t)
  BY <1>2, BeginDeleteTokenInv
<1>3. CASE BeginDeleteUser(r, u)
  BY <1>3, BeginDeleteUserInv
<1>4. CASE BeginNotify(r, u)
  BY <1>4, BeginNotifyInv
<1> QED  BY <1>1, <1>2, <1>3, <1>4 DEF BeginRequest

LEMMA StepInv ==
    ASSUME Inv, NEW r \in Requests, Step(r)
    PROVE  Inv'
<1>1. CASE \E place \in {"token", "device"} : ReadPrevious(r, place)
  BY <1>1, ReadPreviousInv
<1>2. CASE Update(r)
  BY <1>2, UpdateInv
<1>3. CASE \E m \in req[r].todo : RemoveIfMatches(r, m) \/ RemovalFails(r, m)
  BY <1>3, RemoveIfMatchesInv, RemovalFailsInv
<1>4. CASE \E t \in Tokens : ReadNext(r, t)
  BY <1>4, ReadNextInv
<1>5. CASE ClearIndex(r)
  BY <1>5, ClearIndexInv
<1>6. CASE \E d \in Devices : ReadDevice(r, d) \/ ReadIndex(r, d)
  BY <1>6, ReadDeviceInv, ReadIndexInv
<1>7. CASE \E d \in Devices, place \in {"token", "device"} : CheckEntry(r, d, place)
  BY <1>7, CheckEntryInv
<1>8. CASE FinishListing(r)
  BY <1>8, FinishListingInv
<1>9. CASE \E invalid \in SUBSET req[r].got : Send(r, invalid)
  BY <1>9, SendInv
<1> QED  BY <1>1, <1>2, <1>3, <1>4, <1>5, <1>6, <1>7, <1>8, <1>9 DEF Step

LEMMA AlwaysInv == Spec => []Inv
<1>1. Inv /\ [Next]_vars => Inv'
  <2> SUFFICES ASSUME Inv, [Next]_vars PROVE Inv'
    OBVIOUS
  <2>1. CASE Next
    BY <2>1, BeginInv, StepInv DEF Next
  <2>2. CASE UNCHANGED vars
    <3>1. UNCHANGED <<tokens, devices, index, req>>
      BY <2>2 DEF vars, store
    <3> QED  BY <3>1 DEF Inv, StoreOK, Listed, OwnedBy, Found, Deletes, Current, TokenIs, DeviceIs
  <2> QED  BY <2>1, <2>2
<1> QED  BY InitInv, <1>1, PTL DEF Spec

\* The store, the requests and their number keep their types: what a request has
\* read, and may have read too early, is always a registration that can be
\* compared.
THEOREM TypeCorrect == Spec => []TypeOK
<1> DEFINE Counted == begun \in 0 .. MaxRequests
<1>1. Init => Counted
  BY PushTokensAssumption DEF Init
<1>2. Counted /\ [Next]_vars => Counted'
  BY PushTokensAssumption DEF Next, vars
<1>3. Inv /\ Counted => TypeOK
  BY DEF Inv, StoreOK, TypeOK
<1> HIDE DEF Counted
<1> QED  BY <1>1, <1>2, <1>3, AlwaysInv, PTL DEF Spec

\* sendPushNotification is given only tokens that have been its user's since the
\* call: the index may be stale, the assignment it is checked against is not
\* older than the call.
THEOREM AlwaysNotifiesOwner == Spec => []NotifiesOwner
<1>1. Inv => NotifiesOwner
  BY DEF Inv, Listed, NotifiesOwner
<1> QED  BY <1>1, AlwaysInv, PTL

\* The compare-and-removes of other requests, by what they have read before, do
\* not remove a registration saved since, unless one of them had read this very
\* registration or is deleting all of its user's.
THEOREM NewRegistrationAlwaysSurvives == Spec => []NewRegistrationSurvives
<1>1. Inv => NewRegistrationSurvives
  BY DEF Inv, Standing, Found, NewRegistrationSurvives
<1> QED  BY <1>1, AlwaysInv, PTL

\* A deletion of a token that has succeeded leaves no current assignment of it
\* to its user, whatever else was being cleaned up.
THEOREM DeletedNeverNotified == Spec => []DeletedNotNotified
<1>1. Inv => DeletedNotNotified
  <2> SUFFICES ASSUME Inv, NEW r \in Requests, req[r].op = "deleteToken", req[r].pc = "ok",
                      req[r].stands, NEW d \in Devices
               PROVE  ~Current(req[r].user, d, req[r].token)
    BY DEF DeletedNotNotified
  <2>1. req[r].todo = {} /\ ~req[r].failed /\ Deletes(req[r])
    BY DEF Inv, Shaped
  <2> QED  BY <2>1 DEF Deletes
<1> QED  BY <1>1, AlwaysInv, PTL

=============================================================================
