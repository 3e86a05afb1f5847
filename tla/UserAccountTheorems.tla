------------------------- MODULE UserAccountTheorems -------------------------
(* Theorems about UserAccount, for every value of its constants. *)
EXTENDS UserAccount, FiniteSetTheorems, WellFoundedInduction, TLAPS

-----------------------------------------------------------------------------
(* Record sets *)

IsStored(k) == k = Null \/ \E ids \in SUBSET RecordIds : k \in [ids -> Nat]

\* The record set k when d ids are drawn and the clock shows n.
KeysFit(k, d, n) ==
    /\ IsStored(k)
    /\ Ids(k) \subseteq 1 .. d
    /\ \A id \in Ids(k) : k[id] <= n
    /\ Cardinality(Ids(k)) <= MaxKeys

LEMMA RecordSet ==
    ASSUME NEW ids \in SUBSET RecordIds, NEW k \in [ids -> Nat]
    PROVE  k # Null /\ k # Abort /\ Ids(k) = ids /\ IsStored(k)
BY NotARecordSet DEF Ids, IsStored

LEMMA EmptyRecordSet == EmptySet # Null /\ EmptySet # Abort /\ Ids(EmptySet) = {} /\ IsStored(EmptySet)
<1>1. EmptySet \in [{} -> Nat]
  BY DEF EmptySet
<1>2. {} \in SUBSET RecordIds
  OBVIOUS
<1> QED  BY <1>1, <1>2, RecordSet

LEMMA IdsType ==
    ASSUME NEW k, IsStored(k)
    PROVE  /\ Ids(k) \in SUBSET RecordIds
           /\ \A id \in Ids(k) : k[id] \in Nat
           /\ IsFiniteSet(Ids(k)) /\ Cardinality(Ids(k)) \in Nat
<1>1. Ids(k) \in SUBSET RecordIds /\ \A id \in Ids(k) : k[id] \in Nat
  BY DEF IsStored, Ids
<1>2. IsFiniteSet(RecordIds)
  BY UserKeysAssumption, FS_Interval DEF RecordIds
<1>3. IsFiniteSet(Ids(k))
  BY <1>1, <1>2, FS_Subset
<1> QED  BY <1>1, <1>3, FS_CardinalityType

LEMMA WrittenType ==
    ASSUME NEW k, IsStored(k), NEW ids \in SUBSET RecordIds, NEW records \in [ids -> Nat]
    PROVE  /\ Written(k, records) \in [Ids(k) \cup ids -> Nat]
           /\ Written(k, records) # Null /\ Written(k, records) # Abort
           /\ Ids(Written(k, records)) = Ids(k) \cup ids
           /\ IsStored(Written(k, records))
<1>1. Ids(k) \in SUBSET RecordIds /\ \A id \in Ids(k) : k[id] \in Nat
  BY IdsType
<1>2. DOMAIN records = ids
  OBVIOUS
<1>3. Written(k, records) \in [Ids(k) \cup ids -> Nat]
  BY <1>1, <1>2 DEF Written
<1>4. Ids(k) \cup ids \in SUBSET RecordIds
  BY <1>1
<1> QED  BY <1>3, <1>4, RecordSet

-----------------------------------------------------------------------------
(* Requests *)

\* The steps of each operation.
Staged(op, pc) ==
    \/ op = "none" /\ pc = "idle"
    \/ op = "list" /\ pc \in {"reading", "stubbing", "ok", "failed"}
    \/ op = "add" /\ pc \in {"adding", "ok", "quota", "failed"}
    \/ op \in {"update", "delete"} /\ pc \in {"prechecking", "changing", "ok", "notFound", "failed"}
    \/ op = "update" /\ pc = "verifying"
    \/ op = "create"
       /\ pc \in {"creating", "initializing", "rollingBack", "ok", "conflict", "failed"}
    \/ op = "setUser" /\ pc \in {"updatingUser", "ok", "failed"}
    \/ op = "remove"
       /\ pc \in {"revoking", "deletingUser", "deletingKeys", "deletingPush", "deletingIdentity",
                  "ok", "failed"}

\* The records a request is going to store: they are nowhere else yet.
Pending(s) == IF s.pc \in {"adding", "initializing"} THEN s.ids ELSE {}

EntryOf(k, id) == [time |-> k[id], id |-> id]

\* The record id of k is still to come in the listing s.
Ahead(s, k, id) ==
    /\ id \in Ids(k) /\ (k[id] = Legacy \/ k[id] >= s.since)
    /\ s.cursor # Null => Before(s.cursor, EntryOf(k, id))

WriterFits(s, k, d, n) ==
    /\ s.ids \subseteq 1 .. d
    /\ s.at <= n
    /\ s.pc = "adding" => \E id : s.ids = {id}
    /\ s.pc = "initializing" => Cardinality(s.ids) <= MaxKeys
    /\ s.op \in {"update", "delete"} => (\E id : s.ids = {id}) /\ s.kept \subseteq s.ids
    /\ s.op \in {"update", "delete", "remove"} => s.kept \subseteq Ids(k)
    /\ s.op \in {"update", "delete"} /\ s.pc = "notFound" => s.kept = {}
    /\ s.op = "update" /\ s.pc = "verifying" /\ s.ids \subseteq Ids(k) => s.wrote
    /\ s.op = "update" /\ s.pc = "ok" => s.wrote
    /\ s.op = "delete" /\ s.pc = "ok" => s.ids \cap Ids(k) = {}
    /\ s.op = "remove" /\ s.pc \in {"deletingPush", "deletingIdentity", "ok"} => s.kept = {}

ListFits(s, k) ==
    s.op = "list" =>
        /\ s.pc \in {"stubbing", "ok"} => s.kept \subseteq s.got
        /\ s.pc = "reading" => s.limit \in Limits /\ \A id \in s.kept \ s.got : Ahead(s, k, id)

\* The request s over the record set k, d ids drawn and the clock at n.
Fits(s, k, d, n) == s \in Request /\ Staged(s.op, s.pc) /\ WriterFits(s, k, d, n) /\ ListFits(s, k)

\* A record that is about to be stored is not stored, and of no other request.
Apart ==
    \A r \in Requests :
        /\ Pending(req[r]) \cap Ids(keys) = {}
        /\ \A q \in Requests : q # r => Pending(req[r]) \cap req[q].ids = {}

KeyInv ==
    /\ req \in [Requests -> Request]
    /\ drawn \in 0 .. MaxRecords /\ now \in Nat
    /\ KeysFit(keys, drawn, now)
    /\ \A r \in Requests : Fits(req[r], keys, drawn, now)
    /\ Apart

\* What Put takes from kept, and leaves.
Gone(s, k, l) ==
    IF s.op = "list" THEN (Ids(k) \ Ids(l)) \cup {id \in Ids(k) \cap Ids(l) : k[id] # l[id]}
    ELSE Ids(k) \ Ids(l)
Left(s, k, l) == [s EXCEPT !.kept = s.kept \ Gone(s, k, l)]

LEMMA LeftType ==
    ASSUME NEW s \in Request, NEW k, NEW l
    PROVE  /\ Left(s, k, l) \in Request
           /\ \A f \in DOMAIN s : f # "kept" => Left(s, k, l)[f] = s[f]
           /\ Left(s, k, l).pc = s.pc /\ Left(s, k, l).op = s.op /\ Left(s, k, l).ids = s.ids
           /\ Left(s, k, l).at = s.at /\ Left(s, k, l).limit = s.limit
           /\ Left(s, k, l).since = s.since /\ Left(s, k, l).cursor = s.cursor
           /\ Left(s, k, l).got = s.got /\ Left(s, k, l).wrote = s.wrote
           /\ Left(s, k, l).kept = s.kept \ Gone(s, k, l)
<1>1. s.kept \ Gone(s, k, l) \in SUBSET RecordIds
  BY DEF Request
<1> QED  BY <1>1 DEF Left, Request

\* The record set changes from k to l, with the records F as the new ones: a
\* request that does not have to do with these still fits.
LEMMA Framed ==
    ASSUME NEW s, NEW k, NEW l, NEW d \in Nat, NEW e \in Nat, NEW n \in Nat, NEW m \in Nat,
           Fits(s, k, d, n), d <= e, n <= m,
           NEW F, Ids(l) \subseteq Ids(k) \cup F, F \cap s.ids = {}
    PROVE  Fits(Left(s, k, l), l, e, m)
<1> DEFINE t == Left(s, k, l)
<1>1. /\ s \in Request /\ t \in Request
      /\ t.pc = s.pc /\ t.op = s.op /\ t.ids = s.ids /\ t.at = s.at /\ t.limit = s.limit
      /\ t.since = s.since /\ t.cursor = s.cursor /\ t.got = s.got /\ t.wrote = s.wrote
      /\ t.kept = s.kept \ Gone(s, k, l)
  BY LeftType DEF Fits
<1> HIDE DEF t
<1>2. Staged(t.op, t.pc)
  BY <1>1 DEF Fits, Staged
<1>3. WriterFits(t, l, e, m)
  <2>1. t.ids \subseteq 1 .. e /\ t.at <= m
    <3>1. s.ids \subseteq 1 .. d /\ s.at <= n /\ s.at \in Nat
      BY <1>1 DEF Fits, WriterFits, Request
    <3> QED  BY <1>1, <3>1
  <2>2. s.op \in {"update", "delete", "remove"} => t.kept \subseteq Ids(l)
    BY <1>1 DEF Fits, WriterFits, Gone
  <2>3. s.op = "update" /\ s.pc = "verifying" /\ s.ids \subseteq Ids(l) => s.wrote
    BY DEF Fits, WriterFits
  <2>4. s.op = "delete" /\ s.pc = "ok" => s.ids \cap Ids(l) = {}
    BY DEF Fits, WriterFits
  <2> QED  BY <1>1, <2>1, <2>2, <2>3, <2>4 DEF Fits, WriterFits
<1>4. ListFits(t, l)
  <2>1. ASSUME s.op = "list", s.pc = "reading", NEW id \in t.kept \ t.got
        PROVE  Ahead(t, l, id)
    <3>1. id \in Ids(l) /\ l[id] = k[id] /\ Ahead(s, k, id)
      BY <1>1, <2>1 DEF Fits, ListFits, Ahead, Gone
    <3> QED  BY <1>1, <3>1 DEF Ahead, EntryOf
  <2> QED  BY <1>1, <2>1 DEF Fits, ListFits
<1> QED  BY <1>1, <1>2, <1>3, <1>4 DEF Fits, t

LEMMA FitsLater ==
    ASSUME NEW s, NEW k, NEW d \in Nat, NEW e \in Nat, NEW n \in Nat, NEW m \in Nat,
           Fits(s, k, d, n), d <= e, n <= m
    PROVE  Fits(s, k, e, m)
<1>1. s.ids \subseteq 1 .. d /\ s.at <= n /\ s.at \in Nat
  BY DEF Fits, WriterFits, Request
<1>2. s.ids \subseteq 1 .. e /\ s.at <= m
  BY <1>1
<1>3. WriterFits(s, k, e, m)
  BY <1>2 DEF Fits, WriterFits
<1> QED  BY <1>3 DEF Fits

-----------------------------------------------------------------------------
(* Steps *)

\* r's step stores keys', in it the records F that were pending for r.
LEMMA PutStep ==
    ASSUME KeyInv, NEW r \in Requests, NEW next \in Request, Put(r, next),
           KeysFit(keys', drawn, now), UNCHANGED <<drawn, now>>,
           NEW F, F \subseteq Pending(req[r]), Ids(keys') \subseteq Ids(keys) \cup F,
           next.ids = req[r].ids, Pending(next) = {},
           Fits(Left(next, keys, keys'), keys', drawn, now)
    PROVE  KeyInv'
<1>1. \A q \in Requests :
        req'[q] = Left(IF q = r THEN next ELSE req[q], keys, keys')
  BY DEF Put, Left, Gone, Lost, Changed
<1>2. drawn \in Nat /\ now \in Nat /\ \A q \in Requests : req[q] \in Request
  BY UserKeysAssumption DEF KeyInv
<1>3. ASSUME NEW q \in Requests
      PROVE  req'[q].ids = req[q].ids /\ Pending(req'[q]) = IF q = r THEN {} ELSE Pending(req[q])
  <2>1. CASE q = r
    <3>1. req'[q] = Left(next, keys, keys')
      BY <1>1, <2>1
    <3>2. Left(next, keys, keys').ids = next.ids /\ Left(next, keys, keys').pc = next.pc
      BY LeftType
    <3> QED  BY <2>1, <3>1, <3>2 DEF Pending
  <2>2. CASE q # r
    <3>1. req'[q] = Left(req[q], keys, keys')
      BY <1>1, <2>2
    <3>2. Left(req[q], keys, keys').ids = req[q].ids /\ Left(req[q], keys, keys').pc = req[q].pc
      BY <1>2, LeftType
    <3> QED  BY <2>2, <3>1, <3>2 DEF Pending
  <2> QED  BY <2>1, <2>2
<1>4. \A q \in Requests : q # r => F \cap req[q].ids = {}
  BY DEF KeyInv, Apart
<1>5. ASSUME NEW q \in Requests PROVE Fits(req'[q], keys', drawn, now)
  <2>1. CASE q = r
    BY <1>1, <2>1
  <2>2. CASE q # r
    <3>1. Fits(req[q], keys, drawn, now) /\ F \cap req[q].ids = {}
      BY <1>4, <2>2 DEF KeyInv
    <3>2. Fits(Left(req[q], keys, keys'), keys', drawn, now)
      BY <1>2, <3>1, Framed
    <3> QED  BY <1>1, <2>2, <3>2
  <2> QED  BY <2>1, <2>2
<1>6. Apart'
  <2>1. ASSUME NEW p \in Requests PROVE Pending(req'[p]) \cap Ids(keys') = {}
    BY <1>3, <1>4, <2>1 DEF KeyInv, Apart, Pending
  <2>2. ASSUME NEW p \in Requests, NEW q \in Requests, q # p
        PROVE  Pending(req'[p]) \cap req'[q].ids = {}
    BY <1>3, <2>2 DEF KeyInv, Apart
  <2> QED  BY <2>1, <2>2 DEF Apart
<1>7. req' \in [Requests -> Request]
  BY <1>5 DEF Put, Fits
<1> QED  BY <1>5, <1>6, <1>7 DEF KeyInv

\* r's step stores nothing; it may take fresh ids.
LEMMA MoveStep ==
    ASSUME KeyInv, NEW r \in Requests, NEW next, Move(r, next), UNCHANGED now,
           drawn' \in 0 .. MaxRecords, drawn <= drawn',
           Fits(next, keys, drawn', now),
           Pending(next) \cap Ids(keys) = {},
           \A q \in Requests : q # r =>
               Pending(next) \cap req[q].ids = {} /\ Pending(req[q]) \cap next.ids = {}
    PROVE  KeyInv'
<1>1. \A q \in Requests : req'[q] = IF q = r THEN next ELSE req[q]
  BY DEF Move, KeyInv
<1>2. drawn \in Nat /\ drawn' \in Nat /\ now \in Nat
  BY UserKeysAssumption DEF KeyInv
<1>3. \A q \in Requests : Fits(req'[q], keys, drawn', now)
  BY <1>1, <1>2, FitsLater DEF KeyInv
<1>4. Apart'
  BY <1>1 DEF KeyInv, Apart, Move
<1>5. req' \in [Requests -> Request]
  BY <1>3 DEF Move, Fits, KeyInv
<1>6. KeysFit(keys, drawn', now)
  BY <1>2 DEF KeyInv, KeysFit
<1> QED  BY <1>3, <1>4, <1>5, <1>6 DEF KeyInv, Move

\* The commonest: r goes on with the ids it had, and will store none of them
\* that it would not have stored before.
LEMMA MoveOn ==
    ASSUME KeyInv, NEW r \in Requests, NEW next, Move(r, next), UNCHANGED <<now, drawn>>,
           Fits(next, keys, drawn, now),
           next.ids = req[r].ids, Pending(next) \subseteq Pending(req[r])
    PROVE  KeyInv'
<1>1. \A q \in Requests : q # r =>
        Pending(next) \cap req[q].ids = {} /\ Pending(req[q]) \cap next.ids = {}
  BY DEF KeyInv, Apart
<1>2. Pending(next) \cap Ids(keys) = {}
  BY DEF KeyInv, Apart
<1>3. drawn' \in 0 .. MaxRecords /\ drawn <= drawn'
  BY UserKeysAssumption DEF KeyInv
<1>4. Fits(next, keys, drawn', now)
  OBVIOUS
<1> QED  BY <1>1, <1>2, <1>3, <1>4, MoveStep

LEMMA GotoFields ==
    ASSUME NEW r \in Requests, req[r] \in Request, NEW pc \in Labels
    PROVE  LET t == Goto(r, pc)
           IN /\ t \in Request /\ t.pc = pc /\ t.op = req[r].op /\ t.ids = req[r].ids
              /\ t.at = req[r].at /\ t.limit = req[r].limit /\ t.since = req[r].since
              /\ t.cursor = req[r].cursor /\ t.got = req[r].got /\ t.kept = req[r].kept
              /\ t.wrote = req[r].wrote
BY DEF Goto, Request

LEMMA NoRequestType == NoRequest \in Request
BY DEF NoRequest, Request, Labels, Cursors

\* r goes on to pc and changes nothing else of itself.
LEMMA Advance ==
    ASSUME KeyInv, NEW r \in Requests, NEW pc \in Labels, Move(r, Goto(r, pc)),
           UNCHANGED <<now, drawn>>,
           Staged(req[r].op, pc), pc \notin {"adding", "initializing", "reading"},
           req[r].op \in {"update", "delete"} /\ pc = "notFound" => req[r].kept = {},
           req[r].op = "update" /\ pc \in {"verifying", "ok"} => req[r].wrote,
           req[r].op = "delete" /\ pc = "ok" => req[r].ids \cap Ids(keys) = {},
           req[r].op = "remove" /\ pc \in {"deletingPush", "deletingIdentity", "ok"} =>
               req[r].kept = {},
           req[r].op = "list" => pc = "failed" \/ req[r].kept \subseteq req[r].got
    PROVE  KeyInv'
<1>1. Fits(req[r], keys, drawn, now) /\ req[r] \in Request
  BY DEF KeyInv
<1> DEFINE t == Goto(r, pc)
<1>2. /\ t \in Request /\ t.pc = pc /\ t.op = req[r].op /\ t.ids = req[r].ids
      /\ t.at = req[r].at /\ t.kept = req[r].kept /\ t.got = req[r].got /\ t.wrote = req[r].wrote
  BY <1>1, GotoFields
<1> HIDE DEF t
<1>3. Fits(t, keys, drawn, now)
  <2>1. WriterFits(t, keys, drawn, now)
    BY <1>1, <1>2 DEF Fits, WriterFits
  <2>2. ListFits(t, keys)
    BY <1>2 DEF ListFits
  <2> QED  BY <1>2, <2>1, <2>2 DEF Fits
<1>4. Pending(t) = {}
  BY <1>2 DEF Pending
<1>5. Move(r, t)
  BY DEF t
<1> QED  BY <1>2, <1>3, <1>4, <1>5, MoveOn

LEMMA FailsInv ==
    ASSUME KeyInv, NEW r \in Requests, Fails(r)
    PROVE  KeyInv'
<1>1. Fits(req[r], keys, drawn, now)
  BY DEF KeyInv
<1>2. Staged(req[r].op, "failed")
  BY <1>1 DEF Fails, Fits, Staged, Answered
<1>3. Move(r, Goto(r, "failed")) /\ UNCHANGED <<now, drawn>> /\ "failed" \in Labels
  BY DEF Fails, Labels
<1> QED  BY <1>2, <1>3, Advance

\* A request begins, without drawing ids.
LEMMA Begun ==
    ASSUME KeyInv, NEW r \in Requests, NEW next, Move(r, next), UNCHANGED <<now, drawn>>,
           Fits(next, keys, drawn, now), Pending(next) = {},
           \A q \in Requests : q # r => Pending(req[q]) \cap next.ids = {}
    PROVE  KeyInv'
<1>1. drawn' \in 0 .. MaxRecords /\ drawn <= drawn'
  BY UserKeysAssumption DEF KeyInv
<1>2. Fits(next, keys, drawn', now)
  OBVIOUS
<1> QED  BY <1>1, <1>2, MoveStep

-----------------------------------------------------------------------------
(* Adding *)

LEMMA BeginAddInv ==
    ASSUME KeyInv, NEW r \in Requests, BeginAdd(r)
    PROVE  KeyInv'
<1> DEFINE t == [NoRequest EXCEPT !.pc = "adding", !.op = "add", !.ids = {drawn + 1}, !.at = now]
<1>1. drawn \in Nat /\ now \in Nat /\ drawn + 1 \in RecordIds /\ drawn' = drawn + 1
      /\ drawn' \in 0 .. MaxRecords
  BY UserKeysAssumption DEF BeginAdd, KeyInv, RecordIds
<1>2. /\ t \in Request /\ t.pc = "adding" /\ t.op = "add" /\ t.ids = {drawn + 1}
      /\ t.at = now /\ t.kept = {}
  BY <1>1 DEF NoRequest, Request, Labels, Cursors
<1>3. Move(r, t) /\ UNCHANGED now
  BY DEF BeginAdd
<1> HIDE DEF t
<1>4. Fits(t, keys, drawn', now)
  <2>1. Staged(t.op, t.pc)
    BY <1>2 DEF Staged
  <2>2. t.ids \subseteq 1 .. drawn' /\ t.at <= now
    BY <1>1, <1>2
  <2>3. WriterFits(t, keys, drawn', now)
    BY <1>2, <2>2 DEF WriterFits
  <2>4. ListFits(t, keys)
    BY <1>2 DEF ListFits
  <2> QED  BY <1>2, <2>1, <2>3, <2>4 DEF Fits
<1>5. drawn + 1 \notin Ids(keys)
  BY <1>1 DEF KeyInv, KeysFit
<1>6. \A q \in Requests : drawn + 1 \notin req[q].ids
  BY <1>1 DEF KeyInv, Fits, WriterFits
<1>7. \A q \in Requests : Pending(req[q]) \subseteq req[q].ids
  BY DEF Pending
<1>8. Pending(t) = {drawn + 1}
  BY <1>2 DEF Pending
<1> QED  BY <1>1, <1>2, <1>3, <1>4, <1>5, <1>6, <1>7, <1>8, MoveStep

LEMMA StampedType ==
    ASSUME NEW r \in Requests, req[r] \in Request
    PROVE  /\ Stamped(r) \in [req[r].ids -> Nat] /\ req[r].ids \in SUBSET RecordIds
           /\ \A id \in req[r].ids : Stamped(r)[id] = req[r].at
BY DEF Stamped, Request

LEMMA AddRecordInv ==
    ASSUME KeyInv, NEW r \in Requests, AddRecord(r)
    PROVE  KeyInv'
<1>1. /\ Fits(req[r], keys, drawn, now) /\ req[r] \in Request /\ req[r].pc = "adding"
      /\ req[r].op = "add" /\ UNCHANGED <<drawn, now>> /\ now \in Nat /\ drawn \in Nat
  BY UserKeysAssumption DEF KeyInv, AddRecord, Fits, Staged
<1>2. PICK id : req[r].ids = {id}
  BY <1>1 DEF Fits, WriterFits
<1> DEFINE t == Goto(r, "ok")
           u == Goto(r, "quota")
<1>3. \/ Move(r, u)
      \/ Added(r, keys) # Abort /\ keys' = Added(r, keys) /\ Put(r, t)
  <2>1. \A result \in Outcomes(Added(r, keys), Added(r, Null)) :
            result = Added(r, keys) \/ result = Abort
    BY DEF Outcomes
  <2> QED  BY <2>1 DEF AddRecord
<1>4. /\ t \in Request /\ t.pc = "ok" /\ t.op = "add" /\ t.ids = req[r].ids /\ t.at = req[r].at
      /\ u \in Request /\ u.pc = "quota" /\ u.op = "add" /\ u.ids = req[r].ids /\ u.at = req[r].at
  BY <1>1, GotoFields DEF Labels
<1> HIDE DEF t, u
<1>5. ASSUME NEW s, s \in {t, u}, NEW k PROVE Fits(s, k, drawn, now)
  <2>1. Staged(s.op, s.pc)
    BY <1>4, <1>5 DEF Staged
  <2>2. WriterFits(s, k, drawn, now)
    BY <1>1, <1>4, <1>5 DEF Fits, WriterFits
  <2>3. ListFits(s, k)
    BY <1>4, <1>5 DEF ListFits
  <2> QED  BY <1>4, <1>5, <2>1, <2>2, <2>3 DEF Fits
<1>6. CASE Move(r, u)
  <2>1. Pending(u) = {}
    BY <1>4 DEF Pending
  <2> QED  BY <1>1, <1>4, <1>5, <1>6, <2>1, MoveOn
<1>7. CASE Added(r, keys) # Abort /\ keys' = Added(r, keys) /\ Put(r, t)
  <2>1. IsStored(keys) /\ Stamped(r) \in [{id} -> Nat] /\ {id} \in SUBSET RecordIds
        /\ Stamped(r)[id] = req[r].at
    BY <1>1, <1>2, StampedType DEF KeyInv, KeysFit
  <2>2. IsStored(keys') /\ Ids(keys') = Ids(keys) \cup {id}
        /\ \A i \in Ids(keys') : keys'[i] = IF i = id THEN req[r].at ELSE keys[i]
    <3>1. CASE keys = Null
      <4>1. keys' = Stamped(r) /\ Ids(keys) = {}
        BY <1>7, <3>1 DEF Added, Ids
      <4> QED  BY <2>1, <4>1, RecordSet
    <3>2. CASE keys # Null
      <4>1. keys' = Written(keys, Stamped(r))
        BY <1>7, <3>2 DEF Added
      <4> DEFINE w == Written(keys, Stamped(r))
      <4>2. w # Null /\ Ids(w) = Ids(keys) \cup {id} /\ IsStored(w)
            /\ w[id] = Stamped(r)[id] /\ \A i \in Ids(keys) \ {id} : w[i] = keys[i]
        <5>1. w # Null /\ Ids(w) = Ids(keys) \cup {id} /\ IsStored(w)
          BY <2>1, WrittenType
        <5>2. w[id] = Stamped(r)[id] /\ \A i \in Ids(keys) \ {id} : w[i] = keys[i]
          <6>1. DOMAIN Stamped(r) = {id}
            BY <2>1
          <6> QED  BY <6>1 DEF Written
        <5> QED  BY <5>1, <5>2
      <4> HIDE DEF w
      <4>3. keys' = w
        BY <4>1 DEF w
      <4> QED  BY <2>1, <4>2, <4>3
    <3> QED  BY <3>1, <3>2
  <2>3. Cardinality(Ids(keys')) <= MaxKeys
    <3>1. Cardinality(Ids(keys)) < MaxKeys
      <4>1. CASE keys = Null
        BY <4>1, FS_EmptySet, UserKeysAssumption DEF Ids
      <4>2. CASE keys # Null
        BY <1>7, <2>1, <4>2, IdsType, UserKeysAssumption DEF Added
      <4> QED  BY <4>1, <4>2
    <3>2. IsFiniteSet(Ids(keys)) /\ Cardinality(Ids(keys)) \in Nat
      BY <2>1, IdsType
    <3>3. Cardinality(Ids(keys) \cup {id}) =
            IF id \in Ids(keys) THEN Cardinality(Ids(keys)) ELSE Cardinality(Ids(keys)) + 1
      BY <3>2, FS_AddElement, Zenon
    <3> QED  BY <2>2, <3>1, <3>2, <3>3, UserKeysAssumption
  <2>4. KeysFit(keys', drawn, now)
    <3>1. Ids(keys') \subseteq 1 .. drawn /\ \A i \in Ids(keys') : keys'[i] <= now
      BY <1>1, <1>2, <2>2 DEF KeyInv, KeysFit, Fits, WriterFits
    <3> QED  BY <2>2, <2>3, <3>1 DEF KeysFit
  <2>5. {id} \subseteq Pending(req[r]) /\ Pending(t) = {}
    BY <1>1, <1>2, <1>4 DEF Pending
  <2>6. Fits(Left(t, keys, keys'), keys', drawn, now)
    <3>1. Ids(keys') \subseteq Ids(keys) \cup Ids(keys') /\ Fits(t, keys', drawn, now)
      BY <1>5
    <3> DEFINE v == Left(t, keys, keys')
    <3>2. v \in Request /\ v.pc = t.pc /\ v.op = t.op /\ v.ids = t.ids /\ v.at = t.at
      BY <1>4, LeftType
    <3> HIDE DEF v
    <3>3. Staged(v.op, v.pc) /\ WriterFits(v, keys', drawn, now) /\ ListFits(v, keys')
      BY <1>4, <3>1, <3>2 DEF Fits, Staged, WriterFits, ListFits
    <3> QED  BY <3>2, <3>3 DEF Fits, v
  <2> QED  BY <1>1, <1>4, <1>7, <2>2, <2>4, <2>5, <2>6, PutStep
<1> QED  BY <1>3, <1>6, <1>7
-----------------------------------------------------------------------------
(* Pages *)

LEMMA LeastNatural ==
    ASSUME NEW S \in SUBSET Nat, S # {}
    PROVE  \E m \in S : \A n \in S : m <= n
<1> DEFINE R == OpToRel(<, Nat)
<1>1. IsWellFoundedOn(R, Nat)
  BY NatLessThanWellFounded
<1>2. \A m \in Nat, n \in Nat : <<m, n>> \in R <=> m < n
  BY DEF OpToRel
<1> HIDE DEF R
<1>3. PICK m \in S : \A n \in S : <<n, m>> \notin R
  BY <1>1, WFMin
<1>4. ASSUME NEW n \in S PROVE m <= n
  <2>1. m \in Nat /\ n \in Nat /\ <<n, m>> \notin R
    BY <1>3
  <2>2. ~ (n < m)
    BY <1>2, <2>1, Zenon
  <2> QED  BY <2>1, <2>2
<1> QED  BY <1>4

Points == [time: Nat, id: RecordIds]

LEMMA BeforeIsTotal ==
    ASSUME NEW a \in Points, NEW b \in Points
    PROVE  /\ a = b \/ Before(a, b) \/ Before(b, a)
           /\ ~ (Before(a, b) /\ Before(b, a))
           /\ ~ Before(a, a)
<1>1. a.time \in Nat /\ a.id \in Int /\ b.time \in Nat /\ b.id \in Int
  BY UserKeysAssumption DEF Points, RecordIds
<1>2. a.time = b.time /\ a.id = b.id => a = b
  BY DEF Points
<1> QED  BY <1>1, <1>2 DEF Before

LEMMA BeforeIsTransitive ==
    ASSUME NEW a \in Points, NEW b \in Points, NEW c \in Points, Before(a, b), Before(b, c)
    PROVE  Before(a, c)
<1>1. /\ a.time \in Nat /\ a.id \in Int /\ b.time \in Nat /\ b.id \in Int
      /\ c.time \in Nat /\ c.id \in Int
  BY UserKeysAssumption DEF Points, RecordIds
<1> QED  BY <1>1 DEF Before

\* With t the time to look for, and i the id.
LEMMA LeastPoint ==
    ASSUME NEW E \in SUBSET Points, E # {}
    PROVE  \E e \in E : \A d \in E : ~ Before(d, e)
<1>0. \A e \in E : e.time \in Nat /\ e.id \in Nat
  BY UserKeysAssumption DEF Points, RecordIds
<1>1. PICK t \in {e.time : e \in E} : \A u \in {e.time : e \in E} : t <= u
  <2>1. {e.time : e \in E} \in SUBSET Nat /\ {e.time : e \in E} # {}
    BY <1>0
  <2> QED  BY <2>1, LeastNatural
<1> DEFINE I == {e.id : e \in {x \in E : x.time = t}}
<1>2. PICK i \in I : \A j \in I : i <= j
  <2>1. I \in SUBSET Nat /\ I # {}
    BY <1>0, <1>1
  <2> HIDE DEF I
  <2> QED  BY <2>1, LeastNatural
<1>3. PICK e \in E : e.time = t /\ e.id = i
  BY <1>2
<1>4. ASSUME NEW d \in E PROVE ~ Before(d, e)
  <2>1. t <= d.time /\ d.time \in Nat /\ t \in Nat /\ i \in Nat /\ d.id \in Nat
    BY <1>0, <1>1, <1>3
  <2>2. d.time = t => i <= d.id
    BY <1>2
  <2> QED  BY <1>3, <2>1, <2>2 DEF Before
<1> QED  BY <1>4

LEMMA GreatestPoint ==
    ASSUME NEW E \in SUBSET Points, E # {}, NEW n \in Nat, \A e \in E : e.time <= n
    PROVE  \E e \in E : \A d \in E : ~ Before(e, d)
<1>0. \A e \in E : /\ e.time \in Nat /\ e.id \in Nat /\ e.time <= n /\ e.id <= MaxRecords
                   /\ n - e.time \in Nat /\ MaxRecords - e.id \in Nat
  BY UserKeysAssumption DEF Points, RecordIds
<1>1. PICK t \in {n - e.time : e \in E} : \A u \in {n - e.time : e \in E} : t <= u
  <2>1. {n - e.time : e \in E} \in SUBSET Nat /\ {n - e.time : e \in E} # {}
    BY <1>0
  <2> QED  BY <2>1, LeastNatural
<1> DEFINE I == {MaxRecords - e.id : e \in {x \in E : n - x.time = t}}
<1>2. PICK i \in I : \A j \in I : i <= j
  <2>1. I \in SUBSET Nat /\ I # {}
    BY <1>0, <1>1
  <2> HIDE DEF I
  <2> QED  BY <2>1, LeastNatural
<1>3. PICK e \in E : n - e.time = t /\ MaxRecords - e.id = i
  BY <1>2
<1>4. ASSUME NEW d \in E PROVE ~ Before(e, d)
  <2>1. n - e.time <= n - d.time
    BY <1>1, <1>3
  <2>2. n - d.time = n - e.time => MaxRecords - e.id <= MaxRecords - d.id
    BY <1>2, <1>3
  <2>3. /\ e.time \in Nat /\ d.time \in Nat /\ e.id \in Nat /\ d.id \in Nat
    BY <1>0
  <2>4. d.time <= e.time /\ (d.time = e.time => d.id <= e.id)
    BY <2>1, <2>2, <2>3, UserKeysAssumption
  <2> QED  BY <2>3, <2>4 DEF Before
<1> QED  BY <1>4

\* What a page leaves comes after the cursor it hands out.
LEMMA PageCursor ==
    ASSUME NEW E \in SUBSET Points, IsFiniteSet(E), NEW n \in Nat, \A e \in E : e.time <= n,
           NEW limit \in Nat \ {0}, FirstOf(E, limit) # E
    PROVE  /\ Latest(FirstOf(E, limit)) \in Points
           /\ \A e \in E \ FirstOf(E, limit) : Before(Latest(FirstOf(E, limit)), e)
<1> DEFINE P == FirstOf(E, limit)
           Below(e) == {d \in E : Before(d, e)}
<1>1. P \subseteq E /\ \A e \in E : e \in P <=> Cardinality(Below(e)) < limit
  BY DEF FirstOf
<1>2. \A e \in E : IsFiniteSet(Below(e)) /\ Cardinality(Below(e)) \in Nat
  BY FS_Subset, FS_CardinalityType
<1> HIDE DEF P, Below
<1>3. ASSUME NEW e \in P, NEW d \in E, Before(d, e) PROVE d \in P
  <2>1. e \in E /\ Below(d) \in SUBSET Below(e)
    BY <1>1, <1>3, BeforeIsTransitive DEF Below
  <2>2. Cardinality(Below(d)) <= Cardinality(Below(e))
    BY <1>2, <2>1, FS_Subset
  <2> QED  BY <1>1, <1>2, <2>1, <2>2
<1>4. P # {}
  <2>1. E # {}
    BY <1>1 DEF P
  <2>2. PICK e \in E : \A d \in E : ~ Before(d, e)
    BY <2>1, LeastPoint
  <2>3. Below(e) = {}
    BY <2>2 DEF Below
  <2> QED  BY <1>1, <2>3, FS_EmptySet
<1>5. PICK m \in P : \A d \in P : ~ Before(m, d)
  <2>1. P \in SUBSET Points /\ \A e \in P : e.time <= n
    BY <1>1
  <2> QED  BY <1>4, <2>1, GreatestPoint
<1>6. \A d \in P : d = m \/ Before(d, m)
  BY <1>1, <1>5, BeforeIsTotal
<1> DEFINE l == Latest(P)
<1>7. l \in P /\ \A d \in P : d = l \/ Before(d, l)
  BY <1>6 DEF Latest
<1> HIDE DEF l
<1>8. ASSUME NEW e \in E \ P PROVE Before(l, e)
  <2>1. ~ Before(e, l) /\ e # l /\ e \in Points /\ l \in Points
    BY <1>1, <1>3, <1>7, <1>8
  <2> QED  BY <2>1, BeforeIsTotal
<1>9. l \in Points
  BY <1>1, <1>7
<1> QED  BY <1>8, <1>9 DEF l, P

-----------------------------------------------------------------------------
(* Listing *)

LEMMA EntriesType ==
    ASSUME NEW n \in Nat, NEW d \in Nat, NEW k, KeysFit(k, d, n), NEW since
    PROVE  /\ Entries(k, since) \in SUBSET Points /\ IsFiniteSet(Entries(k, since))
           /\ \A e \in Entries(k, since) : e.time <= n
<1>1. Ids(k) \in SUBSET RecordIds /\ IsFiniteSet(Ids(k)) /\ \A id \in Ids(k) : k[id] \in Nat /\ k[id] <= n
  BY IdsType DEF KeysFit
<1>2. Entries(k, since) \in SUBSET Points /\ \A e \in Entries(k, since) : e.time <= n
  BY <1>1 DEF Entries, Points
<1> DEFINE S == {i \in Ids(k) : k[i] = Legacy \/ k[i] >= since}
           f == [id \in S |-> [time |-> k[id], id |-> id]]
<1>3. IsFiniteSet(S)
  BY <1>1, FS_Subset
<1>4. f \in Surjection(S, Entries(k, since))
  BY DEF Entries, Surjection
<1> QED  BY <1>2, <1>3, <1>4, FS_Surjection

\* All records to be listed are ahead of the first page.
LEMMA BeginListInv ==
    ASSUME KeyInv, NEW r \in Requests, NEW limit \in Limits, NEW since \in Nat,
           BeginList(r, limit, since)
    PROVE  KeyInv'
<1> DEFINE t == [NoRequest EXCEPT !.pc = "reading", !.op = "list", !.limit = limit, !.since = since,
                           !.kept = {e.id : e \in Entries(keys, since)}]
<1>1. KeysFit(keys, drawn, now) /\ drawn \in Nat /\ now \in Nat
  BY UserKeysAssumption DEF KeyInv
<1>2. {e.id : e \in Entries(keys, since)} \in SUBSET RecordIds
  BY <1>1, EntriesType DEF Points
<1>3. /\ t \in Request /\ t.pc = "reading" /\ t.op = "list" /\ t.ids = {} /\ t.at = 0
      /\ t.limit = limit /\ t.since = since /\ t.cursor = Null
      /\ t.kept = {e.id : e \in Entries(keys, since)}
  BY <1>2 DEF NoRequest, Request, Labels, Cursors
<1>4. Move(r, t) /\ UNCHANGED <<now, drawn>>
  BY DEF BeginList
<1> HIDE DEF t
<1>5. Fits(t, keys, drawn, now)
  <2>1. Staged(t.op, t.pc)
    BY <1>3 DEF Staged
  <2>2. WriterFits(t, keys, drawn, now)
    BY <1>1, <1>3 DEF WriterFits
  <2>3. ASSUME NEW id \in t.kept PROVE Ahead(t, keys, id)
    BY <1>3 DEF Ahead, Entries
  <2>4. ListFits(t, keys)
    BY <1>3, <2>3 DEF ListFits
  <2> QED  BY <1>3, <2>1, <2>2, <2>4 DEF Fits
<1>6. Pending(t) = {}
  BY <1>3 DEF Pending
<1> QED  BY <1>3, <1>4, <1>5, <1>6, Begun

LEMMA ReadPageInv ==
    ASSUME KeyInv, NEW r \in Requests, ReadPage(r)
    PROVE  KeyInv'
<1> DEFINE s == req[r]
           E == Entries(keys, s.since)
           rest == AfterCursor(E, s.cursor)
           page == FirstOf(rest, s.limit)
           got == s.got \cup {e.id : e \in page}
           next == [s EXCEPT !.got = got]
           t == [next EXCEPT !.pc = "ok", !.cursor = Null]
           u == [next EXCEPT !.cursor = Latest(page)]
<1>1. /\ Fits(s, keys, drawn, now) /\ s \in Request /\ s.pc = "reading" /\ s.op = "list"
      /\ UNCHANGED <<now, drawn>> /\ KeysFit(keys, drawn, now) /\ drawn \in Nat /\ now \in Nat
      /\ keys # Null
  BY UserKeysAssumption DEF KeyInv, ReadPage, Fits, Staged
<1>2. IF page = rest THEN Move(r, t) ELSE Move(r, u)
  <2>1. Move(r, IF page = rest THEN t ELSE u)
    BY Zenon DEF ReadPage
  <2> HIDE DEF t, u, page, rest
  <2> QED  BY <2>1
<1>3. E \in SUBSET Points /\ IsFiniteSet(E) /\ \A e \in E : e.time <= now
  BY <1>1, EntriesType DEF Request
<1>4. rest \in SUBSET E /\ page \in SUBSET rest
  BY DEF AfterCursor, FirstOf
<1>5. s.limit \in Nat \ {0} /\ s.limit \in Limits /\ got \in SUBSET RecordIds
  <2>1. s.limit \in Limits
    BY <1>1 DEF Fits, ListFits
  <2>2. {e.id : e \in page} \in SUBSET RecordIds
    BY <1>3, <1>4 DEF Points
  <2> QED  BY <1>1, <2>1, <2>2, UserKeysAssumption DEF Request
<1>6. next \in Request /\ next.pc = "reading" /\ next.got = got
      /\ next.op = "list" /\ next.ids = s.ids /\ next.at = s.at /\ next.limit = s.limit
      /\ next.since = s.since /\ next.kept = s.kept
  <2> HIDE DEF s, got
  <2> QED  BY <1>1, <1>5 DEF Request
<1>7. ASSUME NEW id \in s.kept \ s.got
      PROVE  Ahead(s, keys, id) /\ EntryOf(keys, id) \in rest
  <2>1. Ahead(s, keys, id)
    BY <1>1 DEF Fits, ListFits
  <2>2. EntryOf(keys, id) \in E
    BY <2>1 DEF Entries, EntryOf, Ahead
  <2> QED  BY <2>1, <2>2 DEF AfterCursor, Ahead
<1>8. \A id \in s.kept \ got : EntryOf(keys, id) \in rest \ page
  <2>1. \A id : EntryOf(keys, id).id = id
    BY DEF EntryOf
  <2> QED  BY <1>7, <2>1
<1>9. CASE page = rest
  <2>1. s.kept \subseteq got
    BY <1>8, <1>9
  <2>2. t \in Request /\ t.pc = "ok" /\ t.op = "list" /\ t.ids = s.ids /\ t.at = s.at
        /\ t.kept = s.kept /\ t.got = got
    <3> HIDE DEF next, got, s
    <3> QED  BY <1>6 DEF Request, Labels, Cursors
  <2>3. /\ t.pc = "ok" /\ t.op = "list" /\ t.ids = s.ids /\ t.at = s.at
        /\ t.kept \subseteq t.got
    BY <2>1, <2>2
  <2>4. Move(r, t)
    BY <1>2, <1>9
  <2> HIDE DEF t, s
  <2>5. Staged(t.op, t.pc)
    BY <2>3 DEF Staged
  <2>6. WriterFits(t, keys, drawn, now)
    BY <1>1, <2>3 DEF Fits, WriterFits
  <2>7. ListFits(t, keys)
    BY <2>3 DEF ListFits
  <2>8. Fits(t, keys, drawn, now) /\ Pending(t) = {}
    BY <2>2, <2>3, <2>5, <2>6, <2>7 DEF Fits, Pending
  <2> QED  BY <1>1, <2>3, <2>4, <2>8, MoveOn DEF s
<1>10. CASE page # rest
  <2>1. rest \in SUBSET Points /\ IsFiniteSet(rest) /\ \A e \in rest : e.time <= now
    BY <1>3, <1>4, FS_Subset
  <2>2. Latest(page) \in Points /\ \A e \in rest \ page : Before(Latest(page), e)
    <3> HIDE DEF rest
    <3> QED  BY <1>1, <1>5, <1>10, <2>1, PageCursor
  <2>3. /\ u \in Request /\ u.pc = "reading" /\ u.op = "list" /\ u.ids = s.ids /\ u.at = s.at
        /\ u.limit = s.limit /\ u.since = s.since /\ u.kept = s.kept /\ u.got = got
        /\ u.cursor = Latest(page)
    <3> HIDE DEF next, got, s, page
    <3> QED  BY <1>6, <2>2 DEF Request, Cursors, Points
  <2>4. \A id \in s.kept \ got : Ahead(u, keys, id)
    <3>1. ASSUME NEW id \in s.kept \ got PROVE Ahead(u, keys, id)
      <4>1. Ahead(s, keys, id) /\ EntryOf(keys, id) \in rest \ page
        BY <1>7, <1>8
      <4>2. Before(Latest(page), EntryOf(keys, id))
        BY <2>2, <4>1
      <4> HIDE DEF page, rest, u, s
      <4> QED  BY <2>3, <4>1, <4>2 DEF Ahead
    <3> QED  BY <3>1
  <2>5. /\ u.pc = "reading" /\ u.op = "list" /\ u.ids = s.ids /\ u.at = s.at
        /\ u.limit \in Limits /\ \A id \in u.kept \ u.got : Ahead(u, keys, id)
    BY <1>5, <2>3, <2>4
  <2>6. Move(r, u)
    BY <1>2, <1>10
  <2> HIDE DEF u, s
  <2>7. Staged(u.op, u.pc)
    BY <2>5 DEF Staged
  <2>8. WriterFits(u, keys, drawn, now)
    BY <1>1, <2>5 DEF Fits, WriterFits
  <2>9. ListFits(u, keys)
    BY <2>5 DEF ListFits
  <2>10. Fits(u, keys, drawn, now) /\ Pending(u) = {}
    BY <2>3, <2>5, <2>7, <2>8, <2>9 DEF Fits, Pending
  <2> QED  BY <1>1, <2>5, <2>6, <2>10, MoveOn DEF s
<1> QED  BY <1>9, <1>10

LEMMA ReadNothingInv ==
    ASSUME KeyInv, NEW r \in Requests, ReadNothing(r)
    PROVE  KeyInv'
<1>1. /\ Fits(req[r], keys, drawn, now) /\ req[r].pc = "reading" /\ keys = Null
      /\ Move(r, Goto(r, "stubbing")) /\ UNCHANGED <<now, drawn>>
  BY DEF KeyInv, ReadNothing
<1>2. req[r].op = "list"
  BY <1>1 DEF Fits, Staged
<1>3. req[r].kept \subseteq req[r].got
  BY <1>1, <1>2 DEF Fits, ListFits, Ahead, Ids
<1>4. Staged(req[r].op, "stubbing") /\ "stubbing" \in Labels
  BY <1>2 DEF Staged, Labels
<1> QED  BY <1>1, <1>2, <1>3, <1>4, Advance

LEMMA KeysFitNothing == KeysFit(Null, drawn, now) /\ Ids(Null) = {}
BY FS_EmptySet, UserKeysAssumption DEF KeysFit, IsStored, Ids

LEMMA KeysFitEmpty == KeysFit(EmptySet, drawn, now)
BY EmptyRecordSet, FS_EmptySet, UserKeysAssumption DEF KeysFit

LEMMA WriteStubInv ==
    ASSUME KeyInv, NEW r \in Requests, WriteStub(r)
    PROVE  KeyInv'
<1> DEFINE t == [Goto(r, "ok") EXCEPT !.cursor = Null]
<1>1. /\ Fits(req[r], keys, drawn, now) /\ req[r] \in Request /\ req[r].pc = "stubbing"
      /\ keys' = EmptySet /\ Put(r, t) /\ UNCHANGED <<drawn, now>>
  BY DEF KeyInv, WriteStub, Fits
<1>2. req[r].op = "list" /\ req[r].kept \subseteq req[r].got
  BY <1>1 DEF Fits, Staged, ListFits
<1>3. /\ Goto(r, "ok") \in Request /\ Goto(r, "ok").pc = "ok" /\ Goto(r, "ok").op = "list"
      /\ Goto(r, "ok").ids = req[r].ids /\ Goto(r, "ok").at = req[r].at
      /\ Goto(r, "ok").kept \subseteq Goto(r, "ok").got
  BY <1>1, <1>2, GotoFields DEF Labels
<1>4. /\ t \in Request /\ t.pc = "ok" /\ t.op = "list" /\ t.ids = req[r].ids
      /\ t.at = req[r].at /\ t.kept \subseteq t.got
  BY <1>3 DEF Request, Cursors
<1> HIDE DEF t
<1> DEFINE v == Left(t, keys, keys')
<1>5. /\ v \in Request /\ v.pc = "ok" /\ v.op = "list" /\ v.ids = req[r].ids
      /\ v.at = req[r].at /\ v.kept \subseteq v.got
  BY <1>4, LeftType
<1> HIDE DEF v
<1>6. Fits(v, keys', drawn, now)
  <2>1. Staged(v.op, v.pc)
    BY <1>5 DEF Staged
  <2>2. WriterFits(v, keys', drawn, now)
    BY <1>1, <1>5 DEF Fits, WriterFits
  <2>3. ListFits(v, keys')
    BY <1>5 DEF ListFits
  <2> QED  BY <1>5, <2>1, <2>2, <2>3 DEF Fits
<1>7. KeysFit(keys', drawn, now) /\ Ids(keys') = {} /\ Pending(t) = {}
  BY <1>1, <1>4, KeysFitEmpty, EmptyRecordSet DEF Pending
<1> QED  BY <1>1, <1>4, <1>6, <1>7, PutStep DEF v

-----------------------------------------------------------------------------
(* Updating and deleting *)

LEMMA BeginChangeInv ==
    ASSUME KeyInv, NEW r \in Requests, NEW op \in {"update", "delete"}, NEW id \in KnownIds,
           BeginChange(r, op, id)
    PROVE  KeyInv'
<1> DEFINE t == [NoRequest EXCEPT !.pc = "prechecking", !.op = op, !.ids = {id},
                           !.kept = {id} \cap Ids(keys)]
<1>1. id \in RecordIds /\ id \in 1 .. drawn /\ drawn \in Nat /\ now \in Nat
      /\ \A q \in Requests : id \notin Pending(req[q])
  <2>1. CASE id \in Ids(keys)
    BY <2>1, IdsType, UserKeysAssumption DEF KeyInv, KeysFit, Apart
  <2>2. CASE \E q \in Requests : req[q].pc = "ok" /\ id \in req[q].ids
    <3>1. PICK p \in Requests : req[p].pc = "ok" /\ id \in req[p].ids
      BY <2>2
    <3>2. Pending(req[p]) = {}
      BY <3>1 DEF Pending
    <3>3. id \in RecordIds /\ id \in 1 .. drawn
      BY <3>1 DEF KeyInv, Fits, WriterFits, Request
    <3>4. \A q \in Requests : id \notin Pending(req[q])
      BY <3>1, <3>2 DEF KeyInv, Apart
    <3> QED  BY <3>3, <3>4, UserKeysAssumption DEF KeyInv
  <2> QED  BY <2>1, <2>2 DEF KnownIds
<1>2. /\ t \in Request /\ t.pc = "prechecking" /\ t.op = op /\ t.ids = {id} /\ t.at = 0
      /\ t.kept = {id} \cap Ids(keys)
  BY <1>1 DEF NoRequest, Request, Labels, Cursors
<1>3. Move(r, t) /\ UNCHANGED <<now, drawn>>
  BY DEF BeginChange
<1> HIDE DEF t
<1>4. Fits(t, keys, drawn, now)
  <2>1. Staged(t.op, t.pc)
    BY <1>2 DEF Staged
  <2>2. WriterFits(t, keys, drawn, now)
    BY <1>1, <1>2 DEF WriterFits
  <2>3. ListFits(t, keys)
    BY <1>2 DEF ListFits
  <2> QED  BY <1>2, <2>1, <2>2, <2>3 DEF Fits
<1>5. Pending(t) = {}
  BY <1>2 DEF Pending
<1> QED  BY <1>1, <1>2, <1>3, <1>4, <1>5, Begun

LEMMA PrecheckInv ==
    ASSUME KeyInv, NEW r \in Requests, Precheck(r)
    PROVE  KeyInv'
<1>1. /\ Fits(req[r], keys, drawn, now) /\ req[r] \in Request /\ req[r].pc = "prechecking"
      /\ UNCHANGED <<drawn, now>> /\ now \in Nat
  BY DEF KeyInv, Precheck, Fits
<1>2. req[r].op \in {"update", "delete"}
  BY <1>1 DEF Fits, Staged
<1>3. CASE keys = Null
  <2>1. req[r].kept = {}
    BY <1>1, <1>2, <1>3 DEF Fits, WriterFits, Ids
  <2>2. Staged(req[r].op, "notFound") /\ "notFound" \in Labels
    BY <1>2 DEF Staged, Labels
  <2>3. Move(r, Goto(r, "notFound"))
    BY <1>3 DEF Precheck
  <2> QED  BY <1>1, <1>2, <2>1, <2>2, <2>3, Advance
<1>4. CASE keys # Null
  <2> DEFINE t == [Goto(r, "changing") EXCEPT !.at = now]
  <2>1. /\ Goto(r, "changing") \in Request /\ Goto(r, "changing").pc = "changing"
        /\ Goto(r, "changing").op = req[r].op /\ Goto(r, "changing").ids = req[r].ids
        /\ Goto(r, "changing").kept = req[r].kept
    BY <1>1, GotoFields DEF Labels
  <2>2. /\ t \in Request /\ t.pc = "changing" /\ t.op = req[r].op /\ t.ids = req[r].ids
        /\ t.at = now /\ t.kept = req[r].kept
    BY <1>1, <2>1 DEF Request
  <2>3. Move(r, t)
    BY <1>4 DEF Precheck
  <2> HIDE DEF t
  <2>4. Staged(t.op, t.pc) /\ ListFits(t, keys) /\ Pending(t) = {}
    BY <1>2, <2>2 DEF Staged, ListFits, Pending
  <2>5. WriterFits(t, keys, drawn, now)
    <3>1. /\ req[r].ids \subseteq 1 .. drawn /\ \E id : req[r].ids = {id}
          /\ req[r].kept \subseteq req[r].ids /\ req[r].kept \subseteq Ids(keys)
      BY <1>1, <1>2 DEF Fits, WriterFits
    <3>2. t.at <= now
      BY <1>1, <2>2
    <3> QED  BY <2>2, <3>1, <3>2 DEF WriterFits
  <2>6. Fits(t, keys, drawn, now)
    BY <2>2, <2>4, <2>5 DEF Fits
  <2> QED  BY <1>1, <2>2, <2>3, <2>4, <2>6, MoveOn
<1> QED  BY <1>3, <1>4

\* A request that ends with "notFound" though its record may have been there when
\* it began: the record is not there now, so it was removed meanwhile.
LEMMA NotFoundInv ==
    ASSUME KeyInv, NEW r \in Requests, Move(r, Goto(r, "notFound")), UNCHANGED <<drawn, now>>,
           req[r].op \in {"update", "delete"}, ~ (req[r].ids \subseteq Ids(keys))
    PROVE  KeyInv'
<1>1. req[r].kept = {}
  BY DEF KeyInv, Fits, WriterFits
<1>2. Staged(req[r].op, "notFound") /\ "notFound" \in Labels
  BY DEF Staged, Labels
<1> QED  BY <1>1, <1>2, Advance

LEMMA VerifyStoredInv ==
    ASSUME KeyInv, NEW r \in Requests, VerifyStored(r)
    PROVE  KeyInv'
<1>1. /\ Fits(req[r], keys, drawn, now) /\ req[r].pc = "verifying" /\ UNCHANGED <<drawn, now>>
  BY DEF KeyInv, VerifyStored
<1>2. req[r].op = "update"
  BY <1>1 DEF Fits, Staged
<1>3. CASE req[r].ids \subseteq Ids(keys)
  <2>1. req[r].wrote
    BY <1>1, <1>2, <1>3 DEF Fits, WriterFits
  <2>2. Staged(req[r].op, "ok") /\ "ok" \in Labels /\ Move(r, Goto(r, "ok"))
    BY <1>2, <1>3 DEF Staged, Labels, VerifyStored
  <2> QED  BY <1>1, <1>2, <2>1, <2>2, Advance
<1>4. CASE ~ (req[r].ids \subseteq Ids(keys))
  <2>1. Move(r, Goto(r, "notFound"))
    BY <1>4 DEF VerifyStored
  <2> QED  BY <1>1, <1>2, <1>4, <2>1, NotFoundInv
<1> QED  BY <1>3, <1>4

LEMMA UpdateRecordInv ==
    ASSUME KeyInv, NEW r \in Requests, UpdateRecord(r)
    PROVE  KeyInv'
<1> DEFINE result == Updated(r, keys)
           t == [Goto(r, "verifying") EXCEPT !.wrote = req[r].ids \subseteq Ids(result)]
<1>1. /\ Fits(req[r], keys, drawn, now) /\ req[r] \in Request /\ req[r].pc = "changing"
      /\ req[r].op = "update" /\ UNCHANGED <<drawn, now>> /\ drawn \in Nat /\ now \in Nat
      /\ IsStored(keys) /\ KeysFit(keys, drawn, now)
  BY UserKeysAssumption DEF KeyInv, KeysFit, UpdateRecord, Fits
<1>2. \/ result = Abort /\ Move(r, Goto(r, "notFound"))
      \/ result # Abort /\ keys' = result /\ Put(r, t)
  <2>1. Updated(r, Null) # Abort
    BY EmptyRecordSet DEF Updated
  <2>2. \A x \in Outcomes(Updated(r, keys), Updated(r, Null)) : x = result
    BY <2>1 DEF Outcomes
  <2> HIDE DEF result
  <2> QED  BY <2>2 DEF UpdateRecord
<1>3. CASE result = Abort /\ Move(r, Goto(r, "notFound"))
  <2>1. ~ (req[r].ids \subseteq Ids(keys))
    <3>1. CASE keys = Null
      BY <1>3, <3>1, EmptyRecordSet DEF Updated
    <3>2. CASE keys # Null
      <4>1. Stamped(r) \in [req[r].ids -> Nat] /\ req[r].ids \in SUBSET RecordIds
        BY <1>1, StampedType
      <4>2. Written(keys, Stamped(r)) # Abort
        BY <1>1, <4>1, WrittenType
      <4> QED  BY <1>3, <3>2, <4>2 DEF Updated
    <3> QED  BY <3>1, <3>2
  <2> QED  BY <1>1, <1>3, <2>1, NotFoundInv
<1>4. CASE result # Abort /\ keys' = result /\ Put(r, t)
  <2>1. IsStored(result) /\ Ids(result) = Ids(keys)
        /\ \A id \in Ids(result) : result[id] = req[r].at \/ result[id] = keys[id]
    <3>1. CASE keys = Null
      <4>1. result = EmptySet
        BY <3>1 DEF Updated
      <4>2. Ids(keys) = {} /\ Ids(EmptySet) = {} /\ IsStored(EmptySet)
        BY <3>1, EmptyRecordSet DEF Ids
      <4> HIDE DEF result
      <4> QED  BY <4>1, <4>2
    <3>2. CASE keys # Null
      <4>1. result = Written(keys, Stamped(r)) /\ req[r].ids \subseteq Ids(keys)
        BY <1>4, <3>2 DEF Updated
      <4>2. Stamped(r) \in [req[r].ids -> Nat] /\ req[r].ids \in SUBSET RecordIds
            /\ \A id \in req[r].ids : Stamped(r)[id] = req[r].at
        BY <1>1, StampedType
      <4>3. Ids(Written(keys, Stamped(r))) = Ids(keys) \cup req[r].ids
            /\ IsStored(Written(keys, Stamped(r)))
        BY <1>1, <4>2, WrittenType
      <4>4. \A id \in Ids(keys) : \/ Written(keys, Stamped(r))[id] = req[r].at
                                 \/ Written(keys, Stamped(r))[id] = keys[id]
        <5>1. DOMAIN Stamped(r) = req[r].ids
          BY <4>2
        <5> QED  BY <4>2, <5>1 DEF Written
      <4> HIDE DEF result
      <4> QED  BY <4>1, <4>3, <4>4
    <3> QED  BY <3>1, <3>2
  <2>2. KeysFit(keys', drawn, now)
    <3>1. req[r].at <= now
      BY <1>1 DEF Fits, WriterFits
    <3> HIDE DEF result
    <3> QED  BY <1>1, <1>4, <2>1, <3>1 DEF KeysFit
  <2>3. t.wrote = (req[r].ids \subseteq Ids(keys))
    <3>1. Goto(r, "verifying") \in Request
      BY <1>1, GotoFields DEF Labels
    <3> HIDE DEF result
    <3> QED  BY <2>1, <3>1 DEF Request
  <2>4. /\ t \in Request /\ t.pc = "verifying" /\ t.op = "update" /\ t.ids = req[r].ids
        /\ t.at = req[r].at /\ t.kept = req[r].kept
    <3>1. /\ Goto(r, "verifying") \in Request /\ Goto(r, "verifying").pc = "verifying"
          /\ Goto(r, "verifying").op = req[r].op /\ Goto(r, "verifying").ids = req[r].ids
          /\ Goto(r, "verifying").at = req[r].at /\ Goto(r, "verifying").kept = req[r].kept
      BY <1>1, GotoFields DEF Labels
    <3> HIDE DEF result
    <3> QED  BY <1>1, <3>1 DEF Request
  <2> HIDE DEF t
  <2>5. Fits(t, keys, drawn, now)
    <3>1. Staged(t.op, t.pc) /\ ListFits(t, keys)
      BY <2>4 DEF Staged, ListFits
    <3>2. WriterFits(t, keys, drawn, now)
      BY <1>1, <2>3, <2>4 DEF Fits, WriterFits
    <3> QED  BY <2>4, <3>1, <3>2 DEF Fits
  <2>6. Ids(keys') \subseteq Ids(keys) \cup {} /\ Pending(t) = {} /\ {} \cap t.ids = {}
    BY <1>4, <2>1, <2>4 DEF Pending
  <2>7. Fits(Left(t, keys, keys'), keys', drawn, now)
    BY <1>1, <2>5, <2>6, Framed
  <2> QED  BY <1>1, <1>4, <2>2, <2>4, <2>6, <2>7, PutStep
<1> QED  BY <1>2, <1>3, <1>4

LEMMA DeleteRecordInv ==
    ASSUME KeyInv, NEW r \in Requests, DeleteRecord(r)
    PROVE  KeyInv'
<1> DEFINE result == Removed(r, keys)
           t == Goto(r, "ok")
<1>1. /\ Fits(req[r], keys, drawn, now) /\ req[r] \in Request /\ req[r].pc = "changing"
      /\ req[r].op = "delete" /\ UNCHANGED <<drawn, now>> /\ drawn \in Nat /\ now \in Nat
      /\ IsStored(keys) /\ KeysFit(keys, drawn, now)
  BY UserKeysAssumption DEF KeyInv, KeysFit, DeleteRecord, Fits
<1>2. \/ result = Abort /\ Move(r, Goto(r, "notFound"))
      \/ result # Abort /\ keys' = result /\ Put(r, t)
  <2>1. Removed(r, Null) # Abort
    BY EmptyRecordSet DEF Removed
  <2>2. \A x \in Outcomes(Removed(r, keys), Removed(r, Null)) : x = result
    BY <2>1 DEF Outcomes
  <2> HIDE DEF result
  <2> QED  BY <2>2 DEF DeleteRecord
<1> DEFINE rest == [id \in Ids(keys) \ req[r].ids |-> keys[id]]
<1>3. /\ rest # Abort /\ Ids(rest) = Ids(keys) \ req[r].ids /\ IsStored(rest)
      /\ \A id \in Ids(rest) : rest[id] = keys[id]
  <2>1. Ids(keys) \ req[r].ids \in SUBSET RecordIds /\ \A id \in Ids(keys) : keys[id] \in Nat
    BY <1>1, IdsType
  <2>2. rest \in [Ids(keys) \ req[r].ids -> Nat]
    BY <2>1
  <2>3. rest # Abort /\ Ids(rest) = Ids(keys) \ req[r].ids /\ IsStored(rest)
    <3> HIDE DEF rest
    <3> QED  BY <2>1, <2>2, RecordSet
  <2> QED  BY <2>3
<1>4. CASE result = Abort /\ Move(r, Goto(r, "notFound"))
  <2>1. ~ (req[r].ids \subseteq Ids(keys))
    <3>1. CASE keys = Null
      BY <1>4, <3>1, EmptyRecordSet DEF Removed
    <3>2. CASE keys # Null
      BY <1>3, <1>4, <3>2 DEF Removed
    <3> QED  BY <3>1, <3>2
  <2> QED  BY <1>1, <1>4, <2>1, NotFoundInv
<1>5. CASE result # Abort /\ keys' = result /\ Put(r, t)
  <2>1. /\ IsStored(result) /\ Ids(result) = Ids(keys) \ req[r].ids
        /\ \A id \in Ids(result) : result[id] = keys[id]
    <3>1. CASE keys = Null
      <4>1. result = EmptySet
        BY <3>1 DEF Removed
      <4>2. Ids(keys) = {} /\ Ids(EmptySet) = {} /\ IsStored(EmptySet)
        BY <3>1, EmptyRecordSet DEF Ids
      <4> HIDE DEF result
      <4> QED  BY <4>1, <4>2
    <3>2. CASE keys # Null
      <4>1. result = rest
        BY <1>5, <3>2 DEF Removed
      <4> HIDE DEF result, rest
      <4> QED  BY <1>3, <4>1
    <3> QED  BY <3>1, <3>2
  <2> HIDE DEF result
  <2>2. KeysFit(keys', drawn, now)
    <3>1. Ids(keys') \in SUBSET Ids(keys) /\ IsFiniteSet(Ids(keys))
          /\ Cardinality(Ids(keys)) \in Nat
      BY <1>1, <1>5, <2>1, IdsType
    <3>2. Cardinality(Ids(keys')) <= Cardinality(Ids(keys)) /\ Cardinality(Ids(keys')) \in Nat
      BY <3>1, FS_Subset, FS_CardinalityType
    <3>3. Cardinality(Ids(keys')) <= MaxKeys
      BY <1>1, <3>1, <3>2, UserKeysAssumption DEF KeysFit
    <3> QED  BY <1>1, <1>5, <2>1, <3>3 DEF KeysFit
  <2>3. /\ t \in Request /\ t.pc = "ok" /\ t.op = "delete" /\ t.ids = req[r].ids
        /\ t.at = req[r].at /\ t.kept = req[r].kept
    BY <1>1, GotoFields DEF Labels
  <2> HIDE DEF t
  <2> DEFINE v == Left(t, keys, keys')
  <2>4. /\ v \in Request /\ v.pc = "ok" /\ v.op = "delete" /\ v.ids = req[r].ids
        /\ v.at = req[r].at /\ v.kept = req[r].kept \ Gone(t, keys, keys')
    BY <2>3, LeftType
  <2> HIDE DEF v
  <2>5. v.kept = {}
    <3>1. req[r].kept \subseteq req[r].ids /\ req[r].kept \subseteq Ids(keys)
      BY <1>1 DEF Fits, WriterFits
    <3>2. Gone(t, keys, keys') = Ids(keys) \ Ids(keys')
      BY <2>3 DEF Gone
    <3> QED  BY <1>5, <2>1, <2>4, <3>1, <3>2
  <2>6. Fits(v, keys', drawn, now)
    <3>1. Staged(v.op, v.pc) /\ ListFits(v, keys')
      BY <2>4 DEF Staged, ListFits
    <3>2. v.ids \cap Ids(keys') = {}
      BY <1>5, <2>1, <2>4
    <3>3. /\ v.ids \subseteq 1 .. drawn /\ v.at <= now /\ \E id : v.ids = {id}
      BY <1>1, <2>4 DEF Fits, WriterFits
    <3>4. WriterFits(v, keys', drawn, now)
      BY <2>4, <2>5, <3>2, <3>3 DEF WriterFits
    <3> QED  BY <2>4, <3>1, <3>4 DEF Fits
  <2>7. Ids(keys') \subseteq Ids(keys) \cup {} /\ Pending(t) = {}
    BY <1>5, <2>1, <2>3 DEF Pending
  <2> QED  BY <1>1, <1>5, <2>2, <2>3, <2>6, <2>7, PutStep DEF v
<1> QED  BY <1>2, <1>4, <1>5

-----------------------------------------------------------------------------
(* Creating an account *)

\* Requests that address no records as they begin.
LEMMA BareInv ==
    ASSUME KeyInv, NEW r \in Requests, NEW next \in Request, Move(r, next),
           UNCHANGED <<now, drawn>>,
           Staged(next.op, next.pc), next.op \in {"create", "setUser", "remove"},
           next.pc \notin {"initializing", "deletingPush", "deletingIdentity", "ok"},
           next.ids = {}, next.at = 0, next.kept \subseteq Ids(keys)
    PROVE  KeyInv'
<1>1. now \in Nat
  BY DEF KeyInv
<1>2. WriterFits(next, keys, drawn, now) /\ ListFits(next, keys) /\ Pending(next) = {}
  BY <1>1 DEF WriterFits, ListFits, Staged, Pending
<1>3. Fits(next, keys, drawn, now)
  BY <1>2 DEF Fits
<1> QED  BY <1>2, <1>3, Begun

LEMMA BeginCreateInv ==
    ASSUME KeyInv, NEW r \in Requests, BeginCreate(r)
    PROVE  KeyInv'
<1> DEFINE pc == IF doc = Null THEN "creating" ELSE "conflict"
           t == [NoRequest EXCEPT !.pc = pc, !.op = "create"]
<1>1. /\ t \in Request /\ t.pc \in {"creating", "conflict"} /\ t.op = "create" /\ t.ids = {}
      /\ t.at = 0 /\ t.kept = {}
  BY DEF NoRequest, Request, Labels, Cursors
<1>2. Move(r, t) /\ UNCHANGED <<now, drawn>>
  BY DEF BeginCreate
<1> HIDE DEF t
<1>3. Staged(t.op, t.pc)
  BY <1>1 DEF Staged
<1> QED  BY <1>1, <1>2, <1>3, BareInv

LEMMA CreateInv ==
    ASSUME KeyInv, NEW r \in Requests, NEW n \in 0 .. MaxKeys, Create(r, n),
           req[r].pc = "creating"
    PROVE  KeyInv'
<1> DEFINE t == [Goto(r, "initializing") EXCEPT !.ids = drawn + 1 .. drawn + n, !.at = now]
<1>1. /\ Fits(req[r], keys, drawn, now) /\ req[r] \in Request /\ drawn \in Nat /\ now \in Nat
      /\ n \in Nat /\ n <= MaxKeys /\ drawn' = drawn + n /\ drawn' \in 0 .. MaxRecords
      /\ drawn <= drawn' /\ UNCHANGED now /\ Move(r, t)
  BY UserKeysAssumption DEF KeyInv, Create, Fits
<1>2. req[r].op = "create"
  BY <1>1 DEF Fits, Staged
<1>3. /\ Goto(r, "initializing") \in Request /\ Goto(r, "initializing").pc = "initializing"
      /\ Goto(r, "initializing").op = "create"
  BY <1>1, <1>2, GotoFields DEF Labels
<1>4. drawn + 1 .. drawn + n \in SUBSET RecordIds
  BY <1>1, UserKeysAssumption DEF RecordIds
<1>5. /\ t \in Request /\ t.pc = "initializing" /\ t.op = "create" /\ t.at = now
      /\ t.ids = drawn + 1 .. drawn + n
  BY <1>1, <1>3, <1>4 DEF Request
<1> HIDE DEF t
<1>6. Cardinality(t.ids) <= MaxKeys
  <2>1. Cardinality(drawn + 1 .. drawn + n) = IF drawn + 1 > drawn + n THEN 0
                                              ELSE (drawn + n) - (drawn + 1) + 1
    BY <1>1, FS_Interval
  <2>2. Cardinality(drawn + 1 .. drawn + n) = n
    BY <1>1, <2>1
  <2> QED  BY <1>1, <1>5, <2>2
<1>7. Fits(t, keys, drawn', now)
  <2>1. Staged(t.op, t.pc) /\ ListFits(t, keys)
    BY <1>5 DEF Staged, ListFits
  <2>2. t.ids \subseteq 1 .. drawn' /\ t.at <= now
    BY <1>1, <1>5
  <2>3. WriterFits(t, keys, drawn', now)
    BY <1>5, <1>6, <2>2 DEF WriterFits
  <2> QED  BY <1>5, <2>1, <2>3 DEF Fits
<1>8. /\ t.ids \cap Ids(keys) = {}
      /\ \A q \in Requests : t.ids \cap req[q].ids = {} /\ Pending(req[q]) \subseteq req[q].ids
  <2>1. \A i \in 1 .. drawn : i \notin t.ids
    BY <1>1, <1>5
  <2>2. Ids(keys) \subseteq 1 .. drawn /\ \A q \in Requests : req[q].ids \subseteq 1 .. drawn
    BY DEF KeyInv, KeysFit, Fits, WriterFits
  <2> QED  BY <2>1, <2>2 DEF Pending
<1>9. Pending(t) = t.ids
  BY <1>5 DEF Pending
<1> QED  BY <1>1, <1>7, <1>8, <1>9, MoveStep

LEMMA CreateDocumentInv ==
    ASSUME KeyInv, NEW r \in Requests, CreateDocument(r)
    PROVE  KeyInv'
<1>1. req[r].pc = "creating" /\ Fits(req[r], keys, drawn, now)
  BY DEF CreateDocument, KeyInv
<1>2. CASE Refused(r)
  <2>1. Move(r, Goto(r, "conflict")) /\ UNCHANGED <<now, drawn>> /\ "conflict" \in Labels
    BY <1>2 DEF Refused, Labels
  <2>2. req[r].op = "create"
    BY <1>1 DEF Fits, Staged
  <2>3. Staged(req[r].op, "conflict")
    BY <2>2 DEF Staged
  <2> QED  BY <2>1, <2>2, <2>3, Advance
<1>3. CASE \E n \in 0 .. MaxKeys : Create(r, n)
  BY <1>1, <1>3, CreateInv
<1> QED  BY <1>2, <1>3 DEF CreateDocument

\* The whole set of r's new records is stored, and r goes on to pc.
LEMMA InitializedInv ==
    ASSUME KeyInv, NEW r \in Requests, NEW pc \in {"ok", "rollingBack"},
           req[r].pc = "initializing", keys' \in {keys, Stamped(r)}, Put(r, Goto(r, pc)),
           UNCHANGED <<drawn, now>>
    PROVE  KeyInv'
<1> DEFINE t == Goto(r, pc)
<1>1. /\ Fits(req[r], keys, drawn, now) /\ req[r] \in Request /\ KeysFit(keys, drawn, now)
      /\ drawn \in Nat /\ now \in Nat
  BY UserKeysAssumption DEF KeyInv, Fits
<1>2. req[r].op = "create" /\ Cardinality(req[r].ids) <= MaxKeys
      /\ req[r].ids \subseteq 1 .. drawn /\ req[r].at <= now
  BY <1>1 DEF Fits, Staged, WriterFits
<1>3. t \in Request /\ t.pc = pc /\ t.op = "create" /\ t.ids = req[r].ids /\ t.at = req[r].at
  BY <1>1, <1>2, GotoFields DEF Labels
<1>4. Put(r, t)
  OBVIOUS
<1> HIDE DEF t
<1>5. KeysFit(keys', drawn, now) /\ Ids(keys') \subseteq Ids(keys) \cup req[r].ids
  <2>1. CASE keys' = keys
    BY <1>1, <2>1
  <2>2. CASE keys' = Stamped(r)
    <3>1. Stamped(r) \in [req[r].ids -> Nat] /\ req[r].ids \in SUBSET RecordIds
          /\ \A id \in req[r].ids : Stamped(r)[id] = req[r].at
      BY <1>1, StampedType
    <3>2. Ids(Stamped(r)) = req[r].ids /\ IsStored(Stamped(r))
      BY <3>1, RecordSet
    <3> QED  BY <1>2, <2>2, <3>1, <3>2 DEF KeysFit
  <2> QED  BY <2>1, <2>2
<1> DEFINE v == Left(t, keys, keys')
<1>6. /\ v \in Request /\ v.pc = pc /\ v.op = "create" /\ v.ids = req[r].ids /\ v.at = req[r].at
  BY <1>3, LeftType
<1> HIDE DEF v
<1>7. Fits(v, keys', drawn, now)
  <2>1. Staged(v.op, v.pc) /\ ListFits(v, keys')
    BY <1>6 DEF Staged, ListFits
  <2>2. WriterFits(v, keys', drawn, now)
    BY <1>2, <1>6 DEF WriterFits
  <2> QED  BY <1>6, <2>1, <2>2 DEF Fits
<1>8. Pending(req[r]) = req[r].ids /\ Pending(t) = {}
  BY <1>3 DEF Pending
<1> QED  BY <1>3, <1>4, <1>5, <1>7, <1>8, PutStep DEF v

LEMMA RollBackInv ==
    ASSUME KeyInv, NEW r \in Requests, RollBack(r)
    PROVE  KeyInv'
<1>1. req[r].pc = "rollingBack" /\ Fits(req[r], keys, drawn, now) /\ UNCHANGED <<now, drawn>>
  BY DEF RollBack, KeyInv
<1>2. req[r].op = "create"
  BY <1>1 DEF Fits, Staged
<1>3. Move(r, Goto(r, "failed"))
  BY DEF RollBack
<1>4. Staged(req[r].op, "failed") /\ "failed" \in Labels
  BY <1>2 DEF Staged, Labels
<1> QED  BY <1>1, <1>2, <1>3, <1>4, Advance

-----------------------------------------------------------------------------
(* Deleting an account *)

LEMMA BeginDeleteUserInv ==
    ASSUME KeyInv, NEW r \in Requests, BeginDeleteUser(r)
    PROVE  KeyInv'
<1> DEFINE t == [NoRequest EXCEPT !.pc = "revoking", !.op = "remove", !.kept = Ids(keys)]
<1>1. Ids(keys) \in SUBSET RecordIds
  BY IdsType DEF KeyInv, KeysFit
<1>2. /\ t \in Request /\ t.pc = "revoking" /\ t.op = "remove" /\ t.ids = {}
      /\ t.at = 0 /\ t.kept = Ids(keys)
  BY <1>1 DEF NoRequest, Request, Labels, Cursors
<1>3. Move(r, t) /\ UNCHANGED <<now, drawn>>
  BY DEF BeginDeleteUser
<1> HIDE DEF t
<1>4. Staged(t.op, t.pc)
  BY <1>2 DEF Staged
<1> QED  BY <1>2, <1>3, <1>4, BareInv

LEMMA DeleteEncryptedKeysInv ==
    ASSUME KeyInv, NEW r \in Requests, DeleteEncryptedKeys(r)
    PROVE  KeyInv'
<1> DEFINE t == Goto(r, "deletingPush")
           v == Left(t, keys, keys')
<1>1. /\ Fits(req[r], keys, drawn, now) /\ req[r] \in Request /\ req[r].pc = "deletingKeys"
      /\ keys' = Null /\ Put(r, t) /\ UNCHANGED <<drawn, now>>
  BY DEF KeyInv, DeleteEncryptedKeys, Fits
<1>2. req[r].op = "remove" /\ req[r].kept \subseteq Ids(keys) /\ req[r].ids \subseteq 1 .. drawn
      /\ req[r].at <= now
  BY <1>1 DEF Fits, Staged, WriterFits
<1>3. /\ t \in Request /\ t.pc = "deletingPush" /\ t.op = "remove" /\ t.ids = req[r].ids
      /\ t.at = req[r].at /\ t.kept = req[r].kept
  BY <1>1, <1>2, GotoFields DEF Labels
<1> HIDE DEF t
<1>4. /\ v \in Request /\ v.pc = "deletingPush" /\ v.op = "remove" /\ v.ids = req[r].ids
      /\ v.at = req[r].at /\ v.kept = req[r].kept \ Gone(t, keys, keys')
  BY <1>3, LeftType
<1> HIDE DEF v
<1>5. v.kept = {}
  BY <1>1, <1>2, <1>3, <1>4, KeysFitNothing DEF Gone
<1>6. Fits(v, keys', drawn, now)
  <2>1. Staged(v.op, v.pc) /\ ListFits(v, keys')
    BY <1>4 DEF Staged, ListFits
  <2>2. WriterFits(v, keys', drawn, now)
    BY <1>2, <1>4, <1>5 DEF WriterFits
  <2> QED  BY <1>4, <2>1, <2>2 DEF Fits
<1>7. KeysFit(keys', drawn, now) /\ Ids(keys') = {} /\ Pending(t) = {}
  BY <1>1, <1>3, KeysFitNothing DEF Pending
<1> QED  BY <1>1, <1>3, <1>6, <1>7, PutStep DEF v

\* The steps of a deletion that leave the keys alone, and UpdateDocument.
LEMMA OtherStepInv ==
    ASSUME KeyInv, NEW r \in Requests,
           \/ RevokeSessions(r) \/ DeleteUserDocuments(r) \/ DeletePushTokens(r)
           \/ DeleteFirebaseUser(r) \/ UpdateDocument(r)
    PROVE  KeyInv'
<1>1. Fits(req[r], keys, drawn, now)
  BY DEF KeyInv
<1>2. CASE RevokeSessions(r)
  <2>1. req[r].op = "remove"
    BY <1>1, <1>2 DEF Fits, Staged, RevokeSessions
  <2>2. Staged(req[r].op, "deletingUser") /\ "deletingUser" \in Labels
    BY <2>1 DEF Staged, Labels
  <2>3. Move(r, Goto(r, "deletingUser")) /\ UNCHANGED <<now, drawn>>
    BY <1>2 DEF RevokeSessions
  <2> QED  BY <2>1, <2>2, <2>3, Advance
<1>3. CASE DeleteUserDocuments(r)
  <2>1. req[r].op = "remove"
    BY <1>1, <1>3 DEF Fits, Staged, DeleteUserDocuments
  <2>2. Staged(req[r].op, "deletingKeys") /\ "deletingKeys" \in Labels
    BY <2>1 DEF Staged, Labels
  <2>3. Move(r, Goto(r, "deletingKeys")) /\ UNCHANGED <<now, drawn>>
    BY <1>3 DEF DeleteUserDocuments
  <2> QED  BY <2>1, <2>2, <2>3, Advance
<1>4. CASE DeletePushTokens(r)
  <2>1. req[r].op = "remove" /\ req[r].kept = {}
    BY <1>1, <1>4 DEF Fits, Staged, WriterFits, DeletePushTokens
  <2>2. Staged(req[r].op, "deletingIdentity") /\ "deletingIdentity" \in Labels
    BY <2>1 DEF Staged, Labels
  <2>3. Move(r, Goto(r, "deletingIdentity")) /\ UNCHANGED <<now, drawn>>
    BY <1>4 DEF DeletePushTokens
  <2> QED  BY <2>1, <2>2, <2>3, Advance
<1>5. CASE DeleteFirebaseUser(r)
  <2>1. req[r].op = "remove" /\ req[r].kept = {}
    BY <1>1, <1>5 DEF Fits, Staged, WriterFits, DeleteFirebaseUser
  <2>2. Staged(req[r].op, "ok") /\ "ok" \in Labels
    BY <2>1 DEF Staged, Labels
  <2>3. Move(r, Goto(r, "ok")) /\ UNCHANGED <<now, drawn>>
    BY <1>5 DEF DeleteFirebaseUser
  <2> QED  BY <2>1, <2>2, <2>3, Advance
<1>6. CASE UpdateDocument(r)
  <2>1. req[r].op = "setUser"
    BY <1>1, <1>6 DEF Fits, Staged, UpdateDocument
  <2>2. PICK pc \in {"failed", "ok"} : Move(r, Goto(r, pc))
    BY <1>6 DEF UpdateDocument
  <2>3. Staged(req[r].op, pc) /\ pc \in Labels
    BY <2>1 DEF Staged, Labels
  <2>4. UNCHANGED <<now, drawn>>
    BY <1>6 DEF UpdateDocument
  <2> QED  BY <2>1, <2>2, <2>3, <2>4, Advance
<1> QED  BY <1>2, <1>3, <1>4, <1>5, <1>6

LEMMA BeginSetUserInv ==
    ASSUME KeyInv, NEW r \in Requests, BeginSetUser(r)
    PROVE  KeyInv'
<1> DEFINE t == [NoRequest EXCEPT !.pc = "updatingUser", !.op = "setUser"]
<1>1. /\ t \in Request /\ t.pc = "updatingUser" /\ t.op = "setUser" /\ t.ids = {} /\ t.at = 0
      /\ t.kept = {}
  BY DEF NoRequest, Request, Labels, Cursors
<1>2. Move(r, t) /\ UNCHANGED <<now, drawn>>
  BY DEF BeginSetUser
<1> HIDE DEF t
<1>3. Staged(t.op, t.pc)
  BY <1>1 DEF Staged
<1> QED  BY <1>1, <1>2, <1>3, BareInv

-----------------------------------------------------------------------------
(* The key records *)

LEMMA KeysInit == Init => KeyInv
<1> SUFFICES ASSUME Init PROVE KeyInv
  OBVIOUS
<1>1. PICK n \in 0 .. MaxKeys : drawn = n /\ (keys = Null \/ keys \in [1 .. n -> {Legacy, 1}])
  <2>1. 0 \in 0 .. MaxKeys
    BY UserKeysAssumption
  <2> QED  BY <2>1 DEF Init
<1>2. n \in Nat /\ n <= MaxKeys /\ drawn \in 0 .. MaxRecords /\ now = 1 /\ drawn = n
  BY <1>1, UserKeysAssumption, UserAccountAssumption DEF Init
<1>3. KeysFit(keys, drawn, now)
  <2>1. CASE keys = Null
    BY <2>1, KeysFitNothing
  <2>2. CASE keys \in [1 .. n -> {Legacy, 1}]
    <3>1. 1 .. n \in SUBSET RecordIds /\ keys \in [1 .. n -> Nat]
      BY <1>2, <2>2, UserKeysAssumption DEF RecordIds, Legacy
    <3>2. Ids(keys) = 1 .. n /\ IsStored(keys)
      BY <3>1, RecordSet
    <3>3. Cardinality(1 .. n) = n
      <4>1. Cardinality(1 .. n) = IF 1 > n THEN 0 ELSE n - 1 + 1
        BY <1>2, FS_Interval
      <4> QED  BY <1>2, <4>1
    <3>4. \A id \in Ids(keys) : keys[id] <= now
      BY <1>2, <2>2, <3>2 DEF Legacy
    <3> QED  BY <1>2, <3>2, <3>3, <3>4 DEF KeysFit
  <2> QED  BY <1>1, <2>1, <2>2
<1>4. \A r \in Requests : req[r] = NoRequest
  BY DEF Init
<1>5. /\ NoRequest.op = "none" /\ NoRequest.pc = "idle" /\ NoRequest.ids = {} /\ NoRequest.at = 0
  BY DEF NoRequest
<1>6. Fits(NoRequest, keys, drawn, now)
  <2>1. Staged(NoRequest.op, NoRequest.pc) /\ ListFits(NoRequest, keys)
    BY <1>5 DEF Staged, ListFits
  <2>2. WriterFits(NoRequest, keys, drawn, now)
    BY <1>2, <1>5 DEF WriterFits
  <2> QED  BY <2>1, <2>2, NoRequestType DEF Fits
<1>7. Apart
  BY <1>4, <1>5 DEF Apart, Pending
<1>8. req \in [Requests -> Request]
  BY NoRequestType DEF Init
<1> QED  BY <1>2, <1>3, <1>4, <1>6, <1>7, <1>8 DEF KeyInv

LEMMA TickInv ==
    ASSUME KeyInv, Tick
    PROVE  KeyInv'
<1>1. now \in Nat /\ drawn \in Nat /\ now' = now + 1 /\ UNCHANGED <<keys, drawn, req>>
  BY UserKeysAssumption DEF KeyInv, Tick
<1>2. now' \in Nat /\ now <= now' /\ drawn <= drawn
  BY <1>1
<1>3. \A r \in Requests : Fits(req[r], keys, drawn, now')
  BY <1>1, <1>2, FitsLater DEF KeyInv
<1>4. KeysFit(keys, drawn, now')
  <2>1. \A id \in Ids(keys) : keys[id] \in Nat /\ keys[id] <= now
    BY IdsType DEF KeyInv, KeysFit
  <2>2. \A id \in Ids(keys) : keys[id] <= now'
    BY <1>1, <2>1
  <2> QED  BY <2>2 DEF KeyInv, KeysFit
<1> QED  BY <1>1, <1>2, <1>3, <1>4 DEF KeyInv, Apart

LEMMA KeysNext == KeyInv /\ [Next]_vars => KeyInv'
<1> SUFFICES ASSUME KeyInv, [Next]_vars PROVE KeyInv'
  OBVIOUS
<1>1. ASSUME NEW r \in Requests, KeyRequest(r) PROVE KeyInv'
  <2>1. ASSUME NEW limit \in Limits, NEW since \in 0 .. now, BeginList(r, limit, since)
        PROVE  KeyInv'
    <3>1. since \in Nat
      OBVIOUS
    <3> QED  BY <2>1, <3>1, BeginListInv
  <2>2. ASSUME BeginAdd(r) PROVE KeyInv'
    BY <2>2, BeginAddInv
  <2>3. ASSUME NEW op \in Ops \cap {"update", "delete"}, NEW id \in KnownIds, BeginChange(r, op, id)
        PROVE  KeyInv'
    BY <2>3, BeginChangeInv
  <2> QED  BY <1>1, <2>1, <2>2, <2>3 DEF KeyRequest
<1>2. ASSUME NEW r \in Requests, KeyStep(r) PROVE KeyInv'
  BY <1>2, ReadPageInv, ReadNothingInv, WriteStubInv, AddRecordInv, PrecheckInv, UpdateRecordInv,
     VerifyStoredInv, DeleteRecordInv DEF KeyStep
<1>3. ASSUME NEW r \in Requests, CreateStep(r) PROVE KeyInv'
  <2>1. CASE CreateDocument(r)
    BY <2>1, CreateDocumentInv
  <2>2. CASE InitializeKeys(r)
    BY <2>2, InitializedInv DEF InitializeKeys
  <2>3. CASE InitializeFails(r)
    BY <2>3, InitializedInv DEF InitializeFails
  <2>4. CASE RollBack(r)
    BY <2>4, RollBackInv
  <2> QED  BY <1>3, <2>1, <2>2, <2>3, <2>4 DEF CreateStep
<1>4. ASSUME NEW r \in Requests, DeleteStep(r) PROVE KeyInv'
  BY <1>4, OtherStepInv, DeleteEncryptedKeysInv DEF DeleteStep
<1>5. ASSUME NEW r \in Requests,
             BeginCreate(r) \/ BeginSetUser(r) \/ UpdateDocument(r) \/ BeginDeleteUser(r) \/ Fails(r)
      PROVE  KeyInv'
  BY <1>5, BeginCreateInv, BeginSetUserInv, OtherStepInv, BeginDeleteUserInv, FailsInv
<1>6. CASE UNCHANGED vars \/ Login
  <2>1. UNCHANGED <<keys, drawn, req, now>>
    BY <1>6 DEF vars, keyVars, Login
  <2> QED  BY <2>1 DEF KeyInv, Apart
<1>7. CASE Tick
  BY <1>7, TickInv
<1> QED  BY <1>1, <1>2, <1>3, <1>4, <1>5, <1>6, <1>7 DEF Next

-----------------------------------------------------------------------------
(* The account *)

Deleted(q) == req[q].op = "remove" /\ req[q].pc = "ok"

\* Without a deletion, a creation past create() has its document, and one that
\* succeeded has a record set, with nothing in it of the other creations.
CreationInv ==
    (\A q \in Requests : req[q].op # "remove") =>
        \A r \in Requests : req[r].op = "create" =>
            /\ req[r].pc \in {"initializing", "rollingBack", "ok"} => doc = r
            /\ req[r].pc = "ok" =>
                  /\ keys # Null
                  /\ \A q \in Requests \ {r} : req[q].op = "create" => req[q].ids \cap Ids(keys) = {}

AccountInv ==
    /\ CreationInv
    /\ ~identity => \E q \in Requests : Deleted(q)

\* A step of r: it was not done, it goes on with what it does, and it leaves the
\* other requests where they are.
TurnOf(r) ==
    /\ req[r].pc # "ok"
    /\ req[r].op = "none" \/ req'[r].op = req[r].op
    /\ \A q \in Requests : q # r =>
         req'[q].pc = req[q].pc /\ req'[q].op = req[q].op /\ req'[q].ids = req[q].ids

LEMMA MoveTurn ==
    ASSUME KeyInv, NEW r \in Requests, NEW next, Move(r, next), req[r].pc # "ok",
           req[r].pc = "idle" \/ next.op = req[r].op
    PROVE  TurnOf(r) /\ req'[r] = next
<1>1. req[r].pc = "idle" => req[r].op = "none"
  BY DEF KeyInv, Fits, Staged
<1> QED  BY <1>1 DEF KeyInv, Move, TurnOf

LEMMA PutTurn ==
    ASSUME KeyInv, NEW r \in Requests, NEW next \in Request, Put(r, next), req[r].pc # "ok",
           next.op = req[r].op
    PROVE  TurnOf(r) /\ req'[r].pc = next.pc /\ req'[r].ids = next.ids
<1>1. \A q \in Requests : req'[q] = Left(IF q = r THEN next ELSE req[q], keys, keys')
  BY DEF Put, Left, Gone, Lost, Changed
<1>2. ASSUME NEW q \in Requests, q # r
      PROVE  req'[q].pc = req[q].pc /\ req'[q].op = req[q].op /\ req'[q].ids = req[q].ids
  <2>1. req'[q] = Left(req[q], keys, keys') /\ req[q] \in Request
    BY <1>1, <1>2 DEF KeyInv
  <2> QED  BY <2>1, LeftType
<1>3. req'[r].pc = next.pc /\ req'[r].op = next.op /\ req'[r].ids = next.ids
  <2>1. req'[r] = Left(next, keys, keys')
    BY <1>1
  <2> QED  BY <2>1, LeftType
<1> QED  BY <1>2, <1>3 DEF TurnOf

LEMMA KeyRequestTurn ==
    ASSUME KeyInv, NEW r \in Requests, KeyRequest(r)
    PROVE  TurnOf(r)
<1>1. ASSUME NEW limit \in Limits, NEW since \in 0 .. now, BeginList(r, limit, since)
      PROVE  TurnOf(r)
  <2> DEFINE t == [NoRequest EXCEPT !.pc = "reading", !.op = "list", !.limit = limit, !.since = since,
                             !.kept = {e.id : e \in Entries(keys, since)}]
  <2>1. Move(r, t) /\ req[r].pc = "idle"
    BY <1>1 DEF BeginList
  <2> HIDE DEF t
  <2> QED  BY <2>1, MoveTurn
<1>2. ASSUME BeginAdd(r) PROVE TurnOf(r)
  <2> DEFINE t == [NoRequest EXCEPT !.pc = "adding", !.op = "add", !.ids = {drawn + 1}, !.at = now]
  <2>1. Move(r, t) /\ req[r].pc = "idle"
    BY <1>2 DEF BeginAdd
  <2> HIDE DEF t
  <2> QED  BY <2>1, MoveTurn
<1>3. ASSUME NEW op, NEW id, BeginChange(r, op, id) PROVE TurnOf(r)
  <2> DEFINE t == [NoRequest EXCEPT !.pc = "prechecking", !.op = op, !.ids = {id},
                             !.kept = {id} \cap Ids(keys)]
  <2>1. Move(r, t) /\ req[r].pc = "idle"
    BY <1>3 DEF BeginChange
  <2> HIDE DEF t
  <2> QED  BY <2>1, MoveTurn
<1> QED  BY <1>1, <1>2, <1>3 DEF KeyRequest

LEMMA KeyStepTurn ==
    ASSUME KeyInv, NEW r \in Requests, KeyStep(r)
    PROVE  TurnOf(r)
<1>1. req[r] \in Request
  BY DEF KeyInv
<1>2. \A pc \in Labels : Goto(r, pc) \in Request /\ Goto(r, pc).op = req[r].op
  BY <1>1, GotoFields
<1>3. CASE ReadPage(r)
  <2> DEFINE next(g) == [req[r] EXCEPT !.got = g]
  <2>1. \E g, c : \/ Move(r, [next(g) EXCEPT !.pc = "ok", !.cursor = Null])
                 \/ Move(r, [next(g) EXCEPT !.cursor = c])
    BY <1>3, Zenon DEF ReadPage
  <2>2. PICK g, c : \/ Move(r, [next(g) EXCEPT !.pc = "ok", !.cursor = Null])
                    \/ Move(r, [next(g) EXCEPT !.cursor = c])
    BY <2>1
  <2>3. DOMAIN next(g) = DOMAIN req[r] /\ "op" \in DOMAIN req[r] /\ next(g).op = req[r].op
    BY <1>1 DEF Request
  <2>4. req[r].pc = "reading"
    BY <1>3 DEF ReadPage
  <2> HIDE DEF next
  <2>5. /\ [next(g) EXCEPT !.pc = "ok", !.cursor = Null].op = req[r].op
        /\ [next(g) EXCEPT !.cursor = c].op = req[r].op
    BY <2>3, <2>4
  <2> QED  BY <2>2, <2>4, <2>5, MoveTurn
<1>4. CASE ReadNothing(r)
  BY <1>2, <1>4, MoveTurn DEF ReadNothing, Labels
<1>5. CASE WriteStub(r)
  <2> DEFINE t == [Goto(r, "ok") EXCEPT !.cursor = Null]
  <2>1. Goto(r, "ok") \in Request /\ Goto(r, "ok").op = req[r].op
    BY <1>2 DEF Labels
  <2>2. t \in Request /\ t.op = req[r].op
    BY <2>1 DEF Request, Cursors
  <2>3. Put(r, t) /\ req[r].pc = "stubbing"
    BY <1>5 DEF WriteStub
  <2> HIDE DEF t
  <2> QED  BY <2>2, <2>3, PutTurn
<1>6. CASE AddRecord(r)
  <2>1. Move(r, Goto(r, "quota")) \/ Put(r, Goto(r, "ok"))
    BY <1>6 DEF AddRecord
  <2> QED  BY <1>2, <1>6, <2>1, MoveTurn, PutTurn DEF AddRecord, Labels
<1>7. CASE Precheck(r)
  <2> DEFINE t == [Goto(r, "changing") EXCEPT !.at = now]
  <2>1. Goto(r, "changing") \in Request /\ Goto(r, "changing").op = req[r].op
    BY <1>2 DEF Labels
  <2>2. t.op = req[r].op
    BY <2>1 DEF Request
  <2>3. (Move(r, Goto(r, "notFound")) \/ Move(r, t)) /\ req[r].pc = "prechecking"
    BY <1>7 DEF Precheck
  <2> HIDE DEF t
  <2> QED  BY <1>2, <2>2, <2>3, MoveTurn DEF Labels
<1>8. CASE UpdateRecord(r)
  <2> DEFINE t(w) == [Goto(r, "verifying") EXCEPT !.wrote = w]
  <2>1. PICK w \in BOOLEAN : Move(r, Goto(r, "notFound")) \/ Put(r, t(w))
    <3>1. \A result : (req[r].ids \subseteq Ids(result)) \in BOOLEAN
      OBVIOUS
    <3> QED  BY <1>8, <3>1 DEF UpdateRecord
  <2>2. Goto(r, "verifying") \in Request /\ Goto(r, "verifying").op = req[r].op
    BY <1>2 DEF Labels
  <2>3. t(w) \in Request /\ t(w).op = req[r].op
    BY <2>2 DEF Request
  <2>4. req[r].pc = "changing"
    BY <1>8 DEF UpdateRecord
  <2> HIDE DEF t
  <2> QED  BY <1>2, <2>1, <2>3, <2>4, MoveTurn, PutTurn DEF Labels
<1>9. CASE VerifyStored(r)
  <2>1. (Move(r, Goto(r, "ok")) \/ Move(r, Goto(r, "notFound"))) /\ req[r].pc = "verifying"
    BY <1>9 DEF VerifyStored
  <2> QED  BY <1>2, <2>1, MoveTurn DEF Labels
<1>10. CASE DeleteRecord(r)
  <2>1. Move(r, Goto(r, "notFound")) \/ Put(r, Goto(r, "ok"))
    BY <1>10 DEF DeleteRecord
  <2>2. req[r].pc = "changing"
    BY <1>10 DEF DeleteRecord
  <2> QED  BY <1>2, <2>1, <2>2, MoveTurn, PutTurn DEF Labels
<1> QED  BY <1>3, <1>4, <1>5, <1>6, <1>7, <1>8, <1>9, <1>10 DEF KeyStep

\* The requests that change the document or the identity, or may.
AccountStep(r) ==
    \/ BeginCreate(r) \/ CreateStep(r) \/ BeginSetUser(r) \/ UpdateDocument(r)
    \/ BeginDeleteUser(r) \/ DeleteStep(r) \/ Fails(r)

LEMMA AccountStepTurn ==
    ASSUME KeyInv, NEW r \in Requests, AccountStep(r)
    PROVE  TurnOf(r)
<1>1. req[r] \in Request
  BY DEF KeyInv
<1>2. \A pc \in Labels : Goto(r, pc) \in Request /\ Goto(r, pc).op = req[r].op
  BY <1>1, GotoFields
<1>3. CASE BeginCreate(r)
  <2> DEFINE pc == IF doc = Null THEN "creating" ELSE "conflict"
             t == [NoRequest EXCEPT !.pc = pc, !.op = "create"]
  <2>1. Move(r, t) /\ req[r].pc = "idle"
    BY <1>3 DEF BeginCreate
  <2> HIDE DEF t
  <2> QED  BY <2>1, MoveTurn
<1>4. CASE CreateDocument(r)
  <2>1. ASSUME NEW n \in 0 .. MaxKeys, Create(r, n) PROVE TurnOf(r)
    <3> DEFINE t == [Goto(r, "initializing") EXCEPT !.ids = drawn + 1 .. drawn + n, !.at = now]
    <3>1. Goto(r, "initializing") \in Request /\ Goto(r, "initializing").op = req[r].op
      BY <1>2 DEF Labels
    <3>2. t.op = req[r].op
      BY <3>1 DEF Request
    <3>3. Move(r, t) /\ req[r].pc = "creating"
      BY <1>4, <2>1 DEF Create, CreateDocument
    <3> HIDE DEF t
    <3> QED  BY <3>2, <3>3, MoveTurn
  <2>2. CASE Refused(r)
    BY <1>2, <1>4, <2>2, MoveTurn DEF Refused, CreateDocument, Labels
  <2> QED  BY <1>4, <2>1, <2>2 DEF CreateDocument
<1>5. CASE InitializeKeys(r) \/ InitializeFails(r)
  <2>1. (Put(r, Goto(r, "ok")) \/ Put(r, Goto(r, "rollingBack"))) /\ req[r].pc = "initializing"
    BY <1>5 DEF InitializeKeys, InitializeFails
  <2> QED  BY <1>2, <2>1, PutTurn DEF Labels
<1>6. CASE RollBack(r)
  BY <1>2, <1>6, MoveTurn DEF RollBack, Labels
<1>7. CASE BeginSetUser(r)
  <2> DEFINE t == [NoRequest EXCEPT !.pc = "updatingUser", !.op = "setUser"]
  <2>1. Move(r, t) /\ req[r].pc = "idle"
    BY <1>7 DEF BeginSetUser
  <2> HIDE DEF t
  <2> QED  BY <2>1, MoveTurn
<1>8. CASE BeginDeleteUser(r)
  <2> DEFINE t == [NoRequest EXCEPT !.pc = "revoking", !.op = "remove", !.kept = Ids(keys)]
  <2>1. Move(r, t) /\ req[r].pc = "idle"
    BY <1>8 DEF BeginDeleteUser
  <2> HIDE DEF t
  <2> QED  BY <2>1, MoveTurn
<1>9. CASE DeleteEncryptedKeys(r)
  BY <1>2, <1>9, PutTurn DEF DeleteEncryptedKeys, Labels
<1>10. CASE UpdateDocument(r) \/ Fails(r)
  <2>1. \E pc \in {"ok", "failed"} : Move(r, Goto(r, pc))
    BY <1>10 DEF UpdateDocument, Fails
  <2>2. req[r].pc # "ok"
    BY <1>10 DEF UpdateDocument, Fails, Answered
  <2> QED  BY <1>2, <2>1, <2>2, MoveTurn DEF Labels
<1>11. CASE RevokeSessions(r)
  BY <1>2, <1>11, MoveTurn DEF RevokeSessions, Labels
<1>12. CASE DeleteUserDocuments(r)
  BY <1>2, <1>12, MoveTurn DEF DeleteUserDocuments, Labels
<1>13. CASE DeletePushTokens(r)
  BY <1>2, <1>13, MoveTurn DEF DeletePushTokens, Labels
<1>14. CASE DeleteFirebaseUser(r)
  BY <1>2, <1>14, MoveTurn DEF DeleteFirebaseUser, Labels
<1> QED  BY <1>3, <1>4, <1>5, <1>6, <1>7, <1>8, <1>9, <1>10, <1>11, <1>12, <1>13, <1>14
         DEF AccountStep, CreateStep, DeleteStep

\* Only creations store a document, each its own and over nothing.
DocumentStep ==
    \/ doc' = doc
    \/ doc' = Null
    \/ doc = Null /\ \E r \in Requests : doc' = r /\ req[r].pc = "creating"

LEMMA DocumentSteps ==
    ASSUME [Next]_vars
    PROVE  DocumentStep
<1>1. CASE UNCHANGED vars \/ Login \/ Tick
  BY <1>1 DEF DocumentStep, vars, accountVars, Login, Tick
<1>2. ASSUME NEW r \in Requests, KeyRequest(r) \/ KeyStep(r) PROVE DocumentStep
  BY <1>2 DEF DocumentStep, KeyRequest, KeyStep, accountVars
<1>3. ASSUME NEW r \in Requests, AccountStep(r) PROVE DocumentStep
  <2>1. CASE BeginCreate(r) \/ BeginSetUser(r) \/ UpdateDocument(r) \/ BeginDeleteUser(r) \/ Fails(r)
    BY <2>1 DEF BeginCreate, BeginSetUser, UpdateDocument, BeginDeleteUser, Fails, accountVars,
                DocumentStep
  <2>2. CASE CreateDocument(r)
    BY <2>2 DEF CreateDocument, Create, Refused, accountVars, DocumentStep
  <2>3. CASE InitializeKeys(r) \/ InitializeFails(r) \/ RollBack(r)
    BY <2>3 DEF InitializeKeys, InitializeFails, RollBack, accountVars, DocumentStep
  <2>4. CASE DeleteStep(r)
    BY <2>4 DEF DeleteStep, RevokeSessions, DeleteUserDocuments, DeleteEncryptedKeys,
                DeletePushTokens, DeleteFirebaseUser, accountVars, DocumentStep
  <2> QED  BY <1>3, <2>1, <2>2, <2>3, <2>4 DEF AccountStep, CreateStep
<1> QED  BY <1>1, <1>2, <1>3 DEF Next, AccountStep

LEMMA IdentitySteps ==
    ASSUME KeyInv, [Next]_vars
    PROVE  identity' = identity \/ \E r \in Requests : Deleted(r)'
<1>1. CASE UNCHANGED vars \/ Login \/ Tick
  BY <1>1 DEF vars, accountVars, Login, Tick
<1>2. ASSUME NEW r \in Requests, KeyRequest(r) \/ KeyStep(r) PROVE identity' = identity
  BY <1>2 DEF KeyRequest, KeyStep, accountVars
<1>3. ASSUME NEW r \in Requests, AccountStep(r), ~ DeleteFirebaseUser(r) PROVE identity' = identity
  BY <1>3 DEF AccountStep, CreateStep, DeleteStep, BeginCreate, CreateDocument, Create, Refused,
              InitializeKeys, InitializeFails, RollBack, BeginSetUser, UpdateDocument,
              BeginDeleteUser, RevokeSessions, DeleteUserDocuments, DeleteEncryptedKeys,
              DeletePushTokens, Fails, accountVars
<1>4. ASSUME NEW r \in Requests, DeleteFirebaseUser(r) PROVE Deleted(r)'
  <2>1. Fits(req[r], keys, drawn, now) /\ req[r] \in Request /\ req[r].pc = "deletingIdentity"
    BY <1>4 DEF KeyInv, DeleteFirebaseUser, Fits
  <2>2. req[r].op = "remove"
    BY <2>1 DEF Fits, Staged
  <2>3. Goto(r, "ok").pc = "ok" /\ Goto(r, "ok").op = "remove"
    BY <2>1, <2>2, GotoFields DEF Labels
  <2>4. req'[r] = Goto(r, "ok")
    BY <1>4 DEF DeleteFirebaseUser, Move, KeyInv
  <2> QED  BY <2>3, <2>4 DEF Deleted
<1> QED  BY <1>1, <1>2, <1>3, <1>4 DEF Next, AccountStep

LEMMA AccountInit == Init => AccountInv
BY DEF Init, AccountInv, CreationInv, NoRequest

\* A step on the record set is of no creation, and stores only what was pending.
LEMMA KeyTurn ==
    ASSUME KeyInv, NEW r \in Requests, KeyRequest(r) \/ KeyStep(r)
    PROVE  /\ req[r].op # "create" /\ req'[r].op # "create"
           /\ doc' = doc
           /\ keys # Null => keys' # Null
           /\ Ids(keys') \subseteq Ids(keys) \cup Pending(req[r])
<1>1. req[r] \in Request /\ Staged(req[r].op, req[r].pc) /\ IsStored(keys)
  BY DEF KeyInv, Fits, KeysFit
<1>2. doc' = doc
  BY DEF KeyRequest, KeyStep, accountVars
<1>3. CASE KeyRequest(r)
  <2>1. keys' = keys /\ req[r].pc = "idle"
    BY <1>3 DEF KeyRequest, BeginList, BeginAdd, BeginChange, Move
  <2>2. req'[r].op # "create"
    BY <1>3 DEF KeyRequest, BeginList, BeginAdd, BeginChange, Move, NoRequest, KeyInv
  <2> QED  BY <1>1, <1>2, <2>1, <2>2 DEF Staged
<1>4. CASE KeyStep(r)
  <2>1. req[r].pc \in {"reading", "stubbing", "adding", "prechecking", "changing", "verifying"}
    BY <1>4 DEF KeyStep, ReadPage, ReadNothing, WriteStub, AddRecord, Precheck, UpdateRecord,
                VerifyStored, DeleteRecord
  <2>2. req[r].op \notin {"create", "none"}
    BY <1>1, <2>1 DEF Staged
  <2>3. req'[r].op = req[r].op
    BY <1>4, <2>2, KeyStepTurn DEF TurnOf
  <2>4. CASE keys' = keys
    BY <1>2, <2>2, <2>3, <2>4
  <2>5. CASE WriteStub(r)
    BY <1>2, <2>2, <2>3, <2>5, EmptyRecordSet DEF WriteStub
  <2>6. ASSUME AddRecord(r), keys' # keys
        PROVE  keys' # Null /\ Ids(keys') \subseteq Ids(keys) \cup Pending(req[r])
    <3>1. Stamped(r) \in [req[r].ids -> Nat] /\ req[r].ids \in SUBSET RecordIds
      BY <1>1, StampedType
    <3>2. keys' \in {Stamped(r), Written(keys, Stamped(r))} /\ req[r].pc = "adding"
      BY <2>6 DEF AddRecord, Outcomes, Added, Move
    <3>3. Pending(req[r]) = req[r].ids
      BY <3>2 DEF Pending
    <3>4. CASE keys' = Stamped(r)
      BY <3>1, <3>3, <3>4, RecordSet
    <3>5. CASE keys' = Written(keys, Stamped(r))
      BY <1>1, <3>1, <3>3, <3>5, WrittenType
    <3> QED  BY <3>2, <3>4, <3>5
  <2>7. ASSUME UpdateRecord(r), keys' # keys
        PROVE  keys' # Null /\ Ids(keys') \subseteq Ids(keys)
    <3>1. Stamped(r) \in [req[r].ids -> Nat] /\ req[r].ids \in SUBSET RecordIds
      BY <1>1, StampedType
    <3>2. CASE keys = Null
      <4>1. keys' = EmptySet
        BY <2>7, <3>2, EmptyRecordSet DEF UpdateRecord, Outcomes, Updated, Move
      <4> QED  BY <4>1, EmptyRecordSet
    <3>3. CASE keys # Null
      <4>1. keys' = Written(keys, Stamped(r)) /\ req[r].ids \subseteq Ids(keys)
        BY <2>7, <3>3, EmptyRecordSet DEF UpdateRecord, Outcomes, Updated, Move
      <4> QED  BY <1>1, <3>1, <4>1, WrittenType
    <3> QED  BY <3>2, <3>3
  <2>8. ASSUME DeleteRecord(r), keys' # keys
        PROVE  keys' # Null /\ Ids(keys') \subseteq Ids(keys)
    <3>1. CASE keys = Null
      <4>1. keys' = EmptySet
        BY <2>8, <3>1, EmptyRecordSet DEF DeleteRecord, Outcomes, Removed, Move
      <4> QED  BY <4>1, EmptyRecordSet
    <3>2. CASE keys # Null
      <4> DEFINE ids == Ids(keys) \ req[r].ids
                 rest == [id \in ids |-> keys[id]]
      <4>1. keys' = rest
        BY <2>8, <3>2, EmptyRecordSet DEF DeleteRecord, Outcomes, Removed, Move
      <4>2. ids \in SUBSET RecordIds /\ rest \in [ids -> Nat]
        BY <1>1, IdsType
      <4> HIDE DEF rest
      <4> QED  BY <4>1, <4>2, RecordSet
    <3> QED  BY <3>1, <3>2
  <2> QED  BY <1>2, <1>4, <2>2, <2>3, <2>4, <2>5, <2>6, <2>7, <2>8
           DEF KeyStep, ReadPage, ReadNothing, Precheck, VerifyStored, Move
<1> QED  BY <1>3, <1>4

\* A step after which there is a deletion, or was one before.
LEMMA RemovalTurn ==
    ASSUME KeyInv, NEW r \in Requests, BeginDeleteUser(r) \/ DeleteStep(r)
    PROVE  req'[r].op = "remove"
<1>1. CASE BeginDeleteUser(r)
  BY <1>1 DEF BeginDeleteUser, Move, NoRequest, KeyInv
<1>2. CASE DeleteStep(r)
  <2>1. req[r].pc \in {"revoking", "deletingUser", "deletingKeys", "deletingPush", "deletingIdentity"}
    BY <1>2 DEF DeleteStep, RevokeSessions, DeleteUserDocuments, DeleteEncryptedKeys,
                DeletePushTokens, DeleteFirebaseUser
  <2>2. req[r].op = "remove"
    BY <2>1 DEF KeyInv, Fits, Staged
  <2> QED  BY <1>2, <2>2, AccountStepTurn DEF AccountStep, TurnOf
<1> QED  BY <1>1, <1>2

\* The other steps around the account that store nothing.
LEMMA QuietTurn ==
    ASSUME KeyInv, NEW r \in Requests,
           \/ BeginCreate(r) \/ BeginSetUser(r) \/ UpdateDocument(r) \/ Fails(r)
           \/ req[r].pc = "creating" /\ Refused(r)
    PROVE  /\ UNCHANGED <<keys, doc>>
           /\ req'[r].op = "create" =>
                req'[r].pc \notin {"initializing", "rollingBack", "ok"} /\ req'[r].ids \subseteq req[r].ids
<1>1. req[r] \in Request /\ Staged(req[r].op, req[r].pc)
  BY DEF KeyInv, Fits
<1>2. CASE BeginCreate(r)
  BY <1>2 DEF BeginCreate, Move, NoRequest, KeyInv, accountVars
<1>3. CASE BeginSetUser(r)
  BY <1>3 DEF BeginSetUser, Move, NoRequest, KeyInv, accountVars
<1>4. CASE UpdateDocument(r)
  <2>1. req[r].op = "setUser"
    BY <1>1, <1>4 DEF UpdateDocument, Staged
  <2>2. req'[r].op = "setUser"
    BY <1>4, <2>1, AccountStepTurn DEF AccountStep, TurnOf
  <2> QED  BY <1>4, <2>2 DEF UpdateDocument, Move, accountVars
<1>5. CASE Fails(r) \/ Refused(r)
  <2>1. PICK pc \in {"failed", "conflict"} : Move(r, Goto(r, pc))
    BY <1>5 DEF Fails, Refused
  <2>2. req'[r] = Goto(r, pc)
    BY <2>1 DEF Move, KeyInv
  <2>3. Goto(r, pc).pc = pc /\ Goto(r, pc).ids = req[r].ids
    BY <1>1, GotoFields DEF Labels
  <2> QED  BY <1>5, <2>2, <2>3 DEF Fails, Refused, Move, accountVars
<1> QED  BY <1>2, <1>3, <1>4, <1>5

LEMMA CreationNext ==
    ASSUME KeyInv, CreationInv, [Next]_vars
    PROVE  CreationInv'
<1> DEFINE Past == {"initializing", "rollingBack", "ok"}
<1> SUFFICES ASSUME \A q \in Requests : req'[q].op # "remove",
                    NEW c \in Requests, req'[c].op = "create"
             PROVE  /\ req'[c].pc \in Past => doc' = c
                    /\ req'[c].pc = "ok" =>
                         /\ keys' # Null
                         /\ \A q \in Requests \ {c} :
                              req'[q].op = "create" => req'[q].ids \cap Ids(keys') = {}
  BY DEF CreationInv
<1>1. CASE UNCHANGED vars \/ Login \/ Tick
  <2>1. UNCHANGED <<req, keys, doc>>
    BY <1>1 DEF vars, keyVars, accountVars, Login, Tick
  <2> QED  BY <2>1 DEF CreationInv
<1>2. ASSUME NEW r \in Requests, KeyRequest(r) \/ KeyStep(r) \/ AccountStep(r)
      PROVE  /\ req'[c].pc \in Past => doc' = c
             /\ req'[c].pc = "ok" =>
                  /\ keys' # Null
                  /\ \A q \in Requests \ {c} :
                       req'[q].op = "create" => req'[q].ids \cap Ids(keys') = {}
  <2>1. TurnOf(r)
    BY <1>2, KeyRequestTurn, KeyStepTurn, AccountStepTurn
  <2>2. \A q \in Requests : req[q].op # "remove"
    BY <2>1 DEF TurnOf
  <2>3. \A q \in Requests : req[q].op = "create" =>
          /\ req[q].pc \in Past => doc = q
          /\ req[q].pc = "ok" =>
               /\ keys # Null
               /\ \A p \in Requests \ {q} : req[p].op = "create" => req[p].ids \cap Ids(keys) = {}
    BY <2>2 DEF CreationInv
  <2>4. \A q \in Requests : q # r =>
          req'[q].pc = req[q].pc /\ req'[q].op = req[q].op /\ req'[q].ids = req[q].ids
    BY <2>1 DEF TurnOf
  <2>5. \A q \in Requests : q # r => Pending(req[r]) \cap req[q].ids = {}
    BY DEF KeyInv, Apart
  <2>6. CASE KeyRequest(r) \/ KeyStep(r)
    <3>1. /\ req[r].op # "create" /\ req'[r].op # "create" /\ doc' = doc
          /\ keys # Null => keys' # Null
          /\ Ids(keys') \subseteq Ids(keys) \cup Pending(req[r])
      BY <2>6, KeyTurn
    <3>2. \A q \in Requests : req'[q].op = "create" => q # r
      BY <3>1
    <3> QED  BY <2>3, <2>4, <2>5, <3>1, <3>2
  <2>7. CASE \/ BeginCreate(r) \/ BeginSetUser(r) \/ UpdateDocument(r) \/ Fails(r)
             \/ req[r].pc = "creating" /\ Refused(r)
    <3>1. /\ UNCHANGED <<keys, doc>>
          /\ req'[r].op = "create" => req'[r].pc \notin Past /\ req'[r].ids \subseteq req[r].ids
      BY <2>7, QuietTurn
    <3>2. req'[r].op = "create" => req[r].op = "create" \/ req'[r].ids = {}
      <4>1. req[r].op = "none" => req[r].pc = "idle"
        BY DEF KeyInv, Fits, Staged
      <4>2. CASE BeginCreate(r)
        BY <4>2 DEF BeginCreate, Move, NoRequest, KeyInv
      <4>3. CASE BeginSetUser(r)
        BY <4>3 DEF BeginSetUser, Move, NoRequest, KeyInv
      <4>4. CASE UpdateDocument(r) \/ Fails(r) \/ (req[r].pc = "creating" /\ Refused(r))
        <5>1. req[r].pc # "idle"
          BY <4>4 DEF UpdateDocument, Fails, Answered
        <5> QED  BY <2>1, <4>1, <5>1 DEF TurnOf
      <4> QED  BY <2>7, <4>2, <4>3, <4>4
    <3> QED  BY <2>3, <2>4, <3>1, <3>2
  <2>8. CASE BeginDeleteUser(r) \/ DeleteStep(r)
    BY <2>8, RemovalTurn
  <2>9. ASSUME NEW n \in 0 .. MaxKeys, req[r].pc = "creating", doc = Null, Create(r, n)
        PROVE  /\ req'[c].pc \in Past => doc' = c
               /\ req'[c].pc # "ok"
    <3>1. \A q \in Requests : req[q].op = "create" => req[q].pc \notin Past
      BY <2>3, <2>9, UserAccountAssumption
    <3>2. doc' = r /\ req'[r].pc = "initializing"
      <4> DEFINE g == Goto(r, "initializing")
      <4>1. g \in Request /\ g.pc = "initializing"
        BY GotoFields DEF KeyInv, Labels
      <4>2. req'[r] = [g EXCEPT !.ids = drawn + 1 .. drawn + n, !.at = now] /\ doc' = r
        BY <2>9 DEF Create, Move, KeyInv
      <4> HIDE DEF g
      <4> QED  BY <4>1, <4>2 DEF Request
    <3> QED  BY <2>4, <3>1, <3>2
  <2>10. CASE InitializeKeys(r) \/ InitializeFails(r) \/ RollBack(r)
    <3>1. req[r].pc \in {"initializing", "rollingBack"} /\ req[r].op = "create" /\ req[r] \in Request
      BY <2>10 DEF InitializeKeys, InitializeFails, RollBack, KeyInv, Fits, Staged
    <3>2. doc = r /\ \A q \in Requests : q # r /\ req[q].op = "create" => req[q].pc \notin Past
      BY <2>3, <3>1
    <3>3. CASE c # r
      BY <2>4, <3>2, <3>3
    <3>4. CASE c = r /\ RollBack(r)
      <4>1. req'[r].pc = "failed"
        BY <3>1, <3>4, GotoFields DEF RollBack, Move, KeyInv, Labels
      <4> QED  BY <3>4, <4>1
    <3>5. CASE c = r /\ InitializeFails(r)
      <4>1. req'[r].pc = "rollingBack"
        BY <3>1, <3>5, GotoFields, PutTurn DEF InitializeFails, Labels
      <4> QED  BY <3>2, <3>5, <4>1 DEF InitializeFails, accountVars
    <3>6. CASE c = r /\ InitializeKeys(r)
      <4>1. Stamped(r) \in [req[r].ids -> Nat] /\ req[r].ids \in SUBSET RecordIds
        BY <3>1, StampedType
      <4>2. keys' # Null /\ Ids(keys') = req[r].ids /\ doc' = doc
        BY <3>6, <4>1, RecordSet DEF InitializeKeys, accountVars
      <4>3. Pending(req[r]) = req[r].ids
        BY <3>6 DEF InitializeKeys, Pending
      <4> QED  BY <2>4, <2>5, <3>2, <3>6, <4>2, <4>3
    <3> QED  BY <2>10, <3>3, <3>4, <3>5, <3>6
  <2> QED  BY <1>2, <2>6, <2>7, <2>8, <2>9, <2>10 DEF AccountStep, CreateStep, CreateDocument
<1> QED  BY <1>1, <1>2 DEF Next, AccountStep

LEMMA AccountNext == KeyInv /\ AccountInv /\ [Next]_vars => AccountInv'
<1> SUFFICES ASSUME KeyInv, AccountInv, [Next]_vars PROVE AccountInv'
  OBVIOUS
<1>1. UNCHANGED req \/ \E r \in Requests : TurnOf(r)
  <2>1. CASE UNCHANGED vars \/ Login \/ Tick
    BY <2>1 DEF vars, keyVars, Login, Tick
  <2>2. ASSUME NEW r \in Requests, KeyRequest(r) \/ KeyStep(r) \/ AccountStep(r) PROVE TurnOf(r)
    BY <2>2, KeyRequestTurn, KeyStepTurn, AccountStepTurn
  <2> QED  BY <2>1, <2>2 DEF Next, AccountStep
<1>2. CreationInv'
  BY CreationNext DEF AccountInv
<1>3. ASSUME ~identity' PROVE \E q \in Requests : Deleted(q)'
  <2>1. CASE identity
    BY <1>3, <2>1, IdentitySteps
  <2>2. CASE ~identity
    BY <1>1, <2>2 DEF AccountInv, TurnOf, Deleted
  <2> QED  BY <2>1, <2>2
<1> QED  BY <1>2, <1>3 DEF AccountInv

Inv == KeyInv /\ AccountInv

LEMMA InvHolds == Spec => []Inv
<1>1. Init => Inv
  BY KeysInit, AccountInit DEF Inv
<1>2. Inv /\ [Next]_vars => Inv'
  BY KeysNext, AccountNext DEF Inv
<1> QED  BY <1>1, <1>2, PTL DEF Spec

-----------------------------------------------------------------------------
(* Theorems *)

\* The state keeps its types: the stored set is one of records by their ids,
\* and every request has a form that the code gives it.
THEOREM TypeCorrect == Spec => []TypeOK
<1>1. Inv => TypeOK
  BY DEF Inv, KeyInv, KeysFit, IsStored, TypeOK
<1> QED  BY <1>1, InvHolds, PTL

\* However adds, updates, deletions, creations and stubs interleave, an account
\* has no more records than its quota.
THEOREM QuotaHolds == Spec => []QuotaKept
<1>1. Inv => QuotaKept
  BY DEF Inv, KeyInv, KeysFit, QuotaKept
<1> QED  BY <1>1, InvHolds, PTL

\* An update that is answered with success wrote its record.
THEOREM UpdatesLand == Spec => []UpdateLanded
<1>1. Inv => UpdateLanded
  BY DEF Inv, KeyInv, Fits, WriterFits, UpdateLanded
<1> QED  BY <1>1, InvHolds, PTL

\* An update or a deletion that is answered with "not found" was overtaken, or
\* its record was not there when it began.
THEOREM NotFoundHolds == Spec => []NotFoundIsTrue
<1>1. Inv => NotFoundIsTrue
  BY DEF Inv, KeyInv, Fits, WriterFits, NotFoundIsTrue
<1> QED  BY <1>1, InvHolds, PTL

\* No write that was in flight when a record was deleted brings it back.
THEOREM DeletionsLast == Spec => []DeletedStaysDeleted
<1>1. Inv => DeletedStaysDeleted
  BY DEF Inv, KeyInv, Fits, WriterFits, DeletedStaysDeleted
<1> QED  BY <1>1, InvHolds, PTL

\* A listing of all pages, of any size, gives every record that nobody touched
\* while it went on.
THEOREM ListingsComplete == Spec => []NothingMissed
<1>1. Inv => NothingMissed
  BY DEF Inv, KeyInv, Fits, ListFits, NothingMissed
<1> QED  BY <1>1, InvHolds, PTL

\* Until a deletion is asked for, a creation that succeeded keeps its document and
\* a record set without anything of a creation that failed.
THEOREM CreationsAreWhole == Spec => []CreationWhole
<1>1. Inv => CreationWhole
  BY DEF Inv, AccountInv, CreationInv, CreationWhole
<1> QED  BY <1>1, InvHolds, PTL

\* The identity outlives every record that was stored when its deletion began.
THEOREM IdentityGoesLast == Spec => []IdentityLast
<1>1. Inv => IdentityLast
  BY DEF Inv, KeyInv, Fits, WriterFits, AccountInv, Deleted, IdentityLast
<1> QED  BY <1>1, InvHolds, PTL

\* A document is stored by the creation it belongs to, where there is none, and
\* by nothing else.
THEOREM DocumentsLive == Spec => DocumentLife
<1>1. [Next]_vars =>
        [doc' # doc => \/ doc' = Null
                       \/ doc = Null /\ \E r \in Requests : doc' = r /\ req[r].pc = "creating"]_vars
  BY DocumentSteps DEF DocumentStep
<1> QED  BY <1>1, PTL DEF Spec, DocumentLife
=============================================================================
