------------------------------ MODULE UserKeys ------------------------------
(***************************************************************************)
(* The encrypted key records of one account, kept in the Realtime Database *)
(* as one record set: reading and listing it page by page, adding,         *)
(* updating and deleting a record, and the writes of the whole set that    *)
(* creating and deleting an account make.  Every database call is one      *)
(* action; UserAccount adds the account and gives the next-state relation. *)
(***************************************************************************)
EXTENDS Integers, FiniteSets

CONSTANTS
    Requests,
    MaxKeys,     \* env.userMaxKeyRecords
    Limits,      \* page limits clients ask for
    Null,        \* nothing stored at the path
    Abort,       \* a transaction callback returned undefined
    MaxRecords,  \* bound on the record ids drawn, for TLC only
    MaxTime      \* bound on the clock, for TLC only

ASSUME UserKeysAssumption ==
    /\ MaxKeys \in Nat \ {0} /\ MaxRecords \in Nat /\ MaxTime \in Nat
    /\ Limits \subseteq Nat \ {0}
    /\ Null # Abort

VARIABLES
    keys,   \* Null, or the stored set: record id -> updatedAt
    drawn,  \* ids push() has given out: 1 .. drawn, in their order
    req,    \* the requests being executed
    now

keyVars == <<keys, drawn, req, now>>

-----------------------------------------------------------------------------
(* The record set *)

RecordIds == 1 .. MaxRecords

\* A record written before updatedAt existed sorts as 0.
Legacy == 0

\* Neither stands for a record set.
ASSUME NotARecordSet == \A ids \in SUBSET RecordIds : {Null, Abort} \cap [ids -> Nat] = {}

EmptySet == [id \in {} |-> Legacy]

Ids(set) == IF set = Null THEN {} ELSE DOMAIN set

\* The set with these records written.
Written(set, records) ==
    [id \in Ids(set) \cup DOMAIN records |->
        IF id \in DOMAIN records THEN records[id] ELSE set[id]]

Before(a, b) == a.time < b.time \/ (a.time = b.time /\ a.id < b.id)
Entries(set, since) ==
    {[time |-> set[id], id |-> id] : id \in {i \in Ids(set) : set[i] = Legacy \/ set[i] >= since}}

\* Mutant: records of the cursor's own time are taken as delivered.
AfterCursor_ByTime(entries, cursor) ==
    LET rest == {e \in entries : cursor # Null /\ cursor.time < e.time}
    IN IF rest = {} THEN entries ELSE rest

\* The entries from the first one after the cursor on.  Where there is none
\* the listing starts with the first entry of all.
AfterCursor(entries, cursor) ==
    LET rest == {e \in entries : cursor # Null /\ Before(cursor, e)}
    IN IF rest = {} THEN entries ELSE rest

FirstOf(entries, limit) ==
    {e \in entries : Cardinality({d \in entries : Before(d, e)}) < limit}

Latest(entries) == CHOOSE e \in entries : \A d \in entries : d = e \/ Before(d, e)

Cursors == [time: Nat, id: RecordIds] \cup {Null}

-----------------------------------------------------------------------------
(* Requests *)

Labels == {"idle", "reading", "stubbing", "adding", "prechecking", "changing", "verifying",
           "creating", "initializing", "rollingBack", "updatingUser",
           "revoking", "deletingUser", "deletingKeys", "deletingPush", "deletingIdentity",
           "ok", "notFound", "quota", "conflict", "failed"}

Request ==
    [pc: Labels, op: {"none", "list", "add", "update", "delete", "create", "setUser", "remove"},
     ids: SUBSET RecordIds,  \* the records it adds or addresses
     at: Nat,                \* the clock it read
     limit: Limits \cup {0}, since: Nat, cursor: Cursors,
     got: SUBSET RecordIds,  \* history: the ids delivered to the client
     kept: SUBSET RecordIds, \* history: see Put
     wrote: BOOLEAN]         \* history: its transaction wrote the record

NoRequest ==
    [pc |-> "idle", op |-> "none", ids |-> {}, at |-> 0, limit |-> 0, since |-> 0,
     cursor |-> Null, got |-> {}, kept |-> {}, wrote |-> FALSE]

Goto(r, pc) == [req[r] EXCEPT !.pc = pc]

\* Steps that change the set, keys' given: kept loses, for a listing, the
\* records that changed in any way, and for other requests those removed.
Lost == Ids(keys) \ Ids(keys')
Changed == Lost \cup {id \in Ids(keys) \cap Ids(keys') : keys[id] # keys'[id]}
Put(r, next) ==
    req' = [q \in Requests |->
        LET s == IF q = r THEN next ELSE req[q]
        IN [s EXCEPT !.kept = s.kept \ (IF s.op = "list" THEN Changed ELSE Lost)]]

Move(r, next) ==
    /\ req' = [req EXCEPT ![r] = next]
    /\ UNCHANGED keys

\* ref.transaction: the callback, which makes result of the stored set, may first
\* be handed a stale null.  What it then returns is thrown away and the callback
\* run again, unless it aborts.
Outcomes(result, ofNull) ==
    {result} \cup (IF ofNull = Abort THEN {Abort} ELSE {})

-----------------------------------------------------------------------------
(* Reading and listing *)

\* A client lists all pages; kept starts as the records it should get.
BeginList(r, limit, since) ==
    /\ req[r].pc = "idle"
    /\ Move(r, [NoRequest EXCEPT !.pc = "reading", !.op = "list", !.limit = limit, !.since = since,
                         !.kept = {e.id : e \in Entries(keys, since)}])
    /\ UNCHANGED <<drawn, now>>

\* readUserEncryptedKeyRecordSet: one page.  The client asks again with the
\* cursor while it is given one.
ReadPage(r) ==
    /\ req[r].pc = "reading"
    /\ keys # Null
    /\ LET rest == AfterCursor(Entries(keys, req[r].since), req[r].cursor)
           page == FirstOf(rest, req[r].limit)
           next == [req[r] EXCEPT !.got = req[r].got \cup {e.id : e \in page}]
       IN Move(r, IF page = rest THEN [next EXCEPT !.pc = "ok", !.cursor = Null]
                  ELSE [next EXCEPT !.cursor = Latest(page)])
    /\ UNCHANGED <<drawn, now>>

\* Nothing stored: the reader goes on to store an empty set ...
ReadNothing(r) ==
    /\ req[r].pc = "reading"
    /\ keys = Null
    /\ Move(r, Goto(r, "stubbing"))
    /\ UNCHANGED <<drawn, now>>

\* ... with a plain set(), whatever is stored by then.
WriteStub(r) ==
    /\ req[r].pc = "stubbing"
    /\ keys' = EmptySet
    /\ Put(r, [Goto(r, "ok") EXCEPT !.cursor = Null])
    /\ UNCHANGED <<drawn, now>>

-----------------------------------------------------------------------------
(* Adding, updating and deleting one record *)

\* push() and Date.now() come before the transaction.
BeginAdd(r) ==
    /\ req[r].pc = "idle"
    /\ drawn < MaxRecords
    /\ drawn' = drawn + 1
    /\ Move(r, [NoRequest EXCEPT !.pc = "adding", !.op = "add", !.ids = {drawn + 1}, !.at = now])
    /\ UNCHANGED now

\* Mutant: updatedAt is left out.
Stamped_NoTime(r) == [id \in req[r].ids |-> Null]

Stamped(r) == [id \in req[r].ids |-> req[r].at]

\* Mutant: one record too many.
Added_OffByOne(r, current) ==
    IF current = Null THEN Stamped(r)
    ELSE IF Cardinality(Ids(current)) > MaxKeys THEN Abort
    ELSE Written(current, Stamped(r))

Added(r, current) ==
    IF current = Null THEN Stamped(r)
    ELSE IF Cardinality(Ids(current)) >= MaxKeys THEN Abort
    ELSE Written(current, Stamped(r))

AddRecord(r) ==
    /\ req[r].pc = "adding"
    /\ \E result \in Outcomes(Added(r, keys), Added(r, Null)) :
         \/ result = Abort /\ Move(r, Goto(r, "quota"))
         \/ result # Abort /\ keys' = result /\ Put(r, Goto(r, "ok"))
    /\ UNCHANGED <<drawn, now>>

\* Ids a client can know: of what is stored, or has been answered.
KnownIds ==
    Ids(keys) \cup UNION {req[q].ids : q \in {p \in Requests : req[p].pc = "ok"}}

\* Both updates and deletions check first that there is a record set at all.
BeginChange(r, op, id) ==
    /\ req[r].pc = "idle"
    /\ Move(r, [NoRequest EXCEPT !.pc = "prechecking", !.op = op, !.ids = {id},
                         !.kept = {id} \cap Ids(keys)])
    /\ UNCHANGED <<drawn, now>>

Precheck(r) ==
    /\ req[r].pc = "prechecking"
    /\ Move(r, IF keys = Null THEN Goto(r, "notFound")
               ELSE [Goto(r, "changing") EXCEPT !.at = now])
    /\ UNCHANGED <<drawn, now>>

\* Mutant: a stale null is taken for a missing record.
Updated_NullAborts(r, current) ==
    IF req[r].ids \subseteq Ids(current) THEN Written(current, Stamped(r)) ELSE Abort

\* Mutant: no look for the record in the transaction.
Updated_Upserts(r, current) ==
    IF current = Null THEN EmptySet ELSE Written(current, Stamped(r))

Updated(r, current) ==
    IF current = Null THEN EmptySet
    ELSE IF req[r].ids \subseteq Ids(current) THEN Written(current, Stamped(r))
    ELSE Abort

UpdateRecord(r) ==
    /\ req[r].pc = "changing" /\ req[r].op = "update"
    /\ \E result \in Outcomes(Updated(r, keys), Updated(r, Null)) :
         \/ result = Abort /\ Move(r, Goto(r, "notFound"))
         \/ /\ result # Abort
            /\ keys' = result
            /\ Put(r, [Goto(r, "verifying") EXCEPT !.wrote = req[r].ids \subseteq Ids(result)])
    /\ UNCHANGED <<drawn, now>>

\* Mutant: no second look.
VerifyStored_Skipped(r) ==
    /\ req[r].pc = "verifying"
    /\ Move(r, Goto(r, "ok"))
    /\ UNCHANGED <<drawn, now>>

\* The placeholder may have been committed over nothing: look again.
VerifyStored(r) ==
    /\ req[r].pc = "verifying"
    /\ Move(r, Goto(r, IF req[r].ids \subseteq Ids(keys) THEN "ok" ELSE "notFound"))
    /\ UNCHANGED <<drawn, now>>

Removed(r, current) ==
    IF current = Null THEN EmptySet
    ELSE IF req[r].ids \subseteq Ids(current)
         THEN [id \in Ids(current) \ req[r].ids |-> current[id]]
    ELSE Abort

DeleteRecord(r) ==
    /\ req[r].pc = "changing" /\ req[r].op = "delete"
    /\ \E result \in Outcomes(Removed(r, keys), Removed(r, Null)) :
         \/ result = Abort /\ Move(r, Goto(r, "notFound"))
         \/ result # Abort /\ keys' = result /\ Put(r, Goto(r, "ok"))
    /\ UNCHANGED <<drawn, now>>

-----------------------------------------------------------------------------
(* Properties *)

TypeOK ==
    /\ keys = Null \/ \E ids \in SUBSET RecordIds : keys \in [ids -> Nat]
    /\ drawn \in 0 .. MaxRecords
    /\ req \in [Requests -> Request]
    /\ now \in Nat

\* Concurrent adds never take an account past its quota (comment before
\* addUserEncryptedKeyRecord), nor do adds that race with a creation.
QuotaKept == Cardinality(Ids(keys)) <= MaxKeys

\* An update never reports success for a write that did not land (comment in
\* updateUserEncryptedKeyRecord), whatever is deleted or stubbed meanwhile.
UpdateLanded ==
    \A r \in Requests : req[r].op = "update" /\ req[r].pc = "ok" => req[r].wrote

\* A record that is there from the beginning of its update or deletion to the
\* end is found: a stale null in the transaction is not taken for "missing".
NotFoundIsTrue ==
    \A r \in Requests :
        req[r].op \in {"update", "delete"} /\ req[r].pc = "notFound" => req[r].kept = {}

\* Once a deletion has succeeded no update in flight brings its record back.
DeletedStaysDeleted ==
    \A r \in Requests :
        req[r].op = "delete" /\ req[r].pc = "ok" => req[r].ids \cap Ids(keys) = {}

\* A listing of all pages delivers every record that nobody touched while it
\* went on, though others were added, updated or deleted between the pages,
\* the record of the cursor among them.
NothingMissed ==
    \A r \in Requests : req[r].op = "list" /\ req[r].pc = "ok" => req[r].kept \subseteq req[r].got

-----------------------------------------------------------------------------
(* What the code does not have, for TLC to show how: see the README *)

\* A read loses no record: it initialises missing key storage only
\* (userKeyRepository.test.ts, "initializes missing user key storage").
ReadsLoseNothing ==
    [][\A r \in Requests : req[r].pc = "stubbing" /\ req'[r].pc = "ok" => Lost = {}]_keyVars
=============================================================================
