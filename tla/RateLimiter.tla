----------------------------- MODULE RateLimiter -----------------------------
(***************************************************************************)
(* The rate limiters of the routes, and their counters: in Redis, shared   *)
(* by the processes, or in the memory of a process, either because it is   *)
(* configured so or as the fallback of a limiter that fails open.  The     *)
(* limiters of a route that make the same key share its counter, under     *)
(* which a request is then counted once by each of them.  The client of     *)
(* Redis sends a command again whose answer it has lost with the           *)
(* connection, and Redis may then run the command more than once.          *)
(***************************************************************************)
EXTENDS Integers, FiniteSets, Sequences

CONSTANTS
    Keys, Procs, Requests,
    Route,             \* of a key: the limiters of its route in their order
    Max,               \* of a key: maxRequests of these limiters
    Critical,          \* the limiters that are critical
    Refunding,         \* and those with skipSuccessfulRequests or skipResponse
    Window,            \* windowMs
    CleanupInterval,   \* CLEANUP_INTERVAL_MS
    MaxKeys,           \* maxKeys of a memory store
    MaxTime,           \* bound: the clock
    MaxFaults,         \* bound: failures of Redis and of its connection, and restarts
    Null

ASSUME RateLimiterAssumption ==
    /\ Max \in [Keys -> Nat]
    /\ \A k \in Keys : Len(Route[k]) \in Nat \ {0}
    /\ Window \in Nat \ {0} /\ CleanupInterval \in Nat
    /\ MaxKeys \in Nat \ {0} /\ MaxTime \in Nat /\ MaxFaults \in Nat

VARIABLES
    kind,         \* the configured store: "redis" or "memory"
    failClosed,   \* RATE_LIMIT_FAIL_CLOSED
    redis,        \* the counters in Redis
    mem,          \* of each process: the counters of its memory store
    lastCleanup,  \* of each process
    now,
    faults,
    req

config == <<kind, failClosed>>
counters == <<redis, mem, lastCleanup>>
vars == <<config, counters, now, faults, req>>

-----------------------------------------------------------------------------
(* Counters *)

\* Of a key without expiry in Redis.
Never == MaxTime + Window + 1

\* A counter is the program's count and reset time and, as history, the requests
\* it let through and has not been refunded, each with the limiter that did, and
\* how often it was refunded what it does not hold: what an earlier window of its
\* key let through, or what it was refunded before.
Passage == Requests \X Nat
Counter == [count: Nat, reset: Nat, kept: SUBSET Passage, excess: Nat]

\* Null stands for no counter.
ASSUME NullIsNoCounter == Null \notin Counter

\* Mutant: only a new key gets an expiry.
Incremented_NotHealed(c) ==
    IF c = Null THEN [count |-> 1, reset |-> now + Window, kept |-> {}, excess |-> 0]
    ELSE [c EXCEPT !.count = c.count + 1]

\* INCREMENT_SCRIPT
Incremented(c) ==
    IF c = Null THEN [count |-> 1, reset |-> now + Window, kept |-> {}, excess |-> 0]
    ELSE [c EXCEPT !.count = c.count + 1,
                   !.reset = IF c.count = 0 \/ c.reset = Never THEN now + Window ELSE c.reset]

\* What a refund means for the history.
Refunded(c, x) ==
    IF x \in c.kept THEN [c EXCEPT !.kept = c.kept \ {x}] ELSE [c EXCEPT !.excess = c.excess + 1]

\* DECREMENT_SCRIPT, for the passage x
Decremented(c, x) ==
    IF c = Null THEN [count |-> 0, reset |-> now + Window, kept |-> {}, excess |-> 1]
    ELSE IF c.count = 0 THEN [Refunded(c, x) EXCEPT !.reset = now + Window]
    ELSE [Refunded(c, x) EXCEPT !.count = c.count - 1]

-----------------------------------------------------------------------------
(* MemoryRateLimitStore *)

Empty == [k \in Keys |-> Null]
Stored(m) == {k \in Keys : m[k] # Null}
Expired(m) == {k \in Stored(m) : m[k].reset <= now}
Without(m, ks) == [k \in Keys |-> IF k \in ks THEN Null ELSE m[k]]
Soonest(m) == {k \in Stored(m) : \A j \in Stored(m) : m[k].reset <= m[j].reset}

CleanupDue(p) == now >= lastCleanup[p] + CleanupInterval
Cleaned(p) == IF CleanupDue(p) THEN Without(mem[p], Expired(mem[p])) ELSE mem[p]

\* Mutant: expired entries do not go before the others.
AfterEviction_LiveFirst(m) ==
    IF Cardinality(Stored(m)) < MaxKeys THEN {m} ELSE {Without(m, {k}) : k \in Stored(m)}

\* What evictIfFull may leave: of the entries that expire soonest the first one
\* of the map goes.
AfterEviction(m) ==
    LET live == Without(m, Expired(m))
    IN IF Cardinality(Stored(m)) < MaxKeys THEN {m}
       ELSE IF Cardinality(Stored(live)) < MaxKeys THEN {live}
       ELSE {Without(live, {k}) : k \in Soonest(live)}

\* Room for k, after maybeCleanup.
Room(p, k) == IF Cleaned(p)[k] = Null THEN AfterEviction(Cleaned(p)) ELSE {Cleaned(p)}

LocalIncremented(c) ==
    IF c # Null /\ c.reset > now THEN [c EXCEPT !.count = c.count + 1]
    ELSE [count |-> 1, reset |-> now + Window, kept |-> {}, excess |-> 0]

\* Mutant: a refund does not stop at zero.
LocalDecremented_BelowZero(c, x) ==
    IF c = Null THEN c ELSE [Refunded(c, x) EXCEPT !.count = c.count - 1]

LocalDecremented(c, x) ==
    IF c = Null \/ c.count = 0 THEN c ELSE [Refunded(c, x) EXCEPT !.count = c.count - 1]

-----------------------------------------------------------------------------
(* Requests *)

Request ==
    [pc: {"idle", "counting", "erring", "handling", "refunding", "ended"},
     proc: Procs \cup {Null}, key: Keys \cup {Null},
     stage: Nat,      \* the limiter of its route it is at
     refunds: SUBSET (Nat \X {"redis", "memory"})]   \* the passages to refund, and where

NoRequest == [pc |-> "idle", proc |-> Null, key |-> Null, stage |-> 1, refunds |-> {}]
Ended == [NoRequest EXCEPT !.pc = "ended"]

TypeOK ==
    /\ kind \in {"redis", "memory"} /\ failClosed \in BOOLEAN
    /\ redis \in [Keys -> Counter \cup {Null}]
    /\ mem \in [Procs -> [Keys -> Counter \cup {Null}]]
    /\ lastCleanup \in [Procs -> Nat]
    /\ now \in Nat /\ faults \in Nat
    /\ req \in [Requests -> Request]

\* A key of Redis may have been left without an expiry.  Only Redis fails.
Init ==
    /\ kind \in {"redis", "memory"} /\ failClosed \in BOOLEAN
    /\ kind = "memory" => ~failClosed
    /\ \E orphans \in SUBSET Keys :
         /\ Cardinality(orphans) <= IF kind = "redis" THEN 1 ELSE 0
         /\ redis = [k \in Keys |-> IF k \in orphans
                      THEN [count |-> 1, reset |-> Never, kept |-> {}, excess |-> 0] ELSE Null]
         /\ faults = IF orphans = {} THEN 0 ELSE 1
    /\ mem = [p \in Procs |-> Empty]
    /\ lastCleanup = [p \in Procs |-> 0]
    /\ now = 0
    /\ req = [r \in Requests |-> NoRequest]

Fault == faults < MaxFaults /\ faults' = faults + 1

Become(r, next) == req' = [req EXCEPT ![r] = next]
Limiter(s) == Route[s.key][s.stage]
Closed(s) == Limiter(s) \in Critical /\ failClosed

Arrive(r, p, k) ==
    /\ req[r].pc = "idle"
    /\ Become(r, [NoRequest EXCEPT !.pc = "counting", !.proc = p, !.key = k])
    /\ UNCHANGED <<config, counters, now, faults>>

\* Mutant: a limiter lets through one request too many.
Passes_OneMore(s, c) == c.count <= Max[s.key] + 1

\* The limiter lets the request s through, counted by c.
Passes(s, c) == c.count <= Max[s.key]

\* c with the passage of r in the history
Let(r, c) == IF Passes(req[r], c) THEN [c EXCEPT !.kept = c.kept \cup {<<r, req[r].stage>>}] ELSE c

\* r goes on to the next limiter or to its handler, or is refused.
Judged(r, c, store) ==
    LET s == req[r]
        refunds == s.refunds \cup {x \in {<<s.stage, store>>} : Limiter(s) \in Refunding}
    IN IF ~Passes(s, c) THEN Ended
       ELSE IF s.stage < Len(Route[s.key])
       THEN [s EXCEPT !.pc = "counting", !.stage = s.stage + 1, !.refunds = refunds]
       ELSE [s EXCEPT !.pc = "handling", !.refunds = refunds]

CountInRedis(r) ==
    /\ kind = "redis" /\ req[r].pc = "counting"
    /\ LET k == req[r].key  c == Incremented(redis[k])
       IN redis' = [redis EXCEPT ![k] = Let(r, c)] /\ Become(r, Judged(r, c, "redis"))
    /\ UNCHANGED <<config, mem, lastCleanup, now, faults>>

\* Redis has counted r, but the connection is lost before the answer is there:
\* the client has yet to send the command again.
CountUnanswered(r) ==
    /\ kind = "redis" /\ req[r].pc = "counting" /\ Fault
    /\ LET k == req[r].key  IN redis' = [redis EXCEPT ![k] = Incremented(redis[k])]
    /\ UNCHANGED <<config, mem, lastCleanup, now, req>>

\* Redis is not reached, or its answer is lost and the command given up.
RedisFails(r, counted) ==
    /\ kind = "redis" /\ req[r].pc = "counting" /\ Fault
    /\ LET k == req[r].key
       IN redis' = IF counted THEN [redis EXCEPT ![k] = Incremented(redis[k])] ELSE redis
    /\ Become(r, [req[r] EXCEPT !.pc = "erring"])
    /\ UNCHANGED <<config, mem, lastCleanup, now>>

RejectUnavailable(r) ==
    /\ req[r].pc = "erring" /\ Closed(req[r])
    /\ Become(r, Ended)
    /\ UNCHANGED <<config, counters, now, faults>>

\* Mutant: every limiter falls back to the memory of the process.
CountsLocally_AlwaysOpen(s) ==
    \/ s.pc = "erring"
    \/ kind = "memory" /\ s.pc = "counting"

CountsLocally(s) ==
    \/ s.pc = "erring" /\ ~Closed(s)
    \/ kind = "memory" /\ s.pc = "counting"

CountLocally(r) ==
    /\ CountsLocally(req[r])
    /\ LET k == req[r].key  p == req[r].proc
       IN \E m \in Room(p, k) :
            LET c == LocalIncremented(m[k])
            IN /\ mem' = [mem EXCEPT ![p] = [m EXCEPT ![k] = Let(r, c)]]
               /\ lastCleanup' = [lastCleanup EXCEPT ![p] = IF CleanupDue(p) THEN now ELSE lastCleanup[p]]
               /\ Become(r, Judged(r, c, "memory"))
    /\ UNCHANGED <<config, redis, now, faults>>

\* The response is sent, perhaps an error before the next limiter.  What a
\* refunding limiter skips, a success or what skipResponse names, it takes back.
Finish(r, skipped) ==
    /\ \/ req[r].pc = "handling"
       \/ req[r].pc = "counting" /\ req[r].stage > 1 /\ ~skipped
    /\ Become(r, IF skipped /\ req[r].refunds # {} THEN [req[r] EXCEPT !.pc = "refunding"] ELSE Ended)
    /\ UNCHANGED <<config, counters, now, faults>>

AfterRefund(r, x) ==
    LET left == req[r].refunds \ {x}
    IN IF left = {} THEN Ended ELSE [req[r] EXCEPT !.refunds = left]

\* A refund is asked for and forgotten: it may come late, or never.
RefundInRedis(r, stage) ==
    /\ req[r].pc = "refunding" /\ <<stage, "redis">> \in req[r].refunds
    /\ LET k == req[r].key
       IN redis' = [redis EXCEPT ![k] = Decremented(redis[k], <<r, stage>>)]
    /\ Become(r, AfterRefund(r, <<stage, "redis">>))
    /\ UNCHANGED <<config, mem, lastCleanup, now, faults>>

\* A refund is made, its answer lost, and the command has yet to be sent again.
RefundUnanswered(r, stage) ==
    /\ req[r].pc = "refunding" /\ <<stage, "redis">> \in req[r].refunds /\ Fault
    /\ LET k == req[r].key
       IN redis' = [redis EXCEPT ![k] = Decremented(redis[k], <<r, stage>>)]
    /\ UNCHANGED <<config, mem, lastCleanup, now, req>>

RefundLocally(r, stage) ==
    /\ req[r].pc = "refunding" /\ <<stage, "memory">> \in req[r].refunds
    /\ LET k == req[r].key  p == req[r].proc
       IN mem' = [mem EXCEPT ![p] = [mem[p] EXCEPT ![k] = LocalDecremented(mem[p][k], <<r, stage>>)]]
    /\ Become(r, AfterRefund(r, <<stage, "memory">>))
    /\ UNCHANGED <<config, redis, lastCleanup, now, faults>>

\* Time passes; Redis drops the keys whose time has come.
Tick ==
    /\ now < MaxTime
    /\ now' = now + 1
    /\ redis' = [k \in Keys |-> IF redis[k] # Null /\ redis[k].reset <= now + 1 THEN Null ELSE redis[k]]
    /\ UNCHANGED <<config, mem, lastCleanup, faults, req>>

\* A process is restarted: its memory and its requests are gone.
Restart(p) ==
    /\ Fault
    /\ mem' = [mem EXCEPT ![p] = Empty]
    /\ lastCleanup' = [lastCleanup EXCEPT ![p] = 0]
    /\ req' = [r \in Requests |-> IF req[r].proc = p THEN Ended ELSE req[r]]
    /\ UNCHANGED <<config, redis, now>>

Step(r) ==
    \/ \E p \in Procs, k \in Keys : Arrive(r, p, k)
    \/ CountInRedis(r) \/ CountUnanswered(r) \/ CountLocally(r) \/ RejectUnavailable(r)
    \/ \E counted \in BOOLEAN : RedisFails(r, counted)
    \/ \E skipped \in BOOLEAN : Finish(r, skipped)
    \/ \E stage \in {x[1] : x \in req[r].refunds} :
         RefundInRedis(r, stage) \/ RefundUnanswered(r, stage) \/ RefundLocally(r, stage)

Next ==
    \/ \E r \in Requests : Step(r)
    \/ Tick
    \/ \E p \in Procs : Restart(p)

Spec == Init /\ [][Next]_vars

-----------------------------------------------------------------------------
(* Properties *)

Live(c) == c # Null /\ c.reset > now
Kept(c) == IF c = Null THEN {} ELSE c.kept
KeptWithin(c, k) == c = Null \/ Cardinality(c.kept) <= Max[k] + c.excess

\* A window lets no more than maxRequests requests through, beyond those that
\* were refunded; each refund of what the counter does not hold allows one more: one
\* that comes when the window of its request is over, or is made again after its
\* answer was lost.  Nothing else does, in any interleaving: a lost or repeated count
\* and a lost refund only take from the budget.
WindowBudget ==
    \A k \in Keys : KeptWithin(redis[k], k) /\ \A p \in Procs : KeptWithin(mem[p][k], k)

\* With limiters that fail closed it holds over all processes together, however
\* Redis fails: nothing is let through that Redis has not counted.
SharedBudget ==
    \A k \in Keys :
        /\ kind = "redis" /\ failClosed
        /\ \A i \in 1 .. Len(Route[k]) : Route[k][i] \in Critical
        => Cardinality(Kept(redis[k]) \cup UNION {Kept(mem[p][k]) : p \in Procs})
             <= Max[k] + (IF redis[k] = Null THEN 0 ELSE redis[k].excess)

\* Counting in Redis leaves every key with an expiry, at most a window away, and
\* does not put off the end of a window in which something is counted: refused
\* requests do not prolong it, and late or repeated refunds leave nothing for ever.
WindowEnds ==
    [][\A k \in Keys :
         redis'[k] # redis[k] /\ redis'[k] # Null =>
            /\ redis'[k].reset <= now + Window
            /\ redis[k] # Null /\ redis[k].count > 0 /\ redis[k].reset # Never =>
                 redis'[k].reset = redis[k].reset]_vars

\* A memory store never has more than maxKeys entries.  It gives up a counter in
\* use only for another key, when it is full of them, and one that ends first.
EvictsLast ==
    [][\A p \in Procs :
         /\ Cardinality(Stored(mem'[p])) <= MaxKeys
         /\ \A k \in Keys :
              Live(mem[p][k]) /\ mem'[p][k] = Null =>
                 \/ mem'[p] = Empty
                 \/ /\ Cardinality({j \in Keys : Live(mem[p][j])}) = MaxKeys
                    /\ \A j \in Keys : Live(mem[p][j]) => mem[p][k].reset <= mem[p][j].reset]_vars
=============================================================================
