------------------------- MODULE RateLimiterTheorems -------------------------
(* Theorems about RateLimiter, for every value of its constants. *)
EXTENDS RateLimiter, FiniteSetTheorems, TLAPS

-----------------------------------------------------------------------------
(* Counters *)

\* What a counter has let through is covered by its count and its excess refunds,
\* and by the limit m and these.
Budget(c, m) ==
    c # Null => /\ IsFiniteSet(c.kept)
                /\ Cardinality(c.kept) <= c.count + c.excess
                /\ Cardinality(c.kept) <= m + c.excess

\* A counter that has just counted a request, which has not been let through yet.
Grown(c, m) ==
    /\ c \in Counter /\ c.count > 0
    /\ IsFiniteSet(c.kept)
    /\ Cardinality(c.kept) <= c.count - 1 + c.excess
    /\ Cardinality(c.kept) <= m + c.excess

LEMMA EmptyKept == IsFiniteSet({}) /\ Cardinality({}) = 0
BY FS_EmptySet

LEMMA CardinalityIsNat ==
    ASSUME NEW S, IsFiniteSet(S) PROVE Cardinality(S) \in Nat
BY FS_CardinalityType

LEMMA OneMore ==
    ASSUME NEW S, NEW x, IsFiniteSet(S)
    PROVE  IsFiniteSet(S \cup {x}) /\ Cardinality(S \cup {x}) <= Cardinality(S) + 1
<1>1. Cardinality(S) \in Nat
  BY CardinalityIsNat
<1>2. /\ IsFiniteSet(S \cup {x})
      /\ Cardinality(S \cup {x}) = IF x \in S THEN Cardinality(S) ELSE Cardinality(S) + 1
  BY FS_AddElement, Zenon
<1> QED  BY <1>1, <1>2

LEMMA GrownHasBudget ==
    ASSUME NEW c, NEW m \in Nat, Grown(c, m) PROVE Budget(c, m)
BY CardinalityIsNat DEF Grown, Budget, Counter

LEMMA IncrementedGrows ==
    ASSUME NEW c \in Counter \cup {Null}, NEW m \in Nat, Budget(c, m), now \in Nat
    PROVE  Grown(Incremented(c), m)
<1>1. now + Window \in Nat
  BY RateLimiterAssumption
<1>2. CASE c = Null
  BY <1>1, <1>2, EmptyKept DEF Incremented, Grown, Counter
<1>3. CASE c # Null
  <2>1. c \in Counter
    BY <1>3
  <2>2. IsFiniteSet(c.kept) /\ Cardinality(c.kept) \in Nat
    BY <1>3, CardinalityIsNat DEF Budget
  <2>3. /\ Incremented(c) \in Counter
        /\ Incremented(c).kept = c.kept /\ Incremented(c).excess = c.excess
        /\ Incremented(c).count = c.count + 1
    <3> DEFINE reset == IF c.count = 0 \/ c.reset = Never THEN now + Window ELSE c.reset
    <3>1. reset \in Nat
      BY <1>1, <2>1 DEF Counter
    <3>2. Incremented(c) = [c EXCEPT !.count = c.count + 1, !.reset = reset]
      BY <1>3 DEF Incremented
    <3> HIDE DEF reset
    <3>3. Incremented(c) = [count |-> c.count + 1, reset |-> reset, kept |-> c.kept, excess |-> c.excess]
      BY <2>1, <3>2 DEF Counter
    <3>4. c.count + 1 \in Nat /\ c.kept \in SUBSET Passage /\ c.excess \in Nat
      BY <2>1 DEF Counter
    <3> QED  BY <3>1, <3>3, <3>4 DEF Counter
  <2> QED  BY <1>3, <2>1, <2>2, <2>3 DEF Grown, Budget, Counter
<1> QED  BY <1>2, <1>3

LEMMA LocalIncrementedGrows ==
    ASSUME NEW c \in Counter \cup {Null}, NEW m \in Nat, Budget(c, m), now \in Nat
    PROVE  Grown(LocalIncremented(c), m)
<1>1. now + Window \in Nat
  BY RateLimiterAssumption
<1>2. CASE ~(c # Null /\ c.reset > now)
  BY <1>1, <1>2, EmptyKept DEF LocalIncremented, Grown, Counter
<1>3. CASE c # Null /\ c.reset > now
  <2>1. c \in Counter
    BY <1>3
  <2>2. IsFiniteSet(c.kept) /\ Cardinality(c.kept) \in Nat
    BY <1>3, CardinalityIsNat DEF Budget
  <2>3. /\ LocalIncremented(c) \in Counter
        /\ LocalIncremented(c).kept = c.kept /\ LocalIncremented(c).excess = c.excess
        /\ LocalIncremented(c).count = c.count + 1
    BY <1>3, <2>1 DEF LocalIncremented, Counter
  <2> QED  BY <1>3, <2>1, <2>2, <2>3 DEF Grown, Budget, Counter
<1> QED  BY <1>2, <1>3

\* Only what is counted within the limit is let through.
LEMMA LetHasBudget ==
    ASSUME NEW r \in Requests, NEW c, Max[req[r].key] \in Nat, Grown(c, Max[req[r].key]),
           req[r].stage \in Nat
    PROVE  /\ Let(r, c) \in Counter
           /\ Let(r, c).count = c.count /\ Let(r, c).reset = c.reset
           /\ Budget(Let(r, c), Max[req[r].key])
<1> DEFINE m == Max[req[r].key]
           x == <<r, req[r].stage>>
<1>1. x \in Passage
  BY DEF Passage
<1>2. IsFiniteSet(c.kept) /\ Cardinality(c.kept) \in Nat /\ c \in Counter
  BY CardinalityIsNat DEF Grown
<1>3. CASE ~Passes(req[r], c)
  BY <1>2, <1>3, GrownHasBudget DEF Let
<1>4. CASE Passes(req[r], c)
  <2>1. Let(r, c) = [c EXCEPT !.kept = c.kept \cup {x}]
    BY <1>4 DEF Let
  <2>2. /\ Let(r, c) \in Counter
        /\ Let(r, c).kept = c.kept \cup {x}
        /\ Let(r, c).count = c.count /\ Let(r, c).excess = c.excess /\ Let(r, c).reset = c.reset
    <3>1. c.kept \cup {x} \in SUBSET Passage
      BY <1>1, <1>2 DEF Counter
    <3> HIDE DEF x
    <3> QED  BY <1>2, <2>1, <3>1 DEF Counter
  <2>3. IsFiniteSet(c.kept \cup {x}) /\ Cardinality(c.kept \cup {x}) <= Cardinality(c.kept) + 1
    BY <1>2, OneMore
  <2>4. Cardinality(c.kept \cup {x}) \in Nat
    BY <2>3, CardinalityIsNat
  <2>5. c.count <= m
    BY <1>4 DEF Passes
  <2>6. Cardinality(c.kept \cup {x}) <= c.count + c.excess
    BY <1>2, <2>3, <2>4 DEF Grown, Counter
  <2>7. Cardinality(c.kept \cup {x}) <= m + c.excess
    BY <1>2, <2>4, <2>5, <2>6 DEF Counter
  <2> QED  BY <2>2, <2>3, <2>6, <2>7 DEF Budget
<1> QED  BY <1>3, <1>4

\* A refund gives back one of the requests let through or is in excess.
LEMMA RefundedKeeps ==
    ASSUME NEW c \in Counter, NEW m \in Nat, Budget(c, m), NEW x \in Passage
    PROVE  LET d == Refunded(c, x)
           IN /\ d \in Counter /\ d.count = c.count /\ d.reset = c.reset
              /\ IsFiniteSet(d.kept)
              /\ Cardinality(d.kept) <= c.count + d.excess
              /\ c.count > 0 => Cardinality(d.kept) <= c.count - 1 + d.excess
              /\ Cardinality(d.kept) <= m + d.excess
<1>1. IsFiniteSet(c.kept) /\ Cardinality(c.kept) \in Nat
      /\ Cardinality(c.kept) <= c.count + c.excess /\ Cardinality(c.kept) <= m + c.excess
  BY NullIsNoCounter, CardinalityIsNat DEF Budget
<1>2. CASE x \in c.kept
  <2>1. Refunded(c, x) = [c EXCEPT !.kept = c.kept \ {x}]
    BY <1>2 DEF Refunded
  <2>2. IsFiniteSet(c.kept \ {x}) /\ Cardinality(c.kept \ {x}) = Cardinality(c.kept) - 1
    BY <1>1, <1>2, FS_RemoveElement
  <2> QED  BY <1>1, <2>1, <2>2 DEF Counter
<1>3. CASE x \notin c.kept
  <2>1. Refunded(c, x) = [c EXCEPT !.excess = c.excess + 1]
    BY <1>3 DEF Refunded
  <2> QED  BY <1>1, <2>1 DEF Counter
<1> QED  BY <1>2, <1>3

LEMMA DecrementedHasBudget ==
    ASSUME NEW c \in Counter \cup {Null}, NEW m \in Nat, Budget(c, m), NEW x \in Passage,
           now \in Nat
    PROVE  Decremented(c, x) \in Counter /\ Budget(Decremented(c, x), m)
<1>1. now + Window \in Nat
  BY RateLimiterAssumption
<1>2. CASE c = Null
  BY <1>1, <1>2, EmptyKept DEF Decremented, Budget, Counter
<1>3. CASE c # Null
  <2> DEFINE d == Refunded(c, x)
  <2>1. c \in Counter
    BY <1>3
  <2>2. /\ d \in Counter /\ d.count = c.count
        /\ IsFiniteSet(d.kept) /\ Cardinality(d.kept) \in Nat
        /\ Cardinality(d.kept) <= c.count + d.excess
        /\ c.count > 0 => Cardinality(d.kept) <= c.count - 1 + d.excess
        /\ Cardinality(d.kept) <= m + d.excess
    BY <2>1, RefundedKeeps, CardinalityIsNat
  <2> HIDE DEF d
  <2>3. CASE c.count = 0
    <3>1. Decremented(c, x) = [d EXCEPT !.reset = now + Window]
      BY <1>3, <2>3 DEF Decremented, d
    <3> QED  BY <1>1, <2>2, <2>3, <3>1 DEF Budget, Counter
  <2>4. CASE c.count # 0
    <3>1. Decremented(c, x) = [d EXCEPT !.count = c.count - 1]
      BY <1>3, <2>4 DEF Decremented, d
    <3>2. c.count - 1 \in Nat /\ c.count > 0
      BY <2>1, <2>4 DEF Counter
    <3> QED  BY <2>2, <3>1, <3>2 DEF Budget, Counter
  <2> QED  BY <2>3, <2>4
<1> QED  BY <1>2, <1>3

LEMMA LocalDecrementedHasBudget ==
    ASSUME NEW c \in Counter \cup {Null}, NEW m \in Nat, Budget(c, m), NEW x \in Passage
    PROVE  /\ LocalDecremented(c, x) \in Counter \cup {Null}
           /\ LocalDecremented(c, x) = Null <=> c = Null
           /\ c # Null => LocalDecremented(c, x).reset = c.reset
           /\ Budget(LocalDecremented(c, x), m)
<1>1. CASE c = Null \/ c.count = 0
  BY <1>1 DEF LocalDecremented
<1>2. CASE ~(c = Null \/ c.count = 0)
  <2> DEFINE d == Refunded(c, x)
  <2>1. c \in Counter /\ c.count - 1 \in Nat /\ c.count > 0
    BY <1>2 DEF Counter
  <2>2. /\ d \in Counter /\ d.reset = c.reset
        /\ IsFiniteSet(d.kept)
        /\ Cardinality(d.kept) <= c.count - 1 + d.excess
        /\ Cardinality(d.kept) <= m + d.excess
    BY <2>1, RefundedKeeps
  <2>3. LocalDecremented(c, x) = [d EXCEPT !.count = c.count - 1]
    BY <1>2 DEF LocalDecremented
  <2> HIDE DEF d
  <2> QED  BY <1>2, <2>1, <2>2, <2>3, NullIsNoCounter DEF Budget, Counter
<1> QED  BY <1>1, <1>2

-----------------------------------------------------------------------------
(* Memory stores *)

Stores == [Keys -> Counter \cup {Null}]

LEMMA WithoutType ==
    ASSUME NEW m \in Stores, NEW ks
    PROVE  Without(m, ks) \in Stores /\ Stored(Without(m, ks)) = Stored(m) \ ks
BY DEF Without, Stored, Stores

\* Making room changes no entry, it takes entries away.
LEMMA RoomEntries ==
    ASSUME TypeOK, NEW p \in Procs, NEW k \in Keys, NEW m \in Room(p, k)
    PROVE  /\ m \in Stores
           /\ \A j \in Keys : m[j] = Null \/ m[j] = mem[p][j]
<1>1. mem[p] \in Stores
  BY DEF TypeOK, Stores
<1> DEFINE Taken(n) == n \in Stores /\ \A j \in Keys : n[j] = Null \/ n[j] = mem[p][j]
<1>2. ASSUME NEW n, Taken(n), NEW ks PROVE Taken(Without(n, ks))
  BY <1>2, WithoutType DEF Without
<1>3. Taken(mem[p])
  BY <1>1
<1> HIDE DEF Taken
<1>4. Taken(Cleaned(p))
  BY <1>2, <1>3 DEF Cleaned
<1>5. ASSUME NEW n, Taken(n), NEW l \in AfterEviction(n) PROVE Taken(l)
  BY <1>2, <1>5 DEF AfterEviction
<1>6. Taken(m)
  BY <1>4, <1>5 DEF Room
<1> QED  BY <1>6 DEF Taken

-----------------------------------------------------------------------------
(* Type correctness *)

\* A request in progress is at one of the limiters of its route.
AtStage ==
    \A r \in Requests :
        req[r].pc \in {"counting", "erring", "handling", "refunding"} =>
            req[r].key \in Keys /\ req[r].proc \in Procs /\ req[r].stage \in 1 .. Len(Route[req[r].key])

Budgets ==
    \A k \in Keys : Budget(redis[k], Max[k]) /\ \A p \in Procs : Budget(mem[p][k], Max[k])

LEMMA NoRequestType == NoRequest \in Request /\ Ended \in Request
BY DEF NoRequest, Ended, Request

LEMMA InitType == Init => TypeOK /\ AtStage /\ Budgets
<1> SUFFICES ASSUME Init PROVE TypeOK /\ AtStage /\ Budgets
  OBVIOUS
<1>1. now \in Nat /\ Never \in Nat /\ faults \in Nat
  BY RateLimiterAssumption DEF Init, Never
<1> DEFINE orphan == [count |-> 1, reset |-> Never, kept |-> {}, excess |-> 0]
<1>2. orphan \in Counter
  BY <1>1 DEF Counter
<1>3. PICK orphans \in SUBSET Keys : redis = [k \in Keys |-> IF k \in orphans THEN orphan ELSE Null]
  BY DEF Init
<1>4. redis \in [Keys -> Counter \cup {Null}]
  BY <1>2, <1>3
<1>5. mem \in [Procs -> [Keys -> Counter \cup {Null}]]
  BY DEF Init, Empty
<1>6. req \in [Requests -> Request]
  BY NoRequestType DEF Init
<1>7. TypeOK
  BY <1>1, <1>4, <1>5, <1>6 DEF Init, TypeOK
<1>8. AtStage
  BY DEF Init, AtStage, NoRequest
<1>9. \A k \in Keys : Budget(redis[k], Max[k])
  <2> TAKE k \in Keys
  <2>1. Max[k] \in Nat
    BY RateLimiterAssumption
  <2>2. Budget(orphan, Max[k])
    BY <2>1, EmptyKept DEF Budget
  <2> QED  BY <1>3, <2>2 DEF Budget
<1>10. \A k \in Keys, p \in Procs : Budget(mem[p][k], Max[k])
  BY DEF Init, Empty, Budget
<1> QED  BY <1>7, <1>8, <1>9, <1>10 DEF Budgets

\* A request that may go on: of the right shape, at a limiter of its route.
Placed(s) ==
    /\ s \in Request
    /\ s.pc \in {"counting", "erring", "handling", "refunding"} =>
            s.key \in Keys /\ s.proc \in Procs /\ s.stage \in 1 .. Len(Route[s.key])

LEMMA BecomePlaced ==
    ASSUME TypeOK, AtStage, NEW r \in Requests, NEW next, Placed(next), Become(r, next)
    PROVE  req' \in [Requests -> Request] /\ AtStage'
BY DEF TypeOK, AtStage, Placed, Become

LEMMA EndedPlaced == Placed(Ended)
BY NoRequestType DEF Placed, Ended, NoRequest

LEMMA JudgedPlaced ==
    ASSUME TypeOK, AtStage, NEW r \in Requests, NEW c, NEW store \in {"redis", "memory"},
           req[r].pc \in {"counting", "erring"}
    PROVE  Placed(Judged(r, c, store))
<1> DEFINE s == req[r]
           refunds == s.refunds \cup {x \in {<<s.stage, store>>} : Limiter(s) \in Refunding}
<1>1. /\ s \in Request /\ s.key \in Keys /\ s.proc \in Procs
      /\ s.stage \in 1 .. Len(Route[s.key]) /\ Len(Route[s.key]) \in Nat
  BY RateLimiterAssumption DEF TypeOK, AtStage
<1>2. refunds \in SUBSET (Nat \X {"redis", "memory"})
  <2>1. s.refunds \in SUBSET (Nat \X {"redis", "memory"}) /\ s.stage \in Nat
    BY <1>1 DEF Request
  <2> QED  BY <2>1
<1>3. Judged(r, c, store) =
        IF ~Passes(s, c) THEN Ended
        ELSE IF s.stage < Len(Route[s.key])
        THEN [s EXCEPT !.pc = "counting", !.stage = s.stage + 1, !.refunds = refunds]
        ELSE [s EXCEPT !.pc = "handling", !.refunds = refunds]
  BY DEF Judged
<1> HIDE DEF s, refunds
<1>4. CASE ~Passes(s, c)
  BY <1>3, <1>4, EndedPlaced
<1>5. CASE Passes(s, c) /\ s.stage < Len(Route[s.key])
  <2>1. Judged(r, c, store) = [pc |-> "counting", proc |-> s.proc, key |-> s.key,
                               stage |-> s.stage + 1, refunds |-> refunds]
    BY <1>1, <1>3, <1>5 DEF Request
  <2>2. s.stage + 1 \in 1 .. Len(Route[s.key]) /\ s.stage + 1 \in Nat
    BY <1>1, <1>5
  <2> QED  BY <1>1, <1>2, <2>1, <2>2 DEF Placed, Request
<1>6. CASE Passes(s, c) /\ ~(s.stage < Len(Route[s.key]))
  <2>1. Judged(r, c, store) = [pc |-> "handling", proc |-> s.proc, key |-> s.key,
                               stage |-> s.stage, refunds |-> refunds]
    BY <1>1, <1>3, <1>6 DEF Request
  <2> QED  BY <1>1, <1>2, <2>1 DEF Placed, Request
<1> QED  BY <1>4, <1>5, <1>6

LEMMA AfterRefundPlaced ==
    ASSUME TypeOK, AtStage, NEW r \in Requests, NEW x, req[r].pc = "refunding"
    PROVE  Placed(AfterRefund(r, x))
<1>1. Placed(req[r])
  BY DEF TypeOK, AtStage, Placed
<1>2. Placed([req[r] EXCEPT !.refunds = req[r].refunds \ {x}])
  BY <1>1 DEF Placed, Request
<1> QED  BY <1>2, EndedPlaced DEF AfterRefund

\* The steps of a request that touch no counter.
LEMMA MovePlaced ==
    ASSUME TypeOK, AtStage, NEW r \in Requests,
           \/ \E p \in Procs, k \in Keys : Arrive(r, p, k)
           \/ RejectUnavailable(r)
           \/ \E skipped \in BOOLEAN : Finish(r, skipped)
    PROVE  /\ req' \in [Requests -> Request] /\ AtStage'
           /\ UNCHANGED <<config, counters, now, faults>>
<1>1. ASSUME NEW p \in Procs, NEW k \in Keys, Arrive(r, p, k)
      PROVE  req' \in [Requests -> Request] /\ AtStage'
  <2>1. 1 \in 1 .. Len(Route[k])
    BY RateLimiterAssumption
  <2>2. Placed([NoRequest EXCEPT !.pc = "counting", !.proc = p, !.key = k])
    BY <2>1 DEF NoRequest, Placed, Request
  <2> QED  BY <1>1, <2>2, BecomePlaced DEF Arrive
<1>2. ASSUME RejectUnavailable(r) PROVE req' \in [Requests -> Request] /\ AtStage'
  BY <1>2, EndedPlaced, BecomePlaced DEF RejectUnavailable
<1>3. ASSUME NEW skipped \in BOOLEAN, Finish(r, skipped)
      PROVE  req' \in [Requests -> Request] /\ AtStage'
  <2>1. Placed(req[r]) /\ req[r].pc \in {"handling", "counting"}
    BY <1>3 DEF TypeOK, AtStage, Placed, Finish
  <2>2. Placed([req[r] EXCEPT !.pc = "refunding"])
    BY <2>1 DEF Placed, Request
  <2> QED  BY <1>3, <2>2, EndedPlaced, BecomePlaced DEF Finish
<1> QED  BY <1>1, <1>2, <1>3 DEF Arrive, RejectUnavailable, Finish

-----------------------------------------------------------------------------
(* The budget of a window *)

Core == TypeOK /\ AtStage /\ Budgets

\* A counter of Redis is written.
LEMMA RedisPut ==
    ASSUME Core, NEW k \in Keys, NEW c \in Counter, Budget(c, Max[k]),
           redis' = [redis EXCEPT ![k] = c], UNCHANGED <<config, mem, lastCleanup, now>>,
           UNCHANGED faults \/ Fault,
           req' \in [Requests -> Request], AtStage'
    PROVE  Core'
<1>1. redis' \in [Keys -> Counter \cup {Null}]
  BY DEF Core, TypeOK
<1>2. TypeOK'
  BY <1>1 DEF Core, TypeOK, config, Fault
<1>3. Budgets'
  BY DEF Core, TypeOK, Budgets
<1> QED  BY <1>2, <1>3 DEF Core

\* The memory store of a process is replaced.
LEMMA MemPut ==
    ASSUME Core, NEW p \in Procs, NEW m \in Stores, \A j \in Keys : Budget(m[j], Max[j]),
           mem' = [mem EXCEPT ![p] = m], UNCHANGED <<config, redis, now>>,
           lastCleanup' \in [Procs -> Nat], UNCHANGED faults \/ Fault,
           req' \in [Requests -> Request], AtStage'
    PROVE  Core'
<1>1. mem' \in [Procs -> [Keys -> Counter \cup {Null}]]
  BY DEF Core, TypeOK, Stores
<1>2. TypeOK'
  BY <1>1 DEF Core, TypeOK, config, Fault
<1>3. Budgets'
  BY DEF Core, TypeOK, Budgets
<1> QED  BY <1>2, <1>3 DEF Core

\* Everything a step of r may rely on.
LEMMA AtLimiter ==
    ASSUME Core, NEW r \in Requests, req[r].pc \in {"counting", "erring", "handling", "refunding"}
    PROVE  /\ req[r].key \in Keys /\ req[r].proc \in Procs /\ req[r].stage \in Nat
           /\ Max[req[r].key] \in Nat /\ now \in Nat
           /\ redis[req[r].key] \in Counter \cup {Null}
           /\ Budget(redis[req[r].key], Max[req[r].key])
<1>1. /\ req[r].key \in Keys /\ req[r].proc \in Procs
      /\ req[r].stage \in 1 .. Len(Route[req[r].key]) /\ Len(Route[req[r].key]) \in Nat
  BY RateLimiterAssumption DEF Core, AtStage
<1> QED  BY <1>1, RateLimiterAssumption DEF Core, TypeOK, Budgets

LEMMA CountInRedisCore ==
    ASSUME Core, NEW r \in Requests, CountInRedis(r) \/ CountUnanswered(r)
    PROVE  Core'
<1> DEFINE k == req[r].key
           c == Incremented(redis[k])
<1>1. req[r].pc = "counting"
  BY DEF CountInRedis, CountUnanswered
<1>2. /\ k \in Keys /\ req[r].stage \in Nat /\ Max[k] \in Nat /\ now \in Nat
      /\ redis[k] \in Counter \cup {Null} /\ Budget(redis[k], Max[k])
  BY <1>1, AtLimiter
<1>3. Grown(c, Max[k])
  BY <1>2, IncrementedGrows
<1>4. Let(r, c) \in Counter /\ Budget(Let(r, c), Max[k])
  BY <1>2, <1>3, LetHasBudget
<1>5. CASE CountInRedis(r)
  <2>1. /\ redis' = [redis EXCEPT ![k] = Let(r, c)]
        /\ Become(r, Judged(r, c, "redis"))
        /\ UNCHANGED <<config, mem, lastCleanup, now, faults>>
    BY <1>5 DEF CountInRedis
  <2>2. req' \in [Requests -> Request] /\ AtStage'
    <3>1. Placed(Judged(r, c, "redis"))
      BY <1>1, JudgedPlaced DEF Core
    <3> QED  BY <2>1, <3>1, BecomePlaced DEF Core
  <2> HIDE DEF k, c
  <2> QED  BY <1>2, <1>4, <2>1, <2>2, RedisPut
<1>6. CASE CountUnanswered(r)
  <2>1. /\ redis' = [redis EXCEPT ![k] = c] /\ Fault
        /\ UNCHANGED <<config, mem, lastCleanup, now, req>>
    BY <1>6 DEF CountUnanswered
  <2>2. c \in Counter /\ Budget(c, Max[k])
    BY <1>2, <1>3, GrownHasBudget DEF Grown
  <2>3. req' \in [Requests -> Request] /\ AtStage'
    BY <2>1 DEF Core, TypeOK, AtStage
  <2> HIDE DEF k, c
  <2> QED  BY <1>2, <2>1, <2>2, <2>3, RedisPut
<1> QED  BY <1>5, <1>6

LEMMA RedisFailsCore ==
    ASSUME Core, NEW r \in Requests, NEW counted \in BOOLEAN, RedisFails(r, counted)
    PROVE  Core'
<1> DEFINE k == req[r].key
           c == Incremented(redis[k])
<1>1. req[r].pc = "counting"
  BY DEF RedisFails
<1>2. /\ k \in Keys /\ Max[k] \in Nat /\ now \in Nat
      /\ redis[k] \in Counter \cup {Null} /\ Budget(redis[k], Max[k])
  BY <1>1, AtLimiter
<1>3. Grown(c, Max[k])
  BY <1>2, IncrementedGrows
<1>4. c \in Counter /\ Budget(c, Max[k])
  BY <1>2, <1>3, GrownHasBudget DEF Grown
<1>5. /\ redis' = IF counted THEN [redis EXCEPT ![k] = c] ELSE redis
      /\ Become(r, [req[r] EXCEPT !.pc = "erring"])
      /\ UNCHANGED <<config, mem, lastCleanup, now>> /\ Fault
  BY DEF RedisFails
<1>6. req' \in [Requests -> Request] /\ AtStage'
  <2>1. Placed(req[r])
    BY DEF Core, TypeOK, AtStage, Placed
  <2>2. Placed([req[r] EXCEPT !.pc = "erring"])
    BY <1>1, <2>1 DEF Placed, Request
  <2> QED  BY <1>5, <2>2, BecomePlaced DEF Core
<1> HIDE DEF k, c
<1>7. CASE counted
  BY <1>2, <1>4, <1>5, <1>6, <1>7, RedisPut
<1>8. CASE ~counted
  BY <1>5, <1>6, <1>8 DEF Core, TypeOK, Budgets, config, Fault
<1> QED  BY <1>7, <1>8

LEMMA CountLocallyCore ==
    ASSUME Core, NEW r \in Requests, CountLocally(r)
    PROVE  Core'
<1> DEFINE k == req[r].key
           p == req[r].proc
<1>1. req[r].pc \in {"counting", "erring"}
  BY DEF CountLocally, CountsLocally
<1>2. k \in Keys /\ p \in Procs /\ req[r].stage \in Nat /\ Max[k] \in Nat /\ now \in Nat
  BY <1>1, AtLimiter
<1> PICK m \in Room(p, k) :
      LET c == LocalIncremented(m[k])
      IN /\ mem' = [mem EXCEPT ![p] = [m EXCEPT ![k] = Let(r, c)]]
         /\ lastCleanup' = [lastCleanup EXCEPT ![p] = IF CleanupDue(p) THEN now ELSE lastCleanup[p]]
         /\ Become(r, Judged(r, c, "memory"))
  BY DEF CountLocally
<1> DEFINE c == LocalIncremented(m[k])
<1>3. m \in Stores /\ \A j \in Keys : m[j] = Null \/ m[j] = mem[p][j]
  BY <1>2, RoomEntries DEF Core
<1>4. \A j \in Keys : m[j] \in Counter \cup {Null} /\ Budget(m[j], Max[j])
  BY <1>2, <1>3 DEF Core, Budgets, Budget, Stores
<1>5. Grown(c, Max[k])
  BY <1>2, <1>4, LocalIncrementedGrows
<1>6. Let(r, c) \in Counter /\ Budget(Let(r, c), Max[k])
  BY <1>2, <1>5, LetHasBudget
<1>7. req' \in [Requests -> Request] /\ AtStage'
  <2>1. Placed(Judged(r, c, "memory"))
    BY <1>1, JudgedPlaced DEF Core
  <2>2. Become(r, Judged(r, c, "memory"))
    OBVIOUS
  <2> QED  BY <2>1, <2>2, BecomePlaced DEF Core
<1>8. lastCleanup' \in [Procs -> Nat]
  BY <1>2 DEF Core, TypeOK
<1> DEFINE n == [m EXCEPT ![k] = Let(r, c)]
<1>9. mem' = [mem EXCEPT ![p] = n] /\ UNCHANGED <<config, redis, now, faults>>
  BY DEF CountLocally
<1> HIDE DEF k, p, c
<1>10. n \in Stores /\ \A j \in Keys : Budget(n[j], Max[j])
  BY <1>2, <1>3, <1>4, <1>6 DEF Stores
<1> HIDE DEF n
<1> QED  BY <1>2, <1>7, <1>8, <1>9, <1>10, MemPut

LEMMA RefundCore ==
    ASSUME Core, NEW r \in Requests, NEW stage,
           RefundInRedis(r, stage) \/ RefundUnanswered(r, stage) \/ RefundLocally(r, stage)
    PROVE  Core'
<1> DEFINE k == req[r].key
           p == req[r].proc
           x == <<r, stage>>
<1>1. req[r].pc = "refunding"
  BY DEF RefundInRedis, RefundUnanswered, RefundLocally
<1>2. /\ k \in Keys /\ p \in Procs /\ Max[k] \in Nat /\ now \in Nat
      /\ redis[k] \in Counter \cup {Null} /\ Budget(redis[k], Max[k])
  BY <1>1, AtLimiter
<1>3. x \in Passage
  <2>1. req[r].refunds \in SUBSET (Nat \X {"redis", "memory"})
    BY DEF Core, TypeOK, Request
  <2>2. stage \in Nat
    BY <2>1 DEF RefundInRedis, RefundUnanswered, RefundLocally
  <2> QED  BY <2>2 DEF Passage
<1>4. \A y : Placed(AfterRefund(r, y))
  BY <1>1, AfterRefundPlaced DEF Core
<1>5. CASE RefundInRedis(r, stage) \/ RefundUnanswered(r, stage)
  <2> DEFINE d == Decremented(redis[k], x)
  <2>1. /\ redis' = [redis EXCEPT ![k] = d]
        /\ Become(r, AfterRefund(r, <<stage, "redis">>)) \/ UNCHANGED req
        /\ UNCHANGED <<config, mem, lastCleanup, now>>
        /\ UNCHANGED faults \/ Fault
    BY <1>5 DEF RefundInRedis, RefundUnanswered
  <2>2. req' \in [Requests -> Request] /\ AtStage'
    <3>1. CASE Become(r, AfterRefund(r, <<stage, "redis">>))
      BY <1>4, <3>1, BecomePlaced DEF Core
    <3>2. CASE UNCHANGED req
      BY <3>2 DEF Core, TypeOK, AtStage
    <3> QED  BY <2>1, <3>1, <3>2
  <2> HIDE DEF x
  <2>3. d \in Counter /\ Budget(d, Max[k])
    BY <1>2, <1>3, DecrementedHasBudget
  <2> HIDE DEF d, k
  <2> QED  BY <1>2, <2>1, <2>2, <2>3, RedisPut
<1>6. CASE RefundLocally(r, stage)
  <2> DEFINE d == LocalDecremented(mem[p][k], x)
             n == [mem[p] EXCEPT ![k] = d]
  <2>1. /\ mem' = [mem EXCEPT ![p] = n]
        /\ Become(r, AfterRefund(r, <<stage, "memory">>))
        /\ UNCHANGED <<config, redis, lastCleanup, now, faults>>
    BY <1>6 DEF RefundLocally
  <2>2. req' \in [Requests -> Request] /\ AtStage'
    BY <1>4, <2>1, BecomePlaced DEF Core
  <2>3. mem[p] \in Stores /\ \A j \in Keys : mem[p][j] \in Counter \cup {Null} /\ Budget(mem[p][j], Max[j])
    BY <1>2 DEF Core, TypeOK, Stores, Budgets
  <2> HIDE DEF x
  <2>4. d \in Counter \cup {Null} /\ Budget(d, Max[k])
    BY <1>2, <1>3, <2>3, LocalDecrementedHasBudget
  <2> HIDE DEF d, k, p
  <2>5. n \in Stores /\ \A j \in Keys : Budget(n[j], Max[j])
    BY <1>2, <2>3, <2>4 DEF Stores
  <2>6. lastCleanup' \in [Procs -> Nat]
    BY <2>1 DEF Core, TypeOK
  <2> HIDE DEF n
  <2> QED  BY <1>2, <2>1, <2>2, <2>5, <2>6, MemPut
<1> QED  BY <1>5, <1>6

LEMMA StepCore == Core /\ [Next]_vars => Core'
<1> SUFFICES ASSUME Core, [Next]_vars PROVE Core'
  OBVIOUS
<1>1. ASSUME NEW r \in Requests, Step(r) PROVE Core'
  <2>1. CASE \/ \E p \in Procs, k \in Keys : Arrive(r, p, k)
             \/ RejectUnavailable(r)
             \/ \E skipped \in BOOLEAN : Finish(r, skipped)
    <3>1. /\ req' \in [Requests -> Request] /\ AtStage'
          /\ UNCHANGED <<config, counters, now, faults>>
      BY <2>1, MovePlaced DEF Core
    <3> QED  BY <3>1 DEF Core, TypeOK, Budgets, config, counters
  <2> QED  BY <1>1, <2>1, CountInRedisCore, RedisFailsCore, CountLocallyCore, RefundCore DEF Step
<1>2. CASE Tick
  <2>1. now' \in Nat /\ redis' \in [Keys -> Counter \cup {Null}]
    BY <1>2 DEF Core, TypeOK, Tick
  <2>2. TypeOK' /\ AtStage'
    BY <1>2, <2>1 DEF Core, TypeOK, AtStage, Tick, config
  <2>3. Budgets'
    BY <1>2 DEF Core, TypeOK, Budgets, Budget, Tick
  <2> QED  BY <2>2, <2>3 DEF Core
<1>3. ASSUME NEW p \in Procs, Restart(p) PROVE Core'
  <2>1. Empty \in Stores /\ \A j \in Keys : Budget(Empty[j], Max[j])
    BY DEF Empty, Stores, Budget
  <2>2. lastCleanup' \in [Procs -> Nat]
    BY <1>3 DEF Core, TypeOK, Restart
  <2>3. req' \in [Requests -> Request] /\ AtStage'
    <3>1. \A r \in Requests : Placed(req[r])
      BY DEF Core, TypeOK, AtStage, Placed
    <3>2. req' = [r \in Requests |-> IF req[r].proc = p THEN Ended ELSE req[r]]
      BY <1>3 DEF Restart
    <3>3. req' \in [Requests -> Request] /\ \A r \in Requests : Placed(req'[r])
      BY <3>1, <3>2, EndedPlaced, NoRequestType DEF Core, TypeOK
    <3> QED  BY <3>3 DEF Placed, AtStage
  <2> QED  BY <1>3, <2>1, <2>2, <2>3, MemPut DEF Restart
<1>4. CASE UNCHANGED vars
  BY <1>4 DEF Core, TypeOK, AtStage, Budgets, vars, config, counters
<1> QED  BY <1>1, <1>2, <1>3, <1>4 DEF Next

-----------------------------------------------------------------------------
(* Failing closed *)

\* Every limiter of the key's route fails closed.
Guarded(k) ==
    /\ kind = "redis" /\ failClosed
    /\ \A i \in 1 .. Len(Route[k]) : Route[k][i] \in Critical

NothingLocal == \A k \in Keys : Guarded(k) => \A p \in Procs : mem[p][k] = Null

LEMMA CountLocallyLocal ==
    ASSUME Core, NothingLocal, NEW r \in Requests, CountLocally(r)
    PROVE  NothingLocal'
<1> DEFINE l == req[r].key
           q == req[r].proc
<1>1. req[r].pc \in {"counting", "erring"} /\ CountsLocally(req[r]) /\ UNCHANGED <<kind, failClosed>>
  BY DEF CountLocally, CountsLocally, config
<1>2. l \in Keys /\ q \in Procs
  BY <1>1, AtLimiter
<1>3. ~Guarded(l)
  <2>1. req[r].stage \in 1 .. Len(Route[l])
    BY <1>1 DEF Core, AtStage
  <2> QED  BY <1>1, <2>1 DEF CountsLocally, Guarded, Closed, Limiter
<1> PICK m \in Room(q, l) : \E d : mem' = [mem EXCEPT ![q] = [m EXCEPT ![l] = d]]
  BY DEF CountLocally
<1> PICK d : mem' = [mem EXCEPT ![q] = [m EXCEPT ![l] = d]]
  OBVIOUS
<1>4. m \in Stores /\ \A j \in Keys : m[j] = Null \/ m[j] = mem[q][j]
  BY <1>2, RoomEntries DEF Core
<1> HIDE DEF l, q
<1>5. ASSUME NEW k \in Keys, Guarded(k), NEW p \in Procs PROVE mem'[p][k] = Null
  BY <1>2, <1>3, <1>4, <1>5 DEF Core, TypeOK, NothingLocal, Stores
<1> QED  BY <1>1, <1>5 DEF NothingLocal, Guarded

LEMMA StepLocal == Core /\ NothingLocal /\ [Next]_vars => NothingLocal'
<1> SUFFICES ASSUME Core, NothingLocal, [Next]_vars PROVE NothingLocal'
  OBVIOUS
<1>1. ASSUME UNCHANGED <<config, mem>> PROVE NothingLocal'
  BY <1>1 DEF NothingLocal, Guarded, config
<1>2. ASSUME NEW r \in Requests, NEW stage, RefundLocally(r, stage) PROVE NothingLocal'
  <2> DEFINE l == req[r].key
             q == req[r].proc
             d == LocalDecremented(mem[q][l], <<r, stage>>)
  <2>1. l \in Keys /\ q \in Procs
    BY <1>2, AtLimiter DEF RefundLocally
  <2>2. mem' = [mem EXCEPT ![q] = [mem[q] EXCEPT ![l] = d]] /\ UNCHANGED <<kind, failClosed>>
    BY <1>2 DEF RefundLocally, config
  <2>3. mem[q][l] = Null => d = Null
    BY DEF LocalDecremented
  <2> HIDE DEF l, q, d
  <2>4. ASSUME NEW k \in Keys, Guarded(k), NEW p \in Procs PROVE mem'[p][k] = Null
    BY <2>1, <2>2, <2>3, <2>4 DEF Core, TypeOK, NothingLocal
  <2> QED  BY <2>2, <2>4 DEF NothingLocal, Guarded
<1>3. ASSUME NEW r \in Requests, Step(r) PROVE NothingLocal'
  <2>1. CASE \/ \E p \in Procs, k \in Keys : Arrive(r, p, k)
             \/ CountInRedis(r) \/ CountUnanswered(r) \/ RejectUnavailable(r)
             \/ \E counted \in BOOLEAN : RedisFails(r, counted)
             \/ \E skipped \in BOOLEAN : Finish(r, skipped)
             \/ \E stage \in {x[1] : x \in req[r].refunds} :
                  RefundInRedis(r, stage) \/ RefundUnanswered(r, stage)
    BY <2>1, <1>1
       DEF Arrive, CountInRedis, CountUnanswered, RejectUnavailable, RedisFails, Finish,
           RefundInRedis, RefundUnanswered, counters
  <2> QED  BY <1>2, <1>3, <2>1, CountLocallyLocal DEF Step
<1>4. CASE Tick \/ UNCHANGED vars
  BY <1>1, <1>4 DEF Tick, vars, counters
<1>5. ASSUME NEW p \in Procs, Restart(p) PROVE NothingLocal'
  BY <1>5 DEF Restart, NothingLocal, Guarded, Empty, config, Core, TypeOK
<1> QED  BY <1>3, <1>4, <1>5 DEF Next

LEMMA BudgetIsWithin ==
    ASSUME NEW k \in Keys, NEW c, Budget(c, Max[k]) PROVE KeptWithin(c, k)
BY DEF Budget, KeptWithin

LEMMA WithinShared == Core /\ NothingLocal => SharedBudget
<1> SUFFICES ASSUME Core, NothingLocal, NEW k \in Keys, Guarded(k)
             PROVE  Cardinality(Kept(redis[k]) \cup UNION {Kept(mem[p][k]) : p \in Procs})
                        <= Max[k] + (IF redis[k] = Null THEN 0 ELSE redis[k].excess)
  BY DEF SharedBudget, Guarded
<1>1. UNION {Kept(mem[p][k]) : p \in Procs} = {}
  BY DEF NothingLocal, Kept
<1>2. Max[k] \in Nat /\ Budget(redis[k], Max[k])
  BY RateLimiterAssumption DEF Core, Budgets
<1>3. CASE redis[k] = Null
  <2> DEFINE all == Kept(redis[k]) \cup UNION {Kept(mem[p][k]) : p \in Procs}
  <2>1. all = {}
    BY <1>1, <1>3 DEF Kept
  <2> HIDE DEF all
  <2>2. Cardinality(all) = 0
    BY <2>1, EmptyKept
  <2>3. Cardinality(all) <= Max[k] + (IF redis[k] = Null THEN 0 ELSE redis[k].excess)
    BY <1>2, <1>3, <2>2
  <2> QED  BY <2>3 DEF all
<1>4. CASE redis[k] # Null
  BY <1>1, <1>2, <1>4 DEF Kept, Budget
<1> QED  BY <1>3, <1>4

-----------------------------------------------------------------------------
(* The end of a window *)

\* The counter c of Redis ends within a window.
Soon(c) == c # Null => c.reset <= now + Window /\ c.reset # Never

Windows ==
    /\ now <= MaxTime
    /\ \A k \in Keys : redis[k] # Null => redis[k].reset <= now + Window \/ redis[k].reset = Never

\* A request takes back only what was counted, with an expiry.
MayRefund(s) == \E x \in s.refunds : x[2] = "redis"
Healed ==
    \A r \in Requests : MayRefund(req[r]) => req[r].key \in Keys /\ Soon(redis[req[r].key])

Extends(c, d) ==
    /\ d # Null => d.reset <= now + Window /\ d.reset # Never
    /\ d # Null /\ c # Null /\ c.count > 0 /\ c.reset # Never => d.reset = c.reset

LEMMA IncrementedExtends ==
    ASSUME Core, Windows, NEW k \in Keys
    PROVE  Extends(redis[k], Incremented(redis[k]))
<1>1. now \in Nat /\ now <= MaxTime /\ now + Window \in Nat /\ now + Window < Never
  BY RateLimiterAssumption DEF Core, TypeOK, Windows, Never
<1> DEFINE c == redis[k]
<1>2. c \in Counter \cup {Null}
  BY DEF Core, TypeOK
<1>3. c # Null => c.reset <= now + Window \/ c.reset = Never
  BY DEF Windows
<1> SUFFICES Extends(c, Incremented(c))
  OBVIOUS
<1> HIDE DEF c
<1>4. CASE c = Null
  BY <1>1, <1>4 DEF Incremented, Extends
<1>5. CASE c # Null
  <2> DEFINE reset == IF c.count = 0 \/ c.reset = Never THEN now + Window ELSE c.reset
  <2>1. Incremented(c) = [c EXCEPT !.count = c.count + 1, !.reset = reset]
    BY <1>5 DEF Incremented
  <2>2. Incremented(c).reset = reset
    BY <1>2, <1>5, <2>1 DEF Counter
  <2> QED  BY <1>1, <1>2, <1>3, <1>5, <2>2 DEF Extends, Counter
<1> QED  BY <1>4, <1>5

LEMMA DecrementedExtends ==
    ASSUME Core, Windows, NEW k \in Keys, Soon(redis[k]), NEW x \in Passage
    PROVE  Extends(redis[k], Decremented(redis[k], x))
<1>1. now \in Nat /\ now <= MaxTime /\ now + Window \in Nat /\ now + Window < Never
  BY RateLimiterAssumption DEF Core, TypeOK, Windows, Never
<1> DEFINE c == redis[k]
<1>2. c \in Counter \cup {Null} /\ Budget(c, Max[k]) /\ Max[k] \in Nat /\ Soon(c)
  BY RateLimiterAssumption DEF Core, TypeOK, Budgets
<1> SUFFICES Extends(c, Decremented(c, x))
  OBVIOUS
<1> HIDE DEF c
<1>3. CASE c = Null
  BY <1>1, <1>3 DEF Decremented, Extends
<1>4. CASE c # Null
  <2> DEFINE d == Refunded(c, x)
  <2>1. d \in Counter /\ d.reset = c.reset /\ c \in Counter
    BY <1>2, <1>4, RefundedKeeps
  <2> HIDE DEF d
  <2>2. CASE c.count = 0
    <3>1. Decremented(c, x) = [d EXCEPT !.reset = now + Window]
      BY <1>4, <2>2 DEF Decremented, d
    <3> QED  BY <1>1, <2>1, <2>2, <3>1 DEF Extends, Counter
  <2>3. CASE c.count # 0
    <3>1. Decremented(c, x) = [d EXCEPT !.count = c.count - 1]
      BY <1>4, <2>3 DEF Decremented, d
    <3> QED  BY <1>1, <1>2, <1>4, <2>1, <3>1 DEF Extends, Soon, Counter
  <2> QED  BY <2>2, <2>3
<1> QED  BY <1>3, <1>4

\* What a step does to the counters of Redis.
RedisStep == \A k \in Keys : redis'[k] # redis[k] => Extends(redis[k], redis'[k])

\* Where a request may refund after a step, the counter is as it was or extended.
LEMMA HealedKept ==
    ASSUME RedisStep, UNCHANGED now,
           \A q \in Requests : MayRefund(req'[q]) =>
               /\ req'[q].key \in Keys
               /\ \/ Soon(redis[req'[q].key])
                  \/ Extends(redis[req'[q].key], redis'[req'[q].key])
    PROVE  Healed'
BY DEF Healed, RedisStep, Soon, Extends, MayRefund

LEMMA JudgedRefunds ==
    ASSUME Core, NEW r \in Requests, NEW c, NEW store, MayRefund(Judged(r, c, store))
    PROVE  /\ Judged(r, c, store).key = req[r].key
           /\ MayRefund(req[r]) \/ store = "redis"
<1> DEFINE s == req[r]
           refunds == s.refunds \cup {x \in {<<s.stage, store>>} : Limiter(s) \in Refunding}
<1>1. s \in Request
  BY DEF Core, TypeOK
<1>2. Judged(r, c, store) =
        IF ~Passes(s, c) THEN Ended
        ELSE IF s.stage < Len(Route[s.key])
        THEN [s EXCEPT !.pc = "counting", !.stage = s.stage + 1, !.refunds = refunds]
        ELSE [s EXCEPT !.pc = "handling", !.refunds = refunds]
  BY DEF Judged
<1>3. ~MayRefund(Ended)
  BY DEF MayRefund, Ended, NoRequest
<1>4. \A x \in refunds : x \in s.refunds \/ x[2] = store
  OBVIOUS
<1> HIDE DEF s, refunds
<1>5. Judged(r, c, store).key = s.key /\ Judged(r, c, store).refunds = refunds
  BY <1>1, <1>2, <1>3 DEF Request
<1> QED  BY <1>4, <1>5 DEF MayRefund, s

\* A step of r that leaves Redis alone and gives r nothing more to refund there.
LEMMA RedisAlone ==
    ASSUME Core, Healed, NEW r \in Requests, NEW next, Become(r, next),
           UNCHANGED <<redis, now>>,
           MayRefund(next) => MayRefund(req[r]) /\ next.key = req[r].key
    PROVE  RedisStep /\ Healed'
<1>1. RedisStep
  BY DEF RedisStep
<1>2. \A q \in Requests : req'[q] = IF q = r THEN next ELSE req[q]
  BY DEF Core, TypeOK, Become
<1>3. \A q \in Requests : MayRefund(req'[q]) => req'[q].key \in Keys /\ Soon(redis[req'[q].key])
  BY <1>2 DEF Healed
<1> QED  BY <1>1, <1>3, HealedKept

\* A step of r at the counter of its key in Redis.
LEMMA RedisWritten ==
    ASSUME Core, Healed, NEW r \in Requests, NEW next, Become(r, next), NEW d,
           req[r].key \in Keys, redis' = [redis EXCEPT ![req[r].key] = d], UNCHANGED now,
           Extends(redis[req[r].key], d),
           MayRefund(next) => next.key = req[r].key
    PROVE  RedisStep /\ Healed'
<1>1. RedisStep
  BY DEF Core, TypeOK, RedisStep
<1>2. \A q \in Requests : req'[q] = IF q = r THEN next ELSE req[q]
  BY DEF Core, TypeOK, Become
<1>3. Extends(redis[req[r].key], redis'[req[r].key])
  BY DEF Core, TypeOK
<1>4. \A q \in Requests : MayRefund(req'[q]) =>
        /\ req'[q].key \in Keys
        /\ \/ Soon(redis[req'[q].key])
           \/ Extends(redis[req'[q].key], redis'[req'[q].key])
  BY <1>2, <1>3 DEF Healed
<1> QED  BY <1>1, <1>4, HealedKept

LEMMA CountWindow ==
    ASSUME Core, Windows, Healed, NEW r \in Requests,
           \/ CountInRedis(r) \/ CountUnanswered(r)
           \/ \E counted \in BOOLEAN : RedisFails(r, counted)
    PROVE  RedisStep /\ Healed'
<1> DEFINE k == req[r].key
           c == Incremented(redis[k])
<1>1. req[r].pc = "counting" /\ req[r] \in Request
  BY DEF CountInRedis, CountUnanswered, RedisFails, Core, TypeOK
<1>2. /\ k \in Keys /\ req[r].stage \in Nat /\ Max[k] \in Nat /\ now \in Nat
      /\ redis[k] \in Counter \cup {Null} /\ Budget(redis[k], Max[k])
  BY <1>1, AtLimiter
<1>3. Extends(redis[k], c) /\ Grown(c, Max[k])
  BY <1>2, IncrementedExtends, IncrementedGrows
<1>4. CASE CountInRedis(r)
  <2>1. /\ redis' = [redis EXCEPT ![k] = Let(r, c)] /\ UNCHANGED now
        /\ Become(r, Judged(r, c, "redis"))
    BY <1>4 DEF CountInRedis
  <2>2. Let(r, c) \in Counter /\ Let(r, c).reset = c.reset
    BY <1>2, <1>3, LetHasBudget
  <2>3. c \in Counter /\ c # Null
    BY <1>3, NullIsNoCounter DEF Grown
  <2>4. Extends(redis[k], Let(r, c))
    BY <1>3, <2>2, <2>3 DEF Extends
  <2>5. MayRefund(Judged(r, c, "redis")) => Judged(r, c, "redis").key = k
    BY JudgedRefunds
  <2> HIDE DEF c
  <2> QED  BY <1>2, <2>1, <2>4, <2>5, RedisWritten
<1>5. ASSUME NEW counted \in BOOLEAN, RedisFails(r, counted) PROVE RedisStep /\ Healed'
  <2> DEFINE next == [req[r] EXCEPT !.pc = "erring"]
  <2>1. /\ redis' = IF counted THEN [redis EXCEPT ![k] = c] ELSE redis
        /\ Become(r, next) /\ UNCHANGED now
    BY <1>5 DEF RedisFails
  <2>2. next.key = k /\ next.refunds = req[r].refunds
    BY <1>1 DEF Request
  <2>3. MayRefund(next) <=> MayRefund(req[r])
    BY <2>2 DEF MayRefund
  <2> HIDE DEF c, next
  <2>4. CASE counted
    BY <1>2, <1>3, <2>1, <2>2, <2>4, RedisWritten
  <2>5. CASE ~counted
    BY <2>1, <2>2, <2>3, <2>5, RedisAlone
  <2> QED  BY <2>4, <2>5
<1>6. CASE CountUnanswered(r)
  <2>1. redis' = [redis EXCEPT ![k] = c] /\ UNCHANGED <<now, req>>
    BY <1>6 DEF CountUnanswered
  <2>2. Become(r, req[r])
    BY <2>1 DEF Become, Core, TypeOK
  <2> HIDE DEF c
  <2> QED  BY <1>2, <1>3, <2>1, <2>2, RedisWritten
<1> QED  BY <1>4, <1>5, <1>6

LEMMA AfterRefundRefunds ==
    ASSUME Core, NEW r \in Requests, NEW x, MayRefund(AfterRefund(r, x))
    PROVE  MayRefund(req[r]) /\ AfterRefund(r, x).key = req[r].key
<1> DEFINE s == [req[r] EXCEPT !.refunds = req[r].refunds \ {x}]
<1>1. ~MayRefund(Ended)
  BY DEF MayRefund, Ended, NoRequest
<1>2. AfterRefund(r, x) = s
  BY <1>1 DEF AfterRefund
<1>3. s.key = req[r].key /\ s.refunds \subseteq req[r].refunds
  BY DEF Core, TypeOK, Request
<1> HIDE DEF s
<1> QED  BY <1>2, <1>3 DEF MayRefund

LEMMA RefundWindow ==
    ASSUME Core, Windows, Healed, NEW r \in Requests, NEW stage,
           RefundInRedis(r, stage) \/ RefundUnanswered(r, stage) \/ RefundLocally(r, stage)
    PROVE  RedisStep /\ Healed'
<1>1. CASE RefundLocally(r, stage)
  BY <1>1, AfterRefundRefunds, RedisAlone DEF RefundLocally
<1>2. CASE RefundInRedis(r, stage) \/ RefundUnanswered(r, stage)
  <2> DEFINE k == req[r].key
             d == Decremented(redis[k], <<r, stage>>)
  <2>1. MayRefund(req[r])
    <3>1. <<stage, "redis">> \in req[r].refunds /\ <<stage, "redis">>[2] = "redis"
      BY <1>2 DEF RefundInRedis, RefundUnanswered
    <3> QED  BY <3>1 DEF MayRefund
  <2>2. k \in Keys /\ Soon(redis[k])
    BY <2>1 DEF Healed
  <2>3. <<r, stage>> \in Passage
    <3>1. req[r].refunds \in SUBSET (Nat \X {"redis", "memory"})
      BY DEF Core, TypeOK, Request
    <3> QED  BY <1>2, <3>1 DEF RefundInRedis, RefundUnanswered, Passage
  <2>4. Extends(redis[k], d)
    BY <2>2, <2>3, DecrementedExtends
  <2>5. PICK next \in {AfterRefund(r, <<stage, "redis">>), req[r]} :
             /\ redis' = [redis EXCEPT ![k] = d] /\ UNCHANGED now
             /\ Become(r, next)
    <3>1. UNCHANGED req => Become(r, req[r])
      BY DEF Become, Core, TypeOK
    <3> QED  BY <1>2, <3>1 DEF RefundInRedis, RefundUnanswered
  <2>6. MayRefund(next) => next.key = k
    BY AfterRefundRefunds
  <2> HIDE DEF d
  <2> QED  BY <2>2, <2>4, <2>5, <2>6, RedisWritten
<1> QED  BY <1>1, <1>2

LEMMA StepWindow == Core /\ Windows /\ Healed /\ [Next]_vars => RedisStep /\ Windows' /\ Healed'
<1> SUFFICES ASSUME Core, Windows, Healed, [Next]_vars PROVE RedisStep /\ Windows' /\ Healed'
  OBVIOUS
<1>1. ~MayRefund(NoRequest) /\ ~MayRefund(Ended)
  BY DEF MayRefund, Ended, NoRequest
<1>2. ASSUME NEW r \in Requests, Step(r) PROVE RedisStep /\ Healed'
  <2>1. ASSUME NEW p \in Procs, NEW k \in Keys, Arrive(r, p, k) PROVE RedisStep /\ Healed'
    <3> DEFINE next == [NoRequest EXCEPT !.pc = "counting", !.proc = p, !.key = k]
    <3>1. ~MayRefund(next)
      BY DEF MayRefund, NoRequest
    <3>2. Become(r, next) /\ UNCHANGED <<redis, now>>
      BY <2>1 DEF Arrive, counters
    <3> HIDE DEF next
    <3> QED  BY <3>1, <3>2, RedisAlone
  <2>2. CASE RejectUnavailable(r)
    BY <2>2, <1>1, RedisAlone DEF RejectUnavailable, counters
  <2>3. ASSUME NEW skipped \in BOOLEAN, Finish(r, skipped) PROVE RedisStep /\ Healed'
    <3> DEFINE next == [req[r] EXCEPT !.pc = "refunding"]
    <3>1. next.key = req[r].key /\ next.refunds = req[r].refunds
      BY DEF Core, TypeOK, Request
    <3>2. MayRefund(next) => MayRefund(req[r])
      BY <3>1 DEF MayRefund
    <3>3. (Become(r, next) \/ Become(r, Ended)) /\ UNCHANGED <<redis, now>>
      BY <2>3 DEF Finish, counters
    <3> HIDE DEF next
    <3> QED  BY <1>1, <3>1, <3>2, <3>3, RedisAlone
  <2>4. CASE CountLocally(r)
    <3>1. PICK c : Become(r, Judged(r, c, "memory")) /\ UNCHANGED <<redis, now>>
      BY <2>4 DEF CountLocally
    <3> QED  BY <3>1, JudgedRefunds, RedisAlone
  <2> QED  BY <1>2, <2>1, <2>2, <2>3, <2>4, CountWindow, RefundWindow DEF Step
<1>3. ASSUME Tick PROVE RedisStep /\ Healed'
  <2>1. RedisStep /\ \A k \in Keys : redis'[k] = Null \/ redis'[k] = redis[k]
    BY <1>3 DEF Tick, RedisStep, Extends
  <2>2. now \in Nat /\ now' = now + 1
    BY <1>3 DEF Tick, Core, TypeOK
  <2>3. Healed'
    <3>1. ASSUME NEW k \in Keys, Soon(redis[k]) PROVE Soon(redis[k])'
      BY <2>1, <2>2, <3>1, RateLimiterAssumption DEF Soon, Core, TypeOK, Counter
    <3> QED  BY <1>3, <3>1 DEF Tick, Healed, MayRefund
  <2> QED  BY <2>1, <2>3
<1>4. ASSUME NEW p \in Procs, Restart(p) PROVE RedisStep /\ Healed'
  <2>1. RedisStep /\ UNCHANGED now
    BY <1>4 DEF Restart, RedisStep
  <2>2. \A q \in Requests : req'[q] = IF req[q].proc = p THEN Ended ELSE req[q]
    BY <1>4 DEF Restart
  <2> QED  BY <1>1, <2>1, <2>2, HealedKept DEF Healed
<1>5. ASSUME UNCHANGED vars PROVE RedisStep /\ Healed'
  BY <1>5 DEF vars, counters, RedisStep, Healed, MayRefund, Soon
<1>6. RedisStep /\ Healed'
  BY <1>2, <1>3, <1>4, <1>5 DEF Next
<1>7. now \in Nat /\ now' \in Nat /\ now <= now' /\ now' <= MaxTime
  <2>1. CASE Tick
    BY <2>1, RateLimiterAssumption DEF Tick, Core, TypeOK
  <2>2. CASE ~Tick
    <3>1. UNCHANGED now
      BY <2>2 DEF Next, vars, Step, Arrive, CountInRedis, CountLocally, RejectUnavailable,
                  RedisFails, Finish, RefundInRedis, RefundLocally, Restart,
                  CountUnanswered, RefundUnanswered
    <3> QED  BY <3>1 DEF Core, TypeOK, Windows
  <2> QED  BY <2>1, <2>2
<1>8. Windows'
  <2>1. ASSUME NEW k \in Keys, redis'[k] # Null
        PROVE  redis'[k].reset <= now' + Window \/ redis'[k].reset = Never
    <3>1. redis'[k] \in Counter
      BY <2>1, StepCore DEF Core, TypeOK
    <3>2. redis'[k].reset <= now + Window \/ redis'[k].reset = Never
      BY <1>6, <2>1 DEF RedisStep, Extends, Windows
    <3> QED  BY <1>7, <3>1, <3>2, RateLimiterAssumption DEF Counter
  <2> QED  BY <1>7, <2>1 DEF Windows, Never
<1> QED  BY <1>6, <1>8

-----------------------------------------------------------------------------
(* Eviction *)

Bounded ==
    \A p \in Procs : IsFiniteSet(Stored(mem[p])) /\ Cardinality(Stored(mem[p])) <= MaxKeys

Size(m, n) == IsFiniteSet(Stored(m)) /\ Cardinality(Stored(m)) <= n

\* Live entries of m.
Running(m) == {j \in Keys : Live(m[j])}

\* l gives up live entries of m only when m is full of them, and one of the
\* first to end.
Evicts(m, l) ==
    \A k \in Keys : Live(m[k]) /\ l[k] = Null =>
        /\ Cardinality(Running(m)) = MaxKeys
        /\ \A j \in Keys : Live(m[j]) => m[k].reset <= m[j].reset

LEMMA SizeWithout ==
    ASSUME NEW m \in Stores, NEW ks, Size(m, MaxKeys)
    PROVE  Size(Without(m, ks), MaxKeys)
<1>1. Stored(Without(m, ks)) = Stored(m) \ ks
  BY WithoutType
<1>2. IsFiniteSet(Stored(m) \ ks) /\ Cardinality(Stored(m) \ ks) <= Cardinality(Stored(m))
  <2>1. Stored(m) \ ks \in SUBSET Stored(m)
    OBVIOUS
  <2> QED  BY <2>1, FS_Subset DEF Size
<1>3. Cardinality(Stored(m)) \in Nat /\ Cardinality(Stored(m) \ ks) \in Nat
  BY <1>2, CardinalityIsNat DEF Size
<1> QED  BY <1>1, <1>2, <1>3, RateLimiterAssumption DEF Size

\* Cleaning up takes away what is over.
LEMMA CleanedKeeps ==
    ASSUME Core, Bounded, NEW p \in Procs
    PROVE  /\ Cleaned(p) \in Stores /\ Size(Cleaned(p), MaxKeys)
           /\ \A j \in Keys : Live(mem[p][j]) => Cleaned(p)[j] = mem[p][j]
           /\ \A j \in Keys : Live(Cleaned(p)[j]) => Cleaned(p)[j] = mem[p][j]
<1>1. mem[p] \in Stores /\ Size(mem[p], MaxKeys) /\ now \in Nat
  BY DEF Core, TypeOK, Stores, Bounded, Size
<1>2. \A j \in Keys : Live(mem[p][j]) => j \notin Expired(mem[p])
  BY <1>1 DEF Live, Expired, Stored, Stores, Counter
<1> DEFINE w == Without(mem[p], Expired(mem[p]))
<1>3. w \in Stores /\ Size(w, MaxKeys)
  BY <1>1, WithoutType, SizeWithout
<1>4. \A j \in Keys : w[j] = IF j \in Expired(mem[p]) THEN Null ELSE mem[p][j]
  BY DEF Without
<1> HIDE DEF w
<1>5. Cleaned(p) = w \/ Cleaned(p) = mem[p]
  BY DEF Cleaned, w
<1> QED  BY <1>1, <1>2, <1>3, <1>4, <1>5 DEF Live

\* Where an entry is to be added there is room for it.
LEMMA EvictionMakesRoom ==
    ASSUME NEW m \in Stores, Size(m, MaxKeys), now \in Nat, NEW l \in AfterEviction(m)
    PROVE  Size(l, MaxKeys - 1) /\ l \in Stores /\ Evicts(m, l)
<1> DEFINE live == Without(m, Expired(m))
<1>1. live \in Stores /\ Size(live, MaxKeys) /\ Stored(live) = Stored(m) \ Expired(m)
  BY WithoutType, SizeWithout
<1>2. Cardinality(Stored(m)) \in Nat /\ Cardinality(Stored(live)) \in Nat
  BY <1>1, CardinalityIsNat DEF Size
<1>3. Running(m) = Stored(live)
  BY <1>1 DEF Running, Live, Expired, Stored, Stores, Counter
<1>4. \A j \in Keys : Live(m[j]) => live[j] = m[j] /\ j \in Stored(live)
  <2>1. \A j \in Keys : Live(m[j]) => j \in Running(m)
    BY DEF Running
  <2>2. \A j \in Stored(live) : j \in Keys /\ j \notin Expired(m)
    BY <1>1 DEF Stored
  <2> QED  BY <1>3, <2>1, <2>2 DEF Without
<1>5. AfterEviction(m) =
        IF Cardinality(Stored(m)) < MaxKeys THEN {m}
        ELSE IF Cardinality(Stored(live)) < MaxKeys THEN {live}
        ELSE {Without(live, {k}) : k \in Soonest(live)}
  BY DEF AfterEviction
<1> HIDE DEF live
<1>6. CASE Cardinality(Stored(m)) < MaxKeys
  <2>1. l = m
    BY <1>5, <1>6
  <2> QED  BY <1>2, <1>6, <2>1, RateLimiterAssumption DEF Size, Evicts, Live
<1>7. CASE ~(Cardinality(Stored(m)) < MaxKeys) /\ Cardinality(Stored(live)) < MaxKeys
  <2>1. l = live
    BY <1>5, <1>7
  <2>2. Size(l, MaxKeys - 1)
    <3>1. Cardinality(Stored(live)) <= MaxKeys - 1
      BY <1>2, <1>7, RateLimiterAssumption
    <3>2. Size(live, MaxKeys - 1)
      BY <1>1, <3>1 DEF Size
    <3> QED  BY <2>1, <3>2
  <2>3. Evicts(m, l)
    BY <1>4, <2>1 DEF Evicts, Live
  <2> QED  BY <1>1, <2>1, <2>2, <2>3
<1>8. CASE ~(Cardinality(Stored(m)) < MaxKeys) /\ ~(Cardinality(Stored(live)) < MaxKeys)
  <2>1. PICK k \in Soonest(live) : l = Without(live, {k})
    BY <1>5, <1>8
  <2>2. k \in Stored(live) /\ \A j \in Stored(live) : live[k].reset <= live[j].reset
    BY DEF Soonest
  <2>3. Cardinality(Stored(live)) = MaxKeys
    BY <1>1, <1>2, <1>8, RateLimiterAssumption DEF Size
  <2>4. l \in Stores /\ Stored(l) = Stored(live) \ {k}
    BY <1>1, <2>1, WithoutType
  <2>5. IsFiniteSet(Stored(l)) /\ Cardinality(Stored(l)) = MaxKeys - 1
    <3>1. /\ IsFiniteSet(Stored(live) \ {k})
          /\ Cardinality(Stored(live) \ {k}) =
                IF k \in Stored(live) THEN Cardinality(Stored(live)) - 1
                ELSE Cardinality(Stored(live))
      BY <1>1, FS_RemoveElement, Zenon DEF Size
    <3> QED  BY <2>2, <2>3, <2>4, <3>1
  <2>6. Size(l, MaxKeys - 1)
    BY <2>5, RateLimiterAssumption DEF Size
  <2>7. \A j \in Keys : Live(m[j]) /\ l[j] = Null => j = k
    BY <1>4, <2>1 DEF Live, Without
  <2>8. Evicts(m, l)
    <3>1. ASSUME NEW i \in Keys, Live(m[i]), l[i] = Null, NEW j \in Keys, Live(m[j])
          PROVE  m[i].reset <= m[j].reset
      <4>1. i = k
        BY <2>7, <3>1
      <4>2. live[i] = m[i] /\ live[j] = m[j] /\ j \in Stored(live)
        BY <1>4, <3>1
      <4> QED  BY <2>2, <4>1, <4>2
    <3> QED  BY <1>3, <2>3, <3>1 DEF Evicts
  <2> QED  BY <2>4, <2>6, <2>8
<1> QED  BY <1>6, <1>7, <1>8

\* What a step does to the memory store of process p.
MemStep(p) ==
    /\ Size(mem'[p], MaxKeys)
    /\ mem'[p] = Empty \/ Evicts(mem[p], mem'[p])

LEMMA CountLocallyEvicts ==
    ASSUME Core, Bounded, NEW r \in Requests, CountLocally(r), NEW o \in Procs
    PROVE  MemStep(o)
<1> DEFINE k == req[r].key
           p == req[r].proc
<1>1. req[r].pc \in {"counting", "erring"}
  BY DEF CountLocally, CountsLocally
<1>2. k \in Keys /\ p \in Procs /\ req[r].stage \in Nat /\ Max[k] \in Nat /\ now \in Nat
  BY <1>1, AtLimiter
<1> PICK m \in Room(p, k) :
      mem' = [mem EXCEPT ![p] = [m EXCEPT ![k] = Let(r, LocalIncremented(m[k]))]]
  BY DEF CountLocally
<1> DEFINE d == Let(r, LocalIncremented(m[k]))
           n == [m EXCEPT ![k] = d]
<1>3. m \in Stores /\ \A j \in Keys : m[j] = Null \/ m[j] = mem[p][j]
  BY <1>2, RoomEntries DEF Core
<1>4. d \in Counter /\ d # Null
  <2>1. m[k] \in Counter \cup {Null} /\ Budget(m[k], Max[k])
    BY <1>2, <1>3 DEF Core, Budgets, Budget, Stores
  <2>2. Grown(LocalIncremented(m[k]), Max[k])
    BY <1>2, <2>1, LocalIncrementedGrows
  <2> QED  BY <1>2, <2>2, LetHasBudget, NullIsNoCounter
<1>5. mem'[p] = n /\ \A q \in Procs \ {p} : mem'[q] = mem[q]
  BY <1>2 DEF Core, TypeOK
<1> HIDE DEF d
<1>6. n \in Stores /\ Stored(n) = Stored(m) \cup {k}
  BY <1>2, <1>3, <1>4 DEF Stores, Stored
<1>7. /\ Cleaned(p) \in Stores /\ Size(Cleaned(p), MaxKeys)
      /\ \A j \in Keys : Live(mem[p][j]) => Cleaned(p)[j] = mem[p][j]
      /\ \A j \in Keys : Live(Cleaned(p)[j]) => Cleaned(p)[j] = mem[p][j]
  BY <1>2, CleanedKeeps
<1>8. \A j \in Keys : j # k => n[j] = m[j]
  BY <1>3 DEF Stores
<1>9. n[k] # Null
  BY <1>2, <1>3, <1>4 DEF Stores
<1> HIDE DEF n, k, p
<1>10. ASSUME Cleaned(p)[k] # Null PROVE MemStep(p)
  <2>1. m = Cleaned(p)
    BY <1>10 DEF Room
  <2>2. Stored(n) = Stored(m)
    BY <1>2, <1>6, <1>10, <2>1 DEF Stored
  <2>3. Size(n, MaxKeys)
    BY <1>7, <2>1, <2>2 DEF Size
  <2>4. Evicts(mem[p], n)
    BY <1>7, <1>8, <1>9, <2>1 DEF Evicts, Live
  <2> QED  BY <1>5, <2>3, <2>4 DEF MemStep
<1>11. ASSUME Cleaned(p)[k] = Null PROVE MemStep(p)
  <2>1. m \in AfterEviction(Cleaned(p))
    BY <1>11 DEF Room
  <2>2. Size(m, MaxKeys - 1) /\ Evicts(Cleaned(p), m)
    BY <1>2, <1>7, <2>1, EvictionMakesRoom
  <2>3. Size(n, MaxKeys)
    <3>1. IsFiniteSet(Stored(m) \cup {k}) /\ Cardinality(Stored(m) \cup {k}) <= Cardinality(Stored(m)) + 1
      BY <2>2, OneMore DEF Size
    <3>2. Cardinality(Stored(m)) \in Nat /\ Cardinality(Stored(m) \cup {k}) \in Nat
      BY <2>2, <3>1, CardinalityIsNat DEF Size
    <3> QED  BY <1>6, <2>2, <3>1, <3>2, RateLimiterAssumption DEF Size
  <2>4. Evicts(mem[p], n)
    <3>1. Running(mem[p]) = Running(Cleaned(p))
      BY <1>7 DEF Running
    <3>2. \A j \in Keys : n[j] = Null => m[j] = Null
      BY <1>8, <1>9
    <3> QED  BY <1>7, <2>2, <3>1, <3>2 DEF Evicts
  <2> QED  BY <1>5, <2>3, <2>4 DEF MemStep
<1>12. MemStep(p)
  BY <1>10, <1>11
<1>13. ASSUME o # p PROVE MemStep(o)
  BY <1>5, <1>13 DEF MemStep, Bounded, Size, Evicts, Live
<1> QED  BY <1>12, <1>13

LEMMA RefundLocallyEvicts ==
    ASSUME Core, Bounded, NEW r \in Requests, NEW stage, RefundLocally(r, stage), NEW o \in Procs
    PROVE  MemStep(o)
<1> DEFINE k == req[r].key
           p == req[r].proc
           d == LocalDecremented(mem[p][k], <<r, stage>>)
<1>1. k \in Keys /\ p \in Procs /\ Max[k] \in Nat
  BY AtLimiter DEF RefundLocally
<1>2. <<r, stage>> \in Passage
  <2>1. req[r].refunds \in SUBSET (Nat \X {"redis", "memory"})
    BY DEF Core, TypeOK, Request
  <2> QED  BY <2>1 DEF RefundLocally, Passage
<1>3. mem[p][k] \in Counter \cup {Null} /\ Budget(mem[p][k], Max[k])
  BY <1>1 DEF Core, TypeOK, Budgets
<1>4. d = Null <=> mem[p][k] = Null
  BY <1>1, <1>2, <1>3, LocalDecrementedHasBudget
<1>5. mem' = [mem EXCEPT ![p] = [mem[p] EXCEPT ![k] = d]]
  BY DEF RefundLocally
<1> HIDE DEF d, k, p
<1>6. \A j \in Keys : mem'[o][j] = Null <=> mem[o][j] = Null
  BY <1>1, <1>4, <1>5 DEF Core, TypeOK
<1>7. Stored(mem'[o]) = Stored(mem[o])
  BY <1>6 DEF Stored
<1> QED  BY <1>6, <1>7 DEF MemStep, Bounded, Size, Evicts, Live

LEMMA StepEvicts == Core /\ Bounded /\ [Next]_vars => Bounded' /\ \A p \in Procs : MemStep(p)
<1> SUFFICES ASSUME Core, Bounded, [Next]_vars, NEW p \in Procs PROVE MemStep(p)
  BY DEF MemStep, Size, Bounded
<1>1. ASSUME UNCHANGED mem PROVE MemStep(p)
  BY <1>1 DEF MemStep, Bounded, Size, Evicts, Live
<1>2. ASSUME NEW r \in Requests, Step(r) PROVE MemStep(p)
  <2>1. CASE \/ \E q \in Procs, k \in Keys : Arrive(r, q, k)
             \/ CountInRedis(r) \/ CountUnanswered(r) \/ RejectUnavailable(r)
             \/ \E counted \in BOOLEAN : RedisFails(r, counted)
             \/ \E skipped \in BOOLEAN : Finish(r, skipped)
             \/ \E stage \in {x[1] : x \in req[r].refunds} :
                  RefundInRedis(r, stage) \/ RefundUnanswered(r, stage)
    BY <2>1, <1>1
       DEF Arrive, CountInRedis, CountUnanswered, RejectUnavailable, RedisFails, Finish,
           RefundInRedis, RefundUnanswered, counters
  <2> QED  BY <1>2, <2>1, CountLocallyEvicts, RefundLocallyEvicts DEF Step
<1>3. CASE Tick \/ UNCHANGED vars
  BY <1>1, <1>3 DEF Tick, vars, counters
<1>4. ASSUME NEW q \in Procs, Restart(q) PROVE MemStep(p)
  <2>1. mem'[p] = Empty \/ mem'[p] = mem[p]
    BY <1>4 DEF Restart, Core, TypeOK
  <2>2. Size(Empty, MaxKeys)
    <3>1. Stored(Empty) = {}
      BY DEF Stored, Empty
    <3> QED  BY <3>1, EmptyKept, RateLimiterAssumption DEF Size
  <2> QED  BY <2>1, <2>2 DEF MemStep, Bounded, Size, Evicts, Live
<1> QED  BY <1>2, <1>3, <1>4 DEF Next

-----------------------------------------------------------------------------
(* The theorems *)

IInv ==
    /\ Core
    /\ NothingLocal
    /\ Windows
    /\ Healed
    /\ Bounded

LEMMA InitInv == Init => IInv
<1> SUFFICES ASSUME Init PROVE IInv
  OBVIOUS
<1>1. Core
  BY InitType DEF Core
<1>2. NothingLocal
  BY DEF Init, NothingLocal, Empty
<1>3. Windows
  <2>1. ASSUME NEW k \in Keys, redis[k] # Null PROVE redis[k].reset = Never
    BY <2>1 DEF Init
  <2> QED  BY <2>1, RateLimiterAssumption DEF Init, Windows
<1>4. Healed
  BY DEF Init, Healed, MayRefund, NoRequest
<1>5. Bounded
  <2>1. ASSUME NEW p \in Procs
        PROVE  IsFiniteSet(Stored(mem[p])) /\ Cardinality(Stored(mem[p])) <= MaxKeys
    <3>1. Stored(mem[p]) = {}
      BY DEF Init, Stored, Empty
    <3> QED  BY <3>1, EmptyKept, RateLimiterAssumption
  <2> QED  BY <2>1 DEF Bounded
<1> QED  BY <1>1, <1>2, <1>3, <1>4, <1>5 DEF IInv

LEMMA Inductive == Spec => []IInv
<1>1. IInv /\ [Next]_vars => IInv'
  BY StepCore, StepLocal, StepWindow, StepEvicts DEF IInv
<1> QED  BY <1>1, InitInv, PTL DEF Spec

\* Counters and requests have the shape the code gives them.
THEOREM TypeCorrect == Spec => []TypeOK
<1>1. IInv => TypeOK
  BY DEF IInv, Core
<1> QED  BY <1>1, Inductive, PTL

\* Neither store lets more through in a window than maxRequests, refunds apart,
\* whatever the number of processes and requests and the limiters of a route.
THEOREM BudgetHolds == Spec => []WindowBudget
<1>1. IInv => WindowBudget
  BY BudgetIsWithin DEF IInv, Core, Budgets, WindowBudget
<1> QED  BY <1>1, Inductive, PTL

\* RATE_LIMIT_FAIL_CLOSED with critical limiters: the processes together stay
\* within the budget, for any number of them.
THEOREM FailingClosedHolds == Spec => []SharedBudget
<1>1. IInv => SharedBudget
  BY WithinShared DEF IInv
<1> QED  BY <1>1, Inductive, PTL

\* The Redis scripts give every counter they touch an end and do not move it,
\* for any window and any order of increments, refunds and lost answers.
THEOREM WindowsEnd == Spec => WindowEnds
<1>1. IInv /\ [Next]_vars =>
        [\A k \in Keys : redis'[k] # redis[k] /\ redis'[k] # Null =>
            /\ redis'[k].reset <= now + Window
            /\ redis[k] # Null /\ redis[k].count > 0 /\ redis[k].reset # Never =>
                 redis'[k].reset = redis[k].reset]_vars
  BY StepWindow DEF IInv, RedisStep, Extends
<1> QED  BY <1>1, Inductive, PTL DEF Spec, WindowEnds

\* evictIfFull keeps a memory store within maxKeys and takes what ends first, for
\* any set of keys.
THEOREM EvictionIsFair == Spec => EvictsLast
<1>1. IInv /\ [Next]_vars =>
        [\A p \in Procs :
           /\ Cardinality(Stored(mem'[p])) <= MaxKeys
           /\ \A k \in Keys :
                Live(mem[p][k]) /\ mem'[p][k] = Null =>
                   \/ mem'[p] = Empty
                   \/ /\ Cardinality({j \in Keys : Live(mem[p][j])}) = MaxKeys
                      /\ \A j \in Keys : Live(mem[p][j]) => mem[p][k].reset <= mem[p][j].reset]_vars
  BY StepEvicts DEF IInv, MemStep, Size, Evicts, Running
<1> QED  BY <1>1, Inductive, PTL DEF Spec, EvictsLast
=============================================================================
