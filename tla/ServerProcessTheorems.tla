------------------------ MODULE ServerProcessTheorems ------------------------
(* Theorems about ServerProcess, for any jobs, connections and times. *)
EXTENDS ServerProcess, TLAPS

-----------------------------------------------------------------------------
(* The invariant *)

JobsKnown == \A j \in Jobs : runs[j] = (IF j \in inFlight THEN 1 ELSE 0)

\* How far a shutdown has come, and what is closed by then.
Stages ==
    /\ shuttingDown <=> ~listening
    /\ shuttingDown <=> ~interval
    /\ shuttingDown <=> closing # "none"
    /\ closing \notin {"none", "server"} => \A c \in Connections : conn[c] \in {"none", "aborted"}
    /\ ~store \/ exit = "graceful" \/ flushIn["shutdown"] # Off => closing \in {"flush", "nothing"}

\* The forced exit is still to come, and in time, or its flush is under way.
Deadline ==
    /\ forceIn # Off => elapsed + forceIn <= Grace
    /\ shuttingDown /\ Running /\ forceIn = Off =>
         flushIn["forced"] # Off /\ elapsed + flushIn["forced"] <= Grace + FlushTime

Inv ==
    /\ TypeOK
    /\ JobsKnown
    /\ Stages
    /\ ~shuttingDown => elapsed = 0
    /\ Deadline

-----------------------------------------------------------------------------
(* Each step keeps it *)

LEMMA InitInv == Init => Inv
<1> SUFFICES ASSUME Init PROVE Inv
  OBVIOUS
<1>1. {listening, interval, shuttingDown, store} \subseteq BOOLEAN
  BY Zenon DEF Init
<1>2. TypeOK
  BY <1>1, ServerProcessAssumption DEF Init, TypeOK, Timer, Late
<1>3. JobsKnown /\ Stages /\ Deadline /\ (~shuttingDown => elapsed = 0)
  BY ServerProcessAssumption DEF Init, JobsKnown, Stages, Deadline, Flushes
<1> QED  BY <1>2, <1>3 DEF Inv

\* Requests touch the connections only, and none comes from an ended one.
LEMMA ConnectionInv ==
    ASSUME Inv, NEW c \in Connections,
           \/ Accept(c) \/ Disconnect(c) \/ Abort(c) \/ HandlerEnds(c)
           \/ \E after \in {"none", "idle"} : Answer(c, after)
    PROVE  Inv'
<1>1. /\ UNCHANGED <<listening, maintenance, ending>>
      /\ conn' \in [Connections -> {"none", "busy", "idle", "aborted"}]
      /\ (\A x \in Connections : conn[x] \in {"none", "aborted"}) /\ ~listening
           => \A x \in Connections : conn'[x] \in {"none", "aborted"}
  BY DEF Accept, Disconnect, Abort, HandlerEnds, Answer, Inv, TypeOK
<1>2. TypeOK' /\ JobsKnown' /\ Deadline' /\ (~shuttingDown => elapsed = 0)'
  BY <1>1 DEF Inv, TypeOK, JobsKnown, Deadline, maintenance, ending, Running
<1>3. Stages'
  BY <1>1 DEF Inv, Stages, maintenance, ending
<1> QED  BY <1>2, <1>3 DEF Inv

\* Runs start with the interval only, each where none is under way.
LEMMA MaintenanceInv ==
    ASSUME Inv, RunMaintenance \/ \E j \in Jobs, failed \in BOOLEAN : RunEnds(j, failed)
    PROVE  Inv'
<1>1. UNCHANGED <<listening, conn, interval, ending>>
  BY DEF RunMaintenance, RunEnds
<1>2. inFlight' \subseteq Jobs /\ runs' \in [Jobs -> {0, 1}] /\ JobsKnown'
  <2>1. CASE RunMaintenance
    BY <2>1 DEF RunMaintenance, Startable, Inv, TypeOK, JobsKnown, Stages
  <2>2. ASSUME NEW j \in Jobs, NEW failed \in BOOLEAN, RunEnds(j, failed)
        PROVE  inFlight' \subseteq Jobs /\ runs' \in [Jobs -> {0, 1}] /\ JobsKnown'
    BY <2>2 DEF RunEnds, FreedBy, Inv, TypeOK, JobsKnown
  <2> QED  BY <2>1, <2>2
<1>3. TypeOK' /\ Stages' /\ Deadline' /\ (~shuttingDown => elapsed = 0)'
  BY <1>1, <1>2 DEF Inv, TypeOK, Stages, Deadline, ending, Running
<1> QED  BY <1>2, <1>3 DEF Inv

\* The first signal arms the timer, and only a flush takes its place.
LEMMA EndingInv ==
    ASSUME Inv, Running,
           \/ Signal \/ ServerClosed \/ ForceExit
           \/ \E failed \in BOOLEAN : CloseStore(failed)
           \/ \E w \in Flushes : FlushEnds(w)
           \/ FlushFails \/ LoopEnds \/ Crash
    PROVE  Inv'
<1> USE ServerProcessAssumption DEF Timer, Late
<1>1. CASE Signal
  <2>1. {listening', interval', shuttingDown', store'} \subseteq BOOLEAN
    BY <1>1, Zenon DEF Signal, Inv, TypeOK
  <2>2. TypeOK' /\ JobsKnown'
    BY <1>1, <2>1 DEF Signal, AfterSignal, Inv, TypeOK, JobsKnown
  <2>3. Stages'
    BY <1>1 DEF Signal, AfterSignal, Inv, Stages
  <2>4. Deadline' /\ (~shuttingDown => elapsed = 0)'
    BY <1>1 DEF Signal, Inv, Deadline
  <2> QED  BY <2>2, <2>3, <2>4 DEF Inv
<1>2. CASE ServerClosed
  BY <1>2 DEF ServerClosed, TimerAfterClose, Inv, TypeOK, JobsKnown, Stages, Deadline, Running, maintenance
<1>3. CASE ForceExit
  <2>1. forceIn # Off /\ forceIn' = Off /\ flushIn' = [flushIn EXCEPT !["forced"] = FlushTime]
        /\ UNCHANGED <<listening, conn, maintenance, shuttingDown, closing, store, exit, elapsed>>
    BY <1>3 DEF ForceExit, Flushing
  <2>2. TypeOK' /\ JobsKnown' /\ Stages' /\ (~shuttingDown => elapsed = 0)'
    BY <2>1 DEF Inv, TypeOK, JobsKnown, Stages, maintenance, Flushes
  <2>3. Deadline'
    BY <1>3, <2>1 DEF ForceExit, Inv, TypeOK, Deadline, Running, Flushes
  <2> QED  BY <2>1, <2>2, <2>3 DEF Inv, maintenance
<1>4. ASSUME NEW failed \in BOOLEAN, CloseStore(failed) PROVE Inv'
  BY <1>4 DEF CloseStore, Flushing, Flushes, Inv, TypeOK, JobsKnown, Stages, Deadline, Running, maintenance
<1>5. ASSUME NEW w \in Flushes, FlushEnds(w) PROVE Inv'
  BY <1>5 DEF FlushEnds, Flushes, Inv, TypeOK, JobsKnown, Stages, Deadline, Running, maintenance
<1>6. CASE FlushFails
  BY <1>6 DEF FlushFails, Flushes, Inv, TypeOK, JobsKnown, Stages, Deadline, Running, maintenance
<1>7. CASE LoopEnds
  BY <1>7 DEF LoopEnds, Inv, TypeOK, JobsKnown, Stages, Deadline, Running, maintenance
<1>8. CASE Crash
  BY <1>8 DEF Crash, Flushing, Flushes, Inv, TypeOK, JobsKnown, Stages, Deadline, Running, maintenance
<1> QED  BY <1>1, <1>2, <1>3, <1>4, <1>5, <1>6, <1>7, <1>8

\* What a timer loses the clock gains, and no timer passes zero.
LEMMA TickInv == ASSUME Inv, Tick PROVE Inv'
<1> USE ServerProcessAssumption DEF Timer, Late
<1>1. /\ UNCHANGED <<listening, conn, maintenance, shuttingDown, closing, store, exit>>
      /\ forceIn' = Less(forceIn) /\ flushIn' = [w \in Flushes |-> Less(flushIn[w])]
      /\ elapsed' = IF shuttingDown /\ elapsed < Grace + FlushTime + 1 THEN elapsed + 1 ELSE elapsed
      /\ forceIn # 0 /\ \A w \in Flushes : flushIn[w] # 0
  BY DEF Tick, Due
<1>2. /\ forceIn' \in Timer(Grace) /\ (forceIn # Off => forceIn' # Off /\ forceIn' = forceIn - 1)
      /\ flushIn' \in [Flushes -> Timer(FlushTime)]
      /\ \A w \in Flushes : (flushIn[w] = Off <=> flushIn'[w] = Off)
                             /\ (flushIn[w] # Off => flushIn'[w] = flushIn[w] - 1)
  BY <1>1 DEF Less, Inv, TypeOK
<1>3. TypeOK' /\ JobsKnown' /\ Stages' /\ (~shuttingDown => elapsed = 0)'
  <2>1. elapsed' \in 0 .. Grace + FlushTime + 1
    BY <1>1 DEF Inv, TypeOK
  <2> QED  BY <1>1, <1>2, <2>1 DEF Inv, TypeOK, JobsKnown, Stages, maintenance, Flushes
<1>4. Deadline'
  <2>1. ASSUME forceIn' # Off PROVE elapsed' + forceIn' <= Grace
    BY <1>1, <1>2, <2>1 DEF Inv, TypeOK, Deadline, Less
  <2>2. ASSUME shuttingDown, Running, forceIn' = Off
        PROVE  flushIn'["forced"] # Off /\ elapsed' + flushIn'["forced"] <= Grace + FlushTime
    BY <1>1, <1>2, <2>2 DEF Inv, TypeOK, Deadline, Flushes, Less
  <2> QED  BY <1>1, <2>1, <2>2 DEF Deadline, Running
<1> QED  BY <1>1, <1>3, <1>4 DEF Inv, maintenance

LEMMA StepInv == Inv /\ [Next]_vars => Inv'
<1> SUFFICES ASSUME Inv, [Next]_vars PROVE Inv'
  OBVIOUS
<1>1. CASE UNCHANGED vars
  BY <1>1 DEF vars, maintenance, ending, Inv, TypeOK, JobsKnown, Stages, Deadline, Running
<1>2. CASE Next
  BY <1>2, ConnectionInv, MaintenanceInv, EndingInv, TickInv DEF Next, Step
<1> QED  BY <1>1, <1>2

LEMMA AlwaysInv == Spec => []Inv
  BY InitInv, StepInv, PTL DEF Spec

-----------------------------------------------------------------------------
(* Theorems *)

\* The state of the process has its type, and every job one run at most
\* (runMaintenanceJob).
THEOREM TypeCorrect == Spec => []TypeOK
<1>1. Inv => TypeOK
  BY DEF Inv
<1> QED  BY <1>1, AlwaysInv, PTL

\* A request whose client waits is cut off neither by the closing of the store nor
\* by a graceful exit, for any number of connections (shutdown).
THEOREM GracefulExitServes == Spec => []RequestsServed
<1>1. Inv => RequestsServed
  BY DEF Inv, Stages, RequestsServed
<1> QED  BY <1>1, AlwaysInv, PTL

\* The forced exit keeps its time, whatever else hangs (forceExitTimer).
THEOREM ExitIsInTime == Spec => []ExitsInTime
<1>1. Inv => ExitsInTime
  BY ServerProcessAssumption DEF Inv, TypeOK, Deadline, ExitsInTime, Timer, Flushes
<1> QED  BY <1>1, AlwaysInv, PTL
=============================================================================
