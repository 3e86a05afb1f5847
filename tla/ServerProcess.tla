---------------------------- MODULE ServerProcess ----------------------------
(***************************************************************************)
(* One server process: its connections, the hourly maintenance jobs, and   *)
(* how it ends.  A signal closes the HTTP server, then the rate-limit      *)
(* store, then flushes the error monitoring, while a timer that forces the *)
(* exit runs; an uncaught exception flushes and exits whatever goes on.    *)
(***************************************************************************)
EXTENDS Naturals

CONSTANTS
    Jobs, Connections,
    Grace,       \* GRACEFUL_SHUTDOWN_TIMEOUT_MS
    FlushTime,   \* timeoutMs of flushErrorMonitoring
    Off          \* no timer

ASSUME ServerProcessAssumption ==
    Grace \in Nat /\ FlushTime \in Nat /\ Off \notin Nat

VARIABLES
    listening,     \* the HTTP server accepts connections
    conn,          \* the connections: "none", "busy" with a request, kept alive "idle",
                   \* or "aborted" by the client while the handler goes on
    interval,      \* maintenanceInterval is set
    inFlight,      \* the jobs whose last run has not finished
    runs,          \* history: runs of each job under way
    shuttingDown,
    closing,       \* what a shutdown awaits
    forceIn,       \* the timer that forces the exit
    flushIn,       \* the flushes under way: when they give up
    store,         \* the rate-limit store is open
    exit,          \* "running", or how the process has exited
    elapsed        \* history: time since the signal

maintenance == <<interval, inFlight, runs>>
ending == <<shuttingDown, closing, forceIn, flushIn, store, exit, elapsed>>
vars == <<listening, conn, maintenance, ending>>

Flushes == {"shutdown", "forced", "crash"}
Timer(limit) == 0 .. limit \cup {Off}
Late == Grace + FlushTime + 1

\* A job has one run under way at most.
TypeOK ==
    /\ {listening, interval, shuttingDown, store} \subseteq BOOLEAN
    /\ conn \in [Connections -> {"none", "busy", "idle", "aborted"}]
    /\ inFlight \subseteq Jobs /\ runs \in [Jobs -> {0, 1}]
    /\ closing \in {"none", "server", "store", "flush", "nothing"}
    /\ forceIn \in Timer(Grace) /\ flushIn \in [Flushes -> Timer(FlushTime)]
    /\ exit \in {"running", "graceful", "failure"}
    /\ elapsed \in 0 .. Late

\* server.ts has been loaded; startMaintenanceJobs runs both jobs at once.
Init ==
    /\ listening = TRUE /\ conn = [c \in Connections |-> "none"]
    /\ interval = TRUE /\ inFlight = Jobs /\ runs = [j \in Jobs |-> 1]
    /\ shuttingDown = FALSE /\ closing = "none"
    /\ forceIn = Off /\ flushIn = [w \in Flushes |-> Off]
    /\ store = TRUE /\ exit = "running" /\ elapsed = 0

-----------------------------------------------------------------------------
(* Requests *)

Accept(c) ==
    /\ \/ listening /\ conn[c] = "none"
       \/ conn[c] = "idle"
    /\ conn' = [conn EXCEPT ![c] = "busy"]
    /\ UNCHANGED <<listening, maintenance, ending>>

\* The answer; the connection may be kept alive, even on a server that closes.
Answer(c, after) ==
    /\ conn[c] = "busy" /\ after \in {"none", "idle"}
    /\ conn' = [conn EXCEPT ![c] = after]
    /\ UNCHANGED <<listening, maintenance, ending>>

\* The client or the keep-alive timeout ends it.
Disconnect(c) ==
    /\ conn[c] = "idle"
    /\ conn' = [conn EXCEPT ![c] = "none"]
    /\ UNCHANGED <<listening, maintenance, ending>>

\* The client goes away before it has its answer.  The handler does not notice:
\* it runs to its end for nobody, and the server knows no connection any more.
Abort(c) ==
    /\ conn[c] = "busy"
    /\ conn' = [conn EXCEPT ![c] = "aborted"]
    /\ UNCHANGED <<listening, maintenance, ending>>

HandlerEnds(c) ==
    /\ conn[c] = "aborted"
    /\ conn' = [conn EXCEPT ![c] = "none"]
    /\ UNCHANGED <<listening, maintenance, ending>>

-----------------------------------------------------------------------------
(* maintenanceJobs.ts *)

\* Mutant: no look at inFlight.
Startable_Always(j) == TRUE

Startable(j) == j \notin inFlight

RunMaintenance ==
    /\ interval
    /\ inFlight' = Jobs
    /\ runs' = [j \in Jobs |-> IF Startable(j) THEN runs[j] + 1 ELSE runs[j]]
    /\ UNCHANGED <<listening, conn, interval, ending>>

\* Mutant: the name is removed after a success only.
FreedBy_Success(failed) == ~failed

\* It is removed in the finally.
FreedBy(failed) == TRUE

RunEnds(j, failed) ==
    /\ runs[j] > 0
    /\ runs' = [runs EXCEPT ![j] = runs[j] - 1]
    /\ inFlight' = IF FreedBy(failed) THEN inFlight \ {j} ELSE inFlight
    /\ UNCHANGED <<listening, conn, interval, ending>>

-----------------------------------------------------------------------------
(* Shutdown *)

Flushing(w) == flushIn' = [flushIn EXCEPT ![w] = FlushTime]

\* Mutant: the store is closed beside server.close, not in its callback.
AfterSignal_Store == "store"

\* What a shutdown awaits first: server.close.
AfterSignal == "server"

\* SIGTERM or SIGINT.  Maintenance stops, and idle connections are closed.
Signal ==
    /\ ~shuttingDown
    /\ shuttingDown' = TRUE
    /\ interval' = FALSE
    /\ forceIn' = Grace
    /\ closing' = AfterSignal
    /\ listening' = FALSE
    /\ conn' = [c \in Connections |-> IF conn[c] = "idle" THEN "none" ELSE conn[c]]
    /\ UNCHANGED <<inFlight, runs, flushIn, store, exit, elapsed>>

\* Mutant: the timer is cleared as soon as the server has closed.
TimerAfterClose_Cleared == Off

TimerAfterClose == forceIn

\* server.close calls back when the last connection has ended.
ServerClosed ==
    /\ closing = "server" /\ \A c \in Connections : conn[c] \in {"none", "aborted"}
    /\ closing' = "store" /\ forceIn' = TimerAfterClose
    /\ UNCHANGED <<listening, conn, maintenance, shuttingDown, flushIn, store, exit, elapsed>>

\* closeRateLimitStore; an error is logged.
CloseStore(failed) ==
    /\ closing = "store"
    /\ store' = failed
    /\ closing' = "flush" /\ Flushing("shutdown")
    /\ UNCHANGED <<listening, conn, maintenance, shuttingDown, forceIn, exit, elapsed>>

ForceExit ==
    /\ forceIn = 0
    /\ forceIn' = Off /\ Flushing("forced")
    /\ UNCHANGED <<listening, conn, maintenance, shuttingDown, closing, store, exit, elapsed>>

\* A flush has succeeded or given up.
FlushEnds(w) ==
    /\ flushIn[w] # Off
    /\ exit' = IF w = "shutdown" THEN "graceful" ELSE "failure"
    /\ UNCHANGED <<listening, conn, maintenance, shuttingDown, closing, forceIn, flushIn, store, elapsed>>

\* It rejects: only the shutdown has no finally, and goes no further.
FlushFails ==
    /\ flushIn["shutdown"] # Off
    /\ closing' = "nothing" /\ flushIn' = [flushIn EXCEPT !["shutdown"] = Off]
    /\ UNCHANGED <<listening, conn, maintenance, shuttingDown, forceIn, store, exit, elapsed>>

\* Nothing keeps the event loop alive, no handler and no run of a job; the timer of
\* the forced exit is unref'd.
LoopEnds ==
    /\ closing = "nothing" /\ \A w \in Flushes : flushIn[w] = Off
    /\ ~interval /\ \A j \in Jobs : runs[j] = 0
    /\ \A c \in Connections : conn[c] = "none"
    /\ exit' = "graceful"
    /\ UNCHANGED <<listening, conn, maintenance, shuttingDown, closing, forceIn, flushIn, store, elapsed>>

\* An uncaught exception: what is under way goes on until the flush ends.
Crash ==
    /\ flushIn["crash"] = Off /\ Flushing("crash")
    /\ UNCHANGED <<listening, conn, maintenance, shuttingDown, closing, forceIn, store, exit, elapsed>>

\* Time passes, but not beyond a timer that is due.  elapsed stops at Late.
Due == forceIn = 0 \/ \E w \in Flushes : flushIn[w] = 0
Less(timer) == IF timer = Off THEN Off ELSE timer - 1
Tick ==
    /\ ~Due
    /\ forceIn' = Less(forceIn) /\ flushIn' = [w \in Flushes |-> Less(flushIn[w])]
    /\ elapsed' = IF shuttingDown /\ elapsed < Late THEN elapsed + 1 ELSE elapsed
    /\ UNCHANGED <<listening, conn, maintenance, shuttingDown, closing, store, exit>>

-----------------------------------------------------------------------------
(* The specification *)

Running == exit = "running"

Step ==
    \/ \E c \in Connections :
         \/ Accept(c) \/ Disconnect(c) \/ Abort(c) \/ HandlerEnds(c)
         \/ \E after \in {"none", "idle"} : Answer(c, after)
    \/ RunMaintenance \/ \E j \in Jobs, failed \in BOOLEAN : RunEnds(j, failed)
    \/ Signal \/ ServerClosed \/ ForceExit
    \/ \E failed \in BOOLEAN : CloseStore(failed)
    \/ \E w \in Flushes : FlushEnds(w)
    \/ FlushFails \/ LoopEnds \/ Crash
    \/ Tick

Next == Running /\ Step

Spec == Init /\ [][Next]_vars

\* The hourly timer goes off, and runs of jobs end: their calls have timeouts.
Fairness ==
    /\ WF_vars(Running /\ RunMaintenance)
    /\ \A j \in Jobs : WF_vars(Running /\ \E failed \in BOOLEAN : RunEnds(j, failed))

FairSpec == Spec /\ Fairness

-----------------------------------------------------------------------------
(* Properties *)

\* Neither a store that is closed nor a graceful exit cuts off a request whose
\* client waits for the answer, whatever connections are kept alive, used again or
\* aborted while the server closes, and however it gets to its exit.
RequestsServed ==
    ~store \/ exit = "graceful" => \A c \in Connections : conn[c] # "busy"

\* A process that was signalled is gone by the end of its grace and one flush,
\* whatever hangs: a request, the store or the first flush.
ExitsInTime == shuttingDown /\ Running => elapsed <= Grace + FlushTime

\* While the process serves, every job runs again and again: a run that fails
\* or takes longer than an hour does not keep it from running later.
JobsGoOn == \A j \in Jobs : []<>(runs[j] > 0 \/ shuttingDown \/ ~Running)

-----------------------------------------------------------------------------
(* What the code does not have *)

\* A graceful exit lets every handler come to its end: it cuts off those whose
\* client has gone, between two writes of theirs.
HandlersFinish == exit = "graceful" => \A c \in Connections : conn[c] # "aborted"
=============================================================================
