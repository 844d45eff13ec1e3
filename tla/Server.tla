-------------------------------- MODULE Server --------------------------------
(***************************************************************************)
(* The running server: the listener goroutine, the signal and the shutdown *)
(* of main.go, the handlers of handler.go, and the connection pool they    *)
(* share (db.Open, db.Ping in infra/db/db.go).                             *)
(*                                                                         *)
(* A request is a goroutine of net/http: it waits for one of the pool's    *)
(* connections, uses it and is answered.  SIGTERM starts                   *)
(* http.Server.Shutdown, which lets requests under way finish for 10       *)
(* seconds; then run returns, its deferred Close closes the pool, and the  *)
(* process exits whatever its goroutines are doing.                        *)
(***************************************************************************)
EXTENDS Naturals, FiniteSets

CONSTANTS
  Req,       \* requests under way at a time; one that is over may come again
  Kind,      \* Kind[r]: "list" (/v1/projects), "probe" (/readyz), "health"
  MaxConns,  \* SetMaxOpenConns, 20 in the code
  MaxFaults  \* bound on outages, slow statements, failures and kills

ASSUME ServerAssumption ==
  /\ IsFiniteSet(Req)
  /\ Kind \in [Req -> {"list", "probe", "health"}]
  /\ MaxConns \in Nat \ {0}
  /\ MaxFaults \in Nat

VARIABLES
  main,     \* where run stands
  listener, \* where the listener goroutine stands
  code,     \* the exit status of the process
  late,     \* Shutdown has timed out
  at,       \* where each request stands
  reply,    \* the status it was answered with
  pool,     \* the requests that hold a connection
  closed,   \* the pool is closed
  up,       \* the database answers
  faults    \* faults so far, at most MaxFaults

server   == <<main, listener, code, late>>
requests == <<at, reply, pool>>
vars     == <<server, requests, closed, up, faults>>

Active(r) == at[r] \in {"waiting", "using"}

TypeOK ==
  /\ main \in {"serving", "draining", "closing", "returning", "exited"}
  /\ listener \in {"new", "binding", "open", "closed"}
  /\ code \in {"none", "0", "1", "killed"}
  /\ late \in BOOLEAN
  /\ at \in [Req -> {"new", "waiting", "using", "done", "cut"}]
  /\ reply \in [Req -> {"none", "200", "500", "503"}]
  /\ \A r \in Req : at[r] = "done" <=> reply[r] # "none"
  /\ pool \in SUBSET Req
  /\ closed \in BOOLEAN
  /\ up \in BOOLEAN
  /\ faults \in 0..MaxFaults

Init ==
  /\ main = "serving"
  /\ listener = "new"
  /\ code = "none"
  /\ late = FALSE
  /\ at = [r \in Req |-> "new"]
  /\ reply = [r \in Req |-> "none"]
  /\ pool = {}
  /\ closed = FALSE
  /\ up = TRUE
  /\ faults = 0

Running == main # "exited"

Fault ==
  /\ faults < MaxFaults
  /\ faults' = faults + 1

-----------------------------------------------------------------------------
(* The end of the process: requests under way are cut off.                 *)

Ends(status) ==
  /\ main' = "exited"
  /\ listener' = "closed"
  /\ code' = status
  /\ at' = [r \in Req |-> IF Active(r) THEN "cut" ELSE at[r]]
  /\ pool' = {}
  /\ UNCHANGED <<late, reply, closed, up>>

-----------------------------------------------------------------------------
(* The listener goroutine: ListenAndServe looks for a shutdown first, and  *)
(* again once it is bound.                                                 *)

Listen ==
  /\ Running
  /\ listener = "new"
  /\ listener' = IF main = "serving" THEN "binding" ELSE "closed"
  /\ UNCHANGED <<main, code, late, requests, closed, up, faults>>

Bind ==
  /\ Running
  /\ listener = "binding"
  /\ listener' = IF main = "serving" THEN "open" ELSE "closed"
  /\ UNCHANGED <<main, code, late, requests, closed, up, faults>>

\* The port is taken, or accepting fails: os.Exit(1), which runs no deferred
\* call, even if a shutdown has begun since the goroutine looked.
ListenerFails ==
  /\ Running
  /\ listener \in {"binding", "open"}
  /\ Fault
  /\ Ends("1")

-----------------------------------------------------------------------------
(* Requests.                                                               *)

Accept(r) ==
  /\ listener = "open"
  /\ at[r] = "new"
  /\ at' = [at EXCEPT ![r] = "waiting"]
  /\ UNCHANGED <<server, reply, pool, closed, up, faults>>

Again(r) ==
  /\ listener = "open"
  /\ at[r] = "done"
  /\ at' = [at EXCEPT ![r] = "new"]
  /\ reply' = [reply EXCEPT ![r] = "none"]
  /\ UNCHANGED <<server, pool, closed, up, faults>>

Answer(r, status) ==
  /\ at' = [at EXCEPT ![r] = "done"]
  /\ reply' = [reply EXCEPT ![r] = status]
  /\ pool' = pool \ {r}
  /\ UNCHANGED <<server, closed, up>>

\* Mutant: Healthz pings the database.
HealthzPings(r) ==
  /\ Running
  /\ Kind[r] = "health" /\ at[r] = "waiting"
  /\ up
  /\ Answer(r, "200")
  /\ UNCHANGED faults

\* Healthz asks nobody.
Healthz(r) ==
  /\ Running
  /\ Kind[r] = "health" /\ at[r] = "waiting"
  /\ Answer(r, "200")
  /\ UNCHANGED faults

\* database/sql hands out a connection, to any of those who wait.
Acquire(r) ==
  /\ Running
  /\ Kind[r] # "health" /\ at[r] = "waiting"
  /\ ~closed
  /\ Cardinality(pool) < MaxConns
  /\ at' = [at EXCEPT ![r] = "using"]
  /\ pool' = pool \cup {r}
  /\ UNCHANGED <<server, reply, closed, up, faults>>

Served(r) ==
  /\ Running
  /\ at[r] = "using"
  /\ up
  /\ Answer(r, "200")
  /\ UNCHANGED faults

\* Mutant: a status the contract does not have.
ErrorStatusTimeout(r) == "504"

\* What an error becomes: Readyz answers 503, an error of ListProjects goes to
\* the error handler.
ErrorStatus(r) == IF Kind[r] = "probe" THEN "503" ELSE "500"

Unreachable(r) ==
  /\ Running
  /\ at[r] = "using"
  /\ ~up
  /\ Answer(r, ErrorStatus(r))
  /\ UNCHANGED faults

\* Mutant: waiting for a connection has no deadline.
WaitsForever(r) ==
  /\ Running
  /\ Kind[r] # "health" /\ at[r] = "waiting"
  /\ closed
  /\ Answer(r, ErrorStatus(r))
  /\ UNCHANGED faults

\* The pool is closed, or the deadline of the context passes, 3 seconds for a
\* probe and 60 for the rest, with no connection free ...
NoConnection(r) ==
  /\ Running
  /\ Kind[r] # "health" /\ at[r] = "waiting"
  /\ closed \/ Cardinality(pool) = MaxConns
  /\ Answer(r, ErrorStatus(r))
  /\ UNCHANGED faults

\* Mutant: a statement that is given up keeps its connection.
OverrunsLeaks(r) ==
  /\ Running
  /\ at[r] = "using"
  /\ Fault
  /\ at' = [at EXCEPT ![r] = "done"]
  /\ reply' = [reply EXCEPT ![r] = ErrorStatus(r)]
  /\ UNCHANGED <<server, pool, closed, up>>

\* ... or while the statement runs; or the client goes away.
Overruns(r) ==
  /\ Running
  /\ at[r] = "using"
  /\ Fault
  /\ Answer(r, ErrorStatus(r))

-----------------------------------------------------------------------------
(* run, once everything is set up.                                         *)

\* SIGINT or SIGTERM: Shutdown closes the listener.
Signal ==
  /\ main = "serving"
  /\ main' = "draining"
  /\ listener' = IF listener = "open" THEN "closed" ELSE listener
  /\ UNCHANGED <<code, late, requests, closed, up, faults>>

\* Mutants: Close instead of Shutdown; clients that have sent nothing yet are
\* waited for as well.
DrainedAtOnce ==
  /\ main = "draining"
  /\ main' = "closing"
  /\ UNCHANGED <<listener, code, late, requests, closed, up, faults>>

DrainedWithNew ==
  /\ main = "draining"
  /\ \A r \in Req : ~Active(r) /\ at[r] # "new"
  /\ main' = "closing"
  /\ UNCHANGED <<listener, code, late, requests, closed, up, faults>>

\* Shutdown returns when nothing is under way ...
Drained ==
  /\ main = "draining"
  /\ \A r \in Req : ~Active(r)
  /\ main' = "closing"
  /\ UNCHANGED <<listener, code, late, requests, closed, up, faults>>

\* ... or after 10 seconds, which is logged and nothing else.
ShutdownTimesOut ==
  /\ main = "draining"
  /\ \E r \in Req : Active(r)
  /\ main' = "closing"
  /\ late' = TRUE
  /\ UNCHANGED <<listener, code, requests, closed, up, faults>>

\* The deferred platformDB.Close().
ClosePool ==
  /\ main = "closing"
  /\ main' = "returning"
  /\ closed' = TRUE
  /\ UNCHANGED <<listener, code, late, requests, up, faults>>

Exit ==
  /\ main = "returning"
  /\ Ends("0")
  /\ UNCHANGED faults

-----------------------------------------------------------------------------
(* The environment: PostgreSQL goes away and comes back; SIGKILL.          *)

GoesDown ==
  /\ up
  /\ Fault
  /\ up' = FALSE
  /\ UNCHANGED <<server, requests, closed>>

ComesBack ==
  /\ ~up
  /\ up' = TRUE
  /\ UNCHANGED <<server, requests, closed, faults>>

Kill ==
  /\ Running
  /\ Fault
  /\ Ends("killed")

-----------------------------------------------------------------------------
Handle(r) ==
  \/ Healthz(r) \/ Acquire(r) \/ Served(r) \/ Unreachable(r) \/ NoConnection(r)

Main == Drained \/ ShutdownTimesOut \/ ClosePool \/ Exit

Next ==
  \/ Listen \/ Bind \/ ListenerFails
  \/ \E r \in Req : Accept(r) \/ Again(r) \/ Handle(r) \/ Overruns(r)
  \/ Signal \/ Main
  \/ GoesDown \/ ComesBack \/ Kill

Spec == Init /\ [][Next]_vars

\* Goroutines run, a statement ends or its deadline passes, and Shutdown has
\* a deadline.  Nothing says that requests come or that the database does.
Fairness ==
  /\ \A r \in Req : WF_vars(Handle(r))
  /\ WF_vars(Main)

FairSpec == Spec /\ Fairness

-----------------------------------------------------------------------------
\* No path through a handler keeps its connection: those in use belong to
\* requests that run a statement, and there are at most MaxConns of them.
ConnectionsComeBack ==
  /\ pool = {r \in Req : at[r] = "using"}
  /\ Cardinality(pool) <= MaxConns

\* Unless Shutdown ran out of time, no request finds the pool closed under it
\* and none is cut off by a process that exits with 0.
DrainsBeforeClosing ==
  (closed \/ code = "0") /\ ~late =>
    \A r \in Req : ~Active(r) /\ at[r] # "cut"

\* A request that was accepted is answered, or the process has ended, even if
\* the database stays away.
RequestsEnd == \A r \in Req : Active(r) ~> ~Active(r)

\* Neither a database that hangs nor a busy pool keeps a signalled server.
SignalEnds == main = "draining" ~> main = "exited"

\* The liveness probe of a running server is answered 200 although the
\* database is away and every connection is taken.
HealthWithoutDatabase ==
  \A r \in Req : Kind[r] = "health" /\ Active(r)
    ~> reply[r] = "200" \/ main = "exited"

-----------------------------------------------------------------------------
\* How far the service is, and where r is, in GracefulStop.
PhaseOf ==
  CASE main = "serving" -> "open"
    [] main \in {"draining", "closing", "returning"} -> "stopping"
    [] main = "exited" -> IF code = "0" THEN "gone" ELSE "dead"

PlaceOf(r) ==
  CASE at[r] = "new"  -> "out"
    [] at[r] \in {"waiting", "using"} -> "in"
    [] at[r] = "done" -> "answered"
    [] at[r] = "cut"  -> "lost"

G == INSTANCE GracefulStop WITH
       phase <- PhaseOf, place <- [r \in Req |-> PlaceOf(r)]

\* Whatever the listener goroutine, the handlers, the database and the deferred
\* calls of run do meanwhile, requests see one service that stops gracefully,
\* gives up on them once its time has run out, or dies: see GracefulStop.
ImplementsGracefulStop == G!Spec
=============================================================================
