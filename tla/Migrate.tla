------------------------------- MODULE Migrate -------------------------------
(***************************************************************************)
(* migrate.Up (backend/internal/infra/migrate/migrate.go) as several       *)
(* processes run it against one platform PostgreSQL: servers that migrate  *)
(* at startup (backend/main.go) and the out-of-band CLI                    *)
(* (backend/cmd/migrate/main.go), possibly built with different sets of    *)
(* embedded migrations.                                                    *)
(*                                                                         *)
(* Up is a thin call of golang-migrate, an external library whose steps    *)
(* are the ones that matter: a session-level advisory lock, the version    *)
(* and dirty flag of schema_migrations, and one statement per migration    *)
(* body.  The library commits each of "set version, dirty", "run the body" *)
(* and "set version, clean" on its own, so that a crash between two of     *)
(* them is visible to the next process.                                    *)
(***************************************************************************)
EXTENDS Integers

CONSTANTS
  Proc,       \* the processes that call migrate.Up
  Cli,        \* those of them that are cmd/migrate, whose context expires
  NoProc,     \* "nobody holds the advisory lock"
  Latest,     \* Latest[p]: the last migration embedded in p's binary
  MaxVersion, \* no binary embeds a migration beyond this one
  MaxFaults   \* bound on crashes, lost connections and failing statements

ASSUME MigrateAssumption ==
  /\ Cli \subseteq Proc
  /\ NoProc \notin Proc
  /\ MaxVersion \in Nat
  /\ Latest \in [Proc -> 1..MaxVersion]
  /\ MaxFaults \in Nat

VARIABLES
  version,    \* schema_migrations.version, 0 when the table is empty
  dirty,      \* schema_migrations.dirty
  applied,    \* history: how often the body of each migration has committed
  lock,       \* holder of the advisory lock
  mpc,        \* where each process stands in Up
  cur,        \* the last migration the process knows to be applied
  res,        \* the error Up is about to return
  closeFailed,\* m.Close() reported an error in the deferred function
  faults      \* faults so far, at most MaxFaults

dbVars == <<version, dirty, applied>>
vars   == <<version, dirty, applied, lock, mpc, cur, res, closeFailed, faults>>

Versions == 1..MaxVersion
Critical == {"read", "mark", "run", "clean", "unlock"}  \* holding the lock
Working  == {"new", "opened", "lock", "close"} \cup Critical
Stopped  == {"down", "done", "failed"}

TypeOK ==
  /\ version \in 0..MaxVersion
  /\ dirty \in BOOLEAN
  /\ applied \in [Versions -> Nat]
  /\ lock \in Proc \cup {NoProc}
  /\ mpc \in [Proc -> Working \cup Stopped]
  /\ cur \in [Proc -> 0..MaxVersion]
  /\ res \in [Proc -> {"nil", "noChange", "err"}]
  /\ closeFailed \in [Proc -> BOOLEAN]
  /\ faults \in 0..MaxFaults

Init ==
  /\ version = 0
  /\ dirty = FALSE
  /\ applied = [v \in Versions |-> 0]
  /\ lock = NoProc
  /\ mpc = [p \in Proc |-> "down"]
  /\ cur = [p \in Proc |-> 0]
  /\ res = [p \in Proc |-> "nil"]
  /\ closeFailed = [p \in Proc |-> FALSE]
  /\ faults = 0

Goto(p, from, to) ==
  /\ mpc[p] = from
  /\ mpc' = [mpc EXCEPT ![p] = to]

Fault ==
  /\ faults < MaxFaults
  /\ faults' = faults + 1

\* Mutant: the lock outlives the session that took it.
KeepsLock(p) == lock

\* A session that ends gives its lock back.
Released(p) == IF lock = p THEN NoProc ELSE lock

-----------------------------------------------------------------------------
(* One action per step of Up.                                              *)

\* The process is started and calls Up, which opens the embedded source.
Start(p) ==
  /\ Goto(p, "down", "new")
  /\ cur' = [cur EXCEPT ![p] = 0]
  /\ res' = [res EXCEPT ![p] = "nil"]
  /\ closeFailed' = [closeFailed EXCEPT ![p] = FALSE]
  /\ UNCHANGED <<dbVars, lock, faults>>

\* migrate.NewWithSourceInstance: open a connection of its own and create
\* schema_migrations if it is missing, under the advisory lock, which it takes
\* without a timeout and gives back before it returns.
Open(p) ==
  /\ lock = NoProc
  /\ Goto(p, "new", "opened")
  /\ UNCHANGED <<dbVars, lock, cur, res, closeFailed, faults>>

\* NewWithSourceInstance fails: Up returns before the deferred Close is set.
OpenFails(p) ==
  /\ Goto(p, "new", "failed")
  /\ Fault
  /\ UNCHANGED <<dbVars, lock, cur, res, closeFailed>>

\* The only check of the context; afterwards m.Up() runs to its own end.
CtxOk(p) ==
  /\ Goto(p, "opened", "lock")
  /\ UNCHANGED <<dbVars, lock, cur, res, closeFailed, faults>>

\* The five minutes of cmd/migrate are over; a server's context never ends.
CtxExpired(p) ==
  /\ p \in Cli
  /\ Goto(p, "opened", "close")
  /\ res' = [res EXCEPT ![p] = "err"]
  /\ UNCHANGED <<dbVars, lock, cur, closeFailed, faults>>

\* Mutant: the lock is not waited for.
AcquireUnlocked(p) ==
  /\ Goto(p, "lock", "read")
  /\ lock' = p
  /\ UNCHANGED <<dbVars, cur, res, closeFailed, faults>>

\* m.Up(): pg_advisory_lock ...
Acquire(p) ==
  /\ lock = NoProc
  /\ Goto(p, "lock", "read")
  /\ lock' = p
  /\ UNCHANGED <<dbVars, cur, res, closeFailed, faults>>

\* ... or ErrLockTimeout while somebody else holds the lock.
LockTimeout(p) ==
  /\ lock # NoProc
  /\ Goto(p, "lock", "close")
  /\ res' = [res EXCEPT ![p] = "err"]
  /\ UNCHANGED <<dbVars, lock, cur, closeFailed, faults>>

\* ErrDirty, or a version this binary's source does not have.
Refuse(p) ==
  /\ dirty \/ version > Latest[p]
  /\ Goto(p, "read", "unlock")
  /\ res' = [res EXCEPT ![p] = "err"]
  /\ UNCHANGED <<dbVars, lock, cur, closeFailed, faults>>

\* Where the loop over the pending migrations goes on after migration v.
Pending(p, v) == IF v < Latest[p] THEN "mark" ELSE "unlock"

\* Mutant: the dirty flag is not looked at.
ReadDirty(p) ==
  /\ version <= Latest[p]
  /\ Goto(p, "read", Pending(p, version))
  /\ cur' = [cur EXCEPT ![p] = version]
  /\ res' = [res EXCEPT ![p] = IF version < Latest[p] THEN "nil" ELSE "noChange"]
  /\ UNCHANGED <<dbVars, lock, closeFailed, faults>>

\* m.Up() reports ErrNoChange when there was nothing to do.
Read(p) ==
  /\ ~dirty /\ version <= Latest[p]
  /\ Goto(p, "read", Pending(p, version))
  /\ cur' = [cur EXCEPT ![p] = version]
  /\ res' = [res EXCEPT ![p] = IF version < Latest[p] THEN "nil" ELSE "noChange"]
  /\ UNCHANGED <<dbVars, lock, closeFailed, faults>>

\* SetVersion(v, true).
Mark(p) ==
  /\ Goto(p, "mark", "run")
  /\ version' = cur[p] + 1
  /\ dirty' = TRUE
  /\ UNCHANGED <<applied, lock, cur, res, closeFailed, faults>>

\* Run(body): the statements of one file commit together.
Run(p) ==
  /\ Goto(p, "run", "clean")
  /\ applied' = [applied EXCEPT ![version] = @ + 1]
  /\ UNCHANGED <<version, dirty, lock, cur, res, closeFailed, faults>>

\* Mutant: the error of m.Up() is dropped.
RunFailsIgnored(p) ==
  /\ Goto(p, "run", "unlock")
  /\ Fault
  /\ UNCHANGED <<dbVars, lock, cur, res, closeFailed>>

\* The body is rejected: nothing of it stays, the dirty flag does.
RunFails(p) ==
  /\ Goto(p, "run", "unlock")
  /\ Fault
  /\ res' = [res EXCEPT ![p] = "err"]
  /\ UNCHANGED <<dbVars, lock, cur, closeFailed>>

\* Mutant: the loop does not stop at the last migration.
CleanRunsOn(p) ==
  /\ Goto(p, "clean", "mark")
  /\ version' = cur[p] + 1
  /\ dirty' = FALSE
  /\ cur' = [cur EXCEPT ![p] = @ + 1]
  /\ UNCHANGED <<applied, lock, res, closeFailed, faults>>

\* SetVersion(v, false), then the next migration.
Clean(p) ==
  /\ Goto(p, "clean", Pending(p, cur[p] + 1))
  /\ version' = cur[p] + 1
  /\ dirty' = FALSE
  /\ cur' = [cur EXCEPT ![p] = @ + 1]
  /\ UNCHANGED <<applied, lock, res, closeFailed, faults>>

Unlock(p) ==
  /\ Goto(p, "unlock", "close")
  /\ lock' = Released(p)
  /\ UNCHANGED <<dbVars, cur, res, closeFailed, faults>>

\* Up returns nil for success and for ErrNoChange.
Succeeded(p) == res[p] \in {"nil", "noChange"}

\* The deferred function closes source and connection.  It assigns what Close
\* reports to a variable that is no result of Up: the caller never sees it.
Close(p) ==
  /\ Goto(p, "close", IF Succeeded(p) THEN "done" ELSE "failed")
  /\ \E failed \in BOOLEAN : closeFailed' = [closeFailed EXCEPT ![p] = failed]
  /\ UNCHANGED <<dbVars, lock, cur, res, faults>>

\* The connection is lost between two statements: the server frees the
\* session's lock and Up fails.
ConnLost(p) ==
  /\ mpc[p] \in Critical
  /\ Fault
  /\ mpc' = [mpc EXCEPT ![p] = "close"]
  /\ lock' = Released(p)
  /\ res' = [res EXCEPT ![p] = "err"]
  /\ UNCHANGED <<dbVars, cur, closeFailed>>

\* The process dies: its session ends and with it the lock.
Crash(p) ==
  /\ mpc[p] \in Working
  /\ Fault
  /\ mpc' = [mpc EXCEPT ![p] = "down"]
  /\ lock' = Released(p)
  /\ UNCHANGED <<dbVars, cur, res, closeFailed>>

\* A process that went through Up, or failed in it, ends; it may come again.
Exit(p) ==
  /\ mpc[p] \in {"done", "failed"}
  /\ mpc' = [mpc EXCEPT ![p] = "down"]
  /\ UNCHANGED <<dbVars, lock, cur, res, closeFailed, faults>>

-----------------------------------------------------------------------------
\* The statements a running process executes of its own accord.
Step(p) ==
  \/ Open(p)   \/ CtxOk(p)  \/ CtxExpired(p)
  \/ Acquire(p) \/ LockTimeout(p)
  \/ Refuse(p) \/ Read(p)
  \/ Mark(p)   \/ Run(p)    \/ Clean(p)
  \/ Unlock(p) \/ Close(p)

Failure(p) == OpenFails(p) \/ RunFails(p) \/ ConnLost(p) \/ Crash(p)

Next == \E p \in Proc : Start(p) \/ Step(p) \/ Failure(p) \/ Exit(p)

Spec == Init /\ [][Next]_vars

\* A running process goes on, and pg_advisory_lock serves its waiters in turn.
Fairness == \A p \in Proc : WF_vars(Step(p)) /\ SF_vars(Open(p))

FairSpec == Spec /\ Fairness

-----------------------------------------------------------------------------
\* Exactly the bodies up to n have committed, each once.
AppliedTo(n) == \A v \in Versions : applied[v] = (IF v <= n THEN 1 ELSE 0)

\* The body of a migration commits at most once, whatever processes start,
\* crash, lose their connection or give up in between.
AppliedOnce == \A v \in Versions : applied[v] <= 1

\* A clean schema_migrations tells the truth: exactly the bodies up to its
\* version have been applied.
CleanIsComplete ==
  ~dirty => \A v \in Versions : applied[v] = (IF v <= version THEN 1 ELSE 0)

\* When Up has returned nil every migration of the caller's binary is in
\* place, and stays there whatever the other processes do: this is what main
\* relies on when it goes on to seed and serve.
SuccessIsMigrated ==
  \A p \in Proc : mpc[p] = "done" =>
    \A v \in 1..Latest[p] : applied[v] = 1

\* The recorded version never goes back and never skips a migration, and it
\* moves only from a clean state.
InOrder ==
  [][version' # version => /\ version' = version + 1
                           /\ ~dirty /\ dirty']_vars

\* A migration left half-way (dirty, nobody holding the lock) freezes the
\* database: no later start re-runs the body, skips it or clears the flag.
HalfWayFreezes ==
  \A v \in Versions :
    [](dirty /\ lock = NoProc /\ version = v => [](dirty /\ version = v))

\* Every call of Up ends, by success, error or death: nobody waits forever
\* for a lock whose holder has died.
UpEnds == \A p \in Proc : mpc[p] \in Working ~> mpc[p] \in Stopped

\* Where p's call stands in Upgrade: it is decided when Up is about to unlock.
CallOf(p) ==
  CASE mpc[p] = "down" -> "out"
    [] mpc[p] \in {"new", "opened", "lock", "read", "mark", "run", "clean"} -> "trying"
    [] mpc[p] = "done" -> "migrated"
    [] mpc[p] = "failed" -> "failed"
    [] mpc[p] \in {"unlock", "close"} -> IF Succeeded(p) THEN "migrated" ELSE "failed"

\* How far the schema has climbed, by its bodies and not by what the version says.
Level == IF \E n \in 0..MaxVersion : AppliedTo(n)
           THEN CHOOSE n \in 0..MaxVersion : AppliedTo(n)
           ELSE -1

Torn == dirty /\ \A p \in Proc : mpc[p] \notin {"run", "clean"}

U == INSTANCE Upgrade WITH
       level <- Level, torn <- Torn, call <- [p \in Proc |-> CallOf(p)]

\* Whatever processes do at the same time, wherever one of them dies, it looks as
\* if each call had the database to itself: see Upgrade.
ImplementsUpgrade == U!Spec
=============================================================================
