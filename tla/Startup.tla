------------------------------- MODULE Startup --------------------------------
(***************************************************************************)
(* run in backend/main.go up to the moment it serves: open the pool,       *)
(* migrate.Up, seed.SeedBuiltin, bootstrap.EnsureFirstAdmin, each in full  *)
(* before the next begins, the first error ending the process with 1.      *)
(* Servers of different releases start, serve, end and start again on one  *)
(* database, which nothing but its own locks and indexes guards.           *)
(*                                                                         *)
(* What happens inside a phase is the business of Migrate, Seed and        *)
(* Bootstrap, whose actions this module uses as they are.                  *)
(***************************************************************************)
EXTENDS Integers, Sequences

CONSTANTS
  Proc, NoProc, Latest, MaxVersion,          \* of Migrate
  Environments, Policies, Roles, Permission, Registry,   \* of Seed
  Email, Lower, Unset, AdminEmail, Password, \* of Bootstrap
  Operator, MaxChanges,
  MaxFaults                                  \* bound on faults in all phases

VARIABLES
  phase,  \* where each server stands in run
  version, dirty, applied, lock, mpc, cur, res, closeFailed,
  environments, policies, roles, grants, spc, at,
  users, bpc, logged, created, changes,
  faults

migration == <<version, dirty, applied, lock, mpc, cur, res, closeFailed>>
seeding   == <<environments, policies, roles, grants, spc, at>>
bootstrap == <<users, bpc, logged, created, changes>>
vars      == <<phase, migration, seeding, bootstrap, faults>>

\* cmd/migrate is left to Migrate.
M == INSTANCE Migrate WITH Cli <- {}
S == INSTANCE Seed
B == INSTANCE Bootstrap

\* The constants are those of the three phases.
ASSUME StartupAssumption ==
  M!MigrateAssumption /\ S!SeedAssumption /\ B!BootstrapAssumption

Starting == {"opening", "migrating", "seeding", "bootstrapping"}

TypeOK ==
  /\ phase \in [Proc -> Starting \cup {"down", "serving", "failed"}]
  /\ M!TypeOK /\ S!TypeOK /\ B!TypeOK

Init ==
  /\ phase = [p \in Proc |-> "down"]
  /\ M!Init /\ S!Init /\ B!Init

Goto(p, from, to) ==
  /\ phase[p] = from
  /\ phase' = [phase EXCEPT ![p] = to]

-----------------------------------------------------------------------------
Launch(p) ==
  /\ Goto(p, "down", "opening")
  /\ UNCHANGED <<migration, seeding, bootstrap, faults>>

\* 1) db.Open pings the database.
OpenPool(p) ==
  /\ Goto(p, "opening", "migrating")
  /\ M!Start(p)
  /\ UNCHANGED <<seeding, bootstrap>>

\* DB_DSN is empty or cannot be parsed, or nobody answers the ping.
OpenFails(p) ==
  /\ Goto(p, "opening", "failed")
  /\ M!Fault
  /\ UNCHANGED <<migration, seeding, bootstrap>>

\* 2) migrate.Up
Migrate(p) ==
  /\ phase[p] = "migrating"
  /\ M!Step(p)
  /\ UNCHANGED <<phase, seeding, bootstrap>>

MigrateFault(p) ==
  /\ phase[p] = "migrating"
  /\ M!OpenFails(p) \/ M!RunFails(p) \/ M!ConnLost(p)
  /\ UNCHANGED <<phase, seeding, bootstrap>>

\* Mutant: an error of Up is logged and nothing else.
MigratedOrNot(p) ==
  /\ mpc[p] \in {"done", "failed"}
  /\ Goto(p, "migrating", "seeding")
  /\ S!Start(p)
  /\ UNCHANGED <<migration, bootstrap>>

Migrated(p) ==
  /\ mpc[p] = "done"
  /\ Goto(p, "migrating", "seeding")
  /\ S!Start(p)
  /\ UNCHANGED <<migration, bootstrap>>

\* 3) seed.SeedBuiltin
Seed(p) ==
  /\ phase[p] = "seeding"
  /\ S!Step(p)
  /\ UNCHANGED <<phase, migration, bootstrap>>

SeedFault(p) ==
  /\ phase[p] = "seeding"
  /\ S!StatementFails(p)
  /\ UNCHANGED <<phase, migration, bootstrap>>

\* Mutant: an error of SeedBuiltin is logged and nothing else.
SeededOrNot(p) ==
  /\ spc[p] \in {"done", "failed"}
  /\ Goto(p, "seeding", "bootstrapping")
  /\ B!Start(p)
  /\ UNCHANGED <<migration, seeding>>

Seeded(p) ==
  /\ spc[p] = "done"
  /\ Goto(p, "seeding", "bootstrapping")
  /\ B!Start(p)
  /\ UNCHANGED <<migration, seeding>>

\* 4) bootstrap.EnsureFirstAdmin
Bootstrap(p) ==
  /\ phase[p] = "bootstrapping"
  /\ B!Step(p)
  /\ UNCHANGED <<phase, migration, seeding>>

BootstrapFault(p) ==
  /\ phase[p] = "bootstrapping"
  /\ B!StatementFails(p)
  /\ UNCHANGED <<phase, migration, seeding>>

Serve(p) ==
  /\ bpc[p] \in {"exists", "warned", "created", "taken"}
  /\ Goto(p, "bootstrapping", "serving")
  /\ UNCHANGED <<migration, seeding, bootstrap, faults>>

\* Mutant: an error of EnsureFirstAdmin is not looked at.
FailedBefore(p) ==
  \/ phase[p] = "migrating" /\ mpc[p] = "failed"
  \/ phase[p] = "seeding" /\ spc[p] = "failed"

\* The phase under way has returned an error.
Failed(p) ==
  \/ phase[p] = "migrating" /\ mpc[p] = "failed"
  \/ phase[p] = "seeding" /\ spc[p] = "failed"
  \/ phase[p] = "bootstrapping" /\ bpc[p] = "failed"

\* return 1
Fail(p) ==
  /\ Failed(p)
  /\ phase' = [phase EXCEPT ![p] = "failed"]
  /\ UNCHANGED <<migration, seeding, bootstrap, faults>>

-----------------------------------------------------------------------------
\* A process is gone, and with it its session and what it knew.
Gone(p) ==
  /\ phase' = [phase EXCEPT ![p] = "down"]
  /\ mpc' = [mpc EXCEPT ![p] = "down"]
  /\ spc' = [spc EXCEPT ![p] = "down"]
  /\ bpc' = [bpc EXCEPT ![p] = "down"]
  /\ lock' = M!Released(p)
  /\ UNCHANGED <<version, dirty, applied, cur, res, closeFailed,
                 environments, policies, roles, grants, at,
                 users, logged, created, changes>>

Exit(p) ==
  /\ phase[p] \in {"serving", "failed"}
  /\ Gone(p)
  /\ UNCHANGED faults

\* SIGTERM as well: main asks for signals only once it serves.
Crash(p) ==
  /\ phase[p] \in Starting
  /\ M!Fault
  /\ Gone(p)

-----------------------------------------------------------------------------
Step(p) ==
  \/ OpenPool(p) \/ Migrate(p) \/ Migrated(p) \/ Seed(p) \/ Seeded(p)
  \/ Bootstrap(p) \/ Serve(p) \/ Fail(p)

Fault(p) ==
  \/ OpenFails(p) \/ MigrateFault(p) \/ SeedFault(p) \/ BootstrapFault(p)
  \/ Crash(p)

Next == \E p \in Proc : Launch(p) \/ Step(p) \/ Fault(p) \/ Exit(p)

Spec == Init /\ [][Next]_vars

\* A running server goes on, and the advisory lock serves its waiters in turn.
Fairness ==
  \A p \in Proc :
    /\ WF_vars(Step(p))
    /\ SF_vars(phase[p] = "migrating" /\ M!Open(p)
               /\ UNCHANGED <<phase, seeding, bootstrap>>)

FairSpec == Spec /\ Fairness

-----------------------------------------------------------------------------
\* No statement of the seed or the bootstrap meets a schema that lacks a
\* migration of the binary it belongs to, whatever the servers of other
\* releases are doing to the schema.
SeedsOnlyMigrated ==
  \A p \in Proc : phase[p] \in {"seeding", "bootstrapping", "serving"} =>
    \A v \in 1..Latest[p] : applied[v] = 1

\* A server that serves finds every builtin row and, if it was configured, a
\* user, however many servers have started, failed or died since it looked.
ServesComplete ==
  \A p \in Proc : phase[p] = "serving" =>
    /\ \A e \in S!EnvKey : environments[e] # "absent" /\ policies[e] # "absent"
    /\ \A r \in S!RoleKey : roles[r] # "absent"
    /\ B!Configured(p) => users # <<>>

\* Every start ends: the server serves, has failed or has died.
StartsEnd ==
  \A p \in Proc :
    phase[p] \in Starting ~> phase[p] \in {"serving", "failed", "down"}

\* Nothing the phases share, the database, the faults or the death of a server,
\* breaks what each of them promises alone.
KeepsPromises ==
  M!ImplementsUpgrade /\ S!ImplementsCatalogue /\ B!ImplementsElection

\* openspec/specs/platform-meta-db-foundation/spec.md:64: "GET /readyz SHALL
\* return 200 only when the platform PostgreSQL is reachable AND all
\* migrations are applied."  Readyz of a serving server pings and no more.
ReadyMeansMigrated == \A p \in Proc : phase[p] = "serving" => ~dirty
=============================================================================
