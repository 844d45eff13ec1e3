---------------------------- MODULE StartupProofs -----------------------------
(***************************************************************************)
(* What Startup promises, for any number of servers of any releases.  The  *)
(* invariants of the three phases are those of their own proofs: a step of *)
(* the composition is a step of one phase and leaves the other two where   *)
(* they are, but for the count of faults they share.                       *)
(***************************************************************************)
EXTENDS Startup, TLAPS

MP == INSTANCE MigrateProofs WITH Cli <- {}
SP == INSTANCE SeedProofs
BP == INSTANCE BootstrapProofs

\* A server that is through with a phase has been let through by it.
Links ==
  \A p \in Proc :
    /\ phase[p] \in {"seeding", "bootstrapping", "serving"} => mpc[p] = "done"
    /\ phase[p] \in {"bootstrapping", "serving"} => spc[p] = "done"
    /\ phase[p] = "serving" => bpc[p] \in {"exists", "warned", "created", "taken"}

\* Only a server that was given no administrator goes on without a user.
Warned == \A p \in Proc : bpc[p] = "warned" => ~B!Configured(p)

PhaseOK == phase \in [Proc -> Starting \cup {"down", "serving", "failed"}]

IInv == PhaseOK /\ MP!IInv /\ SP!IInv /\ BP!IInv /\ Links /\ Warned

-----------------------------------------------------------------------------
(* The definitions of a phase are the same through either instance.        *)

\* The steps of Up that Startup uses.
LEMMA SameMigrate ==
  /\ M!TypeOK <=> MP!TypeOK
  /\ M!Init <=> MP!Init
  /\ \A p \in Proc :
       /\ M!Start(p) <=> MP!Start(p)
       /\ M!Step(p) <=> MP!Step(p)
       /\ M!OpenFails(p) <=> MP!OpenFails(p)
       /\ M!RunFails(p) <=> MP!RunFails(p)
       /\ M!ConnLost(p) <=> MP!ConnLost(p)
<1> USE DEF M!Goto, MP!Goto, M!dbVars, MP!dbVars, M!Released, MP!Released,
      M!Versions, MP!Versions, M!Fault, MP!Fault
<1>1. (M!TypeOK <=> MP!TypeOK) /\ (M!Init <=> MP!Init)
  BY DEF M!TypeOK, MP!TypeOK, M!Init, MP!Init, M!Working, MP!Working,
    M!Stopped, MP!Stopped, M!Critical, MP!Critical
<1>2. ASSUME NEW p \in Proc
      PROVE  M!Step(p) <=> MP!Step(p)
  BY DEF M!Step, MP!Step, M!Open, MP!Open, M!CtxOk, MP!CtxOk, M!CtxExpired,
    MP!CtxExpired, M!Acquire, MP!Acquire, M!LockTimeout, MP!LockTimeout,
    M!Refuse, MP!Refuse, M!Read, MP!Read, M!Mark, MP!Mark, M!Run, MP!Run,
    M!Clean, MP!Clean, M!Unlock, MP!Unlock, M!Close, MP!Close,
    M!Pending, MP!Pending, M!Succeeded, MP!Succeeded
<1>3. ASSUME NEW p \in Proc
      PROVE  /\ M!Start(p) <=> MP!Start(p)
             /\ M!OpenFails(p) <=> MP!OpenFails(p)
             /\ M!RunFails(p) <=> MP!RunFails(p)
             /\ M!ConnLost(p) <=> MP!ConnLost(p)
  BY DEF M!Start, MP!Start, M!OpenFails, MP!OpenFails, M!RunFails, MP!RunFails,
    M!ConnLost, MP!ConnLost, M!Critical, MP!Critical
<1>q. QED
  BY <1>1, <1>2, <1>3

\* The steps of SeedBuiltin that Startup uses.
LEMMA SameSeed ==
  /\ S!TypeOK <=> SP!TypeOK
  /\ S!Init <=> SP!Init
  /\ \A p \in Proc :
       /\ S!Start(p) <=> SP!Start(p)
       /\ S!Step(p) <=> SP!Step(p)
       /\ S!StatementFails(p) <=> SP!StatementFails(p)
<1> USE DEF S!Goto, SP!Goto, S!Loop, SP!Loop, S!tables, SP!tables, S!EnvKey, SP!EnvKey,
      S!RoleKey, SP!RoleKey, S!Range, SP!Range, S!Seeding, SP!Seeding
<1>1. (S!TypeOK <=> SP!TypeOK) /\ (S!Init <=> SP!Init)
  BY DEF S!TypeOK, SP!TypeOK, S!Init, SP!Init, S!Stopped, SP!Stopped
<1>2. ASSUME NEW p \in Proc
      PROVE  S!Step(p) <=> SP!Step(p)
  BY DEF S!Step, SP!Step, S!InsertEnvironment, SP!InsertEnvironment,
    S!LookupEnvironment, SP!LookupEnvironment, S!InsertPolicy, SP!InsertPolicy,
    S!InsertRole, SP!InsertRole, S!LookupRole, SP!LookupRole, S!ClearGrants,
    SP!ClearGrants, S!InsertGrants, SP!InsertGrants, S!InsertIfAbsent,
    SP!InsertIfAbsent
<1>3. ASSUME NEW p \in Proc
      PROVE  /\ S!Start(p) <=> SP!Start(p)
             /\ S!StatementFails(p) <=> SP!StatementFails(p)
  BY DEF S!Start, SP!Start, S!StatementFails, SP!StatementFails, S!Fault, SP!Fault
<1>q. QED
  BY <1>1, <1>2, <1>3

\* The steps of EnsureFirstAdmin that Startup uses.
LEMMA SameBootstrap ==
  /\ B!TypeOK <=> BP!TypeOK
  /\ B!Init <=> BP!Init
  /\ \A p \in Proc :
       /\ B!Configured(p) <=> BP!Configured(p)
       /\ B!Start(p) <=> BP!Start(p)
       /\ B!Step(p) <=> BP!Step(p)
       /\ B!StatementFails(p) <=> BP!StatementFails(p)
<1> USE DEF B!Goto, BP!Goto, B!Live, BP!Live, B!Taken, BP!Taken, B!Configured,
      BP!Configured
<1>1. (B!TypeOK <=> BP!TypeOK) /\ (B!Init <=> BP!Init)
  BY DEF B!TypeOK, BP!TypeOK, B!Init, BP!Init, B!Row, BP!Row, B!Running, BP!Running,
    B!Stopped, BP!Stopped
<1>2. ASSUME NEW p \in Proc
      PROVE  B!Step(p) <=> BP!Step(p)
  BY DEF B!Step, BP!Step, B!Check, BP!Check, B!Hash, BP!Hash, B!Insert, BP!Insert,
    B!UniqueViolation, BP!UniqueViolation, B!Lookup, BP!Lookup, B!NewRow, BP!NewRow,
    B!HasAnyActiveUser, BP!HasAnyActiveUser
<1>3. ASSUME NEW p \in Proc
      PROVE  /\ B!Start(p) <=> BP!Start(p)
             /\ B!StatementFails(p) <=> BP!StatementFails(p)
  BY DEF B!Start, BP!Start, B!StatementFails, BP!StatementFails, B!Fault, BP!Fault
<1>q. QED
  BY <1>1, <1>2, <1>3 DEF B!Configured, BP!Configured

\* The constants are what the proofs of the phases assume.
LEMMA Constants ==
  MP!MigrateAssumption /\ SP!SeedAssumption /\ BP!BootstrapAssumption
<1>1. MP!MigrateAssumption
  BY StartupAssumption DEF M!MigrateAssumption, MP!MigrateAssumption
<1>2. SP!SeedAssumption
  BY StartupAssumption DEF S!SeedAssumption, SP!SeedAssumption, S!RoleKey, SP!RoleKey,
    S!Range, SP!Range, S!IsInjective, SP!IsInjective
<1>3. BP!BootstrapAssumption
  BY StartupAssumption DEF B!BootstrapAssumption, BP!BootstrapAssumption
<1>q. QED
  BY <1>1, <1>2, <1>3

-----------------------------------------------------------------------------
(* Each phase while it is under way, and while it is not.                  *)

\* A step of Up is one of module Migrate.
LEMMA MigrateMoves ==
  ASSUME MP!IInv, NEW p \in Proc,
         M!Start(p) \/ M!Step(p) \/ M!OpenFails(p) \/ M!RunFails(p) \/ M!ConnLost(p)
  PROVE  MP!IInv' /\ faults' \in 0..MaxFaults
<1>1. MP!Next
  BY SameMigrate DEF MP!Next, MP!Failure
<1>2. MP!IInv'
  BY <1>1, Constants, MP!StepInv
<1>q. QED
  BY <1>2 DEF MP!IInv, MP!TypeOK

\* The other servers go on; p is where it was, or gone with its lock.
LEMMA MigrateRests ==
  ASSUME MP!IInv, faults' \in 0..MaxFaults, NEW p \in Proc,
         UNCHANGED <<version, dirty, applied, cur, res, closeFailed>>,
         \/ UNCHANGED <<mpc, lock>>
         \/ mpc' = [mpc EXCEPT ![p] = "down"] /\ lock' = M!Released(p)
  PROVE  MP!IInv'
<1> USE Constants DEF MP!IInv, MP!TypeOK, MP!MigrateAssumption, MP!Working,
      MP!Stopped, MP!Critical
<1>1. MP!TypeOK'
  BY DEF M!Released
<1>2. MP!LockInv'
  BY DEF MP!LockInv, M!Released
<1>3. MP!DbInv' /\ MP!LoopInv' /\ MP!NilInv'
  <2>1. \A q \in Proc : mpc'[q] = mpc[q] \/ mpc'[q] = "down"
    OBVIOUS
  <2>2. MP!DbInv'
    BY DEF MP!DbInv, MP!AppliedTo
  <2>3. MP!LoopInv'
    BY <2>1 DEF MP!LoopInv, MP!AppliedTo
  <2>4. MP!NilInv'
    BY <2>1 DEF MP!NilInv, MP!Succeeded
  <2>q. QED
    BY <2>2, <2>3, <2>4
<1>q. QED
  BY <1>1, <1>2, <1>3

\* A step of SeedBuiltin is one of module Seed.
LEMMA SeedMoves ==
  ASSUME SP!IInv, NEW p \in Proc, S!Start(p) \/ S!Step(p) \/ S!StatementFails(p)
  PROVE  SP!IInv' /\ faults' \in 0..MaxFaults
<1>1. SP!IInv'
  BY SameSeed, Constants, SP!StartInv, SP!StepKeeps, SP!StopKeeps
<1>q. QED
  BY <1>1 DEF SP!IInv, SP!TypeOK

\* The tables stay; p is where it was, or gone.
LEMMA SeedRests ==
  ASSUME SP!IInv, faults' \in 0..MaxFaults, NEW p \in Proc,
         UNCHANGED <<environments, policies, roles, grants, at>>,
         UNCHANGED spc \/ spc' = [spc EXCEPT ![p] = "down"]
  PROVE  SP!IInv'
<1>1. UNCHANGED SP!tables
  BY DEF SP!tables
<1>2. /\ spc' \in [Proc -> SP!Seeding \cup SP!Stopped] /\ at' \in [Proc -> Nat]
      /\ \A q \in Proc : \/ spc'[q] = spc[q] /\ at'[q] = at[q]
                         \/ spc'[q] \in {"down", "failed"}
  BY DEF SP!IInv, SP!TypeOK, SP!Stopped
<1>q. QED
  BY <1>1, <1>2, Constants, SP!Rest

\* A step of EnsureFirstAdmin is one of module Bootstrap.
LEMMA BootstrapMoves ==
  ASSUME BP!IInv, Warned, NEW p \in Proc,
         B!Start(p) \/ B!Step(p) \/ B!StatementFails(p)
  PROVE  BP!IInv' /\ Warned' /\ faults' \in 0..MaxFaults
<1>1. BP!Next
  BY SameBootstrap DEF BP!Next
<1>2. BP!IInv'
  BY <1>1, Constants, BP!StepInv
<1>3. Warned'
  <2>1. \A q \in Proc : bpc'[q] = "warned" => bpc[q] = "warned" \/ ~B!Configured(q)
    BY DEF BP!IInv, BP!TypeOK, B!Start, B!Step, B!StatementFails, B!Check, B!Hash,
      B!Insert, B!UniqueViolation, B!Lookup, B!Goto
  <2>q. QED
    BY <2>1 DEF Warned, B!Configured
<1>q. QED
  BY <1>2, <1>3 DEF BP!IInv, BP!TypeOK

\* The users stay; p is where it was, or gone.
LEMMA BootstrapRests ==
  ASSUME BP!IInv, Warned, faults' \in 0..MaxFaults, NEW p \in Proc,
         UNCHANGED <<users, logged, created, changes>>,
         UNCHANGED bpc \/ bpc' = [bpc EXCEPT ![p] = "down"]
  PROVE  BP!IInv' /\ Warned'
<1>1. \A q \in Proc : bpc'[q] = bpc[q] \/ bpc'[q] = "down"
  BY DEF BP!IInv, BP!TypeOK
<1>2. BP!TypeOK'
  BY DEF BP!IInv, BP!TypeOK, BP!Stopped
<1>3. BP!OneUserPerEmail'
  BY DEF BP!IInv, BP!OneUserPerEmail, BP!Live
<1>4. BP!SeenUser' /\ BP!HasEnv'
  BY <1>1 DEF BP!IInv, BP!SeenUser, BP!HasEnv, BP!Configured
<1>5. BP!Logs'
  BY <1>1 DEF BP!IInv, BP!Logs, BP!LogsOwnAddress, BP!OwnRow, BP!LogNamesItsAdmin, BP!Live
<1>6. Warned'
  BY <1>1 DEF Warned, B!Configured
<1>q. QED
  BY <1>2, <1>3, <1>4, <1>5, <1>6 DEF BP!IInv

-----------------------------------------------------------------------------
(* The steps of a server.  Of Links only the entries of the server that    *)
(* moves are in question: no step of a phase stops another server.         *)

\* A phase moves the place of the server that runs it and no other.
LEMMA Moves ==
  ASSUME IInv, NEW p \in Proc
  PROVE  /\ M!Start(p) \/ M!Step(p) \/ M!OpenFails(p) \/ M!RunFails(p) \/ M!ConnLost(p)
              => \A q \in Proc : q # p => mpc'[q] = mpc[q]
         /\ S!Start(p) \/ S!Step(p) \/ S!StatementFails(p)
              => \A q \in Proc : q # p => spc'[q] = spc[q]
         /\ B!Start(p) \/ B!Step(p) \/ B!StatementFails(p)
              => \A q \in Proc : q # p => bpc'[q] = bpc[q]
<1>1. M!Start(p) \/ M!Step(p) \/ M!OpenFails(p) \/ M!RunFails(p) \/ M!ConnLost(p)
        => \A q \in Proc : q # p => mpc'[q] = mpc[q]
  BY DEF IInv, MP!IInv, MP!TypeOK, M!Start, M!Step, M!OpenFails, M!RunFails, M!ConnLost,
    M!Open, M!CtxOk, M!CtxExpired, M!Acquire, M!LockTimeout, M!Refuse, M!Read, M!Mark,
    M!Run, M!Clean, M!Unlock, M!Close, M!Goto
<1>2. S!Start(p) \/ S!Step(p) \/ S!StatementFails(p)
        => \A q \in Proc : q # p => spc'[q] = spc[q]
  BY DEF IInv, SP!IInv, SP!TypeOK, S!Start, S!Step, S!StatementFails, S!InsertEnvironment,
    S!LookupEnvironment, S!InsertPolicy, S!InsertRole, S!LookupRole, S!ClearGrants,
    S!InsertGrants, S!Loop, S!Goto
<1>3. B!Start(p) \/ B!Step(p) \/ B!StatementFails(p)
        => \A q \in Proc : q # p => bpc'[q] = bpc[q]
  BY DEF IInv, BP!IInv, BP!TypeOK, B!Start, B!Step, B!StatementFails, B!Check, B!Hash,
    B!Insert, B!UniqueViolation, B!Lookup, B!Goto
<1>q. QED
  BY <1>1, <1>2, <1>3

\* run moves on, or a phase does.
LEMMA AdvanceKeeps ==
  ASSUME IInv, NEW p \in Proc, Launch(p) \/ Step(p) \/ OpenFails(p)
           \/ MigrateFault(p) \/ SeedFault(p) \/ BootstrapFault(p)
  PROVE  IInv'
<1> USE DEF migration, seeding, bootstrap
<1>p. /\ PhaseOK /\ MP!IInv /\ SP!IInv /\ BP!IInv /\ Links /\ Warned
      /\ faults \in 0..MaxFaults
  BY DEF IInv, MP!IInv, MP!TypeOK
<1>1. CASE Launch(p) \/ Serve(p) \/ Fail(p)
  <2>1. /\ UNCHANGED <<version, dirty, applied, lock, mpc, cur, res, closeFailed>>
        /\ UNCHANGED <<environments, policies, roles, grants, spc, at>>
        /\ UNCHANGED <<users, bpc, logged, created, changes, faults>>
    BY <1>1 DEF Launch, Serve, Fail
  <2>2. MP!IInv' /\ SP!IInv' /\ BP!IInv' /\ Warned'
    BY <1>p, <2>1, MigrateRests, SeedRests, BootstrapRests
  <2>3. PhaseOK'
    BY <1>1, <1>p DEF Launch, Serve, Fail, Goto, PhaseOK, Starting
  <2>4. Links'
    BY <1>1, <1>p, <2>1 DEF Launch, Serve, Fail, Goto, PhaseOK, Links
  <2>q. QED
    BY <2>2, <2>3, <2>4 DEF IInv
<1>2. CASE OpenPool(p) \/ Migrate(p) \/ MigrateFault(p)
  <2>1. /\ M!Start(p) \/ M!Step(p) \/ M!OpenFails(p) \/ M!RunFails(p) \/ M!ConnLost(p)
        /\ UNCHANGED <<environments, policies, roles, grants, spc, at>>
        /\ UNCHANGED <<users, bpc, logged, created, changes>>
    BY <1>2 DEF OpenPool, Migrate, MigrateFault
  <2>2. MP!IInv' /\ faults' \in 0..MaxFaults
    BY <1>p, <2>1, MigrateMoves
  <2>3. SP!IInv' /\ BP!IInv' /\ Warned'
    BY <1>p, <2>1, <2>2, SeedRests, BootstrapRests
  <2>4. /\ PhaseOK' /\ phase'[p] = "migrating"
        /\ \A q \in Proc : q # p => phase'[q] = phase[q]
    BY <1>2, <1>p DEF OpenPool, Migrate, MigrateFault, Goto, PhaseOK, Starting
  <2>5. Links'
    BY <1>p, <2>1, <2>4, Moves DEF IInv, Links
  <2>q. QED
    BY <2>2, <2>3, <2>4, <2>5 DEF IInv
<1>3. CASE Migrated(p) \/ Seed(p) \/ SeedFault(p)
  <2>1. /\ S!Start(p) \/ S!Step(p) \/ S!StatementFails(p)
        /\ UNCHANGED <<version, dirty, applied, lock, mpc, cur, res, closeFailed>>
        /\ UNCHANGED <<users, bpc, logged, created, changes>>
    BY <1>3 DEF Migrated, Seed, SeedFault
  <2>2. SP!IInv' /\ faults' \in 0..MaxFaults
    BY <1>p, <2>1, SeedMoves
  <2>3. MP!IInv' /\ BP!IInv' /\ Warned'
    BY <1>p, <2>1, <2>2, MigrateRests, BootstrapRests
  <2>4. /\ PhaseOK' /\ phase'[p] = "seeding" /\ mpc[p] = "done"
        /\ \A q \in Proc : q # p => phase'[q] = phase[q]
    BY <1>3, <1>p DEF Migrated, Seed, SeedFault, Goto, PhaseOK, Starting, Links
  <2>5. Links'
    BY <1>p, <2>1, <2>4, Moves DEF IInv, Links
  <2>q. QED
    BY <2>2, <2>3, <2>4, <2>5 DEF IInv
<1>4. CASE Seeded(p) \/ Bootstrap(p) \/ BootstrapFault(p)
  <2>1. /\ B!Start(p) \/ B!Step(p) \/ B!StatementFails(p)
        /\ UNCHANGED <<version, dirty, applied, lock, mpc, cur, res, closeFailed>>
        /\ UNCHANGED <<environments, policies, roles, grants, spc, at>>
    BY <1>4 DEF Seeded, Bootstrap, BootstrapFault
  <2>2. BP!IInv' /\ Warned' /\ faults' \in 0..MaxFaults
    BY <1>p, <2>1, BootstrapMoves
  <2>3. MP!IInv' /\ SP!IInv'
    BY <1>p, <2>1, <2>2, MigrateRests, SeedRests
  <2>4. /\ PhaseOK' /\ phase'[p] = "bootstrapping"
        /\ mpc[p] = "done" /\ spc[p] = "done"
        /\ \A q \in Proc : q # p => phase'[q] = phase[q]
    BY <1>4, <1>p DEF Seeded, Bootstrap, BootstrapFault, Goto, PhaseOK, Starting, Links
  <2>5. Links'
    BY <1>p, <2>1, <2>4, Moves DEF IInv, Links
  <2>q. QED
    BY <2>2, <2>3, <2>4, <2>5 DEF IInv
<1>5. CASE OpenFails(p)
  <2>1. /\ UNCHANGED <<version, dirty, applied, lock, mpc, cur, res, closeFailed>>
        /\ UNCHANGED <<environments, policies, roles, grants, spc, at>>
        /\ UNCHANGED <<users, bpc, logged, created, changes>>
        /\ faults' \in 0..MaxFaults
    BY <1>5, <1>p, Constants DEF OpenFails, M!Fault, MP!MigrateAssumption
  <2>2. MP!IInv' /\ SP!IInv' /\ BP!IInv' /\ Warned'
    BY <1>p, <2>1, MigrateRests, SeedRests, BootstrapRests
  <2>3. PhaseOK' /\ Links'
    BY <1>5, <1>p, <2>1 DEF OpenFails, Goto, PhaseOK, Links
  <2>q. QED
    BY <2>2, <2>3 DEF IInv
<1>q. QED
  BY <1>1, <1>2, <1>3, <1>4, <1>5 DEF Step

\* A server that is gone has lost its places, whatever they were, and its lock.
LEMMA GoneKeeps ==
  ASSUME IInv, NEW p \in Proc, Gone(p), faults' \in 0..MaxFaults
  PROVE  IInv'
<1>1. MP!IInv' /\ SP!IInv' /\ BP!IInv' /\ Warned'
  BY MigrateRests, SeedRests, BootstrapRests DEF IInv, Gone
<1>2. PhaseOK'
  BY DEF IInv, PhaseOK, Gone
<1>3. /\ phase'[p] = "down"
      /\ \A q \in Proc : q # p => /\ phase'[q] = phase[q] /\ mpc'[q] = mpc[q]
                                /\ spc'[q] = spc[q] /\ bpc'[q] = bpc[q]
  BY DEF IInv, PhaseOK, Gone, MP!IInv, MP!TypeOK, SP!IInv, SP!TypeOK, BP!IInv, BP!TypeOK
<1>4. Links'
  BY <1>3 DEF IInv, Links
<1>q. QED
  BY <1>1, <1>2, <1>4 DEF IInv

-----------------------------------------------------------------------------
\* The inductive invariant.
THEOREM Inductive == Spec => []IInv
<1>1. Init => IInv
  <2> SUFFICES ASSUME Init PROVE IInv
    OBVIOUS
  <2>1. MP!Init /\ SP!Init /\ BP!Init
    BY SameMigrate, SameSeed, SameBootstrap DEF Init
  <2>2. MP!IInv
    BY <2>1, Constants, MP!InitInv
  <2>3. SP!IInv
    BY <2>1, Constants, SP!InitInv
  <2>4. BP!IInv
    BY <2>1, Constants, BP!InitInv
  <2>5. PhaseOK /\ Links
    BY DEF Init, PhaseOK, Links
  <2>6. Warned
    BY <2>1 DEF BP!Init, Warned
  <2>q. QED
    BY <2>2, <2>3, <2>4, <2>5, <2>6 DEF IInv
<1>2. IInv /\ [Next]_vars => IInv'
  <2>1. ASSUME IInv, NEW p \in Proc, Exit(p) \/ Crash(p)
        PROVE  IInv'
    <3>1. Gone(p) /\ faults' \in 0..MaxFaults
      BY <2>1, Constants DEF Exit, Crash, M!Fault, IInv, MP!IInv, MP!TypeOK,
        MP!MigrateAssumption
    <3>q. QED
      BY <2>1, <3>1, GoneKeeps
  <2>2. ASSUME IInv, UNCHANGED vars
        PROVE  IInv'
    <3> USE DEF vars, migration, seeding, bootstrap
    <3>1. faults' \in 0..MaxFaults /\ faults' = faults
      BY <2>2 DEF IInv, MP!IInv, MP!TypeOK
    <3>2. CASE Proc = {}
      BY <3>2, Constants DEF SP!SeedAssumption
    <3>3. ASSUME NEW p \in Proc
          PROVE  IInv'
      <4>1. MP!IInv' /\ SP!IInv' /\ BP!IInv' /\ Warned'
        BY <2>2, <3>1, MigrateRests, SeedRests, BootstrapRests DEF IInv
      <4>2. PhaseOK' /\ Links'
        BY <2>2 DEF IInv, PhaseOK, Links
      <4>q. QED
        BY <4>1, <4>2 DEF IInv
    <3>q. QED
      BY <3>2, <3>3
  <2>q. QED
    BY <2>1, <2>2, AdvanceKeeps DEF Next, Fault
<1>q. QED
  BY <1>1, <1>2, PTL DEF Spec

\* Every variable of every phase has its type all through the composition.
THEOREM TypeCorrect == Spec => []TypeOK
<1>1. IInv => TypeOK
  BY SameMigrate, SameSeed, SameBootstrap
  DEF IInv, PhaseOK, TypeOK, MP!IInv, SP!IInv, BP!IInv
<1>q. QED
  BY <1>1, Inductive, PTL

\* The seed, the bootstrap and the server meet all the migrations of their
\* binary, whatever servers of other releases do to the schema.
THEOREM MigratedBeforeSeeded == Spec => []SeedsOnlyMigrated
<1>1. IInv => SeedsOnlyMigrated
  BY DEF IInv, Links, MP!IInv, MP!NilInv, SeedsOnlyMigrated
<1>q. QED
  BY <1>1, Inductive, PTL

\* A server that serves does so on a complete database.
THEOREM CompleteWhenServing == Spec => []ServesComplete
<1>1. ASSUME IInv
      PROVE  ServesComplete
  <2> SUFFICES ASSUME NEW p \in Proc, phase[p] = "serving"
               PROVE  /\ \A e \in S!EnvKey :
                           environments[e] # "absent" /\ policies[e] # "absent"
                      /\ \A r \in S!RoleKey : roles[r] # "absent"
                      /\ B!Configured(p) => users # <<>>
    BY DEF ServesComplete
  <2>1. spc[p] = "done" /\ bpc[p] \in {"exists", "warned", "created", "taken"}
    BY <1>1 DEF IInv, Links
  <2>2. SP!DoneIsSeeded
    BY <1>1, Constants, SP!DoneSeeded DEF IInv
  <2>3. B!Configured(p) => users # <<>>
    BY <1>1, <2>1 DEF IInv, Warned, BP!IInv, BP!SeenUser
  <2>q. QED
    BY <2>1, <2>2, <2>3 DEF SP!DoneIsSeeded, SP!EnvKey, S!EnvKey, SP!RoleKey, S!RoleKey,
      SP!Range, S!Range
<1>q. QED
  BY <1>1, Inductive, PTL

-----------------------------------------------------------------------------
(* What the phases promise.  An abstract step is the same through either   *)
(* instance, because what it sees is.                                      *)

LEMMA SameUpgrade ==
  /\ M!U!Init <=> MP!U!Init
  /\ [M!U!Next]_(M!U!vars) <=> [MP!U!Next]_(MP!U!vars)
<1>1. M!Level = MP!Level /\ M!Level' = MP!Level'
  BY DEF M!Level, MP!Level, M!AppliedTo, MP!AppliedTo, M!Versions, MP!Versions
<1>2. M!Torn = MP!Torn /\ M!Torn' = MP!Torn'
  BY DEF M!Torn, MP!Torn
<1>3. \A p \in Proc : M!CallOf(p) = MP!CallOf(p) /\ M!CallOf(p)' = MP!CallOf(p)'
  BY DEF M!CallOf, MP!CallOf, M!Succeeded, MP!Succeeded
<1>4. /\ [p \in Proc |-> M!CallOf(p)] = [p \in Proc |-> MP!CallOf(p)]
      /\ [p \in Proc |-> M!CallOf(p)]' = [p \in Proc |-> MP!CallOf(p)]'
  BY <1>3
<1>5. M!U!Init <=> MP!U!Init
  BY <1>1, <1>2, <1>4 DEF M!U!Init, MP!U!Init
<1>6. M!U!vars' = M!U!vars <=> MP!U!vars' = MP!U!vars
  BY <1>1, <1>2, <1>4 DEF M!U!vars, MP!U!vars
<1>7. ASSUME NEW p \in Proc
      PROVE  /\ M!U!Begin(p) <=> MP!U!Begin(p)
             /\ M!U!Climb(p) <=> MP!U!Climb(p)
             /\ M!U!Succeed(p) <=> MP!U!Succeed(p)
             /\ M!U!Fail(p) <=> MP!U!Fail(p)
             /\ M!U!Leave(p) <=> MP!U!Leave(p)
             /\ M!U!Tear(p) <=> MP!U!Tear(p)
  <2> USE <1>1, <1>2, <1>4 DEF M!U!Turns, MP!U!Turns
  <2>1. M!U!Begin(p) <=> MP!U!Begin(p)
    BY DEF M!U!Begin, MP!U!Begin
  <2>2. M!U!Climb(p) <=> MP!U!Climb(p)
    BY DEF M!U!Climb, MP!U!Climb
  <2>3. M!U!Succeed(p) <=> MP!U!Succeed(p)
    BY DEF M!U!Succeed, MP!U!Succeed
  <2>4. M!U!Fail(p) <=> MP!U!Fail(p)
    BY DEF M!U!Fail, MP!U!Fail
  <2>5. M!U!Leave(p) <=> MP!U!Leave(p)
    BY DEF M!U!Leave, MP!U!Leave
  <2>6. M!U!Tear(p) <=> MP!U!Tear(p)
    BY DEF M!U!Tear, MP!U!Tear
  <2>q. QED
    BY <2>1, <2>2, <2>3, <2>4, <2>5, <2>6
<1>q. QED
  BY <1>5, <1>6, <1>7 DEF M!U!Next, MP!U!Next

LEMMA SameCatalogue ==
  /\ S!C!Init <=> SP!C!Init
  /\ [S!C!Next]_(S!C!vars) <=> [SP!C!Next]_(SP!C!vars)
<1>1. S!EnvKey = SP!EnvKey /\ S!RoleKey = SP!RoleKey /\ S!PolicyOf = SP!PolicyOf
  BY DEF S!EnvKey, SP!EnvKey, S!RoleKey, SP!RoleKey, S!Range, SP!Range, S!PolicyOf,
    SP!PolicyOf
<1>2. \A p \in Proc : /\ S!StateOf(p) = SP!StateOf(p) /\ S!StateOf(p)' = SP!StateOf(p)'
                      /\ S!Owed(p) = SP!Owed(p) /\ S!Owed(p)' = SP!Owed(p)'
  BY DEF S!StateOf, SP!StateOf, S!Owed, SP!Owed, S!Passed, SP!Passed, S!Seeding, SP!Seeding
<1>3. /\ [p \in Proc |-> S!StateOf(p)] = [p \in Proc |-> SP!StateOf(p)]
      /\ [p \in Proc |-> S!StateOf(p)]' = [p \in Proc |-> SP!StateOf(p)]'
      /\ [p \in Proc |-> S!Owed(p)] = [p \in Proc |-> SP!Owed(p)]
      /\ [p \in Proc |-> S!Owed(p)]' = [p \in Proc |-> SP!Owed(p)]'
  BY <1>2
<1> USE <1>1, <1>3 DEF S!C!rows, SP!C!rows, S!C!Moves, SP!C!Moves
<1>4. S!C!Init <=> SP!C!Init
  BY DEF S!C!Init, SP!C!Init
<1>5. S!C!vars' = S!C!vars <=> SP!C!vars' = SP!C!vars
  BY DEF S!C!vars, SP!C!vars
<1>6. ASSUME NEW p \in Proc
      PROVE  /\ S!C!Begin(p) <=> SP!C!Begin(p)
             /\ S!C!Install(p) <=> SP!C!Install(p)
             /\ S!C!Empty(p) <=> SP!C!Empty(p)
             /\ S!C!Lay(p) <=> SP!C!Lay(p)
             /\ S!C!Fail(p) <=> SP!C!Fail(p)
             /\ S!C!Leave(p) <=> SP!C!Leave(p)
  <2>1. S!C!Begin(p) <=> SP!C!Begin(p)
    BY DEF S!C!Begin, SP!C!Begin
  <2>2. S!C!Install(p) <=> SP!C!Install(p)
    BY DEF S!C!Install, SP!C!Install, S!C!Fill, SP!C!Fill
  <2>3. \A r : S!C!Settles(p, r) <=> SP!C!Settles(p, r)
    BY DEF S!C!Settles, SP!C!Settles, S!C!Complete, SP!C!Complete
  <2>4. S!C!Empty(p) <=> SP!C!Empty(p)
    BY <2>3 DEF S!C!Empty, SP!C!Empty
  <2>5. S!C!Lay(p) <=> SP!C!Lay(p)
    BY <2>3 DEF S!C!Lay, SP!C!Lay
  <2>6. S!C!Fail(p) <=> SP!C!Fail(p)
    BY DEF S!C!Fail, SP!C!Fail
  <2>7. S!C!Leave(p) <=> SP!C!Leave(p)
    BY DEF S!C!Leave, SP!C!Leave
  <2>q. QED
    BY <2>1, <2>2, <2>4, <2>5, <2>6, <2>7
<1>7. S!C!Edit <=> SP!C!Edit
  BY DEF S!C!Edit, SP!C!Edit, S!C!Change, SP!C!Change
<1>q. QED
  BY <1>4, <1>5, <1>6, <1>7 DEF S!C!Next, SP!C!Next

LEMMA SameElection ==
  /\ B!E!Init <=> BP!E!Init
  /\ [B!E!Next]_(B!E!vars) <=> [BP!E!Next]_(BP!E!vars)
<1>1. B!Address = BP!Address
  BY DEF B!Address, BP!Address
<1>2. \A p \in Proc : /\ B!StandOf(p) = BP!StandOf(p) /\ B!StandOf(p)' = BP!StandOf(p)'
                      /\ B!Wants(p) = BP!Wants(p)
  BY DEF B!StandOf, BP!StandOf, B!Wants, BP!Wants, B!Configured, BP!Configured
<1>3. \A a : B!Holding(a) = BP!Holding(a) /\ B!Holding(a)' = BP!Holding(a)'
  BY DEF B!Holding, BP!Holding, B!Live, BP!Live
<1>4. /\ [p \in Proc |-> B!StandOf(p)] = [p \in Proc |-> BP!StandOf(p)]
      /\ [p \in Proc |-> B!StandOf(p)]' = [p \in Proc |-> BP!StandOf(p)]'
      /\ [p \in Proc |-> B!Wants(p)] = [p \in Proc |-> BP!Wants(p)]
  BY <1>2
<1>5. /\ [a \in B!Address |-> B!Holding(a)] = [a \in BP!Address |-> BP!Holding(a)]
      /\ [a \in B!Address |-> B!Holding(a)]' = [a \in BP!Address |-> BP!Holding(a)]'
  BY <1>1, <1>3
<1> USE <1>1, <1>4, <1>5 DEF B!E!Turns, BP!E!Turns, B!E!Enter, BP!E!Enter,
      B!E!Somebody, BP!E!Somebody
<1>6. B!E!Init <=> BP!E!Init
  BY DEF B!E!Init, BP!E!Init
<1>7. B!E!vars' = B!E!vars <=> BP!E!vars' = BP!E!vars
  BY DEF B!E!vars, BP!E!vars
<1>8. ASSUME NEW p \in Proc
      PROVE  /\ B!E!Begin(p) <=> BP!E!Begin(p)
             /\ B!E!Stand(p) <=> BP!E!Stand(p)
             /\ B!E!Decline(p) <=> BP!E!Decline(p)
             /\ B!E!Concede(p) <=> BP!E!Concede(p)
             /\ B!E!Elect(p) <=> BP!E!Elect(p)
             /\ B!E!Fail(p) <=> BP!E!Fail(p)
             /\ B!E!Leave(p) <=> BP!E!Leave(p)
  <2>1. (B!E!Begin(p) <=> BP!E!Begin(p)) /\ (B!E!Stand(p) <=> BP!E!Stand(p))
    BY DEF B!E!Begin, BP!E!Begin, B!E!Stand, BP!E!Stand
  <2>2. (B!E!Decline(p) <=> BP!E!Decline(p)) /\ (B!E!Concede(p) <=> BP!E!Concede(p))
    BY DEF B!E!Decline, BP!E!Decline, B!E!Concede, BP!E!Concede
  <2>3. B!E!Elect(p) <=> BP!E!Elect(p)
    BY DEF B!E!Elect, BP!E!Elect
  <2>4. (B!E!Fail(p) <=> BP!E!Fail(p)) /\ (B!E!Leave(p) <=> BP!E!Leave(p))
    BY DEF B!E!Fail, BP!E!Fail, B!E!Leave, BP!E!Leave
  <2>q. QED
    BY <2>1, <2>2, <2>3, <2>4
<1>9. ASSUME NEW a \in B!Address
      PROVE  (B!E!Join(a) <=> BP!E!Join(a)) /\ (B!E!Quit(a) <=> BP!E!Quit(a))
  BY DEF B!E!Join, BP!E!Join, B!E!Quit, BP!E!Quit
<1>q. QED
  BY <1>6, <1>7, <1>8, <1>9 DEF B!E!Next, BP!E!Next

\* A step of a phase is one of its promise.
LEMMA PhaseTends ==
  ASSUME IInv, IInv', NEW p \in Proc
  PROVE  /\ M!Start(p) \/ M!Step(p) \/ M!OpenFails(p) \/ M!RunFails(p) \/ M!ConnLost(p)
              => [MP!U!Next]_(MP!U!vars)
         /\ S!Start(p) \/ S!Step(p) \/ S!StatementFails(p)
              => [SP!C!Next]_(SP!C!vars)
         /\ B!Start(p) \/ B!Step(p) \/ B!StatementFails(p)
              => [BP!E!Next]_(BP!E!vars)
<1>p. MP!IInv /\ SP!IInv /\ SP!IInv' /\ BP!IInv
  BY DEF IInv
<1>1. ASSUME M!Start(p) \/ M!Step(p) \/ M!OpenFails(p) \/ M!RunFails(p) \/ M!ConnLost(p)
      PROVE  [MP!U!Next]_(MP!U!vars)
  <2>1. MP!Next
    BY <1>1, SameMigrate DEF MP!Next, MP!Failure
  <2>q. QED
    BY <1>p, <2>1, Constants, MP!StepUpgrades
<1>2. ASSUME S!Start(p) \/ S!Step(p) \/ S!StatementFails(p)
      PROVE  [SP!C!Next]_(SP!C!vars)
  <2>1. SP!Next
    BY <1>2, SameSeed DEF SP!Next
  <2>q. QED
    BY <1>p, <2>1, Constants, SP!StepTends
<1>3. ASSUME B!Start(p) \/ B!Step(p) \/ B!StatementFails(p)
      PROVE  [BP!E!Next]_(BP!E!vars)
  <2>1. BP!Next
    BY <1>3, SameBootstrap DEF BP!Next
  <2>q. QED
    BY <1>p, <2>1, Constants, BP!StepElects
<1>q. QED
  BY <1>1, <1>2, <1>3

\* What a promise sees of a step that leaves its phase alone: nothing.
LEMMA PhaseUnseen ==
  /\ UNCHANGED migration => [MP!U!Next]_(MP!U!vars)
  /\ UNCHANGED seeding => [SP!C!Next]_(SP!C!vars)
  /\ UNCHANGED bootstrap => [BP!E!Next]_(BP!E!vars)
<1>1. UNCHANGED migration => UNCHANGED MP!U!vars
  BY Constants, MP!UnseenUpgrade DEF migration
<1>2. UNCHANGED seeding => UNCHANGED SP!C!vars
  BY Constants, SP!UnseenCatalogue DEF seeding
<1>3. UNCHANGED bootstrap => UNCHANGED BP!E!vars
  BY Constants, BP!UnseenElection DEF bootstrap
<1>q. QED
  BY <1>1, <1>2, <1>3

\* Every step of Startup is one that each of the promises allows.
LEMMA StepKeepsPromises ==
  ASSUME IInv, IInv', [Next]_vars
  PROVE  /\ [MP!U!Next]_(MP!U!vars)
         /\ [SP!C!Next]_(SP!C!vars)
         /\ [BP!E!Next]_(BP!E!vars)
<1>1. CASE UNCHANGED vars
  BY <1>1, PhaseUnseen DEF vars
<1>2. ASSUME NEW p \in Proc,
             Launch(p) \/ Step(p) \/ OpenFails(p)
               \/ MigrateFault(p) \/ SeedFault(p) \/ BootstrapFault(p)
      PROVE  /\ [MP!U!Next]_(MP!U!vars)
             /\ [SP!C!Next]_(SP!C!vars)
             /\ [BP!E!Next]_(BP!E!vars)
  <2>1. CASE Launch(p) \/ Serve(p) \/ Fail(p) \/ OpenFails(p)
    BY <2>1, PhaseUnseen DEF Launch, Serve, Fail, OpenFails
  <2>2. CASE OpenPool(p) \/ Migrate(p) \/ MigrateFault(p)
    BY <2>2, PhaseTends, PhaseUnseen DEF OpenPool, Migrate, MigrateFault
  <2>3. CASE Migrated(p) \/ Seed(p) \/ SeedFault(p)
    BY <2>3, PhaseTends, PhaseUnseen DEF Migrated, Seed, SeedFault
  <2>4. CASE Seeded(p) \/ Bootstrap(p) \/ BootstrapFault(p)
    BY <2>4, PhaseTends, PhaseUnseen DEF Seeded, Bootstrap, BootstrapFault
  <2>q. QED
    BY <1>2, <2>1, <2>2, <2>3, <2>4 DEF Step
<1>3. ASSUME NEW p \in Proc, Exit(p) \/ Crash(p)
      PROVE  /\ [MP!U!Next]_(MP!U!vars)
             /\ [SP!C!Next]_(SP!C!vars)
             /\ [BP!E!Next]_(BP!E!vars)
  <2>1. Gone(p)
    BY <1>3 DEF Exit, Crash
  <2>2. MP!Vanish(p) /\ SP!Vanish(p) /\ BP!Vanish(p)
    BY <2>1 DEF Gone, MP!Vanish, SP!Vanish, BP!Vanish
  <2>q. QED
    BY <2>2, Constants, MP!VanishLeaves, SP!VanishLeaves, BP!VanishLeaves DEF IInv
<1>q. QED
  BY <1>1, <1>2, <1>3 DEF Next, Fault

\* Each phase keeps in the composition, where servers share one database and die
\* between any two statements of any phase, what it promises alone.
THEOREM Composes == Spec => KeepsPromises
<1>1. Init => M!U!Init /\ S!C!Init /\ B!E!Init
  <2> SUFFICES ASSUME Init
               PROVE  M!U!Init /\ S!C!Init /\ B!E!Init
    OBVIOUS
  <2>1. MP!Init /\ SP!Init /\ BP!Init
    BY SameMigrate, SameSeed, SameBootstrap DEF Init
  <2>2. MP!U!Init /\ SP!C!Init /\ BP!E!Init
    BY <2>1, Constants, MP!InitUpgrade, SP!InitCatalogue, BP!InitElection
  <2>q. QED
    BY <2>2, SameUpgrade, SameCatalogue, SameElection
<1>2. IInv /\ IInv' /\ [Next]_vars
        => [M!U!Next]_(M!U!vars) /\ [S!C!Next]_(S!C!vars) /\ [B!E!Next]_(B!E!vars)
  BY StepKeepsPromises, SameUpgrade, SameCatalogue, SameElection
<1>q. QED
  BY <1>1, <1>2, Inductive, PTL DEF Spec, KeepsPromises, M!ImplementsUpgrade, M!U!Spec,
    S!ImplementsCatalogue, S!C!Spec, B!ImplementsElection, B!E!Spec
=============================================================================
