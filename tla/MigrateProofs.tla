---------------------------- MODULE MigrateProofs ----------------------------
(***************************************************************************)
(* What Migrate promises, for every set of processes and every choice of   *)
(* the migrations their binaries embed.                                    *)
(***************************************************************************)
EXTENDS Migrate, TLAPS

\* The processes between Acquire and Unlock are the holders of the lock.
LockInv == \A p \in Proc : mpc[p] \in Critical <=> lock = p

\* What the two columns of schema_migrations say about the bodies.
DbInv ==
  IF dirty THEN version >= 1 /\ (AppliedTo(version - 1) \/ AppliedTo(version))
           ELSE AppliedTo(version)

\* What the holder of the lock knows in each step of its loop.
LoopInv ==
  \A p \in Proc :
    /\ mpc[p] = "mark"  => ~dirty /\ cur[p] = version /\ cur[p] < Latest[p]
    /\ mpc[p] = "run"   => dirty /\ version = cur[p] + 1 /\ AppliedTo(cur[p])
    /\ mpc[p] = "clean" => dirty /\ version = cur[p] + 1 /\ AppliedTo(version)
    /\ mpc[p] \in {"mark", "run", "clean"} => cur[p] < Latest[p] /\ res[p] = "nil"

\* Once Up is bound to return nil, the caller's migrations are in place.
NilInv ==
  \A p \in Proc :
    (mpc[p] = "done" \/ (mpc[p] \in {"unlock", "close"} /\ Succeeded(p)))
      => \A v \in 1..Latest[p] : applied[v] = 1

IInv == TypeOK /\ LockInv /\ DbInv /\ LoopInv /\ NilInv
-----------------------------------------------------------------------------
\* The variables keep their types.
LEMMA TypeStep ==
  ASSUME IInv, [Next]_vars
  PROVE  TypeOK'
<1> USE MigrateAssumption DEF IInv, TypeOK, Versions, Working, Critical, Stopped, dbVars
<1>1. CASE UNCHANGED vars
  BY <1>1 DEF vars
<1>2. ASSUME NEW p \in Proc,
             Start(p) \/ Step(p) \/ Failure(p) \/ Exit(p)
      PROVE  TypeOK'
  <2>1. CASE Start(p)
    BY <2>1 DEF Start, Goto
  <2>2. CASE Open(p)
    BY <2>2 DEF Open, Goto
  <2>3. CASE OpenFails(p)
    BY <2>3 DEF OpenFails, Goto, Fault
  <2>4. CASE CtxOk(p)
    BY <2>4 DEF CtxOk, Goto
  <2>5. CASE CtxExpired(p)
    BY <2>5 DEF CtxExpired, Goto
  <2>6. CASE Acquire(p)
    BY <2>6 DEF Acquire, Goto
  <2>7. CASE LockTimeout(p)
    BY <2>7 DEF LockTimeout, Goto
  <2>8. CASE Refuse(p)
    BY <2>8 DEF Refuse, Goto
  <2>9. CASE Read(p)
    BY <2>9 DEF Read, Goto, Pending
  <2>10. CASE Mark(p)
    BY <2>10 DEF Mark, Goto, LoopInv
  <2>11. CASE Run(p)
    <3>1. version \in Versions
      BY <2>11 DEF Run, Goto, LoopInv, DbInv
    <3>2. applied' \in [Versions -> Nat]
      BY <2>11, <3>1 DEF Run
    <3>q. QED
      BY <2>11, <3>2 DEF Run, Goto
  <2>12. CASE RunFails(p)
    BY <2>12 DEF RunFails, Goto, Fault
  <2>13. CASE Clean(p)
    BY <2>13 DEF Clean, Goto, Pending, LoopInv
  <2>14. CASE Unlock(p)
    BY <2>14 DEF Unlock, Goto, Released
  <2>15. CASE Close(p)
    BY <2>15 DEF Close, Goto
  <2>16. CASE ConnLost(p)
    BY <2>16 DEF ConnLost, Fault, Released
  <2>17. CASE Crash(p)
    BY <2>17 DEF Crash, Fault, Released
  <2>18. CASE Exit(p)
    BY <2>18 DEF Exit
  <2>q. QED
    BY <1>2, <2>1, <2>2, <2>3, <2>4, <2>5, <2>6, <2>7, <2>8, <2>9, <2>10,
       <2>11, <2>12, <2>13, <2>14, <2>15, <2>16, <2>17, <2>18
    DEF Step, Failure
<1>q. QED
  BY <1>1, <1>2 DEF Next

\* The part of the inductive invariant beyond the types is preserved.
LEMMA StepInv ==
  ASSUME IInv, [Next]_vars
  PROVE  IInv'
<1> USE MigrateAssumption
<1>t. TypeOK'
  BY TypeStep
<1>1. CASE UNCHANGED vars
  BY <1>1, <1>t DEF IInv, LockInv, DbInv, LoopInv, NilInv, Succeeded, AppliedTo, vars, dbVars
<1>2. ASSUME NEW p \in Proc,
             Start(p) \/ Step(p) \/ Failure(p) \/ Exit(p)
      PROVE  IInv'
  <2> USE DEF IInv, TypeOK, Versions, Working, Critical, Stopped, dbVars
  <2>1. CASE Start(p)
    BY <1>t, <2>1 DEF LockInv, DbInv, LoopInv, NilInv, Succeeded, AppliedTo,
       Start, Goto
  <2>2. CASE Open(p)
    BY <1>t, <2>2 DEF LockInv, DbInv, LoopInv, NilInv, Succeeded, AppliedTo,
       Open, Goto
  <2>3. CASE OpenFails(p)
    BY <1>t, <2>3 DEF LockInv, DbInv, LoopInv, NilInv, Succeeded, AppliedTo,
       OpenFails, Goto, Fault
  <2>4. CASE CtxOk(p)
    <3>1. UNCHANGED <<dbVars, lock, cur, res>>
      BY <2>4 DEF CtxOk
    <3>2. LockInv' /\ DbInv'
      BY <2>4, <3>1 DEF LockInv, DbInv, AppliedTo, CtxOk, Goto
    <3>3. LoopInv' /\ NilInv'
      BY <2>4, <3>1 DEF LoopInv, NilInv, Succeeded, AppliedTo, CtxOk, Goto
    <3>q. QED
      BY <1>t, <3>2, <3>3
  <2>5. CASE CtxExpired(p)
    BY <1>t, <2>5 DEF LockInv, DbInv, LoopInv, NilInv, Succeeded, AppliedTo,
       CtxExpired, Goto
  <2>6. CASE Acquire(p)
    BY <1>t, <2>6 DEF LockInv, DbInv, LoopInv, NilInv, Succeeded, AppliedTo,
       Acquire, Goto
  <2>7. CASE LockTimeout(p)
    BY <1>t, <2>7 DEF LockInv, DbInv, LoopInv, NilInv, Succeeded, AppliedTo,
       LockTimeout, Goto
  <2>8. CASE Refuse(p)
    BY <1>t, <2>8 DEF LockInv, DbInv, LoopInv, NilInv, Succeeded, AppliedTo,
       Refuse, Goto
  <2>9. CASE Read(p)
    BY <1>t, <2>9 DEF LockInv, DbInv, LoopInv, NilInv, Succeeded, AppliedTo,
       Read, Goto, Pending
  <2>10. CASE Mark(p)
    <3>1. LockInv'
      BY <2>10 DEF LockInv, Mark, Goto
    <3>2. DbInv'
      BY <2>10 DEF DbInv, LoopInv, AppliedTo, Mark, Goto
    <3>3. LoopInv'
      BY <2>10 DEF LoopInv, LockInv, DbInv, AppliedTo, Mark, Goto
    <3>4. NilInv'
      BY <2>10 DEF NilInv, Succeeded, DbInv, LoopInv, AppliedTo, Mark, Goto
    <3>q. QED
      BY <1>t, <3>1, <3>2, <3>3, <3>4
  <2>11. CASE Run(p)
    <3>1. LockInv'
      BY <2>11 DEF LockInv, Run, Goto
    <3>2. DbInv'
      BY <2>11 DEF DbInv, LoopInv, AppliedTo, Run, Goto
    <3>3. LoopInv'
      BY <2>11 DEF LoopInv, LockInv, DbInv, AppliedTo, Run, Goto
    <3>4. NilInv'
      BY <2>11 DEF NilInv, Succeeded, DbInv, LoopInv, AppliedTo, Run, Goto
    <3>q. QED
      BY <1>t, <3>1, <3>2, <3>3, <3>4
  <2>12. CASE RunFails(p)
    BY <1>t, <2>12 DEF LockInv, DbInv, LoopInv, NilInv, Succeeded, AppliedTo,
       RunFails, Goto, Fault
  <2>13. CASE Clean(p)
    <3>1. LockInv'
      BY <2>13 DEF LockInv, Clean, Goto, Pending
    <3>2. DbInv'
      BY <2>13 DEF DbInv, LoopInv, AppliedTo, Clean, Goto, Pending
    <3>3. LoopInv'
      BY <2>13 DEF LoopInv, LockInv, DbInv, AppliedTo, Clean, Goto, Pending
    <3>4. NilInv'
      BY <2>13 DEF NilInv, Succeeded, DbInv, LoopInv, AppliedTo, Clean, Goto, Pending
    <3>q. QED
      BY <1>t, <3>1, <3>2, <3>3, <3>4
  <2>14. CASE Unlock(p)
    BY <1>t, <2>14 DEF LockInv, DbInv, LoopInv, NilInv, Succeeded, AppliedTo,
       Unlock, Goto, Released
  <2>15. CASE Close(p)
    BY <1>t, <2>15 DEF LockInv, DbInv, LoopInv, NilInv, Succeeded, AppliedTo,
       Close, Goto
  <2>16. CASE ConnLost(p)
    BY <1>t, <2>16 DEF LockInv, DbInv, LoopInv, NilInv, Succeeded, AppliedTo,
       ConnLost, Fault, Released
  <2>17. CASE Crash(p)
    BY <1>t, <2>17 DEF LockInv, DbInv, LoopInv, NilInv, Succeeded, AppliedTo,
       Crash, Fault, Released
  <2>18. CASE Exit(p)
    BY <1>t, <2>18 DEF LockInv, DbInv, LoopInv, NilInv, Succeeded, AppliedTo,
       Exit
  <2>q. QED
    BY <1>2, <2>1, <2>2, <2>3, <2>4, <2>5, <2>6, <2>7, <2>8, <2>9, <2>10,
       <2>11, <2>12, <2>13, <2>14, <2>15, <2>16, <2>17, <2>18
    DEF Step, Failure
<1>q. QED
  BY <1>1, <1>2 DEF Next

-----------------------------------------------------------------------------
\* It holds of an empty database and processes that are not started.
LEMMA InitInv ==
  ASSUME Init
  PROVE  IInv
<1>1. TypeOK
  <2>1. 0 \in 0..MaxVersion /\ 0 \in 0..MaxFaults
    BY MigrateAssumption
  <2>2. applied \in [Versions -> Nat]
    BY DEF Init
  <2>q. QED
    BY <2>1, <2>2 DEF Init, TypeOK, Stopped
<1>2. LockInv
  BY MigrateAssumption DEF Init, LockInv, Critical
<1>3. DbInv
  BY MigrateAssumption DEF Init, DbInv, AppliedTo, Versions
<1>4. LoopInv /\ NilInv
  BY DEF Init, LoopInv, NilInv, Succeeded
<1>q. QED
  BY <1>1, <1>2, <1>3, <1>4 DEF IInv

\* The inductive invariant, from which the safety results follow.
THEOREM Inductive == Spec => []IInv
<1>1. Init => IInv
  BY InitInv
<1>2. IInv /\ [Next]_vars => IInv'
  BY StepInv
<1>q. QED
  BY <1>1, <1>2, PTL DEF Spec

\* The variables have their types.
THEOREM TypeCorrect == Spec => []TypeOK
<1>1. IInv => TypeOK
  BY DEF IInv
<1>q. QED
  BY <1>1, Inductive, PTL

\* No body of a migration commits twice.
THEOREM BodiesApplyOnce == Spec => []AppliedOnce
<1>1. ASSUME IInv
      PROVE  AppliedOnce
  <2>1. PICK n : AppliedTo(n)
    BY <1>1 DEF IInv, DbInv
  <2>q. QED
    BY <2>1 DEF AppliedTo, AppliedOnce
<1>q. QED
  BY <1>1, Inductive, PTL

\* A clean version column means that all bodies up to it have committed.
THEOREM CleanTellsTheTruth == Spec => []CleanIsComplete
<1>1. IInv => CleanIsComplete
  BY DEF IInv, DbInv, AppliedTo, CleanIsComplete
<1>q. QED
  BY <1>1, Inductive, PTL

\* A process that Up lets through to the seed has all its migrations.
THEOREM SuccessMeansMigrated == Spec => []SuccessIsMigrated
<1>1. IInv => SuccessIsMigrated
  BY DEF IInv, NilInv, SuccessIsMigrated
<1>q. QED
  BY <1>1, Inductive, PTL

\* The recorded version moves by one, and only away from a clean state.
THEOREM VersionsInOrder == Spec => InOrder
<1>1. ASSUME IInv, Next, version' # version
      PROVE  version' = version + 1 /\ ~dirty /\ dirty'
  <2>1. PICK p \in Proc : Mark(p) \/ Clean(p)
    BY <1>1 DEF Next, Step, Failure, Start, Open, OpenFails, CtxOk, CtxExpired,
      Acquire, LockTimeout, Refuse, Read, Run, RunFails, Unlock, Close,
      ConnLost, Crash, Exit, dbVars
  <2>2. ~Clean(p)
    BY <1>1 DEF IInv, LoopInv, Clean, Goto
  <2>q. QED
    BY <1>1, <2>1, <2>2 DEF IInv, LoopInv, Mark, Goto
<1>2. IInv /\ [Next]_vars =>
        [version' # version => version' = version + 1 /\ ~dirty /\ dirty']_vars
  BY <1>1
<1>q. QED
  BY <1>2, Inductive, PTL DEF Spec, InOrder

\* A half-applied migration is never touched again by any process.
Frozen(v) ==
  /\ dirty /\ version = v
  /\ \A p \in Proc : mpc[p] \notin {"mark", "run", "clean"}

THEOREM HalfWayIsFrozen == Spec => HalfWayFreezes
<1> SUFFICES ASSUME NEW v \in Versions
             PROVE  Spec => [](dirty /\ lock = NoProc /\ version = v
                                 => [](dirty /\ version = v))
  BY DEF HalfWayFreezes
<1>1. IInv /\ dirty /\ lock = NoProc /\ version = v => Frozen(v)
  BY MigrateAssumption DEF IInv, LockInv, Frozen, Critical
<1>2. ASSUME Frozen(v), TypeOK, [Next]_vars
      PROVE  Frozen(v)'
  <2>1. CASE UNCHANGED vars
    BY <1>2, <2>1 DEF Frozen, vars, dbVars
  <2>2. CASE Next
    <3>1. PICK p \in Proc : Start(p) \/ Step(p) \/ Failure(p) \/ Exit(p)
      BY <2>2 DEF Next
    <3>q. QED
      BY <1>2, <3>1 DEF Frozen, TypeOK, Step, Failure, Start, Open, OpenFails,
        CtxOk, CtxExpired, Acquire, LockTimeout, Refuse, Read, Mark, Run,
        RunFails, Clean, Unlock, Close, ConnLost, Crash, Exit, Goto, dbVars
  <2>q. QED
    BY <1>2, <2>1, <2>2
<1>3. IInv => TypeOK
  BY DEF IInv
<1>4. Frozen(v) => dirty /\ version = v
  BY DEF Frozen
<1>q. QED
  BY <1>1, <1>2, <1>3, <1>4, Inductive, PTL DEF Spec

-----------------------------------------------------------------------------
(* Migrate implements Upgrade.                                             *)

\* There is one level at most that fits the bodies that have committed.
LEMMA OneLevel ==
  ASSUME NEW f, NEW m \in 0..MaxVersion, NEW n \in 0..MaxVersion,
         \A v \in Versions : f[v] = (IF v <= m THEN 1 ELSE 0),
         \A v \in Versions : f[v] = (IF v <= n THEN 1 ELSE 0)
  PROVE  m = n
<1>1. CASE m < n
  <2>1. n \in Versions
    BY <1>1, MigrateAssumption DEF Versions
  <2>q. QED
    BY <1>1, <2>1
<1>2. CASE n < m
  <2>1. m \in Versions
    BY <1>2, MigrateAssumption DEF Versions
  <2>q. QED
    BY <1>2, <2>1
<1>q. QED
  BY <1>1, <1>2, MigrateAssumption

\* What the level is, given one that fits.
LEMMA LevelIs ==
  /\ \A n \in 0..MaxVersion : AppliedTo(n) => Level = n
  /\ \A n \in 0..MaxVersion : AppliedTo(n)' => Level' = n
BY OneLevel DEF Level, AppliedTo, Versions

\* Between the bodies of a process nothing changes the level.
LEMMA LevelStays ==
  ASSUME UNCHANGED applied
  PROVE  Level' = Level
BY DEF Level, AppliedTo

\* A step of p turns the call of p only.
LEMMA CallTurns ==
  ASSUME TypeOK, NEW p \in Proc,
         \A q \in Proc : q # p => mpc'[q] = mpc[q] /\ res'[q] = res[q]
  PROVE  [q \in Proc |-> CallOf(q)]' =
           [[q \in Proc |-> CallOf(q)] EXCEPT ![p] = CallOf(p)']
<1>1. \A q \in Proc : q # p => CallOf(q)' = CallOf(q)
  BY DEF CallOf, Succeeded
<1>q. QED
  BY <1>1

\* The holder of the lock is alone with a migration under way.
LEMMA AloneInTheLoop ==
  ASSUME IInv, NEW p \in Proc, mpc[p] \in {"run", "clean"}
  PROVE  /\ Torn = FALSE
         /\ \A q \in Proc : q # p => mpc[q] \notin {"run", "clean"}
BY DEF Torn, IInv, LockInv, Critical

\* The process is gone, for whatever reason, from wherever it was.
Vanish(p) ==
  /\ mpc' = [mpc EXCEPT ![p] = "down"]
  /\ UNCHANGED <<version, dirty, applied, res>>

\* Steps before and after the bodies: the level stays, and where nothing is torn
\* nothing gets torn.
LEMMA Besides ==
  ASSUME IInv, NEW p \in Proc,
         \/ Start(p) \/ Open(p) \/ OpenFails(p) \/ CtxOk(p) \/ CtxExpired(p)
         \/ Acquire(p) \/ LockTimeout(p) \/ Refuse(p) \/ Read(p) \/ Unlock(p)
         \/ Close(p)
         \/ (ConnLost(p) \/ Vanish(p)) /\ mpc[p] \notin {"run", "clean"}
  PROVE  /\ UNCHANGED <<dirty, version, applied>> /\ Level' = Level /\ Torn' = Torn
         /\ \A q \in Proc : q # p => mpc'[q] = mpc[q] /\ res'[q] = res[q]
<1>1. UNCHANGED <<dirty, version, applied>>
  BY DEF Start, Open, OpenFails, CtxOk, CtxExpired, Acquire, LockTimeout, Refuse, Read,
    Unlock, Close, ConnLost, Vanish, dbVars
<1>2. \A q \in Proc : q # p => mpc'[q] = mpc[q] /\ res'[q] = res[q]
  BY DEF IInv, TypeOK, Start, Open, OpenFails, CtxOk, CtxExpired, Acquire, LockTimeout,
    Refuse, Read, Unlock, Close, ConnLost, Vanish, Goto
<1>3. mpc[p] \notin {"run", "clean"} /\ mpc'[p] \notin {"run", "clean"}
  BY DEF IInv, TypeOK, Start, Open, OpenFails, CtxOk, CtxExpired, Acquire, LockTimeout,
    Refuse, Read, Unlock, Close, ConnLost, Vanish, Goto, Pending
<1>4. Torn' = Torn
  BY <1>1, <1>2, <1>3 DEF Torn
<1>q. QED
  BY <1>1, <1>2, <1>4, LevelStays

\* What such a step makes of the call of p.
LEMMA BesidesTurns ==
  ASSUME IInv, NEW p \in Proc
  PROVE  /\ Start(p) => CallOf(p) = "out" /\ CallOf(p)' = "trying"
         /\ Open(p) \/ CtxOk(p) \/ Acquire(p) => CallOf(p)' = CallOf(p)
         /\ OpenFails(p) \/ CtxExpired(p) \/ LockTimeout(p) \/ Refuse(p)
              => CallOf(p) = "trying" /\ CallOf(p)' = "failed"
         /\ Unlock(p) \/ Close(p) => CallOf(p)' = CallOf(p)
         /\ ConnLost(p) => CallOf(p) \in {"trying", "migrated", "failed"}
                           /\ CallOf(p)' = "failed"
         /\ Vanish(p) => /\ CallOf(p)' = "out"
                         /\ mpc[p] # "down" => CallOf(p) # "out"
<1> USE DEF IInv, TypeOK, Goto, CallOf, Succeeded
<1>1. /\ Start(p) => CallOf(p) = "out" /\ CallOf(p)' = "trying"
      /\ Open(p) \/ CtxOk(p) \/ Acquire(p) => CallOf(p)' = CallOf(p)
  BY DEF Start, Open, CtxOk, Acquire
<1>2. OpenFails(p) \/ CtxExpired(p) \/ LockTimeout(p) \/ Refuse(p)
        => CallOf(p) = "trying" /\ CallOf(p)' = "failed"
  BY DEF OpenFails, CtxExpired, LockTimeout, Refuse
<1>3. Unlock(p) \/ Close(p) => CallOf(p)' = CallOf(p)
  BY DEF Unlock, Close
<1>4. ConnLost(p) => CallOf(p) \in {"trying", "migrated", "failed"} /\ CallOf(p)' = "failed"
  BY DEF ConnLost, Critical
<1>5. Vanish(p) => /\ CallOf(p)' = "out"
                   /\ mpc[p] # "down" => CallOf(p) # "out"
  BY DEF Vanish, Working, Critical, Stopped
<1>q. QED
  BY <1>1, <1>2, <1>3, <1>4, <1>5

\* A body that commits is a climb; no other statement of the loop is seen.
LEMMA LoopClimbs ==
  ASSUME IInv, NEW p \in Proc, Mark(p) \/ Run(p) \/ Clean(p)
  PROVE  [U!Next]_(U!vars)
<1>n. PICK n : n = cur[p]
  OBVIOUS
<1>1. n \in 0..MaxVersion /\ n + 1 \in 0..MaxVersion /\ n + 1 <= Latest[p]
      /\ res[p] = "nil" /\ Latest[p] \in 1..MaxVersion
  BY <1>n, MigrateAssumption DEF IInv, TypeOK, LoopInv, Mark, Run, Clean, Goto
<1>2. \A q \in Proc : q # p => mpc'[q] = mpc[q] /\ res'[q] = res[q]
  BY DEF IInv, TypeOK, Mark, Run, Clean, Goto
<1>3. Torn = FALSE
  BY AloneInTheLoop DEF Mark, Run, Clean, Goto, IInv, LoopInv, Torn
<1>4. CallOf(p) = "trying"
  BY DEF Mark, Run, Clean, Goto, CallOf
<1>5. CASE Mark(p)
  <2>1. mpc'[p] = "run" /\ UNCHANGED applied
    BY <1>5 DEF Mark, Goto, IInv, TypeOK
  <2>2. Torn' = FALSE /\ CallOf(p)' = "trying" /\ Level' = Level
    BY <2>1, LevelStays DEF Torn, CallOf
  <2>q. QED
    BY <1>2, <1>3, <1>4, <2>2, CallTurns DEF IInv, U!vars
<1>6. CASE Run(p)
  <2>1. mpc'[p] = "clean" /\ version = n + 1
        /\ applied' = [applied EXCEPT ![n + 1] = @ + 1]
    BY <1>n, <1>6 DEF Run, Goto, IInv, TypeOK, LoopInv
  <2>2. AppliedTo(n) /\ AppliedTo(n + 1)'
    BY <1>n, <1>1, <1>6, <2>1 DEF Run, Goto, IInv, TypeOK, LoopInv, AppliedTo, Versions
  <2>3. Level = n /\ Level' = n + 1
    BY <1>1, <2>2, LevelIs
  <2>4. Torn' = FALSE /\ CallOf(p)' = "trying"
    BY <2>1 DEF Torn, CallOf
  <2>5. [q \in Proc |-> CallOf(q)]' = [q \in Proc |-> CallOf(q)]
    BY <1>2, <1>4, <2>4, CallTurns DEF IInv
  <2>6. Level < Latest[p] /\ Level' = Level + 1
    BY <1>1, <2>3, MigrateAssumption
  <2>7. U!Climb(p)
    BY <1>3, <1>4, <2>4, <2>5, <2>6 DEF U!Climb
  <2>q. QED
    BY <2>7 DEF U!Next
<1>7. CASE Clean(p)
  <2>1. /\ mpc'[p] = Pending(p, n + 1) /\ UNCHANGED <<applied, res>>
        /\ ~dirty' /\ AppliedTo(n + 1)
    BY <1>n, <1>7 DEF Clean, Goto, IInv, TypeOK, LoopInv
  <2>2. Torn' = FALSE /\ Level' = Level /\ Level = n + 1
    BY <1>1, <2>1, LevelStays, LevelIs DEF Torn
  <2>3. CASE n + 1 < Latest[p]
    <3>1. CallOf(p)' = "trying"
      BY <2>1, <2>3 DEF CallOf, Pending
    <3>q. QED
      BY <1>2, <1>3, <1>4, <2>2, <3>1, CallTurns DEF IInv, U!vars
  <2>4. CASE n + 1 = Latest[p]
    <3>1. CallOf(p)' = "migrated"
      BY <1>1, <2>1, <2>4 DEF CallOf, Pending, Succeeded
    <3>2. U!Succeed(p)
      BY <1>1, <1>2, <1>3, <1>4, <2>2, <2>4, <3>1, CallTurns
      DEF IInv, U!Succeed, U!Turns
    <3>q. QED
      BY <3>2 DEF U!Next
  <2>q. QED
    BY <1>1, <2>3, <2>4
<1>q. QED
  BY <1>5, <1>6, <1>7

\* A failure inside the loop may tear the schema.
LEMMA FailureTears ==
  ASSUME IInv, NEW p \in Proc, mpc[p] \in {"run", "clean"},
         RunFails(p) \/ ConnLost(p) \/ Vanish(p)
  PROVE  U!Tear(p)
<1>1. /\ UNCHANGED <<version, dirty, applied>> /\ dirty
      /\ mpc'[p] \notin {"run", "clean"}
      /\ \A q \in Proc : q # p => mpc'[q] = mpc[q] /\ res'[q] = res[q]
  BY DEF IInv, TypeOK, LoopInv, RunFails, ConnLost, Vanish, Goto, dbVars
<1>2. Torn = FALSE
  BY AloneInTheLoop
<1>3. Torn' = TRUE
  BY <1>1, AloneInTheLoop DEF Torn
<1>4. CallOf(p) = "trying" /\ CallOf(p)' \in {"failed", "out"}
  BY DEF CallOf, Succeeded, RunFails, ConnLost, Vanish, Goto, IInv, TypeOK
<1>5. Level' = Level /\ Level <= Latest[p]
  <2>1. PICK n : n = IF mpc[p] = "run" THEN cur[p] ELSE version
    OBVIOUS
  <2>2. n \in 0..MaxVersion /\ n <= Latest[p] /\ AppliedTo(n)
    BY <2>1, MigrateAssumption DEF IInv, TypeOK, LoopInv
  <2>q. QED
    BY <1>1, <2>2, LevelIs, LevelStays
<1>q. QED
  BY <1>1, <1>2, <1>3, <1>4, <1>5, CallTurns DEF IInv, U!Tear, U!Turns

\* Nothing of Upgrade changes with the rest of the state.
LEMMA UnseenUpgrade ==
  ASSUME UNCHANGED <<version, dirty, applied, mpc, res>>
  PROVE  UNCHANGED U!vars
<1>1. Level' = Level /\ Torn' = Torn
  BY LevelStays DEF Torn
<1>2. \A q \in Proc : CallOf(q)' = CallOf(q)
  BY DEF CallOf, Succeeded
<1>q. QED
  BY <1>1, <1>2 DEF U!vars

\* A process that is gone has left, perhaps a schema that is torn.
LEMMA VanishLeaves ==
  ASSUME IInv, NEW p \in Proc, Vanish(p)
  PROVE  [U!Next]_(U!vars)
<1>1. CASE mpc[p] = "down"
  <2>1. UNCHANGED mpc
    BY <1>1 DEF Vanish, IInv, TypeOK
  <2>q. QED
    BY <2>1, UnseenUpgrade DEF Vanish
<1>2. CASE mpc[p] \in {"run", "clean"}
  BY <1>2, FailureTears DEF U!Next
<1>3. CASE mpc[p] \notin {"down", "run", "clean"}
  <2>1. /\ Level' = Level /\ Torn' = Torn
        /\ [q \in Proc |-> CallOf(q)]'
             = [[q \in Proc |-> CallOf(q)] EXCEPT ![p] = CallOf(p)']
    BY <1>3, Besides, CallTurns DEF IInv
  <2>2. U!Leave(p)
    BY <1>3, <2>1, BesidesTurns DEF U!Leave, U!Turns
  <2>q. QED
    BY <2>2 DEF U!Next
<1>q. QED
  BY <1>1, <1>2, <1>3

\* Every step of Migrate is a step of Upgrade or changes nothing of it.
LEMMA StepUpgrades ==
  ASSUME IInv, [Next]_vars
  PROVE  [U!Next]_(U!vars)
<1>1. CASE UNCHANGED vars
  BY <1>1, UnseenUpgrade DEF vars
<1>2. ASSUME NEW p \in Proc, Start(p) \/ Step(p) \/ Failure(p) \/ Exit(p)
      PROVE  [U!Next]_(U!vars)
  <2> DEFINE Call == [q \in Proc |-> CallOf(q)]
             Quiet == /\ Level' = Level /\ Torn' = Torn
                      /\ Call' = [Call EXCEPT ![p] = CallOf(p)']
  <2>1. CASE Start(p)
    <3>1. Quiet
      BY <2>1, Besides, CallTurns DEF IInv
    <3>2. U!Begin(p)
      BY <2>1, <3>1, BesidesTurns DEF U!Begin, U!Turns
    <3>q. QED
      BY <3>2 DEF U!Next
  <2>2. CASE Open(p) \/ CtxOk(p) \/ Acquire(p) \/ Unlock(p) \/ Close(p)
    <3>1. Quiet
      BY <2>2, Besides, CallTurns DEF IInv
    <3>q. QED
      BY <2>2, <3>1, BesidesTurns DEF U!vars
  <2>3. CASE OpenFails(p) \/ CtxExpired(p) \/ LockTimeout(p) \/ Refuse(p)
    <3>1. Quiet
      BY <2>3, Besides, CallTurns DEF IInv
    <3>2. U!Fail(p)
      BY <2>3, <3>1, BesidesTurns DEF U!Fail, U!Turns
    <3>q. QED
      BY <3>2 DEF U!Next
  <2>4. CASE Read(p)
    <3>1. Quiet
      BY <2>4, Besides, CallTurns DEF IInv
    <3>2. CallOf(p) = "trying"
      BY <2>4 DEF Read, Goto, CallOf
    <3>3. CASE version < Latest[p]
      <4>1. CallOf(p)' = "trying"
        BY <2>4, <3>3 DEF Read, Goto, Pending, CallOf, IInv, TypeOK
      <4>q. QED
        BY <3>1, <3>2, <4>1 DEF U!vars
    <3>4. CASE version = Latest[p]
      <4>1. CallOf(p)' = "migrated"
        BY <2>4, <3>4, MigrateAssumption
        DEF Read, Goto, Pending, CallOf, Succeeded, IInv, TypeOK
      <4>2. Torn = FALSE
        BY <2>4 DEF Read, Torn
      <4>3. AppliedTo(version) /\ version \in 0..MaxVersion
        BY <2>4 DEF Read, IInv, DbInv, TypeOK
      <4>4. Level = version
        BY <4>3, LevelIs
      <4>5. Level >= Latest[p]
        BY <3>4, <4>3, <4>4, MigrateAssumption
      <4>6. U!Succeed(p)
        BY <3>1, <3>2, <4>1, <4>2, <4>5 DEF U!Succeed, U!Turns
      <4>q. QED
        BY <4>6 DEF U!Next
    <3>5. version < Latest[p] \/ version = Latest[p]
      <4>1. version \in Int /\ Latest[p] \in Int
        BY MigrateAssumption DEF IInv, TypeOK
      <4>q. QED
        BY <2>4, <4>1 DEF Read
    <3>q. QED
      BY <3>3, <3>4, <3>5
  <2>5. CASE Mark(p) \/ Run(p) \/ Clean(p)
    BY <2>5, LoopClimbs
  <2>6. CASE RunFails(p) \/ (ConnLost(p) /\ mpc[p] \in {"run", "clean"})
    BY <2>6, FailureTears DEF RunFails, Goto, U!Next
  <2>7. CASE ConnLost(p) /\ mpc[p] \notin {"run", "clean"}
    <3>1. Quiet
      BY <2>7, Besides, CallTurns DEF IInv
    <3>2. CASE CallOf(p) = "failed"
      BY <2>7, <3>1, <3>2, BesidesTurns DEF U!vars
    <3>3. CASE CallOf(p) \in {"trying", "migrated"}
      <4>1. U!Fail(p)
        BY <2>7, <3>1, <3>3, BesidesTurns DEF U!Fail, U!Turns
      <4>q. QED
        BY <4>1 DEF U!Next
    <3>q. QED
      BY <2>7, <3>2, <3>3, BesidesTurns
  <2>8. CASE Crash(p) \/ Exit(p)
    <3>1. Vanish(p)
      BY <2>8 DEF Crash, Exit, Vanish, dbVars
    <3>q. QED
      BY <3>1, VanishLeaves
  <2>q. QED
    BY <1>2, <2>1, <2>2, <2>3, <2>4, <2>5, <2>6, <2>7, <2>8 DEF Step, Failure
<1>q. QED
  BY <1>1, <1>2 DEF Next

\* An empty database is the foot of the climb.
LEMMA InitUpgrade ==
  ASSUME Init
  PROVE  U!Init
<1>1. AppliedTo(0) /\ 0 \in 0..MaxVersion
  BY MigrateAssumption DEF Init, AppliedTo, Versions
<1>2. Level = 0
  BY <1>1, LevelIs
<1>3. Torn = FALSE /\ \A p \in Proc : CallOf(p) = "out"
  BY DEF Init, Torn, CallOf
<1>q. QED
  BY <1>2, <1>3 DEF U!Init

\* Whatever processes run Up at the same time and wherever they die, it looks as
\* if each call had the database to itself.
THEOREM Implements == Spec => ImplementsUpgrade
<1>1. IInv /\ [Next]_vars => [U!Next]_(U!vars)
  BY StepUpgrades
<1>q. QED
  BY Inductive, InitUpgrade, <1>1, PTL DEF Spec, ImplementsUpgrade, U!Spec
=============================================================================
