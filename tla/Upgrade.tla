------------------------------- MODULE Upgrade --------------------------------
(***************************************************************************)
(* What migrate.Up promises the processes that call it, as if each of them *)
(* had the database to itself: the schema climbs one migration at a time,  *)
(* on behalf of a caller whose binary has the migration; a call succeeds   *)
(* only once the caller's migrations are in; a schema that is torn, left   *)
(* with a migration half-way, stays as it is, and from then on no call is  *)
(* found to have succeeded.  Nothing is said of locks, versions or flags.  *)
(***************************************************************************)
EXTENDS Naturals

CONSTANTS Proc, Latest

VARIABLES
  level, \* the bodies of migrations 1..level have committed, and no other
  torn,  \* a migration was left half-way
  call   \* each process: "out", "trying", "migrated" or "failed"

vars == <<level, torn, call>>

Init ==
  /\ level = 0
  /\ torn = FALSE
  /\ call = [p \in Proc |-> "out"]

Turns(p, to) == call' = [call EXCEPT ![p] = to]

Begin(p) ==
  /\ call[p] = "out"
  /\ Turns(p, "trying")
  /\ UNCHANGED <<level, torn>>

Climb(p) ==
  /\ call[p] = "trying"
  /\ ~torn
  /\ level < Latest[p]
  /\ level' = level + 1
  /\ UNCHANGED <<torn, call>>

Succeed(p) ==
  /\ call[p] = "trying"
  /\ ~torn
  /\ level >= Latest[p]
  /\ Turns(p, "migrated")
  /\ UNCHANGED <<level, torn>>

\* A call fails, also when all was done but it could not be told so.
Fail(p) ==
  /\ call[p] \in {"trying", "migrated"}
  /\ Turns(p, "failed")
  /\ UNCHANGED <<level, torn>>

\* The process ends, or dies in the middle of a call.
Leave(p) ==
  /\ call[p] # "out"
  /\ Turns(p, "out")
  /\ UNCHANGED <<level, torn>>

\* A call fails or its process dies in the middle of a migration of its own,
\* before or after the body has committed.
Tear(p) ==
  /\ call[p] = "trying"
  /\ ~torn
  /\ level <= Latest[p]
  /\ torn' = TRUE
  /\ Turns(p, "failed") \/ Turns(p, "out")
  /\ UNCHANGED level

Next ==
  \E p \in Proc :
    Begin(p) \/ Climb(p) \/ Succeed(p) \/ Fail(p) \/ Leave(p) \/ Tear(p)

Spec == Init /\ [][Next]_vars
=============================================================================
