-------------------------------- MODULE Seed ---------------------------------
(***************************************************************************)
(* seed.SeedBuiltin (backend/internal/infra/seed/seed.go): every server    *)
(* installs the builtin environments, their policies, the builtin roles    *)
(* and the permissions of those roles each time it starts.                 *)
(*                                                                         *)
(* No transaction spans two statements: each INSERT, SELECT and DELETE     *)
(* commits on its own, so servers that start together, and servers that    *)
(* die half-way, leave every intermediate state visible.  The permissions  *)
(* come from the registry compiled into each binary                        *)
(* (backend/internal/infra/permissions), and binaries may differ in it.    *)
(*                                                                         *)
(* Rows are known by their natural key (environments.key and roles.key are *)
(* UNIQUE); the ids the code looks up stand for nothing else.              *)
(***************************************************************************)
EXTENDS Integers, Sequences, SequencesExt

CONSTANTS
  Proc,         \* the servers
  Environments, \* BuiltinEnvironments, a sequence of keys
  Policies,     \* BuiltinEnvironmentPolicies, paired with it by position
  Roles,        \* BuiltinRoles, a sequence of keys
  Permission,   \* the permissions that exist
  Registry,     \* Registry[p][r]: what p's binary grants to role r
  MaxFaults     \* bound on crashes and failing statements

EnvKey  == Range(Environments)
RoleKey == Range(Roles)

ASSUME SeedAssumption ==
  /\ Proc # {}
  /\ Environments \in Seq(STRING) /\ IsInjective(Environments)
  /\ Roles \in Seq(STRING) /\ IsInjective(Roles)
  /\ Len(Environments) > 0 /\ Len(Roles) > 0
  /\ Policies \in Seq(STRING) /\ "absent" \notin Range(Policies)
  /\ Len(Policies) = Len(Environments)
  /\ Registry \in [Proc -> [RoleKey -> SUBSET Permission]]
  /\ MaxFaults \in Nat

VARIABLES
  environments, \* each key's row: "absent", "builtin" or "edited"
  policies,     \* each environment's policy row, "absent" or "edited"
  roles,        \* each key's row: "absent", "builtin" or "edited"
  grants,       \* role_permissions: the permissions of each role
  spc,          \* where each server stands in SeedBuiltin
  at,           \* position in the loop it is in
  faults        \* faults so far, at most MaxFaults

tables == <<environments, policies, roles, grants>>
vars   == <<environments, policies, roles, grants, spc, at, faults>>

Seeding == {"environment", "policyEnv", "policy", "role",
            "grantRole", "clear", "grant"}
Stopped == {"down", "done", "failed"}

TypeOK ==
  /\ environments \in [EnvKey -> {"absent", "builtin", "edited"}]
  /\ policies \in [EnvKey -> Range(Policies) \cup {"absent", "edited"}]
  /\ roles \in [RoleKey -> {"absent", "builtin", "edited"}]
  /\ grants \in [RoleKey -> SUBSET Permission]
  /\ spc \in [Proc -> Seeding \cup Stopped]
  /\ at \in [Proc -> Nat]
  /\ \A p \in Proc :
       /\ spc[p] \in {"environment", "policyEnv", "policy"}
            => at[p] \in 1..Len(Environments)
       /\ spc[p] \in {"role", "grantRole", "clear", "grant"}
            => at[p] \in 1..Len(Roles)
  /\ faults \in 0..MaxFaults

\* The tables as the migrations leave them.
Init ==
  /\ environments = [e \in EnvKey |-> "absent"]
  /\ policies = [e \in EnvKey |-> "absent"]
  /\ roles = [r \in RoleKey |-> "absent"]
  /\ grants = [r \in RoleKey |-> {}]
  /\ spc = [p \in Proc |-> "down"]
  /\ at = [p \in Proc |-> 1]
  /\ faults = 0

Goto(p, label, i) ==
  /\ spc' = [spc EXCEPT ![p] = label]
  /\ at' = [at EXCEPT ![p] = i]

\* Mutant: the loop runs one position too far.
LoopTooFar(p, n, again, next) ==
  IF at[p] <= n THEN Goto(p, again, at[p] + 1) ELSE Goto(p, next, 1)

\* The loop over 1..n goes on at label "again", or ends and "next" follows.
Loop(p, n, again, next) ==
  IF at[p] < n THEN Goto(p, again, at[p] + 1) ELSE Goto(p, next, 1)

\* Mutant: ON CONFLICT DO UPDATE.
InsertOrReplace(table, key, row) == [table EXCEPT ![key] = row]

\* INSERT ... ON CONFLICT DO NOTHING.
InsertIfAbsent(table, key, row) ==
  IF table[key] = "absent" THEN [table EXCEPT ![key] = row] ELSE table

Fault ==
  /\ faults < MaxFaults
  /\ faults' = faults + 1

-----------------------------------------------------------------------------
(* One action per statement of SeedBuiltin.                                *)

Start(p) ==
  /\ spc[p] = "down"
  /\ Goto(p, "environment", 1)
  /\ UNCHANGED <<tables, faults>>

\* seedEnvironments
InsertEnvironment(p) ==
  /\ spc[p] = "environment"
  /\ environments' = InsertIfAbsent(environments, Environments[at[p]], "builtin")
  /\ Loop(p, Len(Environments), "environment", "policyEnv")
  /\ UNCHANGED <<policies, roles, grants, faults>>

\* seedEnvironmentPolicies: look the environment up, then insert its policy.
LookupEnvironment(p) ==
  /\ spc[p] = "policyEnv"
  /\ IF environments[Environments[at[p]]] = "absent"
       THEN Goto(p, "failed", 1)
       ELSE Goto(p, "policy", at[p])
  /\ UNCHANGED <<tables, faults>>

InsertPolicy(p) ==
  /\ spc[p] = "policy"
  /\ policies' = InsertIfAbsent(policies, Environments[at[p]], Policies[at[p]])
  /\ Loop(p, Len(Environments), "policyEnv", "role")
  /\ UNCHANGED <<environments, roles, grants, faults>>

\* seedRoles
InsertRole(p) ==
  /\ spc[p] = "role"
  /\ roles' = InsertIfAbsent(roles, Roles[at[p]], "builtin")
  /\ Loop(p, Len(Roles), "role", "grantRole")
  /\ UNCHANGED <<environments, policies, grants, faults>>

\* seedRolePermissions: per role look it up, delete its rows, insert the
\* registry's.  A role without permissions is left empty.
LookupRole(p) ==
  /\ spc[p] = "grantRole"
  /\ IF roles[Roles[at[p]]] = "absent"
       THEN Goto(p, "failed", 1)
       ELSE Goto(p, "clear", at[p])
  /\ UNCHANGED <<tables, faults>>

\* Mutant: the test for an empty registry entry is inverted.
ClearGrantsOnly(p) ==
  /\ spc[p] = "clear"
  /\ grants' = [grants EXCEPT ![Roles[at[p]]] = {}]
  /\ IF Registry[p][Roles[at[p]]] # {}
       THEN Loop(p, Len(Roles), "grantRole", "done")
       ELSE Goto(p, "grant", at[p])
  /\ UNCHANGED <<environments, policies, roles, faults>>

ClearGrants(p) ==
  /\ spc[p] = "clear"
  /\ grants' = [grants EXCEPT ![Roles[at[p]]] = {}]
  /\ IF Registry[p][Roles[at[p]]] = {}
       THEN Loop(p, Len(Roles), "grantRole", "done")
       ELSE Goto(p, "grant", at[p])
  /\ UNCHANGED <<environments, policies, roles, faults>>

\* Mutant: ON CONFLICT DO NOTHING.
InsertGrantsMissing(p) ==
  LET r == Roles[at[p]] IN
  /\ spc[p] = "grant"
  /\ grants' = [grants EXCEPT ![r] = @ \cup Registry[p][r]]
  /\ Loop(p, Len(Roles), "grantRole", "done")
  /\ UNCHANGED <<environments, policies, roles, faults>>

\* The rows of a role go in by one INSERT without ON CONFLICT: one row that
\* is there already, PRIMARY KEY (role_id, permission), rejects them all.
InsertGrants(p) ==
  LET r == Roles[at[p]] IN
  /\ spc[p] = "grant"
  /\ IF grants[r] \cap Registry[p][r] = {}
       THEN /\ grants' = [grants EXCEPT ![r] = @ \cup Registry[p][r]]
            /\ Loop(p, Len(Roles), "grantRole", "done")
       ELSE /\ grants' = grants
            /\ Goto(p, "failed", 1)
  /\ UNCHANGED <<environments, policies, roles, faults>>

\* Any statement may fail for want of the database; SeedBuiltin returns the
\* error and main exits.  What was committed before stays.
StatementFails(p) ==
  /\ spc[p] \in Seeding
  /\ Fault
  /\ Goto(p, "failed", 1)
  /\ UNCHANGED tables

Crash(p) ==
  /\ spc[p] \in Seeding
  /\ Fault
  /\ Goto(p, "down", 1)
  /\ UNCHANGED tables

\* A server that was seeded, or failed to, ends; it may start again.
Exit(p) ==
  /\ spc[p] \in {"done", "failed"}
  /\ Goto(p, "down", 1)
  /\ UNCHANGED <<tables, faults>>

\* Administrators change the rows they see: a colour, a limit, a description.
OperatorEdits ==
  /\ \/ \E e \in EnvKey :
          /\ environments[e] # "absent"
          /\ environments' = [environments EXCEPT ![e] = "edited"]
          /\ UNCHANGED <<policies, roles>>
     \/ \E e \in EnvKey :
          /\ policies[e] # "absent"
          /\ policies' = [policies EXCEPT ![e] = "edited"]
          /\ UNCHANGED <<environments, roles>>
     \/ \E r \in RoleKey :
          /\ roles[r] # "absent"
          /\ roles' = [roles EXCEPT ![r] = "edited"]
          /\ UNCHANGED <<environments, policies>>
  /\ UNCHANGED <<grants, spc, at, faults>>

-----------------------------------------------------------------------------
Step(p) ==
  \/ InsertEnvironment(p)
  \/ LookupEnvironment(p) \/ InsertPolicy(p)
  \/ InsertRole(p)
  \/ LookupRole(p) \/ ClearGrants(p) \/ InsertGrants(p)

Next ==
  \/ \E p \in Proc : Start(p) \/ Step(p) \/ StatementFails(p) \/ Crash(p) \/ Exit(p)
  \/ OperatorEdits

Spec == Init /\ [][Next]_vars

-----------------------------------------------------------------------------
\* A server that gets past the seed finds every builtin row in place.
DoneIsSeeded ==
  (\E p \in Proc : spc[p] = "done") =>
    /\ \A e \in EnvKey : environments[e] # "absent" /\ policies[e] # "absent"
    /\ \A r \in RoleKey : roles[r] # "absent"

\* Releases that grant a role anything agree on some of it: a registry changes
\* by additions (permissions.go:4).
Overlapping ==
  \A r \in RoleKey, p, q \in Proc :
    Registry[p][r] # {} /\ Registry[q][r] # {}
      => Registry[p][r] \cap Registry[q][r] # {}

\* Unless the lists of two releases have nothing in common, a role holds
\* nothing or exactly what one binary grants it: the delete and insert pairs of
\* racing releases leave no blend, which is what the rejected INSERT is good for.
GrantsOfOneRelease ==
  Overlapping =>
    \A r \in RoleKey :
      grants[r] = {} \/ \E p \in Proc : grants[r] = Registry[p][r]

\* With such lists, when every server is up no role has lost its permissions to
\* a delete whose insert never came.
AllUpAllGranted ==
  Overlapping /\ (\A p \in Proc : spc[p] = "done") =>
    \A r \in RoleKey : \E p \in Proc : grants[r] = Registry[p][r]

\* A server that has given role i its permissions, in this start of its.
Passed(p, i) ==
  \/ spc[p] = "done"
  \/ spc[p] \in {"grantRole", "clear", "grant"} /\ at[p] > i

\* Without a fault, a role that some server has passed is empty only while a
\* server is between its DELETE and its INSERT for that role, or if a binary
\* grants it nothing: whatever releases race, and whichever of their INSERTs
\* are rejected, no role that a serving server counts on stays without its
\* permissions.
EmptyOnlyMeanwhile ==
  faults = 0 =>
    \A i \in DOMAIN Roles :
      (\E p \in Proc : Passed(p, i)) /\ grants[Roles[i]] = {} =>
        \E q \in Proc : \/ spc[q] = "grant" /\ at[q] = i
                       \/ Registry[q][Roles[i]] = {}

\* What an administrator changed survives every later start.
EditsSurvive ==
  [][/\ \A e \in EnvKey :
          /\ environments[e] = "edited" => environments'[e] = "edited"
          /\ policies[e] = "edited" => policies'[e] = "edited"
     /\ \A r \in RoleKey : roles[r] = "edited" => roles'[r] = "edited"]_vars

\* seed.go:84 says of SeedBuiltin that it "Returns nil on success even if
\* every row was already present": without a fault no call fails.
FailsOnlyOnFault == faults = 0 => \A p \in Proc : spc[p] # "failed"

\* openspec/specs/platform-meta-db-foundation/spec.md:38: "Re-running the seed
\* MUST NOT duplicate rows or alter existing data."
RerunKeepsGrants == [][\A r \in RoleKey : grants[r] \subseteq grants'[r]]_vars

-----------------------------------------------------------------------------
\* What Catalogue sees: the policy each environment is to have, where a server
\* stands, and the roles it has not passed.
PolicyOf == [e \in EnvKey |->
               Policies[CHOOSE i \in DOMAIN Environments : Environments[i] = e]]

StateOf(p) ==
  CASE spc[p] = "down"      -> "out"
    [] spc[p] \in Seeding   -> "seeding"
    [] spc[p] = "done"      -> "seeded"
    [] spc[p] = "failed"    -> "failed"

Owed(p) ==
  IF spc[p] \in Seeding
    THEN {Roles[i] : i \in {j \in DOMAIN Roles : ~Passed(p, j)}}
    ELSE {}

C == INSTANCE Catalogue WITH
       Offer <- Registry,
       state <- [p \in Proc |-> StateOf(p)], owed <- [p \in Proc |-> Owed(p)]

\* Whatever servers of whatever releases seed at the same time, and wherever in
\* its loops one of them fails or dies, they tend one catalogue: see Catalogue.
ImplementsCatalogue == C!Spec
=============================================================================
