----------------------------- MODULE SeedProofs ------------------------------
(***************************************************************************)
(* What Seed promises, for any number of servers, any builtin rows and any *)
(* registries.                                                             *)
(***************************************************************************)
EXTENDS Seed, TLAPS

\* The first n rows of a builtin slice are in their table.
Filled(table, keys, n) == \A i \in 1..n : table[keys[i]] # "absent"

\* What a server between Start and the end of its work has already put in
\* place: the rows of the loops behind it and those its own loop has passed.
EnvironmentsIn ==
  \A p \in Proc :
    /\ spc[p] = "environment" => Filled(environments, Environments, at[p] - 1)
    /\ spc[p] \in Seeding \cup {"done"} /\ spc[p] # "environment"
         => Filled(environments, Environments, Len(Environments))

PoliciesIn ==
  \A p \in Proc :
    /\ spc[p] \in {"policyEnv", "policy"} => Filled(policies, Environments, at[p] - 1)
    /\ spc[p] \in {"role", "grantRole", "clear", "grant", "done"}
         => Filled(policies, Environments, Len(Environments))

RolesIn ==
  \A p \in Proc :
    /\ spc[p] = "role" => Filled(roles, Roles, at[p] - 1)
    /\ spc[p] \in {"grantRole", "clear", "grant", "done"}
         => Filled(roles, Roles, Len(Roles))

\* The last of the servers to pass a role leaves it as it wants it: from there
\* on all of them have passed, so that none is about to take anything away.
PassedGranted ==
  Overlapping =>
    \A i \in DOMAIN Roles : (\A p \in Proc : Passed(p, i)) =>
      \E p \in Proc : grants[Roles[i]] = Registry[p][Roles[i]]

Rows   == EnvironmentsIn /\ PoliciesIn /\ RolesIn
Grants == GrantsOfOneRelease /\ PassedGranted
IInv   == TypeOK /\ Rows /\ Grants

-----------------------------------------------------------------------------
\* The constants, in the form the provers use them.
LEMMA Keys ==
  /\ DOMAIN Environments = 1..Len(Environments) /\ Len(Environments) \in Nat
  /\ DOMAIN Policies = 1..Len(Environments)
  /\ DOMAIN Roles = 1..Len(Roles) /\ Len(Roles) \in Nat
  /\ Len(Environments) > 0 /\ Len(Roles) > 0
  /\ \A i \in 1..Len(Environments) :
       /\ Environments[i] \in EnvKey
       /\ Policies[i] \in Range(Policies) /\ Policies[i] # "absent"
  /\ \A i \in 1..Len(Roles) : Roles[i] \in RoleKey
  /\ \A i, j \in 1..Len(Environments) : Environments[i] = Environments[j] => i = j
  /\ \A i, j \in 1..Len(Roles) : Roles[i] = Roles[j] => i = j
  /\ \A e \in EnvKey : \E i \in 1..Len(Environments) : e = Environments[i]
  /\ \A r \in RoleKey : \E i \in 1..Len(Roles) : r = Roles[i]
<1>1. /\ DOMAIN Environments = 1..Len(Environments) /\ Len(Environments) \in Nat
      /\ DOMAIN Policies = 1..Len(Environments)
      /\ DOMAIN Roles = 1..Len(Roles) /\ Len(Roles) \in Nat
      /\ Len(Environments) > 0 /\ Len(Roles) > 0
  BY SeedAssumption
<1>2. /\ \A i, j \in 1..Len(Environments) : Environments[i] = Environments[j] => i = j
      /\ \A i, j \in 1..Len(Roles) : Roles[i] = Roles[j] => i = j
  BY <1>1, SeedAssumption DEF IsInjective
<1>3. "absent" \notin Range(Policies)
  BY SeedAssumption
<1>q. QED
  BY <1>1, <1>2, <1>3 DEF EnvKey, RoleKey, Range

\* The loops.
LEMMA Looped ==
  ASSUME TypeOK, NEW p \in Proc, NEW n \in Nat, at[p] \in 1..n,
         NEW again \in Seeding, NEW next \in Seeding \cup {"done"},
         Loop(p, n, again, next)
  PROVE  /\ spc' \in [Proc -> Seeding \cup Stopped] /\ at' \in [Proc -> Nat]
         /\ \A q \in Proc : q # p => spc'[q] = spc[q] /\ at'[q] = at[q]
         /\ \/ at[p] < n /\ spc'[p] = again /\ at'[p] = at[p] + 1
            \/ at[p] = n /\ spc'[p] = next /\ at'[p] = 1
<1>1. /\ spc \in [Proc -> Seeding \cup Stopped] /\ at \in [Proc -> Nat]
      /\ again \in Seeding \cup Stopped /\ next \in Seeding \cup Stopped
  BY DEF TypeOK, Stopped
<1>2. CASE at[p] < n
  BY <1>1, <1>2 DEF Loop, Goto
<1>3. CASE at[p] = n
  BY <1>1, <1>3 DEF Loop, Goto
<1>q. QED
  BY <1>2, <1>3

\* Statements that leave the grants alone, by servers that pass no role.
LEMMA NobodyPasses ==
  ASSUME IInv, grants' = grants,
         \A p \in Proc, i \in 1..Len(Roles) : Passed(p, i)' => Passed(p, i)
  PROVE  Grants'
BY Keys DEF IInv, Grants, GrantsOfOneRelease, PassedGranted

\* Servers that end, fail or die, and whatever faults are counted meanwhile.
LEMMA Rest ==
  ASSUME IInv, UNCHANGED tables, faults' \in 0..MaxFaults,
         spc' \in [Proc -> Seeding \cup Stopped], at' \in [Proc -> Nat],
         \A p \in Proc : \/ spc'[p] = spc[p] /\ at'[p] = at[p]
                         \/ spc'[p] \in {"down", "failed"}
  PROVE  IInv'
<1>1. TypeOK'
  BY DEF IInv, TypeOK, Seeding, Stopped, tables
<1>3. EnvironmentsIn'
  BY DEF IInv, Rows, EnvironmentsIn, Filled, Seeding, tables
<1>4. PoliciesIn'
  BY DEF IInv, Rows, PoliciesIn, Filled, tables
<1>5. RolesIn'
  BY DEF IInv, Rows, RolesIn, Filled, tables
<1>6. Grants'
  BY NobodyPasses DEF Passed, tables
<1>q. QED
  BY <1>1, <1>3, <1>4, <1>5, <1>6 DEF IInv, Rows

-----------------------------------------------------------------------------
(* The steps of SeedBuiltin.                                               *)

\* SeedBuiltin begins: nothing is expected of the tables yet.
LEMMA StartInv ==
  ASSUME IInv, NEW p \in Proc, Start(p)
  PROVE  IInv'
<1>1. /\ UNCHANGED <<environments, policies, roles, grants, faults>>
      /\ spc' = [spc EXCEPT ![p] = "environment"] /\ at' = [at EXCEPT ![p] = 1]
  BY DEF Start, Goto, tables
<1>2. /\ spc'[p] = "environment" /\ at'[p] = 1
      /\ \A q \in Proc : q # p => spc'[q] = spc[q] /\ at'[q] = at[q]
  BY <1>1 DEF IInv, TypeOK
<1>3. TypeOK'
  BY <1>1, Keys DEF IInv, TypeOK, Seeding, Stopped
<1>5. EnvironmentsIn' /\ PoliciesIn' /\ RolesIn'
  BY <1>1, <1>2 DEF IInv, Rows, EnvironmentsIn, PoliciesIn, RolesIn, Filled
<1>6. Grants'
  BY <1>1, <1>2, NobodyPasses DEF Passed
<1>q. QED
  BY <1>3, <1>5, <1>6 DEF IInv, Rows

\* seedEnvironments: one more environment is in.
LEMMA InsertEnvironmentInv ==
  ASSUME IInv, NEW p \in Proc, InsertEnvironment(p)
  PROVE  IInv'
<1> DEFINE n == Len(Environments)
           key == Environments[at[p]]
<1>1. /\ spc[p] = "environment" /\ at[p] \in 1..n
      /\ environments' = InsertIfAbsent(environments, key, "builtin")
      /\ UNCHANGED <<policies, roles, grants, faults>>
  BY DEF InsertEnvironment, IInv, TypeOK
<1>2. /\ environments' \in [EnvKey -> {"absent", "builtin", "edited"}]
      /\ environments'[key] # "absent"
      /\ \A k \in EnvKey : environments[k] # "absent" => environments'[k] # "absent"
  <2>1. /\ environments \in [EnvKey -> {"absent", "builtin", "edited"}]
        /\ key \in EnvKey
    BY <1>1, Keys DEF IInv, TypeOK
  <2>q. QED
    BY <1>1, <2>1 DEF InsertIfAbsent
<1>3. /\ spc' \in [Proc -> Seeding \cup Stopped] /\ at' \in [Proc -> Nat]
      /\ \A q \in Proc : q # p => spc'[q] = spc[q] /\ at'[q] = at[q]
      /\ \/ at[p] < n /\ spc'[p] = "environment" /\ at'[p] = at[p] + 1
         \/ at[p] = n /\ spc'[p] = "policyEnv" /\ at'[p] = 1
  <2>1. Loop(p, n, "environment", "policyEnv")
    BY DEF InsertEnvironment
  <2>q. QED
    BY <1>1, <2>1, Looped, Keys DEF IInv, Seeding
<1>4. TypeOK'
  <2>1. /\ policies' \in [EnvKey -> Range(Policies) \cup {"absent", "edited"}]
        /\ roles' \in [RoleKey -> {"absent", "builtin", "edited"}]
        /\ grants' \in [RoleKey -> SUBSET Permission]
        /\ faults' \in 0..MaxFaults
    BY <1>1 DEF IInv, TypeOK
  <2>2. \A q \in Proc :
          /\ spc'[q] \in {"environment", "policyEnv", "policy"} => at'[q] \in 1..n
          /\ spc'[q] \in {"role", "grantRole", "clear", "grant"}
               => at'[q] \in 1..Len(Roles)
    BY <1>1, <1>3, Keys DEF IInv, TypeOK
  <2>q. QED
    BY <1>2, <1>3, <2>1, <2>2 DEF TypeOK
<1>6. EnvironmentsIn'
  <2>1. \A q \in Proc, m \in 0..n :
          Filled(environments, Environments, m) => Filled(environments', Environments, m)
    BY <1>2, Keys DEF Filled
  <2>2. Filled(environments', Environments, at[p])
    BY <1>1, <1>2, Keys DEF Filled, IInv, Rows, EnvironmentsIn
  <2>3. ASSUME NEW q \in Proc, q # p
        PROVE  /\ spc'[q] = "environment"
                    => Filled(environments', Environments, at'[q] - 1)
               /\ spc'[q] \in Seeding \cup {"done"} /\ spc'[q] # "environment"
                    => Filled(environments', Environments, n)
    BY <1>3, <2>1, <2>3, Keys DEF IInv, TypeOK, Rows, EnvironmentsIn
  <2>4. /\ spc'[p] = "environment" => Filled(environments', Environments, at'[p] - 1)
        /\ spc'[p] \in Seeding \cup {"done"} /\ spc'[p] # "environment"
             => Filled(environments', Environments, n)
    BY <1>1, <1>3, <2>2
  <2>q. QED
    BY <2>3, <2>4 DEF EnvironmentsIn
<1>7. PoliciesIn' /\ RolesIn'
  <2>1. PoliciesIn /\ RolesIn
    BY DEF IInv, Rows
  <2>2. /\ \A q \in Proc \ {p} : spc'[q] = spc[q] /\ at'[q] = at[q]
        /\ spc'[p] \in {"environment", "policyEnv"}
        /\ spc'[p] = "policyEnv" => at'[p] = 1
    BY <1>3
  <2>3. PoliciesIn'
    BY <1>1, <2>1, <2>2 DEF PoliciesIn, Filled
  <2>4. RolesIn'
    BY <1>1, <2>1, <2>2 DEF RolesIn, Filled
  <2>q. QED
    BY <2>3, <2>4
<1>8. Grants'
  BY <1>1, <1>3, NobodyPasses DEF Passed
<1>q. QED
  BY <1>4, <1>6, <1>7, <1>8 DEF IInv, Rows

\* seedEnvironmentPolicies finds the environment, or fails.
LEMMA LookupEnvironmentInv ==
  ASSUME IInv, NEW p \in Proc, LookupEnvironment(p)
  PROVE  IInv'
<1>1. /\ spc[p] = "policyEnv" /\ UNCHANGED <<environments, policies, roles, grants, faults>>
      /\ UNCHANGED tables
  BY DEF LookupEnvironment, tables
<1>2. CASE Goto(p, "failed", 1)
  BY <1>1, <1>2, Rest DEF Goto, IInv, TypeOK, Stopped
<1>3. CASE Goto(p, "policy", at[p])
  <2>1. /\ spc'[p] = "policy" /\ at' = at
        /\ \A q \in Proc : q # p => spc'[q] = spc[q]
        /\ spc' \in [Proc -> Seeding \cup Stopped]
    BY <1>3 DEF Goto, IInv, TypeOK, Seeding
  <2>2. TypeOK'
    BY <1>1, <2>1 DEF IInv, TypeOK
  <2>4. EnvironmentsIn'
    BY <1>1, <2>1 DEF IInv, Rows, EnvironmentsIn, Filled, Seeding
  <2>5. PoliciesIn' /\ RolesIn'
    BY <1>1, <2>1 DEF IInv, Rows, PoliciesIn, RolesIn, Filled
  <2>6. Grants'
    BY <1>1, <2>1, NobodyPasses DEF Passed
  <2>q. QED
    BY <2>2, <2>4, <2>5, <2>6 DEF IInv, Rows
<1>q. QED
  BY <1>2, <1>3 DEF LookupEnvironment

\* seedEnvironmentPolicies: the policy of the same position is in.
LEMMA InsertPolicyInv ==
  ASSUME IInv, NEW p \in Proc, InsertPolicy(p)
  PROVE  IInv'
<1> DEFINE n == Len(Environments)
           key == Environments[at[p]]
<1>1. /\ spc[p] = "policy" /\ at[p] \in 1..n
      /\ policies' = InsertIfAbsent(policies, key, Policies[at[p]])
      /\ UNCHANGED <<environments, roles, grants, faults>>
  BY DEF InsertPolicy, IInv, TypeOK
<1>2. /\ policies' \in [EnvKey -> Range(Policies) \cup {"absent", "edited"}]
      /\ policies'[key] # "absent"
      /\ \A k \in EnvKey : policies[k] # "absent" => policies'[k] # "absent"
  <2>1. /\ policies \in [EnvKey -> Range(Policies) \cup {"absent", "edited"}]
        /\ key \in EnvKey
        /\ Policies[at[p]] \in Range(Policies) /\ Policies[at[p]] # "absent"
    BY <1>1, Keys DEF IInv, TypeOK
  <2>q. QED
    BY <1>1, <2>1 DEF InsertIfAbsent
<1>3. /\ spc' \in [Proc -> Seeding \cup Stopped] /\ at' \in [Proc -> Nat]
      /\ \A q \in Proc : q # p => spc'[q] = spc[q] /\ at'[q] = at[q]
      /\ \/ at[p] < n /\ spc'[p] = "policyEnv" /\ at'[p] = at[p] + 1
         \/ at[p] = n /\ spc'[p] = "role" /\ at'[p] = 1
  <2>1. Loop(p, n, "policyEnv", "role")
    BY DEF InsertPolicy
  <2>q. QED
    BY <1>1, <2>1, Looped, Keys DEF IInv, Seeding
<1>4. TypeOK'
  <2>1. /\ environments' \in [EnvKey -> {"absent", "builtin", "edited"}]
        /\ roles' \in [RoleKey -> {"absent", "builtin", "edited"}]
        /\ grants' \in [RoleKey -> SUBSET Permission]
        /\ faults' \in 0..MaxFaults
    BY <1>1 DEF IInv, TypeOK
  <2>2. \A q \in Proc :
          /\ spc'[q] \in {"environment", "policyEnv", "policy"} => at'[q] \in 1..n
          /\ spc'[q] \in {"role", "grantRole", "clear", "grant"}
               => at'[q] \in 1..Len(Roles)
    <3>1. ASSUME NEW q \in Proc, q # p
          PROVE  /\ spc'[q] \in {"environment", "policyEnv", "policy"} => at'[q] \in 1..n
                 /\ spc'[q] \in {"role", "grantRole", "clear", "grant"}
                      => at'[q] \in 1..Len(Roles)
      BY <1>3, <3>1 DEF IInv, TypeOK
    <3>2. \/ spc'[p] = "policyEnv" /\ at'[p] \in 1..n
          \/ spc'[p] = "role" /\ at'[p] \in 1..Len(Roles)
      BY <1>1, <1>3, Keys
    <3>3. spc'[p] \notin {"environment", "policy", "grantRole", "clear", "grant"}
      BY <3>2
    <3>q. QED
      BY <3>1, <3>2, <3>3
  <2>q. QED
    BY <1>2, <1>3, <2>1, <2>2 DEF TypeOK
<1>6. EnvironmentsIn'
  BY <1>1, <1>3 DEF IInv, Rows, EnvironmentsIn, Filled, Seeding
<1>7. PoliciesIn'
  <2>1. \A m \in 0..n :
          Filled(policies, Environments, m) => Filled(policies', Environments, m)
    BY <1>2, Keys DEF Filled
  <2>2. Filled(policies', Environments, at[p])
    BY <1>1, <1>2, Keys DEF Filled, IInv, Rows, PoliciesIn
  <2>3. ASSUME NEW q \in Proc, q # p
        PROVE  /\ spc'[q] \in {"policyEnv", "policy"}
                    => Filled(policies', Environments, at'[q] - 1)
               /\ spc'[q] \in {"role", "grantRole", "clear", "grant", "done"}
                    => Filled(policies', Environments, n)
    <3>1. /\ spc'[q] = spc[q] /\ at'[q] = at[q]
          /\ spc[q] \in {"policyEnv", "policy"} => at[q] - 1 \in 0..n
          /\ n \in 0..n
      BY <1>3, <2>3, Keys DEF IInv, TypeOK
    <3>q. QED
      BY <2>1, <3>1 DEF IInv, Rows, PoliciesIn
  <2>4. /\ spc'[p] \in {"policyEnv", "policy"}
             => Filled(policies', Environments, at'[p] - 1)
        /\ spc'[p] \in {"role", "grantRole", "clear", "grant", "done"}
             => Filled(policies', Environments, n)
    BY <1>1, <1>3, <2>2
  <2>q. QED
    BY <2>3, <2>4 DEF PoliciesIn
<1>8. RolesIn'
  <2>1. RolesIn
    BY DEF IInv, Rows
  <2>2. /\ \A q \in Proc \ {p} : spc'[q] = spc[q] /\ at'[q] = at[q]
        /\ spc'[p] \in {"policyEnv", "role"} /\ (spc'[p] = "role" => at'[p] = 1)
    BY <1>3
  <2>q. QED
    BY <1>1, <2>1, <2>2 DEF RolesIn, Filled
<1>9. Grants'
  BY <1>1, <1>3, NobodyPasses DEF Passed
<1>q. QED
  BY <1>4, <1>6, <1>7, <1>8, <1>9 DEF IInv, Rows

\* seedRoles: one more role is in.
LEMMA InsertRoleInv ==
  ASSUME IInv, NEW p \in Proc, InsertRole(p)
  PROVE  IInv'
<1> DEFINE n == Len(Roles)
           key == Roles[at[p]]
<1>1. /\ spc[p] = "role" /\ at[p] \in 1..n
      /\ roles' = InsertIfAbsent(roles, key, "builtin")
      /\ UNCHANGED <<environments, policies, grants, faults>>
  BY DEF InsertRole, IInv, TypeOK
<1>2. /\ roles' \in [RoleKey -> {"absent", "builtin", "edited"}]
      /\ roles'[key] # "absent"
      /\ \A k \in RoleKey : roles[k] # "absent" => roles'[k] # "absent"
  <2>1. /\ roles \in [RoleKey -> {"absent", "builtin", "edited"}]
        /\ key \in RoleKey
    BY <1>1, Keys DEF IInv, TypeOK
  <2>q. QED
    BY <1>1, <2>1 DEF InsertIfAbsent
<1>3. /\ spc' \in [Proc -> Seeding \cup Stopped] /\ at' \in [Proc -> Nat]
      /\ \A q \in Proc : q # p => spc'[q] = spc[q] /\ at'[q] = at[q]
      /\ \/ at[p] < n /\ spc'[p] = "role" /\ at'[p] = at[p] + 1
         \/ at[p] = n /\ spc'[p] = "grantRole" /\ at'[p] = 1
  <2>1. Loop(p, n, "role", "grantRole")
    BY DEF InsertRole
  <2>q. QED
    BY <1>1, <2>1, Looped, Keys DEF IInv, Seeding
<1>4. TypeOK'
  <2>1. /\ environments' \in [EnvKey -> {"absent", "builtin", "edited"}]
        /\ policies' \in [EnvKey -> Range(Policies) \cup {"absent", "edited"}]
        /\ grants' \in [RoleKey -> SUBSET Permission]
        /\ faults' \in 0..MaxFaults
    BY <1>1 DEF IInv, TypeOK
  <2>2. \A q \in Proc :
          /\ spc'[q] \in {"environment", "policyEnv", "policy"}
               => at'[q] \in 1..Len(Environments)
          /\ spc'[q] \in {"role", "grantRole", "clear", "grant"} => at'[q] \in 1..n
    BY <1>1, <1>3, Keys DEF IInv, TypeOK
  <2>q. QED
    BY <1>2, <1>3, <2>1, <2>2 DEF TypeOK
<1>6. EnvironmentsIn' /\ PoliciesIn'
  <2>1. EnvironmentsIn /\ PoliciesIn
    BY DEF IInv, Rows
  <2>2. /\ \A q \in Proc \ {p} : spc'[q] = spc[q] /\ at'[q] = at[q]
        /\ spc'[p] \in {"role", "grantRole"}
    BY <1>3
  <2>3. EnvironmentsIn'
    BY <1>1, <2>1, <2>2 DEF EnvironmentsIn, Filled, Seeding
  <2>4. PoliciesIn'
    BY <1>1, <2>1, <2>2 DEF PoliciesIn, Filled
  <2>q. QED
    BY <2>3, <2>4
<1>7. RolesIn'
  <2>1. \A m \in 0..n : Filled(roles, Roles, m) => Filled(roles', Roles, m)
    BY <1>2, Keys DEF Filled
  <2>2. Filled(roles', Roles, at[p])
    BY <1>1, <1>2, Keys DEF Filled, IInv, Rows, RolesIn
  <2>3. ASSUME NEW q \in Proc, q # p
        PROVE  /\ spc'[q] = "role" => Filled(roles', Roles, at'[q] - 1)
               /\ spc'[q] \in {"grantRole", "clear", "grant", "done"}
                    => Filled(roles', Roles, n)
    BY <1>3, <2>1, <2>3, Keys DEF IInv, TypeOK, Rows, RolesIn
  <2>4. /\ spc'[p] = "role" => Filled(roles', Roles, at'[p] - 1)
        /\ spc'[p] \in {"grantRole", "clear", "grant", "done"}
             => Filled(roles', Roles, n)
    BY <1>1, <1>3, <2>2
  <2>q. QED
    BY <2>3, <2>4 DEF RolesIn
<1>8. Grants'
  <2>1. \A q \in Proc, i \in 1..n : Passed(q, i)' => Passed(q, i)
    BY <1>1, <1>3 DEF Passed
  <2>q. QED
    BY <1>1, <2>1, NobodyPasses
<1>q. QED
  BY <1>4, <1>6, <1>7, <1>8 DEF IInv, Rows

\* seedRolePermissions finds the role, or fails.
LEMMA LookupRoleInv ==
  ASSUME IInv, NEW p \in Proc, LookupRole(p)
  PROVE  IInv'
<1>1. /\ spc[p] = "grantRole" /\ UNCHANGED <<environments, policies, roles, grants, faults>>
      /\ UNCHANGED tables
  BY DEF LookupRole, tables
<1>2. CASE Goto(p, "failed", 1)
  BY <1>1, <1>2, Rest DEF Goto, IInv, TypeOK, Stopped
<1>3. CASE Goto(p, "clear", at[p])
  <2>1. /\ spc'[p] = "clear" /\ at' = at
        /\ \A q \in Proc : q # p => spc'[q] = spc[q]
        /\ spc' \in [Proc -> Seeding \cup Stopped]
    BY <1>3 DEF Goto, IInv, TypeOK, Seeding
  <2>2. TypeOK'
    BY <1>1, <2>1 DEF IInv, TypeOK
  <2>4. EnvironmentsIn'
    BY <1>1, <2>1 DEF IInv, Rows, EnvironmentsIn, Filled, Seeding
  <2>5. PoliciesIn' /\ RolesIn'
    BY <1>1, <2>1 DEF IInv, Rows, PoliciesIn, RolesIn, Filled
  <2>6. Grants'
    <3>1. \A q \in Proc, i \in 1..Len(Roles) : Passed(q, i)' => Passed(q, i)
      BY <1>1, <2>1 DEF Passed
    <3>q. QED
      BY <1>1, <3>1, NobodyPasses
  <2>q. QED
    BY <2>2, <2>4, <2>5, <2>6 DEF IInv, Rows
<1>q. QED
  BY <1>2, <1>3 DEF LookupRole

\* A server takes all its grants away from role at[p] and stays, or leaves it
\* with some, those of one binary where the lists overlap, and is through with it.
Granting(p, given) ==
  /\ spc[p] \in {"clear", "grant"}
  /\ grants' = [grants EXCEPT ![Roles[at[p]]] = given]
  /\ UNCHANGED <<environments, policies, roles, faults>>
  /\ \/ given = {} /\ Goto(p, "grant", at[p])
     \/ /\ Overlapping => \E q \in Proc : given = Registry[q][Roles[at[p]]]
        /\ Loop(p, Len(Roles), "grantRole", "done")

\* Either way a role holds nothing or one list, and the last to pass leaves one.
LEMMA GrantingInv ==
  ASSUME IInv, NEW p \in Proc, NEW given \in SUBSET Permission, Granting(p, given)
  PROVE  IInv'
<1> DEFINE n == Len(Roles)
           key == Roles[at[p]]
<1>1. /\ spc[p] \in {"clear", "grant"} /\ at[p] \in 1..n /\ key \in RoleKey
      /\ UNCHANGED <<environments, policies, roles, faults>>
  BY Keys DEF Granting, IInv, TypeOK
<1>2. /\ grants' \in [RoleKey -> SUBSET Permission]
      /\ grants'[key] = given
      /\ \A k \in RoleKey : k # key => grants'[k] = grants[k]
  BY <1>1 DEF Granting, IInv, TypeOK
<1>3. /\ spc' \in [Proc -> Seeding \cup Stopped] /\ at' \in [Proc -> Nat]
      /\ \A q \in Proc : q # p => spc'[q] = spc[q] /\ at'[q] = at[q]
      /\ \/ spc'[p] = "grant" /\ at'[p] = at[p] /\ given = {}
         \/ at[p] < n /\ spc'[p] = "grantRole" /\ at'[p] = at[p] + 1
         \/ at[p] = n /\ spc'[p] = "done" /\ at'[p] = 1
      /\ Overlapping /\ spc'[p] # "grant" => \E q \in Proc : given = Registry[q][key]
  <2>1. CASE given = {} /\ Goto(p, "grant", at[p])
    BY <1>1, <2>1 DEF Goto, IInv, TypeOK, Seeding
  <2>2. CASE /\ Overlapping => \E q \in Proc : given = Registry[q][key]
             /\ Loop(p, n, "grantRole", "done")
    BY <1>1, <2>2, Looped, Keys DEF IInv, Seeding
  <2>q. QED
    BY <2>1, <2>2 DEF Granting
<1>4. TypeOK'
  <2>1. /\ environments' \in [EnvKey -> {"absent", "builtin", "edited"}]
        /\ policies' \in [EnvKey -> Range(Policies) \cup {"absent", "edited"}]
        /\ roles' \in [RoleKey -> {"absent", "builtin", "edited"}]
        /\ faults' \in 0..MaxFaults
    BY <1>1 DEF IInv, TypeOK
  <2>2. \A q \in Proc :
          /\ spc'[q] \in {"environment", "policyEnv", "policy"}
               => at'[q] \in 1..Len(Environments)
          /\ spc'[q] \in {"role", "grantRole", "clear", "grant"} => at'[q] \in 1..n
    BY <1>1, <1>3, Keys DEF IInv, TypeOK
  <2>q. QED
    BY <1>2, <1>3, <2>1, <2>2 DEF TypeOK
<1>6. Rows'
  <2>1. EnvironmentsIn /\ PoliciesIn /\ RolesIn
    BY DEF IInv, Rows
  <2>2. /\ \A q \in Proc \ {p} : spc'[q] = spc[q] /\ at'[q] = at[q]
        /\ spc'[p] \in {"grant", "grantRole", "done"}
    BY <1>3
  <2>3. EnvironmentsIn'
    BY <1>1, <2>1, <2>2 DEF EnvironmentsIn, Filled, Seeding
  <2>4. PoliciesIn'
    BY <1>1, <2>1, <2>2 DEF PoliciesIn, Filled
  <2>5. RolesIn'
    BY <1>1, <2>1, <2>2 DEF RolesIn, Filled
  <2>q. QED
    BY <2>3, <2>4, <2>5 DEF Rows
<1>7. GrantsOfOneRelease'
  <2>1. Overlapping => given = {} \/ \E q \in Proc : given = Registry[q][key]
    BY <1>3
  <2>q. QED
    BY <1>2, <2>1 DEF IInv, Grants, GrantsOfOneRelease
<1>8. PassedGranted'
  <2>1. \A q \in Proc, i \in 1..n : i # at[p] /\ Passed(q, i)' => Passed(q, i)
    BY <1>1, <1>3 DEF Passed
  <2>2. \A i \in 1..n : i # at[p] => grants'[Roles[i]] = grants[Roles[i]]
    BY <1>1, <1>2, Keys
  <2>3. Overlapping =>
          \A i \in 1..n : i = at[p] /\ Passed(p, i)'
            => \E q \in Proc : grants'[Roles[i]] = Registry[q][Roles[i]]
    BY <1>1, <1>2, <1>3 DEF Passed
  <2>4. ASSUME Overlapping, NEW i \in 1..n, \A q \in Proc : Passed(q, i)'
        PROVE  \E q \in Proc : grants'[Roles[i]] = Registry[q][Roles[i]]
    <3>1. CASE i = at[p]
      BY <2>3, <2>4, <3>1
    <3>2. CASE i # at[p]
      <4>1. \A q \in Proc : Passed(q, i)
        BY <2>1, <2>4, <3>2
      <4>2. \E q \in Proc : grants[Roles[i]] = Registry[q][Roles[i]]
        BY <2>4, <4>1, Keys DEF IInv, Grants, PassedGranted
      <4>q. QED
        BY <2>2, <3>2, <4>2
    <3>q. QED
      BY <3>1, <3>2
  <2>q. QED
    BY <2>4, Keys DEF PassedGranted
<1>q. QED
  BY <1>4, <1>6, <1>7, <1>8 DEF IInv, Grants

\* The DELETE, after which a binary that grants nothing is through with the role.
LEMMA ClearGrantsInv ==
  ASSUME IInv, NEW p \in Proc, ClearGrants(p)
  PROVE  IInv'
<1>1. Granting(p, {})
  BY DEF ClearGrants, Granting
<1>q. QED
  BY <1>1, GrantingInv

\* Where the lists overlap, an INSERT of anything that is not rejected meets a
\* role that has nothing: it leaves the list of its own binary.
LEMMA InsertGrantsInv ==
  ASSUME IInv, NEW p \in Proc, InsertGrants(p)
  PROVE  IInv'
<1> DEFINE n == Len(Roles)
           key == Roles[at[p]]
           list == Registry[p][key]
<1>1. /\ spc[p] = "grant" /\ at[p] \in 1..n /\ key \in RoleKey
      /\ UNCHANGED <<environments, policies, roles, faults>>
  BY Keys DEF InsertGrants, IInv, TypeOK
<1>2. list \in SUBSET Permission
  BY <1>1, SeedAssumption
<1>3. CASE grants[key] \cap list # {}
  <2>1. UNCHANGED tables /\ Goto(p, "failed", 1)
    BY <1>1, <1>3 DEF InsertGrants, tables
  <2>q. QED
    BY <1>1, <2>1, Rest DEF Goto, IInv, TypeOK, Stopped
<1>4. CASE grants[key] \cap list = {}
  <2>1. grants' = [grants EXCEPT ![key] = grants[key] \cup list]
        /\ Loop(p, n, "grantRole", "done")
    BY <1>4 DEF InsertGrants
  <2>2. Overlapping => \E q \in Proc : grants[key] \cup list = Registry[q][key]
    <3>1. CASE list = {} \/ grants[key] = {}
      BY <1>1, <3>1 DEF IInv, Grants, GrantsOfOneRelease
    <3>2. CASE list # {} /\ grants[key] # {}
      BY <1>1, <1>4, <3>2 DEF IInv, Grants, GrantsOfOneRelease, Overlapping
    <3>q. QED
      BY <3>1, <3>2
  <2>3. grants[key] \cup list \in SUBSET Permission
    BY <1>1, <1>2 DEF IInv, TypeOK
  <2>4. Granting(p, grants[key] \cup list)
    BY <1>1, <2>1, <2>2 DEF Granting
  <2>q. QED
    BY <2>3, <2>4, GrantingInv
<1>q. QED
  BY <1>3, <1>4

\* Whatever server executes it, a statement keeps the invariant.
LEMMA StepKeeps ==
  ASSUME IInv, NEW p \in Proc, Step(p)
  PROVE  IInv'
BY InsertEnvironmentInv, LookupEnvironmentInv, InsertPolicyInv, InsertRoleInv,
   LookupRoleInv, ClearGrantsInv, InsertGrantsInv DEF Step

\* A statement fails, the server dies or ends.
LEMMA StopKeeps ==
  ASSUME IInv, NEW p \in Proc, StatementFails(p) \/ Crash(p) \/ Exit(p)
  PROVE  IInv'
<1>1. /\ UNCHANGED tables /\ faults' \in 0..MaxFaults
      /\ Goto(p, "failed", 1) \/ Goto(p, "down", 1)
  BY SeedAssumption DEF StatementFails, Crash, Exit, Fault, IInv, TypeOK
<1>2. /\ spc' \in [Proc -> Seeding \cup Stopped] /\ at' \in [Proc -> Nat]
      /\ \A q \in Proc : \/ spc'[q] = spc[q] /\ at'[q] = at[q]
                         \/ spc'[q] \in {"down", "failed"}
  <2>1. /\ spc \in [Proc -> Seeding \cup Stopped] /\ at \in [Proc -> Nat]
        /\ "down" \in Stopped /\ "failed" \in Stopped
    BY DEF IInv, TypeOK, Stopped
  <2>2. ASSUME NEW label \in {"down", "failed"}, Goto(p, label, 1)
        PROVE  /\ spc' \in [Proc -> Seeding \cup Stopped] /\ at' \in [Proc -> Nat]
               /\ \A q \in Proc : \/ spc'[q] = spc[q] /\ at'[q] = at[q]
                                  \/ spc'[q] \in {"down", "failed"}
    BY <2>1, <2>2 DEF Goto
  <2>q. QED
    BY <1>1, <2>2
<1>q. QED
  BY <1>1, <1>2, Rest

\* An administrator changes a row that is there.
LEMMA EditKeeps ==
  ASSUME IInv, OperatorEdits
  PROVE  IInv'
<1>1. /\ environments' \in [EnvKey -> {"absent", "builtin", "edited"}]
      /\ policies' \in [EnvKey -> Range(Policies) \cup {"absent", "edited"}]
      /\ roles' \in [RoleKey -> {"absent", "builtin", "edited"}]
      /\ UNCHANGED <<grants, spc, at, faults>>
  BY DEF OperatorEdits, IInv, TypeOK
<1>2. /\ \A e \in EnvKey : environments[e] # "absent" => environments'[e] # "absent"
      /\ \A e \in EnvKey : policies[e] # "absent" => policies'[e] # "absent"
      /\ \A r \in RoleKey : roles[r] # "absent" => roles'[r] # "absent"
  BY DEF OperatorEdits, IInv, TypeOK
<1>3. TypeOK'
  BY <1>1 DEF IInv, TypeOK
<1>5. /\ \A m \in 0..Len(Environments) :
            /\ Filled(environments, Environments, m)
                 => Filled(environments', Environments, m)
            /\ Filled(policies, Environments, m) => Filled(policies', Environments, m)
      /\ \A m \in 0..Len(Roles) : Filled(roles, Roles, m) => Filled(roles', Roles, m)
  BY <1>2, Keys DEF Filled
<1>6. EnvironmentsIn' /\ PoliciesIn' /\ RolesIn'
  BY <1>1, <1>5, Keys DEF IInv, TypeOK, Rows, EnvironmentsIn, PoliciesIn, RolesIn
<1>7. Grants'
  BY <1>1, NobodyPasses DEF Passed
<1>q. QED
  BY <1>3, <1>6, <1>7 DEF IInv, Rows

-----------------------------------------------------------------------------
\* It holds of the tables as the migrations leave them.
LEMMA InitInv ==
  ASSUME Init
  PROVE  IInv
<1>1. TypeOK
  BY SeedAssumption DEF Init, TypeOK, Stopped
<1>3. Rows
  BY DEF Init, Rows, EnvironmentsIn, PoliciesIn, RolesIn, Seeding
<1>4. Grants
  BY SeedAssumption, Keys DEF Init, Grants, GrantsOfOneRelease, PassedGranted, Passed
<1>q. QED
  BY <1>1, <1>3, <1>4 DEF IInv

\* The inductive invariant, from which the safety results follow.
THEOREM Inductive == Spec => []IInv
<1>1. Init => IInv
  BY InitInv
<1>2. IInv /\ [Next]_vars => IInv'
  <2>1. ASSUME IInv, UNCHANGED vars
        PROVE  IInv'
    <3>1. UNCHANGED tables /\ UNCHANGED <<spc, at, faults>>
      BY <2>1 DEF vars, tables
    <3>q. QED
      BY <2>1, <3>1, Rest DEF IInv, TypeOK
  <2>q. QED
    BY <2>1, StartInv, StepKeeps, StopKeeps, EditKeeps DEF Next
<1>q. QED
  BY <1>1, <1>2, PTL DEF Spec

\* The variables have their types: no loop runs past its slice.
THEOREM TypeCorrect == Spec => []TypeOK
<1>1. IInv => TypeOK
  BY DEF IInv
<1>q. QED
  BY <1>1, Inductive, PTL

\* SeedBuiltin returns nil only when every builtin row is there.
LEMMA DoneSeeded == IInv => DoneIsSeeded
BY Keys DEF IInv, Rows, EnvironmentsIn, PoliciesIn, RolesIn, Filled, DoneIsSeeded, Seeding

\* A server that gets past the seed finds every builtin row in place.
THEOREM SeededWhenDone == Spec => []DoneIsSeeded
BY DoneSeeded, Inductive, PTL

\* Racing releases leave no blend of their registries.
THEOREM NoBlend == Spec => []GrantsOfOneRelease
<1>1. IInv => GrantsOfOneRelease
  BY DEF IInv, Grants
<1>q. QED
  BY <1>1, Inductive, PTL

\* When all are up, every role has what one of the binaries grants it.
THEOREM GrantedWhenAllUp == Spec => []AllUpAllGranted
<1>1. ASSUME IInv
      PROVE  AllUpAllGranted
  <2> SUFFICES ASSUME Overlapping, \A p \in Proc : spc[p] = "done", NEW r \in RoleKey
               PROVE  \E p \in Proc : grants[r] = Registry[p][r]
    BY DEF AllUpAllGranted
  <2>1. PICK i \in 1..Len(Roles) : r = Roles[i]
    BY Keys
  <2>2. \A p \in Proc : Passed(p, i)
    BY DEF Passed
  <2>q. QED
    BY <1>1, <2>1, <2>2, Keys DEF IInv, Grants, PassedGranted
<1>q. QED
  BY <1>1, Inductive, PTL

\* No start of any server undoes what an administrator changed.
THEOREM EditsAreKept == Spec => EditsSurvive
<1> DEFINE Kept == /\ \A e \in EnvKey :
                        /\ environments[e] = "edited" => environments'[e] = "edited"
                        /\ policies[e] = "edited" => policies'[e] = "edited"
                   /\ \A r \in RoleKey : roles[r] = "edited" => roles'[r] = "edited"
<1>1. ASSUME IInv, Next
      PROVE  Kept
  <2>1. CASE UNCHANGED <<environments, policies, roles>>
    BY <2>1
  <2>2. ASSUME NEW p \in Proc, InsertEnvironment(p) \/ InsertPolicy(p) \/ InsertRole(p)
        PROVE  Kept
    BY <1>1, <2>2 DEF IInv, TypeOK, InsertEnvironment, InsertPolicy, InsertRole,
      InsertIfAbsent
  <2>3. CASE OperatorEdits
    BY <1>1, <2>3 DEF OperatorEdits, IInv, TypeOK
  <2>q. QED
    BY <1>1, <2>1, <2>2, <2>3 DEF Next, Step, Start, LookupEnvironment, LookupRole,
      ClearGrants, InsertGrants, StatementFails, Crash, Exit, tables
<1>2. IInv /\ [Next]_vars => [Kept]_vars
  BY <1>1
<1>q. QED
  BY <1>2, Inductive, PTL DEF Spec, EditsSurvive

-----------------------------------------------------------------------------
(* A role is empty only while somebody is about to fill it.                *)

\* Who is at the INSERT has something to insert.
Wanting ==
  \A p \in Proc : spc[p] = "grant" => Registry[p][Roles[at[p]]] # {}

Filling == Wanting /\ EmptyOnlyMeanwhile

\* Steps that leave the grants alone: nobody passes a role or comes to an
\* INSERT, and who leaves one without a fault leaves a role that has something.
LEMMA QuietFills ==
  ASSUME Filling, grants' = grants, faults' = 0 => faults = 0,
         \A p \in Proc :
           /\ \A i \in 1..Len(Roles) : Passed(p, i)' => Passed(p, i)
           /\ spc'[p] = "grant" => spc[p] = "grant" /\ at'[p] = at[p]
           /\ faults' = 0 /\ spc[p] = "grant" =>
                \/ spc'[p] = "grant" /\ at'[p] = at[p]
                \/ grants[Roles[at[p]]] # {}
  PROVE  Filling'
<1>1. Wanting'
  BY DEF Filling, Wanting
<1>2. ASSUME faults' = 0, NEW i \in 1..Len(Roles), NEW p \in Proc, Passed(p, i)',
             grants'[Roles[i]] = {}
      PROVE  \E q \in Proc : \/ spc'[q] = "grant" /\ at'[q] = i
                            \/ Registry[q][Roles[i]] = {}
  <2>1. PICK q \in Proc : \/ spc[q] = "grant" /\ at[q] = i
                          \/ Registry[q][Roles[i]] = {}
    BY <1>2, Keys DEF Filling, EmptyOnlyMeanwhile
  <2>q. QED
    BY <1>2, <2>1
<1>q. QED
  BY <1>1, <1>2, Keys DEF Filling, EmptyOnlyMeanwhile

\* The DELETE: the server that empties a role goes on to its INSERT, or grants
\* it nothing.
LEMMA ClearFills ==
  ASSUME IInv, Filling, NEW p \in Proc, ClearGrants(p)
  PROVE  Filling'
<1> DEFINE n == Len(Roles)
           key == Roles[at[p]]
<1>1. spc[p] = "clear" /\ at[p] \in 1..n /\ key \in RoleKey /\ faults' = faults
  BY Keys DEF ClearGrants, IInv, TypeOK
<1>2. \A k \in RoleKey : k # key => grants'[k] = grants[k]
  BY <1>1 DEF ClearGrants, IInv, TypeOK
<1>3. /\ \A q \in Proc : q # p => spc'[q] = spc[q] /\ at'[q] = at[q]
      /\ \/ spc'[p] = "grant" /\ at'[p] = at[p] /\ Registry[p][key] # {}
         \/ at[p] < n /\ spc'[p] = "grantRole" /\ at'[p] = at[p] + 1
              /\ Registry[p][key] = {}
         \/ at[p] = n /\ spc'[p] = "done" /\ at'[p] = 1 /\ Registry[p][key] = {}
  <2>1. CASE Registry[p][key] = {}
    <3>1. Loop(p, n, "grantRole", "done")
      BY <2>1 DEF ClearGrants
    <3>q. QED
      BY <1>1, <2>1, <3>1, Looped, Keys DEF IInv, Seeding
  <2>2. CASE Registry[p][key] # {}
    BY <2>2 DEF ClearGrants, Goto, IInv, TypeOK
  <2>q. QED
    BY <2>1, <2>2
<1>4. Wanting'
  BY <1>3 DEF Filling, Wanting
<1>5. ASSUME faults' = 0, NEW i \in 1..n, NEW q \in Proc, Passed(q, i)',
             grants'[Roles[i]] = {}
      PROVE  \E o \in Proc : \/ spc'[o] = "grant" /\ at'[o] = i
                            \/ Registry[o][Roles[i]] = {}
  <2>1. CASE i = at[p]
    BY <1>3, <2>1
  <2>2. CASE i # at[p]
    <3>1. Passed(q, i)
      BY <1>1, <1>3, <1>5, <2>2 DEF Passed
    <3>2. grants[Roles[i]] = {}
      BY <1>1, <1>2, <1>5, <2>2, Keys
    <3>3. PICK o \in Proc : \/ spc[o] = "grant" /\ at[o] = i
                            \/ Registry[o][Roles[i]] = {}
      BY <1>1, <1>5, <3>1, <3>2, Keys DEF Filling, EmptyOnlyMeanwhile
    <3>q. QED
      BY <1>1, <1>3, <3>3
  <2>q. QED
    BY <2>1, <2>2
<1>q. QED
  BY <1>4, <1>5, Keys DEF Filling, EmptyOnlyMeanwhile

\* The INSERT leaves a role that has something, whether it is rejected or not.
LEMMA InsertFills ==
  ASSUME IInv, Filling, NEW p \in Proc, InsertGrants(p)
  PROVE  Filling'
<1> DEFINE n == Len(Roles)
           key == Roles[at[p]]
<1>1. /\ spc[p] = "grant" /\ at[p] \in 1..n /\ key \in RoleKey /\ faults' = faults
      /\ Registry[p][key] # {}
  BY Keys DEF InsertGrants, IInv, TypeOK, Filling, Wanting
<1>2. CASE grants[key] \cap Registry[p][key] # {}
  <2>1. grants' = grants /\ Goto(p, "failed", 1)
    BY <1>2 DEF InsertGrants
  <2>2. /\ \A q \in Proc : q # p => spc'[q] = spc[q] /\ at'[q] = at[q]
        /\ spc'[p] = "failed" /\ grants[key] # {}
    BY <1>2, <2>1 DEF Goto, IInv, TypeOK
  <2>q. QED
    BY <1>1, <2>1, <2>2, QuietFills DEF Passed
<1>3. CASE grants[key] \cap Registry[p][key] = {}
  <2>1. /\ grants' = [grants EXCEPT ![key] = @ \cup Registry[p][key]]
        /\ Loop(p, n, "grantRole", "done")
    BY <1>3 DEF InsertGrants
  <2>2. /\ grants'[key] # {}
        /\ \A k \in RoleKey : k # key => grants'[k] = grants[k]
    BY <1>1, <2>1 DEF IInv, TypeOK
  <2>3. /\ \A q \in Proc : q # p => spc'[q] = spc[q] /\ at'[q] = at[q]
        /\ \/ at[p] < n /\ spc'[p] = "grantRole" /\ at'[p] = at[p] + 1
           \/ at[p] = n /\ spc'[p] = "done" /\ at'[p] = 1
    BY <1>1, <2>1, Looped, Keys DEF IInv, Seeding
  <2>4. Wanting'
    BY <2>3 DEF Filling, Wanting
  <2>5. ASSUME faults' = 0, NEW i \in 1..n, NEW q \in Proc, Passed(q, i)',
               grants'[Roles[i]] = {}
        PROVE  \E o \in Proc : \/ spc'[o] = "grant" /\ at'[o] = i
                              \/ Registry[o][Roles[i]] = {}
    <3>1. i # at[p]
      BY <2>2, <2>5
    <3>2. Passed(q, i)
      BY <1>1, <2>3, <2>5, <3>1 DEF Passed
    <3>3. grants[Roles[i]] = {}
      BY <1>1, <2>2, <2>5, <3>1, Keys
    <3>4. PICK o \in Proc : \/ spc[o] = "grant" /\ at[o] = i
                            \/ Registry[o][Roles[i]] = {}
      BY <1>1, <2>5, <3>2, <3>3, Keys DEF Filling, EmptyOnlyMeanwhile
    <3>q. QED
      BY <1>1, <2>3, <3>1, <3>4
  <2>q. QED
    BY <2>4, <2>5, Keys DEF Filling, EmptyOnlyMeanwhile
<1>q. QED
  BY <1>2, <1>3

\* Statements before the grants, and the look-up of a role.
LEMMA RowsFill ==
  ASSUME IInv, Filling, NEW p \in Proc,
         \/ Start(p) \/ InsertEnvironment(p) \/ LookupEnvironment(p)
         \/ InsertPolicy(p) \/ InsertRole(p) \/ LookupRole(p)
  PROVE  Filling'
<1>1. grants' = grants /\ faults' = faults
  BY DEF Start, InsertEnvironment, LookupEnvironment, InsertPolicy, InsertRole,
    LookupRole, tables
<1>2. /\ \A q \in Proc : q # p => spc'[q] = spc[q] /\ at'[q] = at[q]
      /\ spc[p] # "grant" /\ spc'[p] \notin {"grant", "done"}
      /\ \/ spc'[p] \notin {"grantRole", "clear"} \/ at'[p] = 1
         \/ spc[p] = "grantRole" /\ at'[p] = at[p]
  BY DEF Start, InsertEnvironment, LookupEnvironment, InsertPolicy, InsertRole,
    LookupRole, Loop, Goto, IInv, TypeOK
<1>3. \A q \in Proc, i \in 1..Len(Roles) : Passed(q, i)' => Passed(q, i)
  BY <1>2 DEF Passed
<1>q. QED
  BY <1>1, <1>2, <1>3, QuietFills

\* A server fails, dies or ends; an administrator edits; nothing happens.
LEMMA StopFills ==
  ASSUME IInv, Filling,
         \/ \E p \in Proc : StatementFails(p) \/ Crash(p) \/ Exit(p)
         \/ OperatorEdits \/ UNCHANGED vars
  PROVE  Filling'
<1>1. ASSUME NEW p \in Proc, StatementFails(p) \/ Crash(p) \/ Exit(p)
      PROVE  Filling'
  <2>1. /\ grants' = grants
        /\ \A q \in Proc : q # p => spc'[q] = spc[q] /\ at'[q] = at[q]
        /\ spc'[p] \in {"failed", "down"}
    BY <1>1 DEF StatementFails, Crash, Exit, Goto, tables, IInv, TypeOK
  <2>2. faults' # 0 \/ (faults' = faults /\ spc[p] # "grant")
    BY <1>1 DEF StatementFails, Crash, Exit, Fault, IInv, TypeOK
  <2>q. QED
    BY <2>1, <2>2, QuietFills DEF Passed
<1>2. CASE UNCHANGED <<grants, spc, at, faults>>
  BY <1>2, QuietFills DEF Passed
<1>q. QED
  BY <1>1, <1>2 DEF OperatorEdits, vars

\* Without a fault no role that a server counts on stays empty: racing servers
\* put back what they take away.
THEOREM NotLeftEmpty == Spec => []EmptyOnlyMeanwhile
<1>1. Init => Filling
  BY DEF Init, Filling, Wanting, EmptyOnlyMeanwhile, Passed
<1>2. IInv /\ Filling /\ [Next]_vars => Filling'
  BY ClearFills, InsertFills, RowsFill, StopFills DEF Next, Step
<1>3. Filling => EmptyOnlyMeanwhile
  BY DEF Filling
<1>q. QED
  BY <1>1, <1>2, <1>3, Inductive, PTL DEF Spec

-----------------------------------------------------------------------------
(* Seed implements Catalogue.                                              *)

\* The roles from position k on.
From(k) == {Roles[i] : i \in k..Len(Roles)}

LEMMA FromProperties ==
  /\ From(1) = RoleKey
  /\ \A k \in 1..Len(Roles) : Roles[k] \in From(k) /\ From(k) \ {Roles[k]} = From(k + 1)
  /\ From(Len(Roles) + 1) = {}
<1>1. From(1) = RoleKey
  BY Keys DEF From
<1>2. ASSUME NEW k \in 1..Len(Roles)
      PROVE  Roles[k] \in From(k) /\ From(k) \ {Roles[k]} = From(k + 1)
  <2>1. k \in Int /\ Len(Roles) \in Int
    BY Keys
  <2>2. \A i \in k..Len(Roles) : i = k \/ i \in (k + 1)..Len(Roles)
    BY <2>1
  <2>3. \A i \in (k + 1)..Len(Roles) : i \in k..Len(Roles) /\ Roles[i] # Roles[k]
    BY <2>1, Keys
  <2>q. QED
    BY <2>1, <2>2, <2>3 DEF From
<1>3. From(Len(Roles) + 1) = {}
  <2>1. \A i \in (Len(Roles) + 1)..Len(Roles) : FALSE
    BY Keys
  <2>q. QED
    BY <2>1 DEF From
<1>q. QED
  BY <1>1, <1>2, <1>3

\* What a server owes is the roles from its position on; before it comes to
\* them, all.
LEMMA OwedIs ==
  ASSUME TypeOK, TypeOK', NEW p \in Proc
  PROVE  /\ spc[p] \in {"environment", "policyEnv", "policy", "role"}
              => Owed(p) = RoleKey
         /\ spc[p] \in {"grantRole", "clear", "grant"} => Owed(p) = From(at[p])
         /\ spc[p] \in Stopped => Owed(p) = {}
         /\ spc'[p] \in {"environment", "policyEnv", "policy", "role"}
              => Owed(p)' = RoleKey
         /\ spc'[p] \in {"grantRole", "clear", "grant"} => Owed(p)' = From(at'[p])
         /\ spc'[p] \in Stopped => Owed(p)' = {}
<1>1. \A k \in 1..Len(Roles) : {j \in DOMAIN Roles : ~(k > j)} = k..Len(Roles)
  BY Keys
<1>2. {Roles[i] : i \in DOMAIN Roles} = RoleKey
  BY Keys
<1>3. /\ spc[p] \in {"environment", "policyEnv", "policy", "role"} => Owed(p) = RoleKey
      /\ spc[p] \in Stopped => Owed(p) = {}
  BY <1>2 DEF Owed, Passed, Seeding, Stopped
<1>4. /\ spc'[p] \in {"environment", "policyEnv", "policy", "role"} => Owed(p)' = RoleKey
      /\ spc'[p] \in Stopped => Owed(p)' = {}
  BY <1>2 DEF Owed, Passed, Seeding, Stopped
<1>5. ASSUME spc[p] \in {"grantRole", "clear", "grant"}
      PROVE  Owed(p) = From(at[p])
  <2>1. at[p] \in 1..Len(Roles)
    BY <1>5 DEF TypeOK
  <2>2. {j \in DOMAIN Roles : ~Passed(p, j)} = at[p]..Len(Roles)
    BY <1>1, <1>5, <2>1 DEF Passed
  <2>q. QED
    BY <1>5, <2>2 DEF Owed, From, Seeding
<1>6. ASSUME spc'[p] \in {"grantRole", "clear", "grant"}
      PROVE  Owed(p)' = From(at'[p])
  <2>1. at'[p] \in 1..Len(Roles)
    BY <1>6 DEF TypeOK
  <2>2. {j \in DOMAIN Roles : ~Passed(p, j)'} = at'[p]..Len(Roles)
    BY <1>1, <1>6, <2>1 DEF Passed
  <2>q. QED
    BY <1>6, <2>2 DEF Owed, From, Seeding
<1>q. QED
  BY <1>3, <1>4, <1>5, <1>6

\* One server moves and the others stand and owe as before.
LEMMA ServerMoves ==
  ASSUME NEW p \in Proc, NEW to, NEW debt, StateOf(p)' = to, Owed(p)' = debt,
         \A q \in Proc : q # p => spc'[q] = spc[q] /\ at'[q] = at[q]
  PROVE  C!Moves(p, to, debt)
<1>1. \A q \in Proc : q # p => StateOf(q)' = StateOf(q) /\ Owed(q)' = Owed(q)
  BY DEF StateOf, Owed, Passed
<1>2. [q \in Proc |-> StateOf(q)]' = [[q \in Proc |-> StateOf(q)] EXCEPT ![p] = to]
  BY <1>1
<1>3. [q \in Proc |-> Owed(q)]' = [[q \in Proc |-> Owed(q)] EXCEPT ![p] = debt]
  BY <1>1
<1>q. QED
  BY <1>2, <1>3 DEF C!Moves

LEMMA ServerStays ==
  ASSUME NEW p \in Proc, StateOf(p)' = StateOf(p), Owed(p)' = Owed(p),
         \A q \in Proc : q # p => spc'[q] = spc[q] /\ at'[q] = at[q]
  PROVE  /\ [q \in Proc |-> StateOf(q)]' = [q \in Proc |-> StateOf(q)]
         /\ [q \in Proc |-> Owed(q)]' = [q \in Proc |-> Owed(q)]
<1>1. \A q \in Proc : StateOf(q)' = StateOf(q) /\ Owed(q)' = Owed(q)
  BY DEF StateOf, Owed, Passed
<1>q. QED
  BY <1>1

\* The statements that fill a row in, or find it there.
LEMMA InsertInstalls ==
  ASSUME IInv, IInv', NEW p \in Proc,
         InsertEnvironment(p) \/ InsertPolicy(p) \/ InsertRole(p)
  PROVE  [C!Next]_(C!vars)
<1>1. /\ spc[p] \in {"environment", "policy", "role"} /\ UNCHANGED grants
      /\ spc'[p] \in {"environment", "policyEnv", "role", "grantRole"}
      /\ spc'[p] = "grantRole" => at'[p] = 1
      /\ \A q \in Proc : q # p => spc'[q] = spc[q] /\ at'[q] = at[q]
  BY DEF IInv, TypeOK, InsertEnvironment, InsertPolicy, InsertRole, Loop, Goto
<1>2. Owed(p) = RoleKey /\ Owed(p)' = RoleKey
  BY <1>1, OwedIs, FromProperties DEF IInv
<1>3. StateOf(p) = "seeding" /\ StateOf(p)' = "seeding"
  BY <1>1 DEF StateOf, Seeding
<1>4. /\ [q \in Proc |-> StateOf(q)]' = [q \in Proc |-> StateOf(q)]
      /\ [q \in Proc |-> Owed(q)]' = [q \in Proc |-> Owed(q)]
  BY <1>1, <1>2, <1>3, ServerStays
<1>5. CASE InsertEnvironment(p)
  <2>1. /\ environments' = InsertIfAbsent(environments, Environments[at[p]], "builtin")
        /\ UNCHANGED <<policies, roles>> /\ Environments[at[p]] \in EnvKey
    BY <1>5, Keys DEF InsertEnvironment, IInv, TypeOK
  <2>2. CASE environments[Environments[at[p]]] = "absent"
    <3>1. C!Fill(environments, environments', Environments[at[p]], "builtin")
      BY <2>1, <2>2 DEF InsertIfAbsent, C!Fill
    <3>2. C!Install(p)
      BY <1>1, <1>3, <1>4, <2>1, <3>1 DEF C!Install
    <3>q. QED
      BY <3>2 DEF C!Next
  <2>3. CASE environments[Environments[at[p]]] # "absent"
    BY <1>1, <1>4, <2>1, <2>3 DEF InsertIfAbsent, C!vars
  <2>q. QED
    BY <2>2, <2>3
<1>6. CASE InsertPolicy(p)
  <2>1. /\ policies' = InsertIfAbsent(policies, Environments[at[p]], Policies[at[p]])
        /\ UNCHANGED <<environments, roles>> /\ at[p] \in 1..Len(Environments)
        /\ spc[p] = "policy"
    BY <1>6 DEF InsertPolicy, IInv, TypeOK
  <2>2. Environments[at[p]] \in EnvKey /\ PolicyOf[Environments[at[p]]] = Policies[at[p]]
    BY <2>1, Keys DEF PolicyOf
  <2>3. environments[Environments[at[p]]] # "absent"
    BY <2>1 DEF IInv, Rows, EnvironmentsIn, Filled, Seeding
  <2>4. CASE policies[Environments[at[p]]] = "absent"
    <3>1. C!Fill(policies, policies', Environments[at[p]], PolicyOf[Environments[at[p]]])
      BY <2>1, <2>2, <2>4 DEF InsertIfAbsent, C!Fill
    <3>2. C!Install(p)
      BY <1>1, <1>3, <1>4, <2>1, <2>2, <2>3, <3>1 DEF C!Install
    <3>q. QED
      BY <3>2 DEF C!Next
  <2>5. CASE policies[Environments[at[p]]] # "absent"
    BY <1>1, <1>4, <2>1, <2>5 DEF InsertIfAbsent, C!vars
  <2>q. QED
    BY <2>4, <2>5
<1>7. CASE InsertRole(p)
  <2>1. /\ roles' = InsertIfAbsent(roles, Roles[at[p]], "builtin")
        /\ UNCHANGED <<environments, policies>> /\ Roles[at[p]] \in RoleKey
    BY <1>7, Keys DEF InsertRole, IInv, TypeOK
  <2>2. CASE roles[Roles[at[p]]] = "absent"
    <3>1. C!Fill(roles, roles', Roles[at[p]], "builtin")
      BY <2>1, <2>2 DEF InsertIfAbsent, C!Fill
    <3>2. C!Install(p)
      BY <1>1, <1>3, <1>4, <2>1, <3>1 DEF C!Install
    <3>q. QED
      BY <3>2 DEF C!Next
  <2>3. CASE roles[Roles[at[p]]] # "absent"
    BY <1>1, <1>4, <2>1, <2>3 DEF InsertIfAbsent, C!vars
  <2>q. QED
    BY <2>2, <2>3
<1>q. QED
  BY <1>5, <1>6, <1>7

\* To go on in the last loop is to have settled with the role of that position.
LEMMA LoopSettles ==
  ASSUME IInv, IInv', NEW p \in Proc, spc[p] \in {"clear", "grant"},
         Loop(p, Len(Roles), "grantRole", "done")
  PROVE  C!Settles(p, Roles[at[p]])
<1>k. PICK k : k = at[p]
  OBVIOUS
<1>1. k \in 1..Len(Roles) /\ Len(Roles) \in Nat
  BY <1>k, Keys DEF IInv, TypeOK
<1>2. /\ \A q \in Proc : q # p => spc'[q] = spc[q] /\ at'[q] = at[q]
      /\ \/ k < Len(Roles) /\ spc'[p] = "grantRole" /\ at'[p] = k + 1
         \/ k = Len(Roles) /\ spc'[p] = "done"
  BY <1>k, <1>1, Looped DEF IInv, Seeding
<1>3. [q \in Proc |-> Owed(q)][p] \ {Roles[k]} = From(k + 1)
  BY <1>k, <1>1, OwedIs, FromProperties DEF IInv
<1>4. CASE k < Len(Roles)
  <2>1. k + 1 \in 1..Len(Roles)
    BY <1>1, <1>4
  <2>2. From(k + 1) # {}
    BY <2>1, FromProperties
  <2>3. StateOf(p)' = "seeding" /\ Owed(p)' = From(k + 1)
    BY <1>1, <1>2, <1>4, OwedIs DEF StateOf, Seeding, IInv
  <2>4. C!Moves(p, "seeding", From(k + 1))
    BY <1>2, <2>3, ServerMoves
  <2>q. QED
    BY <1>k, <1>3, <2>2, <2>4 DEF C!Settles
<1>5. CASE k = Len(Roles)
  <2>1. StateOf(p)' = "seeded" /\ Owed(p)' = {}
    BY <1>1, <1>2, <1>5, OwedIs DEF StateOf, Seeding, Stopped, IInv
  <2>2. C!Moves(p, "seeded", {})
    BY <1>2, <2>1, ServerMoves
  <2>3. C!Complete
    BY Keys DEF C!Complete, IInv, Rows, EnvironmentsIn, PoliciesIn, RolesIn, Filled,
      Seeding
  <2>4. From(k + 1) = {}
    BY <1>5, FromProperties
  <2>q. QED
    BY <1>k, <1>3, <2>2, <2>3, <2>4 DEF C!Settles
<1>q. QED
  BY <1>1, <1>4, <1>5

\* A server that fails, ends or dies owes nothing more.
LEMMA StopLeaves ==
  ASSUME IInv, IInv', NEW p \in Proc, UNCHANGED tables,
         \/ spc[p] \in Seeding /\ Goto(p, "failed", 1)
         \/ spc[p] # "down" /\ Goto(p, "down", 1)
  PROVE  C!Fail(p) \/ C!Leave(p)
<1>1. /\ \A q \in Proc : q # p => spc'[q] = spc[q] /\ at'[q] = at[q]
      /\ \/ spc[p] \in Seeding /\ spc'[p] = "failed"
         \/ spc[p] # "down" /\ spc'[p] = "down"
  BY DEF Goto, IInv, TypeOK
<1>2. Owed(p)' = {}
  BY <1>1, OwedIs DEF IInv, Stopped
<1>3. CASE spc[p] \in Seeding /\ spc'[p] = "failed"
  <2>1. StateOf(p) = "seeding" /\ StateOf(p)' = "failed"
    BY <1>3 DEF StateOf, Seeding
  <2>2. C!Moves(p, "failed", {})
    BY <1>1, <1>2, <2>1, ServerMoves
  <2>q. QED
    BY <2>1, <2>2 DEF C!Fail, C!rows, tables
<1>4. CASE spc[p] # "down" /\ spc'[p] = "down"
  <2>1. StateOf(p) # "out" /\ StateOf(p)' = "out"
    BY <1>4 DEF StateOf, Seeding, Stopped, IInv, TypeOK
  <2>2. C!Moves(p, "out", {})
    BY <1>1, <1>2, <2>1, ServerMoves
  <2>q. QED
    BY <2>1, <2>2 DEF C!Leave, C!rows, tables
<1>q. QED
  BY <1>1, <1>3, <1>4

\* The statements of the last loop.
LEMMA GrantPays ==
  ASSUME IInv, IInv', NEW p \in Proc, ClearGrants(p) \/ InsertGrants(p)
  PROVE  [C!Next]_(C!vars)
<1>k. PICK k, r : k = at[p] /\ r = Roles[at[p]]
  OBVIOUS
<1>1. /\ spc[p] \in {"clear", "grant"} /\ k \in 1..Len(Roles)
      /\ UNCHANGED <<environments, policies, roles>>
  BY <1>k DEF ClearGrants, InsertGrants, IInv, TypeOK
<1>2. Owed(p) = From(k) /\ r \in Owed(p)
  BY <1>k, <1>1, OwedIs, FromProperties DEF IInv
<1>3. CASE ClearGrants(p)
  <2>1. grants' = [grants EXCEPT ![r] = {}]
    BY <1>3, <1>k DEF ClearGrants
  <2>2. CASE Registry[p][r] = {}
    <3>1. C!Settles(p, r)
      BY <1>3, <1>k, <1>1, <2>2, LoopSettles DEF ClearGrants
    <3>2. C!Empty(p)
      BY <1>1, <1>2, <2>1, <2>2, <3>1 DEF C!Empty, C!rows
    <3>q. QED
      BY <3>2 DEF C!Next
  <2>3. CASE Registry[p][r] # {}
    <3>1. /\ spc[p] = "clear" /\ spc'[p] = "grant" /\ at'[p] = k
          /\ \A q \in Proc : q # p => spc'[q] = spc[q] /\ at'[q] = at[q]
      BY <1>3, <1>k, <2>3 DEF ClearGrants, Goto, IInv, TypeOK
    <3>2. Owed(p)' = Owed(p) /\ StateOf(p)' = StateOf(p)
      BY <1>2, <3>1, OwedIs DEF IInv, StateOf, Seeding
    <3>3. /\ [q \in Proc |-> StateOf(q)]' = [q \in Proc |-> StateOf(q)]
          /\ [q \in Proc |-> Owed(q)]' = [q \in Proc |-> Owed(q)]
      BY <3>1, <3>2, ServerStays
    <3>4. C!Empty(p)
      BY <1>1, <1>2, <2>1, <2>3, <3>3 DEF C!Empty, C!rows
    <3>q. QED
      BY <3>4 DEF C!Next
  <2>q. QED
    BY <2>2, <2>3
<1>4. CASE InsertGrants(p)
  <2>1. CASE grants[r] \cap Registry[p][r] = {}
    <3>1. /\ grants' = [grants EXCEPT ![r] = @ \cup Registry[p][r]]
          /\ Loop(p, Len(Roles), "grantRole", "done")
      BY <1>4, <1>k, <2>1 DEF InsertGrants
    <3>2. C!Settles(p, r)
      BY <1>k, <1>1, <3>1, LoopSettles
    <3>3. C!Lay(p)
      BY <1>1, <1>2, <2>1, <3>1, <3>2 DEF C!Lay, C!rows
    <3>q. QED
      BY <3>3 DEF C!Next
  <2>2. CASE grants[r] \cap Registry[p][r] # {}
    <3>1. UNCHANGED tables /\ Goto(p, "failed", 1) /\ spc[p] \in Seeding
      BY <1>4, <1>k, <2>2 DEF InsertGrants, tables, Seeding
    <3>2. C!Fail(p) \/ C!Leave(p)
      BY <3>1, StopLeaves
    <3>q. QED
      BY <3>2 DEF C!Next
  <2>q. QED
    BY <2>1, <2>2
<1>q. QED
  BY <1>3, <1>4

\* A look-up is not seen, unless it fails.
LEMMA LookupIsUnseen ==
  ASSUME IInv, IInv', NEW p \in Proc, LookupEnvironment(p) \/ LookupRole(p)
  PROVE  [C!Next]_(C!vars)
<1>1. UNCHANGED <<environments, policies, roles, grants>> /\ spc[p] \in Seeding
  BY DEF LookupEnvironment, LookupRole, tables, Seeding
<1>2. CASE Goto(p, "failed", 1)
  <2>1. C!Fail(p) \/ C!Leave(p)
    BY <1>1, <1>2, StopLeaves DEF tables
  <2>q. QED
    BY <2>1 DEF C!Next
<1>3. CASE ~Goto(p, "failed", 1)
  <2>1. /\ \/ spc[p] = "policyEnv" /\ spc'[p] = "policy"
           \/ spc[p] = "grantRole" /\ spc'[p] = "clear"
        /\ at'[p] = at[p]
        /\ \A q \in Proc : q # p => spc'[q] = spc[q] /\ at'[q] = at[q]
    BY <1>3 DEF LookupEnvironment, LookupRole, Goto, IInv, TypeOK
  <2>2. Owed(p)' = Owed(p) /\ StateOf(p)' = StateOf(p)
    BY <2>1, OwedIs DEF IInv, StateOf, Seeding
  <2>3. /\ [q \in Proc |-> StateOf(q)]' = [q \in Proc |-> StateOf(q)]
        /\ [q \in Proc |-> Owed(q)]' = [q \in Proc |-> Owed(q)]
    BY <2>1, <2>2, ServerStays
  <2>q. QED
    BY <1>1, <2>3 DEF C!vars
<1>q. QED
  BY <1>2, <1>3

\* Nothing of Catalogue changes with the rest of the state.
LEMMA UnseenCatalogue ==
  ASSUME UNCHANGED <<environments, policies, roles, grants, spc, at>>
  PROVE  UNCHANGED C!vars
<1>1. \A q \in Proc : StateOf(q)' = StateOf(q) /\ Owed(q)' = Owed(q)
  BY DEF StateOf, Owed, Passed
<1>q. QED
  BY <1>1 DEF C!vars

\* The server is gone, for whatever reason, from wherever it was.
Vanish(p) ==
  /\ spc' = [spc EXCEPT ![p] = "down"]
  /\ UNCHANGED <<environments, policies, roles, grants>>
  /\ \A q \in Proc : q # p => at'[q] = at[q]

LEMMA VanishLeaves ==
  ASSUME IInv, IInv', NEW p \in Proc, Vanish(p)
  PROVE  [C!Next]_(C!vars)
<1>1. /\ \A q \in Proc : q # p => spc'[q] = spc[q] /\ at'[q] = at[q]
      /\ spc'[p] = "down"
  BY DEF Vanish, IInv, TypeOK
<1>o. Owed(p)' = {}
  BY <1>1, OwedIs DEF IInv, Stopped
<1>s. StateOf(p)' = "out"
  BY <1>1 DEF StateOf, Seeding
<1>2. Owed(p)' = {} /\ StateOf(p)' = "out"
  BY <1>o, <1>s
<1>3. CASE spc[p] = "down"
  <2>o. Owed(p) = {}
    BY <1>3, OwedIs DEF IInv, Stopped
  <2>s. StateOf(p) = "out"
    BY <1>3 DEF StateOf, Seeding
  <2>1. Owed(p) = {} /\ StateOf(p) = "out"
    BY <2>o, <2>s
  <2>2. /\ [q \in Proc |-> StateOf(q)]' = [q \in Proc |-> StateOf(q)]
        /\ [q \in Proc |-> Owed(q)]' = [q \in Proc |-> Owed(q)]
    BY <1>1, <1>2, <2>1, ServerStays
  <2>q. QED
    BY <2>2 DEF Vanish, C!vars
<1>4. CASE spc[p] # "down"
  <2>1. StateOf(p) # "out"
    BY <1>4 DEF StateOf, Seeding, Stopped, IInv, TypeOK
  <2>2. C!Moves(p, "out", {})
    BY <1>1, <1>2, ServerMoves
  <2>3. C!Leave(p)
    BY <2>1, <2>2 DEF C!Leave, C!rows, Vanish
  <2>q. QED
    BY <2>3 DEF C!Next
<1>q. QED
  BY <1>3, <1>4

\* Every step of Seed is a step of Catalogue or changes nothing of it.
LEMMA StepTends ==
  ASSUME IInv, IInv', [Next]_vars
  PROVE  [C!Next]_(C!vars)
<1>1. CASE UNCHANGED <<tables, spc, at>>
  BY <1>1, UnseenCatalogue DEF tables
<1>2. ASSUME NEW p \in Proc, Start(p)
      PROVE  [C!Next]_(C!vars)
  <2>1. /\ spc[p] = "down" /\ spc'[p] = "environment" /\ UNCHANGED tables
        /\ \A q \in Proc : q # p => spc'[q] = spc[q] /\ at'[q] = at[q]
    BY <1>2 DEF Start, Goto, IInv, TypeOK
  <2>2. StateOf(p) = "out" /\ StateOf(p)' = "seeding" /\ Owed(p)' = RoleKey
    BY <2>1, OwedIs DEF StateOf, Seeding, IInv
  <2>3. C!Moves(p, "seeding", RoleKey)
    BY <2>1, <2>2, ServerMoves
  <2>4. C!Begin(p)
    BY <2>1, <2>2, <2>3 DEF C!Begin, C!rows, tables
  <2>q. QED
    BY <2>4 DEF C!Next
<1>3. ASSUME NEW p \in Proc, Step(p)
      PROVE  [C!Next]_(C!vars)
  BY <1>3, InsertInstalls, LookupIsUnseen, GrantPays DEF Step
<1>4. ASSUME NEW p \in Proc, StatementFails(p) \/ Crash(p) \/ Exit(p)
      PROVE  [C!Next]_(C!vars)
  <2>1. /\ UNCHANGED tables
        /\ \/ spc[p] \in Seeding /\ Goto(p, "failed", 1)
           \/ spc[p] # "down" /\ Goto(p, "down", 1)
    BY <1>4 DEF StatementFails, Crash, Exit, Seeding
  <2>2. C!Fail(p) \/ C!Leave(p)
    BY <2>1, StopLeaves
  <2>q. QED
    BY <2>2 DEF C!Next
<1>5. CASE OperatorEdits
  <2>1. \A q \in Proc : StateOf(q)' = StateOf(q) /\ Owed(q)' = Owed(q)
    BY <1>5 DEF OperatorEdits, StateOf, Owed, Passed
  <2>2. /\ [q \in Proc |-> StateOf(q)]' = [q \in Proc |-> StateOf(q)]
        /\ [q \in Proc |-> Owed(q)]' = [q \in Proc |-> Owed(q)]
    BY <2>1
  <2>3. C!Edit
    BY <1>5, <2>2 DEF OperatorEdits, C!Edit, C!Change
  <2>q. QED
    BY <2>3 DEF C!Next
<1>q. QED
  BY <1>1, <1>2, <1>3, <1>4, <1>5 DEF Next, vars, tables

\* Empty tables are an empty catalogue.
LEMMA InitCatalogue ==
  ASSUME Init
  PROVE  C!Init
<1>1. \A p \in Proc : StateOf(p) = "out" /\ Owed(p) = {}
  BY DEF Init, StateOf, Owed, Seeding
<1>q. QED
  BY <1>1 DEF Init, C!Init

\* Servers of whatever releases that seed at the same time, fail and die wherever
\* they are in their loops, tend one catalogue.
THEOREM Implements == Spec => ImplementsCatalogue
<1>1. IInv /\ IInv' /\ [Next]_vars => [C!Next]_(C!vars)
  BY StepTends
<1>q. QED
  BY Inductive, InitCatalogue, <1>1, PTL DEF Spec, ImplementsCatalogue, C!Spec
=============================================================================
