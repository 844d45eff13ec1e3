------------------------------ MODULE Catalogue -----------------------------
(***************************************************************************)
(* What SeedBuiltin promises the servers that call it, as if they tended a *)
(* catalogue together: a missing row is filled in and one that is there is *)
(* left alone; each server owes every role its own offer, in any order,    *)
(* and pays by emptying the role and laying its whole list beside what     *)
(* others have laid there since, provided the two have nothing in common;  *)
(* it is through when it owes nothing and nothing is missing.  Nothing is  *)
(* said of loops, positions, look-ups or faults.                           *)
(***************************************************************************)
EXTENDS Integers

CONSTANTS
  Proc,
  EnvKey, RoleKey, \* the builtin environments and roles
  PolicyOf,        \* PolicyOf[e]: the policy that belongs to e
  Offer            \* Offer[p][r]: what p lays out for r

VARIABLES
  environments, policies, roles, \* each row: "absent", as installed, or "edited"
  grants, \* grants[r]: what role r holds
  state,  \* each server: "out", "seeding", "seeded" or "failed"
  owed    \* the roles a server still owes its offer

rows == <<environments, policies, roles>>
vars == <<environments, policies, roles, grants, state, owed>>

Init ==
  /\ environments = [e \in EnvKey |-> "absent"]
  /\ policies = [e \in EnvKey |-> "absent"]
  /\ roles = [r \in RoleKey |-> "absent"]
  /\ grants = [r \in RoleKey |-> {}]
  /\ state = [p \in Proc |-> "out"]
  /\ owed = [p \in Proc |-> {}]

Moves(p, to, debt) ==
  /\ state' = [state EXCEPT ![p] = to]
  /\ owed' = [owed EXCEPT ![p] = debt]

Fill(table, next, key, row) ==
  /\ table[key] = "absent"
  /\ next = [table EXCEPT ![key] = row]

Complete ==
  /\ \A e \in EnvKey : environments[e] # "absent" /\ policies[e] # "absent"
  /\ \A r \in RoleKey : roles[r] # "absent"

-----------------------------------------------------------------------------
Begin(p) ==
  /\ state[p] = "out"
  /\ Moves(p, "seeding", RoleKey)
  /\ UNCHANGED <<rows, grants>>

\* A policy comes after its environment.
Install(p) ==
  /\ state[p] = "seeding"
  /\ \/ /\ \E e \in EnvKey : Fill(environments, environments', e, "builtin")
        /\ UNCHANGED <<policies, roles>>
     \/ /\ \E e \in EnvKey : /\ environments[e] # "absent"
                             /\ Fill(policies, policies', e, PolicyOf[e])
        /\ UNCHANGED <<environments, roles>>
     \/ /\ \E r \in RoleKey : Fill(roles, roles', r, "builtin")
        /\ UNCHANGED <<environments, policies>>
  /\ UNCHANGED <<grants, state, owed>>

\* p has given r its offer; with the last one it is through.
Settles(p, r) ==
  LET debt == owed[p] \ {r}
  IN  IF debt = {} THEN Complete /\ Moves(p, "seeded", {})
                   ELSE Moves(p, "seeding", debt)

Empty(p) ==
  \E r \in owed[p] :
    /\ grants' = [grants EXCEPT ![r] = {}]
    /\ IF Offer[p][r] = {} THEN Settles(p, r) ELSE UNCHANGED <<state, owed>>
    /\ UNCHANGED rows

Lay(p) ==
  \E r \in owed[p] :
    /\ grants[r] \cap Offer[p][r] = {}
    /\ grants' = [grants EXCEPT ![r] = @ \cup Offer[p][r]]
    /\ Settles(p, r)
    /\ UNCHANGED rows

Fail(p) ==
  /\ state[p] = "seeding"
  /\ Moves(p, "failed", {})
  /\ UNCHANGED <<rows, grants>>

Leave(p) ==
  /\ state[p] # "out"
  /\ Moves(p, "out", {})
  /\ UNCHANGED <<rows, grants>>

\* Others change the rows they see.
Change(table, next, key) ==
  /\ table[key] # "absent"
  /\ next = [table EXCEPT ![key] = "edited"]

Edit ==
  /\ \/ /\ \E e \in EnvKey : Change(environments, environments', e)
        /\ UNCHANGED <<policies, roles>>
     \/ /\ \E e \in EnvKey : Change(policies, policies', e)
        /\ UNCHANGED <<environments, roles>>
     \/ /\ \E r \in RoleKey : Change(roles, roles', r)
        /\ UNCHANGED <<environments, policies>>
  /\ UNCHANGED <<grants, state, owed>>

Next ==
  \/ \E p \in Proc : Begin(p) \/ Install(p) \/ Empty(p) \/ Lay(p) \/ Fail(p) \/ Leave(p)
  \/ Edit

Spec == Init /\ [][Next]_vars
=============================================================================
