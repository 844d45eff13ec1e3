------------------------------ MODULE Bootstrap ------------------------------
(***************************************************************************)
(* bootstrap.EnsureFirstAdmin                                              *)
(* (backend/internal/infra/bootstrap/bootstrap.go): a server that finds no *)
(* user creates one from BOOTSTRAP_ADMIN_EMAIL and _PASSWORD.              *)
(*                                                                         *)
(* The check, the insert and the look-up that follows are separate         *)
(* statements of no common transaction; what keeps servers that start      *)
(* together from creating the admin twice is the partial unique index      *)
(* users_email_uidx on LOWER(email) where deleted_at IS NULL.  Users are   *)
(* also created, disabled and soft-deleted by others.                      *)
(***************************************************************************)
EXTENDS Integers, Sequences

CONSTANTS
  Proc,       \* the servers
  Email,      \* e-mail addresses as they are written
  Lower,      \* Lower[e]: the address LOWER(email) and citext compare
  Unset,      \* the empty string: the variable is not set
  AdminEmail, \* AdminEmail[p]: BOOTSTRAP_ADMIN_EMAIL of p
  Password,   \* Password[p]: "ok", "tooLong" for bcrypt's 72 bytes, or Unset
  Operator,   \* who else writes to users
  MaxFaults,  \* bound on crashes and failing statements
  MaxChanges  \* bound on what the operator does

ASSUME BootstrapAssumption ==
  /\ Lower \in [Email -> Email]
  /\ Unset \notin Email
  /\ AdminEmail \in [Proc -> Email \cup {Unset}]
  /\ Password \in [Proc -> {"ok", "tooLong", Unset}]
  /\ Operator \notin Proc
  /\ MaxFaults \in Nat
  /\ MaxChanges \in Nat

VARIABLES
  users,    \* the rows of users; a row's position is its id
  bpc,      \* where each server stands in EnsureFirstAdmin
  logged,   \* the user_id of the last "first admin created" line, 0 for none
  created,  \* history: the id of the row the server inserted, 0 for none
  faults,   \* faults so far, at most MaxFaults
  changes   \* operator's changes so far, at most MaxChanges

vars == <<users, bpc, logged, created, faults, changes>>

Row == [email : Email, status : {"active", "disabled"}, deleted : BOOLEAN,
        by : Proc \cup {Operator}]

Running == {"check", "hash", "insert", "lookup"}
Stopped == {"down", "exists", "warned", "created", "taken", "failed"}

TypeOK ==
  /\ users \in Seq(Row)
  /\ bpc \in [Proc -> Running \cup Stopped]
  /\ logged \in [Proc -> 0..Len(users)]
  /\ created \in [Proc -> 0..Len(users)]
  /\ faults \in 0..MaxFaults
  /\ changes \in 0..MaxChanges

Init ==
  /\ users = <<>>
  /\ bpc = [p \in Proc |-> "down"]
  /\ logged = [p \in Proc |-> 0]
  /\ created = [p \in Proc |-> 0]
  /\ faults = 0
  /\ changes = 0

Goto(p, from, to) ==
  /\ bpc[p] = from
  /\ bpc' = [bpc EXCEPT ![p] = to]

Fault ==
  /\ faults < MaxFaults
  /\ faults' = faults + 1

\* WHERE deleted_at IS NULL
Live == {i \in DOMAIN users : ~users[i].deleted}

\* hasAnyActiveUser: the status of a user plays no part in it.
HasAnyActiveUser == Live # {}

\* Mutant: the index compares addresses as they are written.
TakenAsWritten(e) == \E i \in Live : users[i].email = e

\* users_email_uidx
Taken(e) == \E i \in Live : Lower[users[i].email] = Lower[e]

\* Mutant: a status the program does not know.
NewRowInvited(e, w) ==
  [email |-> e, status |-> "invited", deleted |-> FALSE, by |-> w]

NewRow(e, w) == [email |-> e, status |-> "active", deleted |-> FALSE, by |-> w]

Configured(p) == AdminEmail[p] # Unset /\ Password[p] # Unset

-----------------------------------------------------------------------------
Start(p) ==
  /\ Goto(p, "down", "check")
  /\ logged' = [logged EXCEPT ![p] = 0]
  /\ created' = [created EXCEPT ![p] = 0]
  /\ UNCHANGED <<users, faults, changes>>

\* Mutant: the environment is never looked at.
CheckSkipsEnv(p) ==
  /\ Goto(p, "check", IF HasAnyActiveUser THEN "exists" ELSE "warned")
  /\ UNCHANGED <<users, logged, created, faults, changes>>

\* 1. Any user already present?  2. Is the environment set?
Check(p) ==
  /\ \/ HasAnyActiveUser /\ Goto(p, "check", "exists")
     \/ ~HasAnyActiveUser /\ ~Configured(p) /\ Goto(p, "check", "warned")
     \/ ~HasAnyActiveUser /\ Configured(p) /\ Goto(p, "check", "hash")
  /\ UNCHANGED <<users, logged, created, faults, changes>>

\* 3. bcrypt refuses a password of more than 72 bytes.
Hash(p) ==
  /\ Goto(p, "hash", IF Password[p] = "ok" THEN "insert" ELSE "failed")
  /\ UNCHANGED <<users, logged, created, faults, changes>>

\* The row goes in, whatever has happened since the check, unless the index
\* rejects it: then another server was faster and all is well.
Insert(p) ==
  /\ Goto(p, "insert", "lookup")
  /\ ~Taken(AdminEmail[p])
  /\ users' = Append(users, NewRow(AdminEmail[p], p))
  /\ created' = [created EXCEPT ![p] = Len(users')]
  /\ UNCHANGED <<logged, faults, changes>>

\* Mutant: ON CONFLICT DO UPDATE.
UniqueOverwrites(p) ==
  /\ Goto(p, "insert", "taken")
  /\ \E i \in Live :
       /\ Lower[users[i].email] = Lower[AdminEmail[p]]
       /\ users' = [users EXCEPT ![i] = NewRow(AdminEmail[p], p)]
  /\ UNCHANGED <<logged, created, faults, changes>>

UniqueViolation(p) ==
  /\ Goto(p, "insert", "taken")
  /\ Taken(AdminEmail[p])
  /\ UNCHANGED <<users, logged, created, faults, changes>>

\* SELECT id FROM users WHERE email = ?, soft-deleted rows included, and the
\* first row the database happens to return goes to the log.
Lookup(p) ==
  /\ Goto(p, "lookup", "created")
  /\ \E i \in DOMAIN users :
       /\ Lower[users[i].email] = Lower[AdminEmail[p]]
       /\ logged' = [logged EXCEPT ![p] = i]
  /\ UNCHANGED <<users, created, faults, changes>>

\* Mutant: every error of the INSERT counts as a unique violation.
FailsAsTaken(p) ==
  /\ bpc[p] \in {"check", "insert", "lookup"}
  /\ Fault
  /\ bpc' = [bpc EXCEPT ![p] = IF bpc[p] = "insert" THEN "taken" ELSE "failed"]
  /\ UNCHANGED <<users, logged, created, changes>>

\* The database fails a statement: EnsureFirstAdmin returns the error.
StatementFails(p) ==
  /\ bpc[p] \in {"check", "insert", "lookup"}
  /\ Fault
  /\ bpc' = [bpc EXCEPT ![p] = "failed"]
  /\ UNCHANGED <<users, logged, created, changes>>

Crash(p) ==
  /\ bpc[p] \in Running
  /\ Fault
  /\ bpc' = [bpc EXCEPT ![p] = "down"]
  /\ UNCHANGED <<users, logged, created, changes>>

\* A server that is through, or failed, ends and may start again.
Exit(p) ==
  /\ bpc[p] \in Stopped \ {"down"}
  /\ bpc' = [bpc EXCEPT ![p] = "down"]
  /\ UNCHANGED <<users, logged, created, faults, changes>>

-----------------------------------------------------------------------------
\* Everybody else who writes to users.
Change ==
  /\ changes < MaxChanges
  /\ changes' = changes + 1
  /\ UNCHANGED <<bpc, logged, created, faults>>

CreateUser ==
  /\ Change
  /\ \E e \in Email :
       ~Taken(e) /\ users' = Append(users, NewRow(e, Operator))

DisableUser ==
  /\ Change
  /\ \E i \in Live : users' = [users EXCEPT ![i].status = "disabled"]

SoftDeleteUser ==
  /\ Change
  /\ \E i \in Live : users' = [users EXCEPT ![i].deleted = TRUE]

Step(p) == Check(p) \/ Hash(p) \/ Insert(p) \/ UniqueViolation(p) \/ Lookup(p)

Next ==
  \/ \E p \in Proc : Start(p) \/ Step(p) \/ StatementFails(p) \/ Crash(p) \/ Exit(p)
  \/ CreateUser \/ DisableUser \/ SoftDeleteUser

Spec == Init /\ [][Next]_vars

\* A running server goes on.
Fairness == \A p \in Proc : WF_vars(Step(p))

FairSpec == Spec /\ Fairness

-----------------------------------------------------------------------------
\* Servers that start together with one address, however each of them spells
\* it, create one admin between them: two live rows differ in LOWER(email).
OneUserPerEmail ==
  \A i, j \in Live :
    Lower[users[i].email] = Lower[users[j].email] => i = j

\* A server that is configured and gets through EnsureFirstAdmin leaves a
\* user behind, unless somebody has deleted one since.
LeavesUser ==
  (\E p \in Proc : Configured(p) /\ bpc[p] \in {"exists", "created", "taken"})
    => Live # {} \/ \E i \in DOMAIN users : users[i].deleted

\* The user_id in the log is that of a row with the address the server was
\* given, however others spell it and whatever they create meanwhile.
LogsOwnAddress ==
  \A p \in Proc : bpc[p] = "created" =>
    /\ logged[p] \in DOMAIN users
    /\ Lower[users[logged[p]].email] = Lower[AdminEmail[p]]

\* The log names the row the server has inserted: only where that row, or the
\* one that is named, has been deleted may the look-up, which goes by address
\* and sees deleted rows, have met another server's admin or an operator's user.
LogNamesItsAdmin ==
  \A p \in Proc : bpc[p] = "created" =>
    /\ created[p] \in DOMAIN users
    /\ \/ logged[p] = created[p]
       \/ users[created[p]].deleted
       \/ users[logged[p]].deleted

\* No start creates, updates or deletes the row of an existing user: the only
\* steps that touch one are the operator's.
ExistingUsersUntouched ==
  [][changes' = changes =>
       \A i \in DOMAIN users : i \in DOMAIN users' /\ users'[i] = users[i]]_vars

\* An empty database gets its admin: a configured server that runs
\* EnsureFirstAdmin sees a user exist, or does not get through.
AdminEventually ==
  \A p \in Proc :
    bpc[p] = "check" /\ Configured(p)
      ~> Live # {} \/ bpc[p] \in {"failed", "down"}

\* openspec/specs/platform-meta-db-foundation/spec.md:49: "After the first
\* admin exists, the env vars SHALL be ignored."
EnvIgnoredAfterAdmin ==
  [][Live # {} => \A p \in Proc : created'[p] \in {0, created[p]}]_vars

-----------------------------------------------------------------------------
\* Where p stands in Election: the look is taken by Check, and from the insert
\* on the server is through.
StandOf(p) ==
  CASE bpc[p] = "down"   -> "out"
    [] bpc[p] = "check"  -> "looking"
    [] bpc[p] \in {"hash", "insert"} -> "standing"
    [] bpc[p] \in {"lookup", "exists", "created", "taken"} -> "through"
    [] bpc[p] = "warned" -> "warned"
    [] bpc[p] = "failed" -> "failed"

\* The live rows at an address.
Holding(a) == {i \in Live : Lower[users[i].email] = a}

Address == {Lower[e] : e \in Email}
Wants(p) == IF Configured(p) THEN Lower[AdminEmail[p]] ELSE Unset

E == INSTANCE Election WITH
       Wanted  <- [p \in Proc |-> Wants(p)],
       None    <- Unset,
       holder  <- [a \in Address |-> Holding(a)],
       given   <- Len(users),
       stand   <- [p \in Proc |-> StandOf(p)]

\* Whichever servers race through the check, spell an address as they like, crash
\* or fail, it looks as if they entered themselves in one register: see Election.
ImplementsElection == E!Spec
=============================================================================
