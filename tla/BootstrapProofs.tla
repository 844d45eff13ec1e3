-------------------------- MODULE BootstrapProofs ----------------------------
(***************************************************************************)
(* What holds of Bootstrap for any number of servers, whatever addresses   *)
(* and passwords they are given and whatever others do to users meanwhile. *)
(***************************************************************************)
EXTENDS Bootstrap, SequenceTheorems, TLAPS

\* A server that is through, or about to log, has seen a user.
SeenUser ==
  \A p \in Proc : bpc[p] \in {"exists", "lookup", "created", "taken"} =>
    users # <<>>

\* Only a server that was given an address and a password inserts a row.
HasEnv == \A p \in Proc : bpc[p] \in {"hash", "insert"} => Configured(p)

\* From its insert on, a server knows a row with its own address.
OwnRow ==
  \A p \in Proc : bpc[p] \in {"lookup", "created"} =>
    created[p] \in DOMAIN users /\ users[created[p]].email = AdminEmail[p]

\* Addresses are never rewritten and no deleted row comes back, so what was
\* logged stays right.
Logs == LogsOwnAddress /\ OwnRow /\ LogNamesItsAdmin
IInv == TypeOK /\ OneUserPerEmail /\ SeenUser /\ HasEnv /\ Logs

-----------------------------------------------------------------------------
(* The three things that happen to users.                                  *)

\* A row is appended whose address no live row has.
Appended(r) == ~Taken(r.email) /\ users' = Append(users, r)

\* A live row is disabled or deleted.
Revised(i, r) ==
  /\ i \in Live
  /\ r.email = users[i].email
  /\ users' = [users EXCEPT ![i] = r]

\* What is left as it was, and that types and addresses are kept and nobody is
\* undeleted, is the same for all of them.
RowsKept ==
  /\ users' \in Seq(Row)
  /\ Len(users) <= Len(users')
  /\ \A i \in DOMAIN users :
       /\ i \in DOMAIN users' /\ users'[i].email = users[i].email
       /\ users[i].deleted => users'[i].deleted

\* However they change, what is in the log stays right.
LEMMA LogsStay ==
  ASSUME IInv, RowsKept, NEW p \in Proc, bpc[p] \in {"lookup", "created"},
         UNCHANGED <<bpc[p], logged[p], created[p]>>
  PROVE  /\ created'[p] \in DOMAIN users' /\ users'[created'[p]].email = AdminEmail[p]
         /\ bpc'[p] = "created" =>
              /\ logged'[p] \in DOMAIN users'
              /\ Lower[users'[logged'[p]].email] = Lower[AdminEmail[p]]
              /\ \/ logged'[p] = created'[p]
                 \/ users'[created'[p]].deleted \/ users'[logged'[p]].deleted
<1>1. created[p] \in DOMAIN users /\ users[created[p]].email = AdminEmail[p]
  BY DEF IInv, Logs, OwnRow
<1>2. bpc[p] = "created" =>
        /\ logged[p] \in DOMAIN users
        /\ Lower[users[logged[p]].email] = Lower[AdminEmail[p]]
        /\ logged[p] = created[p] \/ users[created[p]].deleted \/ users[logged[p]].deleted
  BY DEF IInv, Logs, LogsOwnAddress, LogNamesItsAdmin
<1>q. QED
  BY <1>1, <1>2 DEF RowsKept

LEMMA AppendKeeps ==
  ASSUME IInv, NEW r \in Row, ~r.deleted, Appended(r)
  PROVE  /\ RowsKept
         /\ OneUserPerEmail'
         /\ Len(users') = Len(users) + 1 /\ users'[Len(users')] = r
         /\ \A i \in DOMAIN users : users'[i] = users[i]
<1>1. /\ users' \in Seq(Row) /\ Len(users') = Len(users) + 1
      /\ users'[Len(users')] = r
      /\ \A i \in DOMAIN users : i \in DOMAIN users' /\ users'[i] = users[i]
  BY AppendProperties DEF IInv, TypeOK, Appended
<1>2. Len(users) \in Nat /\ DOMAIN users = 1..Len(users)
      /\ DOMAIN users' = 1..Len(users')
  BY <1>1 DEF IInv, TypeOK
<1>3. \A i \in DOMAIN users' : i \in DOMAIN users \/ i = Len(users')
  BY <1>1, <1>2
<1>4. ASSUME NEW i \in Live', NEW j \in Live',
             Lower[users'[i].email] = Lower[users'[j].email]
      PROVE  i = j
  <2>1. ASSUME NEW k \in Live', k # Len(users')
        PROVE  /\ k \in Live /\ users'[k] = users[k]
               /\ Lower[users'[k].email] # Lower[r.email]
    BY <1>1, <1>3, <2>1 DEF Live, Appended, Taken
  <2>2. CASE i # Len(users') /\ j # Len(users')
    BY <1>4, <2>1, <2>2 DEF IInv, OneUserPerEmail
  <2>3. CASE i = Len(users') \/ j = Len(users')
    BY <1>1, <1>4, <2>1, <2>3
  <2>q. QED
    BY <2>2, <2>3
<1>q. QED
  BY <1>1, <1>2, <1>4 DEF RowsKept, OneUserPerEmail

LEMMA ReviseKeeps ==
  ASSUME IInv, NEW i, NEW r \in Row, Revised(i, r)
  PROVE  RowsKept /\ OneUserPerEmail'
<1>1. i \in 1..Len(users) /\ DOMAIN users = 1..Len(users)
  BY DEF IInv, TypeOK, Revised, Live
<1>2. /\ users' \in Seq(Row) /\ Len(users') = Len(users)
      /\ \A k \in 1..Len(users) : users'[k] = IF k = i THEN r ELSE users[k]
  BY <1>1, ExceptSeq DEF IInv, TypeOK, Revised
<1>3. DOMAIN users' = DOMAIN users
  BY <1>1, <1>2
<1>4. Live' \subseteq Live
  BY <1>1, <1>2, <1>3 DEF Live, Revised
<1>5. \A k \in DOMAIN users : users'[k].email = users[k].email
  BY <1>1, <1>2 DEF Revised
<1>6. OneUserPerEmail'
  <2>1. \A k \in Live' : k \in Live /\ users'[k].email = users[k].email
    BY <1>4, <1>5 DEF Live
  <2>q. QED
    BY <2>1 DEF OneUserPerEmail, IInv
<1>7. \A k \in DOMAIN users : users[k].deleted => users'[k].deleted
  BY <1>1, <1>2 DEF Revised, Live
<1>q. QED
  BY <1>1, <1>2, <1>3, <1>5, <1>6, <1>7 DEF RowsKept, IInv, TypeOK

-----------------------------------------------------------------------------
(* Every action is one of these, or leaves users alone.                    *)

\* The index lets a server's row in only where no live row has its address.
LEMMA InsertAppends ==
  ASSUME IInv, NEW p \in Proc, Insert(p)
  PROVE  /\ Appended(NewRow(AdminEmail[p], p))
         /\ NewRow(AdminEmail[p], p) \in Row
         /\ ~NewRow(AdminEmail[p], p).deleted
<1>1. AdminEmail[p] \in Email
  BY BootstrapAssumption DEF IInv, HasEnv, Configured, Insert, Goto
<1>q. QED
  BY <1>1 DEF Insert, Appended, NewRow, Row

LEMMA OperatorKeeps ==
  ASSUME IInv, CreateUser \/ DisableUser \/ SoftDeleteUser
  PROVE  RowsKept /\ OneUserPerEmail'
<1>1. CASE CreateUser
  <2>1. PICK e \in Email : ~Taken(e) /\ users' = Append(users, NewRow(e, Operator))
    BY <1>1 DEF CreateUser
  <2> DEFINE r == NewRow(e, Operator)
  <2>2. r \in Row /\ ~r.deleted /\ r.email = e
    BY DEF NewRow, Row
  <2>3. Appended(r)
    BY <2>1, <2>2 DEF Appended
  <2>q. QED
    BY <2>2, <2>3, AppendKeeps
<1>2. CASE DisableUser
  <2>1. PICK i \in Live : users' = [users EXCEPT ![i].status = "disabled"]
    BY <1>2 DEF DisableUser
  <2> DEFINE r == [users[i] EXCEPT !.status = "disabled"]
  <2>2. users[i] \in Row
    BY ElementOfSeq DEF IInv, TypeOK, Live
  <2>3. r \in Row /\ r.email = users[i].email
    BY <2>2 DEF Row
  <2>4. Revised(i, r)
    BY <2>1, <2>3 DEF Revised
  <2>q. QED
    BY <2>3, <2>4, ReviseKeeps
<1>3. CASE SoftDeleteUser
  <2>1. PICK i \in Live : users' = [users EXCEPT ![i].deleted = TRUE]
    BY <1>3 DEF SoftDeleteUser
  <2> DEFINE r == [users[i] EXCEPT !.deleted = TRUE]
  <2>2. users[i] \in Row
    BY ElementOfSeq DEF IInv, TypeOK, Live
  <2>3. r \in Row /\ r.email = users[i].email
    BY <2>2 DEF Row
  <2>4. Revised(i, r)
    BY <2>1, <2>3 DEF Revised
  <2>q. QED
    BY <2>3, <2>4, ReviseKeeps
<1>q. QED
  BY <1>1, <1>2, <1>3

\* What the steps of a server that leave users alone have in common.
LEMMA ServerStep ==
  ASSUME NEW p \in Proc, faults \in 0..MaxFaults,
         \/ Start(p) \/ Check(p) \/ Hash(p) \/ UniqueViolation(p)
         \/ StatementFails(p) \/ Crash(p) \/ Exit(p)
  PROVE  /\ \E to \in Running \cup Stopped : bpc' = [bpc EXCEPT ![p] = to]
         /\ faults' \in 0..MaxFaults /\ UNCHANGED changes
<1>1. CASE Start(p) \/ Check(p) \/ Hash(p) \/ UniqueViolation(p) \/ Exit(p)
  BY <1>1
  DEF Start, Check, Hash, UniqueViolation, Exit, Goto, Running, Stopped
<1>2. CASE StatementFails(p) \/ Crash(p)
  <2>1. faults' \in 0..MaxFaults
    BY <1>2, BootstrapAssumption DEF StatementFails, Crash, Fault
  <2>q. QED
    BY <1>2, <2>1 DEF StatementFails, Crash, Running, Stopped
<1>q. QED
  BY <1>1, <1>2

\* The inductive invariant is preserved by every step.
LEMMA StepInv ==
  ASSUME IInv, [Next]_vars
  PROVE  IInv'
<1> USE BootstrapAssumption
<1>1. CASE UNCHANGED vars
  BY <1>1 DEF vars, IInv, TypeOK, OneUserPerEmail, SeenUser, HasEnv,
    Configured, Logs, LogsOwnAddress, OwnRow, LogNamesItsAdmin, Live
<1>2. ASSUME NEW p \in Proc,
             \/ Start(p) \/ Check(p) \/ Hash(p) \/ UniqueViolation(p)
             \/ StatementFails(p) \/ Crash(p) \/ Exit(p)
      PROVE  IInv'
  <2>1. UNCHANGED users
    BY <1>2
    DEF Start, Check, Hash, UniqueViolation, StatementFails, Crash, Exit
  <2>2. OneUserPerEmail'
    BY <2>1 DEF IInv, OneUserPerEmail, Live
  <2>3. TypeOK'
    <3>1. /\ \E to \in Running \cup Stopped : bpc' = [bpc EXCEPT ![p] = to]
          /\ faults' \in 0..MaxFaults /\ UNCHANGED changes
      BY <1>2, ServerStep DEF IInv, TypeOK
    <3>2. /\ logged' = [logged EXCEPT ![p] = 0] \/ UNCHANGED logged
          /\ created' = [created EXCEPT ![p] = 0] \/ UNCHANGED created
      BY <1>2
      DEF Start, Check, Hash, UniqueViolation, StatementFails, Crash, Exit
    <3>3. /\ 0 \in 0..Len(users)
          /\ logged \in [Proc -> 0..Len(users)]
          /\ created \in [Proc -> 0..Len(users)]
      BY DEF IInv, TypeOK
    <3> DEFINE Id == 0..Len(users)
    <3> HIDE DEF Id
    <3>4. logged' \in [Proc -> Id] /\ created' \in [Proc -> Id]
      BY <3>2, <3>3 DEF Id
    <3>5. bpc' \in [Proc -> Running \cup Stopped]
      BY <3>1 DEF IInv, TypeOK
    <3>q. QED
      BY <2>1, <3>1, <3>4, <3>5 DEF IInv, TypeOK, Id
  <2>4. SeenUser'
    <3>1. Live # {} => users # <<>>
      BY DEF Live
    <3>2. Taken(AdminEmail[p]) => Live # {}
      BY DEF Taken
    <3>3. \A d \in Proc : bpc'[d] \in {"exists", "lookup", "created", "taken"} =>
            \/ bpc[d] \in {"exists", "lookup", "created", "taken"}
            \/ Live # {}
      BY <1>2, <3>2 DEF IInv, TypeOK, Goto, HasAnyActiveUser,
        Start, Check, Hash, UniqueViolation, StatementFails, Crash, Exit
    <3>q. QED
      BY <2>1, <3>1, <3>3 DEF IInv, SeenUser
  <2>5. Logs'
    <3>1. \A d \in Proc : bpc'[d] \in {"lookup", "created"} =>
            UNCHANGED <<bpc[d], logged[d], created[d]>>
      BY <1>2 DEF IInv, TypeOK, Goto,
        Start, Check, Hash, UniqueViolation, StatementFails, Crash, Exit
    <3>2. RowsKept
      BY <2>1 DEF IInv, TypeOK, RowsKept
    <3>q. QED
      BY <3>1, <3>2, LogsStay DEF Logs, LogsOwnAddress, OwnRow, LogNamesItsAdmin
  <2>6. HasEnv'
    BY <1>2 DEF IInv, TypeOK, HasEnv, Configured, Goto,
      Start, Check, Hash, UniqueViolation, StatementFails, Crash, Exit
  <2>q. QED
    BY <2>2, <2>3, <2>4, <2>5, <2>6 DEF IInv
<1>3. ASSUME NEW p \in Proc, Insert(p)
      PROVE  IInv'
  <2> DEFINE r == NewRow(AdminEmail[p], p)
  <2>1. /\ RowsKept /\ OneUserPerEmail'
        /\ Len(users') = Len(users) + 1 /\ users' # <<>>
    BY <1>3, InsertAppends, AppendKeeps DEF IInv, TypeOK
  <2>2. /\ UNCHANGED <<logged, faults, changes>>
        /\ created' = [created EXCEPT ![p] = Len(users')]
        /\ bpc' = [bpc EXCEPT ![p] = "lookup"]
    BY <1>3 DEF Insert, Goto
  <2>3. TypeOK'
    BY <2>1, <2>2 DEF IInv, TypeOK, RowsKept, Running
  <2>4. SeenUser'
    BY <2>1 DEF SeenUser
  <2>5. Logs'
    <3>1. \A d \in Proc : d # p => UNCHANGED <<bpc[d], logged[d], created[d]>>
      BY <2>2 DEF IInv, TypeOK
    <3>2. bpc'[p] = "lookup" /\ created'[p] = Len(users')
      BY <2>2 DEF IInv, TypeOK
    <3>3. users'[Len(users')].email = AdminEmail[p] /\ Len(users') \in DOMAIN users'
      <4>1. users'[Len(users')] = r /\ users' \in Seq(Row)
        BY <1>3, InsertAppends, AppendKeeps DEF RowsKept
      <4>2. Len(users') \in DOMAIN users'
        BY <2>1, <4>1
      <4>q. QED
        BY <4>1, <4>2 DEF NewRow
    <3>q. QED
      BY <2>1, <3>1, <3>2, <3>3, LogsStay
      DEF Logs, LogsOwnAddress, OwnRow, LogNamesItsAdmin
  <2>6. HasEnv'
    BY <2>2 DEF IInv, TypeOK, HasEnv, Configured
  <2>q. QED
    BY <2>1, <2>3, <2>4, <2>5, <2>6 DEF IInv
<1>4. ASSUME NEW p \in Proc, Lookup(p)
      PROVE  IInv'
  <2>1. PICK i \in DOMAIN users :
          /\ Lower[users[i].email] = Lower[AdminEmail[p]]
          /\ logged' = [logged EXCEPT ![p] = i]
    BY <1>4 DEF Lookup
  <2>2. /\ UNCHANGED <<users, created, faults, changes>>
        /\ bpc[p] = "lookup" /\ bpc' = [bpc EXCEPT ![p] = "created"]
    BY <1>4 DEF Lookup, Goto
  <2>3. TypeOK'
    BY <2>1, <2>2 DEF IInv, TypeOK, Stopped
  <2>4. SeenUser' /\ OneUserPerEmail'
    BY <2>2 DEF IInv, TypeOK, SeenUser, OneUserPerEmail, Live
  <2>5. Logs'
    <3>1. \A d \in Proc : d # p => UNCHANGED <<bpc[d], logged[d], created[d]>>
      BY <2>1, <2>2 DEF IInv, TypeOK
    <3>2. bpc'[p] = "created" /\ logged'[p] = i
      BY <2>1, <2>2 DEF IInv, TypeOK
    <3>3. created[p] \in DOMAIN users /\ users[created[p]].email = AdminEmail[p]
      BY <2>2 DEF IInv, Logs, OwnRow
    <3>4. i = created[p] \/ users[created[p]].deleted \/ users[i].deleted
      BY <2>1, <3>3 DEF IInv, OneUserPerEmail, Live
    <3>5. RowsKept
      BY <2>2 DEF IInv, TypeOK, RowsKept
    <3>q. QED
      BY <2>1, <2>2, <3>1, <3>2, <3>3, <3>4, <3>5, LogsStay
      DEF Logs, LogsOwnAddress, OwnRow, LogNamesItsAdmin
  <2>6. HasEnv'
    BY <2>2 DEF IInv, TypeOK, HasEnv, Configured
  <2>q. QED
    BY <2>3, <2>4, <2>5, <2>6 DEF IInv
<1>5. ASSUME CreateUser \/ DisableUser \/ SoftDeleteUser
      PROVE  IInv'
  <2>1. RowsKept /\ OneUserPerEmail'
    BY <1>5, OperatorKeeps
  <2>2. UNCHANGED <<bpc, logged, created, faults>> /\ changes' \in 0..MaxChanges
    BY <1>5 DEF CreateUser, DisableUser, SoftDeleteUser, Change, IInv, TypeOK
  <2>3. TypeOK'
    BY <2>1, <2>2 DEF IInv, TypeOK, RowsKept
  <2>4. SeenUser'
    <3>1. users # <<>> => users' # <<>>
      BY <2>1, EmptySeq DEF RowsKept, IInv, TypeOK
    <3>q. QED
      BY <2>2, <3>1 DEF IInv, SeenUser
  <2>5. Logs'
    BY <2>1, <2>2, LogsStay DEF Logs, LogsOwnAddress, OwnRow, LogNamesItsAdmin
  <2>6. HasEnv'
    BY <2>2 DEF IInv, HasEnv, Configured
  <2>q. QED
    BY <2>1, <2>3, <2>4, <2>5, <2>6 DEF IInv
<1>q. QED
  BY <1>1, <1>2, <1>3, <1>4, <1>5 DEF Next, Step

\* An empty table and servers that are not started meet it.
LEMMA InitInv ==
  ASSUME Init
  PROVE  IInv
BY BootstrapAssumption, EmptySeq
DEF Init, IInv, TypeOK, Running, Stopped, OneUserPerEmail, SeenUser, HasEnv,
  Logs, LogsOwnAddress, OwnRow, LogNamesItsAdmin, Live

\* The inductive invariant.
THEOREM Inductive == Spec => []IInv
<1>1. Init => IInv
  BY InitInv
<1>2. IInv /\ [Next]_vars => IInv'
  BY StepInv
<1>q. QED
  BY <1>1, <1>2, PTL DEF Spec

\* The variables keep their types.
THEOREM TypeCorrect == Spec => []TypeOK
BY Inductive, PTL DEF IInv

\* However many servers start together and however they spell the address,
\* they create one admin between them.
THEOREM OneAdminPerAddress == Spec => []OneUserPerEmail
BY Inductive, PTL DEF IInv

\* The line in the log names a row with the server's own address.
THEOREM LogNamesOwnAddress == Spec => []LogsOwnAddress
BY Inductive, PTL DEF IInv, Logs

\* It names the row the server has inserted, unless that one or the one named
\* has been deleted: the look-up by address is not misled by a racing server.
THEOREM LogNamesOwnRow == Spec => []LogNamesItsAdmin
BY Inductive, PTL DEF IInv, Logs

\* A configured server that gets through leaves a user behind, unless somebody
\* has deleted one.
THEOREM BootstrapLeavesUser == Spec => []LeavesUser
<1>1. IInv => LeavesUser
  <2> SUFFICES ASSUME IInv, users # <<>>
               PROVE  Live # {} \/ \E i \in DOMAIN users : users[i].deleted
    BY DEF IInv, SeenUser, LeavesUser
  <2>1. 1 \in DOMAIN users
    BY EmptySeq DEF IInv, TypeOK
  <2>q. QED
    BY <2>1 DEF Live
<1>q. QED
  BY Inductive, <1>1, PTL

\* No start touches the row of a user that exists.
THEOREM StartsTouchNobody == Spec => ExistingUsersUntouched
<1>1. ASSUME IInv, [Next]_vars, changes' = changes,
             NEW i \in DOMAIN users
      PROVE  i \in DOMAIN users' /\ users'[i] = users[i]
  <2>1. CASE UNCHANGED users
    BY <2>1
  <2>2. CASE \E p \in Proc : Insert(p)
    BY <1>1, <2>2, InsertAppends, AppendKeeps DEF RowsKept
  <2>3. ~CreateUser /\ ~DisableUser /\ ~SoftDeleteUser
    <3>1. changes # changes + 1
      BY <1>1 DEF IInv, TypeOK
    <3>q. QED
      BY <1>1, <3>1 DEF CreateUser, DisableUser, SoftDeleteUser, Change
  <2>q. QED
    BY <1>1, <2>1, <2>2, <2>3 DEF Next, Step, vars,
      Start, Check, Hash, UniqueViolation, Lookup, StatementFails, Crash, Exit
<1>2. IInv /\ [Next]_vars =>
        [changes' = changes =>
           \A i \in DOMAIN users : i \in DOMAIN users' /\ users'[i] = users[i]]_vars
  BY <1>1
<1>q. QED
  BY Inductive, <1>2, PTL DEF Spec, ExistingUsersUntouched

-----------------------------------------------------------------------------
(* Bootstrap implements Election.                                          *)

\* What is held changes only with the live rows and their addresses.
LEMMA HolderStays ==
  ASSUME Live' = Live, \A i \in Live : users'[i].email = users[i].email
  PROVE  [a \in Address |-> Holding(a)]' = [a \in Address |-> Holding(a)]
<1>1. \A a \in Address : Holding(a)' = Holding(a)
  BY DEF Holding
<1>q. QED
  BY <1>1

\* The register is empty exactly when hasAnyActiveUser says so.
LEMMA SomebodyIsLive ==
  ASSUME IInv
  PROVE  E!Somebody <=> HasAnyActiveUser
<1>1. ASSUME NEW i \in Live
      PROVE  Lower[users[i].email] \in Address /\ i \in Holding(Lower[users[i].email])
  <2>1. users[i] \in Row
    BY ElementOfSeq DEF IInv, TypeOK, Live
  <2>q. QED
    BY <2>1 DEF Row, Address, Holding
<1>2. \A a \in Address : Holding(a) \subseteq Live
  BY DEF Holding
<1>q. QED
  BY <1>1, <1>2 DEF E!Somebody, HasAnyActiveUser

\* A row that is appended enters its address.
LEMMA AppendEnters ==
  ASSUME IInv, NEW r \in Row, ~r.deleted, Appended(r)
  PROVE  E!Enter(Lower[r.email]) /\ Lower[r.email] \in Address
<1> DEFINE a == Lower[r.email]
           n == Len(users) + 1
<1>1. /\ RowsKept /\ Len(users') = n /\ users'[n] = r
      /\ \A i \in DOMAIN users : users'[i] = users[i]
  BY AppendKeeps
<1>2. /\ Len(users) \in Nat /\ DOMAIN users = 1..Len(users)
      /\ DOMAIN users' = 1..n
  BY <1>1 DEF IInv, TypeOK, RowsKept
<1>3. Live' = Live \cup {n}
  BY <1>1, <1>2 DEF Live
<1>4. n \notin Live
  BY <1>2 DEF Live
<1>5. \A i \in Live : users'[i].email = users[i].email
  BY <1>1 DEF Live
<1>6. a \in Address
  BY DEF Address, Row
<1>7. Holding(a) = {}
  BY DEF Holding, Appended, Taken
<1>8. \A b \in Address : Holding(b)' = IF b = a THEN {n} ELSE Holding(b)
  <2>1. ASSUME NEW b \in Address
        PROVE  Holding(b)' = IF b = a THEN {n} ELSE Holding(b)
    <3>1. \A i : i \in Holding(b)' <=> i \in Holding(b) \/ (i = n /\ b = a)
      BY <1>1, <1>3, <1>4, <1>5 DEF Holding
    <3>2. CASE b = a
      BY <1>7, <3>1, <3>2
    <3>3. CASE b # a
      BY <3>1, <3>3
    <3>q. QED
      BY <3>2, <3>3
  <2>q. QED
    BY <2>1
<1>9. [b \in Address |-> Holding(b)]'
        = [[b \in Address |-> Holding(b)] EXCEPT ![a] = {n}]
  BY <1>8
<1>q. QED
  BY <1>1, <1>6, <1>7, <1>9 DEF E!Enter

\* One server turns and the others stand where they stood.
LEMMA StandTurns ==
  ASSUME NEW p \in Proc, \A q \in Proc : q # p => bpc'[q] = bpc[q]
  PROVE  [q \in Proc |-> StandOf(q)]'
           = [[q \in Proc |-> StandOf(q)] EXCEPT ![p] = StandOf(p)']
<1>1. \A q \in Proc : q # p => StandOf(q)' = StandOf(q)
  BY DEF StandOf
<1>q. QED
  BY <1>1

\* Nothing of Election changes with the rest of the state.
LEMMA UnseenElection ==
  ASSUME UNCHANGED <<users, bpc>>
  PROVE  UNCHANGED E!vars
<1>1. [a \in Address |-> Holding(a)]' = [a \in Address |-> Holding(a)]
  BY HolderStays DEF Live
<1>2. [q \in Proc |-> StandOf(q)]' = [q \in Proc |-> StandOf(q)]
  BY DEF StandOf
<1>q. QED
  BY <1>1, <1>2 DEF E!vars

\* The server is gone, for whatever reason, from wherever it was.
Vanish(p) ==
  /\ bpc' = [bpc EXCEPT ![p] = "down"]
  /\ UNCHANGED users

LEMMA VanishLeaves ==
  ASSUME IInv, NEW p \in Proc, Vanish(p)
  PROVE  [E!Next]_(E!vars)
<1>1. CASE bpc[p] = "down"
  <2>1. UNCHANGED bpc
    BY <1>1 DEF Vanish, IInv, TypeOK
  <2>q. QED
    BY <2>1, UnseenElection DEF Vanish
<1>2. CASE bpc[p] # "down"
  <2>1. /\ [a \in Address |-> Holding(a)]' = [a \in Address |-> Holding(a)]
        /\ UNCHANGED users
    BY HolderStays DEF Vanish, Live
  <2>2. [q \in Proc |-> StandOf(q)]'
          = [[q \in Proc |-> StandOf(q)] EXCEPT ![p] = StandOf(p)']
    <3>1. \A q \in Proc : q # p => bpc'[q] = bpc[q]
      BY DEF Vanish, IInv, TypeOK
    <3>q. QED
      BY <3>1, StandTurns
  <2>3. /\ StandOf(p) \in {"looking", "standing", "through", "warned", "failed"}
        /\ StandOf(p)' = "out"
    BY <1>2 DEF Vanish, Running, Stopped, StandOf, IInv, TypeOK
  <2>4. E!Leave(p)
    BY <2>1, <2>2, <2>3 DEF E!Leave, E!Turns
  <2>q. QED
    BY <2>4 DEF E!Next
<1>q. QED
  BY <1>1, <1>2

\* Every step of a server is a turn of Election or is not seen there.
LEMMA ServerTurns ==
  ASSUME IInv, NEW p \in Proc,
         Start(p) \/ Step(p) \/ StatementFails(p) \/ Crash(p) \/ Exit(p)
  PROVE  [E!Next]_(E!vars)
<1> DEFINE Quiet == /\ UNCHANGED users
                    /\ [a \in Address |-> Holding(a)]' = [a \in Address |-> Holding(a)]
<1>1. [q \in Proc |-> StandOf(q)]'
        = [[q \in Proc |-> StandOf(q)] EXCEPT ![p] = StandOf(p)']
  <2>1. \A q \in Proc : q # p => bpc'[q] = bpc[q]
    BY DEF IInv, TypeOK, Step, Start, Check, Hash, Insert, UniqueViolation, Lookup,
      StatementFails, Crash, Exit, Goto
  <2>q. QED
    BY <2>1, StandTurns
<1>2. Quiet \/ Insert(p)
  <2>1. UNCHANGED users => Quiet
    BY HolderStays DEF Live
  <2>q. QED
    BY <2>1 DEF Step, Start, Check, Hash, UniqueViolation, Lookup, StatementFails,
      Crash, Exit
<1>3. CASE Start(p)
  <2>1. StandOf(p) = "out" /\ StandOf(p)' = "looking" /\ Quiet
    BY <1>2, <1>3 DEF Start, Insert, Goto, StandOf, IInv, TypeOK
  <2>2. E!Begin(p)
    BY <1>1, <2>1 DEF E!Begin, E!Turns
  <2>q. QED
    BY <2>2 DEF E!Next
<1>4. CASE Check(p)
  <2>1. StandOf(p) = "looking" /\ Quiet
    BY <1>2, <1>4 DEF Check, Insert, Goto, StandOf
  <2>2. CASE HasAnyActiveUser /\ Goto(p, "check", "exists")
    <3>1. StandOf(p)' = "through"
      BY <2>2 DEF Goto, StandOf, IInv, TypeOK
    <3>2. E!Concede(p)
      BY <1>1, <2>1, <2>2, <3>1, SomebodyIsLive DEF E!Concede, E!Turns
    <3>q. QED
      BY <3>2 DEF E!Next
  <2>3. CASE ~HasAnyActiveUser /\ ~Configured(p) /\ Goto(p, "check", "warned")
    <3>1. StandOf(p)' = "warned" /\ Wants(p) = Unset
      BY <2>3 DEF Goto, StandOf, Wants, IInv, TypeOK
    <3>2. E!Decline(p)
      BY <1>1, <2>1, <2>3, <3>1, SomebodyIsLive DEF E!Decline, E!Turns
    <3>q. QED
      BY <3>2 DEF E!Next
  <2>4. CASE ~HasAnyActiveUser /\ Configured(p) /\ Goto(p, "check", "hash")
    <3>1. StandOf(p)' = "standing"
      BY <2>4 DEF Goto, StandOf, IInv, TypeOK
    <3>2. Wants(p) # Unset
      BY <2>4, BootstrapAssumption DEF Wants, Configured
    <3>3. E!Stand(p)
      BY <1>1, <2>1, <2>4, <3>1, <3>2, SomebodyIsLive DEF E!Stand, E!Turns
    <3>q. QED
      BY <3>3 DEF E!Next
  <2>q. QED
    BY <1>4, <2>2, <2>3, <2>4 DEF Check
<1>5. CASE Hash(p)
  <2>1. StandOf(p) = "standing" /\ StandOf(p)' \in {"standing", "failed"} /\ Quiet
    BY <1>2, <1>5 DEF Hash, Insert, Goto, StandOf, IInv, TypeOK
  <2>2. CASE StandOf(p)' = "standing"
    BY <1>1, <2>1, <2>2 DEF E!vars
  <2>3. CASE StandOf(p)' = "failed"
    <3>1. E!Fail(p)
      BY <1>1, <2>1, <2>3 DEF E!Fail, E!Turns
    <3>q. QED
      BY <3>1 DEF E!Next
  <2>q. QED
    BY <2>1, <2>2, <2>3
<1>6. CASE Insert(p)
  <2>1. E!Enter(Lower[AdminEmail[p]])
    <3> DEFINE r == NewRow(AdminEmail[p], p)
    <3>1. r \in Row /\ ~r.deleted /\ Appended(r) /\ r.email = AdminEmail[p]
      BY <1>6, InsertAppends DEF NewRow
    <3> HIDE DEF r
    <3>q. QED
      BY <3>1, AppendEnters
  <2>2. Wants(p) = Lower[AdminEmail[p]]
    BY <1>6 DEF IInv, HasEnv, Insert, Goto, Wants
  <2>3. StandOf(p) = "standing" /\ StandOf(p)' = "through"
    BY <1>6 DEF Insert, Goto, StandOf, IInv, TypeOK
  <2>4. E!Elect(p)
    BY <1>1, <2>1, <2>2, <2>3 DEF E!Elect, E!Turns
  <2>q. QED
    BY <2>4 DEF E!Next
<1>7. CASE UniqueViolation(p)
  <2>1. StandOf(p) = "standing" /\ StandOf(p)' = "through" /\ Quiet
    BY <1>2, <1>7 DEF UniqueViolation, Insert, Goto, StandOf, IInv, TypeOK
  <2>2. Wants(p) \in Address /\ Holding(Wants(p)) # {}
    <3>1. AdminEmail[p] \in Email /\ Wants(p) = Lower[AdminEmail[p]]
      BY <1>7, BootstrapAssumption
      DEF IInv, HasEnv, UniqueViolation, Goto, Wants, Configured
    <3>q. QED
      BY <1>7, <3>1 DEF UniqueViolation, Taken, Holding, Address
  <2>3. E!Concede(p)
    BY <1>1, <2>1, <2>2 DEF E!Concede, E!Turns
  <2>q. QED
    BY <2>3 DEF E!Next
<1>8. CASE Lookup(p)
  <2>1. StandOf(p) = "through" /\ StandOf(p)' = "through" /\ Quiet
    BY <1>2, <1>8 DEF Lookup, Insert, Goto, StandOf, IInv, TypeOK
  <2>q. QED
    BY <1>1, <2>1 DEF E!vars
<1>9. CASE StatementFails(p)
  <2>1. Quiet
    BY <1>9, HolderStays DEF StatementFails, Live
  <2>2. /\ StandOf(p) \in {"looking", "standing", "through"}
        /\ StandOf(p)' = "failed"
    BY <1>9 DEF StatementFails, StandOf, IInv, TypeOK
  <2>3. E!Fail(p)
    BY <1>1, <2>1, <2>2 DEF E!Fail, E!Turns
  <2>q. QED
    BY <2>3 DEF E!Next
<1>10. CASE Crash(p) \/ Exit(p)
  <2>1. Vanish(p)
    BY <1>10 DEF Crash, Exit, Vanish
  <2>q. QED
    BY <2>1, VanishLeaves
<1>q. QED
  BY <1>3, <1>4, <1>5, <1>6, <1>7, <1>8, <1>9, <1>10 DEF Step

\* The operator's are a user that joins, one that quits, or one nobody misses.
LEMMA OperatorTurns ==
  ASSUME IInv, CreateUser \/ DisableUser \/ SoftDeleteUser
  PROVE  [E!Next]_(E!vars)
<1>1. [q \in Proc |-> StandOf(q)]' = [q \in Proc |-> StandOf(q)]
  <2>1. \A q \in Proc : StandOf(q)' = StandOf(q)
    BY DEF CreateUser, DisableUser, SoftDeleteUser, Change, StandOf
  <2>q. QED
    BY <2>1
<1>2. CASE CreateUser
  <2>1. PICK e \in Email : ~Taken(e) /\ users' = Append(users, NewRow(e, Operator))
    BY <1>2 DEF CreateUser
  <2> DEFINE r == NewRow(e, Operator)
  <2>2. r \in Row /\ ~r.deleted /\ r.email = e
    BY DEF NewRow, Row
  <2>3. Appended(r)
    BY <2>1, <2>2 DEF Appended
  <2> HIDE DEF r
  <2>4. Lower[e] \in Address /\ E!Join(Lower[e])
    BY <1>1, <2>2, <2>3, AppendEnters DEF E!Join
  <2>q. QED
    BY <2>4 DEF E!Next
<1>3. CASE DisableUser
  <2>1. PICK i \in Live : users' = [users EXCEPT ![i].status = "disabled"]
    BY <1>3 DEF DisableUser
  <2>2. /\ DOMAIN users' = DOMAIN users /\ Len(users') = Len(users)
        /\ \A k \in DOMAIN users : /\ users'[k].email = users[k].email
                                   /\ users'[k].deleted = users[k].deleted
    <3>1. users[i] \in Row /\ i \in 1..Len(users) /\ DOMAIN users = 1..Len(users)
      BY ElementOfSeq DEF IInv, TypeOK, Live
    <3>2. [users[i] EXCEPT !.status = "disabled"] \in Row
      BY <3>1 DEF Row
    <3>3. /\ users' \in Seq(Row) /\ Len(users') = Len(users)
          /\ \A k \in 1..Len(users) : users'[k] =
               IF k = i THEN [users[i] EXCEPT !.status = "disabled"] ELSE users[k]
      BY <2>1, <3>1, <3>2, ExceptSeq DEF IInv, TypeOK
    <3>q. QED
      BY <3>1, <3>3 DEF Row
  <2>3. Live' = Live
    BY <2>2 DEF Live
  <2>4. [a \in Address |-> Holding(a)]' = [a \in Address |-> Holding(a)]
    BY <2>2, <2>3, HolderStays DEF Live
  <2>q. QED
    BY <1>1, <2>2, <2>4 DEF E!vars
<1>4. CASE SoftDeleteUser
  <2>1. PICK i \in Live : users' = [users EXCEPT ![i].deleted = TRUE]
    BY <1>4 DEF SoftDeleteUser
  <2>n. PICK a : a = Lower[users[i].email]
    OBVIOUS
  <2>2. users[i] \in Row /\ i \in 1..Len(users) /\ DOMAIN users = 1..Len(users)
    BY ElementOfSeq DEF IInv, TypeOK, Live
  <2>3. a \in Address /\ i \in Holding(a)
    BY <2>n, <2>2 DEF Row, Address, Holding
  <2>4. /\ DOMAIN users' = DOMAIN users /\ Len(users') = Len(users)
        /\ users'[i].deleted
        /\ \A k \in DOMAIN users : k # i => users'[k] = users[k]
    <3>1. [users[i] EXCEPT !.deleted = TRUE] \in Row
      BY <2>2 DEF Row
    <3>2. /\ users' \in Seq(Row) /\ Len(users') = Len(users)
          /\ \A k \in 1..Len(users) : users'[k] =
               IF k = i THEN [users[i] EXCEPT !.deleted = TRUE] ELSE users[k]
      BY <2>1, <2>2, <3>1, ExceptSeq DEF IInv, TypeOK
    <3>q. QED
      BY <2>2, <3>2 DEF Row
  <2>5. Live' = Live \ {i}
    BY <2>4 DEF Live
  <2>6. \A b \in Address : Holding(b)' = IF b = a THEN {} ELSE Holding(b)
    <3>1. ASSUME NEW b \in Address
          PROVE  Holding(b)' = IF b = a THEN {} ELSE Holding(b)
      <4>1. \A k : k \in Holding(b)' <=> k \in Holding(b) /\ k # i
        BY <2>4, <2>5 DEF Holding, Live
      <4>2. CASE b = a
        <5>1. \A k \in Holding(b) : k = i
          BY <2>n, <4>2 DEF Holding, IInv, OneUserPerEmail
        <5>q. QED
          BY <4>1, <4>2, <5>1
      <4>3. CASE b # a
        <5>1. i \notin Holding(b)
          BY <2>n, <4>3 DEF Holding
        <5>q. QED
          BY <4>1, <4>3, <5>1
      <4>q. QED
        BY <4>2, <4>3
    <3>q. QED
      BY <3>1
  <2>7. E!Quit(a)
    <3>1. [b \in Address |-> Holding(b)]'
            = [[b \in Address |-> Holding(b)] EXCEPT ![a] = {}]
      BY <2>3, <2>6
    <3>q. QED
      BY <1>1, <2>3, <2>4, <3>1 DEF E!Quit
  <2>q. QED
    BY <2>3, <2>7 DEF E!Next
<1>q. QED
  BY <1>2, <1>3, <1>4

LEMMA StepElects ==
  ASSUME IInv, [Next]_vars
  PROVE  [E!Next]_(E!vars)
<1>1. CASE UNCHANGED vars
  BY <1>1, UnseenElection DEF vars
<1>q. QED
  BY <1>1, ServerTurns, OperatorTurns DEF Next

\* An empty table is an empty register.
LEMMA InitElection ==
  ASSUME Init
  PROVE  E!Init
<1>1. \A a \in Address : Holding(a) = {}
  BY EmptySeq DEF Init, Holding, Live
<1>2. Len(users) = 0 /\ \A p \in Proc : StandOf(p) = "out"
  BY EmptySeq DEF Init, StandOf
<1>q. QED
  BY <1>1, <1>2 DEF E!Init

\* However many servers race through the check, however they spell an address,
\* crash or fail, it looks as if they entered themselves in one register.
THEOREM Implements == Spec => ImplementsElection
<1>1. IInv /\ [Next]_vars => [E!Next]_(E!vars)
  BY StepElects
<1>q. QED
  BY Inductive, InitElection, <1>1, PTL DEF Spec, ImplementsElection, E!Spec
=============================================================================
