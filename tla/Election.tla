------------------------------ MODULE Election -------------------------------
(***************************************************************************)
(* What EnsureFirstAdmin promises servers that start together, as if the   *)
(* users were a register with one place per address: a server stands only  *)
(* if it saw the register empty and was given an address; it enters itself *)
(* only where the place is free, and otherwise finds somebody there; each  *)
(* entry has a number of its own, and only others strike one out.  Nothing *)
(* is said of rows, hashes, look-ups or what a user may do.                *)
(***************************************************************************)
EXTENDS Naturals

CONSTANTS
  Proc,
  Address, \* addresses in the one spelling the register knows
  Wanted,  \* Wanted[p]: the address a server was given, or None
  None

VARIABLES
  holder, \* holder[a]: the number of the entry at a, as a set that may be empty
  given,  \* the numbers given out so far
  stand   \* each server: "out", "looking", "standing", "through", "warned" or
          \* "failed"

vars == <<holder, given, stand>>

Init ==
  /\ holder = [a \in Address |-> {}]
  /\ given = 0
  /\ stand = [p \in Proc |-> "out"]

Somebody == \E a \in Address : holder[a] # {}

Turns(p, from, to) ==
  /\ stand[p] \in from
  /\ stand' = [stand EXCEPT ![p] = to]

Enter(a) ==
  /\ holder[a] = {}
  /\ given' = given + 1
  /\ holder' = [holder EXCEPT ![a] = {given + 1}]

-----------------------------------------------------------------------------
Begin(p) == Turns(p, {"out"}, "looking") /\ UNCHANGED <<holder, given>>

Stand(p) ==
  /\ ~Somebody /\ Wanted[p] # None
  /\ Turns(p, {"looking"}, "standing")
  /\ UNCHANGED <<holder, given>>

Decline(p) ==
  /\ ~Somebody /\ Wanted[p] = None
  /\ Turns(p, {"looking"}, "warned")
  /\ UNCHANGED <<holder, given>>

\* Somebody is there: whoever it is, or, for one that stands, at its place.
Concede(p) ==
  /\ \/ Turns(p, {"looking"}, "through") /\ Somebody
     \/ Turns(p, {"standing"}, "through") /\ holder[Wanted[p]] # {}
  /\ UNCHANGED <<holder, given>>

Elect(p) ==
  /\ Turns(p, {"standing"}, "through")
  /\ Enter(Wanted[p])

\* Also one that is through but cannot tell what it has entered.
Fail(p) ==
  /\ Turns(p, {"looking", "standing", "through"}, "failed")
  /\ UNCHANGED <<holder, given>>

Leave(p) ==
  /\ Turns(p, {"looking", "standing", "through", "warned", "failed"}, "out")
  /\ UNCHANGED <<holder, given>>

Join(a) == Enter(a) /\ UNCHANGED stand

Quit(a) ==
  /\ holder[a] # {}
  /\ holder' = [holder EXCEPT ![a] = {}]
  /\ UNCHANGED <<given, stand>>

Next ==
  \/ \E p \in Proc : Begin(p) \/ Stand(p) \/ Decline(p) \/ Concede(p)
                     \/ Elect(p) \/ Fail(p) \/ Leave(p)
  \/ \E a \in Address : Join(a) \/ Quit(a)

Spec == Init /\ [][Next]_vars
=============================================================================
