-------------------------------- MODULE Walk ---------------------------------
(***************************************************************************)
(* What listing promises a client that follows next_page_token from the    *)
(* first page to the last while projects come and go: the client moves     *)
(* through the keys in one direction, misses no project that is there for  *)
(* the whole walk and gets none that was never there.  Nothing is said of  *)
(* page sizes, tokens or requests; ProjectList says how it is done.        *)
(***************************************************************************)
EXTENDS Naturals

CONSTANTS Client, MaxKey

Key == 1..MaxKey  \* projects.key, in the order of the database

VARIABLES
  projects, \* each key's row: "absent", "live" or "deleted"
  walk,     \* each client: "idle", "walking" or "ended"
  cursor,   \* the client has passed every key up to here
  seen,     \* the keys it was given
  steady,   \* the keys that have been live ever since the walk began
  ever      \* the keys that have been live at some time of the walk

vars == <<projects, walk, cursor, seen, steady, ever>>

Live == {k \in Key : projects[k] = "live"}

Init ==
  /\ projects \in [Key -> {"absent", "live"}]
  /\ walk = [c \in Client |-> "idle"]
  /\ cursor = [c \in Client |-> 0]
  /\ seen = [c \in Client |-> {}]
  /\ steady = [c \in Client |-> {}]
  /\ ever = [c \in Client |-> {}]

Begin(c) ==
  /\ walk' = [walk EXCEPT ![c] = "walking"]
  /\ cursor' = [cursor EXCEPT ![c] = 0]
  /\ seen' = [seen EXCEPT ![c] = {}]
  /\ steady' = [steady EXCEPT ![c] = Live]
  /\ ever' = [ever EXCEPT ![c] = Live]
  /\ UNCHANGED projects

\* A page that covers the keys of the interval.
Covers(c, page, interval) ==
  /\ page \subseteq interval \cap ever[c]
  /\ interval \cap steady[c] \subseteq page

Above(t) == {k \in Key : t < k}

Advance(c) ==
  /\ walk[c] = "walking"
  /\ \E t \in Above(cursor[c]), page \in SUBSET Key :
       /\ Covers(c, page, Above(cursor[c]) \ Above(t))
       /\ cursor' = [cursor EXCEPT ![c] = t]
       /\ seen' = [seen EXCEPT ![c] = @ \cup page]
  /\ UNCHANGED <<projects, walk, steady, ever>>

Finish(c) ==
  /\ walk[c] = "walking"
  /\ \E page \in SUBSET Key :
       /\ Covers(c, page, Above(cursor[c]))
       /\ seen' = [seen EXCEPT ![c] = @ \cup page]
  /\ walk' = [walk EXCEPT ![c] = "ended"]
  /\ UNCHANGED <<projects, cursor, steady, ever>>

GiveUp(c) ==
  /\ walk[c] = "walking"
  /\ walk' = [walk EXCEPT ![c] = "idle"]
  /\ UNCHANGED <<projects, cursor, seen, steady, ever>>

Appear(k) ==
  /\ projects' = [projects EXCEPT ![k] = "live"]
  /\ ever' = [c \in Client |-> ever[c] \cup {k}]
  /\ UNCHANGED <<walk, cursor, seen, steady>>

Disappear(k) ==
  /\ projects' = [projects EXCEPT ![k] = "deleted"]
  /\ steady' = [c \in Client |-> steady[c] \ {k}]
  /\ UNCHANGED <<walk, cursor, seen, ever>>

Next ==
  \/ \E c \in Client : Begin(c) \/ Advance(c) \/ Finish(c) \/ GiveUp(c)
  \/ \E k \in Key : Appear(k) \/ Disappear(k)

Spec == Init /\ [][Next]_vars
=============================================================================
