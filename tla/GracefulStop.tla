---------------------------- MODULE GracefulStop ----------------------------
(***************************************************************************)
(* What run promises those who send requests: they are let in while the    *)
(* service is open and, once they are in, answered; after the signal       *)
(* nobody is let in, and the service goes away when nobody is left inside, *)
(* or when its patience has run out on somebody.  Only a service that dies *)
(* loses requests without a warning.  Nothing is said of connections, the  *)
(* database, probes or the goroutines of the process.                      *)
(***************************************************************************)
CONSTANTS Req

VARIABLES
  phase, \* "open", "stopping", "gone" of its own accord, or "dead"
  place, \* each request: "out", "in", "answered" or "lost"
  late   \* patience has run out

vars == <<phase, place, late>>

Init ==
  /\ phase = "open"
  /\ place = [r \in Req |-> "out"]
  /\ late = FALSE

Inside == {r \in Req : place[r] = "in"}

Moves(r, from, to) ==
  /\ place[r] = from
  /\ place' = [place EXCEPT ![r] = to]
  /\ UNCHANGED <<phase, late>>

Admit(r)  == phase = "open" /\ Moves(r, "out", "in")
Answer(r) == phase \in {"open", "stopping"} /\ Moves(r, "in", "answered")

\* One that was answered goes and may come again.
Return(r) == phase = "open" /\ Moves(r, "answered", "out")

Stop ==
  /\ phase = "open"
  /\ phase' = "stopping"
  /\ UNCHANGED <<place, late>>

RunOut ==
  /\ phase = "stopping"
  /\ Inside # {}
  /\ late' = TRUE
  /\ UNCHANGED <<phase, place>>

Lose == place' = [r \in Req |-> IF r \in Inside THEN "lost" ELSE place[r]]

GoAway ==
  /\ phase = "stopping"
  /\ Inside = {} \/ late
  /\ phase' = "gone"
  /\ Lose
  /\ UNCHANGED late

Die ==
  /\ phase \in {"open", "stopping"}
  /\ phase' = "dead"
  /\ Lose
  /\ UNCHANGED late

Next ==
  \/ \E r \in Req : Admit(r) \/ Answer(r) \/ Return(r)
  \/ Stop \/ RunOut \/ GoAway \/ Die

Spec == Init /\ [][Next]_vars
=============================================================================
