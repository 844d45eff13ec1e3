---------------------------- MODULE ServerProofs ------------------------------
(***************************************************************************)
(* What holds of Server for any number of requests and connections.        *)
(***************************************************************************)
EXTENDS Server, FiniteSetTheorems, TLAPS

\* Where run stands says what it has done: a shutdown has begun once run no
\* longer serves, and the pool is closed last.
Phases ==
  /\ main \in {"serving", "draining"} => ~late
  /\ main \in {"serving", "draining", "closing"} => ~closed
  /\ main # "serving" => listener # "open"
  /\ main # "exited" => code = "none" /\ \A r \in Req : at[r] # "cut"

\* Past the drain nothing is under way, unless time ran out.
Drain ==
  main \in {"closing", "returning"} /\ ~late => \A r \in Req : ~Active(r)

IInv == TypeOK /\ ConnectionsComeBack /\ Phases /\ Drain /\ DrainsBeforeClosing

-----------------------------------------------------------------------------
(* The steps of requests.                                                  *)

LEMMA PoolIsFinite ==
  ASSUME TypeOK
  PROVE  IsFiniteSet(pool) /\ Cardinality(pool) \in Nat
BY ServerAssumption, FS_Subset, FS_CardinalityType DEF TypeOK

\* An answer gives the connection back.
LEMMA AnswerInv ==
  ASSUME IInv, Running, NEW r \in Req, Active(r),
         NEW status \in {"200", "500", "503"}, Answer(r, status),
         faults' \in 0..MaxFaults
  PROVE  IInv'
<1>1. /\ at' = [at EXCEPT ![r] = "done"]
      /\ reply' = [reply EXCEPT ![r] = status]
      /\ pool' = pool \ {r}
      /\ UNCHANGED <<main, listener, code, late, closed, up>>
  BY DEF Answer, server
<1>2. TypeOK'
  <2>1. \A q \in Req : at'[q] = "done" <=> reply'[q] # "none"
    BY <1>1 DEF IInv, TypeOK
  <2>q. QED
    BY <1>1, <2>1 DEF IInv, TypeOK
<1>3. ConnectionsComeBack'
  <2>1. pool' = {q \in Req : at'[q] = "using"}
    BY <1>1 DEF IInv, TypeOK, ConnectionsComeBack
  <2>2. Cardinality(pool') <= Cardinality(pool) /\ Cardinality(pool') \in Nat
    BY <1>1, PoolIsFinite, FS_Subset, FS_CardinalityType DEF IInv
  <2>3. Cardinality(pool') <= MaxConns
    BY <2>2, PoolIsFinite, ServerAssumption DEF IInv, ConnectionsComeBack
  <2>q. QED
    BY <2>1, <2>3 DEF ConnectionsComeBack
<1>4. \A q \in Req : (Active(q)' => Active(q)) /\ (at'[q] = "cut" => at[q] = "cut")
  BY <1>1 DEF IInv, TypeOK, Active
<1>5. Phases' /\ Drain' /\ DrainsBeforeClosing'
  BY <1>1, <1>4 DEF IInv, Phases, Drain, DrainsBeforeClosing, Running
<1>q. QED
  BY <1>2, <1>3, <1>5 DEF IInv

\* A connection is handed out only while one is left.
LEMMA AcquireInv ==
  ASSUME IInv, NEW r \in Req, Acquire(r)
  PROVE  IInv'
<1>1. /\ at[r] = "waiting" /\ ~closed /\ Running
      /\ at' = [at EXCEPT ![r] = "using"]
      /\ pool' = pool \cup {r}
      /\ UNCHANGED <<main, listener, code, late, reply, closed, up, faults>>
  BY DEF Acquire, server
<1>2. TypeOK'
  BY <1>1 DEF IInv, TypeOK
<1>3. ConnectionsComeBack'
  <2>1. pool' = {q \in Req : at'[q] = "using"}
    BY <1>1 DEF IInv, TypeOK, ConnectionsComeBack
  <2>2. r \notin pool
    BY <1>1 DEF IInv, ConnectionsComeBack
  <2>3. Cardinality(pool') = Cardinality(pool) + 1
    BY <1>1, <2>2, PoolIsFinite, FS_AddElement DEF IInv
  <2>4. Cardinality(pool') <= MaxConns
    BY <2>3, PoolIsFinite, ServerAssumption DEF IInv, Acquire
  <2>q. QED
    BY <2>1, <2>4 DEF ConnectionsComeBack
<1>4. \A q \in Req : (Active(q)' <=> Active(q)) /\ (at'[q] = "cut" <=> at[q] = "cut")
  BY <1>1 DEF IInv, TypeOK, Active
<1>5. Phases' /\ Drain' /\ DrainsBeforeClosing'
  BY <1>1, <1>4 DEF IInv, Phases, Drain, DrainsBeforeClosing
<1>q. QED
  BY <1>2, <1>3, <1>5 DEF IInv

\* Requests come only through an open listener, so never past the drain.
LEMMA AcceptInv ==
  ASSUME IInv, NEW r \in Req, Accept(r) \/ Again(r)
  PROVE  IInv'
<1>1. /\ listener = "open" /\ at[r] \in {"new", "done"}
      /\ at' = [at EXCEPT ![r] = IF at[r] = "new" THEN "waiting" ELSE "new"]
      /\ reply' = IF at[r] = "new" THEN reply ELSE [reply EXCEPT ![r] = "none"]
      /\ UNCHANGED <<main, listener, code, late, pool, closed, up, faults>>
  BY DEF Accept, Again, server, IInv, TypeOK
<1>2. main = "serving"
  BY <1>1 DEF IInv, Phases
<1>3. TypeOK'
  <2>1. \A q \in Req : at'[q] = "done" <=> reply'[q] # "none"
    BY <1>1 DEF IInv, TypeOK
  <2>q. QED
    BY <1>1, <2>1 DEF IInv, TypeOK
<1>4. ConnectionsComeBack'
  <2>1. pool' = {q \in Req : at'[q] = "using"}
    BY <1>1 DEF IInv, TypeOK, ConnectionsComeBack
  <2>q. QED
    BY <1>1, <2>1 DEF IInv, ConnectionsComeBack
<1>5. Phases' /\ Drain' /\ DrainsBeforeClosing'
  BY <1>1, <1>2 DEF IInv, TypeOK, Phases, Drain, DrainsBeforeClosing
<1>q. QED
  BY <1>3, <1>4, <1>5 DEF IInv

-----------------------------------------------------------------------------
(* The steps of the process.                                               *)

\* However it ends, the process cuts off what is under way, and after a drain
\* in time that is nothing.
LEMMA EndsInv ==
  ASSUME IInv, Running, NEW status \in {"0", "1", "killed"}, Ends(status),
         status = "0" => main = "returning", faults' \in 0..MaxFaults
  PROVE  IInv'
<1>1. /\ main' = "exited" /\ listener' = "closed" /\ code' = status
      /\ at' = [r \in Req |-> IF Active(r) THEN "cut" ELSE at[r]]
      /\ pool' = {}
      /\ UNCHANGED <<late, reply, closed, up>>
  BY DEF Ends
<1>2. \A r \in Req : at'[r] = IF Active(r) THEN "cut" ELSE at[r]
  BY <1>1
<1>3. TypeOK'
  <2>1. \A r \in Req : at'[r] = "done" <=> reply'[r] # "none"
    BY <1>1, <1>2 DEF IInv, TypeOK, Active
  <2>q. QED
    BY <1>1, <2>1 DEF IInv, TypeOK
<1>4. ConnectionsComeBack'
  <2>1. {r \in Req : at'[r] = "using"} = {}
    BY <1>2 DEF Active
  <2>2. Cardinality({}) = 0
    BY FS_EmptySet
  <2>q. QED
    BY <1>1, <2>1, <2>2, ServerAssumption DEF ConnectionsComeBack
<1>5. Phases' /\ Drain'
  BY <1>1 DEF Phases, Drain
<1>6. DrainsBeforeClosing'
  <2> SUFFICES ASSUME closed \/ status = "0", ~late, NEW r \in Req
               PROVE  ~Active(r)' /\ at'[r] # "cut"
    BY <1>1 DEF DrainsBeforeClosing
  <2>1. main = "returning"
    BY DEF IInv, TypeOK, Phases, Running
  <2>2. ~Active(r) /\ at[r] # "cut"
    BY <2>1 DEF IInv, Drain, Phases
  <2>q. QED
    BY <1>2, <2>2 DEF Active
<1>q. QED
  BY <1>3, <1>4, <1>5, <1>6 DEF IInv

\* What moves the listener, run or the database and leaves the requests alone.
LEMMA ProcessInv ==
  ASSUME IInv,
         \/ Listen \/ Bind \/ Signal \/ Drained \/ ShutdownTimesOut \/ ClosePool
         \/ GoesDown \/ ComesBack
  PROVE  IInv'
<1>1. UNCHANGED <<at, reply, pool>>
  BY DEF Listen, Bind, Signal, Drained, ShutdownTimesOut, ClosePool, GoesDown,
    ComesBack, requests
<1>2. ConnectionsComeBack' /\ \A r \in Req : Active(r)' <=> Active(r)
  BY <1>1 DEF IInv, ConnectionsComeBack, Active
<1>3. TypeOK'
  <2>1. faults' \in 0..MaxFaults
    BY ServerAssumption DEF IInv, TypeOK, Fault,
      Listen, Bind, Signal, Drained, ShutdownTimesOut, ClosePool, GoesDown,
      ComesBack
  <2>2. /\ main' \in {"serving", "draining", "closing", "returning", "exited"}
        /\ listener' \in {"new", "binding", "open", "closed"}
        /\ code' = code /\ late' \in BOOLEAN
        /\ closed' \in BOOLEAN /\ up' \in BOOLEAN
    BY DEF IInv, TypeOK, server,
      Listen, Bind, Signal, Drained, ShutdownTimesOut, ClosePool, GoesDown,
      ComesBack
  <2>q. QED
    BY <1>1, <2>1, <2>2 DEF IInv, TypeOK
<1>4. Phases'
  BY <1>1 DEF IInv, TypeOK, Phases, server,
    Listen, Bind, Signal, Drained, ShutdownTimesOut, ClosePool, GoesDown,
    ComesBack, Running
<1>5. Drain' /\ DrainsBeforeClosing'
  BY <1>1, <1>2 DEF IInv, TypeOK, Phases, Drain, DrainsBeforeClosing, server,
    Listen, Bind, Signal, Drained, ShutdownTimesOut, ClosePool, GoesDown,
    ComesBack, Running
<1>q. QED
  BY <1>2, <1>3, <1>4, <1>5 DEF IInv

-----------------------------------------------------------------------------
\* The inductive invariant is preserved by every step.
LEMMA StepInv ==
  ASSUME IInv, [Next]_vars
  PROVE  IInv'
<1>f. Fault => faults' \in 0..MaxFaults
  BY ServerAssumption DEF Fault, IInv, TypeOK
<1>1. CASE UNCHANGED vars
  BY <1>1 DEF vars, server, requests, IInv, TypeOK, ConnectionsComeBack, Phases,
    Drain, DrainsBeforeClosing, Active
<1>2. ASSUME NEW r \in Req,
             Healthz(r) \/ Served(r) \/ Unreachable(r) \/ NoConnection(r) \/ Overruns(r)
      PROVE  IInv'
  <2>1. /\ Running /\ Active(r) /\ faults' \in 0..MaxFaults
        /\ \E status \in {"200", "500", "503"} : Answer(r, status)
    <3>1. ErrorStatus(r) \in {"500", "503"}
      BY DEF ErrorStatus
    <3>2. CASE Overruns(r)
      BY <3>1, <3>2, <1>f DEF Overruns, Active
    <3>3. CASE Healthz(r) \/ Served(r) \/ Unreachable(r) \/ NoConnection(r)
      BY <3>1, <3>3 DEF Healthz, Served, Unreachable, NoConnection, Active, IInv,
        TypeOK
    <3>q. QED
      BY <1>2, <3>2, <3>3
  <2>q. QED
    BY <2>1, AnswerInv
<1>3. ASSUME ListenerFails \/ Exit \/ Kill
      PROVE  IInv'
  <2>1. \E status \in {"0", "1", "killed"} :
          Ends(status) /\ (status = "0" => main = "returning")
    BY <1>3 DEF ListenerFails, Exit, Kill
  <2>2. Running /\ faults' \in 0..MaxFaults
    BY <1>3, <1>f DEF ListenerFails, Exit, Kill, Running, IInv, TypeOK
  <2>q. QED
    BY <2>1, <2>2, EndsInv
<1>q. QED
  BY <1>1, <1>2, <1>3, AcquireInv, AcceptInv, ProcessInv
  DEF Next, Handle, Main

THEOREM Inductive == Spec => []IInv
<1>1. Init => IInv
  <2>1. Cardinality({}) = 0
    BY FS_EmptySet
  <2>2. ASSUME Init
        PROVE  TypeOK
    <3>1. \A r \in Req : at[r] = "done" <=> reply[r] # "none"
      BY <2>2 DEF Init
    <3>2. 0 \in 0..MaxFaults
      BY ServerAssumption
    <3>3. /\ at \in [Req -> {"new", "waiting", "using", "done", "cut"}]
          /\ reply \in [Req -> {"none", "200", "500", "503"}]
      BY <2>2 DEF Init
    <3>q. QED
      BY <2>2, <3>1, <3>2, <3>3 DEF Init, TypeOK
  <2>3. ASSUME Init
        PROVE  ConnectionsComeBack
    <3>1. {r \in Req : at[r] = "using"} = {}
      BY <2>3 DEF Init
    <3>q. QED
      BY <2>1, <2>3, <3>1, ServerAssumption DEF Init, ConnectionsComeBack
  <2>4. ASSUME Init
        PROVE  Phases /\ Drain /\ DrainsBeforeClosing
    BY <2>4 DEF Init, Phases, Drain, DrainsBeforeClosing
  <2>q. QED
    BY <2>2, <2>3, <2>4 DEF IInv
<1>2. IInv /\ [Next]_vars => IInv'
  BY StepInv
<1>q. QED
  BY <1>1, <1>2, PTL DEF Spec

\* The variables keep their types.
THEOREM TypeCorrect == Spec => []TypeOK
BY Inductive, PTL DEF IInv

\* No path through a handler keeps its connection.
THEOREM NoConnectionLeaks == Spec => []ConnectionsComeBack
BY Inductive, PTL DEF IInv

\* A shutdown that is given the time it needs loses no request.
THEOREM ShutdownIsGraceful == Spec => []DrainsBeforeClosing
BY Inductive, PTL DEF IInv

-----------------------------------------------------------------------------
(* Server implements GracefulStop.                                         *)

LEMMA InsideAreActive ==
  ASSUME IInv
  PROVE  /\ G!Inside = {r \in Req : Active(r)}
         /\ \A r \in Req : PlaceOf(r) = "in" <=> Active(r)
<1>1. \A r \in Req : PlaceOf(r) = "in" <=> Active(r)
  BY DEF IInv, TypeOK, PlaceOf, Active
<1>q. QED
  BY <1>1 DEF G!Inside

\* One request moves and the others stay where they are.
LEMMA PlaceMoves ==
  ASSUME NEW r \in Req, \A q \in Req : q # r => at'[q] = at[q]
  PROVE  [q \in Req |-> PlaceOf(q)]'
           = [[q \in Req |-> PlaceOf(q)] EXCEPT ![r] = PlaceOf(r)']
<1>1. \A q \in Req : q # r => PlaceOf(q)' = PlaceOf(q)
  BY DEF PlaceOf
<1>q. QED
  BY <1>1

LEMMA PlacesStay ==
  ASSUME UNCHANGED at
  PROVE  [q \in Req |-> PlaceOf(q)]' = [q \in Req |-> PlaceOf(q)]
<1>1. \A q \in Req : PlaceOf(q)' = PlaceOf(q)
  BY DEF PlaceOf
<1>q. QED
  BY <1>1

\* A request is admitted, answered, or may come again; one that is given a
\* connection is where it was.
LEMMA RequestMoves ==
  ASSUME IInv, NEW r \in Req,
         Accept(r) \/ Again(r) \/ Handle(r) \/ Overruns(r)
  PROVE  [G!Next]_(G!vars)
<1>1. \A q \in Req : q # r => at'[q] = at[q]
  BY DEF IInv, TypeOK, Accept, Again, Handle, Overruns, Healthz, Acquire, Served,
    Unreachable, NoConnection, Answer
<1>2. UNCHANGED <<main, code, late>>
  BY DEF Accept, Again, Handle, Overruns, Healthz, Acquire, Served, Unreachable,
    NoConnection, Answer, server
<1>3. PhaseOf' = PhaseOf
  BY <1>2 DEF PhaseOf
<1>4. [q \in Req |-> PlaceOf(q)]'
        = [[q \in Req |-> PlaceOf(q)] EXCEPT ![r] = PlaceOf(r)']
  BY <1>1, PlaceMoves
<1>5. CASE Accept(r)
  <2>1. PlaceOf(r) = "out" /\ PlaceOf(r)' = "in"
    BY <1>5 DEF IInv, TypeOK, Accept, PlaceOf
  <2>2. PhaseOf = "open"
    BY <1>5 DEF IInv, Phases, Accept, PhaseOf
  <2>3. G!Admit(r)
    BY <1>2, <1>3, <1>4, <2>1, <2>2 DEF G!Admit, G!Moves
  <2>q. QED
    BY <2>3 DEF G!Next
<1>6. CASE Again(r)
  <2>1. PlaceOf(r) = "answered" /\ PlaceOf(r)' = "out"
    BY <1>6 DEF IInv, TypeOK, Again, PlaceOf
  <2>2. PhaseOf = "open"
    BY <1>6 DEF IInv, Phases, Again, PhaseOf
  <2>3. G!Return(r)
    BY <1>2, <1>3, <1>4, <2>1, <2>2 DEF G!Return, G!Moves
  <2>q. QED
    BY <2>3 DEF G!Next
<1>7. CASE Acquire(r)
  <2>1. PlaceOf(r) = "in" /\ PlaceOf(r)' = "in"
    BY <1>7 DEF IInv, TypeOK, Acquire, PlaceOf
  <2>q. QED
    BY <1>2, <1>3, <1>4, <2>1 DEF G!vars
<1>8. CASE Healthz(r) \/ Served(r) \/ Unreachable(r) \/ NoConnection(r) \/ Overruns(r)
  <2>1. Running /\ at[r] \in {"waiting", "using"} /\ at'[r] = "done"
    BY <1>8 DEF IInv, TypeOK, Healthz, Served, Unreachable, NoConnection, Overruns,
      Answer
  <2>2. PlaceOf(r) = "in" /\ PlaceOf(r)' = "answered"
    BY <2>1 DEF PlaceOf
  <2>3. PhaseOf \in {"open", "stopping"}
    BY <2>1 DEF IInv, TypeOK, Running, PhaseOf
  <2>4. G!Answer(r)
    BY <1>2, <1>3, <1>4, <2>2, <2>3 DEF G!Answer, G!Moves
  <2>q. QED
    BY <2>4 DEF G!Next
<1>q. QED
  BY <1>5, <1>6, <1>7, <1>8 DEF Handle

\* However it ends, what is under way is lost.
LEMMA EndsLose ==
  ASSUME IInv, NEW status, Ends(status)
  PROVE  /\ G!Lose /\ UNCHANGED late
         /\ PhaseOf' = IF status = "0" THEN "gone" ELSE "dead"
<1>1. at' = [r \in Req |-> IF Active(r) THEN "cut" ELSE at[r]]
  BY DEF Ends
<1>2. \A r \in Req : PlaceOf(r)' = IF r \in G!Inside THEN "lost" ELSE PlaceOf(r)
  <2>1. ASSUME NEW r \in Req
        PROVE  PlaceOf(r)' = IF Active(r) THEN "lost" ELSE PlaceOf(r)
    <3>1. at'[r] = IF Active(r) THEN "cut" ELSE at[r]
      BY <1>1
    <3>2. at[r] \in {"new", "waiting", "using", "done", "cut"}
      BY DEF IInv, TypeOK
    <3>3. CASE Active(r)
      BY <3>1, <3>3 DEF PlaceOf
    <3>4. CASE ~Active(r)
      BY <3>1, <3>2, <3>4 DEF PlaceOf, Active
    <3>q. QED
      BY <3>3, <3>4
  <2>q. QED
    BY <2>1, InsideAreActive
<1>3. [r \in Req |-> PlaceOf(r)]'
        = [r \in Req |-> IF r \in G!Inside THEN "lost" ELSE [q \in Req |-> PlaceOf(q)][r]]
  BY <1>2
<1>q. QED
  BY <1>3 DEF G!Lose, Ends, PhaseOf

\* What the process does is a signal, the end of its patience or its own end, or
\* is not seen.
LEMMA ProcessMoves ==
  ASSUME IInv,
         \/ Listen \/ Bind \/ ListenerFails \/ Signal \/ Main
         \/ GoesDown \/ ComesBack \/ Kill
  PROVE  [G!Next]_(G!vars)
<1>1. CASE Listen \/ Bind \/ GoesDown \/ ComesBack
  <2>1. UNCHANGED <<main, code, late, at>>
    BY <1>1 DEF Listen, Bind, GoesDown, ComesBack, server, requests
  <2>2. PhaseOf' = PhaseOf
    BY <2>1 DEF PhaseOf
  <2>q. QED
    BY <2>1, <2>2, PlacesStay DEF G!vars
<1>2. CASE Signal
  <2>1. PhaseOf = "open" /\ PhaseOf' = "stopping" /\ UNCHANGED <<late, at>>
    BY <1>2 DEF Signal, PhaseOf, requests
  <2>2. G!Stop
    BY <2>1, PlacesStay DEF G!Stop
  <2>q. QED
    BY <2>2 DEF G!Next
<1>3. CASE Drained \/ ClosePool
  <2>1. PhaseOf = "stopping" /\ PhaseOf' = "stopping" /\ UNCHANGED <<late, at>>
    BY <1>3 DEF Drained, ClosePool, PhaseOf, requests
  <2>q. QED
    BY <2>1, PlacesStay DEF G!vars
<1>4. CASE ShutdownTimesOut
  <2>1. /\ PhaseOf = "stopping" /\ PhaseOf' = "stopping" /\ UNCHANGED at
        /\ late' = TRUE /\ \E r \in Req : Active(r)
    BY <1>4 DEF ShutdownTimesOut, PhaseOf, requests
  <2>2. G!RunOut
    BY <2>1, PlacesStay, InsideAreActive DEF G!RunOut
  <2>q. QED
    BY <2>2 DEF G!Next
<1>5. CASE Exit
  <2>1. PhaseOf = "stopping" /\ Ends("0") /\ main = "returning"
    BY <1>5 DEF Exit, PhaseOf
  <2>2. G!Inside = {} \/ late
    BY <2>1, InsideAreActive DEF IInv, Drain
  <2>3. G!GoAway
    BY <2>1, <2>2, EndsLose DEF G!GoAway
  <2>q. QED
    BY <2>3 DEF G!Next
<1>6. CASE ListenerFails \/ Kill
  <2>1. \E status \in {"1", "killed"} : Ends(status)
    BY <1>6 DEF ListenerFails, Kill
  <2>2. PhaseOf \in {"open", "stopping"}
    BY <1>6 DEF ListenerFails, Kill, Running, PhaseOf, IInv, TypeOK
  <2>3. G!Die
    BY <2>1, <2>2, EndsLose DEF G!Die
  <2>q. QED
    BY <2>3 DEF G!Next
<1>q. QED
  BY <1>1, <1>2, <1>3, <1>4, <1>5, <1>6 DEF Main

LEMMA StepServes ==
  ASSUME IInv, [Next]_vars
  PROVE  [G!Next]_(G!vars)
<1>1. CASE UNCHANGED vars
  <2>1. UNCHANGED <<main, code, late, at>>
    BY <1>1 DEF vars, server, requests
  <2>2. PhaseOf' = PhaseOf
    BY <2>1 DEF PhaseOf
  <2>q. QED
    BY <2>1, <2>2, PlacesStay DEF G!vars
<1>q. QED
  BY <1>1, RequestMoves, ProcessMoves DEF Next

LEMMA InitServes ==
  ASSUME Init
  PROVE  G!Init
BY DEF Init, G!Init, PhaseOf, PlaceOf

\* For any number of requests and connections and whatever fails meanwhile,
\* requests see one service that stops gracefully, gives up late, or dies.
THEOREM Implements == Spec => ImplementsGracefulStop
<1>1. IInv /\ [Next]_vars => [G!Next]_(G!vars)
  BY StepServes
<1>q. QED
  BY Inductive, InitServes, <1>1, PTL DEF Spec, ImplementsGracefulStop, G!Spec
=============================================================================
