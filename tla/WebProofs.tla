------------------------------ MODULE WebProofs -------------------------------
(***************************************************************************)
(* What the layer owes the handlers and its clients, for any requests, any *)
(* calls and any set of operations that are implemented.  First what holds *)
(* whatever the table of the operations and the router say, which stay     *)
(* closed; then what the router, of which module RouterProofs has shown    *)
(* that it is sound and complete, adds to it, and what is turned away; then*)
(* what becomes of it in the browser, and what a SyntaxError hides there.  *)
(***************************************************************************)
EXTENDS Web, RouterProofs

\* Before and in the handler, and while a panic unwinds, nothing is written.
Computing == {"route", "security", "params", "body", "handle", "unwind"}

\* What the checks that are passed have established.
CheckedSoFar ==
  /\ pc \in {"params", "body", "handle"} => Satisfied(op, request)
  /\ pc \in {"body", "handle"} => Decodes(Operation[op].params, args, request.bad)
  /\ pc = "handle" => request.body \in Operation[op].body

\* Where the response comes from, and what is behind it when it is a failure.
\* (A handler may answer 5xx by a response of its type, as Readyz does.)
WrittenSoFar ==
  /\ overdue \in BOOLEAN /\ failed \in {"none", "error", "panic"}
  /\ pc \in Computing \cup {"away"} => written = <<>>
  /\ pc \in {"return", "done"} => written # <<>>
  /\ pc \in (Computing \ {"unwind"}) \cup {"away"} => failed = "none"
  /\ pc = "unwind" => failed = "panic"
  /\ written # <<>> =>
       LET res == written[1] IN
       /\ res.status = 501 /\ res.by = "layer" => op \notin implemented
       /\ res.status = 500 /\ res.by = "layer" => failed = "error"
       /\ res.by = "recoverer" => failed = "panic"
       /\ res.by = "timeout" => failed = "panic" /\ overdue /\ res.status = 504

IInv == pc \in Steps /\ CheckedSoFar /\ WrittenSoFar

-----------------------------------------------------------------------------
\* The browser and its gateway leave what the server does alone.
LEMMA Beside ==
  ASSUME IInv, UNCHANGED api
  PROVE  IInv'
BY DEF IInv, CheckedSoFar, WrittenSoFar, Satisfied, BearerAuth, CookieAuth, api, progress

\* A request comes, and its response has gone.
LEMMA Ends ==
  ASSUME IInv, (\E r : Arrive(r)) \/ NextRequest
  PROVE  IInv'
<1>1. ASSUME NEW r, Arrive(r)
      PROVE  IInv'
  <2>1. /\ pc = "away" /\ pc' = "route"
        /\ UNCHANGED <<implemented, op, args, overdue, failed, written>>
    BY <1>1 DEF Arrive
  <2>q. QED
    BY <2>1 DEF IInv, CheckedSoFar, WrittenSoFar, Steps, Computing
<1>2. CASE NextRequest
  BY <1>2 DEF NextRequest, IInv, CheckedSoFar, WrittenSoFar, Steps, Computing
<1>q. QED
  BY <1>1, <1>2

\* The router dispatches, or answers by itself.
LEMMA RouteKeeps ==
  ASSUME IInv, Route
  PROVE  IInv'
<1>1. /\ pc = "route" /\ written = <<>> /\ failed = "none"
      /\ UNCHANGED <<implemented, request, overdue, failed>>
  BY DEF Route, IInv, WrittenSoFar, Computing
<1>2. CASE GoTo("security")
  BY <1>1, <1>2 DEF GoTo, IInv, CheckedSoFar, WrittenSoFar, Steps, Computing
<1>3. CASE \E s \in {204, 404, 405}, b \in {"text", "empty"} :
             WriteHeader(s, b, "router") /\ pc' = "return"
  BY <1>1, <1>3 DEF WriteHeader, IInv, CheckedSoFar, WrittenSoFar, Steps, Computing
<1>q. QED
  BY <1>2, <1>3 DEF Route, MethodNotAllowed

\* Security, the decoders of the parameters and of the body: go on, or refuse.
LEMMA ChecksKeep ==
  ASSUME IInv, Security \/ DecodeParams \/ DecodeRequest
  PROVE  IInv'
<1>1. /\ pc \in {"security", "params", "body"} /\ written = <<>> /\ failed = "none"
      /\ UNCHANGED <<implemented, request, op, args, overdue, failed>>
  BY DEF Security, DecodeParams, DecodeRequest, IInv, WrittenSoFar, Computing
<1>2. CASE \E s \in {400, 401, 415} : Refuse(s)
  BY <1>1, <1>2 DEF Refuse, WriteHeader, IInv, CheckedSoFar, WrittenSoFar, Steps, Computing
<1>3. CASE /\ \/ pc = "security" /\ Satisfied(op, request) /\ pc' = "params"
              \/ /\ pc = "params" /\ pc' = "body"
                 /\ Decodes(Operation[op].params, args, request.bad)
              \/ pc = "body" /\ request.body \in Operation[op].body /\ pc' = "handle"
           /\ UNCHANGED written
  <2>1. CheckedSoFar'
    BY <1>1, <1>3 DEF IInv, CheckedSoFar, Satisfied, BearerAuth, CookieAuth
  <2>2. pc' \in Steps /\ WrittenSoFar'
    BY <1>1, <1>3 DEF IInv, WrittenSoFar, Steps, Computing
  <2>q. QED
    BY <2>1, <2>2 DEF IInv
<1>q. QED
  BY <1>2, <1>3 DEF Security, DecodeParams, DecodeRequest, GoTo, DecodeStatus

\* The handler returns, fails or panics, or there is none.
LEMMA HandlerKeeps ==
  ASSUME IInv, NotImplemented \/ HandlerEnds
  PROVE  IInv'
<1>1. /\ pc = "handle" /\ written = <<>> /\ failed = "none"
      /\ UNCHANGED <<implemented, request, op, args, overdue>>
  BY DEF NotImplemented, HandlerEnds, Respond, HandlerFails, Panic, IInv, WrittenSoFar,
    Computing
<1>2. CASE NotImplemented
  BY <1>1, <1>2 DEF NotImplemented, Refuse, WriteHeader, IInv, CheckedSoFar, WrittenSoFar,
    Steps, Computing
<1>3. CASE Respond
  <2>1. PICK res : WriteHeader(res.status, res.body, "handler")
    BY <1>3 DEF Respond
  <2>2. pc' = "return" /\ failed' = failed
    BY <1>3 DEF Respond
  <2>q. QED
    BY <1>1, <2>1, <2>2 DEF WriteHeader, IInv, CheckedSoFar, WrittenSoFar, Steps, Computing
<1>4. CASE HandlerFails
  BY <1>1, <1>4 DEF HandlerFails, Refuse, WriteHeader, IInv, CheckedSoFar, WrittenSoFar,
    Steps, Computing
<1>5. CASE Panic
  BY <1>1, <1>5 DEF Panic, GoTo, IInv, CheckedSoFar, WrittenSoFar, Steps, Computing
<1>q. QED
  BY <1>2, <1>3, <1>4, <1>5 DEF HandlerEnds

\* The deadline passes; the deferred functions run.
LEMMA MiddlewareKeeps ==
  ASSUME IInv, Deadline \/ Return \/ Unwind
  PROVE  IInv'
<1>1. UNCHANGED <<implemented, request, op, args, failed>>
  BY DEF Deadline, Return, Unwind
<1>2. CASE Deadline
  <2>1. UNCHANGED <<pc, written>> /\ ~overdue /\ overdue' = TRUE
    BY <1>2 DEF Deadline
  <2>2. CheckedSoFar'
    BY <1>1, <2>1 DEF IInv, CheckedSoFar, Satisfied, BearerAuth, CookieAuth
  <2>3. pc' \in Steps /\ WrittenSoFar'
    BY <1>1, <2>1 DEF IInv, WrittenSoFar
  <2>q. QED
    BY <2>2, <2>3 DEF IInv
<1>3. CASE Return
  <2>1. pc = "return" /\ pc' = "done" /\ UNCHANGED <<written, overdue>>
    BY <1>3 DEF Return, WriteHeader, IInv, WrittenSoFar
  <2>q. QED
    BY <1>1, <2>1 DEF IInv, CheckedSoFar, WrittenSoFar, Steps, Computing
<1>4. CASE Unwind
  BY <1>1, <1>4 DEF Unwind, WriteHeader, IInv, CheckedSoFar, WrittenSoFar, Steps, Computing
<1>q. QED
  BY <1>2, <1>3, <1>4

\* Every step keeps the invariant.
LEMMA NextKeeps ==
  ASSUME IInv, [Next]_vars
  PROVE  IInv'
<1>1. CASE UNCHANGED vars
  BY <1>1, Beside DEF vars
<1>2. CASE ApiNext
  BY <1>2, RouteKeeps, ChecksKeep, HandlerKeeps, MiddlewareKeeps DEF ApiNext
<1>3. CASE Call
  <2>1. CASE Forward
    BY <2>1, Ends DEF Forward
  <2>2. CASE UNCHANGED api
    BY <2>2, Beside
  <2>q. QED
    BY <1>3, <2>1, <2>2 DEF Call, Fetch, TryFiles, ProxyFails, Relay, Receive, Abort,
      NetworkFails, Settle
<1>4. CASE Other \/ Again
  BY <1>4, Ends DEF Other, Again
<1>q. QED
  BY <1>1, <1>2, <1>3, <1>4 DEF Next

\* The inductive invariant.
THEOREM Inductive == Spec => []IInv
<1>1. Init => IInv
  BY DEF Init, ApiInit, IInv, CheckedSoFar, WrittenSoFar, Steps, Computing
<1>2. IInv /\ [Next]_vars => IInv'
  BY NextKeeps
<1>q. QED
  BY <1>1, <1>2, PTL DEF Spec

-----------------------------------------------------------------------------
(* What the router has found, and what the response is made of.            *)

\* What is being served is what the assumptions allow to be sent.
Given ==
  /\ implemented \in Handlers
  /\ request.path \in Seq(STRING)
  /\ request.cred \subseteq {"bearer", "cookie"}
  /\ request.body \in Body
  /\ at \in {"idle", "sent", "forwarded", "answered", "settled"}
  /\ at = "idle" => call = NoCall
  /\ at # "idle" => call \in Calls

\* The operation and the arguments are those of the request.
Here == Served(request.method, request.path, To(op, args))

Found ==
  /\ pc \in {"security", "params", "body", "handle"} => Here
  /\ pc \in {"away", "route"} => op = "none" /\ args = <<>>
  /\ Here \/ (op = "none" /\ args = <<>>)

\* A handler answered what passed every check, the others answer what they do.
Answered ==
  written # <<>> =>
    LET res == written[1] IN
    /\ res \in Response
    /\ res.by = "handler" =>
         /\ Here /\ op \in implemented /\ res.status # 501
         /\ Satisfied(op, request) /\ Decodes(Operation[op].params, args, request.bad)
    /\ res.by = "router" =>
         res.status \in {404, 405} \/ (res.status = 204 /\ request.method = "OPTIONS")
    /\ res.by = "layer" => res.status \in {400, 401, 415, 500, 501}
    /\ res.by = "recoverer" => res.status = 500 /\ pc = "done" /\ ~overdue
    /\ res.by = "timeout" => res.status = 504

LInv == Found /\ Answered

-----------------------------------------------------------------------------
LEMMA GivenAtFirst ==
  ASSUME Init
  PROVE  Given
<1>1. <<>> \in Seq(STRING) /\ "untyped" \in Body
  BY DEF Body
<1>q. QED
  BY <1>1 DEF Init, ApiInit, Given, NoRequest

\* What the frontend sends is a request.
LEMMA CallsAreRequests ==
  ASSUME NEW c \in Calls
  PROVE  /\ RequestOf(c).path \in Seq(STRING)
         /\ RequestOf(c).cred \subseteq {"bearer", "cookie"}
         /\ RequestOf(c).body \in Body
<1>1. "untyped" \in Body
  BY DEF Body
<1>2. c.path \in Seq(STRING) /\ c.body \in Body
  BY WebAssumption
<1>q. QED
  BY <1>1, <1>2 DEF RequestOf

LEMMA GivenKept ==
  ASSUME Given, [Next]_vars
  PROVE  Given'
<1>1. CASE UNCHANGED <<implemented, request, call, at>>
  BY <1>1 DEF Given
<1>2. CASE ApiNext /\ UNCHANGED browser
  <2>1. UNCHANGED <<implemented, request, call, at>>
    BY <1>2 DEF ApiNext, Route, Security, DecodeParams, DecodeRequest, NotImplemented,
      HandlerEnds, Respond, HandlerFails, Panic, Deadline, Return, Unwind, browser
  <2>q. QED
    BY <1>1, <2>1
<1>3. CASE Fetch
  BY <1>3 DEF Fetch, Given, api, progress
<1>4. CASE Forward
  <2>1. /\ at = "sent" /\ at' = "forwarded" /\ call' = call
        /\ request' = RequestOf(call) /\ implemented' = implemented
    BY <1>4 DEF Forward, Arrive
  <2>2. call \in Calls
    BY <2>1 DEF Given
  <2>q. QED
    BY <2>1, <2>2, CallsAreRequests DEF Given
<1>5. CASE TryFiles \/ ProxyFails \/ Relay
  BY <1>5 DEF TryFiles, ProxyFails, Relay, Reply, Given, api, progress
<1>6. CASE Receive \/ Abort \/ NetworkFails
  BY <1>6 DEF Receive, Abort, NetworkFails, Settle, Given, api, progress
<1>7. CASE Other
  <2>1. PICK r \in Requests : Arrive(r)
    BY <1>7 DEF Other
  <2>2. r.path \in Seq(STRING) /\ r.cred \subseteq {"bearer", "cookie"} /\ r.body \in Body
    BY WebAssumption
  <2>q. QED
    BY <1>7, <2>1, <2>2 DEF Other, Arrive, Given, browser
<1>8. CASE Again
  <2>1. <<>> \in Seq(STRING) /\ "untyped" \in Body
    BY DEF Body
  <2>q. QED
    BY <1>8, <2>1 DEF Again, NextRequest, NoRequest, Given
<1>q. QED
  BY <1>1, <1>2, <1>3, <1>4, <1>5, <1>6, <1>7, <1>8 DEF Next, Call, vars, browser, api

\* Whoever is served is served an operation of the table.
LEMMA HereIs ==
  ASSUME Here
  PROVE  /\ op \in DOMAIN Operation /\ request.method = Operation[op].method
         /\ args = << <<>> >> \/ request.path = Filled(Operation[op].route, args)
         /\ Len(args) \in 0..3 /\ DOMAIN args = 1..Len(args)
         /\ PathOf(Operation[op].params) = DOMAIN args
         /\ Operation[op].response \subseteq Sendable
         /\ op \in RolesKnown => Operation[op].security = Secured
BY DEF Here, Served, To

LEMMA HereStays ==
  ASSUME Here, UNCHANGED <<request, op, args>>
  PROVE  Here'
BY DEF Here

-----------------------------------------------------------------------------
LEMMA RouteFinds ==
  ASSUME IInv, Given, LInv, Route
  PROVE  LInv'
<1>1. /\ pc = "route" /\ written = <<>>
      /\ UNCHANGED <<implemented, request, overdue, failed>>
  BY DEF Route, IInv, WrittenSoFar, Computing
<1>2. PICK to : to = ServeHTTP(request.method, request.path)
  OBVIOUS
<1>3. Right(request.method, request.path, to)
  <2>1. request.path \in Seq(Token)
    BY Wider DEF Given, Token
  <2>q. QED
    BY <1>2, <2>1, RouterIsSound
<1>4. CASE to.kind = "operation" /\ op' = to.op /\ args' = to.args /\ GoTo("security")
  <2>1. Served(request.method, request.path, to)
    BY <1>3, <1>4 DEF Right
  <2>2. Here'
    BY <1>1, <1>4, <2>1 DEF Here, Served, To
  <2>3. written' = <<>> /\ pc' = "security"
    BY <1>1, <1>4 DEF GoTo
  <2>q. QED
    BY <2>2, <2>3 DEF LInv, Found, Answered
<1>5. CASE /\ \E s \in {404, 405} : WriteHeader(s, "text", "router") \/ WriteHeader(s, "empty", "router")
           /\ pc' = "return" /\ UNCHANGED <<op, args>>
  <2>1. /\ written' # <<>> /\ written'[1] \in Response
        /\ written'[1].by = "router" /\ written'[1].status \in {404, 405}
    BY <1>1, <1>5 DEF WriteHeader, Response
  <2>2. Here \/ (op = "none" /\ args = <<>>)
    BY DEF LInv, Found
  <2>3. Here' \/ (op' = "none" /\ args' = <<>>)
    BY <1>1, <1>5, <2>2, HereStays
  <2>q. QED
    BY <1>5, <2>1, <2>3 DEF LInv, Found, Answered
<1>6. CASE /\ WriteHeader(204, "empty", "router") /\ request.method = "OPTIONS"
           /\ pc' = "return" /\ UNCHANGED <<op, args>>
  <2>1. /\ written' # <<>> /\ written'[1] \in Response
        /\ written'[1].by = "router" /\ written'[1].status = 204 /\ request'.method = "OPTIONS"
    BY <1>1, <1>6 DEF WriteHeader, Response
  <2>2. Here \/ (op = "none" /\ args = <<>>)
    BY DEF LInv, Found
  <2>3. Here' \/ (op' = "none" /\ args' = <<>>)
    BY <1>1, <1>6, <2>2, HereStays
  <2>q. QED
    BY <1>6, <2>1, <2>3 DEF LInv, Found, Answered
<1>q. QED
  BY <1>2, <1>4, <1>5, <1>6 DEF Route, MethodNotAllowed

\* The layer refuses.
LEMMA RefusalFinds ==
  ASSUME LInv, written = <<>>, UNCHANGED <<request, op, args>>,
         NEW s \in {400, 401, 415, 500, 501}, Refuse(s)
  PROVE  LInv'
<1>1. /\ written' # <<>> /\ written'[1] \in Response
      /\ written'[1].by = "layer" /\ written'[1].status \in {400, 401, 415, 500, 501}
  BY DEF Refuse, WriteHeader, Response
<1>2. Here' \/ (op' = "none" /\ args' = <<>>)
  BY HereStays DEF LInv, Found
<1>q. QED
  BY <1>1, <1>2 DEF LInv, Found, Answered, Refuse

LEMMA ChecksFind ==
  ASSUME IInv, LInv, Security \/ DecodeParams \/ DecodeRequest
  PROVE  LInv'
<1>1. /\ pc \in {"security", "params", "body"} /\ written = <<>>
      /\ UNCHANGED <<implemented, request, op, args, overdue, failed>>
  BY DEF Security, DecodeParams, DecodeRequest, IInv, WrittenSoFar, Computing
<1>2. CASE \E s \in {400, 401, 415} : Refuse(s)
  BY <1>1, <1>2, RefusalFinds
<1>3. CASE UNCHANGED written /\ pc' \in {"params", "body", "handle"}
  <2>1. Here'
    BY <1>1, HereStays DEF LInv, Found
  <2>q. QED
    BY <1>1, <1>3, <2>1 DEF LInv, Found, Answered
<1>q. QED
  BY <1>2, <1>3 DEF Security, DecodeParams, DecodeRequest, GoTo, DecodeStatus

LEMMA HandlerFinds ==
  ASSUME IInv, LInv, NotImplemented \/ HandlerEnds
  PROVE  LInv'
<1>1. /\ pc = "handle" /\ written = <<>>
      /\ UNCHANGED <<implemented, request, op, args, overdue>>
  BY DEF NotImplemented, HandlerEnds, Respond, HandlerFails, Panic, IInv, WrittenSoFar,
    Computing
<1>2. Here /\ Here'
  BY <1>1, HereStays DEF LInv, Found
<1>3. CASE NotImplemented \/ HandlerFails
  BY <1>1, <1>3, RefusalFinds DEF NotImplemented, HandlerFails
<1>4. CASE Respond
  <2>1. PICK res \in Operation[op].response : WriteHeader(res.status, res.body, "handler")
    BY <1>4 DEF Respond
  <2>2. res \in Sendable
    BY <1>2, <2>1, HereIs
  <2>3. /\ written' # <<>> /\ written'[1] \in Response /\ written'[1].by = "handler"
        /\ written'[1].status # 501
    BY <1>1, <2>1, <2>2 DEF WriteHeader, Response, Sendable
  <2>4. /\ op' \in implemented' /\ Satisfied(op, request)'
        /\ Decodes(Operation[op].params, args, request.bad)'
    BY <1>1, <1>4 DEF IInv, CheckedSoFar, Respond, Satisfied, BearerAuth, CookieAuth
  <2>5. pc' = "return"
    BY <1>4 DEF Respond
  <2>q. QED
    BY <1>2, <2>3, <2>4, <2>5 DEF LInv, Found, Answered
<1>5. CASE Panic
  BY <1>1, <1>2, <1>5 DEF Panic, GoTo, LInv, Found, Answered
<1>q. QED
  BY <1>3, <1>4, <1>5 DEF HandlerEnds

LEMMA MiddlewareFinds ==
  ASSUME IInv, LInv, Deadline \/ Return \/ Unwind
  PROVE  LInv'
<1>1. UNCHANGED <<implemented, request, op, args, failed>>
  BY DEF Deadline, Return, Unwind
<1>2. Here' <=> Here
  BY <1>1 DEF Here
<1>3. CASE Deadline
  <2>1. UNCHANGED <<pc, written>> /\ pc # "done"
    BY <1>3 DEF Deadline
  <2>2. Found'
    BY <1>1, <1>2, <2>1 DEF LInv, Found
  <2>3. Answered'
    BY <1>1, <1>2, <2>1 DEF LInv, Answered, Satisfied, BearerAuth, CookieAuth
  <2>q. QED
    BY <2>2, <2>3 DEF LInv
<1>4. CASE Return
  <2>1. pc = "return" /\ pc' = "done" /\ UNCHANGED <<written, overdue>>
    BY <1>4 DEF Return, WriteHeader, IInv, WrittenSoFar
  <2>2. Found'
    BY <1>1, <1>2, <2>1 DEF LInv, Found
  <2>3. Answered'
    BY <1>1, <1>2, <2>1 DEF LInv, Answered, Satisfied, BearerAuth, CookieAuth
  <2>q. QED
    BY <2>2, <2>3 DEF LInv
<1>5. CASE Unwind
  <2>1. written = <<>> /\ pc' = "done" /\ overdue' = overdue
    BY <1>5 DEF Unwind, IInv, WrittenSoFar, Computing
  <2>2. Found'
    BY <1>1, <1>2, <2>1 DEF LInv, Found
  <2>3. /\ written' # <<>> /\ written'[1] \in Response
        /\ \/ written'[1].by = "timeout" /\ written'[1].status = 504
           \/ written'[1].by = "recoverer" /\ written'[1].status = 500 /\ ~overdue
    BY <1>5, <2>1 DEF Unwind, WriteHeader, Response
  <2>q. QED
    BY <2>1, <2>2, <2>3 DEF LInv, Answered
<1>q. QED
  BY <1>3, <1>4, <1>5

LEMMA NextFinds ==
  ASSUME IInv, Given, LInv, [Next]_vars
  PROVE  LInv'
<1>1. CASE UNCHANGED api
  BY <1>1 DEF api, progress, LInv, Found, Answered, Here, Satisfied, BearerAuth, CookieAuth
<1>2. CASE ApiNext
  BY <1>2, RouteFinds, ChecksFind, HandlerFinds, MiddlewareFinds DEF ApiNext
<1>3. CASE \E r : Arrive(r)
  <2>1. /\ pc = "away" /\ pc' = "route" /\ written = <<>>
        /\ UNCHANGED <<implemented, op, args, overdue, failed, written>>
    BY <1>3 DEF Arrive, IInv, WrittenSoFar
  <2>q. QED
    BY <2>1 DEF LInv, Found, Answered
<1>4. CASE NextRequest
  BY <1>4 DEF NextRequest, LInv, Found, Answered
<1>q. QED
  BY <1>1, <1>2, <1>3, <1>4 DEF Next, Call, Fetch, Forward, TryFiles, ProxyFails, Relay,
    Receive, Abort, NetworkFails, Settle, Other, Again, vars

\* Found and Answered are inductive with the invariant above.
THEOREM RequestsAreFound == Spec => [](IInv /\ Given /\ LInv)
<1>1. Init => LInv
  BY DEF Init, ApiInit, LInv, Found, Answered
<1>2. IInv /\ (Given /\ LInv) /\ [Next]_vars => (Given /\ LInv)'
  BY GivenKept, NextFinds
<1>3. Init => Given
  BY GivenAtFirst
<1>q. QED
  BY <1>1, <1>2, <1>3, Inductive, PTL DEF Spec

\* A value that decodes is not empty.
LEMMA NothingEmpty ==
  ASSUME Here, Decodes(Operation[op].params, args, request.bad)
  PROVE  /\ \A i \in DOMAIN args : args[i] # <<>>
         /\ Valid(op, args, request.bad)
         /\ request.path = Filled(Operation[op].route, args)
<1>1. PICK params : params = Operation[op].params
  OBVIOUS
<1>2. {i \in DOMAIN params : params[i].in = "path"} = DOMAIN args
  BY <1>1, HereIs DEF PathOf
<1>3. /\ \A i \in DOMAIN params : params[i].in = "path" =>
           Satisfies(Unescaped(args[i]), params[i].check)
      /\ Checked(params) \cap request.bad = {}
  BY <1>1 DEF Decodes
<1>4. Valid(op, args, request.bad)
  BY <1>1, <1>2, <1>3 DEF Valid
<1>5. Unescaped(<<>>) = <<>>
  BY DEF Unescaped
<1>6. ASSUME NEW i \in DOMAIN args
      PROVE  args[i] # <<>>
  <2>1. Unescaped(args[i]) # <<>>
    BY <1>2, <1>3 DEF Satisfies
  <2>q. QED
    BY <1>5, <2>1
<1>7. request.path = Filled(Operation[op].route, args)
  <2>1. args # << <<>> >>
    <3>1. ASSUME args = << <<>> >>
          PROVE  FALSE
      <4>1. 1 \in DOMAIN args /\ args[1] = <<>>
        BY <3>1
      <4>q. QED
        BY <1>6, <4>1
    <3>q. QED
      BY <3>1
  <2>q. QED
    BY <2>1, HereIs
<1>q. QED
  BY <1>4, <1>6, <1>7

\* What a handler sees, for any method and any path: it is entered by a request for its
\* route only, with the method of the operation, arguments that are the values in the
\* path and not empty, parameters and a body that satisfy the schema, and credentials
\* whenever the operation demands them or has roles (oas_router_gen.go,
\* oas_handlers_gen.go, oas_security_gen.go).
THEOREM HandlersSeeConforming == Spec => []HandlerSeesConforming
<1>1. ASSUME IInv, LInv
      PROVE  HandlerSeesConforming
  <2> SUFFICES ASSUME pc = "handle" PROVE HandlerSeesConforming
    BY DEF HandlerSeesConforming, Gated, Routed
  <2>1. /\ Here /\ Satisfied(op, request)
        /\ Decodes(Operation[op].params, args, request.bad)
        /\ request.body \in Operation[op].body
    BY <1>1 DEF IInv, CheckedSoFar, LInv, Found
  <2>2. Gated
    BY <2>1, NothingEmpty DEF Gated, Satisfied, BearerAuth, CookieAuth
  <2>3. Routed
    BY <2>1, HereIs, NothingEmpty DEF Routed
  <2>4. op \in RolesKnown => BearerAuth(request) \/ CookieAuth(request)
    BY <2>1, HereIs DEF Satisfied
  <2>q. QED
    BY <2>2, <2>3, <2>4 DEF HandlerSeesConforming
<1>q. QED
  BY <1>1, RequestsAreFound, PTL

\* Every response that is a failure has the failure behind it that its status stands for:
\* no 501 for an operation that is implemented, no 500 of the layer or of Recoverer
\* without an error or a panic, no 504 but for a panic after the deadline
\* (oas_handlers_gen.go, main.go).
THEOREM FailuresCaused == Spec => []FailuresHaveCause
<1>1. ASSUME IInv, LInv
      PROVE  FailuresHaveCause
  <2> SUFFICES ASSUME pc = "done" PROVE FailuresHaveCause
    BY DEF FailuresHaveCause
  <2>1. PICK res : res = written[1]
    OBVIOUS
  <2>2. written # <<>>
    BY <1>1 DEF IInv, WrittenSoFar
  <2>3. /\ res \in Response
        /\ res.by = "handler" => res.status # 501
        /\ res.by = "router" => res.status \in {404, 405, 204}
        /\ res.by = "recoverer" => res.status = 500 /\ ~overdue
        /\ res.by = "timeout" => res.status = 504
    BY <1>1, <2>1, <2>2 DEF LInv, Answered
  <2>4. /\ res.status = 501 /\ res.by = "layer" => op \notin implemented
        /\ res.status = 500 /\ res.by = "layer" => failed = "error"
        /\ res.by = "recoverer" => failed = "panic"
        /\ res.by = "timeout" => failed = "panic" /\ overdue
    BY <1>1, <2>1, <2>2 DEF IInv, WrittenSoFar
  <2>5. res.by \in {"router", "layer", "handler", "timeout", "recoverer"}
    BY <2>3 DEF Response
  <2>q. QED
    BY <2>1, <2>3, <2>4, <2>5 DEF FailuresHaveCause
<1>q. QED
  BY <1>1, RequestsAreFound, PTL

-----------------------------------------------------------------------------
(* What is turned away.                                                    *)

\* Where the router takes the request.
Taken == ServeHTTP(request.method, request.path)

\* It takes it to the operation that is being served.
TakenHere == Taken.kind = "operation" /\ Taken.op = op /\ Taken.args = args

\* The request has passed every check.
Accepted ==
  /\ Satisfied(op, request)
  /\ Decodes(Operation[op].params, args, request.bad)
  /\ request.body \in Operation[op].body

\* The router answers what it has found no operation for, the layer refuses what lacks
\* something, and a handler answers what its operation's encoder has.  Only the router
\* writes a text without one.
Turned ==
  /\ pc \in {"security", "params", "body", "handle"} => TakenHere
  /\ written # <<>> =>
       LET res == written[1] IN
       /\ res.by = "router" => \/ Taken = NotFound /\ res.body = "text"
                               \/ Taken = NotAllowed /\ res.body = "empty"
       /\ res.by = "layer" => res.body = "json"
       /\ res.by = "layer" /\ res.status < 500 => TakenHere /\ ~Accepted
       /\ res.by = "handler" =>
            \E r \in Operation[op].response : res.status = r.status /\ res.body = r.body
       /\ res.by \in {"timeout", "recoverer"} => res.body = "empty"

LEMMA TakenStays ==
  ASSUME UNCHANGED <<request, op, args>>
  PROVE  (TakenHere' <=> TakenHere) /\ (Accepted' <=> Accepted) /\ Taken' = Taken
BY DEF TakenHere, Taken, Accepted, Satisfied, BearerAuth, CookieAuth

LEMMA RouteTurns ==
  ASSUME IInv, Turned, Route
  PROVE  Turned'
<1>1. /\ pc = "route" /\ written = <<>>
      /\ UNCHANGED <<implemented, request, overdue, failed>>
  BY DEF Route, IInv, WrittenSoFar, Computing
<1>2. PICK to : to = Taken
  OBVIOUS
<1>3. Taken' = to
  BY <1>1, <1>2 DEF Taken
<1>4. CASE to.kind = "operation" /\ op' = to.op /\ args' = to.args /\ GoTo("security")
  <2>1. TakenHere'
    BY <1>3, <1>4 DEF TakenHere
  <2>2. written' = <<>>
    BY <1>1, <1>4 DEF GoTo
  <2>q. QED
    BY <2>1, <2>2 DEF Turned
<1>5. CASE to = NotFound /\ WriteHeader(404, "text", "router") /\ pc' = "return"
  <2>1. written' # <<>> /\ written'[1].by = "router" /\ written'[1].body = "text"
    BY <1>1, <1>5 DEF WriteHeader
  <2>q. QED
    BY <1>3, <1>5, <2>1 DEF Turned
<1>6. CASE to = NotAllowed /\ MethodNotAllowed /\ pc' = "return"
  <2>1. written' # <<>> /\ written'[1].by = "router" /\ written'[1].body = "empty"
    BY <1>1, <1>6 DEF MethodNotAllowed, WriteHeader
  <2>q. QED
    BY <1>3, <1>6, <2>1 DEF Turned
<1>q. QED
  BY <1>2, <1>4, <1>5, <1>6 DEF Route, Taken

LEMMA RefusalTurns ==
  ASSUME written = <<>>, NEW s, Refuse(s), UNCHANGED <<request, op, args>>,
         s >= 500 \/ (TakenHere /\ ~Accepted), s \in 400..501
  PROVE  Turned'
<1>1. PICK res : res = written'[1]
  OBVIOUS
<1>2. /\ written' # <<>> /\ res.by = "layer" /\ res.body = "json" /\ res.status = s
      /\ pc' = "return"
  BY <1>1 DEF Refuse, WriteHeader
<1>3. res.status < 500 => TakenHere' /\ ~Accepted'
  BY <1>2, TakenStays
<1>q. QED
  BY <1>1, <1>2, <1>3 DEF Turned

LEMMA ChecksTurn ==
  ASSUME IInv, Turned, Security \/ DecodeParams \/ DecodeRequest
  PROVE  Turned'
<1>1. /\ pc \in {"security", "params", "body"} /\ written = <<>>
      /\ UNCHANGED <<request, op, args>>
  BY DEF Security, DecodeParams, DecodeRequest, IInv, WrittenSoFar, Computing
<1>2. TakenHere
  BY <1>1 DEF Turned
<1>3. CASE (\E s \in {400, 401, 415} : Refuse(s)) /\ ~Accepted
  <2>1. PICK s \in {400, 401, 415} : Refuse(s)
    BY <1>3
  <2>2. s \in 400..501
    BY <2>1
  <2>q. QED
    BY <1>1, <1>2, <1>3, <2>1, <2>2, RefusalTurns
<1>4. CASE UNCHANGED written
  BY <1>1, <1>2, <1>4, TakenStays DEF Turned
<1>q. QED
  BY <1>3, <1>4 DEF Security, DecodeParams, DecodeRequest, GoTo, DecodeStatus, Accepted

LEMMA HandlerTurns ==
  ASSUME IInv, Turned, NotImplemented \/ HandlerEnds
  PROVE  Turned'
<1>1. pc = "handle" /\ written = <<>> /\ UNCHANGED <<request, op, args>>
  BY DEF NotImplemented, HandlerEnds, Respond, HandlerFails, Panic, IInv, WrittenSoFar,
    Computing
<1>2. CASE NotImplemented \/ HandlerFails
  BY <1>1, <1>2, RefusalTurns DEF NotImplemented, HandlerFails
<1>3. CASE Respond
  <2>1. PICK res \in Operation[op].response : WriteHeader(res.status, res.body, "handler")
    BY <1>3 DEF Respond
  <2>2. /\ written' # <<>> /\ written'[1].by = "handler"
        /\ written'[1].status = res.status /\ written'[1].body = res.body
    BY <1>1, <2>1 DEF WriteHeader
  <2>3. pc' = "return" /\ op' = op
    BY <1>1, <1>3 DEF Respond
  <2>q. QED
    BY <2>1, <2>2, <2>3 DEF Turned
<1>4. CASE Panic
  BY <1>1, <1>4 DEF Panic, GoTo, Turned
<1>q. QED
  BY <1>2, <1>3, <1>4 DEF HandlerEnds

LEMMA MiddlewareTurns ==
  ASSUME IInv, Turned, Deadline \/ Return \/ Unwind
  PROVE  Turned'
<1>1. UNCHANGED <<request, op, args>>
  BY DEF Deadline, Return, Unwind
<1>2. CASE Deadline \/ Return
  <2>1. UNCHANGED written
    BY <1>2 DEF Deadline, Return, WriteHeader, IInv, WrittenSoFar
  <2>2. pc' = pc \/ pc' = "done"
    BY <1>2 DEF Deadline, Return
  <2>q. QED
    BY <1>1, <2>1, <2>2, TakenStays DEF Turned
<1>3. CASE Unwind
  <2>1. written = <<>> /\ pc' = "done"
    BY <1>3 DEF Unwind, IInv, WrittenSoFar, Computing
  <2>2. /\ written' # <<>> /\ written'[1].by \in {"timeout", "recoverer"}
        /\ written'[1].body = "empty"
    BY <1>3, <2>1 DEF Unwind, WriteHeader
  <2>q. QED
    BY <2>1, <2>2 DEF Turned
<1>q. QED
  BY <1>2, <1>3

LEMMA NextTurns ==
  ASSUME IInv, Turned, [Next]_vars
  PROVE  Turned'
<1>1. CASE UNCHANGED api
  BY <1>1, TakenStays DEF api, progress, Turned
<1>2. CASE ApiNext
  BY <1>2, RouteTurns, ChecksTurn, HandlerTurns, MiddlewareTurns DEF ApiNext
<1>3. CASE \E r : Arrive(r)
  <2>1. pc' = "route" /\ written' = <<>>
    BY <1>3 DEF Arrive, IInv, WrittenSoFar
  <2>q. QED
    BY <2>1 DEF Turned
<1>4. CASE NextRequest
  BY <1>4 DEF NextRequest, Turned
<1>q. QED
  BY <1>1, <1>2, <1>3, <1>4 DEF Next, Call, Fetch, Forward, TryFiles, ProxyFails, Relay,
    Receive, Abort, NetworkFails, Settle, Other, Again, vars

\* What is turned away is inductive with what is found.
THEOREM RequestsAreTurned == Spec => [](IInv /\ (Given /\ LInv) /\ Turned)
<1>1. Init => Turned
  BY DEF Init, ApiInit, Turned
<1>2. IInv /\ Turned /\ [Next]_vars => Turned'
  BY NextTurns
<1>q. QED
  BY <1>1, <1>2, RequestsAreFound, PTL DEF Spec

-----------------------------------------------------------------------------
\* A request that means an operation is taken to it, with what stands in its path.
LEMMA MeansTaken ==
  ASSUME NEW r, NEW o \in DOMAIN Operation, Means(r, o),
         NEW values, values = Values(Operation[o].route, Pieces(r.path))
  PROVE  \/ ServeHTTP(r.method, r.path) = To(o, values)
         \/ Shadowed(r) /\ ServeHTTP(r.method, r.path) = To(o, << <<>> >>)
<1>1. PICK route, n : route = Operation[o].route /\ n = Arity(o)
  OBVIOUS
<1>2. n \in 0..3
  BY <1>1, AllComplete DEF Complete
<1>3. /\ r.method = Operation[o].method /\ r.path = Filled(route, values)
      /\ \A i \in DOMAIN values : IsValue(values[i])
  BY <1>1 DEF Means
<1>4. DOMAIN values = 1..n /\ values = [i \in 1..n |-> values[i]]
  BY <1>1 DEF Values, Arity
<1>5. \A i \in 1..n : IsSegment(values[i])
  BY <1>3, <1>4, ValueIsSegment
<1>6. Fits(values, n)
  <2>1. \A i \in 1..n : values[i] \in Seq(Token)
    BY <1>5 DEF IsSegment
  <2>2. values \in [1..n -> Seq(Token)]
    BY <1>4, <2>1
  <2>3. values \in Seq(Seq(Token)) /\ Len(values) = n
    BY <1>2, <2>2
  <2>q. QED
    BY <1>5, <2>3 DEF Fits
<1>q. QED
  BY <1>1, <1>3, <1>6, RouterIsComplete DEF Shadowed, Nobody

\* No request that means an operation, and has what the operation demands, is turned away
\* by the router or by a check of the layer, whatever the operation, the values in its
\* path and the other operations: 404, 405 and 204 of oas_router_gen.go, 401, 400 and 415
\* of oas_handlers_gen.go.  The one exception is v1/users/me as a {user}.
THEOREM RefusalsCaused == Spec => []RefusalsHaveCause
<1>1. ASSUME IInv, Given, LInv, Turned
      PROVE  RefusalsHaveCause
  <2>1. PICK res : res = written[1]
    OBVIOUS
  <2> SUFFICES ASSUME pc = "done", res.by \in {"router", "layer"}, res.status < 500,
                      NEW o \in DOMAIN Operation, Conforms(request, o), ~Shadowed(request)
               PROVE  FALSE
    BY <2>1 DEF RefusalsHaveCause
  <2>2. written # <<>>
    BY <1>1 DEF IInv, WrittenSoFar
  <2>3. PICK values : values = Values(Operation[o].route, Pieces(request.path))
    OBVIOUS
  <2>4. Taken = To(o, values)
    BY <2>3, MeansTaken DEF Conforms, Taken
  <2>5. Taken.kind = "operation" /\ Taken.op = o /\ Taken.args = values
    BY <2>4 DEF To
  <2>6. CASE res.by = "router"
    <3>1. Taken = NotFound \/ Taken = NotAllowed
      BY <1>1, <2>1, <2>2, <2>6 DEF Turned
    <3>q. QED
      BY <2>5, <3>1 DEF NotFound, NotAllowed
  <2>7. CASE res.by = "layer"
    <3>1. TakenHere /\ ~Accepted
      BY <1>1, <2>1, <2>2, <2>7 DEF Turned
    <3>2. op = o /\ args = values
      BY <2>5, <3>1 DEF TakenHere
    <3>3. Satisfied(op, request)
      <4>1. request.cred \subseteq {"bearer", "cookie"}
        BY <1>1 DEF Given
      <4>2. Operation[op].security = Secured => request.cred # {}
        BY <3>2 DEF Conforms
      <4>q. QED
        BY <4>1, <4>2 DEF Satisfied, BearerAuth, CookieAuth
    <3>4. Decodes(Operation[op].params, args, request.bad)
      <4>1. Valid(op, args, request.bad)
        BY <2>3, <3>2 DEF Conforms
      <4>q. QED
        BY <4>1 DEF Valid, Decodes
    <3>5. request.body \in Operation[op].body
      BY <3>2 DEF Conforms
    <3>q. QED
      BY <3>1, <3>3, <3>4, <3>5 DEF Accepted
  <2>q. QED
    BY <2>6, <2>7
<1>q. QED
  BY <1>1, RequestsAreTurned, PTL

-----------------------------------------------------------------------------
(* What the encoders write is JSON, or nothing, but for a few.             *)

\* What most operations answer with.
Plain == [status : 200..504, body : {"json", "empty"}]

\* The encoders of JSON and of nothing, and that of an error.
LEMMA PlainIs ==
  /\ \A S : S \subseteq 200..504 => JsonOf(S) \subseteq Plain /\ Empty(S) \subseteq Plain
  /\ Default \subseteq Plain
<1>1. \A S : S \subseteq 200..504 => JsonOf(S) \subseteq Plain /\ Empty(S) \subseteq Plain
  BY DEF JsonOf, Empty, Plain
<1>2. {DefaultCode(c) : c \in {0, 400, 500}} \subseteq 200..504
  BY DEF DefaultCode
<1>q. QED
  BY <1>1, <1>2 DEF Default

\* The operations whose responses are not JSON.
Probes  == {"Healthz", "Readyz"}
Exports == {"DownloadExportTask", "ExportAuditLogs", "SqlExport"}

\* A text comes of a probe only, and a file only of an export that succeeds.
LEMMA ResponsesAre ==
  ASSUME NEW o \in DOMAIN Operation, NEW r \in Operation[o].response
  PROVE  /\ r.body = "text" => o \in Probes
         /\ r.body = "bytes" => o \in Exports /\ r.status = 200
<1>1. ASSUME NEW x \in {"AddGroupMember", "AuthCsrf", "AuthLogin", "AuthLogout",
                        "AuthPasswordResetConfirm", "AuthPasswordResetRequest",
                        "AuthRefresh", "ChangeMyPassword", "CreateDataSource",
                        "CreateEnvironment", "CreateExportTask"}
      PROVE  Operation[x].response \subseteq Plain
  <2>1. /\ Operation["AddGroupMember"] = AddGroupMember
        /\ Operation["AuthCsrf"] = AuthCsrf
        /\ Operation["AuthLogin"] = AuthLogin
        /\ Operation["AuthLogout"] = AuthLogout
        /\ Operation["AuthPasswordResetConfirm"] = AuthPasswordResetConfirm
        /\ Operation["AuthPasswordResetRequest"] = AuthPasswordResetRequest
        /\ Operation["AuthRefresh"] = AuthRefresh
        /\ Operation["ChangeMyPassword"] = ChangeMyPassword
        /\ Operation["CreateDataSource"] = CreateDataSource
        /\ Operation["CreateEnvironment"] = CreateEnvironment
        /\ Operation["CreateExportTask"] = CreateExportTask
    BY DEF Operation
  <2>2. /\ AddGroupMember.response = AddGroupMemberResponse
        /\ AuthCsrf.response = AuthCsrfResponse
        /\ AuthLogin.response = AuthLoginResponse
        /\ AuthLogout.response = AuthLogoutResponse
        /\ AuthPasswordResetConfirm.response = AuthPasswordResetConfirmResponse
        /\ AuthPasswordResetRequest.response = AuthPasswordResetRequestResponse
        /\ AuthRefresh.response = AuthRefreshResponse
        /\ ChangeMyPassword.response = ChangeMyPasswordResponse
        /\ CreateDataSource.response = CreateDataSourceResponse
        /\ CreateEnvironment.response = CreateEnvironmentResponse
        /\ CreateExportTask.response = CreateExportTaskResponse
    BY DEF Handler,
      AddGroupMember, AuthCsrf, AuthLogin, AuthLogout, AuthPasswordResetConfirm,
      AuthPasswordResetRequest, AuthRefresh, ChangeMyPassword, CreateDataSource,
      CreateEnvironment, CreateExportTask
  <2>3. /\ AddGroupMemberResponse \subseteq Plain
        /\ AuthCsrfResponse \subseteq Plain
        /\ AuthLoginResponse \subseteq Plain
        /\ AuthLogoutResponse \subseteq Plain
        /\ AuthPasswordResetConfirmResponse \subseteq Plain
        /\ AuthPasswordResetRequestResponse \subseteq Plain
        /\ AuthRefreshResponse \subseteq Plain
        /\ ChangeMyPasswordResponse \subseteq Plain
        /\ CreateDataSourceResponse \subseteq Plain
        /\ CreateEnvironmentResponse \subseteq Plain
        /\ CreateExportTaskResponse \subseteq Plain
    BY PlainIs DEF
      AddGroupMemberResponse, AuthCsrfResponse, AuthLoginResponse, AuthLogoutResponse,
      AuthPasswordResetConfirmResponse, AuthPasswordResetRequestResponse,
      AuthRefreshResponse, ChangeMyPasswordResponse, CreateDataSourceResponse,
      CreateEnvironmentResponse, CreateExportTaskResponse
  <2>q. QED
    BY <1>1, <2>1, <2>2, <2>3
<1>2. ASSUME NEW x \in {"CreateGroup", "CreateIdentityProvider", "CreateInstance",
                        "CreateProject", "CreateUser", "CreateWorksheet",
                        "DeleteDataSource", "DeleteEnvironment", "DeleteGroup",
                        "DeleteIdentityProvider", "DeleteInstance"}
      PROVE  Operation[x].response \subseteq Plain
  <2>1. /\ Operation["CreateGroup"] = CreateGroup
        /\ Operation["CreateIdentityProvider"] = CreateIdentityProvider
        /\ Operation["CreateInstance"] = CreateInstance
        /\ Operation["CreateProject"] = CreateProject
        /\ Operation["CreateUser"] = CreateUser
        /\ Operation["CreateWorksheet"] = CreateWorksheet
        /\ Operation["DeleteDataSource"] = DeleteDataSource
        /\ Operation["DeleteEnvironment"] = DeleteEnvironment
        /\ Operation["DeleteGroup"] = DeleteGroup
        /\ Operation["DeleteIdentityProvider"] = DeleteIdentityProvider
        /\ Operation["DeleteInstance"] = DeleteInstance
    BY DEF Operation
  <2>2. /\ CreateGroup.response = CreateGroupResponse
        /\ CreateIdentityProvider.response = CreateIdentityProviderResponse
        /\ CreateInstance.response = CreateInstanceResponse
        /\ CreateProject.response = CreateProjectResponse
        /\ CreateUser.response = CreateUserResponse
        /\ CreateWorksheet.response = CreateWorksheetResponse
        /\ DeleteDataSource.response = DeleteDataSourceResponse
        /\ DeleteEnvironment.response = DeleteEnvironmentResponse
        /\ DeleteGroup.response = DeleteGroupResponse
        /\ DeleteIdentityProvider.response = DeleteIdentityProviderResponse
        /\ DeleteInstance.response = DeleteInstanceResponse
    BY DEF Handler,
      CreateGroup, CreateIdentityProvider, CreateInstance, CreateProject, CreateUser,
      CreateWorksheet, DeleteDataSource, DeleteEnvironment, DeleteGroup,
      DeleteIdentityProvider, DeleteInstance
  <2>3. /\ CreateGroupResponse \subseteq Plain
        /\ CreateIdentityProviderResponse \subseteq Plain
        /\ CreateInstanceResponse \subseteq Plain
        /\ CreateProjectResponse \subseteq Plain
        /\ CreateUserResponse \subseteq Plain
        /\ CreateWorksheetResponse \subseteq Plain
        /\ DeleteDataSourceResponse \subseteq Plain
        /\ DeleteEnvironmentResponse \subseteq Plain
        /\ DeleteGroupResponse \subseteq Plain
        /\ DeleteIdentityProviderResponse \subseteq Plain
        /\ DeleteInstanceResponse \subseteq Plain
    BY PlainIs DEF
      CreateGroupResponse, CreateIdentityProviderResponse, CreateInstanceResponse,
      CreateProjectResponse, CreateUserResponse, CreateWorksheetResponse,
      DeleteDataSourceResponse, DeleteEnvironmentResponse, DeleteGroupResponse,
      DeleteIdentityProviderResponse, DeleteInstanceResponse
  <2>q. QED
    BY <1>2, <2>1, <2>2, <2>3
<1>3. ASSUME NEW x \in {"DeleteProject", "DeleteUser", "DeleteWorksheet",
                        "FavoriteWorksheet", "GetDatabase", "GetEnvironmentPolicy",
                        "GetExportTask", "GetGroup", "GetIamPolicy",
                        "GetIdentityProvider", "GetInstance"}
      PROVE  Operation[x].response \subseteq Plain
  <2>1. /\ Operation["DeleteProject"] = DeleteProject
        /\ Operation["DeleteUser"] = DeleteUser
        /\ Operation["DeleteWorksheet"] = DeleteWorksheet
        /\ Operation["FavoriteWorksheet"] = FavoriteWorksheet
        /\ Operation["GetDatabase"] = GetDatabase
        /\ Operation["GetEnvironmentPolicy"] = GetEnvironmentPolicy
        /\ Operation["GetExportTask"] = GetExportTask
        /\ Operation["GetGroup"] = GetGroup
        /\ Operation["GetIamPolicy"] = GetIamPolicy
        /\ Operation["GetIdentityProvider"] = GetIdentityProvider
        /\ Operation["GetInstance"] = GetInstance
    BY DEF Operation
  <2>2. /\ DeleteProject.response = DeleteProjectResponse
        /\ DeleteUser.response = DeleteUserResponse
        /\ DeleteWorksheet.response = DeleteWorksheetResponse
        /\ FavoriteWorksheet.response = FavoriteWorksheetResponse
        /\ GetDatabase.response = GetDatabaseResponse
        /\ GetEnvironmentPolicy.response = GetEnvironmentPolicyResponse
        /\ GetExportTask.response = GetExportTaskResponse
        /\ GetGroup.response = GetGroupResponse
        /\ GetIamPolicy.response = GetIamPolicyResponse
        /\ GetIdentityProvider.response = GetIdentityProviderResponse
        /\ GetInstance.response = GetInstanceResponse
    BY DEF Handler,
      DeleteProject, DeleteUser, DeleteWorksheet, FavoriteWorksheet, GetDatabase,
      GetEnvironmentPolicy, GetExportTask, GetGroup, GetIamPolicy, GetIdentityProvider,
      GetInstance
  <2>3. /\ DeleteProjectResponse \subseteq Plain
        /\ DeleteUserResponse \subseteq Plain
        /\ DeleteWorksheetResponse \subseteq Plain
        /\ FavoriteWorksheetResponse \subseteq Plain
        /\ GetDatabaseResponse \subseteq Plain
        /\ GetEnvironmentPolicyResponse \subseteq Plain
        /\ GetExportTaskResponse \subseteq Plain
        /\ GetGroupResponse \subseteq Plain
        /\ GetIamPolicyResponse \subseteq Plain
        /\ GetIdentityProviderResponse \subseteq Plain
        /\ GetInstanceResponse \subseteq Plain
    BY PlainIs DEF
      DeleteProjectResponse, DeleteUserResponse, DeleteWorksheetResponse,
      FavoriteWorksheetResponse, GetDatabaseResponse, GetEnvironmentPolicyResponse,
      GetExportTaskResponse, GetGroupResponse, GetIamPolicyResponse,
      GetIdentityProviderResponse, GetInstanceResponse
  <2>q. QED
    BY <1>3, <2>1, <2>2, <2>3
<1>4. ASSUME NEW x \in {"GetProject", "GetSetting", "GetUnreadNotificationCount",
                        "GetUser", "GetWorksheet", "ListDatabases", "ListEnvironments",
                        "ListExportTasks", "ListGroupMembers", "ListGroups",
                        "ListIdentityProviders"}
      PROVE  Operation[x].response \subseteq Plain
  <2>1. /\ Operation["GetProject"] = GetProject
        /\ Operation["GetSetting"] = GetSetting
        /\ Operation["GetUnreadNotificationCount"] = GetUnreadNotificationCount
        /\ Operation["GetUser"] = GetUser
        /\ Operation["GetWorksheet"] = GetWorksheet
        /\ Operation["ListDatabases"] = ListDatabases
        /\ Operation["ListEnvironments"] = ListEnvironments
        /\ Operation["ListExportTasks"] = ListExportTasks
        /\ Operation["ListGroupMembers"] = ListGroupMembers
        /\ Operation["ListGroups"] = ListGroups
        /\ Operation["ListIdentityProviders"] = ListIdentityProviders
    BY DEF Operation
  <2>2. /\ GetProject.response = GetProjectResponse
        /\ GetSetting.response = GetSettingResponse
        /\ GetUnreadNotificationCount.response = GetUnreadNotificationCountResponse
        /\ GetUser.response = GetUserResponse
        /\ GetWorksheet.response = GetWorksheetResponse
        /\ ListDatabases.response = ListDatabasesResponse
        /\ ListEnvironments.response = ListEnvironmentsResponse
        /\ ListExportTasks.response = ListExportTasksResponse
        /\ ListGroupMembers.response = ListGroupMembersResponse
        /\ ListGroups.response = ListGroupsResponse
        /\ ListIdentityProviders.response = ListIdentityProvidersResponse
    BY DEF Handler,
      GetProject, GetSetting, GetUnreadNotificationCount, GetUser, GetWorksheet,
      ListDatabases, ListEnvironments, ListExportTasks, ListGroupMembers, ListGroups,
      ListIdentityProviders
  <2>3. /\ GetProjectResponse \subseteq Plain
        /\ GetSettingResponse \subseteq Plain
        /\ GetUnreadNotificationCountResponse \subseteq Plain
        /\ GetUserResponse \subseteq Plain
        /\ GetWorksheetResponse \subseteq Plain
        /\ ListDatabasesResponse \subseteq Plain
        /\ ListEnvironmentsResponse \subseteq Plain
        /\ ListExportTasksResponse \subseteq Plain
        /\ ListGroupMembersResponse \subseteq Plain
        /\ ListGroupsResponse \subseteq Plain
        /\ ListIdentityProvidersResponse \subseteq Plain
    BY PlainIs DEF
      GetProjectResponse, GetSettingResponse, GetUnreadNotificationCountResponse,
      GetUserResponse, GetWorksheetResponse, ListDatabasesResponse,
      ListEnvironmentsResponse, ListExportTasksResponse, ListGroupMembersResponse,
      ListGroupsResponse, ListIdentityProvidersResponse
  <2>q. QED
    BY <1>4, <2>1, <2>2, <2>3
<1>5. ASSUME NEW x \in {"ListInstances", "ListMyFavorites", "ListMyNotifications",
                        "ListProjects", "ListUsers", "MarkAllNotificationsRead",
                        "MarkNotificationRead", "QueryHistoriesSearch",
                        "RegenerateMyMfa", "RemoveGroupMember", "SearchAuditLogs"}
      PROVE  Operation[x].response \subseteq Plain
  <2>1. /\ Operation["ListInstances"] = ListInstances
        /\ Operation["ListMyFavorites"] = ListMyFavorites
        /\ Operation["ListMyNotifications"] = ListMyNotifications
        /\ Operation["ListProjects"] = ListProjects
        /\ Operation["ListUsers"] = ListUsers
        /\ Operation["MarkAllNotificationsRead"] = MarkAllNotificationsRead
        /\ Operation["MarkNotificationRead"] = MarkNotificationRead
        /\ Operation["QueryHistoriesSearch"] = QueryHistoriesSearch
        /\ Operation["RegenerateMyMfa"] = RegenerateMyMfa
        /\ Operation["RemoveGroupMember"] = RemoveGroupMember
        /\ Operation["SearchAuditLogs"] = SearchAuditLogs
    BY DEF Operation
  <2>2. /\ ListInstances.response = ListInstancesResponse
        /\ ListMyFavorites.response = ListMyFavoritesResponse
        /\ ListMyNotifications.response = ListMyNotificationsResponse
        /\ ListProjects.response = ListProjectsResponse
        /\ ListUsers.response = ListUsersResponse
        /\ MarkAllNotificationsRead.response = MarkAllNotificationsReadResponse
        /\ MarkNotificationRead.response = MarkNotificationReadResponse
        /\ QueryHistoriesSearch.response = QueryHistoriesSearchResponse
        /\ RegenerateMyMfa.response = RegenerateMyMfaResponse
        /\ RemoveGroupMember.response = RemoveGroupMemberResponse
        /\ SearchAuditLogs.response = SearchAuditLogsResponse
    BY DEF Handler,
      ListInstances, ListMyFavorites, ListMyNotifications, ListProjects, ListUsers,
      MarkAllNotificationsRead, MarkNotificationRead, QueryHistoriesSearch,
      RegenerateMyMfa, RemoveGroupMember, SearchAuditLogs
  <2>3. /\ ListInstancesResponse \subseteq Plain
        /\ ListMyFavoritesResponse \subseteq Plain
        /\ ListMyNotificationsResponse \subseteq Plain
        /\ ListProjectsResponse \subseteq Plain
        /\ ListUsersResponse \subseteq Plain
        /\ MarkAllNotificationsReadResponse \subseteq Plain
        /\ MarkNotificationReadResponse \subseteq Plain
        /\ QueryHistoriesSearchResponse \subseteq Plain
        /\ RegenerateMyMfaResponse \subseteq Plain
        /\ RemoveGroupMemberResponse \subseteq Plain
        /\ SearchAuditLogsResponse \subseteq Plain
    BY PlainIs DEF
      ListInstancesResponse, ListMyFavoritesResponse, ListMyNotificationsResponse,
      ListProjectsResponse, ListUsersResponse, MarkAllNotificationsReadResponse,
      MarkNotificationReadResponse, QueryHistoriesSearchResponse,
      RegenerateMyMfaResponse, RemoveGroupMemberResponse, SearchAuditLogsResponse
  <2>q. QED
    BY <1>5, <2>1, <2>2, <2>3
<1>6. ASSUME NEW x \in {"SearchWorksheets", "SetIamPolicy", "SqlQuery",
                        "SyncDatabaseSchema", "SyncInstance", "TestIamPermissions",
                        "TestIdentityProvider", "TestInstanceConnection",
                        "UndeleteProject", "UndeleteUser", "UnfavoriteWorksheet"}
      PROVE  Operation[x].response \subseteq Plain
  <2>1. /\ Operation["SearchWorksheets"] = SearchWorksheets
        /\ Operation["SetIamPolicy"] = SetIamPolicy
        /\ Operation["SqlQuery"] = SqlQuery
        /\ Operation["SyncDatabaseSchema"] = SyncDatabaseSchema
        /\ Operation["SyncInstance"] = SyncInstance
        /\ Operation["TestIamPermissions"] = TestIamPermissions
        /\ Operation["TestIdentityProvider"] = TestIdentityProvider
        /\ Operation["TestInstanceConnection"] = TestInstanceConnection
        /\ Operation["UndeleteProject"] = UndeleteProject
        /\ Operation["UndeleteUser"] = UndeleteUser
        /\ Operation["UnfavoriteWorksheet"] = UnfavoriteWorksheet
    BY DEF Operation
  <2>2. /\ SearchWorksheets.response = SearchWorksheetsResponse
        /\ SetIamPolicy.response = SetIamPolicyResponse
        /\ SqlQuery.response = SqlQueryResponse
        /\ SyncDatabaseSchema.response = SyncDatabaseSchemaResponse
        /\ SyncInstance.response = SyncInstanceResponse
        /\ TestIamPermissions.response = TestIamPermissionsResponse
        /\ TestIdentityProvider.response = TestIdentityProviderResponse
        /\ TestInstanceConnection.response = TestInstanceConnectionResponse
        /\ UndeleteProject.response = UndeleteProjectResponse
        /\ UndeleteUser.response = UndeleteUserResponse
        /\ UnfavoriteWorksheet.response = UnfavoriteWorksheetResponse
    BY DEF Handler,
      SearchWorksheets, SetIamPolicy, SqlQuery, SyncDatabaseSchema, SyncInstance,
      TestIamPermissions, TestIdentityProvider, TestInstanceConnection, UndeleteProject,
      UndeleteUser, UnfavoriteWorksheet
  <2>3. /\ SearchWorksheetsResponse \subseteq Plain
        /\ SetIamPolicyResponse \subseteq Plain
        /\ SqlQueryResponse \subseteq Plain
        /\ SyncDatabaseSchemaResponse \subseteq Plain
        /\ SyncInstanceResponse \subseteq Plain
        /\ TestIamPermissionsResponse \subseteq Plain
        /\ TestIdentityProviderResponse \subseteq Plain
        /\ TestInstanceConnectionResponse \subseteq Plain
        /\ UndeleteProjectResponse \subseteq Plain
        /\ UndeleteUserResponse \subseteq Plain
        /\ UnfavoriteWorksheetResponse \subseteq Plain
    BY PlainIs DEF
      SearchWorksheetsResponse, SetIamPolicyResponse, SqlQueryResponse,
      SyncDatabaseSchemaResponse, SyncInstanceResponse, TestIamPermissionsResponse,
      TestIdentityProviderResponse, TestInstanceConnectionResponse,
      UndeleteProjectResponse, UndeleteUserResponse, UnfavoriteWorksheetResponse
  <2>q. QED
    BY <1>6, <2>1, <2>2, <2>3
<1>7. ASSUME NEW x \in {"UpdateDataSource", "UpdateDatabase", "UpdateEnvironment",
                        "UpdateEnvironmentPolicy", "UpdateGroup",
                        "UpdateIdentityProvider", "UpdateInstance", "UpdateProject",
                        "UpdateSetting", "UpdateUser", "UpdateWorksheet"}
      PROVE  Operation[x].response \subseteq Plain
  <2>1. /\ Operation["UpdateDataSource"] = UpdateDataSource
        /\ Operation["UpdateDatabase"] = UpdateDatabase
        /\ Operation["UpdateEnvironment"] = UpdateEnvironment
        /\ Operation["UpdateEnvironmentPolicy"] = UpdateEnvironmentPolicy
        /\ Operation["UpdateGroup"] = UpdateGroup
        /\ Operation["UpdateIdentityProvider"] = UpdateIdentityProvider
        /\ Operation["UpdateInstance"] = UpdateInstance
        /\ Operation["UpdateProject"] = UpdateProject
        /\ Operation["UpdateSetting"] = UpdateSetting
        /\ Operation["UpdateUser"] = UpdateUser
        /\ Operation["UpdateWorksheet"] = UpdateWorksheet
    BY DEF Operation
  <2>2. /\ UpdateDataSource.response = UpdateDataSourceResponse
        /\ UpdateDatabase.response = UpdateDatabaseResponse
        /\ UpdateEnvironment.response = UpdateEnvironmentResponse
        /\ UpdateEnvironmentPolicy.response = UpdateEnvironmentPolicyResponse
        /\ UpdateGroup.response = UpdateGroupResponse
        /\ UpdateIdentityProvider.response = UpdateIdentityProviderResponse
        /\ UpdateInstance.response = UpdateInstanceResponse
        /\ UpdateProject.response = UpdateProjectResponse
        /\ UpdateSetting.response = UpdateSettingResponse
        /\ UpdateUser.response = UpdateUserResponse
        /\ UpdateWorksheet.response = UpdateWorksheetResponse
    BY DEF Handler,
      UpdateDataSource, UpdateDatabase, UpdateEnvironment, UpdateEnvironmentPolicy,
      UpdateGroup, UpdateIdentityProvider, UpdateInstance, UpdateProject, UpdateSetting,
      UpdateUser, UpdateWorksheet
  <2>3. /\ UpdateDataSourceResponse \subseteq Plain
        /\ UpdateDatabaseResponse \subseteq Plain
        /\ UpdateEnvironmentResponse \subseteq Plain
        /\ UpdateEnvironmentPolicyResponse \subseteq Plain
        /\ UpdateGroupResponse \subseteq Plain
        /\ UpdateIdentityProviderResponse \subseteq Plain
        /\ UpdateInstanceResponse \subseteq Plain
        /\ UpdateProjectResponse \subseteq Plain
        /\ UpdateSettingResponse \subseteq Plain
        /\ UpdateUserResponse \subseteq Plain
        /\ UpdateWorksheetResponse \subseteq Plain
    BY PlainIs DEF
      UpdateDataSourceResponse, UpdateDatabaseResponse, UpdateEnvironmentResponse,
      UpdateEnvironmentPolicyResponse, UpdateGroupResponse,
      UpdateIdentityProviderResponse, UpdateInstanceResponse, UpdateProjectResponse,
      UpdateSettingResponse, UpdateUserResponse, UpdateWorksheetResponse
  <2>q. QED
    BY <1>7, <2>1, <2>2, <2>3
<1>8. ASSUME o \in Exports
      PROVE  r \in Plain \/ (r.body = "bytes" /\ r.status = 200)
  <2>1. /\ Operation["DownloadExportTask"] = DownloadExportTask
        /\ Operation["ExportAuditLogs"] = ExportAuditLogs
        /\ Operation["SqlExport"] = SqlExport
    BY DEF Operation
  <2>2. /\ DownloadExportTask.response = DownloadExportTaskResponse
        /\ ExportAuditLogs.response = ExportAuditLogsResponse
        /\ SqlExport.response = SqlExportResponse
    BY DEF Handler, DownloadExportTask, ExportAuditLogs, SqlExport
  <2>3. \A x : x \in Bytes({200}) => x.body = "bytes" /\ x.status = 200
    BY DEF Bytes
  <2>4. \A S : S \subseteq 200..504 => JsonOf(S) \subseteq Plain
    BY PlainIs
  <2>5. r \in Bytes({200}) \cup JsonOf({403, 404}) \cup JsonOf({403})
            \cup JsonOf({403, 412, 503, 504}) \cup Default
    BY <1>8, <2>1, <2>2 DEF Exports, DownloadExportTaskResponse, ExportAuditLogsResponse,
      SqlExportResponse
  <2>q. QED
    BY <2>3, <2>4, <2>5, PlainIs
<1>9. r \in Plain => r.body # "text" /\ r.body # "bytes"
  BY DEF Plain
<1>10. CASE o \in Probes
  <2>1. /\ Operation["Healthz"] = Healthz
        /\ Operation["Readyz"] = Readyz
    BY DEF Operation
  <2>2. /\ Healthz.response = HealthzResponse
        /\ Readyz.response = ReadyzResponse
    BY DEF Handler, Healthz, Readyz
  <2>3. r \in Text({200}) \cup JsonOf({503})
    BY <1>10, <2>1, <2>2 DEF Probes, HealthzResponse, ReadyzResponse
  <2>4. r.body \in {"text", "json"}
    BY <2>3 DEF Text, JsonOf
  <2>q. QED
    BY <1>10, <2>4
<1>11. CASE o \notin Probes /\ o \notin Exports
  <2>1. r \in Plain
    <3>1. \/ o \in {"AddGroupMember", "AuthCsrf", "AuthLogin", "AuthLogout",
                    "AuthPasswordResetConfirm", "AuthPasswordResetRequest",
                    "AuthRefresh", "ChangeMyPassword", "CreateDataSource",
                    "CreateEnvironment", "CreateExportTask"}
          \/ o \in {"CreateGroup", "CreateIdentityProvider", "CreateInstance",
                    "CreateProject", "CreateUser", "CreateWorksheet",
                    "DeleteDataSource", "DeleteEnvironment", "DeleteGroup",
                    "DeleteIdentityProvider", "DeleteInstance"}
          \/ o \in {"DeleteProject", "DeleteUser", "DeleteWorksheet",
                    "FavoriteWorksheet", "GetDatabase", "GetEnvironmentPolicy",
                    "GetExportTask", "GetGroup", "GetIamPolicy", "GetIdentityProvider",
                    "GetInstance"}
          \/ o \in {"GetProject", "GetSetting", "GetUnreadNotificationCount",
                    "GetUser", "GetWorksheet", "ListDatabases", "ListEnvironments",
                    "ListExportTasks", "ListGroupMembers", "ListGroups",
                    "ListIdentityProviders"}
          \/ o \in {"ListInstances", "ListMyFavorites", "ListMyNotifications",
                    "ListProjects", "ListUsers", "MarkAllNotificationsRead",
                    "MarkNotificationRead", "QueryHistoriesSearch", "RegenerateMyMfa",
                    "RemoveGroupMember", "SearchAuditLogs"}
          \/ o \in {"SearchWorksheets", "SetIamPolicy", "SqlQuery",
                    "SyncDatabaseSchema", "SyncInstance", "TestIamPermissions",
                    "TestIdentityProvider", "TestInstanceConnection",
                    "UndeleteProject", "UndeleteUser", "UnfavoriteWorksheet"}
          \/ o \in {"UpdateDataSource", "UpdateDatabase", "UpdateEnvironment",
                    "UpdateEnvironmentPolicy", "UpdateGroup", "UpdateIdentityProvider",
                    "UpdateInstance", "UpdateProject", "UpdateSetting", "UpdateUser",
                    "UpdateWorksheet"}
      BY <1>11 DEF Operation, Probes, Exports
    <3>q. QED
      BY <3>1, <1>1, <1>2, <1>3, <1>4, <1>5, <1>6, <1>7
  <2>q. QED
    BY <1>9, <2>1
<1>q. QED
  BY <1>8, <1>9, <1>10, <1>11

-----------------------------------------------------------------------------
(* The browser.                                                            *)

\* The answer is the response to the call.
Relayed ==
  /\ pc = "done" /\ written # <<>> /\ request = RequestOf(call)
  /\ answer.status = written[1].status /\ answer.body = written[1].body

BInv ==
  /\ at = "sent" => pc = "away"
  /\ at = "forwarded" => pc # "away" /\ request = RequestOf(call)
  /\ at = "answered" => \/ Relayed
                        \/ answer.status = 500 /\ answer.body = "empty"
                        \/ answer.status \in {200, 405} /\ answer.body = "html"
  /\ answer.status \in 200..504 \cup {0}
  /\ outcome.kind \in {"none", "data", "undefined", "error", "syntaxError", "aborted",
                       "networkError"}
  /\ outcome.kind = "none" <=> at # "settled"
  /\ at = "settled" /\ outcome.kind \in {"data", "undefined"} =>
       Relayed /\ answer.status \in 200..299
  /\ at = "settled" /\ outcome.kind = "error" => outcome.status \notin 200..299

LEMMA TakenIs ==
  ASSUME NEW res, NEW parsed \in BOOLEAN, NEW told, told = Take(res, parsed)
  PROVE  \/ told.kind = "undefined" /\ res.status \in 200..299 /\ (res.status = 204 \/ res.body = "empty")
         \/ told.kind = "syntaxError"
         \/ told.kind = "error" /\ told.status = res.status /\ res.status \notin 200..299
         \/ told.kind = "data" /\ res.status \in 200..299 /\ parsed
<1>1. CASE res.status = 204
  BY <1>1 DEF Take, Told
<1>2. CASE res.status # 204 /\ res.body # "empty" /\ ~parsed
  BY <1>2 DEF Take, Told
<1>3. CASE res.status # 204 /\ (res.body = "empty" \/ parsed)
  <2>1. told = IF res.status \notin 200..299 THEN Told("error", res.status)
               ELSE Told(IF res.body = "empty" THEN "undefined" ELSE "data", res.status)
    BY <1>3 DEF Take
  <2>q. QED
    BY <1>3, <2>1 DEF Told
<1>q. QED
  BY <1>1, <1>2, <1>3

\* What the server does at the same time.
LEMMA ServerBeside ==
  ASSUME BInv, ApiNext, UNCHANGED browser
  PROVE  BInv'
<1>1. pc # "done" /\ pc # "away" /\ pc' # "away" /\ request' = request
  BY DEF ApiNext, Route, Security, DecodeParams, DecodeRequest, NotImplemented, HandlerEnds,
    Respond, HandlerFails, Panic, Deadline, Return, Unwind, GoTo, Refuse
<1>2. UNCHANGED <<call, at, answer, outcome>>
  BY DEF browser
<1>3. ~Relayed
  BY <1>1 DEF Relayed
<1>q. QED
  BY <1>1, <1>2, <1>3 DEF BInv

LEMMA ReceiveKeeps ==
  ASSUME BInv, Receive
  PROVE  BInv'
<1>1. /\ at = "answered" /\ at' = "settled"
      /\ UNCHANGED <<call, answer, implemented, request, pc, op, args, overdue, failed, written>>
  BY DEF Receive, Settle, api, progress
<1>2. PICK parsed \in Parses(answer.body) : outcome' = Take(answer, parsed)
  BY DEF Receive, Settle
<1>3. parsed \in BOOLEAN /\ (answer.body = "html" => ~parsed)
  BY <1>2 DEF Parses
<1>4. PICK told : told = Take(answer, parsed)
  OBVIOUS
<1>5. \/ /\ told.kind = "undefined" /\ answer.status \in 200..299
         /\ answer.status = 204 \/ answer.body = "empty"
      \/ told.kind = "syntaxError"
      \/ /\ told.kind = "error" /\ told.status = answer.status
         /\ answer.status \notin 200..299
      \/ told.kind = "data" /\ answer.status \in 200..299 /\ parsed
  BY <1>3, <1>4, TakenIs
<1>6. Relayed' <=> Relayed
  BY <1>1 DEF Relayed
<1>q. QED
  BY <1>1, <1>2, <1>3, <1>4, <1>5, <1>6 DEF BInv

LEMMA BrowserKeeps ==
  ASSUME IInv, LInv, BInv, [Next]_vars
  PROVE  BInv'
<1>1. CASE UNCHANGED vars
  BY <1>1 DEF vars, browser, api, progress, BInv, Relayed
<1>2. CASE ApiNext /\ UNCHANGED browser
  BY <1>2, ServerBeside
<1>3. CASE Fetch
  BY <1>3 DEF Fetch, BInv, api, progress
<1>4. CASE Forward
  <2>1. /\ at = "sent" /\ at' = "forwarded" /\ pc' = "route" /\ request' = RequestOf(call)
        /\ UNCHANGED <<call, answer, outcome>>
    BY <1>4 DEF Forward, Arrive
  <2>q. QED
    BY <2>1 DEF BInv
<1>5. CASE TryFiles
  <2>1. PICK s \in {200, 405} : Reply(s, "html")
    BY <1>5 DEF TryFiles
  <2>q. QED
    BY <1>5, <2>1 DEF TryFiles, Reply, BInv
<1>6. CASE ProxyFails
  BY <1>6 DEF ProxyFails, Reply, BInv
<1>7. CASE Relay
  <2>1. /\ at = "forwarded" /\ at' = "answered" /\ pc = "done"
        /\ answer' = [status |-> written[1].status, body |-> written[1].body]
        /\ UNCHANGED <<call, outcome, request, pc, written>>
    BY <1>7 DEF Relay, Reply, api, progress
  <2>2. written # <<>> /\ written[1].status \in 200..504
    <3>1. written # <<>>
      BY <2>1 DEF IInv, WrittenSoFar
    <3>2. written[1] \in Response
      BY <3>1 DEF LInv, Answered
    <3>q. QED
      BY <3>1, <3>2 DEF Response
  <2>q. QED
    BY <2>1, <2>2 DEF BInv, Relayed
<1>8. CASE Receive
  BY <1>8, ReceiveKeeps
<1>9. CASE Abort \/ NetworkFails
  BY <1>9 DEF Abort, NetworkFails, Settle, Told, BInv
<1>10. CASE Other
  BY <1>10 DEF Other, browser, BInv, Arrive
<1>11. CASE Again
  BY <1>11 DEF Again, NoReply, Told, BInv
<1>q. QED
  BY <1>1, <1>2, <1>3, <1>4, <1>5, <1>6, <1>7, <1>8, <1>9, <1>10, <1>11 DEF Next, Call

\* The invariant of the browser is inductive with the two of the server.
THEOREM CallsAreAnswered == Spec => [](IInv /\ (Given /\ LInv) /\ BInv)
<1>1. Init => BInv
  BY DEF Init, BInv, NoReply, Told
<1>2. IInv /\ (Given /\ LInv) /\ BInv /\ [Next]_vars => BInv'
  BY BrowserKeeps
<1>q. QED
  BY <1>1, <1>2, RequestsAreFound, PTL DEF Spec

\* The variables of the server, of the browser and of what is between them keep their
\* types for any requests, any calls and any operations that are implemented: what is
\* written is a status and a body that the tables of oas_response_encoders_gen.go have,
\* and no operation is handed more than three arguments.
THEOREM TypeCorrect == Spec => []TypeOK
<1>1. ASSUME IInv, Given, LInv, BInv
      PROVE  TypeOK
  <2>1. op \in DOMAIN Operation \cup {"none"} /\ Len(args) <= 3
    <3>1. CASE Here
      BY <3>1, HereIs
    <3>2. CASE op = "none" /\ args = <<>>
      BY <3>2
    <3>q. QED
      BY <1>1, <3>1, <3>2 DEF LInv, Found
  <2>2. overdue \in BOOLEAN /\ failed \in {"none", "error", "panic"}
    BY <1>1 DEF IInv, WrittenSoFar
  <2>3. written = <<>> \/ written[1] \in Response
    BY <1>1 DEF LInv, Answered
  <2>4. ApiTypeOK
    BY <1>1, <2>1, <2>2, <2>3 DEF ApiTypeOK, IInv, Given
  <2>5. call = NoCall <=> at = "idle"
    <3>1. \A c \in Calls : c # NoCall
      <4>1. \A c \in Calls : c.via # NoCall.via
        BY WebAssumption DEF NoCall
      <4>q. QED
        BY <4>1
    <3>q. QED
      BY <1>1, <3>1 DEF Given
  <2>q. QED
    BY <1>1, <2>4, <2>5 DEF TypeOK, Given, BInv
<1>q. QED
  BY <1>1, CallsAreAnswered, PTL

\* What the caller of client.ts may believe, for any call: data, or undefined, is the
\* answer of the operation's own handler to a request that was authenticated and whose
\* path is the route with the handler's arguments, and it is a success; an error is none.
\* No answer of the gateway, of the deadline or of Recoverer passes for data.
THEOREM CallersBelieve == Spec => []CallersTold
<1>1. ASSUME IInv, Given, LInv, BInv
      PROVE  CallersTold
  <2> SUFFICES ASSUME at = "settled" PROVE CallersTold
    BY DEF CallersTold
  <2>1. outcome.kind = "error" => outcome.status \notin 200..299
    BY <1>1 DEF BInv
  <2>2. ASSUME outcome.kind \in {"data", "undefined"}
        PROVE  /\ op \in implemented
               /\ written[1].by = "handler"
               /\ written[1].status \in 200..299
               /\ RequestOf(call).path = Filled(Operation[op].route, args)
               /\ Operation[op].security = Secured => call.session
    <3>1. PICK res : res = written[1]
      OBVIOUS
    <3>2. /\ written # <<>> /\ request = RequestOf(call)
          /\ res.status \in 200..299
      BY <1>1, <2>2, <3>1 DEF BInv, Relayed
    <3>3. call \in Calls
      BY <1>1 DEF Given
    <3>4. request.method # "OPTIONS"
      <4>1. call.method \in {"GET", "POST", "PATCH", "DELETE"}
        BY <3>3, WebAssumption
      <4>q. QED
        BY <3>2, <4>1 DEF RequestOf
    <3>5. /\ res \in Response
          /\ res.by = "router" => res.status \in {404, 405}
          /\ res.by = "layer" => res.status \in {400, 401, 415, 500, 501}
          /\ res.by = "recoverer" => res.status = 500
          /\ res.by = "timeout" => res.status = 504
      BY <1>1, <3>1, <3>2, <3>4 DEF LInv, Answered
    <3>6. res.by \in {"router", "layer", "handler", "timeout", "recoverer"}
      BY <3>5 DEF Response
    <3>7. res.by = "handler"
      <4>1. PICK s : s = res.status
        OBVIOUS
      <4>2. s \in 200..299
        BY <3>2, <4>1
      <4>3. s \notin {404, 405, 400, 401, 415, 500, 501, 504}
        BY <4>2
      <4>q. QED
        BY <3>5, <3>6, <4>1, <4>3
    <3>8. /\ Here /\ op \in implemented /\ Satisfied(op, request)
          /\ Decodes(Operation[op].params, args, request.bad)
      BY <1>1, <3>1, <3>2, <3>7 DEF LInv, Answered
    <3>9. request.path = Filled(Operation[op].route, args)
      BY <3>8, NothingEmpty
    <3>10. Operation[op].security = Secured => call.session
      <4>1. Operation[op].security = Secured => request.cred # {}
        BY <3>8 DEF Satisfied, BearerAuth, CookieAuth
      <4>q. QED
        BY <3>2, <3>3, <4>1, WebAssumption DEF RequestOf
    <3>q. QED
      BY <3>1, <3>2, <3>7, <3>8, <3>9, <3>10
  <2>q. QED
    BY <2>1, <2>2 DEF CallersTold
<1>q. QED
  BY <1>1, CallsAreAnswered, PTL

-----------------------------------------------------------------------------
(* What a SyntaxError hides.                                               *)

\* A SyntaxError comes of index.html, or of an answer of the server that is a text or
\* a file; its status is that of the answer.
Unparsed ==
  /\ at = "answered" /\ answer.body = "html" => ~Proxied(call)
  /\ outcome.kind = "syntaxError" =>
       \/ ~Proxied(call)
       \/ /\ Relayed /\ answer.body \in {"text", "bytes"}
          /\ outcome.status = answer.status

\* What request() cannot parse.
LEMMA SyntaxErrorIs ==
  ASSUME NEW res, NEW parsed \in Parses(res.body), Take(res, parsed).kind = "syntaxError"
  PROVE  /\ Take(res, parsed).status = res.status
         /\ res.body # "empty" /\ res.body # "json"
<1>1. CASE res.status = 204
  BY <1>1 DEF Take, Told
<1>2. CASE res.status # 204 /\ res.body # "empty" /\ ~parsed
  <2>1. Take(res, parsed) = Told("syntaxError", res.status)
    BY <1>2 DEF Take
  <2>2. res.body # "json"
    BY <1>2 DEF Parses
  <2>q. QED
    BY <1>2, <2>1, <2>2 DEF Told
<1>3. CASE res.status # 204 /\ (res.body = "empty" \/ parsed)
  <2>1. Take(res, parsed) = IF res.status \notin 200..299 THEN Told("error", res.status)
               ELSE Told(IF res.body = "empty" THEN "undefined" ELSE "data", res.status)
    BY <1>3 DEF Take
  <2>q. QED
    BY <1>3, <2>1 DEF Told
<1>q. QED
  <2>1. parsed \in BOOLEAN
    BY DEF Parses
  <2>q. QED
    BY <1>1, <1>2, <1>3, <2>1

\* request() makes something of the answer.
LEMMA ReceiveUnparsed ==
  ASSUME IInv, LInv, BInv, Unparsed, Receive
  PROVE  Unparsed'
<1>1. /\ at = "answered" /\ at' = "settled"
      /\ UNCHANGED <<call, answer, request, pc, written>>
  BY DEF Receive, Settle, api, progress
<1>2. PICK parsed \in Parses(answer.body) : outcome' = Take(answer, parsed)
  BY DEF Receive, Settle
<1>3. (Relayed' <=> Relayed) /\ (Proxied(call)' <=> Proxied(call))
  BY <1>1 DEF Relayed, Proxied
<1>4. ASSUME outcome'.kind = "syntaxError", Proxied(call)
      PROVE  /\ Relayed /\ answer.body \in {"text", "bytes"}
             /\ outcome'.status = answer.status
  <2>1. outcome'.status = answer.status /\ answer.body # "empty" /\ answer.body # "json"
    BY <1>2, <1>4, SyntaxErrorIs
  <2>2. answer.body # "html"
    BY <1>1, <1>4 DEF Unparsed
  <2>3. Relayed
    BY <1>1, <2>1, <2>2 DEF BInv
  <2>4. written[1].body \in {"json", "text", "bytes", "empty"}
    BY <2>3 DEF Relayed, LInv, Answered, Response
  <2>q. QED
    BY <2>1, <2>3, <2>4 DEF Relayed
<1>q. QED
  BY <1>1, <1>3, <1>4 DEF Unparsed

\* Every step keeps what is known of a SyntaxError.
LEMMA NextUnparsed ==
  ASSUME IInv, LInv, BInv, Unparsed, [Next]_vars
  PROVE  Unparsed'
<1>1. at # "settled" => outcome.kind # "syntaxError"
  BY DEF BInv
<1>2. CASE UNCHANGED vars
  BY <1>2 DEF vars, browser, api, progress, Unparsed, Relayed, Proxied
<1>3. CASE ApiNext /\ UNCHANGED browser
  <2>1. pc # "done"
    BY <1>3 DEF ApiNext, Route, Security, DecodeParams, DecodeRequest, NotImplemented,
      HandlerEnds, Respond, HandlerFails, Panic, Deadline, Return, Unwind
  <2>2. UNCHANGED <<call, at, answer, outcome>>
    BY <1>3 DEF browser
  <2>3. ~Relayed
    BY <2>1 DEF Relayed
  <2>q. QED
    BY <2>2, <2>3 DEF Unparsed, Proxied
<1>4. CASE Fetch \/ Forward
  <2>1. at \in {"idle", "sent"} /\ at' \in {"sent", "forwarded"} /\ outcome' = outcome
    BY <1>4 DEF Fetch, Forward
  <2>q. QED
    BY <1>1, <2>1 DEF Unparsed
<1>5. CASE TryFiles
  <2>1. ~Proxied(call) /\ call' = call /\ at = "sent" /\ outcome' = outcome
    BY <1>5 DEF TryFiles, Reply
  <2>q. QED
    BY <1>1, <2>1 DEF Unparsed, Proxied
<1>6. CASE ProxyFails
  <2>1. /\ at \in {"sent", "forwarded"} /\ outcome' = outcome
        /\ answer' = [status |-> 500, body |-> "empty"]
    BY <1>6 DEF ProxyFails, Reply
  <2>q. QED
    BY <1>1, <2>1 DEF Unparsed
<1>7. CASE Relay
  <2>1. /\ at = "forwarded" /\ pc = "done" /\ outcome' = outcome
        /\ answer' = [status |-> written[1].status, body |-> written[1].body]
    BY <1>7 DEF Relay, Reply
  <2>2. written # <<>>
    BY <2>1 DEF IInv, WrittenSoFar
  <2>3. written[1].body # "html"
    BY <2>2 DEF LInv, Answered, Response
  <2>q. QED
    BY <1>1, <2>1, <2>3 DEF Unparsed
<1>8. CASE Receive
  BY <1>8, ReceiveUnparsed
<1>9. CASE Abort \/ NetworkFails
  BY <1>9 DEF Abort, NetworkFails, Settle, Told, Unparsed
<1>10. CASE Other
  <2>1. at = "idle" /\ UNCHANGED <<call, at, answer, outcome>>
    BY <1>10 DEF Other, browser
  <2>q. QED
    BY <1>1, <2>1 DEF Unparsed
<1>11. CASE Again
  BY <1>11 DEF Again, Told, Unparsed
<1>q. QED
  BY <1>2, <1>3, <1>4, <1>5, <1>6, <1>7, <1>8, <1>9, <1>10, <1>11 DEF Next, Call

\* Inductive with the invariants of the server and of the browser.
THEOREM AnswersAreParsed == Spec => [](IInv /\ (Given /\ LInv) /\ BInv /\ Unparsed)
<1>1. Init => Unparsed
  BY DEF Init, Told, Unparsed
<1>2. IInv /\ (Given /\ LInv) /\ BInv /\ Unparsed /\ [Next]_vars => Unparsed'
  BY NextUnparsed
<1>q. QED
  BY <1>1, <1>2, CallsAreAnswered, PTL DEF Spec

-----------------------------------------------------------------------------
\* A request that means an operation is taken to one.
LEMMA MeansOne ==
  ASSUME NEW r, NEW o \in DOMAIN Operation, Means(r, o)
  PROVE  ServeHTTP(r.method, r.path).kind = "operation"
<1>1. PICK values : values = Values(Operation[o].route, Pieces(r.path))
  OBVIOUS
<1>2. \/ ServeHTTP(r.method, r.path) = To(o, values)
      \/ Shadowed(r) /\ ServeHTTP(r.method, r.path) = To(o, << <<>> >>)
  BY <1>1, MeansTaken
<1>q. QED
  BY <1>2 DEF To

\* The route of a probe is its path, whatever stands for values.
LEMMA OneWord ==
  ASSUME NEW word, word \notin Placeholder, NEW values
  PROVE  Filled(<<>> ## Lit(word), values) = <<"/", word>>
<1>1. PICK route, piece : route = <<>> ## Lit(word) /\ piece = <<"/", word>>
  OBVIOUS
<1>2. DOMAIN route = {1} /\ route[1] = piece
  BY <1>1 DEF ##, Lit
<1>3. ~IsPlaceholder(route[1])
  BY <1>1, <1>2 DEF IsPlaceholder
<1>4. Filling(route, values, 1) = piece
  BY <1>2, <1>3 DEF Filling
<1>5. \A i \in 2..8 : Filling(route, values, i) = <<>>
  BY <1>2 DEF Filling
<1>6. PICK f : f = [i \in 1..8 |-> Filling(route, values, i)]
  OBVIOUS
<1>7. /\ f[1] = piece /\ f[2] = <<>> /\ f[3] = <<>> /\ f[4] = <<>>
      /\ f[5] = <<>> /\ f[6] = <<>> /\ f[7] = <<>> /\ f[8] = <<>>
  BY <1>4, <1>5, <1>6
<1>8. piece \in Seq({"/", word})
  BY <1>1
<1>9. piece \o <<>> = piece
  BY <1>8
<1>10. Chain(f) = piece
  BY <1>7, <1>9, Zenon DEF Chain, ++
<1>11. Filled(route, values) = piece
  BY <1>6, <1>10, FilledIs
<1>q. QED
  BY <1>1, <1>11

\* The probes are not below BASE_URL.
LEMMA ProbesAreElsewhere ==
  ASSUME NEW o \in Probes, NEW values, NEW path, path = Filled(Operation[o].route, values)
  PROVE  ~IsPrefix(<<"/", "v1">>, path)
<1>1. /\ Operation["Healthz"].route = <<>> ## Lit("healthz")
      /\ Operation["Readyz"].route = <<>> ## Lit("readyz")
  BY ProbeOperations DEF Offers, Serves
<1>2. "healthz" \notin Placeholder /\ "readyz" \notin Placeholder
  BY DEF Placeholder
<1>3. path = <<"/", "healthz">> \/ path = <<"/", "readyz">>
  BY <1>1, <1>2, OneWord DEF Probes
<1>4. PICK slash, word : path = <<slash, word>> /\ word # "v1"
  BY <1>3
<1>5. PICK S : S = {slash, word}
  OBVIOUS
<1>6. path \in Seq(S) /\ Len(path) = 2 /\ path[2] = word
  BY <1>4, <1>5
<1>7. SubSeq(path, 1, 2)[2] = word
  BY <1>6
<1>8. ASSUME NEW prefix, NEW one, NEW two, prefix = <<one, two>>, two = "v1",
             IsPrefix(prefix, path)
      PROVE  FALSE
  <2>1. Len(prefix) = 2 /\ SubSeq(prefix, 1, 2)[2] = two
    BY <1>8
  <2>2. SubSeq(prefix, 1, 2) = SubSeq(path, 1, 2)
    BY <1>8, <2>1 DEF IsPrefix
  <2>q. QED
    BY <1>4, <1>7, <1>8, <2>1, <2>2
<1>q. QED
  BY <1>8

\* What a SyntaxError hides from the caller of client.ts in development, for any call: an
\* operation that does not exist, or a file that was exported, and then it is a success.
\* An error of an operation, of the layer or of the deadline is never hidden.
THEOREM ErrorsAreSeen == Spec => []ErrorsAreNotHidden
<1>1. ASSUME IInv, Given, LInv, Turned, BInv, Unparsed
      PROVE  ErrorsAreNotHidden
  <2> SUFFICES ASSUME outcome.kind = "syntaxError", call.via = "vite",
                      NEW o \in DOMAIN Operation, Means(RequestOf(call), o)
               PROVE  op \in Exports /\ outcome.status = 200
    BY DEF ErrorsAreNotHidden, Exports
  <2>1. call \in Calls
    BY <1>1 DEF BInv, Given
  <2>2. IsPrefix(<<"/", "v1">>, call.path)
    BY <2>1, WebAssumption
  <2>3. Proxied(call)
    BY <2>2 DEF Proxied
  <2>4. Relayed /\ answer.body \in {"text", "bytes"} /\ outcome.status = answer.status
    BY <1>1, <2>3 DEF Unparsed
  <2>5. PICK res : res = written[1]
    OBVIOUS
  <2>6. /\ written # <<>> /\ request = RequestOf(call)
        /\ res.status = outcome.status /\ res.body \in {"text", "bytes"}
    BY <2>4, <2>5 DEF Relayed
  <2>7. Taken.kind = "operation"
    BY <2>6, MeansOne DEF Taken
  <2>8. res \in Response
    BY <1>1, <2>5, <2>6 DEF LInv, Answered
  <2>9. res.by = "handler"
    <3>1. res.by # "router"
      BY <1>1, <2>5, <2>6, <2>7 DEF Turned, NotFound
    <3>2. res.by \notin {"layer", "timeout", "recoverer"}
      BY <1>1, <2>5, <2>6 DEF Turned
    <3>q. QED
      BY <2>8, <3>1, <3>2 DEF Response
  <2>10. Here /\ Decodes(Operation[op].params, args, request.bad)
    BY <1>1, <2>5, <2>6, <2>9 DEF LInv, Answered
  <2>11. op \in DOMAIN Operation /\ request.path = Filled(Operation[op].route, args)
    BY <2>10, HereIs, NothingEmpty
  <2>12. PICK r \in Operation[op].response : res.status = r.status /\ res.body = r.body
    BY <1>1, <2>5, <2>6, <2>9 DEF Turned
  <2>13. op \notin Probes
    <3>1. IsPrefix(<<"/", "v1">>, request.path)
      BY <2>2, <2>6 DEF RequestOf
    <3>q. QED
      BY <2>11, <3>1, ProbesAreElsewhere
  <2>q. QED
    BY <2>6, <2>11, <2>12, <2>13, ResponsesAre
<1>2. IInv /\ (Given /\ LInv) /\ Turned /\ BInv /\ Unparsed => ErrorsAreNotHidden
  BY <1>1
<1>q. QED
  BY <1>2, RequestsAreTurned, AnswersAreParsed, PTL
=============================================================================
