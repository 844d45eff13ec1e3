---------------------------------- MODULE Api ----------------------------------
(***************************************************************************)
(* One request on its way through the server: chi's Recoverer and Timeout  *)
(* (main.go), the router (module Router), and what every handle...Request  *)
(* function of oas_handlers_gen.go does in the same order: security, the   *)
(* parameters, the body, the handler, the response.                        *)
(*                                                                         *)
(* The three operations of internal/api/handler.go are implemented, the    *)
(* embedded UnimplementedHandler answers for the rest.  The layer serves   *)
(* whatever a Handler implements, so Handlers may hold other sets too.     *)
(*                                                                         *)
(* A request is a method, a path (see Router), the credentials it carries, *)
(* the query parameters whose values are wrong, and its kind of body.      *)
(***************************************************************************)
EXTENDS Operations, Router, FiniteSets

CONSTANT Handlers \* the sets of operations that may be implemented

ASSUME HandlersAssumption == \A H \in Handlers : H \subseteq DOMAIN Operation

VARIABLES
  implemented, \* the operations that are implemented
  request,     \* the request being served
  pc,          \* the step that is next
  op,          \* the operation the router dispatched to
  args,        \* what it cut out of the path
  overdue,     \* the deadline of middleware.Timeout has passed
  failed,      \* how the handler failed
  written      \* the response, once its header is written

progress == <<pc, op, args, overdue, failed, written>>
api      == <<implemented, request, progress>>

NoRequest == [method |-> "none", path |-> <<>>, cred |-> {}, bad |-> {},
              body |-> "untyped"]

ApiInit ==
  /\ implemented \in Handlers
  /\ request = NoRequest
  /\ pc = "away"
  /\ op = "none"
  /\ args = <<>>
  /\ overdue = FALSE
  /\ failed = "none"
  /\ written = <<>>

\* Mutant: the last to write the header decides.
WriteHeaderAgain(status, body, by) ==
  written' = <<[status |-> status, body |-> body, by |-> by]>>

\* The first WriteHeader is sent, a later one is superfluous.
WriteHeader(status, body, by) ==
  written' = IF written = <<>>
               THEN <<[status |-> status, body |-> body, by |-> by]>>
               ELSE written

\* ErrorHandler writes an error as JSON, and the function returns.
Refuse(status) ==
  /\ WriteHeader(status, "json", "layer")
  /\ pc' = "return"

GoTo(step) == pc' = step /\ UNCHANGED written

-----------------------------------------------------------------------------
Arrive(r) ==
  /\ pc = "away"
  /\ request' = r
  /\ pc' = "route"
  /\ UNCHANGED <<implemented, op, args, overdue, failed, written>>

\* notAllowed: the methods there are for OPTIONS, 405 for any other method.
MethodNotAllowed ==
  WriteHeader(IF request.method = "OPTIONS" THEN 204 ELSE 405, "empty", "router")

Route ==
  LET to == ServeHTTP(request.method, request.path) IN
  /\ pc = "route"
  /\ \/ to.kind = "operation" /\ op' = to.op /\ args' = to.args /\ GoTo("security")
     \/ /\ to = NotFound
        /\ WriteHeader(404, "text", "router")
        /\ pc' = "return"
        /\ UNCHANGED <<op, args>>
     \/ /\ to = NotAllowed
        /\ MethodNotAllowed
        /\ pc' = "return"
        /\ UNCHANGED <<op, args>>
  /\ UNCHANGED <<implemented, request, overdue, failed>>

\* What HandleBearerAuth and HandleCookieAuth of internal/api accept: any token
\* and any cookie.
BearerAuth(r) == "bearer" \in r.cred
CookieAuth(r) == "cookie" \in r.cred

\* Mutant: operations are served to whoever asks.
SatisfiedByAll(o, r) == TRUE

\* Mutant: the requirements are bearerAuth and cookieAuth.
SatisfiedByBoth(o, r) ==
  Operation[o].security = Secured => BearerAuth(r) /\ CookieAuth(r)

Satisfied(o, r) == Operation[o].security = Secured => BearerAuth(r) \/ CookieAuth(r)

Security ==
  /\ pc = "security"
  /\ IF Satisfied(op, request) THEN GoTo("params") ELSE Refuse(401)
  /\ UNCHANGED <<implemented, request, op, args, overdue, failed>>

DecodeParams ==
  /\ pc = "params"
  /\ IF Decodes(Operation[op].params, args, request.bad)
       THEN GoTo("body")
       ELSE Refuse(400)
  /\ UNCHANGED <<implemented, request, op, args, overdue, failed>>

DecodeRequest ==
  /\ pc = "body"
  /\ IF request.body \in Operation[op].body
       THEN GoTo("handle")
       ELSE Refuse(DecodeStatus(request.body))
  /\ UNCHANGED <<implemented, request, op, args, overdue, failed>>

-----------------------------------------------------------------------------
(* The handler.                                                            *)

\* UnimplementedHandler returns ErrNotImplemented.
NotImplemented ==
  /\ pc = "handle"
  /\ op \notin implemented
  /\ Refuse(501)
  /\ UNCHANGED <<implemented, request, op, args, overdue, failed>>

\* What a handler may return: the probes and the list as handler.go has them,
\* any other one whatever its response type allows.
Returns(o) ==
  CASE o = "Healthz" -> Text({200})
    [] o = "Readyz" -> Text({200}) \cup JsonOf({503})
    [] o = "ListProjects" -> JsonOf({200})
    [] OTHER -> Operation[o].response

\* The handler returns and its response is encoded.  An encoder that wrote 500
\* or more returns an error which is not answered again.
Respond ==
  /\ pc = "handle"
  /\ op \in implemented
  /\ \E res \in Returns(op) \cap Operation[op].response :
       WriteHeader(res.status, res.body, "handler")
  /\ pc' = "return"
  /\ UNCHANGED <<implemented, request, op, args, overdue, failed>>

\* The handler returns an error.  The probes never do.
HandlerFails ==
  /\ pc = "handle"
  /\ op \in implemented \ {"Healthz", "Readyz"}
  /\ Refuse(500)
  /\ failed' = "error"
  /\ UNCHANGED <<implemented, request, op, args, overdue>>

Panic ==
  /\ pc = "handle"
  /\ op \in implemented
  /\ failed' = "panic"
  /\ GoTo("unwind")
  /\ UNCHANGED <<implemented, request, op, args, overdue>>

HandlerEnds == Respond \/ HandlerFails \/ Panic

-----------------------------------------------------------------------------
(* The middleware around the generated server.                             *)

\* Mutant: there is no middleware.Timeout.
NoDeadline == FALSE

\* The context of the request ends 60 seconds after it came.
Deadline ==
  /\ pc \notin {"away", "done"}
  /\ ~overdue
  /\ overdue' = TRUE
  /\ UNCHANGED <<implemented, request, pc, op, args, failed, written>>

\* The deferred function of Timeout: 504, unless a header is written already.
Return ==
  /\ pc = "return"
  /\ IF overdue THEN WriteHeader(504, "empty", "timeout") ELSE UNCHANGED written
  /\ pc' = "done"
  /\ UNCHANGED <<implemented, request, op, args, overdue, failed>>

\* A panic runs the deferred function of Timeout, and then that of Recoverer.
Unwind ==
  /\ pc = "unwind"
  /\ IF overdue
       THEN WriteHeader(504, "empty", "timeout")
       ELSE WriteHeader(500, "empty", "recoverer")
  /\ pc' = "done"
  /\ UNCHANGED <<implemented, request, op, args, overdue, failed>>

\* net/http has sent the response and reads the next request.
NextRequest ==
  /\ request' = NoRequest
  /\ pc' = "away"
  /\ op' = "none"
  /\ args' = <<>>
  /\ overdue' = FALSE
  /\ failed' = "none"
  /\ written' = <<>>
  /\ UNCHANGED implemented

ApiNext == Route \/ Security \/ DecodeParams \/ DecodeRequest \/ NotImplemented
           \/ HandlerEnds \/ Deadline \/ Return \/ Unwind

Steps == {"away", "route", "security", "params", "body", "handle", "return", "unwind",
          "done"}

\* The steps in which the layer computes and waits for nobody, as seen by pc; and
\* the end of a handler whose context has ended.
LayerMoves ==
  /\ pc \notin {"away", "done"}
  /\ pc = "handle" => op \notin implemented
  /\ pc' \in Steps \ {pc}

HandlerMoves ==
  /\ pc = "handle"
  /\ op \in implemented
  /\ overdue
  /\ pc' \in Steps \ {pc}

-----------------------------------------------------------------------------
(* The contract of the API, stated without the router: a request means an  *)
(* operation when it has its method, and its path is the route of the      *)
(* operation with a value in every placeholder.                            *)

\* The path cut at "/" and ":", every piece with its separator in front.
Pieces(path) ==
  FoldLeft(LAMBDA cut, t : IF t \in {"/", ":"}
                             THEN Append(cut, <<t>>)
                             ELSE [cut EXCEPT ![Len(cut)] = Append(@, t)],
           <<>>, path)

IsPlaceholder(piece) == piece[2] \in Placeholder

\* The placeholders of a route up to its i-th piece.
Holes(route, i) == {j \in 1..i : IsPlaceholder(route[j])}

\* What stands in as many pieces at the placeholders of the route.
Values(route, pieces) ==
  LET Hole(nth) == CHOOSE i \in DOMAIN route :
                     IsPlaceholder(route[i]) /\ Cardinality(Holes(route, i)) = nth
  IN [nth \in 1..Cardinality(Holes(route, Len(route))) |-> Tail(pieces[Hole(nth)])]

\* The route with values, which may hold separators, in its placeholders.
Filling(route, values, i) ==
  CASE i \notin DOMAIN route -> <<>>
    [] i \in DOMAIN route /\ IsPlaceholder(route[i]) ->
         <<route[i][1]>> \o values[Cardinality(Holes(route, i))]
    [] OTHER -> route[i]

\* No route has more than eight pieces.
Filled(route, values) ==
  LET F(i) == Filling(route, values, i) IN
  F(1) \o F(2) \o F(3) \o F(4) \o F(5) \o F(6) \o F(7) \o F(8)

\* One segment of a path.
IsValue(v) == v \in Seq(STRING) /\ v # <<>> /\ ~Contains(v, "/") /\ ~Contains(v, ":")

Means(r, o) ==
  LET route  == Operation[o].route
      values == Values(route, Pieces(r.path))
  IN
  /\ r.method = Operation[o].method
  /\ Len(Pieces(r.path)) = Len(route)
  /\ r.path = Filled(route, values)
  /\ \A i \in DOMAIN values : IsValue(values[i])

\* The parameters of operation o satisfy its schema.
Valid(o, values, bad) ==
  LET params == Operation[o].params IN
  /\ \A i \in DOMAIN params : params[i].in = "path" =>
       i \in DOMAIN values /\ Satisfies(Unescaped(values[i]), params[i].check)
  /\ Checked(params) \cap bad = {}

\* The request is one that operation o has to serve.
Conforms(r, o) ==
  /\ Means(r, o)
  /\ Operation[o].security = Secured => r.cred # {}
  /\ Valid(o, Values(Operation[o].route, Pieces(r.path)), r.bad)
  /\ r.body \in Operation[o].body

\* GET, PATCH and DELETE of v1/users/me, which RouteUsers hands an empty {user}.
Shadowed(r) == r.path = <<"/", "v1", "/", "users", "/", "me">>

-----------------------------------------------------------------------------
Response == [status : 200..504,
             body : {"json", "text", "bytes", "empty"},
             by : {"router", "layer", "handler", "timeout", "recoverer"}]

ApiTypeOK ==
  /\ implemented \in Handlers
  /\ request.cred \subseteq {"bearer", "cookie"}
  /\ request.body \in Body
  /\ pc \in Steps
  /\ op \in DOMAIN Operation \cup {"none"}
  /\ Len(args) <= 3
  /\ overdue \in BOOLEAN
  /\ failed \in {"none", "error", "panic"}
  /\ written = <<>> \/ written[1] \in Response

\* A handler is never entered with less than the layer owes it: credentials
\* where the operation demands them, values of its parameters that satisfy the
\* schema, a body that it accepts.
Gated ==
  pc = "handle" =>
    /\ Operation[op].security = Secured => request.cred # {}
    /\ Valid(op, args, request.bad)
    /\ request.body \in Operation[op].body

\* ... and only by a request for its route: the path is the route with the
\* arguments of the handler in its placeholders, none of them empty.
Routed ==
  pc = "handle" =>
    /\ request.method = Operation[op].method
    /\ request.path = Filled(Operation[op].route, args)
    /\ \A i \in DOMAIN args : args[i] # <<>>

\* What a handler sees (oas_router_gen.go, oas_handlers_gen.go): a request for
\* its route that has passed every check, and credentials whenever the tables of
\* oas_security_gen.go have roles for the operation.
HandlerSeesConforming ==
  /\ Gated
  /\ Routed
  /\ pc = "handle" /\ op \in RolesKnown => BearerAuth(request) \/ CookieAuth(request)

\* A request that conforms to an operation is not turned away by the router or
\* by a check (4xx of oas_router_gen.go and oas_handlers_gen.go).
RefusalsHaveCause ==
  pc = "done" =>
    LET res == written[1] IN
    res.by \in {"router", "layer"} /\ res.status < 500 =>
      Shadowed(request) \/ \A o \in DOMAIN Operation : ~Conforms(request, o)

\* 501 is said of what is not implemented, and a 5xx that no handler chose has a
\* failure behind it (main.go's middleware, ErrorHandler): 500 an error or a panic
\* of the handler in time, 504 a panic when the deadline has passed and not just
\* the deadline.
FailuresHaveCause ==
  pc = "done" =>
    LET res == written[1] IN
    /\ res.status = 501 => op \notin implemented
    /\ res.by = "layer" /\ res.status = 500 => failed = "error"
    /\ res.by = "recoverer" => failed = "panic" /\ ~overdue
    /\ res.by = "timeout" => failed = "panic" /\ overdue
    /\ failed = "none" => res.by \in {"router", "layer", "handler"}
=============================================================================
