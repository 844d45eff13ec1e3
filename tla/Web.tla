---------------------------------- MODULE Web ----------------------------------
(***************************************************************************)
(* The browser's side of a request: request() of frontend/src/api/client.ts*)
(* with the gateway that stands between it and the server of module Api,   *)
(* which is Vite's proxy in development (vite.config.ts) and nginx in      *)
(* production (nginx.conf).  Others send their requests to the server      *)
(* directly.                                                               *)
(*                                                                         *)
(* One call is under way at a time: calls share nothing.  Its path starts  *)
(* with BASE_URL, /v1.  The header X-Csrf-Token is left out, for the server*)
(* accepts any and none.                                                   *)
(***************************************************************************)
EXTENDS Api

CONSTANTS
  Requests, \* what others send
  Calls     \* what the frontend calls, with a session or not, via vite or nginx

ASSUME WebAssumption ==
  /\ \A r \in Requests :
       /\ r.path \in Seq(STRING)
       /\ r.cred \subseteq {"bearer", "cookie"}
       /\ r.body \in Body
  /\ \A c \in Calls :
       /\ c.via \in {"vite", "nginx"}
       /\ c.method \in {"GET", "POST", "PATCH", "DELETE"}
       /\ c.path \in Seq(STRING) /\ IsPrefix(<<"/", "v1">>, c.path)
       /\ c.session \in BOOLEAN
       /\ c.body \in Body

VARIABLES
  call,    \* the call being made
  at,      \* where it stands
  answer,  \* the response that reached the browser
  outcome  \* what the caller was told

browser == <<call, at, answer, outcome>>
vars    == <<api, browser>>

NoCall  == [via |-> "none", method |-> "none", path |-> <<>>, session |-> FALSE,
            bad |-> {}, body |-> "absent"]
NoReply == [status |-> 0, body |-> "empty"]
Told(kind, status) == [kind |-> kind, status |-> status]

Init ==
  /\ ApiInit
  /\ call = NoCall
  /\ at = "idle"
  /\ answer = NoReply
  /\ outcome = Told("none", 0)

-----------------------------------------------------------------------------
(* fetch: credentials are the session cookie, and there is a Content-Type  *)
(* unless the method is GET or DELETE.                                     *)

RequestOf(c) ==
  [method |-> c.method, path |-> c.path, bad |-> c.bad,
   cred |-> IF c.session THEN {"cookie"} ELSE {},
   body |-> IF c.method \in {"GET", "DELETE"} THEN "untyped" ELSE c.body]

Fetch ==
  /\ at = "idle"
  /\ pc = "away"
  /\ call' \in Calls
  /\ at' = "sent"
  /\ UNCHANGED <<api, answer, outcome>>

\* What the gateway passes to the server: /v1 in Vite's proxy, /api in nginx.
Proxied(c) ==
  CASE c.via = "vite" -> IsPrefix(<<"/", "v1">>, c.path)
    [] c.via = "nginx" -> IsPrefix(<<"/", "api">>, c.path)

Forward ==
  /\ at = "sent"
  /\ Proxied(call)
  /\ Arrive(RequestOf(call))
  /\ at' = "forwarded"
  /\ UNCHANGED <<call, answer, outcome>>

Reply(status, body) ==
  /\ answer' = [status |-> status, body |-> body]
  /\ at' = "answered"
  /\ UNCHANGED <<call, outcome>>

\* nginx looks for a file and falls back on index.html; static files are there
\* for GET only.
TryFiles ==
  /\ at = "sent"
  /\ ~Proxied(call)
  /\ IF call.method = "GET" THEN Reply(200, "html") ELSE Reply(405, "html")
  /\ UNCHANGED api

\* The proxy does not reach the server, or loses it: Vite answers 500, no body.
ProxyFails ==
  /\ at \in {"sent", "forwarded"}
  /\ Proxied(call)
  /\ Reply(500, "empty")
  /\ UNCHANGED api

Relay ==
  /\ at = "forwarded"
  /\ pc = "done"
  /\ Reply(written[1].status, written[1].body)
  /\ UNCHANGED api

-----------------------------------------------------------------------------
(* What request() makes of the response.                                   *)

Settle(told) ==
  /\ outcome' = told
  /\ at' = "settled"
  /\ UNCHANGED <<call, answer, api>>

\* Whether JSON.parse takes the text: a file that is exported may be JSON.
Parses(body) == CASE body = "json" -> {TRUE} [] body = "bytes" -> BOOLEAN [] OTHER -> {FALSE}

\* Mutant: the status is not looked at.
TakeAny(res, parsed) ==
  IF parsed THEN Told("data", res.status) ELSE Told("syntaxError", res.status)

\* Mutant: an empty text is parsed as well.
TakeEmpty(res, parsed) ==
  CASE res.status = 204 -> Told("undefined", 204)
    [] res.status # 204 /\ ~parsed -> Told("syntaxError", res.status)
    [] res.status # 204 /\ parsed ->
         Told(IF res.status \in 200..299 THEN "data" ELSE "error", res.status)

\* 204 is undefined, a text that is not JSON a SyntaxError whatever the status,
\* and then a status that is not ok an ApiRequestError.
Take(res, parsed) ==
  CASE res.status = 204 -> Told("undefined", 204)
    [] res.status # 204 /\ res.body # "empty" /\ ~parsed -> Told("syntaxError", res.status)
    [] res.status # 204 /\ (res.body = "empty" \/ parsed) ->
         IF res.status \notin 200..299 THEN Told("error", res.status)
         ELSE Told(IF res.body = "empty" THEN "undefined" ELSE "data", res.status)

Receive ==
  /\ at = "answered"
  /\ \E parsed \in Parses(answer.body) : Settle(Take(answer, parsed))

\* opts.signal: TanStack Query cancels the call.
Abort ==
  /\ at \in {"sent", "forwarded", "answered"}
  /\ Settle(Told("aborted", 0))

NetworkFails ==
  /\ at \in {"sent", "forwarded", "answered"}
  /\ Settle(Told("networkError", 0))

-----------------------------------------------------------------------------
Other ==
  /\ at = "idle"
  /\ pc = "away"
  /\ \E r \in Requests : Arrive(r)
  /\ UNCHANGED browser

\* The response is out and, if there was a call, it is settled.
Again ==
  /\ at \in {"idle", "settled"}
  /\ pc = "done" \/ (pc = "away" /\ at = "settled")
  /\ NextRequest
  /\ call' = NoCall
  /\ at' = "idle"
  /\ answer' = NoReply
  /\ outcome' = Told("none", 0)

Call == Fetch \/ Forward \/ TryFiles \/ ProxyFails \/ Relay
        \/ Receive \/ Abort \/ NetworkFails

Next ==
  \/ ApiNext /\ UNCHANGED browser
  \/ Call
  \/ Other
  \/ Again

\* The layer computes without waiting.  A handler may wait for the database as
\* long as its context lives, but not when it has ended.  The gateway and the
\* browser go on by themselves; nobody has to abort or to fail.
Fairness ==
  /\ WF_pc(LayerMoves)
  /\ WF_pc(HandlerMoves)
  /\ WF_vars(Deadline /\ UNCHANGED browser)
  /\ WF_vars(Forward \/ TryFiles \/ Relay)
  /\ WF_vars(Receive)

Spec == Init /\ [][Next]_vars /\ Fairness

-----------------------------------------------------------------------------
TypeOK ==
  /\ ApiTypeOK
  /\ at \in {"idle", "sent", "forwarded", "answered", "settled"}
  /\ answer.status \in 200..504 \cup {0}
  /\ outcome.kind \in {"none", "data", "undefined", "error", "syntaxError", "aborted",
                       "networkError"}
  /\ call = NoCall <=> at = "idle"
  /\ outcome.kind = "none" <=> at # "settled"

\* What the caller of client.ts may believe.  Data, or undefined, comes from the
\* handler of the operation it called, is a success and in answer to a request
\* that passed every check; and an ApiRequestError is no success.
CallersTold ==
  at = "settled" =>
    LET r == RequestOf(call) IN
    /\ outcome.kind \in {"data", "undefined"} =>
         /\ op \in implemented
         /\ written[1].by = "handler"
         /\ written[1].status \in 200..299
         /\ r.path = Filled(Operation[op].route, args)
         /\ Operation[op].security = Secured => call.session
    /\ outcome.kind = "error" => outcome.status \notin 200..299

\* client.ts parses the text before it looks at the status.  The SyntaxError that
\* comes of it hides either an operation that does not exist or a file: never the
\* error of an operation, whose status and body an ApiRequestError carries.
\* (Behind nginx it hides index.html, see ReachesServer.)
ErrorsAreNotHidden ==
  outcome.kind = "syntaxError" /\ call.via = "vite" =>
    \/ \A o \in DOMAIN Operation : ~Means(RequestOf(call), o)
    \/ op \in {"DownloadExportTask", "ExportAuditLogs", "SqlExport"} /\ outcome.status = 200

\* Every call settles: the server answers by its deadline at the latest, and the
\* client makes something of whatever it gets.
CallsSettle == at = "sent" ~> at = "settled"

\* client.ts:2 says that the paths under /v1 reach the server, in development
\* through Vite's proxy and in production through nginx: a call through nginx that
\* settles with an answer has reached the server.
ReachesServer ==
  call.via = "nginx" /\ outcome.kind \in {"data", "undefined", "error", "syntaxError"} =>
    request # NoRequest
=============================================================================
