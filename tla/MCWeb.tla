--------------------------------- MODULE MCWeb ---------------------------------
\* The requests and calls of the model: for every operation the plain one, and
\* the plain one with one thing changed.
EXTENDS Web

MCKeyWords == {"p1", "me", "nu", "aa", "bb", "admin"}

\* The program, and a program in which every operation is implemented.
MCHandlers == {{"Healthz", "Readyz", "ListProjects"}, DOMAIN Operation}

GoodValues(o) ==
  LET path == SelectSeq(Operation[o].params, LAMBDA p : p.in = "path") IN
  [i \in DOMAIN path |-> IF path[i].check = "role" THEN <<"admin">> ELSE <<"p1">>]

\* No key, me, me and more, with separators, with escaped ones, empty.
OddValues ==
  {<<"X">>, <<"me">>, <<"me", "nu">>, <<"aa", "/", "bb">>, <<"aa", ":", "bb">>,
   <<"aa", "%3A", "bb">>, <<"aa", "%2F">>, <<>>}

Path(o, values) == Filled(Operation[o].route, values)
PlainPath(o)    == Path(o, GoodValues(o))

Plain(o) ==
  [method |-> Operation[o].method, path |-> PlainPath(o), cred |-> {"bearer"},
   bad |-> {}, body |-> "good"]

OddPaths(o) ==
  {Path(o, [GoodValues(o) EXCEPT ![i] = v]) : i \in DOMAIN GoodValues(o), v \in OddValues}
  \cup {Append(PlainPath(o), "/"), Append(PlainPath(o), "nu"), Front(PlainPath(o))}

RequestsFor(o) ==
  {Plain(o)}
  \cup {[Plain(o) EXCEPT !.path = p] : p \in OddPaths(o)}
  \cup {[Plain(o) EXCEPT !.cred = c] : c \in {{}, {"cookie"}}}
  \cup {[Plain(o) EXCEPT !.bad = {n}] : n \in Checked(Operation[o].params)}
  \cup {[Plain(o) EXCEPT !.body = b] : b \in Body}
  \cup {[Plain(o) EXCEPT !.method = m] : m \in {"OPTIONS", "PUT", "PATCH", "DELETE"}}

MCRequests == UNION {RequestsFor(o) : o \in DOMAIN Operation}

CallsOf(o) ==
  {[via |-> v, method |-> Operation[o].method, path |-> p, session |-> s, bad |-> w,
    body |-> b] :
     v \in {"vite", "nginx"}, w \in {{}} \cup {{n} : n \in Checked(Operation[o].params)},
     p \in {PlainPath(o), Append(PlainPath(o), "nu")},
     s \in BOOLEAN, b \in IF Operation[o].method \in {"GET", "DELETE"}
             THEN {"absent"} ELSE {"good", "absent", "garbage"}}

MCCalls == UNION {CallsOf(o) : o \in DOMAIN Operation \ {"Healthz", "Readyz"}}
=============================================================================
