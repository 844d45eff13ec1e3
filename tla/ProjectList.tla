----------------------------- MODULE ProjectList -----------------------------
(***************************************************************************)
(* GET /v1/projects: the handler (backend/internal/api/handler.go), the    *)
(* service (backend/internal/service/project.go) and the repository        *)
(* (backend/internal/service/project_postgres.go), called by clients that  *)
(* follow next_page_token while other sessions create, soft-delete and     *)
(* restore projects, and while requests fail and answers get lost.         *)
(*                                                                         *)
(* The server keeps nothing between two requests: the key of the last row  *)
(* it returned, handed to the client as next_page_token, is all there is   *)
(* of a walk.  Keys are numbers, ordered as the database orders them; 0 is *)
(* the empty token.                                                        *)
(***************************************************************************)
EXTENDS Integers, FiniteSets

CONSTANTS
  Client,          \* the clients
  MaxKey,          \* bound on the keys of projects
  DefaultPageSize, \* 50 in the code
  MaxPageSize,     \* 5000 in the code
  NoSize,          \* the request has no page_size
  AskedSize,       \* the values of page_size that clients send
  MaxFaults        \* bound on failing requests and lost answers

ASSUME ProjectListAssumption ==
  /\ MaxKey \in Nat
  /\ DefaultPageSize \in Nat \ {0}
  /\ MaxPageSize \in Nat
  /\ DefaultPageSize <= MaxPageSize
  /\ AskedSize \subseteq Int
  /\ NoSize \notin Int
  /\ MaxFaults \in Nat

Key == 1..MaxKey

VARIABLES
  projects, \* the table: each key's row is "absent", "live" or "deleted"
  cpc,      \* where each client stands
  token,    \* the page_token of its next request, 0 for none
  limit,    \* the limit of its request as the repository gets it
  page,     \* the keys of the answer under way
  next,     \* its next_page_token, 0 when it is omitted
  seen,     \* the keys the client was given in this walk
  steady,   \* history: the keys live ever since the walk began
  ever,     \* history: the keys live at some time of the walk
  faults    \* faults so far, at most MaxFaults

vars == <<projects, cpc, token, limit, page, next, seen, steady, ever, faults>>

TypeOK ==
  /\ projects \in [Key -> {"absent", "live", "deleted"}]
  /\ cpc \in [Client -> {"idle", "ready", "sent", "answered", "ended"}]
  /\ token \in [Client -> 0..MaxKey]
  /\ limit \in [Client -> 1..MaxPageSize]
  /\ page \in [Client -> SUBSET Key]
  /\ next \in [Client -> 0..MaxKey]
  /\ seen \in [Client -> SUBSET Key]
  /\ steady \in [Client -> SUBSET Key]
  /\ ever \in [Client -> SUBSET Key]
  /\ faults \in 0..MaxFaults

Init ==
  /\ projects \in [Key -> {"absent", "live"}]
  /\ cpc = [c \in Client |-> "idle"]
  /\ token = [c \in Client |-> 0]
  /\ limit = [c \in Client |-> DefaultPageSize]
  /\ page = [c \in Client |-> {}]
  /\ next = [c \in Client |-> 0]
  /\ seen = [c \in Client |-> {}]
  /\ steady = [c \in Client |-> {}]
  /\ ever = [c \in Client |-> {}]
  /\ faults = 0

Goto(c, from, to) ==
  /\ cpc[c] = from
  /\ cpc' = [cpc EXCEPT ![c] = to]

Fault ==
  /\ faults < MaxFaults
  /\ faults' = faults + 1

-----------------------------------------------------------------------------
(* The request: decoding, the service's bounds.                            *)

\* The decoder rejects a page_size outside 1..MaxPageSize with 400.
Accepted(size) == size = NoSize \/ size \in 1..MaxPageSize

\* Mutant: nobody replaces a page_size that is missing.
LimitUnset(size) == IF size = NoSize THEN 0 ELSE size

\* The handler's default and the service's normalisation.
Limit(size) ==
  IF size = NoSize \/ size \notin 1..MaxPageSize THEN DefaultPageSize ELSE size

-----------------------------------------------------------------------------
(* The repository: one SELECT of limit + 1 rows.                           *)

Live == {k \in Key : projects[k] = "live"}

\* Mutants: key >= token, no deleted_at IS NULL.
LiveFrom(t) == {k \in Live : t <= k}
RowsAfter(t) == {k \in Key : projects[k] # "absent" /\ t < k}

\* WHERE deleted_at IS NULL AND key > token
LiveAfter(t) == {k \in Live : t < k}

\* The first n members of S: ORDER BY key LIMIT n.
IsFirst(rows, n, S) ==
  /\ rows \subseteq S
  /\ \A k \in rows, j \in S \ rows : k < j
  /\ Cardinality(rows) <= n
  /\ rows = S \/ Cardinality(rows) = n

Greatest(S) == CHOOSE k \in S : \A j \in S : j <= k

\* Mutant: the probe row is returned as well.
KeptProbe(rows, n) == rows

\* A row beyond the limit is only a probe and is dropped.
Kept(rows, n) == IF Cardinality(rows) > n THEN rows \ {Greatest(rows)} ELSE rows

\* Mutant: the token is the key of the dropped row.
ProbeToken(rows, n) == IF Cardinality(rows) > n THEN Greatest(rows) ELSE 0

\* The next page resumes after the last row returned.
NextToken(rows, n) ==
  IF Cardinality(rows) > n THEN Greatest(Kept(rows, n)) ELSE 0

-----------------------------------------------------------------------------
(* A client's walk.                                                        *)

Begin(c) ==
  /\ cpc[c] \in {"idle", "ended"}
  /\ cpc' = [cpc EXCEPT ![c] = "ready"]
  /\ token' = [token EXCEPT ![c] = 0]
  /\ seen' = [seen EXCEPT ![c] = {}]
  /\ steady' = [steady EXCEPT ![c] = Live]
  /\ ever' = [ever EXCEPT ![c] = Live]
  /\ UNCHANGED <<projects, limit, page, next, faults>>

\* The request passes the decoder; its size may differ from page to page.
Request(c) ==
  /\ Goto(c, "ready", "sent")
  /\ \E size \in AskedSize \cup {NoSize} :
       /\ Accepted(size)
       /\ limit' = [limit EXCEPT ![c] = Limit(size)]
  /\ UNCHANGED <<projects, token, page, next, seen, steady, ever, faults>>

\* 400: the client gives its walk up.
Reject(c) ==
  /\ Goto(c, "ready", "idle")
  /\ \E size \in AskedSize : ~Accepted(size)
  /\ UNCHANGED <<projects, token, limit, page, next, seen, steady, ever, faults>>

\* BunProjectRepo.List reads its rows in one statement.
Query(c) ==
  /\ Goto(c, "sent", "answered")
  /\ \E rows \in SUBSET LiveAfter(token[c]) :
       /\ IsFirst(rows, limit[c] + 1, LiveAfter(token[c]))
       /\ page' = [page EXCEPT ![c] = Kept(rows, limit[c])]
       /\ next' = [next EXCEPT ![c] = NextToken(rows, limit[c])]
  /\ UNCHANGED <<projects, token, limit, seen, steady, ever, faults>>

\* The query fails (500) or is cancelled by the timeout middleware, and the
\* client sends its request again.
QueryFails(c) ==
  /\ Goto(c, "sent", "ready")
  /\ Fault
  /\ UNCHANGED <<projects, token, limit, page, next, seen, steady, ever>>

\* The answer reaches the client, which stops when it has no next_page_token.
Deliver(c) ==
  /\ Goto(c, "answered", IF next[c] = 0 THEN "ended" ELSE "ready")
  /\ seen' = [seen EXCEPT ![c] = @ \cup page[c]]
  /\ token' = [token EXCEPT ![c] = IF next[c] = 0 THEN @ ELSE next[c]]
  /\ UNCHANGED <<projects, limit, page, next, steady, ever, faults>>

\* The answer is lost on its way; the client asks for the same page again.
LoseAnswer(c) ==
  /\ Goto(c, "answered", "ready")
  /\ Fault
  /\ UNCHANGED <<projects, token, limit, page, next, seen, steady, ever>>

-----------------------------------------------------------------------------
(* Other sessions.  A key is never used twice: projects.key is UNIQUE over *)
(* deleted rows too.                                                       *)

Appear(k, from) ==
  /\ projects[k] = from
  /\ projects' = [projects EXCEPT ![k] = "live"]
  /\ ever' = [c \in Client |-> ever[c] \cup {k}]
  /\ UNCHANGED <<cpc, token, limit, page, next, seen, steady, faults>>

Create(k)  == Appear(k, "absent")
Restore(k) == Appear(k, "deleted")

SoftDelete(k) ==
  /\ projects[k] = "live"
  /\ projects' = [projects EXCEPT ![k] = "deleted"]
  /\ steady' = [c \in Client |-> steady[c] \ {k}]
  /\ UNCHANGED <<cpc, token, limit, page, next, seen, ever, faults>>

-----------------------------------------------------------------------------
Next ==
  \/ \E c \in Client :
       \/ Begin(c) \/ Request(c) \/ Reject(c)
       \/ Query(c) \/ QueryFails(c)
       \/ Deliver(c) \/ LoseAnswer(c)
  \/ \E k \in Key : Create(k) \/ Restore(k) \/ SoftDelete(k)

Spec == Init /\ [][Next]_vars

-----------------------------------------------------------------------------
\* A walk that ended has returned every project that was there throughout,
\* although nothing but a key carried it from page to page.
WalkIsComplete ==
  \A c \in Client : cpc[c] = "ended" => steady[c] \subseteq seen[c]

\* No answer repeats a project of an earlier page, however often pages are
\* asked for again.
NoRepeats ==
  \A c \in Client : cpc[c] = "answered" => page[c] \cap seen[c] = {}

\* A client is given only projects that were there at some time of its walk:
\* neither a deleted row nor a stale one comes back.
OnlyExisting == \A c \in Client : seen[c] \subseteq ever[c]

\* A next_page_token is given only with a full page, and then at least one
\* more project was there when the page was read.
TokenMeansMore ==
  \A c \in Client : cpc[c] = "answered" =>
    /\ Cardinality(page[c]) <= limit[c]
    /\ next[c] # 0 => /\ Cardinality(page[c]) = limit[c]
                      /\ \E k \in ever[c] : next[c] < k

\* The keys a client is given only go up, across pages as well as in them.
KeysGoUp ==
  [][\A c \in Client : \A k \in seen'[c] \ seen[c], j \in seen[c] \cap seen'[c] :
       j < k]_vars

\* What listing promises, whatever happens to requests and rows.
W == INSTANCE Walk WITH
       walk <- [c \in Client |->
                 IF cpc[c] \in {"idle", "ended"} THEN cpc[c] ELSE "walking"],
       cursor <- token

ImplementsWalk == W!Spec
=============================================================================
