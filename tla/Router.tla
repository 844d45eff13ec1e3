-------------------------------- MODULE Router ---------------------------------
(***************************************************************************)
(* Server.ServeHTTP of the generated HTTP layer                            *)
(* (backend/internal/oas/oas_router_gen.go): a trie that cuts one prefix   *)
(* after the other off the path, keeps what it cuts at a parameter, and    *)
(* dispatches on the method where nothing is left of the path.             *)
(*                                                                         *)
(* A path is a sequence of tokens: "/", ":" and words.  Words that follow  *)
(* one another are one word of the URL, so "me" "nu" is menu; a "%3A" or   *)
(* "%2F" is a word as well, for the trie looks at the escaped path.  No    *)
(* two literals of the trie share a first letter without sharing a node,   *)
(* so a literal is one token here wherever the trie splits it.             *)
(***************************************************************************)
EXTENDS Integers, Sequences, SequencesExt

NotFound   == [kind |-> "notFound"]
NotAllowed == [kind |-> "notAllowed"]
To(op, args) == [kind |-> "operation", op |-> op, args |-> args]

\* Nothing is left of the path: dispatch on the method.
Dispatch(method, ops, args) ==
  IF method \in DOMAIN ops THEN To(ops[method], args) ELSE NotAllowed

\* elem[:idx] and elem[idx:] at the first of the stop characters.
Cut(elem, stops) ==
  LET i == SelectInSeq(elem, LAMBDA t : t \in stops)
  IN IF i = 0
       THEN [value |-> elem, rest |-> <<>>]
       ELSE [value |-> SubSeq(elem, 1, i - 1), rest |-> SubSeq(elem, i, Len(elem))]

StartsWith(elem, literal) == IsPrefix(literal, elem)

\* elem without the first n tokens.
After(elem, n) == SubSeq(elem, n + 1, Len(elem))

-----------------------------------------------------------------------------
(* One operator per subtree, of what is left of the path below its prefix.  *)

\* v1/auth, of which the trie has th/csrf, th: and, see RouteAudit, ditLogs:
RouteAuth(m, elem) ==
  CASE elem = <<"/", "csrf">> -> Dispatch(m, [GET |-> "AuthCsrf"], <<>>)
    [] elem = <<":", "login">> -> Dispatch(m, [POST |-> "AuthLogin"], <<>>)
    [] elem = <<":", "logout">> -> Dispatch(m, [POST |-> "AuthLogout"], <<>>)
    [] OTHER -> NotFound

RoutePassword(m, elem) ==
  CASE elem = <<":", "passwordReset", ":", "confirm">> ->
         Dispatch(m, [POST |-> "AuthPasswordResetConfirm"], <<>>)
    [] elem = <<":", "passwordReset", ":", "request">> ->
         Dispatch(m, [POST |-> "AuthPasswordResetRequest"], <<>>)
    [] elem = <<":", "refresh">> -> Dispatch(m, [POST |-> "AuthRefresh"], <<>>)
    [] OTHER -> NotFound

\* v1/auditLogs
RouteAudit(m, elem) ==
  CASE elem = <<":", "export">> -> Dispatch(m, [POST |-> "ExportAuditLogs"], <<>>)
    [] elem = <<":", "search">> -> Dispatch(m, [POST |-> "SearchAuditLogs"], <<>>)
    [] OTHER -> NotFound

\* v1/environments
RouteEnvironments(m, elem) ==
  LET p == Cut(Tail(elem), {"/"}) IN
  CASE elem = <<>> -> Dispatch(m, [GET |-> "ListEnvironments"], <<>>)
    [] StartsWith(elem, <<"/">>) /\ p.rest = <<>> ->
         Dispatch(m, [DELETE |-> "DeleteEnvironment", PATCH |-> "UpdateEnvironment",
                      POST |-> "CreateEnvironment"], <<p.value>>)
    [] StartsWith(elem, <<"/">>) /\ p.rest = <<"/", "policy">> ->
         Dispatch(m, [GET |-> "GetEnvironmentPolicy",
                      PATCH |-> "UpdateEnvironmentPolicy"], <<p.value>>)
    [] OTHER -> NotFound

\* v1/groups
RouteGroups(m, elem) ==
  LET p == Cut(Tail(elem), {"/"})
      member == After(p.rest, 3)
  IN
  CASE elem = <<>> ->
         Dispatch(m, [GET |-> "ListGroups", POST |-> "CreateGroup"], <<>>)
    [] StartsWith(elem, <<"/">>) /\ p.rest = <<>> ->
         Dispatch(m, [DELETE |-> "DeleteGroup", GET |-> "GetGroup",
                      PATCH |-> "UpdateGroup"], <<p.value>>)
    [] StartsWith(elem, <<"/">>) /\ p.rest = <<"/", "members">> ->
         Dispatch(m, [GET |-> "ListGroupMembers",
                      POST |-> "AddGroupMember"], <<p.value>>)
    [] /\ StartsWith(elem, <<"/">>) /\ StartsWith(p.rest, <<"/", "members", "/">>)
       /\ ~Contains(member, "/") ->
         Dispatch(m, [DELETE |-> "RemoveGroupMember"], <<p.value, member>>)
    [] OTHER -> NotFound

\* v1/iam:
RouteIam(m, elem) ==
  CASE elem = <<":", "getIamPolicy">> -> Dispatch(m, [POST |-> "GetIamPolicy"], <<>>)
    [] elem = <<":", "setIamPolicy">> -> Dispatch(m, [POST |-> "SetIamPolicy"], <<>>)
    [] elem = <<":", "testIamPermissions">> ->
         Dispatch(m, [POST |-> "TestIamPermissions"], <<>>)
    [] OTHER -> NotFound

\* v1/identityProviders
RouteIdentityProviders(m, elem) ==
  LET p == Cut(Tail(elem), {":"}) IN
  CASE elem = <<>> -> Dispatch(m, [GET |-> "ListIdentityProviders"], <<>>)
    [] StartsWith(elem, <<"/">>) /\ p.rest = <<>> ->
         Dispatch(m, [DELETE |-> "DeleteIdentityProvider", GET |-> "GetIdentityProvider",
                      PATCH |-> "UpdateIdentityProvider",
                      POST |-> "CreateIdentityProvider"], <<p.value>>)
    [] StartsWith(elem, <<"/">>) /\ p.rest = <<":", "test">> ->
         Dispatch(m, [POST |-> "TestIdentityProvider"], <<p.value>>)
    [] OTHER -> NotFound

-----------------------------------------------------------------------------
(* Below v1/projects/{project}/, of which project is the value.             *)

RouteExportTasks(m, elem, project) ==
  LET p == Cut(Tail(elem), {":"}) IN
  CASE elem = <<>> ->
         Dispatch(m, [GET |-> "ListExportTasks", POST |-> "CreateExportTask"], <<project>>)
    [] StartsWith(elem, <<"/">>) /\ p.rest = <<>> ->
         Dispatch(m, [GET |-> "GetExportTask"], <<project, p.value>>)
    [] StartsWith(elem, <<"/">>) /\ p.rest = <<":", "download">> ->
         Dispatch(m, [POST |-> "DownloadExportTask"], <<project, p.value>>)
    [] OTHER -> NotFound

\* .../instances/{instance}/databases/{database}:
RouteSql(m, verb, args) ==
  CASE verb = <<":", "export">> -> Dispatch(m, [POST |-> "SqlExport"], args)
    [] verb = <<":", "query">> -> Dispatch(m, [POST |-> "SqlQuery"], args)
    [] verb = <<":", "syncSchema">> -> Dispatch(m, [POST |-> "SyncDatabaseSchema"], args)
    [] OTHER -> NotFound

\* .../instances/{instance}/databases
RouteDatabases(m, elem, args) ==
  LET p == Cut(Tail(elem), {":"}) IN
  CASE elem = <<>> -> Dispatch(m, [GET |-> "ListDatabases"], args)
    [] StartsWith(elem, <<"/">>) /\ p.rest = <<>> ->
         Dispatch(m, [GET |-> "GetDatabase", PATCH |-> "UpdateDatabase"],
                  Append(args, p.value))
    [] StartsWith(elem, <<"/">>) /\ p.rest # <<>> ->
         RouteSql(m, p.rest, Append(args, p.value))
    [] OTHER -> NotFound

\* .../instances/{instance}/dataSources/
RouteDataSources(m, dataSource, args) ==
  IF Contains(dataSource, "/")
    THEN NotFound
    ELSE Dispatch(m, [DELETE |-> "DeleteDataSource", PATCH |-> "UpdateDataSource",
                      POST |-> "CreateDataSource"], Append(args, dataSource))

\* .../instances/{instance}:
RouteInstanceVerbs(m, verb, args) ==
  CASE verb = <<":", "sync">> -> Dispatch(m, [POST |-> "SyncInstance"], args)
    [] verb = <<":", "testConnection">> ->
         Dispatch(m, [POST |-> "TestInstanceConnection"], args)
    [] OTHER -> NotFound

RouteInstances(m, elem, project) ==
  LET p == Cut(Tail(elem), {"/", ":"})
      args == <<project, p.value>>
  IN
  CASE elem = <<>> ->
         Dispatch(m, [GET |-> "ListInstances", POST |-> "CreateInstance"], <<project>>)
    [] StartsWith(elem, <<"/">>) /\ p.rest = <<>> ->
         Dispatch(m, [DELETE |-> "DeleteInstance", GET |-> "GetInstance",
                      PATCH |-> "UpdateInstance"], args)
    [] StartsWith(elem, <<"/">>) /\ StartsWith(p.rest, <<"/", "dataSources", "/">>) ->
         RouteDataSources(m, After(p.rest, 3), args)
    [] StartsWith(elem, <<"/">>) /\ StartsWith(p.rest, <<"/", "databases">>) ->
         RouteDatabases(m, After(p.rest, 2), args)
    [] StartsWith(elem, <<"/">>) /\ StartsWith(p.rest, <<":">>) ->
         RouteInstanceVerbs(m, p.rest, args)
    [] OTHER -> NotFound

RouteWorksheetVerbs(m, verb, args) ==
  CASE verb = <<":", "favorite">> -> Dispatch(m, [POST |-> "FavoriteWorksheet"], args)
    [] verb = <<":", "unfavorite">> -> Dispatch(m, [POST |-> "UnfavoriteWorksheet"], args)
    [] OTHER -> NotFound

RouteWorksheets(m, elem, project) ==
  LET p == Cut(Tail(elem), {":"})
      args == <<project, p.value>>
  IN
  CASE elem = <<>> -> Dispatch(m, [POST |-> "CreateWorksheet"], <<project>>)
    [] elem = <<":", "search">> -> Dispatch(m, [GET |-> "SearchWorksheets"], <<project>>)
    [] StartsWith(elem, <<"/">>) /\ p.rest = <<>> ->
         Dispatch(m, [DELETE |-> "DeleteWorksheet", GET |-> "GetWorksheet",
                      PATCH |-> "UpdateWorksheet"], args)
    [] StartsWith(elem, <<"/">>) /\ p.rest # <<>> ->
         RouteWorksheetVerbs(m, p.rest, args)
    [] OTHER -> NotFound

\* v1/projects
RouteProjects(m, elem) ==
  LET p == Cut(Tail(elem), {"/", ":"})
      below(word) == /\ StartsWith(elem, <<"/">>)
                     /\ StartsWith(p.rest, <<"/", word>>)
      rest == After(p.rest, 2)
  IN
  CASE elem = <<>> ->
         Dispatch(m, [GET |-> "ListProjects", POST |-> "CreateProject"], <<>>)
    [] StartsWith(elem, <<"/">>) /\ p.rest = <<>> ->
         Dispatch(m, [DELETE |-> "DeleteProject", GET |-> "GetProject",
                      PATCH |-> "UpdateProject"], <<p.value>>)
    [] below("exportTasks") -> RouteExportTasks(m, rest, p.value)
    [] below("instances") -> RouteInstances(m, rest, p.value)
    [] below("worksheets") -> RouteWorksheets(m, rest, p.value)
    [] StartsWith(elem, <<"/">>) /\ p.rest = <<":", "undelete">> ->
         Dispatch(m, [POST |-> "UndeleteProject"], <<p.value>>)
    [] OTHER -> NotFound

-----------------------------------------------------------------------------
\* v1/settings/{key}
RouteSettings(m, elem) ==
  IF StartsWith(elem, <<"/">>) /\ ~Contains(Tail(elem), "/")
    THEN Dispatch(m, [GET |-> "GetSetting", PATCH |-> "UpdateSetting"], <<Tail(elem)>>)
    ELSE NotFound

\* v1/users/me/notifications
RouteNotifications(m, elem) ==
  LET p == Cut(Tail(elem), {":"}) IN
  CASE elem = <<>> -> Dispatch(m, [GET |-> "ListMyNotifications"], <<>>)
    [] StartsWith(elem, <<"/">>) /\ p.rest = <<":", "markRead">> ->
         Dispatch(m, [POST |-> "MarkNotificationRead"], <<p.value>>)
    [] elem = <<":", "markAllRead">> ->
         Dispatch(m, [POST |-> "MarkAllNotificationsRead"], <<>>)
    [] elem = <<":", "unreadCount">> ->
         Dispatch(m, [GET |-> "GetUnreadNotificationCount"], <<>>)
    [] OTHER -> NotFound

\* v1/users/me, below the prefix
RouteMe(m, elem) ==
  CASE elem = <<"/", "favorites">> -> Dispatch(m, [GET |-> "ListMyFavorites"], <<>>)
    [] StartsWith(elem, <<"/", "notifications">>) -> RouteNotifications(m, After(elem, 2))
    [] elem = <<":", "mfa", ":", "regenerate">> ->
         Dispatch(m, [POST |-> "RegenerateMyMfa"], <<>>)
    [] elem = <<":", "password">> -> Dispatch(m, [POST |-> "ChangeMyPassword"], <<>>)
    [] OTHER -> NotFound

\* v1/users/{user}
RouteUser(m, elem) ==
  LET p == Cut(elem, {":"}) IN
  CASE p.rest = <<>> ->
         Dispatch(m, [DELETE |-> "DeleteUser", GET |-> "GetUser",
                      PATCH |-> "UpdateUser"], <<p.value>>)
    [] p.rest = <<":", "undelete">> ->
         Dispatch(m, [POST |-> "UndeleteUser"], <<p.value>>)
    [] OTHER -> NotFound

\* Mutant: the path is not restored when nothing matches below v1/users/me.
RouteUsersCut(m, elem) ==
  LET name == Tail(elem)
      mine == RouteMe(m, Tail(name))
  IN
  CASE elem = <<>> ->
         Dispatch(m, [GET |-> "ListUsers", POST |-> "CreateUser"], <<>>)
    [] StartsWith(elem, <<"/", "me">>) ->
         IF mine # NotFound THEN mine ELSE RouteUser(m, Tail(name))
    [] StartsWith(elem, <<"/">>) /\ Len(elem) > 1 /\ name[1] # "me" -> RouteUser(m, name)
    [] OTHER -> NotFound

\* v1/users: the one place where a literal and a parameter compete.  What does
\* not match below "me" starts over as {user} with elem = origElem, except that
\* the break at the end of the path skips it: users/me leaves {user} empty.
RouteUsers(m, elem) ==
  LET name == Tail(elem)
      mine == RouteMe(m, Tail(name))
  IN
  CASE elem = <<>> ->
         Dispatch(m, [GET |-> "ListUsers", POST |-> "CreateUser"], <<>>)
    [] elem = <<"/", "me">> -> RouteUser(m, <<>>)
    [] StartsWith(elem, <<"/", "me">>) /\ Len(elem) > 2 ->
         IF mine # NotFound THEN mine ELSE RouteUser(m, name)
    [] StartsWith(elem, <<"/">>) /\ Len(elem) > 1 /\ name[1] # "me" -> RouteUser(m, name)
    [] OTHER -> NotFound

\* The root of the trie.
ServeHTTP(m, path) ==
  LET elem == After(path, 4)
      under(word) == StartsWith(path, <<"/", "v1", "/", word>>)
  IN
  CASE path = <<"/", "healthz">> -> Dispatch(m, [GET |-> "Healthz"], <<>>)
    [] path = <<"/", "readyz">> -> Dispatch(m, [GET |-> "Readyz"], <<>>)
    [] under("auth") ->
         LET r == RouteAuth(m, elem) IN
         IF r # NotFound THEN r ELSE RoutePassword(m, elem)
    [] under("auditLogs") -> RouteAudit(m, elem)
    [] under("environments") -> RouteEnvironments(m, elem)
    [] under("groups") -> RouteGroups(m, elem)
    [] under("iam") -> RouteIam(m, elem)
    [] under("identityProviders") -> RouteIdentityProviders(m, elem)
    [] under("projects") -> RouteProjects(m, elem)
    [] under("queryHistories") /\ elem = <<":", "search">> ->
         Dispatch(m, [GET |-> "QueryHistoriesSearch"], <<>>)
    [] under("settings") -> RouteSettings(m, elem)
    [] under("users") -> RouteUsers(m, elem)
    [] OTHER -> NotFound
=============================================================================
