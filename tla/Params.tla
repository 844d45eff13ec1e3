-------------------------------- MODULE Params --------------------------------
(***************************************************************************)
(* What the decoders of backend/internal/oas/oas_parameters_gen.go make of *)
(* the path, the query and the headers of a request: the parameters of     *)
(* every operation, in the order they are decoded, and what is checked of  *)
(* each.                                                                   *)
(***************************************************************************)
EXTENDS Naturals, Sequences

\* Words that match ^[a-z][a-z0-9-]{1,62}$, the pattern of keys.
CONSTANT KeyWords

\* A path parameter is required; a key matches the pattern, a role is an enum.
Name(n) == [in |-> "path", name |-> n, check |-> "any"]
Key(n)  == [in |-> "path", name |-> n, check |-> "key"]
Role(n) == [in |-> "path", name |-> n, check |-> "role"]

\* Query and header parameters are optional.  A page_size is a number from 1 to
\* 5000, force a Boolean, state one of an enum; nothing is wrong with the others.
Query(n, check) == [in |-> "query", name |-> n, check |-> check]
Header(n)       == [in |-> "header", name |-> n, check |-> "any"]

NoParams == <<>>

\* The query parameters that can be wrong.
Checked(params) ==
  {params[i].name : i \in {j \in DOMAIN params :
                             params[j].in = "query" /\ params[j].check # "any"}}

\* Words of a path in which %3A and %2F stand for ":" and "/".
Unescape(word) == CASE word = "%3A" -> ":" [] word = "%2F" -> "/" [] OTHER -> word
Unescaped(value) == [i \in DOMAIN value |-> Unescape(value[i])]

IsKey(value)  == \A i \in DOMAIN value : value[i] \in KeyWords
IsRole(value) == value \in {<<"admin">>, <<"readonly">>}

Satisfies(value, check) ==
  /\ value # <<>>
  /\ check = "key" => IsKey(value)
  /\ check = "role" => IsRole(value)

\* Mutant: the path parameters are not validated.
DecodesAny(params, args, bad) == Checked(params) \cap bad = {}

\* decode...Params with the arguments the router cut out of the path, the first
\* parameters of every decoder, where bad are the query parameters whose text is
\* not of the type or out of its range.
Decodes(params, args, bad) ==
  /\ \A i \in DOMAIN params :
       params[i].in = "path" => Satisfies(Unescaped(args[i]), params[i].check)
  /\ Checked(params) \cap bad = {}

-----------------------------------------------------------------------------
AddGroupMemberParams == <<Name("group"), Header("X-Csrf-Token")>>
AuthLoginParams == <<Header("X-Request-Id")>>
ChangeMyPasswordParams == <<Header("X-Csrf-Token")>>
CreateDataSourceParams ==
  <<Key("project"), Key("instance"), Role("dataSource"), Header("X-Csrf-Token")>>
CreateEnvironmentParams == <<Key("environment"), Header("X-Csrf-Token")>>
CreateExportTaskParams ==
  <<Key("project"), Header("X-Request-Id"), Header("X-Csrf-Token")>>
CreateGroupParams == <<Header("X-Request-Id"), Header("X-Csrf-Token")>>
CreateIdentityProviderParams == <<Name("idp"), Header("X-Csrf-Token")>>
CreateInstanceParams ==
  <<Key("project"), Header("X-Request-Id"), Header("X-Csrf-Token")>>
CreateProjectParams == <<Header("X-Request-Id"), Header("X-Csrf-Token")>>
CreateUserParams == <<Header("X-Request-Id"), Header("X-Csrf-Token")>>
CreateWorksheetParams ==
  <<Key("project"), Header("X-Request-Id"), Header("X-Csrf-Token")>>
DeleteDataSourceParams ==
  <<Key("project"), Key("instance"), Role("dataSource"), Header("X-Csrf-Token")>>
DeleteEnvironmentParams == <<Key("environment"), Header("X-Csrf-Token")>>
DeleteGroupParams == <<Name("group"), Header("X-Csrf-Token")>>
DeleteIdentityProviderParams == <<Name("idp"), Header("X-Csrf-Token")>>
DeleteInstanceParams == <<Key("project"), Key("instance"), Header("X-Csrf-Token")>>
DeleteProjectParams ==
  <<Key("project"), Query("force", "bool"), Header("X-Csrf-Token")>>
DeleteUserParams == <<Name("user"), Header("X-Csrf-Token")>>
DeleteWorksheetParams == <<Key("project"), Name("worksheet"), Header("X-Csrf-Token")>>
DownloadExportTaskParams == <<Key("project"), Name("task"), Header("X-Csrf-Token")>>
ExportAuditLogsParams == <<Header("X-Csrf-Token")>>
FavoriteWorksheetParams == <<Key("project"), Name("worksheet"), Header("X-Csrf-Token")>>
GetDatabaseParams == <<Key("project"), Key("instance"), Name("database")>>
GetEnvironmentPolicyParams == <<Key("environment")>>
GetExportTaskParams == <<Key("project"), Name("task")>>
GetGroupParams == <<Name("group")>>
GetIdentityProviderParams == <<Name("idp")>>
GetInstanceParams == <<Key("project"), Key("instance")>>
GetProjectParams == <<Key("project")>>
GetSettingParams == <<Name("key")>>
GetUserParams == <<Name("user")>>
GetWorksheetParams == <<Key("project"), Name("worksheet")>>
ListDatabasesParams ==
  <<Key("project"), Key("instance"), Query("page_size", "pageSize"),
    Query("page_token", "any")>>
ListExportTasksParams ==
  <<Key("project"), Query("state", "taskState"), Query("page_size", "pageSize"),
    Query("page_token", "any")>>
ListGroupMembersParams ==
  <<Name("group"), Query("page_size", "pageSize"), Query("page_token", "any")>>
ListGroupsParams == <<Query("page_size", "pageSize"), Query("page_token", "any")>>
ListInstancesParams ==
  <<Key("project"), Query("page_size", "pageSize"), Query("page_token", "any")>>
ListMyFavoritesParams == <<Query("page_size", "pageSize"), Query("page_token", "any")>>
ListMyNotificationsParams ==
  <<Query("page_size", "pageSize"), Query("page_token", "any")>>
ListProjectsParams == <<Query("page_size", "pageSize"), Query("page_token", "any")>>
ListUsersParams == <<Query("page_size", "pageSize"), Query("page_token", "any")>>
MarkAllNotificationsReadParams == <<Header("X-Csrf-Token")>>
MarkNotificationReadParams == <<Name("id"), Header("X-Csrf-Token")>>
QueryHistoriesSearchParams ==
  <<Query("database", "any"), Query("keyword", "any"),
    Query("page_size", "pageSize"), Query("page_token", "any")>>
RegenerateMyMfaParams == <<Header("X-Csrf-Token")>>
RemoveGroupMemberParams == <<Name("group"), Name("member"), Header("X-Csrf-Token")>>
SearchWorksheetsParams ==
  <<Key("project"), Query("keyword", "any"), Query("database", "any"),
    Query("page_size", "pageSize"), Query("page_token", "any")>>
SetIamPolicyParams == <<Header("X-Csrf-Token")>>
SqlExportParams ==
  <<Key("project"), Key("instance"), Name("database"), Header("X-Csrf-Token")>>
SqlQueryParams ==
  <<Key("project"), Key("instance"), Name("database"), Header("X-Csrf-Token")>>
SyncDatabaseSchemaParams ==
  <<Key("project"), Key("instance"), Name("database"), Header("X-Csrf-Token")>>
SyncInstanceParams == <<Key("project"), Key("instance"), Header("X-Csrf-Token")>>
TestIdentityProviderParams == <<Name("idp"), Header("X-Csrf-Token")>>
TestInstanceConnectionParams ==
  <<Key("project"), Key("instance"), Header("X-Csrf-Token")>>
UndeleteProjectParams == <<Key("project"), Header("X-Csrf-Token")>>
UndeleteUserParams == <<Name("user"), Header("X-Csrf-Token")>>
UnfavoriteWorksheetParams ==
  <<Key("project"), Name("worksheet"), Header("X-Csrf-Token")>>
UpdateDataSourceParams ==
  <<Key("project"), Key("instance"), Role("dataSource"), Header("X-Csrf-Token"),
    Query("update_mask", "any")>>
UpdateDatabaseParams ==
  <<Key("project"), Key("instance"), Name("database"), Header("X-Csrf-Token"),
    Query("update_mask", "any")>>
UpdateEnvironmentParams ==
  <<Key("environment"), Header("X-Csrf-Token"), Query("update_mask", "any")>>
UpdateEnvironmentPolicyParams ==
  <<Key("environment"), Header("X-Csrf-Token"), Query("update_mask", "any")>>
UpdateGroupParams ==
  <<Name("group"), Header("X-Csrf-Token"), Query("update_mask", "any")>>
UpdateIdentityProviderParams ==
  <<Name("idp"), Header("X-Csrf-Token"), Query("update_mask", "any")>>
UpdateInstanceParams ==
  <<Key("project"), Key("instance"), Header("X-Csrf-Token"),
    Query("update_mask", "any")>>
UpdateProjectParams ==
  <<Key("project"), Header("X-Csrf-Token"), Query("update_mask", "any")>>
UpdateSettingParams == <<Name("key"), Header("X-Csrf-Token")>>
UpdateUserParams ==
  <<Name("user"), Header("X-Csrf-Token"), Query("update_mask", "any")>>
UpdateWorksheetParams ==
  <<Key("project"), Name("worksheet"), Header("If-Match"), Header("X-Csrf-Token")>>
=============================================================================
