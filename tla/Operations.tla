------------------------------ MODULE Operations ------------------------------
(***************************************************************************)
(* The operations of the HTTP API, one definition for the function of      *)
(* backend/internal/oas/oas_handlers_gen.go that serves it: its method and *)
(* route, whether it demands credentials, and which decoders and which     *)
(* encoder it calls. They call them in one order, which is in module Api.  *)
(***************************************************************************)
EXTENDS Params, Bodies, Responses

Secured == TRUE  \* the requirements are bearerAuth, or cookieAuth
Open    == FALSE

\* A route is made of segments after "/" and, at its end, of verbs after ":".
RouteOf(segments, verbs) ==
  [i \in DOMAIN segments |-> <<"/", segments[i]>>]
    \o [i \in DOMAIN verbs |-> <<":", verbs[i]>>]

Handler(method, segments, verbs, security, params, body, response) ==
  [method |-> method, route |-> RouteOf(segments, verbs), security |-> security,
   params |-> params, body |-> body, response |-> response]

Project  == <<"v1", "projects", "{project}">>
Instance == Project \o <<"instances", "{instance}">>

AddGroupMember ==
  Handler("POST", <<"v1", "groups", "{group}", "members">>, <<>>, Secured,
          AddGroupMemberParams, AddGroupMemberRequest,
          AddGroupMemberResponse)
AuthCsrf ==
  Handler("GET", <<"v1", "auth", "csrf">>, <<>>, Open,
          NoParams, NoBody, AuthCsrfResponse)
AuthLogin ==
  Handler("POST", <<"v1", "auth">>, <<"login">>, Open,
          AuthLoginParams, AuthLoginRequest, AuthLoginResponse)
AuthLogout ==
  Handler("POST", <<"v1", "auth">>, <<"logout">>, Secured,
          NoParams, NoBody, AuthLogoutResponse)
AuthPasswordResetConfirm ==
  Handler("POST", <<"v1", "auth">>, <<"passwordReset", "confirm">>, Open,
          NoParams, AuthPasswordResetConfirmRequest,
          AuthPasswordResetConfirmResponse)
AuthPasswordResetRequest ==
  Handler("POST", <<"v1", "auth">>, <<"passwordReset", "request">>, Open,
          NoParams, AuthPasswordResetRequestRequest,
          AuthPasswordResetRequestResponse)
AuthRefresh ==
  Handler("POST", <<"v1", "auth">>, <<"refresh">>, Open,
          NoParams, AuthRefreshRequest, AuthRefreshResponse)
ChangeMyPassword ==
  Handler("POST", <<"v1", "users", "me">>, <<"password">>, Secured,
          ChangeMyPasswordParams, ChangeMyPasswordRequest,
          ChangeMyPasswordResponse)
CreateDataSource ==
  Handler("POST", Instance \o <<"dataSources", "{dataSource}">>, <<>>, Secured,
          CreateDataSourceParams, CreateDataSourceRequest,
          CreateDataSourceResponse)
CreateEnvironment ==
  Handler("POST", <<"v1", "environments", "{environment}">>, <<>>, Secured,
          CreateEnvironmentParams, CreateEnvironmentRequest,
          CreateEnvironmentResponse)
CreateExportTask ==
  Handler("POST", Project \o <<"exportTasks">>, <<>>, Secured,
          CreateExportTaskParams, CreateExportTaskRequest,
          CreateExportTaskResponse)
CreateGroup ==
  Handler("POST", <<"v1", "groups">>, <<>>, Secured,
          CreateGroupParams, CreateGroupRequest, CreateGroupResponse)
CreateIdentityProvider ==
  Handler("POST", <<"v1", "identityProviders", "{idp}">>, <<>>, Secured,
          CreateIdentityProviderParams, CreateIdentityProviderRequest,
          CreateIdentityProviderResponse)
CreateInstance ==
  Handler("POST", Project \o <<"instances">>, <<>>, Secured,
          CreateInstanceParams, CreateInstanceRequest,
          CreateInstanceResponse)
CreateProject ==
  Handler("POST", <<"v1", "projects">>, <<>>, Secured,
          CreateProjectParams, CreateProjectRequest, CreateProjectResponse)
CreateUser ==
  Handler("POST", <<"v1", "users">>, <<>>, Secured,
          CreateUserParams, CreateUserRequest, CreateUserResponse)
CreateWorksheet ==
  Handler("POST", Project \o <<"worksheets">>, <<>>, Secured,
          CreateWorksheetParams, CreateWorksheetRequest,
          CreateWorksheetResponse)
DeleteDataSource ==
  Handler("DELETE", Instance \o <<"dataSources", "{dataSource}">>, <<>>, Secured,
          DeleteDataSourceParams, NoBody, DeleteDataSourceResponse)
DeleteEnvironment ==
  Handler("DELETE", <<"v1", "environments", "{environment}">>, <<>>, Secured,
          DeleteEnvironmentParams, NoBody, DeleteEnvironmentResponse)
DeleteGroup ==
  Handler("DELETE", <<"v1", "groups", "{group}">>, <<>>, Secured,
          DeleteGroupParams, NoBody, DeleteGroupResponse)
DeleteIdentityProvider ==
  Handler("DELETE", <<"v1", "identityProviders", "{idp}">>, <<>>, Secured,
          DeleteIdentityProviderParams, NoBody,
          DeleteIdentityProviderResponse)
DeleteInstance ==
  Handler("DELETE", Project \o <<"instances", "{instance}">>, <<>>, Secured,
          DeleteInstanceParams, NoBody, DeleteInstanceResponse)
DeleteProject ==
  Handler("DELETE", <<"v1", "projects", "{project}">>, <<>>, Secured,
          DeleteProjectParams, NoBody, DeleteProjectResponse)
DeleteUser ==
  Handler("DELETE", <<"v1", "users", "{user}">>, <<>>, Secured,
          DeleteUserParams, NoBody, DeleteUserResponse)
DeleteWorksheet ==
  Handler("DELETE", Project \o <<"worksheets", "{worksheet}">>, <<>>, Secured,
          DeleteWorksheetParams, NoBody, DeleteWorksheetResponse)
DownloadExportTask ==
  Handler("POST", Project \o <<"exportTasks", "{task}">>, <<"download">>, Secured,
          DownloadExportTaskParams, DownloadExportTaskRequest,
          DownloadExportTaskResponse)
ExportAuditLogs ==
  Handler("POST", <<"v1", "auditLogs">>, <<"export">>, Secured,
          ExportAuditLogsParams, ExportAuditLogsRequest,
          ExportAuditLogsResponse)
FavoriteWorksheet ==
  Handler("POST", Project \o <<"worksheets", "{worksheet}">>, <<"favorite">>, Secured,
          FavoriteWorksheetParams, NoBody, FavoriteWorksheetResponse)
GetDatabase ==
  Handler("GET", Instance \o <<"databases", "{database}">>, <<>>, Secured,
          GetDatabaseParams, NoBody, GetDatabaseResponse)
GetEnvironmentPolicy ==
  Handler("GET", <<"v1", "environments", "{environment}", "policy">>, <<>>, Secured,
          GetEnvironmentPolicyParams, NoBody, GetEnvironmentPolicyResponse)
GetExportTask ==
  Handler("GET", Project \o <<"exportTasks", "{task}">>, <<>>, Secured,
          GetExportTaskParams, NoBody, GetExportTaskResponse)
GetGroup ==
  Handler("GET", <<"v1", "groups", "{group}">>, <<>>, Secured,
          GetGroupParams, NoBody, GetGroupResponse)
GetIamPolicy ==
  Handler("POST", <<"v1", "iam">>, <<"getIamPolicy">>, Secured,
          NoParams, GetIamPolicyRequest, GetIamPolicyResponse)
GetIdentityProvider ==
  Handler("GET", <<"v1", "identityProviders", "{idp}">>, <<>>, Secured,
          GetIdentityProviderParams, NoBody, GetIdentityProviderResponse)
GetInstance ==
  Handler("GET", Project \o <<"instances", "{instance}">>, <<>>, Secured,
          GetInstanceParams, NoBody, GetInstanceResponse)
GetProject ==
  Handler("GET", <<"v1", "projects", "{project}">>, <<>>, Secured,
          GetProjectParams, NoBody, GetProjectResponse)
GetSetting ==
  Handler("GET", <<"v1", "settings", "{key}">>, <<>>, Secured,
          GetSettingParams, NoBody, GetSettingResponse)
GetUnreadNotificationCount ==
  Handler("GET", <<"v1", "users", "me", "notifications">>, <<"unreadCount">>, Secured,
          NoParams, NoBody, GetUnreadNotificationCountResponse)
GetUser ==
  Handler("GET", <<"v1", "users", "{user}">>, <<>>, Secured,
          GetUserParams, NoBody, GetUserResponse)
GetWorksheet ==
  Handler("GET", Project \o <<"worksheets", "{worksheet}">>, <<>>, Secured,
          GetWorksheetParams, NoBody, GetWorksheetResponse)
Healthz ==
  Handler("GET", <<"healthz">>, <<>>, Open,
          NoParams, NoBody, HealthzResponse)
ListDatabases ==
  Handler("GET", Instance \o <<"databases">>, <<>>, Secured,
          ListDatabasesParams, NoBody, ListDatabasesResponse)
ListEnvironments ==
  Handler("GET", <<"v1", "environments">>, <<>>, Open,
          NoParams, NoBody, ListEnvironmentsResponse)
ListExportTasks ==
  Handler("GET", Project \o <<"exportTasks">>, <<>>, Secured,
          ListExportTasksParams, NoBody, ListExportTasksResponse)
ListGroupMembers ==
  Handler("GET", <<"v1", "groups", "{group}", "members">>, <<>>, Secured,
          ListGroupMembersParams, NoBody, ListGroupMembersResponse)
ListGroups ==
  Handler("GET", <<"v1", "groups">>, <<>>, Secured,
          ListGroupsParams, NoBody, ListGroupsResponse)
ListIdentityProviders ==
  Handler("GET", <<"v1", "identityProviders">>, <<>>, Open,
          NoParams, NoBody, ListIdentityProvidersResponse)
ListInstances ==
  Handler("GET", Project \o <<"instances">>, <<>>, Secured,
          ListInstancesParams, NoBody, ListInstancesResponse)
ListMyFavorites ==
  Handler("GET", <<"v1", "users", "me", "favorites">>, <<>>, Secured,
          ListMyFavoritesParams, NoBody, ListMyFavoritesResponse)
ListMyNotifications ==
  Handler("GET", <<"v1", "users", "me", "notifications">>, <<>>, Secured,
          ListMyNotificationsParams, NoBody, ListMyNotificationsResponse)
ListProjects ==
  Handler("GET", <<"v1", "projects">>, <<>>, Secured,
          ListProjectsParams, NoBody, ListProjectsResponse)
ListUsers ==
  Handler("GET", <<"v1", "users">>, <<>>, Secured,
          ListUsersParams, NoBody, ListUsersResponse)
MarkAllNotificationsRead ==
  Handler("POST", <<"v1", "users", "me", "notifications">>, <<"markAllRead">>, Secured,
          MarkAllNotificationsReadParams, NoBody,
          MarkAllNotificationsReadResponse)
MarkNotificationRead ==
  Handler("POST", <<"v1", "users", "me", "notifications", "{id}">>, <<"markRead">>,
          Secured, MarkNotificationReadParams, NoBody,
          MarkNotificationReadResponse)
QueryHistoriesSearch ==
  Handler("GET", <<"v1", "queryHistories">>, <<"search">>, Secured,
          QueryHistoriesSearchParams, NoBody, QueryHistoriesSearchResponse)
Readyz ==
  Handler("GET", <<"readyz">>, <<>>, Open,
          NoParams, NoBody, ReadyzResponse)
RegenerateMyMfa ==
  Handler("POST", <<"v1", "users", "me">>, <<"mfa", "regenerate">>, Secured,
          RegenerateMyMfaParams, NoBody, RegenerateMyMfaResponse)
RemoveGroupMember ==
  Handler("DELETE", <<"v1", "groups", "{group}", "members", "{member}">>, <<>>, Secured,
          RemoveGroupMemberParams, NoBody, RemoveGroupMemberResponse)
SearchAuditLogs ==
  Handler("POST", <<"v1", "auditLogs">>, <<"search">>, Secured,
          NoParams, SearchAuditLogsRequest, SearchAuditLogsResponse)
SearchWorksheets ==
  Handler("GET", Project \o <<"worksheets">>, <<"search">>, Secured,
          SearchWorksheetsParams, NoBody, SearchWorksheetsResponse)
SetIamPolicy ==
  Handler("POST", <<"v1", "iam">>, <<"setIamPolicy">>, Secured,
          SetIamPolicyParams, SetIamPolicyRequest, SetIamPolicyResponse)
SqlExport ==
  Handler("POST", Instance \o <<"databases", "{database}">>, <<"export">>, Secured,
          SqlExportParams, SqlExportRequest, SqlExportResponse)
SqlQuery ==
  Handler("POST", Instance \o <<"databases", "{database}">>, <<"query">>, Secured,
          SqlQueryParams, SqlQueryRequest, SqlQueryResponse)
SyncDatabaseSchema ==
  Handler("POST", Instance \o <<"databases", "{database}">>, <<"syncSchema">>, Secured,
          SyncDatabaseSchemaParams, NoBody, SyncDatabaseSchemaResponse)
SyncInstance ==
  Handler("POST", Project \o <<"instances", "{instance}">>, <<"sync">>, Secured,
          SyncInstanceParams, NoBody, SyncInstanceResponse)
TestIamPermissions ==
  Handler("POST", <<"v1", "iam">>, <<"testIamPermissions">>, Secured,
          NoParams, TestIamPermissionsRequest, TestIamPermissionsResponse)
TestIdentityProvider ==
  Handler("POST", <<"v1", "identityProviders", "{idp}">>, <<"test">>, Secured,
          TestIdentityProviderParams, TestIdentityProviderRequest,
          TestIdentityProviderResponse)
TestInstanceConnection ==
  Handler("POST", Project \o <<"instances", "{instance}">>, <<"testConnection">>, Secured,
          TestInstanceConnectionParams, TestInstanceConnectionRequest,
          TestInstanceConnectionResponse)
UndeleteProject ==
  Handler("POST", <<"v1", "projects", "{project}">>, <<"undelete">>, Secured,
          UndeleteProjectParams, NoBody, UndeleteProjectResponse)
UndeleteUser ==
  Handler("POST", <<"v1", "users", "{user}">>, <<"undelete">>, Secured,
          UndeleteUserParams, NoBody, UndeleteUserResponse)
UnfavoriteWorksheet ==
  Handler("POST", Project \o <<"worksheets", "{worksheet}">>, <<"unfavorite">>, Secured,
          UnfavoriteWorksheetParams, NoBody, UnfavoriteWorksheetResponse)
UpdateDataSource ==
  Handler("PATCH", Instance \o <<"dataSources", "{dataSource}">>, <<>>, Secured,
          UpdateDataSourceParams, UpdateDataSourceRequest,
          UpdateDataSourceResponse)
UpdateDatabase ==
  Handler("PATCH", Instance \o <<"databases", "{database}">>, <<>>, Secured,
          UpdateDatabaseParams, UpdateDatabaseRequest,
          UpdateDatabaseResponse)
UpdateEnvironment ==
  Handler("PATCH", <<"v1", "environments", "{environment}">>, <<>>, Secured,
          UpdateEnvironmentParams, UpdateEnvironmentRequest,
          UpdateEnvironmentResponse)
UpdateEnvironmentPolicy ==
  Handler("PATCH", <<"v1", "environments", "{environment}", "policy">>, <<>>, Secured,
          UpdateEnvironmentPolicyParams, UpdateEnvironmentPolicyRequest,
          UpdateEnvironmentPolicyResponse)
UpdateGroup ==
  Handler("PATCH", <<"v1", "groups", "{group}">>, <<>>, Secured,
          UpdateGroupParams, UpdateGroupRequest, UpdateGroupResponse)
UpdateIdentityProvider ==
  Handler("PATCH", <<"v1", "identityProviders", "{idp}">>, <<>>, Secured,
          UpdateIdentityProviderParams, UpdateIdentityProviderRequest,
          UpdateIdentityProviderResponse)
UpdateInstance ==
  Handler("PATCH", Project \o <<"instances", "{instance}">>, <<>>, Secured,
          UpdateInstanceParams, UpdateInstanceRequest,
          UpdateInstanceResponse)
UpdateProject ==
  Handler("PATCH", <<"v1", "projects", "{project}">>, <<>>, Secured,
          UpdateProjectParams, UpdateProjectRequest, UpdateProjectResponse)
UpdateSetting ==
  Handler("PATCH", <<"v1", "settings", "{key}">>, <<>>, Secured,
          UpdateSettingParams, UpdateSettingRequest, UpdateSettingResponse)
UpdateUser ==
  Handler("PATCH", <<"v1", "users", "{user}">>, <<>>, Secured,
          UpdateUserParams, UpdateUserRequest, UpdateUserResponse)
UpdateWorksheet ==
  Handler("PATCH", Project \o <<"worksheets", "{worksheet}">>, <<>>, Secured,
          UpdateWorksheetParams, UpdateWorksheetRequest,
          UpdateWorksheetResponse)

-----------------------------------------------------------------------------
\* All of them, by name.
Operation ==
  [AddGroupMember |-> AddGroupMember, AuthCsrf |-> AuthCsrf, AuthLogin |-> AuthLogin,
   AuthLogout |-> AuthLogout, AuthPasswordResetConfirm |-> AuthPasswordResetConfirm,
   AuthPasswordResetRequest |-> AuthPasswordResetRequest, AuthRefresh |-> AuthRefresh,
   ChangeMyPassword |-> ChangeMyPassword, CreateDataSource |-> CreateDataSource,
   CreateEnvironment |-> CreateEnvironment, CreateExportTask |-> CreateExportTask,
   CreateGroup |-> CreateGroup, CreateIdentityProvider |-> CreateIdentityProvider,
   CreateInstance |-> CreateInstance, CreateProject |-> CreateProject,
   CreateUser |-> CreateUser, CreateWorksheet |-> CreateWorksheet,
   DeleteDataSource |-> DeleteDataSource, DeleteEnvironment |-> DeleteEnvironment,
   DeleteGroup |-> DeleteGroup, DeleteIdentityProvider |-> DeleteIdentityProvider,
   DeleteInstance |-> DeleteInstance, DeleteProject |-> DeleteProject,
   DeleteUser |-> DeleteUser, DeleteWorksheet |-> DeleteWorksheet,
   DownloadExportTask |-> DownloadExportTask, ExportAuditLogs |-> ExportAuditLogs,
   FavoriteWorksheet |-> FavoriteWorksheet, GetDatabase |-> GetDatabase,
   GetEnvironmentPolicy |-> GetEnvironmentPolicy, GetExportTask |-> GetExportTask,
   GetGroup |-> GetGroup, GetIamPolicy |-> GetIamPolicy,
   GetIdentityProvider |-> GetIdentityProvider, GetInstance |-> GetInstance,
   GetProject |-> GetProject, GetSetting |-> GetSetting,
   GetUnreadNotificationCount |-> GetUnreadNotificationCount, GetUser |-> GetUser,
   GetWorksheet |-> GetWorksheet, Healthz |-> Healthz, ListDatabases |-> ListDatabases,
   ListEnvironments |-> ListEnvironments, ListExportTasks |-> ListExportTasks,
   ListGroupMembers |-> ListGroupMembers, ListGroups |-> ListGroups,
   ListIdentityProviders |-> ListIdentityProviders, ListInstances |-> ListInstances,
   ListMyFavorites |-> ListMyFavorites, ListMyNotifications |-> ListMyNotifications,
   ListProjects |-> ListProjects, ListUsers |-> ListUsers,
   MarkAllNotificationsRead |-> MarkAllNotificationsRead,
   MarkNotificationRead |-> MarkNotificationRead,
   QueryHistoriesSearch |-> QueryHistoriesSearch, Readyz |-> Readyz,
   RegenerateMyMfa |-> RegenerateMyMfa, RemoveGroupMember |-> RemoveGroupMember,
   SearchAuditLogs |-> SearchAuditLogs, SearchWorksheets |-> SearchWorksheets,
   SetIamPolicy |-> SetIamPolicy, SqlExport |-> SqlExport, SqlQuery |-> SqlQuery,
   SyncDatabaseSchema |-> SyncDatabaseSchema, SyncInstance |-> SyncInstance,
   TestIamPermissions |-> TestIamPermissions,
   TestIdentityProvider |-> TestIdentityProvider,
   TestInstanceConnection |-> TestInstanceConnection,
   UndeleteProject |-> UndeleteProject, UndeleteUser |-> UndeleteUser,
   UnfavoriteWorksheet |-> UnfavoriteWorksheet, UpdateDataSource |-> UpdateDataSource,
   UpdateDatabase |-> UpdateDatabase, UpdateEnvironment |-> UpdateEnvironment,
   UpdateEnvironmentPolicy |-> UpdateEnvironmentPolicy, UpdateGroup |-> UpdateGroup,
   UpdateIdentityProvider |-> UpdateIdentityProvider,
   UpdateInstance |-> UpdateInstance, UpdateProject |-> UpdateProject,
   UpdateSetting |-> UpdateSetting, UpdateUser |-> UpdateUser,
   UpdateWorksheet |-> UpdateWorksheet]

\* The parts of a route that a parameter takes the place of.
Placeholder ==
  {"{dataSource}", "{database}", "{environment}", "{group}", "{idp}", "{id}",
   "{instance}", "{key}", "{member}", "{project}", "{task}", "{user}", "{worksheet}"}

\* The operations in the tables of roles, the same for both kinds of credentials:
\* what the security handler is told about an operation.
RolesKnown ==
  {"AddGroupMember", "AuthLogout", "ChangeMyPassword", "CreateDataSource",
   "CreateEnvironment", "CreateExportTask", "CreateGroup", "CreateIdentityProvider",
   "CreateInstance", "CreateProject", "CreateUser", "CreateWorksheet",
   "DeleteDataSource", "DeleteEnvironment", "DeleteGroup", "DeleteIdentityProvider",
   "DeleteInstance", "DeleteProject", "DeleteUser", "DeleteWorksheet",
   "DownloadExportTask", "ExportAuditLogs", "FavoriteWorksheet", "GetDatabase",
   "GetEnvironmentPolicy", "GetExportTask", "GetGroup", "GetIamPolicy",
   "GetIdentityProvider", "GetInstance", "GetProject", "GetSetting",
   "GetUnreadNotificationCount", "GetUser", "GetWorksheet", "ListDatabases",
   "ListExportTasks", "ListGroupMembers", "ListGroups", "ListInstances",
   "ListMyFavorites", "ListMyNotifications", "ListProjects", "ListUsers",
   "MarkAllNotificationsRead", "MarkNotificationRead", "QueryHistoriesSearch",
   "RegenerateMyMfa", "RemoveGroupMember", "SearchAuditLogs", "SearchWorksheets",
   "SetIamPolicy", "SqlExport", "SqlQuery", "SyncDatabaseSchema", "SyncInstance",
   "TestIamPermissions", "TestIdentityProvider", "TestInstanceConnection",
   "UndeleteProject", "UndeleteUser", "UnfavoriteWorksheet", "UpdateDataSource",
   "UpdateDatabase", "UpdateEnvironment", "UpdateEnvironmentPolicy", "UpdateGroup",
   "UpdateIdentityProvider", "UpdateInstance", "UpdateProject", "UpdateSetting",
   "UpdateUser", "UpdateWorksheet"}
=============================================================================
