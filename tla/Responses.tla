------------------------------ MODULE Responses -------------------------------
(***************************************************************************)
(* The responses that the encoders of                                      *)
(* backend/internal/oas/oas_response_encoders_gen.go can write for every   *)
(* operation: a status and what kind of body goes with it.                 *)
(***************************************************************************)

Text(S)   == {[status |-> s, body |-> "text"] : s \in S}
Bytes(S)  == {[status |-> s, body |-> "bytes"] : s \in S}
Empty(S)  == {[status |-> s, body |-> "empty"] : s \in S}
JsonOf(S) == {[status |-> s, body |-> "json"] : s \in S}

\* Mutant: a status that the handler did not set is sent as it is.
DefaultCodeUnset(code) == code

\* ErrorStatusCode: the handler chooses the status, and 0 is sent as 200.
DefaultCode(code) == IF code = 0 THEN 200 ELSE code
Default == JsonOf({DefaultCode(c) : c \in {0, 400, 500}})

AddGroupMemberResponse == Empty({204}) \cup JsonOf({403, 404, 409}) \cup Default
AuthCsrfResponse == JsonOf({200}) \cup Default
AuthLoginResponse == JsonOf({200, 401, 429}) \cup Default
AuthLogoutResponse == Empty({204}) \cup JsonOf({401}) \cup Default
AuthPasswordResetConfirmResponse == Empty({204}) \cup JsonOf({401}) \cup Default
AuthPasswordResetRequestResponse == Empty({204}) \cup JsonOf({429}) \cup Default
AuthRefreshResponse == JsonOf({200, 401}) \cup Default
ChangeMyPasswordResponse == Empty({204}) \cup JsonOf({401}) \cup Default
CreateDataSourceResponse == JsonOf({200, 403, 409}) \cup Default
CreateEnvironmentResponse == JsonOf({200, 403, 409}) \cup Default
CreateExportTaskResponse == JsonOf({200, 403, 409, 429}) \cup Default
CreateGroupResponse == JsonOf({200, 403, 409}) \cup Default
CreateIdentityProviderResponse == JsonOf({200, 403, 409}) \cup Default
CreateInstanceResponse == JsonOf({200, 403, 409}) \cup Default
CreateProjectResponse == JsonOf({200, 403, 409}) \cup Default
CreateUserResponse == JsonOf({200, 403, 409}) \cup Default
CreateWorksheetResponse == JsonOf({200, 403}) \cup Default
DeleteDataSourceResponse == Empty({204}) \cup JsonOf({403, 404}) \cup Default
DeleteEnvironmentResponse == Empty({204}) \cup JsonOf({403, 404, 409}) \cup Default
DeleteGroupResponse == Empty({204}) \cup JsonOf({403, 404}) \cup Default
DeleteIdentityProviderResponse == Empty({204}) \cup JsonOf({403, 404}) \cup Default
DeleteInstanceResponse == Empty({204}) \cup JsonOf({403, 404}) \cup Default
DeleteProjectResponse == Empty({204}) \cup JsonOf({403, 404, 409}) \cup Default
DeleteUserResponse == Empty({204}) \cup JsonOf({403, 404}) \cup Default
DeleteWorksheetResponse == Empty({204}) \cup JsonOf({403, 404}) \cup Default
DownloadExportTaskResponse == Bytes({200}) \cup JsonOf({403, 404}) \cup Default
ExportAuditLogsResponse == Bytes({200}) \cup JsonOf({403}) \cup Default
FavoriteWorksheetResponse == Empty({204}) \cup JsonOf({404}) \cup Default
GetDatabaseResponse == JsonOf({200, 404}) \cup Default
GetEnvironmentPolicyResponse == JsonOf({200, 404}) \cup Default
GetExportTaskResponse == JsonOf({200, 404}) \cup Default
GetGroupResponse == JsonOf({200, 404}) \cup Default
GetIamPolicyResponse == JsonOf({200, 403, 404}) \cup Default
GetIdentityProviderResponse == JsonOf({200, 404}) \cup Default
GetInstanceResponse == JsonOf({200, 404}) \cup Default
GetProjectResponse == JsonOf({200, 403, 404}) \cup Default
GetSettingResponse == JsonOf({200, 404}) \cup Default
GetUnreadNotificationCountResponse == JsonOf({200, 401}) \cup Default
GetUserResponse == JsonOf({200, 404}) \cup Default
GetWorksheetResponse == JsonOf({200, 404}) \cup Default
HealthzResponse == Text({200})
ListDatabasesResponse == JsonOf({200, 403}) \cup Default
ListEnvironmentsResponse == JsonOf({200}) \cup Default
ListExportTasksResponse == JsonOf({200, 401, 403}) \cup Default
ListGroupMembersResponse == JsonOf({200, 403}) \cup Default
ListGroupsResponse == JsonOf({200, 403}) \cup Default
ListIdentityProvidersResponse == JsonOf({200}) \cup Default
ListInstancesResponse == JsonOf({200, 403}) \cup Default
ListMyFavoritesResponse == JsonOf({200, 401}) \cup Default
ListMyNotificationsResponse == JsonOf({200, 401}) \cup Default
ListProjectsResponse == JsonOf({200}) \cup Default
ListUsersResponse == JsonOf({200, 403}) \cup Default
MarkAllNotificationsReadResponse == Empty({204}) \cup JsonOf({401}) \cup Default
MarkNotificationReadResponse == Empty({204}) \cup JsonOf({401, 404}) \cup Default
QueryHistoriesSearchResponse == JsonOf({200, 401}) \cup Default
ReadyzResponse == Text({200}) \cup JsonOf({503})
RegenerateMyMfaResponse == JsonOf({200, 401}) \cup Default
RemoveGroupMemberResponse == Empty({204}) \cup JsonOf({403, 404}) \cup Default
SearchAuditLogsResponse == JsonOf({200, 403}) \cup Default
SearchWorksheetsResponse == JsonOf({200, 403}) \cup Default
SetIamPolicyResponse == JsonOf({200, 403, 404, 409}) \cup Default
SqlExportResponse == Bytes({200}) \cup JsonOf({403, 412, 503, 504}) \cup Default
SqlQueryResponse == JsonOf({200, 403, 404, 412, 503, 504}) \cup Default
SyncDatabaseSchemaResponse == JsonOf({202, 403, 404}) \cup Default
SyncInstanceResponse == JsonOf({202, 403, 404}) \cup Default
TestIamPermissionsResponse == JsonOf({200, 403, 404}) \cup Default
TestIdentityProviderResponse == JsonOf({200, 412}) \cup Default
TestInstanceConnectionResponse == JsonOf({200, 412}) \cup Default
UndeleteProjectResponse == JsonOf({200, 404}) \cup Default
UndeleteUserResponse == JsonOf({200, 404}) \cup Default
UnfavoriteWorksheetResponse == Empty({204}) \cup JsonOf({404}) \cup Default
UpdateDataSourceResponse == JsonOf({200, 403, 404}) \cup Default
UpdateDatabaseResponse == JsonOf({200, 403, 404}) \cup Default
UpdateEnvironmentResponse == JsonOf({200, 403, 404}) \cup Default
UpdateEnvironmentPolicyResponse == JsonOf({200, 403, 404}) \cup Default
UpdateGroupResponse == JsonOf({200, 403, 404}) \cup Default
UpdateIdentityProviderResponse == JsonOf({200, 403, 404}) \cup Default
UpdateInstanceResponse == JsonOf({200, 403, 404, 409}) \cup Default
UpdateProjectResponse == JsonOf({200, 403, 404}) \cup Default
UpdateSettingResponse == JsonOf({200, 403, 404}) \cup Default
UpdateUserResponse == JsonOf({200, 403, 404}) \cup Default
UpdateWorksheetResponse == JsonOf({200, 403, 404, 409, 412}) \cup Default
=============================================================================
