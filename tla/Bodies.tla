-------------------------------- MODULE Bodies --------------------------------
(***************************************************************************)
(* What the decoders of backend/internal/oas/oas_request_decoders_gen.go   *)
(* accept as the body of a request. Every operation that takes a body      *)
(* takes JSON, and takes it always; where the schema restricts its values  *)
(* they are validated.                                                     *)
(***************************************************************************)

\* What is sent: no (or no readable) Content-Type, another type than JSON, no
\* bytes, JSON that is not of the schema, of the schema with values that it
\* forbids, and a body nothing is wrong with.
Body == {"untyped", "other", "absent", "garbage", "invalid", "good"}

Json         == {"good", "invalid"}
Validated(B) == B \ {"invalid"}

\* The operation does not look at the body.
NoBody == Body

\* InvalidContentTypeError is 415, every other error of a decoder 400.
DecodeStatus(body) == IF body = "other" THEN 415 ELSE 400

AddGroupMemberRequest == Json
AuthLoginRequest == Validated(Json)
AuthPasswordResetConfirmRequest == Validated(Json)
AuthPasswordResetRequestRequest == Validated(Json)
AuthRefreshRequest == Json
ChangeMyPasswordRequest == Validated(Json)
CreateDataSourceRequest == Validated(Json)
CreateEnvironmentRequest == Json
CreateExportTaskRequest == Validated(Json)
CreateGroupRequest == Json
CreateIdentityProviderRequest == Validated(Json)
CreateInstanceRequest == Validated(Json)
CreateProjectRequest == Json
CreateUserRequest == Validated(Json)
CreateWorksheetRequest == Validated(Json)
DownloadExportTaskRequest == Json
ExportAuditLogsRequest == Json
GetIamPolicyRequest == Json
SearchAuditLogsRequest == Json
SetIamPolicyRequest == Validated(Json)
SqlExportRequest == Validated(Json)
SqlQueryRequest == Json
TestIamPermissionsRequest == Validated(Json)
TestIdentityProviderRequest == Json
TestInstanceConnectionRequest == Validated(Json)
UpdateDataSourceRequest == Validated(Json)
UpdateDatabaseRequest == Json
UpdateEnvironmentRequest == Json
UpdateEnvironmentPolicyRequest == Json
UpdateGroupRequest == Json
UpdateIdentityProviderRequest == Validated(Json)
UpdateInstanceRequest == Validated(Json)
UpdateProjectRequest == Json
UpdateSettingRequest == Json
UpdateUserRequest == Validated(Json)
UpdateWorksheetRequest == Validated(Json)
=============================================================================
