------------------------------- MODULE MCSeed --------------------------------
(* Instances of Seed: two environments, one role with permissions and the   *)
(* placeholder role without any, two servers of one release and, for the    *)
(* rollout, a third of a release that changed the registry.                 *)
EXTENDS Seed, TLC
CONSTANTS a, b, c

MCEnvironments == <<"prod", "dev">>
MCPolicies     == <<"strict", "permissive">>
MCRoles        == <<"projectViewer", "sqlEditorUser">>
MCPermission   == {"get", "list", "search"}
MCRegistry ==
  [p \in Proc |->
     "projectViewer" :> (IF p = c THEN {"get", "search"} ELSE {"get", "list"})
  @@ "sqlEditorUser" :> {}]
=============================================================================
