------------------------------ MODULE MCStartup -------------------------------
(* An instance of Startup: two servers of successive releases, of which the *)
(* newer brings a migration and a permission more.                          *)
EXTENDS Startup, TLC
CONSTANTS old, new

MCLatest       == (old :> 1) @@ (new :> 2)
MCEnvironments == <<"prod">>
MCPolicies     == <<"strict">>
MCRoles        == <<"projectViewer">>
MCPermission   == {"get", "list"}
MCRegistry ==
  (old :> [r \in {"projectViewer"} |-> {"get"}])
  @@ (new :> [r \in {"projectViewer"} |-> {"get", "list"}])
MCEmail        == {"root@x"}
MCLower        == "root@x" :> "root@x"
MCAdminEmail   == [p \in {old, new} |-> "root@x"]
MCPassword     == [p \in {old, new} |-> "ok"]
=============================================================================
