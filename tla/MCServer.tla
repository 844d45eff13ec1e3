------------------------------ MODULE MCServer -------------------------------
(* An instance of Server: two list requests and a readiness probe that      *)
(* compete for two connections, and a liveness probe.                       *)
EXTENDS Server, TLC
CONSTANTS l1, l2, probe, health

MCReq  == {l1, l2, probe, health}
MCKind == (l1 :> "list") @@ (l2 :> "list") @@ (probe :> "probe")
          @@ (health :> "health")
=============================================================================
