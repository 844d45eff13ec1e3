----------------------------- MODULE MCBootstrap -----------------------------
(* Instances of Bootstrap: two servers that spell one address differently,  *)
(* one with another address, one without configuration and one whose        *)
(* password is too long.                                                    *)
EXTENDS Bootstrap, TLC
CONSTANTS upper, lower, other, unset, long

MCEmail == {"Root@x", "root@x", "ops@x"}
MCLower == [e \in MCEmail |-> IF e = "Root@x" THEN "root@x" ELSE e]
MCAdminEmail ==
  [p \in Proc |-> CASE p = upper -> "Root@x"
                    [] p = unset -> Unset
                    [] p = other -> "ops@x"
                    [] OTHER     -> "root@x"]
MCPassword ==
  [p \in Proc |-> CASE p = unset -> Unset
                    [] p = long  -> "tooLong"
                    [] OTHER     -> "ok"]
=============================================================================
