--------------------------- MODULE MCProjectList -----------------------------
(* An instance of ProjectList: one client, page sizes scaled down to a      *)
(* default of 1 and a maximum of 2, asked for at and around both ends.      *)
EXTENDS ProjectList
CONSTANTS c1

MCAskedSize == {-1, 0, 1, 2, 3}
=============================================================================
