---------------------------- MODULE MCSeedCatalog ----------------------------
(***************************************************************************)
(* SeedCatalog with three versions: the second adds a name, the third      *)
(* drops one.                                                              *)
(***************************************************************************)
EXTENDS SeedCatalog

CONSTANTS a, b, c

MCShips == [v \in Version |-> CASE v = 1 -> {a, b}
                                [] v = 2 -> {a, b, c}
                                [] v = 3 -> {b, c}]

MCToolLists == {{}, {a, c}, {b, c}}
=============================================================================
