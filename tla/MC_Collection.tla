--------------------------- MODULE MC_Collection ---------------------------
(* Instances of Collection for TLC. *)
EXTENDS Collection

MCGatherers == {"disk", "gpu", "containers"}

\* All tables, all but the GPU's, and a fresh database.
MCDatabases == {Tables, Tables \ {"gpu"}, {}}
=============================================================================
