------------------------ MODULE MCDatabaseEvolution ------------------------
(* Two databases, as the smallest set that can be half migrated. *)
EXTENDS DatabaseEvolution

CONSTANTS d1, d2

MCSpecs == <<d1, d2>>
=============================================================================
