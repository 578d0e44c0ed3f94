---------------------------- MODULE MCTokenTable ----------------------------
(***************************************************************************)
(* Pages of two ids and of two rows.  Id 3 was rolled back, and there is    *)
(* none beyond 4.  Dune's first page may be fetched with one row on it.     *)
(***************************************************************************)
EXTENDS TokenTable

CONSTANTS n1, n2, u1, u2

MCCreates == {1, 2, 4}
MCCreator == [c \in MCCreates |-> IF c = 2 THEN u2 ELSE u1]
MCDuneUsers == <<u2, u1>>
=============================================================================
