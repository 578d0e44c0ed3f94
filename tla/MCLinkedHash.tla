---------------------------- MODULE MCLinkedHash ----------------------------
(***************************************************************************)
(* Three hash keys and four puts, taken out two at a time as well.          *)
(***************************************************************************)
EXTENDS LinkedHash

CONSTANTS k1, k2, k3
=============================================================================
