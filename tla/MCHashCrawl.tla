---------------------------- MODULE MCHashCrawl ----------------------------
(***************************************************************************)
(* Six signatures in four blocks and pages of two.  Range r1 starts at the  *)
(* newest one and ends at block 1, so that the last block before its end is *)
(* split over two pages; range r2 starts inside it and runs into the        *)
(* beginning of the chain.                                                  *)
(***************************************************************************)
EXTENDS HashCrawl

CONSTANTS n1, n2, r1, r2

MCSigs == 1 .. 6
MCBlockOf == <<1, 2, 2, 2, 3, 4>>
MCFirst == [c \in Confs |-> IF c = r1 THEN 6 ELSE 3]
MCEndBlock == [c \in Confs |-> IF c = r1 THEN 1 ELSE 0]
=============================================================================
