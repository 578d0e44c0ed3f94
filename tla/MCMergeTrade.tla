---------------------------- MODULE MCMergeTrade ----------------------------
(***************************************************************************)
(* A small instance of MergeTrade: five trades of two users.  t1 is a        *)
(* sandwich of u1, and t2 shares its block.  With pages of two rows the     *)
(* sandwich is split over two pages; the clip update may empty the second.  *)
(* The last trade, which the runs with overlap leave out, is behind it, and *)
(* in the run without overlap behind a gap of a page of ids, too.           *)
(***************************************************************************)
EXTENDS MergeTrade, TLC

CONSTANTS u1, u2, t1, t2, t3, t4, b1, b2, m, c, k,
  Last  \* the id of the last trade; 4: there are four trades

MCIds == 1 .. 4 \cup {Last}
MCUserOf == [i \in MCIds |-> IF i <= 3 THEN u1 ELSE u2]
MCTxOf == [i \in MCIds |-> IF i = 1 THEN t3 ELSE IF i <= 3 THEN t1 ELSE IF i = 4 THEN t2 ELSE t4]
MCBlockOf == (t1 :> b1) @@ (t2 :> b1) @@ (t3 :> b2) @@ (t4 :> b2)
MCFirstTask == [l \in Loops |-> IF l = c THEN "clip" ELSE IF l = k THEN "token" ELSE "trade"]
=============================================================================
