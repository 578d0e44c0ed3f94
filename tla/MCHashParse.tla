----------------------------- MODULE MCHashParse -----------------------------
(***************************************************************************)
(* Small instances of HashParse.  In the first two, two records hold the    *)
(* same signature, as after a page of signatures that was inserted twice.   *)
(***************************************************************************)
EXTENDS HashParse

CONSTANTS n1, n2, w1, w2, s1, s2, t1, t2

MCRecords == 1 .. 3
MCTxOf == <<t1, t2, t1>>
MCNodeOf == [x \in Workers \cup Senders |-> IF x \in {w1, s1} THEN n1 ELSE n2]
MCPair == 1 .. 2
MCSameTx == <<t1, t1>>
=============================================================================
