----------------------------- MODULE MCLogIngest -----------------------------
(***************************************************************************)
(* Two listening processes hear of the same transactions; each process has  *)
(* one worker.                                                              *)
(***************************************************************************)
EXTENDS LogIngest

CONSTANTS w1, w2, n1, n2, t1, t2

MCNodeOf == [w \in {w1, w2} |-> IF w = w1 THEN n1 ELSE n2]
=============================================================================
