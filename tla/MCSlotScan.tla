----------------------------- MODULE MCSlotScan -----------------------------
(***************************************************************************)
(* A small instance of SlotScan.  Slots 3 and 4 are skipped on chain, which *)
(* is the whole range of the refresh that follows slot 2.  Slot 1 has two   *)
(* transactions, of which another path may store one; the others have none. *)
(***************************************************************************)
EXTENDS SlotScan

CONSTANTS t1, t2, f1, f2, c1, c2, w1, w2

MCProduced == {1, 2, 5}
MCSlotOf == [t \in Txs |-> 1]
=============================================================================
