----------------------------- MODULE TradeLedger -----------------------------
(***************************************************************************)
(* What the trade merge promises, without transactions, pages or cursors:  *)
(* a trade is recorded once, and at most once its amount is added to the   *)
(* account of the user who made it.  Nothing is ever taken back out.       *)
(*                                                                         *)
(* An account is the bag of trades whose amounts were added to it, a       *)
(* function from trade ids to multiplicities: two accounts of the same     *)
(* bag have the same sums, and a trade that was lost or added twice shows. *)
(***************************************************************************)
EXTENDS Naturals

CONSTANTS
  Users,      \* user addresses
  Ids,        \* ids of pf_trade rows
  UserOf      \* the user of each trade

VARIABLES
  recorded,   \* the trades that are in the table
  acct        \* [Users -> [Ids -> Nat]], the account of each user

ledgerVars == <<recorded, acct>>

EmptyBag == [i \in Ids |-> 0]

Init ==
  /\ recorded = {}
  /\ acct = [u \in Users |-> EmptyBag]

\* A saved bucket brings new trades.
Record(S) ==
  /\ S \cap recorded = {}
  /\ recorded' = recorded \cup S
  /\ UNCHANGED acct

\* Recorded trades that no account holds are added to their users' accounts.
Count(S) ==
  /\ S \subseteq recorded
  /\ \A i \in S : acct[UserOf[i]][i] = 0
  /\ acct' = [u \in Users |-> [i \in Ids |->
                IF i \in S /\ UserOf[i] = u THEN acct[u][i] + 1 ELSE acct[u][i]]]
  /\ UNCHANGED recorded

Next == \E S \in SUBSET Ids : Record(S) \/ Count(S)

Spec == Init /\ [][Next]_ledgerVars

=============================================================================
