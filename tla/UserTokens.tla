----------------------------- MODULE UserTokens -----------------------------
(***************************************************************************)
(* The tables that mergeToken and the Dune import share.  Both write        *)
(* user_token, one from the pf_create rows that saveDataBucket stored, the  *)
(* other from the result of a Dune query, and neither knows of the other.   *)
(*                                                                         *)
(* A user_token row is what was added up in its amount: how often each      *)
(* creation was, and the place of the Dune row it was inserted from (0 if   *)
(* from none).  No migration is part of the repository: whether user_adr    *)
(* has a unique index is chosen once and for all in the initial state, and  *)
(* so is which rows of the config table are there with status 0.            *)
(***************************************************************************)
EXTENDS Naturals, Sequences, FiniteSets

CONSTANTS
  Users,      \* user addresses (user_adr)
  Creates,    \* the ids of pf_create that are ever committed
  Creator,    \* the user of each
  Nodes,      \* processes
  MaxFaults   \* bound on failures and restarts

ASSUME UserTokensAssumption ==
  /\ Creates \subseteq Nat \ {0}
  /\ Creator \in [Creates -> Users]
  /\ MaxFaults \in Nat

VARIABLES
  unique,   \* user_token.user_adr has a unique index
  configs,  \* the keys of config whose row has status 0
  status,   \* pf_create.status: "init" 0, "merged" 1; "absent": not committed
  tokens,   \* the user_token rows of each user, in the order of their ids
  faults

shared == <<unique, configs, status, tokens, faults>>

ConfigKeys == {"merge_token_last_id", "fetch_pumpfun_create_last_page"}

Row == [created : [Creates -> Nat], imported : Nat]

Fault == faults < MaxFaults /\ faults' = faults + 1

\* saveDataBucket commits a creation; ids were drawn from the sequence before,
\* so they appear in any order.
CommitCreate(c) ==
  /\ status[c] = "absent"
  /\ status' = [status EXCEPT ![c] = "init"]
  /\ UNCHANGED <<unique, configs, tokens, faults>>

InitShared ==
  /\ unique \in BOOLEAN
  /\ configs \in SUBSET ConfigKeys
  /\ status = [c \in Creates |-> "absent"]
  /\ tokens = [u \in Users |-> <<>>]
  /\ faults = 0

SharedTypeOK ==
  /\ unique \in BOOLEAN
  /\ configs \subseteq ConfigKeys
  /\ status \in [Creates -> {"absent", "init", "merged"}]
  /\ tokens \in [Users -> Seq(Row)]
  /\ faults \in Nat
=============================================================================
