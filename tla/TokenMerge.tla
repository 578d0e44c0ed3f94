----------------------------- MODULE TokenMerge -----------------------------
(***************************************************************************)
(* mergeToken: the creations of one page of pf_create are counted per user  *)
(* and added to user_token.  A process calls it once, when initMergeTrade   *)
(* starts its loops: recursionMergeToken goes on with recursionMergeTrade.  *)
(*                                                                         *)
(* The writes of the transaction appear at its COMMIT, so they are one      *)
(* action; what depends on the moment of a single UPDATE, the rows it       *)
(* covers, is a choice in that action.                                      *)
(***************************************************************************)
EXTENDS UserTokens

CONSTANT PageSize   \* MERGE_TOKEN_PAGE_SIZE

ASSUME TokenMergeAssumption == PageSize \in Nat

VARIABLES
  cursor,     \* config.val under merge_token_last_id
  pc,         \* where the call of each process is; "done" once it returned
  base,       \* the config.val it read
  found,      \* the creations it found
  old,        \* the user_token rows it found
  overlapped  \* history: two transactions of mergeToken overlapped

mergeVars == <<cursor, pc, base, found, old, overlapped>>

MergeKey == "merge_token_last_id"

\* BETWEEN rangeStart AND rangeEnd
Page(b) == {c \in Creates : b + 1 <= c /\ c <= b + 1 + PageSize}

NoRows == [u \in Users |-> <<>>]

InitMerge ==
  /\ cursor = 0
  /\ pc = [n \in Nodes |-> "begin"]
  /\ base = [n \in Nodes |-> 0]
  /\ found = [n \in Nodes |-> {}]
  /\ old = [n \in Nodes |-> NoRows]
  /\ overlapped = FALSE

InTransaction(n) == pc[n] \in {"query", "find", "commit"}

PageUsers(n) == {Creator[c] : c \in found[n]}

\* The call is over; there is no other until the process starts again.
Finish(n) ==
  /\ pc' = [pc EXCEPT ![n] = "done"]
  /\ base' = [base EXCEPT ![n] = 0]
  /\ found' = [found EXCEPT ![n] = {}]
  /\ old' = [old EXCEPT ![n] = NoRows]

\* START TRANSACTION and the read of the cursor, without which the call returns.
Begin(n) ==
  /\ pc[n] = "begin"
  /\ \/ /\ MergeKey \notin configs
        /\ Finish(n)
        /\ UNCHANGED overlapped
     \/ /\ MergeKey \in configs
        /\ pc' = [pc EXCEPT ![n] = "query"]
        /\ base' = [base EXCEPT ![n] = cursor]
        /\ overlapped' = (overlapped \/ \E m \in Nodes \ {n} : InTransaction(m))
        /\ UNCHANGED <<found, old>>
  /\ UNCHANGED <<shared, cursor>>

\* The page; when no row of it has status 0, nothing is written.
Query(n) ==
  /\ pc[n] = "query"
  /\ LET rows == {c \in Page(base[n]) : status[c] = "init"}
     IN \/ rows = {} /\ Finish(n)
        \/ /\ rows # {}
           /\ found' = [found EXCEPT ![n] = rows]
           /\ pc' = [pc EXCEPT ![n] = "find"]
           /\ UNCHANGED <<base, old>>
  /\ UNCHANGED <<shared, cursor, overlapped>>

\* Variant: a second row of a user is passed over.
FindFirst(n) ==
  /\ pc[n] = "find"
  /\ old' = [old EXCEPT ![n] = tokens]
  /\ pc' = [pc EXCEPT ![n] = "commit"]
  /\ UNCHANGED <<shared, cursor, base, found, overlapped>>

\* The user_token rows of the page's users.  map.delete makes the second row of
\* a user a TypeError, which rolls back.
Find(n) ==
  /\ pc[n] = "find"
  /\ \/ /\ \E u \in PageUsers(n) : Len(tokens[u]) > 1
        /\ Finish(n)
     \/ /\ \A u \in PageUsers(n) : Len(tokens[u]) <= 1
        /\ old' = [old EXCEPT ![n] = [u \in Users |-> IF u \in PageUsers(n) THEN tokens[u] ELSE <<>>]]
        /\ pc' = [pc EXCEPT ![n] = "commit"]
        /\ UNCHANGED <<base, found>>
  /\ UNCHANGED <<shared, cursor, overlapped>>

\* The users without a row when the call looked.
NewUsers(n) == {u \in PageUsers(n) : old[n][u] = <<>>}

\* The page's creations by u.
CountOf(n, u) == [c \in Creates |-> IF c \in found[n] /\ Creator[c] = u THEN 1 ELSE 0]

\* Variant: the count of the page replaces the amount.
UpdatedForgets(n, u) == [created |-> CountOf(n, u), imported |-> 0]

\* The amount that was read plus the count of the page, an absolute value.
Updated(n, u) ==
  [created |-> [c \in Creates |-> old[n][u][1].created[c] + CountOf(n, u)[c]],
   imported |-> old[n][u][1].imported]

\* An UPDATE by user_adr covers the rows that were found and those that were
\* committed until it ran: the first k[u].
Coverings(n) ==
  {k \in [Users -> UNION {Len(old[n][u]) .. Len(tokens[u]) : u \in Users}] :
     \A u \in Users : Len(old[n][u]) <= k[u] /\ k[u] <= Len(tokens[u])}

WriteTokens(n, k) ==
  tokens' = [u \in Users |->
    IF u \notin PageUsers(n) THEN tokens[u]
    ELSE IF u \in NewUsers(n)
    THEN Append(tokens[u], [created |-> CountOf(n, u), imported |-> 0])
    ELSE [i \in 1 .. Len(tokens[u]) |-> IF i <= k[u] THEN Updated(n, u) ELSE tokens[u][i]]]

\* UPDATEs, INSERT, the marks, the cursor, COMMIT.  With the index, a row that
\* another transaction inserted since rejects the INSERT.
Commit(n) ==
  /\ pc[n] = "commit"
  /\ \/ /\ unique /\ \E u \in NewUsers(n) : tokens[u] # <<>>
        /\ UNCHANGED <<tokens, status, cursor>>
     \/ /\ ~(unique /\ \E u \in NewUsers(n) : tokens[u] # <<>>)
        /\ \E k \in Coverings(n) : WriteTokens(n, k)
        /\ status' = [c \in Creates |-> IF c \in found[n] THEN "merged" ELSE status[c]]
        /\ cursor' = base[n] + 1 + PageSize
  /\ Finish(n)
  /\ UNCHANGED <<unique, configs, faults, overlapped>>

\* A statement fails, or another transaction's locks make this one the victim.
MergeFails(n) ==
  /\ InTransaction(n)
  /\ Fault
  /\ Finish(n)
  /\ UNCHANGED <<unique, configs, status, tokens, cursor, overlapped>>

\* What a restart does to the call: initMergeTrade makes a new one.
MergeRestart(n) ==
  /\ pc' = [pc EXCEPT ![n] = "begin"]
  /\ base' = [base EXCEPT ![n] = 0]
  /\ found' = [found EXCEPT ![n] = {}]
  /\ old' = [old EXCEPT ![n] = NoRows]
  /\ UNCHANGED <<cursor, overlapped>>

MergeStep(n) == Begin(n) \/ Query(n) \/ Find(n) \/ Commit(n)

MergeTypeOK ==
  /\ cursor \in Nat
  /\ pc \in [Nodes -> {"begin", "query", "find", "commit", "done"}]
  /\ base \in [Nodes -> Nat]
  /\ found \in [Nodes -> SUBSET Creates]
  /\ old \in [Nodes -> [Users -> Seq(Row)]]
  /\ overlapped \in BOOLEAN
=============================================================================
