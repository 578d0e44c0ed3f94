-------------------------- MODULE MergeTradeProofs --------------------------
(***************************************************************************)
(* Theorems about MergeTrade.  Four of them hold whatever the loops do      *)
(* (TypeCorrect, CountedSettled, FlagsEarned, MergeNeverStuck); the others  *)
(* hold as long as mergeTrade calls do not overlap and rest on the          *)
(* invariant SerialInv: between the query of a page and its commit nothing  *)
(* changes what mergeTrade has read, so that the absolute values it writes  *)
(* are right.                                                               *)
(***************************************************************************)
EXTENDS MergeTrade, FiniteSetTheorems, WellFoundedInduction, TLAPS

\* The end of a transaction keeps the types of the locals of its loop.
LEMMA FinishType ==
  ASSUME TypeOK, NEW l \in Loops, Finish(l)
  PROVE  /\ task' \in [Loops -> {"trade", "clip", "token"}]
         /\ pc' \in [Loops -> {"idle", "query", "find", "update", "mark", "config",
                               "clip", "flag", "commit"}]
         /\ base' \in [Loops -> Nat]
         /\ found' \in [Loops -> SUBSET Ids]
         /\ old' \in [Loops -> [Users -> Bags]]
         /\ oldUsers' \in [Loops -> SUBSET Users]
         /\ wrote' \in [Loops -> SUBSET Users]
         /\ clipBlocks' \in [Loops -> SUBSET Blocks]
         /\ clipUsers' \in [Loops -> SUBSET Users]
<1>1. EmptyBag \in Bags
  BY DEF EmptyBag, Bags
<1> QED BY <1>1 DEF TypeOK, Finish

\* Every state of every run has the types of TypeOK.
THEOREM TypeCorrect == Spec => []TypeOK
<1>1. Init => TypeOK
  <2>1. EmptyBag \in Bags
    BY DEF EmptyBag, Bags
  <2> QED BY <2>1, MergeAssumption DEF Init, TypeOK, Status
<1>2. TypeOK /\ [Next]_vars => TypeOK'
  <2> SUFFICES ASSUME TypeOK, [Next]_vars PROVE TypeOK'
    OBVIOUS
  <2> USE MergeAssumption DEF Status
  <2>1. ASSUME NEW l \in Loops, Begin(l) PROVE TypeOK'
    BY <2>1 DEF TypeOK, Begin, db
  <2>2. ASSUME NEW l \in Loops, Query(l) PROVE TypeOK'
    <3>1. CASE Finish(l)
      BY <2>2, <3>1, FinishType DEF TypeOK, Query, db
    <3>2. CASE ~Finish(l)
      <4>1. {i \in Page(base[l]) : status[i] = "init"} \in SUBSET Ids
        BY DEF Page
      <4>2. /\ found' = [found EXCEPT ![l] = {i \in Page(base[l]) : status[i] = "init"}]
            /\ pc' = [pc EXCEPT ![l] = "find"]
            /\ UNCHANGED <<db, faults, task, base, old, oldUsers, wrote, clipBlocks, clipUsers>>
        BY <2>2, <3>2 DEF Query
      <4> QED BY <4>1, <4>2 DEF TypeOK, db
    <3> QED BY <3>1, <3>2
  <2>3. ASSUME NEW l \in Loops, Find(l) PROVE TypeOK'
    <3>1. UsersOf(found[l]) \cap accounts \in SUBSET Users
      BY DEF TypeOK
    <3> QED BY <2>3, <3>1 DEF TypeOK, Find, db
  <2>4. ASSUME NEW l \in Loops, NEW u \in Users, UpdateUser(l, u) PROVE TypeOK'
    BY <2>4 DEF TypeOK, UpdateUser, db
  <2>5. ASSUME NEW l \in Loops, InsertUsers(l) PROVE TypeOK'
    <3>1. CASE Finish(l)
      BY <2>5, <3>1, FinishType DEF TypeOK, InsertUsers, db
    <3>2. CASE ~Finish(l)
      <4>1. ToInsert(l) \in SUBSET Users
        BY DEF TypeOK, ToInsert, UsersOf
      <4>2. /\ wrote' = [wrote EXCEPT ![l] = @ \cup ToInsert(l)]
            /\ pc' = [pc EXCEPT ![l] = "mark"]
            /\ UNCHANGED <<db, faults, task, base, found, old, oldUsers, clipBlocks, clipUsers>>
        BY <2>5, <3>2 DEF InsertUsers
      <4> QED BY <4>1, <4>2 DEF TypeOK, db
    <3> QED BY <3>1, <3>2
  <2>6. ASSUME NEW l \in Loops, MarkTrades(l) PROVE TypeOK'
    BY <2>6 DEF TypeOK, MarkTrades, db, locals
  <2>7. ASSUME NEW l \in Loops, UpdateCursor(l) PROVE TypeOK'
    BY <2>7 DEF TypeOK, UpdateCursor, db, locals
  <2>8. ASSUME NEW l \in Loops, CommitTrade(l) PROVE TypeOK'
    <3>1. \A u \in Users : NewAccount(l, u) \in Bags
      BY DEF TypeOK, NewAccount, Bags
    <3>2. acct' \in [Users -> Bags] /\ cursor' \in Nat
      BY <2>8, <3>1 DEF TypeOK, CommitTrade
    <3>3. accounts' \subseteq Users /\ status' \in [Ids -> Status]
      BY <2>8 DEF TypeOK, CommitTrade
    <3> QED BY <2>8, <3>2, <3>3, FinishType DEF TypeOK, CommitTrade
  <2>9. ASSUME NEW l \in Loops, ClipSelect(l) PROVE TypeOK'
    <3>1. CASE Finish(l)
      BY <2>9, <3>1, FinishType DEF TypeOK, ClipSelect, db
    <3>2. CASE ~Finish(l)
      <4>1. PICK B \in SUBSET {BlockOfTrade(i) : i \in {j \in Ids : status[j] = "merged"}} :
              /\ clipBlocks' = [clipBlocks EXCEPT ![l] = {BlockOf[p[1]] : p \in Sandwiches(B)}]
              /\ clipUsers' = [clipUsers EXCEPT ![l] = SandwichUsers(B)]
              /\ pc' = [pc EXCEPT ![l] = "clip"]
              /\ UNCHANGED <<task, base, found, old, oldUsers, wrote>>
        BY <2>9, <3>2 DEF ClipSelect
      <4>2. {BlockOf[p[1]] : p \in Sandwiches(B)} \in SUBSET Blocks
        <5>1. \A p \in Sandwiches(B) : p[1] \in Txs
          BY DEF Sandwiches
        <5> QED BY <5>1
      <4>3. SandwichUsers(B) \in SUBSET Users
        BY DEF Sandwiches, SandwichUsers
      <4>4. UNCHANGED <<db, faults>>
        BY <2>9 DEF ClipSelect
      <4> QED BY <4>1, <4>2, <4>3, <4>4 DEF TypeOK, db
    <3> QED BY <3>1, <3>2
  <2>10. ASSUME NEW l \in Loops, ClipMark(l) PROVE TypeOK'
    <3>1. {i \in Visible : BlockOfTrade(i) \in clipBlocks[l]} \in SUBSET Ids
      BY DEF Visible
    <3> QED BY <2>10, <3>1 DEF TypeOK, ClipMark, db
  <2>11. ASSUME NEW l \in Loops, ClipFlag(l) PROVE TypeOK'
    BY <2>11 DEF TypeOK, ClipFlag, db
  <2>12. ASSUME NEW l \in Loops, CommitClip(l) PROVE TypeOK'
    <3>1. flagged' \subseteq Users /\ status' \in [Ids -> Status]
      BY <2>12 DEF TypeOK, CommitClip
    <3> QED BY <2>12, <3>1, FinishType DEF TypeOK, CommitClip
  <2>13. ASSUME NEW l \in Loops, TokenFirst(l) \/ DeadlockVictim(l) PROVE TypeOK'
    BY <2>13, FinishType DEF TypeOK, TokenFirst, DeadlockVictim, db
  <2>14. ASSUME NEW l \in Loops, Fail(l) PROVE TypeOK'
    BY <2>14, FinishType DEF TypeOK, Fail, db
  <2>15. CASE Restart
    <3>1. EmptyBag \in Bags
      BY DEF EmptyBag, Bags
    <3> QED BY <2>15, <3>1 DEF TypeOK, Restart, db
  <2>16. ASSUME NEW t \in Txs, CommitBucket(t) PROVE TypeOK'
    BY <2>16 DEF TypeOK, CommitBucket, locals
  <2>17. CASE UNCHANGED vars
    BY <2>17 DEF TypeOK, vars, db, locals
  <2> QED
    BY <2>1, <2>2, <2>3, <2>4, <2>5, <2>6, <2>7, <2>8, <2>9, <2>10, <2>11, <2>12,
       <2>13, <2>14, <2>15, <2>16, <2>17 DEF Next, Step
<1> QED BY <1>1, <1>2, PTL DEF Spec

-----------------------------------------------------------------------------
(* Every run, overlapping calls included.                                  *)

Settled(u, i) == UserOf[i] = u /\ u \in accounts /\ status[i] \in {"merged", "clip"}

\* Neither the accounts nor what a transaction has read of them counts a
\* trade that is not settled.
SettledInv ==
  /\ CountedIsSettled
  /\ \A l \in Loops, u \in Users, i \in Ids : old[l][u][i] > 0 => Settled(u, i)

\* What is settled stays settled, whatever the loops do.
LEMMA SettledStays ==
  ASSUME TypeOK, [Next]_vars, NEW u \in Users, NEW i \in Ids, Settled(u, i)
  PROVE  Settled(u, i)'
<1>1. ASSUME UNCHANGED <<accounts, status>> PROVE Settled(u, i)'
  BY <1>1 DEF Settled
<1>2. ASSUME NEW l \in Loops, CommitTrade(l) \/ CommitClip(l) PROVE Settled(u, i)'
  BY <1>2 DEF CommitTrade, CommitClip, Settled
<1>3. ASSUME NEW t \in Txs, CommitBucket(t) PROVE Settled(u, i)'
  BY <1>3 DEF CommitBucket, Settled
<1>4. ASSUME NEW l \in Loops, Step(l) \/ Fail(l), ~CommitTrade(l), ~CommitClip(l)
      PROVE  UNCHANGED <<accounts, status>>
  BY <1>4
  DEF Step, Fail, Begin, Query, Find, UpdateUser, InsertUsers, MarkTrades, UpdateCursor,
      ClipSelect, ClipMark, ClipFlag, TokenFirst, DeadlockVictim, db
<1>5. ASSUME Restart \/ UNCHANGED vars PROVE UNCHANGED <<accounts, status>>
  BY <1>5 DEF Restart, vars, db
<1> QED BY <1>1, <1>2, <1>3, <1>4, <1>5 DEF Next

\* What a step may do to the accounts and to what was read of them.
LEMMA OldFollows ==
  ASSUME TypeOK, [Next]_vars, NEW l \in Loops, NEW u \in Users, NEW i \in Ids
  PROVE  old'[l][u][i] \in {old[l][u][i], acct[u][i], 0}
<1>1. ASSUME NEW k \in Loops, Finish(k) PROVE old'[l][u][i] \in {old[l][u][i], 0}
  BY <1>1 DEF Finish, TypeOK, EmptyBag
<1>2. ASSUME NEW k \in Loops, Find(k) PROVE old'[l][u][i] \in {old[l][u][i], acct[u][i]}
  BY <1>2 DEF Find, TypeOK
<1>3. ASSUME NEW k \in Loops, Step(k) \/ Fail(k), ~Finish(k), ~Find(k) PROVE UNCHANGED old
  BY <1>3
  DEF Step, Fail, Begin, Query, UpdateUser, InsertUsers, MarkTrades, UpdateCursor, CommitTrade,
      ClipSelect, ClipMark, ClipFlag, CommitClip, TokenFirst, DeadlockVictim, locals
<1>4. ASSUME Restart PROVE old'[l][u][i] = 0
  BY <1>4 DEF Restart, EmptyBag
<1>5. ASSUME NEW t \in Txs, CommitBucket(t) PROVE UNCHANGED old
  BY <1>5 DEF CommitBucket, locals
<1>6. ASSUME UNCHANGED vars PROVE UNCHANGED old
  BY <1>6 DEF vars, locals
<1> QED BY <1>1, <1>2, <1>3, <1>4, <1>5, <1>6 DEF Next

\* Even when mergeTrade calls overlap, an account counts only trades of its
\* own user that have left status 0.
THEOREM CountedSettled == Spec => []CountedIsSettled
<1>1. Init => SettledInv
  BY DEF Init, SettledInv, CountedIsSettled, EmptyBag
<1>2. TypeOK /\ SettledInv /\ [Next]_vars => SettledInv'
  <2> SUFFICES ASSUME TypeOK, SettledInv, [Next]_vars PROVE SettledInv'
    OBVIOUS
  <2>1. ASSUME NEW l \in Loops, NEW u \in Users, NEW i \in Ids, old'[l][u][i] > 0
        PROVE  Settled(u, i)'
    <3>1. old[l][u][i] > 0 \/ acct[u][i] > 0
      BY <2>1, OldFollows
    <3>2. Settled(u, i)
      BY <3>1 DEF SettledInv, CountedIsSettled, Settled
    <3> QED BY <3>2, SettledStays
  <2>2. ASSUME NEW u \in Users, NEW i \in Ids, acct'[u][i] > 0
        PROVE  Settled(u, i)'
    <3>1. CASE acct'[u][i] = acct[u][i]
      <4>1. Settled(u, i)
        BY <2>2, <3>1 DEF SettledInv, CountedIsSettled, Settled
      <4> QED BY <4>1, SettledStays
    <3>2. ASSUME NEW l \in Loops, CommitTrade(l), acct'[u][i] # acct[u][i]
          PROVE  Settled(u, i)'
      <4>1. u \in wrote[l] /\ acct'[u][i] = NewAccount(l, u)[i]
        BY <3>2 DEF CommitTrade
      <4>2. CASE i \in found[l] /\ UserOf[i] = u
        BY <3>2, <4>1, <4>2 DEF CommitTrade, Settled
      <4>3. CASE ~(i \in found[l] /\ UserOf[i] = u)
        <5>1. old[l][u][i] > 0
          BY <2>2, <4>1, <4>3 DEF NewAccount, TypeOK, Bags
        <5>2. Settled(u, i)
          BY <5>1 DEF SettledInv
        <5> QED BY <5>2, SettledStays
      <4> QED BY <4>2, <4>3
    <3>3. ASSUME \A l \in Loops : ~CommitTrade(l) PROVE UNCHANGED acct
      <4>1. ASSUME NEW l \in Loops, Step(l) \/ Fail(l), ~CommitTrade(l) PROVE UNCHANGED acct
        BY <4>1
        DEF Step, Fail, Begin, Query, Find, UpdateUser, InsertUsers, MarkTrades, UpdateCursor,
            ClipSelect, ClipMark, ClipFlag, CommitClip, TokenFirst, DeadlockVictim, db
      <4>2. ASSUME NEW t \in Txs, CommitBucket(t) PROVE UNCHANGED acct
        BY <4>2 DEF CommitBucket
      <4>3. ASSUME Restart \/ UNCHANGED vars PROVE UNCHANGED acct
        BY <4>3 DEF Restart, vars, db
      <4> QED BY <3>3, <4>1, <4>2, <4>3 DEF Next
    <3> QED BY <3>1, <3>2, <3>3
  <2> QED BY <2>1, <2>2 DEF SettledInv, CountedIsSettled, Settled
<1>3. SettledInv => CountedIsSettled
  BY DEF SettledInv
<1> QED BY <1>1, <1>2, <1>3, TypeCorrect, PTL DEF Spec

-----------------------------------------------------------------------------
(* Flags.                                                                   *)

\* u has two trades in one transaction.
Sandwiched(u) ==
  \E i, j \in Visible : i # j /\ TxOf[i] = TxOf[j] /\ UserOf[i] = u /\ UserOf[j] = u

\* What mergeTradeClip has read is a sandwich, and only that is flagged.
FlagInv ==
  /\ \A u \in flagged : Sandwiched(u)
  /\ \A l \in Loops : \A u \in clipUsers[l] : Sandwiched(u)
  /\ \A l \in Loops : task[l] = "clip" =>
       /\ pc[l] \in {"idle", "clip", "flag", "commit"}
       /\ pc[l] = "commit" => wrote[l] \subseteq clipUsers[l]

\* The query of mergeTradeClip selects users with two trades in one transaction.
LEMMA SandwichFound ==
  ASSUME NEW B, NEW u \in SandwichUsers(B)
  PROVE  Sandwiched(u)
<1>1. PICK t \in Txs : Cardinality({i \in Visible : TxOf[i] = t /\ UserOf[i] = u}) > 1
  BY DEF SandwichUsers, Sandwiches
<1> DEFINE S == {i \in Visible : TxOf[i] = t /\ UserOf[i] = u}
<1>2. ASSUME \A i, j \in S : i = j PROVE FALSE
  <2>1. CASE S = {}
    BY <1>1, <2>1, FS_EmptySet
  <2>2. ASSUME NEW i \in S PROVE FALSE
    <3>1. S = {i}
      BY <1>2, <2>2
    <3> QED BY <1>1, <3>1, FS_Singleton
  <2> QED BY <2>1, <2>2
<1> QED BY <1>2 DEF Sandwiched

\* Rows of pf_trade are never deleted, so a sandwich stays one.
LEMMA SandwichStays ==
  ASSUME TypeOK, [Next]_vars, NEW u, Sandwiched(u)
  PROVE  Sandwiched(u)'
<1>1. ASSUME NEW l \in Loops, CommitTrade(l) \/ CommitClip(l) PROVE Visible \subseteq Visible'
  BY <1>1 DEF CommitTrade, CommitClip, Visible
<1>2. ASSUME NEW t \in Txs, CommitBucket(t) PROVE Visible \subseteq Visible'
  BY <1>2 DEF CommitBucket, Visible
<1>3. ASSUME NEW l \in Loops, Step(l) \/ Fail(l), ~CommitTrade(l), ~CommitClip(l)
      PROVE  status' = status
  BY <1>3
  DEF Step, Fail, Begin, Query, Find, UpdateUser, InsertUsers, MarkTrades, UpdateCursor,
      ClipSelect, ClipMark, ClipFlag, TokenFirst, DeadlockVictim, db
<1>4. ASSUME Restart \/ UNCHANGED vars PROVE status' = status
  BY <1>4 DEF Restart, vars, db
<1>5. Visible \subseteq Visible'
  BY <1>1, <1>2, <1>3, <1>4 DEF Next, Visible
<1> QED BY <1>5 DEF Sandwiched

\* What a loop does with the sandwiches it has read, and what the others leave alone.
LEMMA ClipSteps ==
  ASSUME TypeOK, FlagInv, [Next]_vars, NEW l \in Loops
  PROVE  /\ \A u \in clipUsers'[l] : Sandwiched(u)
         /\ task'[l] = "clip" =>
              /\ pc'[l] \in {"idle", "clip", "flag", "commit"}
              /\ pc'[l] = "commit" => wrote'[l] \subseteq clipUsers'[l]
<1> DEFINE Kept == /\ \A u \in clipUsers'[l] : Sandwiched(u)
                   /\ task'[l] = "clip" =>
                        /\ pc'[l] \in {"idle", "clip", "flag", "commit"}
                        /\ pc'[l] = "commit" => wrote'[l] \subseteq clipUsers'[l]
<1>1. ASSUME pc'[l] = pc[l], task'[l] = task[l], wrote'[l] = wrote[l], clipUsers'[l] = clipUsers[l]
      PROVE  Kept
  BY <1>1 DEF FlagInv
<1>2. ASSUME task'[l] = "trade", clipUsers'[l] \subseteq clipUsers[l] PROVE Kept
  BY <1>2 DEF FlagInv
<1>3. ASSUME NEW k \in Loops, Finish(k) PROVE Kept
  <2>1. CASE k = l
    <3>1. task'[l] = "trade" /\ clipUsers'[l] = {}
      BY <1>3, <2>1 DEF Finish, TypeOK
    <3> QED BY <1>2, <3>1
  <2>2. CASE k # l
    BY <1>1, <1>3, <2>2 DEF Finish, TypeOK
  <2> QED BY <2>1, <2>2
<1>4. ASSUME NEW k \in Loops, ~Finish(k),
             \/ Begin(k) \/ Query(k) \/ Find(k) \/ (\E u \in Users : UpdateUser(k, u))
             \/ InsertUsers(k) \/ MarkTrades(k) \/ UpdateCursor(k)
      PROVE  Kept
  <2>1. /\ UNCHANGED <<task, clipUsers>>
        /\ \A x \in Loops \ {k} : pc'[x] = pc[x] /\ wrote'[x] = wrote[x]
    BY <1>4
    DEF Begin, Query, Find, UpdateUser, InsertUsers, MarkTrades, UpdateCursor, locals, TypeOK
  <2>2. CASE k = l
    <3>1. task[l] = "trade" \/ pc[l] \notin {"idle", "clip", "flag", "commit"}
      BY <1>4, <2>2 DEF Begin, Query, Find, UpdateUser, InsertUsers, MarkTrades, UpdateCursor
    <3>2. task[l] # "clip"
      BY <3>1 DEF FlagInv
    <3> QED BY <2>1, <3>2 DEF FlagInv
  <2>3. CASE k # l
    BY <1>1, <2>1, <2>3
  <2> QED BY <2>2, <2>3
<1>5. ASSUME NEW k \in Loops, ~Finish(k), ClipSelect(k) PROVE Kept
  <2>1. PICK B : /\ clipUsers' = [clipUsers EXCEPT ![k] = SandwichUsers(B)]
                 /\ pc' = [pc EXCEPT ![k] = "clip"]
                 /\ UNCHANGED <<task, wrote>>
    BY <1>5 DEF ClipSelect
  <2>2. CASE k = l
    BY <2>1, <2>2, SandwichFound DEF TypeOK
  <2>3. CASE k # l
    BY <1>1, <2>1, <2>3 DEF TypeOK
  <2> QED BY <2>2, <2>3
<1>6. ASSUME NEW k \in Loops, ClipMark(k) PROVE Kept
  <2>1. pc' = [pc EXCEPT ![k] = "flag"] /\ UNCHANGED <<task, wrote, clipUsers>>
    BY <1>6 DEF ClipMark
  <2> QED BY <2>1 DEF TypeOK, FlagInv
<1>7. ASSUME NEW k \in Loops, ClipFlag(k) PROVE Kept
  <2>1. /\ pc' = [pc EXCEPT ![k] = "commit"] /\ UNCHANGED <<task, clipUsers>>
        /\ wrote' = [wrote EXCEPT ![k] = clipUsers[k] \cap accounts]
    BY <1>7 DEF ClipFlag
  <2> QED BY <2>1 DEF TypeOK, FlagInv
<1>8. ASSUME NEW k \in Loops,
             CommitTrade(k) \/ CommitClip(k) \/ TokenFirst(k) \/ DeadlockVictim(k) \/ Fail(k)
      PROVE  Finish(k)
  BY <1>8 DEF CommitTrade, CommitClip, TokenFirst, DeadlockVictim, Fail
<1>9. CASE Restart
  BY <1>9 DEF Restart
<1>10. ASSUME (\E t \in Txs : CommitBucket(t)) \/ UNCHANGED vars PROVE Kept
  BY <1>1, <1>10 DEF CommitBucket, vars, locals
<1> QED BY <1>3, <1>4, <1>5, <1>6, <1>7, <1>8, <1>9, <1>10 DEF Next, Step

\* Only users with two trades in one transaction are flagged, whatever the loops do at the
\* same time (mergeTradeClip).
THEOREM FlagsEarned == Spec => []FlagSound
<1>1. Init => FlagInv
  BY MergeAssumption DEF Init, FlagInv
<1>2. TypeOK /\ FlagInv /\ [Next]_vars => FlagInv'
  <2> SUFFICES ASSUME TypeOK, FlagInv, [Next]_vars PROVE FlagInv'
    OBVIOUS
  <2>1. ASSUME NEW u \in flagged' PROVE Sandwiched(u)
    <3>1. ASSUME NEW l \in Loops, CommitClip(l) PROVE Sandwiched(u)
      BY <2>1, <3>1 DEF CommitClip, FlagInv
    <3>2. ASSUME \A l \in Loops : ~CommitClip(l) PROVE flagged' = flagged
      <4>1. ASSUME NEW l \in Loops, Step(l) \/ Fail(l), ~CommitClip(l) PROVE flagged' = flagged
        BY <4>1
        DEF Step, Fail, Begin, Query, Find, UpdateUser, InsertUsers, MarkTrades, UpdateCursor,
            CommitTrade, ClipSelect, ClipMark, ClipFlag, TokenFirst, DeadlockVictim, db
      <4>2. ASSUME NEW t \in Txs, CommitBucket(t) PROVE flagged' = flagged
        BY <4>2 DEF CommitBucket
      <4>3. ASSUME Restart \/ UNCHANGED vars PROVE flagged' = flagged
        BY <4>3 DEF Restart, vars, db
      <4> QED BY <3>2, <4>1, <4>2, <4>3 DEF Next
    <3> QED BY <2>1, <3>1, <3>2 DEF FlagInv
  <2>2. \A l \in Loops : \A u \in clipUsers'[l] : Sandwiched(u)
    BY ClipSteps
  <2>3. \A u : Sandwiched(u) => Sandwiched(u)'
    BY SandwichStays
  <2> QED BY <2>1, <2>2, <2>3, ClipSteps DEF FlagInv
<1>3. FlagInv => FlagSound
  BY DEF FlagInv, FlagSound, Sandwiched
<1> QED BY <1>1, <1>2, <1>3, TypeCorrect, PTL DEF Spec

-----------------------------------------------------------------------------
(* Serial runs.                                                            *)

\* The end of a transaction starts mergeTrade next in its loop and leaves the other loops alone.
LEMMA FinishIdle ==
  ASSUME TypeOK, NEW l \in Loops, Finish(l)
  PROVE  /\ task'[l] = "trade" /\ pc'[l] = "idle"
         /\ \A k \in Loops \ {l} :
              /\ task'[k] = task[k] /\ pc'[k] = pc[k] /\ base'[k] = base[k]
              /\ found'[k] = found[k] /\ old'[k] = old[k] /\ wrote'[k] = wrote[k]
BY DEF TypeOK, Finish

\* Under SerialInv the commit of mergeTrade adds exactly the page it found.
LEMMA CommitTradeCounts ==
  ASSUME TypeOK, SerialInv, NEW l \in Loops, CommitTrade(l)
  PROVE  /\ found[l] \subseteq Visible
         /\ \A i \in found[l] : acct[UserOf[i]][i] = 0
         /\ acct' = [u \in Users |-> [i \in Ids |->
                       IF i \in found[l] /\ UserOf[i] = u THEN acct[u][i] + 1 ELSE acct[u][i]]]
         /\ UsersOf(found[l]) \subseteq accounts'
         /\ Visible' = Visible
<1>1. Trading(l) /\ TransactionIsolated(l)
  BY DEF CommitTrade, Trading, SerialInv
<1>2. old[l] = acct /\ UsersOf(found[l]) \subseteq wrote[l] /\ found[l] \subseteq Visible
  BY <1>1 DEF TransactionIsolated, CommitTrade
<1>3. \A i \in found[l] : acct[UserOf[i]][i] = 0
  BY <1>1, MergeAssumption DEF TransactionIsolated, CommitTrade, Counted, TypeOK, Bags, Visible
<1>4. acct' = [u \in Users |-> [i \in Ids |->
                 IF i \in found[l] /\ UserOf[i] = u THEN acct[u][i] + 1 ELSE acct[u][i]]]
  <2>1. ASSUME NEW u \in Users
        PROVE  (IF u \in wrote[l] THEN NewAccount(l, u) ELSE acct[u]) =
                 [i \in Ids |-> IF i \in found[l] /\ UserOf[i] = u THEN acct[u][i] + 1 ELSE acct[u][i]]
    <3>1. CASE u \in wrote[l]
      BY <1>2, <3>1 DEF NewAccount, TypeOK, Bags
    <3>2. CASE u \notin wrote[l]
      <4>1. \A i \in found[l] : UserOf[i] # u
        BY <1>2, <3>2 DEF UsersOf
      <4> QED BY <3>2, <4>1 DEF TypeOK, Bags
    <3> QED BY <3>1, <3>2
  <2> QED BY <2>1 DEF CommitTrade
<1>5. Visible' = Visible
  BY <1>2 DEF CommitTrade, Visible
<1>6. UsersOf(found[l]) \subseteq accounts'
  BY <1>2 DEF CommitTrade
<1> QED BY <1>2, <1>3, <1>4, <1>5, <1>6

\* A transaction that ends without a change of the database keeps SerialInv.
LEMMA FinishKeeps ==
  ASSUME TypeOK, SerialInv, NEW l \in Loops, Finish(l), UNCHANGED db, NoOverlap'
  PROVE  SerialInv'
<1>1. (StatusOneIsCounted /\ CountedAtMostOnce /\ CountedIsSettled)'
  BY DEF SerialInv, StatusOneIsCounted, CountedAtMostOnce, CountedIsSettled, Counted, db
<1>2. ASSUME NEW k \in Loops
      PROVE  (/\ task[k] = "trade" => pc[k] \notin {"clip", "flag"}
              /\ task[k] = "clip" => pc[k] \in {"idle", "clip", "flag", "commit"} /\ found[k] \subseteq Visible
              /\ task[k] = "token" => pc[k] = "idle"
              /\ Trading(k) => TransactionIsolated(k))'
  <2>1. CASE k = l
    BY <2>1, FinishIdle DEF Trading
  <2>2. CASE k # l
    BY <2>2, FinishIdle DEF SerialInv, Trading, TransactionIsolated, Visible, Counted, db
  <2> QED BY <2>1, <2>2
<1> QED BY <1>1, <1>2 DEF SerialInv

\* No step of the serial merge breaks SerialInv.
LEMMA SerialStep ==
  ASSUME TypeOK, SerialInv, SerialNext
  PROVE  SerialInv'
<1> USE MergeAssumption DEF SerialInv
<1>0. NoOverlap'
  BY DEF SerialNext
<1>1. ASSUME UNCHANGED db
      PROVE  (StatusOneIsCounted /\ CountedAtMostOnce /\ CountedIsSettled)'
  BY <1>1 DEF StatusOneIsCounted, CountedAtMostOnce, CountedIsSettled, Counted, db
<1>2. ASSUME NEW l \in Loops, Begin(l) PROVE SerialInv'
  BY <1>0, <1>1, <1>2 DEF Begin, TypeOK, Trading, TransactionIsolated, Visible, Counted, db
<1>3. ASSUME NEW l \in Loops, Query(l) PROVE SerialInv'
  <2>1. CASE Finish(l)
    BY <1>0, <1>3, <2>1, FinishKeeps DEF Query
  <2>2. CASE ~Finish(l)
    <3>1. /\ found' = [found EXCEPT ![l] = {i \in Page(base[l]) : status[i] = "init"}]
          /\ pc' = [pc EXCEPT ![l] = "find"]
          /\ UNCHANGED <<db, task, base, old, wrote>>
      BY <1>3, <2>2 DEF Query
    <3>2. \A i \in Page(base[l]) : status[i] = "init" => i \in Visible /\ ~Counted(i)
      BY DEF Page, Visible, CountedIsSettled, Counted, TypeOK, Bags
    <3> QED BY <1>0, <1>1, <1>3, <3>1, <3>2
            DEF Query, TypeOK, Trading, TransactionIsolated, Visible, Counted, db, Page
  <2> QED BY <2>1, <2>2
<1>4. ASSUME NEW l \in Loops, Find(l) PROVE SerialInv'
  BY <1>0, <1>1, <1>4 DEF Find, TypeOK, Trading, TransactionIsolated, Visible, Counted, db
<1>5. ASSUME NEW l \in Loops, NEW u \in Users, UpdateUser(l, u) PROVE SerialInv'
  BY <1>0, <1>1, <1>5 DEF UpdateUser, TypeOK, Trading, TransactionIsolated, Visible, Counted, db
<1>6. ASSUME NEW l \in Loops, InsertUsers(l) PROVE SerialInv'
  <2>1. CASE Finish(l)
    BY <1>0, <1>6, <2>1, FinishKeeps DEF InsertUsers
  <2>2. CASE ~Finish(l)
    <3>1. /\ wrote' = [wrote EXCEPT ![l] = @ \cup ToInsert(l)]
          /\ pc' = [pc EXCEPT ![l] = "mark"]
          /\ UNCHANGED <<db, task, base, found, old>>
      BY <1>6, <2>2 DEF InsertUsers
    <3>2. UsersOf(found[l]) \subseteq wrote[l] \cup ToInsert(l)
      BY <1>6 DEF InsertUsers, ToUpdate, ToInsert
    <3> QED BY <1>0, <1>1, <1>6, <3>1, <3>2
            DEF InsertUsers, TypeOK, Trading, TransactionIsolated, Visible, Counted, db, UsersOf
  <2> QED BY <2>1, <2>2
<1>7. ASSUME NEW l \in Loops, MarkTrades(l) \/ UpdateCursor(l) PROVE SerialInv'
  BY <1>0, <1>1, <1>7
  DEF MarkTrades, UpdateCursor, locals, TypeOK, Trading, TransactionIsolated, Visible, Counted, db, UsersOf
<1>8. ASSUME NEW l \in Loops, CommitTrade(l) PROVE SerialInv'
  <2> DEFINE counts == [u \in Users |-> [i \in Ids |->
               IF i \in found[l] /\ UserOf[i] = u THEN acct[u][i] + 1 ELSE acct[u][i]]]
  <2>1. /\ found[l] \subseteq Visible
        /\ \A i \in found[l] : acct[UserOf[i]][i] = 0
        /\ acct' = counts
        /\ UsersOf(found[l]) \subseteq accounts'
        /\ Visible' = Visible
    BY <1>8, CommitTradeCounts
  <2>2. \A i \in Ids : acct'[UserOf[i]][i] = IF i \in found[l] THEN 1 ELSE acct[UserOf[i]][i]
    BY <2>1 DEF TypeOK, Bags
  <2>3. \A i \in Ids : status'[i] = IF i \in found[l] THEN "merged" ELSE status[i]
    BY <1>8 DEF CommitTrade
  <2>4. StatusOneIsCounted'
    <3> SUFFICES ASSUME NEW i \in Ids, status'[i] = "merged"
                 PROVE  acct'[UserOf[i]][i] > 0
      BY DEF StatusOneIsCounted, Counted
    <3>1. CASE i \in found[l]
      <4>1. acct'[UserOf[i]][i] = 1
        BY <2>2, <3>1
      <4> QED BY <4>1
    <3>2. CASE i \notin found[l]
      <4>1. status[i] = "merged"
        BY <2>3, <3>2
      <4>2. acct[UserOf[i]][i] > 0
        BY <4>1 DEF StatusOneIsCounted, Counted
      <4> QED BY <2>2, <3>2, <4>2
    <3> QED BY <3>1, <3>2
  <2>5. CountedAtMostOnce'
    <3>1. \A i \in Ids : acct[UserOf[i]][i] <= 1
      BY DEF CountedAtMostOnce
    <3>2. \A i \in Ids : acct'[UserOf[i]][i] <= 1
      BY <2>2, <3>1
    <3> QED BY <3>2 DEF CountedAtMostOnce
  <2>6. CountedIsSettled'
    <3> SUFFICES ASSUME NEW u \in Users, NEW i \in Ids, acct'[u][i] > 0
                 PROVE  UserOf[i] = u /\ u \in accounts' /\ status'[i] \in {"merged", "clip"}
      BY DEF CountedIsSettled
    <3>1. CASE i \in found[l] /\ UserOf[i] = u
      BY <2>1, <2>3, <3>1 DEF UsersOf
    <3>2. CASE ~(i \in found[l] /\ UserOf[i] = u)
      <4>1. acct'[u][i] = acct[u][i]
        BY <2>1, <3>2
      <4> QED BY <1>8, <2>3, <4>1 DEF CountedIsSettled, CommitTrade
    <3> QED BY <3>1, <3>2
  <2>7. ASSUME NEW k \in Loops
        PROVE  (/\ task[k] = "trade" => pc[k] \notin {"clip", "flag"}
                /\ task[k] = "clip" => pc[k] \in {"idle", "clip", "flag", "commit"} /\ found[k] \subseteq Visible
                /\ task[k] = "token" => pc[k] = "idle"
                /\ Trading(k) => TransactionIsolated(k))'
    <3>1. Finish(l) /\ Trading(l)
      BY <1>8 DEF CommitTrade, Trading
    <3>2. CASE k = l
      BY <3>1, <3>2, FinishIdle DEF Trading
    <3>3. CASE k # l
      <4>1. ~Trading(k)
        BY <3>1, <3>3 DEF NoOverlap
      <4> QED BY <2>1, <3>1, <3>3, <4>1, FinishIdle DEF Trading
    <3> QED BY <3>2, <3>3
  <2> QED BY <1>0, <2>4, <2>5, <2>6, <2>7
<1>9. ASSUME NEW l \in Loops, ClipSelect(l) PROVE SerialInv'
  <2>1. CASE Finish(l)
    BY <1>0, <1>9, <2>1, FinishKeeps DEF ClipSelect
  <2>2. CASE ~Finish(l)
    <3>1. /\ task[l] = "clip"
          /\ pc' = [pc EXCEPT ![l] = "clip"]
          /\ UNCHANGED <<db, task, base, found, old, wrote>>
      BY <1>9, <2>2 DEF ClipSelect
    <3> QED BY <1>0, <1>1, <3>1 DEF TypeOK, Trading, TransactionIsolated, Visible, Counted, db
  <2> QED BY <2>1, <2>2
<1>10. ASSUME NEW l \in Loops, ClipMark(l) PROVE SerialInv'
  <2>1. task[l] = "clip"
    BY <1>10 DEF ClipMark, TypeOK
  <2> QED BY <1>0, <1>1, <1>10, <2>1 DEF ClipMark, TypeOK, Trading, TransactionIsolated, Visible, Counted, db
<1>11. ASSUME NEW l \in Loops, ClipFlag(l) PROVE SerialInv'
  <2>1. task[l] = "clip"
    BY <1>11 DEF ClipFlag, TypeOK
  <2> QED BY <1>0, <1>1, <1>11, <2>1 DEF ClipFlag, TypeOK, Trading, TransactionIsolated, Visible, Counted, db
<1>12. ASSUME NEW l \in Loops, CommitClip(l) PROVE SerialInv'
  <2>1. \A i \in Ids : status'[i] = IF i \in found[l] THEN "clip" ELSE status[i]
    BY <1>12 DEF CommitClip
  <2>2. Finish(l) /\ UNCHANGED <<acct, accounts, cursor>>
    BY <1>12 DEF CommitClip
  <2>3. Visible' = Visible
    <3>1. found[l] \subseteq Visible
      BY <1>12 DEF CommitClip
    <3> QED BY <2>1, <3>1 DEF Visible
  <2>4. (StatusOneIsCounted /\ CountedAtMostOnce /\ CountedIsSettled)'
    BY <2>1, <2>2 DEF StatusOneIsCounted, CountedAtMostOnce, CountedIsSettled, Counted
  <2>5. ASSUME NEW k \in Loops
        PROVE  (/\ task[k] = "trade" => pc[k] \notin {"clip", "flag"}
                /\ task[k] = "clip" => pc[k] \in {"idle", "clip", "flag", "commit"} /\ found[k] \subseteq Visible
                /\ task[k] = "token" => pc[k] = "idle"
                /\ Trading(k) => TransactionIsolated(k))'
    BY <2>2, <2>3, FinishIdle DEF Trading, TransactionIsolated, Counted, Page
  <2> QED BY <1>0, <2>4, <2>5
<1>13. ASSUME NEW l \in Loops, TokenFirst(l) \/ DeadlockVictim(l) PROVE SerialInv'
  BY <1>0, <1>13, FinishKeeps DEF TokenFirst, DeadlockVictim
<1>14. ASSUME NEW l \in Loops, Fail(l) PROVE SerialInv'
  BY <1>0, <1>14, FinishKeeps DEF Fail
<1>15. CASE Restart
  BY <1>0, <1>1, <1>15 DEF Restart, TypeOK, Trading
<1>16. ASSUME NEW t \in Txs, CommitBucket(t) PROVE SerialInv'
  <2>1. \A i \in Ids : status'[i] = IF TxOf[i] = t THEN "init" ELSE status[i]
    BY <1>16 DEF CommitBucket
  <2>2. UNCHANGED <<acct, accounts, cursor, task, pc, base, found, old, wrote>>
    BY <1>16 DEF CommitBucket, locals
  <2>3. Visible \subseteq Visible'
    BY <1>16, <2>1 DEF Visible, CommitBucket
  <2>4. (StatusOneIsCounted /\ CountedAtMostOnce /\ CountedIsSettled)'
    BY <1>16, <2>1, <2>2
    DEF CommitBucket, StatusOneIsCounted, CountedAtMostOnce, CountedIsSettled, Counted
  <2>5. ASSUME NEW k \in Loops
        PROVE  (/\ task[k] = "trade" => pc[k] \notin {"clip", "flag"}
                /\ task[k] = "clip" => pc[k] \in {"idle", "clip", "flag", "commit"} /\ found[k] \subseteq Visible
                /\ task[k] = "token" => pc[k] = "idle"
                /\ Trading(k) => TransactionIsolated(k))'
    BY <2>2, <2>3 DEF Trading, TransactionIsolated, Counted, Page
  <2> QED BY <1>0, <2>4, <2>5
<1> QED
  BY <1>2, <1>3, <1>4, <1>5, <1>6, <1>7, <1>8, <1>9, <1>10, <1>11, <1>12, <1>13,
     <1>14, <1>15, <1>16 DEF SerialNext, Next, Step

\* SerialInv holds in every state of a serial run.
THEOREM SerialInvariance == SerialSpec => [](TypeOK /\ SerialInv)
<1>1. SerialSpec => Spec
  <2>1. [SerialNext]_vars => [Next]_vars
    BY DEF SerialNext
  <2> QED BY <2>1, PTL DEF SerialSpec, Spec
<1>2. Init => SerialInv
  BY MergeAssumption
  DEF Init, SerialInv, NoOverlap, StatusOneIsCounted, CountedAtMostOnce, CountedIsSettled,
      Counted, Trading, EmptyBag
<1>3. TypeOK /\ SerialInv /\ [SerialNext]_vars => SerialInv'
  <2>1. ASSUME TypeOK, SerialInv, UNCHANGED vars PROVE SerialInv'
    BY <2>1
    DEF vars, db, locals, SerialInv, NoOverlap, StatusOneIsCounted, CountedAtMostOnce,
        CountedIsSettled, Counted, Trading, TransactionIsolated, Visible
  <2> QED BY <2>1, SerialStep
<1> QED BY <1>1, <1>2, <1>3, TypeCorrect, PTL DEF SerialSpec

\* The comment on PfTrade.status holds, and no trade is counted twice, as
\* long as mergeTrade calls do not overlap.
THEOREM SerialStatusOneIsCounted == SerialSpec => []StatusOneIsCounted
<1>1. SerialInv => StatusOneIsCounted
  BY DEF SerialInv
<1> QED BY <1>1, SerialInvariance, PTL

\* No trade is in an account twice, as long as mergeTrade calls do not overlap.
THEOREM SerialCountedAtMostOnce == SerialSpec => []CountedAtMostOnce
<1>1. SerialInv => CountedAtMostOnce
  BY DEF SerialInv
<1> QED BY <1>1, SerialInvariance, PTL

-----------------------------------------------------------------------------
(* What the commits mean for the ledger and for the cursor.                *)

\* A step of any other action than the three that commit something new leaves
\* trades and accounts alone.
LEMMA OtherStepsKeepDb ==
  ASSUME NEW l \in Loops, Step(l) \/ Fail(l), ~CommitTrade(l), ~CommitClip(l)
  PROVE  UNCHANGED db
BY DEF Step, Fail, Begin, Query, Find, UpdateUser, InsertUsers, MarkTrades, UpdateCursor,
       ClipSelect, ClipMark, ClipFlag, TokenFirst, DeadlockVictim

\* The detailed transactions implement the ledger: every serial run records
\* each trade once and adds it to its user's account at most once, in one step.
THEOREM SerialImplementsLedger == SerialSpec => ImplementsLedger
<1>1. Init => Ledger!Init
  BY DEF Init, Ledger!Init, Visible, EmptyBag, Ledger!EmptyBag
<1>2. TypeOK /\ SerialInv /\ [SerialNext]_vars => [Ledger!Next]_(Ledger!ledgerVars)
  <2> SUFFICES ASSUME TypeOK, SerialInv, [SerialNext]_vars
               PROVE  Ledger!Next \/ UNCHANGED <<Visible, acct>>
    BY DEF Ledger!ledgerVars
  <2>1. ASSUME UNCHANGED db PROVE UNCHANGED <<Visible, acct>>
    BY <2>1 DEF db, Visible
  <2>2. ASSUME NEW l \in Loops, CommitTrade(l) PROVE Ledger!Next
    <3>1. Ledger!Count(found[l])
      BY <2>2, CommitTradeCounts DEF Ledger!Count
    <3>2. found[l] \in SUBSET Ids
      BY DEF TypeOK
    <3> QED BY <3>1, <3>2 DEF Ledger!Next
  <2>3. ASSUME NEW l \in Loops, CommitClip(l) PROVE UNCHANGED <<Visible, acct>>
    <3>1. found[l] \subseteq Visible
      BY <2>3 DEF SerialInv, CommitClip
    <3> QED BY <2>3, <3>1 DEF CommitClip, Visible
  <2>4. ASSUME NEW t \in Txs, CommitBucket(t) PROVE Ledger!Next
    <3> DEFINE S == {i \in Ids : TxOf[i] = t}
    <3>1. S \cap Visible = {} /\ Visible' = Visible \cup S /\ UNCHANGED acct
      BY <2>4 DEF CommitBucket, Visible
    <3>2. Ledger!Record(S)
      BY <3>1 DEF Ledger!Record
    <3> QED BY <3>2 DEF Ledger!Next
  <2>5. ASSUME Restart PROVE UNCHANGED db
    BY <2>5 DEF Restart
  <2>6. ASSUME UNCHANGED vars PROVE UNCHANGED db
    BY <2>6 DEF vars
  <2> QED BY <2>1, <2>2, <2>3, <2>4, <2>5, <2>6, OtherStepsKeepDb DEF SerialNext, Next
<1> QED BY <1>1, <1>2, SerialInvariance, PTL DEF SerialSpec, ImplementsLedger, Ledger!Spec

\* The cursor never goes back, and what it has passed is never counted later.
THEOREM SerialBehindCursorIsFinal == SerialSpec => BehindCursorIsFinal
<1> DEFINE Passed == /\ cursor' >= cursor
                     /\ \A i \in Ids : i <= cursor => acct'[UserOf[i]][i] = acct[UserOf[i]][i]
<1>1. TypeOK /\ SerialInv /\ [SerialNext]_vars => [Passed]_vars
  <2> SUFFICES ASSUME TypeOK, SerialInv, [SerialNext]_vars PROVE Passed
    OBVIOUS
  <2>1. ASSUME UNCHANGED <<acct, cursor>> PROVE Passed
    BY <2>1 DEF TypeOK
  <2>2. ASSUME NEW l \in Loops, CommitTrade(l) PROVE Passed
    <3>1. base[l] = cursor /\ \A i \in found[l] : i \in Page(base[l])
      BY <2>2 DEF SerialInv, CommitTrade, Trading, TransactionIsolated
    <3>2. cursor' = cursor + 1 + PageSize
      BY <2>2, <3>1 DEF CommitTrade
    <3>3. \A i \in Ids : i <= cursor => i \notin found[l]
      BY <3>1, MergeAssumption DEF Page, TypeOK
    <3>4. \A i \in Ids : i <= cursor => acct'[UserOf[i]][i] = acct[UserOf[i]][i]
      BY <2>2, <3>3, CommitTradeCounts, MergeAssumption
    <3> QED BY <3>2, <3>4, MergeAssumption DEF TypeOK
  <2>3. ASSUME UNCHANGED db PROVE Passed
    BY <2>1, <2>3 DEF db
  <2>4. ASSUME NEW l \in Loops, CommitClip(l) PROVE Passed
    BY <2>1, <2>4 DEF CommitClip
  <2>5. ASSUME NEW t \in Txs, CommitBucket(t) PROVE Passed
    BY <2>1, <2>5 DEF CommitBucket
  <2>6. ASSUME Restart \/ UNCHANGED vars PROVE UNCHANGED db
    BY <2>6 DEF Restart, vars
  <2> QED BY <2>2, <2>3, <2>4, <2>5, <2>6, OtherStepsKeepDb DEF SerialNext, Next
<1> QED BY <1>1, SerialInvariance, PTL DEF SerialSpec, BehindCursorIsFinal

\* What a page that is counted or set aside keeps.
LEMMA StalledFollows ==
  ASSUME Stalled, cursor' = cursor,
         \A i \in Ids : status[i] \in {"merged", "clip"} => status'[i] \in {"merged", "clip"},
         \A k \in Loops : Trading(k)' => pc'[k] = "query" /\ base'[k] = cursor
  PROVE  Stalled' /\ cursor' = cursor
BY DEF Stalled, Page

\* The loop that stops does not merge, and the others do as before.
LEMMA FinishTrading ==
  ASSUME TypeOK, NEW l \in Loops, Finish(l)
  PROVE  \A k \in Loops : Trading(k)' =>
           k # l /\ Trading(k) /\ pc'[k] = pc[k] /\ base'[k] = base[k]
BY DEF TypeOK, Finish, Trading

\* As long as no two mergeTrade transactions overlap, a page that a clip has
\* emptied ends the merge for good.
THEOREM SerialStallIsFinal == SerialSpec => StallIsFinal
<1> DEFINE Kept == Stalled => Stalled' /\ cursor' = cursor
<1>1. TypeOK /\ SerialInv /\ [SerialNext]_vars => [Kept]_vars
  <2> SUFFICES ASSUME TypeOK, SerialInv, [SerialNext]_vars, Stalled
               PROVE  Stalled' /\ cursor' = cursor
    OBVIOUS
  <2>0. \A k \in Loops : Trading(k) => pc[k] = "query" /\ base[k] = cursor
    BY DEF Stalled
  <2>1. \A k \in Loops : pc[k] \in {"find", "update", "mark", "config"} => task[k] = "trade"
    BY DEF SerialInv, TypeOK
  <2>2. \A k \in Loops : pc[k] \notin {"find", "update", "mark", "config"}
                         /\ (pc[k] = "commit" => task[k] # "trade")
    BY <2>0, <2>1 DEF Trading
  <2>3. ASSUME NEW l \in Loops, Step(l) PROVE Stalled' /\ cursor' = cursor
    <3>1. CASE Begin(l)
      <4>1. /\ status' = status /\ cursor' = cursor
            /\ \A k \in Loops : Trading(k)' => pc'[k] = "query" /\ base'[k] = cursor
        BY <2>0, <3>1 DEF Begin, db, Trading, TypeOK
      <4> QED BY <4>1, StalledFollows
    <3>2. CASE Query(l)
      <4>1. base[l] = cursor
        BY <2>0, <3>2 DEF Query, Trading, SerialInv, TypeOK
      <4>2. {i \in Page(base[l]) : status[i] = "init"} = {}
        BY <4>1 DEF Stalled
      <4>3. Finish(l) /\ status' = status /\ cursor' = cursor
        BY <3>2, <4>2 DEF Query, db
      <4> QED BY <2>0, <4>3, FinishTrading, StalledFollows
    <3>3. CASE CommitClip(l)
      <4>1. Finish(l) /\ cursor' = cursor
            /\ \A i \in Ids : status'[i] = IF i \in found[l] THEN "clip" ELSE status[i]
        BY <3>3 DEF CommitClip
      <4> QED BY <2>0, <4>1, FinishTrading, StalledFollows
    <3>4. CASE ClipSelect(l) \/ ClipMark(l) \/ ClipFlag(l)
      <4>1. status' = status /\ cursor' = cursor
        BY <3>4 DEF ClipSelect, ClipMark, ClipFlag, db
      <4>2. ASSUME Finish(l) PROVE Stalled' /\ cursor' = cursor
        BY <2>0, <4>1, <4>2, FinishTrading, StalledFollows
      <4>3. ASSUME ~Finish(l) PROVE Stalled' /\ cursor' = cursor
        <5>1. task' = task /\ base' = base /\ task[l] # "trade"
              /\ \A k \in Loops \ {l} : pc'[k] = pc[k]
          BY <3>4, <4>3 DEF ClipSelect, ClipMark, ClipFlag, SerialInv, TypeOK
        <5> QED BY <2>0, <4>1, <5>1, StalledFollows DEF Trading
      <4> QED BY <4>2, <4>3
    <3>5. CASE TokenFirst(l) \/ DeadlockVictim(l)
      <4>1. Finish(l) /\ status' = status /\ cursor' = cursor
        BY <3>5 DEF TokenFirst, DeadlockVictim, db
      <4> QED BY <2>0, <4>1, FinishTrading, StalledFollows
    <3>6. ~(Find(l) \/ (\E u \in Users : UpdateUser(l, u)) \/ InsertUsers(l) \/ MarkTrades(l)
            \/ UpdateCursor(l) \/ CommitTrade(l))
      BY <2>2 DEF Find, UpdateUser, InsertUsers, MarkTrades, UpdateCursor, CommitTrade
    <3> QED BY <2>3, <3>1, <3>2, <3>3, <3>4, <3>5, <3>6 DEF Step
  <2>4. ASSUME NEW l \in Loops, Fail(l) PROVE Stalled' /\ cursor' = cursor
    <3>1. Finish(l) /\ status' = status /\ cursor' = cursor
      BY <2>4 DEF Fail, db
    <3> QED BY <2>0, <3>1, FinishTrading, StalledFollows
  <2>5. ASSUME Restart PROVE Stalled' /\ cursor' = cursor
    <3>1. status' = status /\ cursor' = cursor /\ \A k \in Loops : ~Trading(k)'
      BY <2>5 DEF Restart, db, Trading
    <3> QED BY <3>1, StalledFollows
  <2>6. ASSUME NEW t \in Txs, CommitBucket(t) PROVE Stalled' /\ cursor' = cursor
    <3>1. cursor' = cursor /\ task' = task /\ pc' = pc /\ base' = base
      BY <2>6 DEF CommitBucket, locals
    <3>2. \A i \in Ids : status[i] # "absent" => status'[i] = status[i]
      BY <2>6 DEF CommitBucket
    <3> QED BY <2>0, <3>1, <3>2, StalledFollows DEF Trading
  <2>7. ASSUME UNCHANGED vars PROVE Stalled' /\ cursor' = cursor
    BY <2>7 DEF vars, db, locals, Stalled, Trading
  <2> QED BY <2>3, <2>4, <2>5, <2>6, <2>7 DEF SerialNext, Next
<1> QED BY <1>1, SerialInvariance, PTL DEF SerialSpec, StallIsFinal

-----------------------------------------------------------------------------
(* Transactions that wait for each other.                                   *)

\* A loop between two transactions holds no rows, and the token loop is never
\* in one of those that wait.
IdleInv ==
  \A l \in Loops :
    /\ pc[l] = "idle" => wrote[l] = {}
    /\ task[l] = "token" => pc[l] = "idle"

\* IdleInv holds in every state, whatever the loops do.
THEOREM IdleHoldsNothing == Spec => []IdleInv
<1>1. Init => IdleInv
  BY DEF Init, IdleInv
<1>2. TypeOK /\ IdleInv /\ [Next]_vars => IdleInv'
  <2> SUFFICES ASSUME TypeOK, IdleInv, [Next]_vars PROVE IdleInv'
    OBVIOUS
  <2>1. ASSUME NEW l \in Loops, Finish(l) PROVE IdleInv'
    <3>1. /\ pc' = [pc EXCEPT ![l] = "idle"]
          /\ wrote' = [wrote EXCEPT ![l] = {}]
          /\ task' = [task EXCEPT ![l] = "trade"]
      BY <2>1 DEF Finish
    <3>2. ASSUME NEW k \in Loops
          PROVE  (pc[k] = "idle" => wrote[k] = {})' /\ (task[k] = "token" => pc[k] = "idle")'
      BY <3>1 DEF TypeOK, IdleInv
    <3> QED BY <3>2 DEF IdleInv
  <2>2. ASSUME NEW l \in Loops, Begin(l) PROVE IdleInv'
    BY <2>2 DEF TypeOK, IdleInv, Begin
  <2>3. ASSUME NEW l \in Loops, Query(l) PROVE IdleInv'
    BY <2>1, <2>3 DEF TypeOK, IdleInv, Query
  <2>4. ASSUME NEW l \in Loops, Find(l) PROVE IdleInv'
    BY <2>4 DEF TypeOK, IdleInv, Find
  <2>5. ASSUME NEW l \in Loops, NEW u \in Users, UpdateUser(l, u) PROVE IdleInv'
    BY <2>5 DEF TypeOK, IdleInv, UpdateUser
  <2>6. ASSUME NEW l \in Loops, InsertUsers(l) PROVE IdleInv'
    BY <2>1, <2>6 DEF TypeOK, IdleInv, InsertUsers
  <2>7. ASSUME NEW l \in Loops, MarkTrades(l) PROVE IdleInv'
    BY <2>7 DEF TypeOK, IdleInv, MarkTrades, locals
  <2>8. ASSUME NEW l \in Loops, UpdateCursor(l) PROVE IdleInv'
    BY <2>8 DEF TypeOK, IdleInv, UpdateCursor, locals
  <2>9. ASSUME NEW l \in Loops, ClipSelect(l) PROVE IdleInv'
    BY <2>1, <2>9 DEF TypeOK, IdleInv, ClipSelect
  <2>10. ASSUME NEW l \in Loops, ClipMark(l) PROVE IdleInv'
    BY <2>10 DEF TypeOK, IdleInv, ClipMark
  <2>11. ASSUME NEW l \in Loops, ClipFlag(l) PROVE IdleInv'
    BY <2>11 DEF TypeOK, IdleInv, ClipFlag
  <2>12. ASSUME NEW l \in Loops,
                CommitTrade(l) \/ CommitClip(l) \/ TokenFirst(l) \/ DeadlockVictim(l) \/ Fail(l)
         PROVE  IdleInv'
    BY <2>1, <2>12 DEF CommitTrade, CommitClip, TokenFirst, DeadlockVictim, Fail
  <2>13. ASSUME Restart PROVE IdleInv'
    BY <2>13 DEF IdleInv, Restart
  <2>14. ASSUME NEW t \in Txs, CommitBucket(t) PROVE IdleInv'
    BY <2>14 DEF IdleInv, CommitBucket, locals
  <2>15. ASSUME UNCHANGED vars PROVE IdleInv'
    BY <2>15 DEF IdleInv, vars, locals
  <2> QED
    BY <2>2, <2>3, <2>4, <2>5, <2>6, <2>7, <2>8, <2>9, <2>10, <2>11, <2>12, <2>13, <2>14, <2>15
    DEF Next, Step
<1> QED
  BY <1>1, <1>2, TypeCorrect, PTL DEF Spec

\* A statement that cannot be executed waits for an open transaction.
LEMMA WaitsOrProceeds ==
  ASSUME TypeOK, IdleInv, NEW l \in Loops, pc[l] # "idle", ~Proceeds(l)
  PROVE  \E k \in Loops : WaitsFor(l, k) /\ pc[k] # "idle"
<1>1. \A k \in Loops : wrote[k] # {} \/ TradeLocks(k) # {} \/ pc[k] = "commit" => pc[k] # "idle"
  BY DEF IdleInv, TradeLocks
<1>2. CASE pc[l] = "update" /\ ToUpdate(l) # {}
  <2>1. ToUpdate(l) \subseteq UsersLockedByOthers(l)
    BY <1>2 DEF Proceeds
  <2>2. PICK u \in ToUpdate(l) : u \in UsersLockedByOthers(l)
    BY <1>2, <2>1
  <2>3. PICK k \in Loops \ {l} : u \in wrote[k]
    BY <2>2 DEF UsersLockedByOthers
  <2>4. WaitsFor(l, k)
    BY <1>2, <2>1, <2>2, <2>3 DEF WaitsFor
  <2> QED BY <1>1, <2>3, <2>4
<1>3. CASE pc[l] = "update" /\ ToUpdate(l) = {}
  <2>1. PICK u \in ToInsert(l) \ accounts : u \in UsersLockedByOthers(l)
    BY <1>3 DEF Proceeds
  <2>2. PICK k \in Loops \ {l} : u \in wrote[k]
    BY <2>1 DEF UsersLockedByOthers
  <2>3. WaitsFor(l, k)
    BY <1>3, <2>1, <2>2 DEF WaitsFor
  <2> QED BY <1>1, <2>2, <2>3
<1>4. CASE pc[l] = "mark"
  <2>1. PICK i \in found[l] : i \in LockedByOthers(l)
    BY <1>4 DEF Proceeds
  <2>2. PICK k \in Loops \ {l} : i \in TradeLocks(k)
    BY <2>1 DEF LockedByOthers
  <2>3. WaitsFor(l, k)
    BY <1>4, <2>1, <2>2 DEF WaitsFor
  <2> QED BY <1>1, <2>2, <2>3
<1>5. CASE pc[l] = "config"
  <2>1. PICK k \in Loops \ {l} : pc[k] = "commit" /\ task[k] = "trade"
    BY <1>5 DEF Proceeds
  <2>2. WaitsFor(l, k)
    BY <1>5, <2>1 DEF WaitsFor
  <2> QED BY <1>1, <2>1, <2>2
<1>6. CASE pc[l] = "clip"
  <2> DEFINE rows == {i \in Visible : BlockOfTrade(i) \in clipBlocks[l]}
  <2>1. PICK i \in rows : i \in LockedByOthers(l)
    BY <1>6 DEF Proceeds
  <2>2. PICK k \in Loops \ {l} : i \in TradeLocks(k)
    BY <2>1 DEF LockedByOthers
  <2>3. rows \cap TradeLocks(k) # {}
    BY <2>1, <2>2
  <2>4. WaitsFor(l, k)
    BY <1>6, <2>2, <2>3 DEF WaitsFor
  <2> QED BY <1>1, <2>2, <2>4
<1>7. CASE pc[l] = "flag"
  <2>1. PICK u \in clipUsers[l] \cap accounts : u \in UsersLockedByOthers(l)
    BY <1>7 DEF Proceeds
  <2>2. PICK k \in Loops \ {l} : u \in wrote[k]
    BY <2>1 DEF UsersLockedByOthers
  <2>3. WaitsFor(l, k)
    BY <1>7, <2>1, <2>2 DEF WaitsFor
  <2> QED BY <1>1, <2>2, <2>3
<1>8. pc[l] # "commit"
  BY DEF Proceeds, IdleInv, TypeOK
<1>9. pc[l] \notin {"query", "find"}
  BY DEF Proceeds
<1> QED
  BY <1>2, <1>3, <1>4, <1>5, <1>6, <1>7, <1>8, <1>9 DEF TypeOK

\* The loops that l waits for, directly or through others.
AwaitedBy(l) ==
  {y \in Loops : \A S \in SUBSET Loops :
     (\A x \in S \cup {l} : \A z \in Loops : WaitsFor(x, z) => z \in S) => y \in S}

\* Whom l waits for is awaited by l, together with all that it waits for itself.
LEMMA AwaitedClosed ==
  ASSUME NEW l \in Loops
  PROVE  /\ AwaitedBy(l) \subseteq Loops
         /\ InDeadlock(l) <=> l \in AwaitedBy(l)
         /\ \A k \in Loops : WaitsFor(l, k) =>
              k \in AwaitedBy(l) /\ AwaitedBy(k) \subseteq AwaitedBy(l)
<1> DEFINE Closed(S, k) == \A x \in S \cup {k} : \A z \in Loops : WaitsFor(x, z) => z \in S
<1>1. \A k : \A y \in Loops :
        y \in AwaitedBy(k) <=> \A S \in SUBSET Loops : Closed(S, k) => y \in S
  BY DEF AwaitedBy
<1>2. AwaitedBy(l) \subseteq Loops
  BY DEF AwaitedBy
<1>3. InDeadlock(l) <=> l \in AwaitedBy(l)
  BY DEF InDeadlock, AwaitedBy
<1>4. ASSUME NEW k \in Loops, WaitsFor(l, k) PROVE k \in AwaitedBy(l)
  <2>1. \A S \in SUBSET Loops : Closed(S, l) => k \in S
    BY <1>4
  <2> HIDE DEF Closed
  <2> QED BY <1>1, <2>1
<1>5. Closed(AwaitedBy(l), l)
  <2> SUFFICES ASSUME NEW x \in AwaitedBy(l) \cup {l}, NEW z \in Loops, WaitsFor(x, z)
               PROVE  z \in AwaitedBy(l)
    OBVIOUS
  <2>1. ASSUME NEW S \in SUBSET Loops, Closed(S, l) PROVE z \in S
    <3>1. x \in S \cup {l}
      <4>1. CASE x = l
        BY <4>1
      <4>2. CASE x \in AwaitedBy(l)
        <5>1. x \in Loops
          BY <1>2, <4>2
        <5> HIDE DEF Closed
        <5> QED BY <1>1, <2>1, <4>2, <5>1
      <4> QED BY <4>1, <4>2
    <3> QED BY <2>1, <3>1
  <2> HIDE DEF Closed
  <2> QED BY <1>1, <2>1
<1>6. ASSUME NEW k \in Loops, WaitsFor(l, k) PROVE AwaitedBy(k) \subseteq AwaitedBy(l)
  <2>1. k \in AwaitedBy(l)
    BY <1>4, <1>6
  <2>2. Closed(AwaitedBy(l), k)
    BY <1>5, <2>1
  <2>3. AwaitedBy(l) \in SUBSET Loops
    BY <1>2
  <2>4. ASSUME NEW y \in AwaitedBy(k) PROVE y \in AwaitedBy(l)
    <3>1. y \in Loops
      BY DEF AwaitedBy
    <3> HIDE DEF Closed
    <3> QED BY <1>1, <2>2, <2>3, <2>4, <3>1
  <2> QED BY <2>4
<1> QED BY <1>2, <1>3, <1>4, <1>6

\* A set of numbers that is not empty has a least one.
LEMMA LeastElement ==
  ASSUME NEW S, S \subseteq Nat, S # {}
  PROVE  \E m \in S : \A k \in S : m <= k
<1> DEFINE L == {ss \in Nat \X Nat : ss[1] < ss[2]}
<1>1. IsWellFoundedOn(L, Nat)
  BY NatLessThanWellFounded DEF OpToRel
<1>2. PICK m \in S : \A k \in S : ~(<<k, m>> \in L)
  <2> HIDE DEF L
  <2> QED BY <1>1, WFMin
<1>3. ASSUME NEW k \in S PROVE m <= k
  <2>1. ~(<<k, m>> \in L)
    BY <1>2
  <2> QED BY <2>1
<1> QED BY <1>3

\* Among finitely many loops that all wait there is one in a cycle: the one that
\* waits for the fewest.
LEMMA CycleExists ==
  ASSUME NEW D \in SUBSET Loops, D # {},
         \A l \in D : \E k \in D : WaitsFor(l, k)
  PROVE  \E l \in D : InDeadlock(l)
<1> DEFINE Size(l) == Cardinality(AwaitedBy(l))
<1>1. \A l \in Loops : IsFiniteSet(AwaitedBy(l)) /\ Size(l) \in Nat
  <2> SUFFICES ASSUME NEW l \in Loops PROVE IsFiniteSet(AwaitedBy(l)) /\ Size(l) \in Nat
    OBVIOUS
  <2>1. IsFiniteSet(Loops) /\ AwaitedBy(l) \subseteq Loops
    BY MergeAssumption, AwaitedClosed
  <2>2. IsFiniteSet(AwaitedBy(l))
    BY <2>1, FS_Subset
  <2> QED BY <2>2, FS_CardinalityType
<1>2. PICK l \in D : \A k \in D : Size(l) <= Size(k)
  <2> DEFINE Sizes == {Size(l) : l \in D}
  <2>1. Sizes \subseteq Nat /\ Sizes # {}
    BY <1>1
  <2> HIDE DEF Sizes
  <2>2. PICK m \in Sizes : \A n \in Sizes : m <= n
    BY <2>1, LeastElement
  <2>3. PICK l \in D : m = Size(l)
    BY <2>2 DEF Sizes
  <2>4. \A k \in D : Size(k) \in Sizes
    BY DEF Sizes
  <2> HIDE DEF Size
  <2> QED BY <2>2, <2>3, <2>4
<1>3. PICK k \in D : WaitsFor(l, k)
  OBVIOUS
<1>4. k \in AwaitedBy(l) /\ AwaitedBy(k) \subseteq AwaitedBy(l)
  BY <1>3, AwaitedClosed
<1>5. CASE AwaitedBy(k) = AwaitedBy(l)
  <2>1. InDeadlock(k)
    BY <1>4, <1>5, AwaitedClosed
  <2> QED BY <2>1
<1>6. CASE AwaitedBy(k) # AwaitedBy(l)
  <2>1. Size(k) < Size(l)
    BY <1>1, <1>4, <1>6, FS_Subset
  <2>2. Size(l) <= Size(k) /\ Size(k) \in Nat /\ Size(l) \in Nat
    BY <1>1, <1>2
  <2> HIDE DEF Size
  <2> QED BY <2>1, <2>2
<1> QED BY <1>5, <1>6

\* For any number of loops: while transactions are open, one of them goes on or
\* is rolled back as the victim of a deadlock.
THEOREM MergeNeverStuck == Spec => []NeverStuck
<1>1. TypeOK /\ IdleInv => NeverStuck
  <2> SUFFICES ASSUME TypeOK, IdleInv,
                      NEW o \in Loops, pc[o] # "idle",
                      \A l \in Loops : pc[l] # "idle" => ~Proceeds(l)
               PROVE  \E l \in Loops : pc[l] # "idle" /\ InDeadlock(l)
    BY DEF NeverStuck
  <2> DEFINE D == {l \in Loops : pc[l] # "idle"}
  <2>1. D \in SUBSET Loops /\ D # {}
    OBVIOUS
  <2>2. \A l \in D : \E k \in D : WaitsFor(l, k)
    BY WaitsOrProceeds
  <2>3. \E l \in D : InDeadlock(l)
    <3> HIDE DEF D
    <3> QED BY <2>1, <2>2, CycleExists
  <2> QED BY <2>3
<1> QED
  BY <1>1, TypeCorrect, IdleHoldsNothing, PTL

-----------------------------------------------------------------------------
(* Transactions end.                                                        *)

\* The statements that are still to come, apart from the UPDATEs of accounts.
Ahead(l) ==
  CASE pc[l] = "query"  -> 6
    [] pc[l] = "find"   -> 5
    [] pc[l] = "update" -> 4
    [] pc[l] = "mark"   -> 3
    [] pc[l] = "config" -> 2
    [] pc[l] = "clip"   -> 3
    [] pc[l] = "flag"   -> 2
    [] pc[l] = "commit" -> 1
    [] OTHER            -> 0

Nearer(l) ==
  \/ Ahead(l)' < Ahead(l)
  \/ /\ Ahead(l)' = Ahead(l)
     /\ Cardinality(ToUpdate(l))' < Cardinality(ToUpdate(l))

Transaction(l) ==
  <<task[l], pc[l], base[l], found[l], old[l], oldUsers[l], wrote[l], clipBlocks[l], clipUsers[l]>>

\* An open transaction is left alone, or comes nearer to its end.
Descends ==
  \A l \in Loops : pc[l] # "idle" => Transaction(l)' = Transaction(l) \/ Nearer(l)

\* A page has finitely many rows.
PageInv == \A l \in Loops : pc[l] \in {"find", "update"} => IsFiniteSet(found[l])

\* A page is a part of an interval of ids.
LEMMA PageIsFinite == ASSUME NEW c \in Nat, NEW S, S \subseteq Page(c) PROVE IsFiniteSet(S)
<1>1. IsFiniteSet(c + 1 .. c + 1 + PageSize)
  BY FS_Interval, MergeAssumption
<1>2. S \subseteq c + 1 .. c + 1 + PageSize
  BY MergeAssumption DEF Page
<1> QED BY <1>1, <1>2, FS_Subset

\* PageInv holds in every state, whatever the loops do.
LEMMA PagesAreFinite == Spec => []PageInv
<1>1. Init => PageInv
  BY DEF Init, PageInv
<1>2. TypeOK /\ PageInv /\ [Next]_vars => PageInv'
  <2> SUFFICES ASSUME TypeOK, PageInv, [Next]_vars PROVE PageInv'
    OBVIOUS
  <2>1. ASSUME NEW l \in Loops, Finish(l) PROVE PageInv'
    <3>1. pc' = [pc EXCEPT ![l] = "idle"] /\ found' = [found EXCEPT ![l] = {}]
      BY <2>1 DEF Finish
    <3> QED BY <3>1 DEF TypeOK, PageInv
  <2>2. ASSUME NEW l \in Loops, Query(l) PROVE PageInv'
    <3> DEFINE rows == {i \in Page(base[l]) : status[i] = "init"}
    <3>1. IsFiniteSet(rows)
      BY PageIsFinite DEF TypeOK
    <3>2. CASE rows = {}
      BY <2>1, <2>2, <3>2 DEF Query
    <3>3. CASE rows # {}
      BY <2>2, <3>1, <3>3 DEF Query, TypeOK, PageInv
    <3> QED BY <3>2, <3>3
  <2>3. ASSUME NEW l \in Loops,
               \/ Begin(l) \/ Find(l) \/ MarkTrades(l) \/ UpdateCursor(l)
               \/ ClipMark(l) \/ ClipFlag(l) \/ \E u \in Users : UpdateUser(l, u)
        PROVE  PageInv'
    BY <2>3 DEF TypeOK, PageInv, Begin, Find, MarkTrades, UpdateCursor, ClipMark, ClipFlag,
                UpdateUser, locals
  <2>4. ASSUME NEW l \in Loops, InsertUsers(l) PROVE PageInv'
    BY <2>1, <2>4 DEF TypeOK, PageInv, InsertUsers
  <2>5. ASSUME NEW l \in Loops, ClipSelect(l) PROVE PageInv'
    BY <2>1, <2>5 DEF TypeOK, PageInv, ClipSelect
  <2>6. ASSUME NEW l \in Loops,
               CommitTrade(l) \/ CommitClip(l) \/ TokenFirst(l) \/ DeadlockVictim(l) \/ Fail(l)
        PROVE  PageInv'
    BY <2>1, <2>6 DEF CommitTrade, CommitClip, TokenFirst, DeadlockVictim, Fail
  <2>7. ASSUME Restart PROVE PageInv'
    BY <2>7 DEF PageInv, Restart
  <2>8. ASSUME NEW t \in Txs, CommitBucket(t) PROVE PageInv'
    BY <2>8 DEF PageInv, CommitBucket, locals
  <2>9. ASSUME UNCHANGED vars PROVE PageInv'
    BY <2>9 DEF PageInv, vars, locals
  <2> QED
    BY <2>2, <2>3, <2>4, <2>5, <2>6, <2>7, <2>8, <2>9 DEF Next, Step
<1> QED
  BY <1>1, <1>2, TypeCorrect, PTL DEF Spec

\* The accounts that remain to be updated are finitely many.
LEMMA UpdatesAreFinite ==
  ASSUME PageInv, NEW l \in Loops, pc[l] = "update" PROVE IsFiniteSet(ToUpdate(l))
<1>1. IsFiniteSet(found[l])
  BY DEF PageInv
<1>2. [i \in found[l] |-> UserOf[i]] \in Surjection(found[l], UsersOf(found[l]))
  BY DEF Surjection, UsersOf
<1>3. IsFiniteSet(UsersOf(found[l]))
  BY <1>1, <1>2, FS_Surjection
<1> QED BY <1>3, FS_Subset DEF ToUpdate

\* A step of a loop does not touch what another loop is at.
LEMMA OthersLeftAlone ==
  ASSUME TypeOK, NEW k \in Loops, Step(k) \/ Fail(k), NEW l \in Loops, l # k
  PROVE  Transaction(l)' = Transaction(l)
<1>1. CASE Finish(k)
  BY <1>1 DEF Finish, TypeOK, Transaction
<1>2. CASE ~Finish(k)
  BY <1>2 DEF TypeOK, Transaction, Step, Fail, Begin, Query, Find, UpdateUser, InsertUsers,
              MarkTrades, UpdateCursor, CommitTrade, ClipSelect, ClipMark, ClipFlag, CommitClip,
              TokenFirst, DeadlockVictim, locals
<1> QED BY <1>1, <1>2

\* A step of an open transaction brings it nearer to its end.
LEMMA OwnStepDescends ==
  ASSUME TypeOK, PageInv, NEW l \in Loops, pc[l] # "idle", Step(l) \/ Fail(l)
  PROVE  Nearer(l)
<1>1. Ahead(l) \in 1 .. 6
  BY DEF TypeOK, Ahead
<1>2. CASE pc'[l] = "idle"
  BY <1>1, <1>2 DEF Ahead, Nearer
<1>3. CASE Finish(l)
  BY <1>2, <1>3 DEF Finish, TypeOK
<1>4. CASE ~Finish(l) /\ ~ \E u \in Users : UpdateUser(l, u)
  BY <1>4 DEF TypeOK, Ahead, Nearer, Step, Fail, Begin, Query, Find, InsertUsers, MarkTrades,
              UpdateCursor, CommitTrade, ClipSelect, ClipMark, ClipFlag, CommitClip, TokenFirst,
              DeadlockVictim
<1>5. ASSUME NEW u \in Users, UpdateUser(l, u) PROVE Nearer(l)
  <2>1. /\ pc[l] = "update" /\ pc' = pc /\ u \in ToUpdate(l)
        /\ ToUpdate(l)' = ToUpdate(l) \ {u}
    BY <1>5 DEF UpdateUser, ToUpdate, UsersOf, TypeOK
  <2>2. /\ IsFiniteSet(ToUpdate(l))
        /\ Cardinality(ToUpdate(l) \ {u}) = Cardinality(ToUpdate(l)) - 1
        /\ Cardinality(ToUpdate(l)) \in Nat
    BY <2>1, UpdatesAreFinite, FS_RemoveElement, FS_CardinalityType
  <2>3. Ahead(l)' = Ahead(l)
    BY <2>1 DEF Ahead
  <2>4. Cardinality(ToUpdate(l))' < Cardinality(ToUpdate(l))
    BY <2>1, <2>2
  <2> QED BY <2>3, <2>4 DEF Nearer
<1> QED BY <1>3, <1>4, <1>5

\* No transaction goes on without end: whatever happens, it is left as it is, or
\* has fewer statements to come.
THEOREM TransactionsDescend == Spec => [][Descends]_vars
<1>1. TypeOK /\ PageInv /\ [Next]_vars => [Descends]_vars
  <2> SUFFICES ASSUME TypeOK, PageInv, Next, NEW l \in Loops, pc[l] # "idle"
               PROVE  Transaction(l)' = Transaction(l) \/ Nearer(l)
    BY DEF Descends
  <2>1. ASSUME NEW k \in Loops, Step(k) \/ Fail(k)
        PROVE  Transaction(l)' = Transaction(l) \/ Nearer(l)
    BY <2>1, OthersLeftAlone, OwnStepDescends
  <2>2. ASSUME Restart PROVE Nearer(l)
    BY <2>2 DEF Restart, TypeOK, Ahead, Nearer
  <2>3. ASSUME NEW t \in Txs, CommitBucket(t) PROVE Transaction(l)' = Transaction(l)
    BY <2>3 DEF CommitBucket, Transaction, locals
  <2> QED BY <2>1, <2>2, <2>3 DEF Next
<1> QED BY <1>1, TypeCorrect, PagesAreFinite, PTL DEF Spec
=============================================================================
