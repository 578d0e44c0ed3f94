----------------------------- MODULE MergeTrade -----------------------------
(***************************************************************************)
(* The trade merge of ScanService: initMergeTrade starts three endless     *)
(* loops, mergeTrade adds the amounts of one page of pf_trade rows to      *)
(* user_trade and moves the cursor kept in the config table, and           *)
(* mergeTradeClip sets the rows of sandwich blocks aside and flags their   *)
(* users.  The transactions run under PostgreSQL's default isolation,      *)
(* READ COMMITTED: every statement reads what is committed when it starts  *)
(* (together with the transaction's own writes, which no statement here    *)
(* reads back), an UPDATE waits for the row locks of other transactions,   *)
(* and the writes of a transaction appear at its COMMIT.                   *)
(*                                                                         *)
(* A statement takes all its row locks at once; the locks a transaction    *)
(* holds follow from its program counter and its local variables.          *)
(* An account is the bag of trades whose amounts were added to it.         *)
(***************************************************************************)
EXTENDS Naturals, FiniteSets

CONSTANTS
  Users,      \* user addresses (user_adr)
  Ids,        \* the ids pf_trade's sequence hands out
  Txs,        \* transaction signatures (tx_id)
  Blocks,     \* block numbers
  UserOf,     \* the user of each trade
  TxOf,       \* the transaction of each trade
  BlockOf,    \* the block of each transaction
  PageSize,   \* MERGE_TRADE_PAGE_SIZE
  Loops,      \* the loops initMergeTrade started, in all running processes
  FirstTask,  \* what each loop does first: "trade", "clip" or "token"
  MaxFaults   \* bound on failed transactions and on process restarts

ASSUME MergeAssumption ==
  /\ Ids \subseteq Nat \ {0}
  /\ UserOf \in [Ids -> Users]
  /\ TxOf \in [Ids -> Txs]
  /\ BlockOf \in [Txs -> Blocks]
  /\ PageSize \in Nat
  /\ IsFiniteSet(Loops)
  /\ FirstTask \in [Loops -> {"trade", "clip", "token"}]
  /\ MaxFaults \in Nat

VARIABLES
  \* the committed database
  status,     \* pf_trade.status: "init" 0, "merged" 1, "clip" 2; "absent": no such row
  acct,       \* user_trade: the account of each user
  accounts,   \* the users that have a user_trade row
  flagged,    \* the users whose user_trade.type is 1
  cursor,     \* config.val under merge_trade_last_id
  \* the loops
  task,       \* the function a loop runs now or next
  pc,         \* the statement its transaction issues next
  base,       \* mergeTrade: the config.val that was read
  found,      \* the pf_trade rows of the transaction
  old,        \* mergeTrade: the accounts that were read
  oldUsers,   \* mergeTrade: the users of found that had a user_trade row then
  wrote,      \* the user_trade rows the transaction has written
  clipBlocks, \* mergeTradeClip: the blocks with a sandwich
  clipUsers,  \* mergeTradeClip: the users of those sandwiches
  faults

db     == <<status, acct, accounts, flagged, cursor>>
locals == <<base, found, old, oldUsers, wrote, clipBlocks, clipUsers>>
vars   == <<db, task, pc, locals, faults>>

EmptyBag == [i \in Ids |-> 0]

BlockOfTrade(i) == BlockOf[TxOf[i]]

Visible == {i \in Ids : status[i] # "absent"}

UsersOf(S) == {UserOf[i] : i \in S}

\* Variant: rangeStart without the + 1.
PageFromCursor(c) == {i \in Ids : c <= i /\ i <= c + 1 + PageSize}

\* WHERE id BETWEEN rangeStart AND rangeEnd: both ends are included.
Page(c) == {i \in Ids : c + 1 <= i /\ i <= c + 1 + PageSize}

Status == {"absent", "init", "merged", "clip"}

Init ==
  /\ status = [i \in Ids |-> "absent"]
  /\ acct = [u \in Users |-> EmptyBag]
  /\ accounts = {}
  /\ flagged = {}
  /\ cursor = 0
  /\ task = FirstTask
  /\ pc = [l \in Loops |-> "idle"]
  /\ base = [l \in Loops |-> 0]
  /\ found = [l \in Loops |-> {}]
  /\ old = [l \in Loops |-> [u \in Users |-> EmptyBag]]
  /\ oldUsers = [l \in Loops |-> {}]
  /\ wrote = [l \in Loops |-> {}]
  /\ clipBlocks = [l \in Loops |-> {}]
  /\ clipUsers = [l \in Loops |-> {}]
  /\ faults = 0

-----------------------------------------------------------------------------
(* Row locks, and what a statement waits for.                              *)

\* The pf_trade rows that a transaction has updated.
TradeLocks(l) ==
  IF pc[l] \in {"config", "flag", "commit"} THEN found[l] ELSE {}

LockedByOthers(l) == UNION {TradeLocks(k) : k \in Loops \ {l}}

UsersLockedByOthers(l) == UNION {wrote[k] : k \in Loops \ {l}}

\* The users of the page that still have to be updated, and those to insert.
ToUpdate(l) == (UsersOf(found[l]) \cap oldUsers[l]) \ wrote[l]
ToInsert(l) == UsersOf(found[l]) \ oldUsers[l]

\* The statement of l cannot proceed before the transaction of k ends.
WaitsFor(l, k) ==
  /\ l # k
  /\ \/ /\ pc[l] = "update"
        /\ ToUpdate(l) # {}
        /\ ToUpdate(l) \subseteq UsersLockedByOthers(l)
        /\ ToUpdate(l) \cap wrote[k] # {}
     \/ /\ pc[l] = "update"
        /\ ToUpdate(l) = {}
        /\ (ToInsert(l) \ accounts) \cap wrote[k] # {}
     \/ pc[l] = "mark" /\ found[l] \cap TradeLocks(k) # {}
     \/ pc[l] = "config" /\ pc[k] = "commit" /\ task[k] = "trade"
     \/ /\ pc[l] = "clip"
        /\ {i \in Visible : BlockOfTrade(i) \in clipBlocks[l]} \cap TradeLocks(k) # {}
     \/ pc[l] = "flag" /\ clipUsers[l] \cap accounts \cap wrote[k] # {}

\* l waits for itself through other transactions.
InDeadlock(l) ==
  \A S \in SUBSET Loops :
     (\A x \in S \cup {l} : \A y \in Loops : WaitsFor(x, y) => y \in S) => l \in S

\* Variant: a return that neither commits nor rolls back keeps the row locks.
FinishKeepsLocks(l) ==
  /\ task' = [task EXCEPT ![l] = "trade"]
  /\ pc' = [pc EXCEPT ![l] = "idle"]
  /\ UNCHANGED locals

\* The transaction of l is over.  Every loop goes on with mergeTrade: the
\* finally blocks of all three recursion functions call recursionMergeTrade.
Finish(l) ==
  /\ task' = [task EXCEPT ![l] = "trade"]
  /\ pc' = [pc EXCEPT ![l] = "idle"]
  /\ base' = [base EXCEPT ![l] = 0]
  /\ found' = [found EXCEPT ![l] = {}]
  /\ old' = [old EXCEPT ![l] = [u \in Users |-> EmptyBag]]
  /\ oldUsers' = [oldUsers EXCEPT ![l] = {}]
  /\ wrote' = [wrote EXCEPT ![l] = {}]
  /\ clipBlocks' = [clipBlocks EXCEPT ![l] = {}]
  /\ clipUsers' = [clipUsers EXCEPT ![l] = {}]

-----------------------------------------------------------------------------
(* The environment: saveDataBucket commits the trades of a transaction.    *)

\* The rows of one bucket become visible together.  Their ids were drawn
\* from the sequence earlier, so buckets commit in any order.
CommitBucket(t) ==
  /\ \A i \in Ids : TxOf[i] = t => status[i] = "absent"
  /\ \E i \in Ids : TxOf[i] = t
  /\ status' = [i \in Ids |-> IF TxOf[i] = t THEN "init" ELSE status[i]]
  /\ UNCHANGED <<acct, accounts, flagged, cursor, task, pc, locals, faults>>

-----------------------------------------------------------------------------
(* mergeTrade, one action per statement.                                   *)

\* START TRANSACTION and the read of the cursor.
Begin(l) ==
  /\ task[l] = "trade" /\ pc[l] = "idle"
  /\ pc' = [pc EXCEPT ![l] = "query"]
  /\ base' = [base EXCEPT ![l] = cursor]
  /\ UNCHANGED <<db, task, found, old, oldUsers, wrote, clipBlocks, clipUsers, faults>>

\* Variant: the end of the page is left out of the query but not of the cursor.
QueryHalfOpen(l) ==
  /\ pc[l] = "query"
  /\ LET rows == {i \in Page(base[l]) \ {base[l] + 1 + PageSize} : status[i] = "init"}
     IN \/ rows = {} /\ Finish(l)
        \/ /\ rows # {}
           /\ found' = [found EXCEPT ![l] = rows]
           /\ pc' = [pc EXCEPT ![l] = "find"]
           /\ UNCHANGED <<task, base, old, oldUsers, wrote, clipBlocks, clipUsers>>
  /\ UNCHANGED <<db, faults>>

\* Variant: an empty page moves the cursor as well.
QueryMovesOn(l) ==
  /\ pc[l] = "query"
  /\ LET rows == {i \in Page(base[l]) : status[i] = "init"}
     IN \/ rows = {} /\ cursor' = base[l] + 1 + PageSize /\ Finish(l)
        \/ /\ rows # {}
           /\ found' = [found EXCEPT ![l] = rows]
           /\ pc' = [pc EXCEPT ![l] = "find"]
           /\ UNCHANGED <<cursor, task, base, old, oldUsers, wrote, clipBlocks, clipUsers>>
  /\ UNCHANGED <<status, acct, accounts, flagged, faults>>

\* The page is read; when it holds no row of status 0 the transaction
\* commits nothing and the cursor stays where it is.
Query(l) ==
  /\ pc[l] = "query"
  /\ LET rows == {i \in Page(base[l]) : status[i] = "init"}
     IN \/ /\ rows = {}
           /\ Finish(l)
        \/ /\ rows # {}
           /\ found' = [found EXCEPT ![l] = rows]
           /\ pc' = [pc EXCEPT ![l] = "find"]
           /\ UNCHANGED <<task, base, old, oldUsers, wrote, clipBlocks, clipUsers>>
  /\ UNCHANGED <<db, faults>>

\* The accounts of the page's users are read.
Find(l) ==
  /\ pc[l] = "find"
  /\ old' = [old EXCEPT ![l] = acct]
  /\ oldUsers' = [oldUsers EXCEPT ![l] = UsersOf(found[l]) \cap accounts]
  /\ pc' = [pc EXCEPT ![l] = "update"]
  /\ UNCHANGED <<db, task, base, found, wrote, clipBlocks, clipUsers, faults>>

\* One UPDATE per account that was found, in the order find returned them.
UpdateUser(l, u) ==
  /\ pc[l] = "update"
  /\ u \in ToUpdate(l)
  /\ u \notin UsersLockedByOthers(l)
  /\ wrote' = [wrote EXCEPT ![l] = @ \cup {u}]
  /\ UNCHANGED <<db, task, pc, base, found, old, oldUsers, clipBlocks, clipUsers, faults>>

\* One INSERT for the users without an account; user_adr is unique, so a row
\* that was committed since the find is a duplicate key and rolls all back.
InsertUsers(l) ==
  /\ pc[l] = "update"
  /\ ToUpdate(l) = {}
  /\ (ToInsert(l) \ accounts) \cap UsersLockedByOthers(l) = {}
  /\ \/ /\ ToInsert(l) \cap accounts = {}
        /\ wrote' = [wrote EXCEPT ![l] = @ \cup ToInsert(l)]
        /\ pc' = [pc EXCEPT ![l] = "mark"]
        /\ UNCHANGED <<task, base, found, old, oldUsers, clipBlocks, clipUsers>>
     \/ /\ ToInsert(l) \cap accounts # {}
        /\ Finish(l)
  /\ UNCHANGED <<db, faults>>

\* UPDATE pf_trade SET status = 1 for the ids that were read.
MarkTrades(l) ==
  /\ pc[l] = "mark"
  /\ found[l] \cap LockedByOthers(l) = {}
  /\ pc' = [pc EXCEPT ![l] = "config"]
  /\ UNCHANGED <<db, task, locals, faults>>

\* UPDATE config; the row is locked until the commit.
UpdateCursor(l) ==
  /\ pc[l] = "config"
  /\ \A k \in Loops \ {l} : ~(pc[k] = "commit" /\ task[k] = "trade")
  /\ pc' = [pc EXCEPT ![l] = "commit"]
  /\ UNCHANGED <<db, task, locals, faults>>

\* Variants: the sums of the page replace the account; every trade of the page
\* is added to the account.
NewAccountOfPage(l, u) ==
  [i \in Ids |-> IF i \in found[l] /\ UserOf[i] = u THEN 1 ELSE 0]
NewAccountAnyUser(l, u) ==
  [i \in Ids |-> old[l][u][i] + (IF i \in found[l] THEN 1 ELSE 0)]

\* What mergeTrade wrote: the accounts read plus the page, absolute values.
NewAccount(l, u) ==
  [i \in Ids |-> old[l][u][i] + (IF i \in found[l] /\ UserOf[i] = u THEN 1 ELSE 0)]

CommitTrade(l) ==
  /\ pc[l] = "commit" /\ task[l] = "trade"
  /\ acct' = [u \in Users |-> IF u \in wrote[l] THEN NewAccount(l, u) ELSE acct[u]]
  /\ accounts' = accounts \cup wrote[l]
  /\ status' = [i \in Ids |-> IF i \in found[l] THEN "merged" ELSE status[i]]
  /\ cursor' = base[l] + 1 + PageSize
  /\ Finish(l)
  /\ UNCHANGED <<flagged, faults>>

-----------------------------------------------------------------------------
(* mergeTradeClip, one action per statement.                               *)

\* Variant: HAVING COUNT(a.user_adr) >= 1.
SingleTrades(B) ==
  {p \in Txs \X Users :
     BlockOf[p[1]] \in B /\ \E i \in Visible : TxOf[i] = p[1] /\ UserOf[i] = p[2]}

\* Pairs of a transaction and a user with more than one trade in it.
Sandwiches(B) ==
  {p \in Txs \X Users :
     /\ BlockOf[p[1]] \in B
     /\ Cardinality({i \in Visible : TxOf[i] = p[1] /\ UserOf[i] = p[2]}) > 1}

\* Variant: the rows of the result instead of their addresses.
SandwichRows(B) == Sandwiches(B)

SandwichUsers(B) == {p[2] : p \in Sandwiches(B)}

\* The blocks B with a merged row older than five minutes (at most 1000 of
\* them, in no order, so any of them) are searched for sandwiches.
ClipSelect(l) ==
  /\ task[l] = "clip" /\ pc[l] = "idle"
  /\ \E B \in SUBSET {BlockOfTrade(i) : i \in {j \in Ids : status[j] = "merged"}} :
       \/ /\ Sandwiches(B) = {}
          /\ Finish(l)
       \/ /\ Sandwiches(B) # {}
          /\ clipBlocks' = [clipBlocks EXCEPT ![l] = {BlockOf[p[1]] : p \in Sandwiches(B)}]
          /\ clipUsers' = [clipUsers EXCEPT ![l] = SandwichUsers(B)]
          /\ pc' = [pc EXCEPT ![l] = "clip"]
          /\ UNCHANGED <<task, base, found, old, oldUsers, wrote>>
  /\ UNCHANGED <<db, faults>>

\* UPDATE pf_trade SET status = 2: every visible row of those blocks.
ClipMark(l) ==
  /\ pc[l] = "clip"
  /\ LET rows == {i \in Visible : BlockOfTrade(i) \in clipBlocks[l]}
     IN /\ rows \cap LockedByOthers(l) = {}
        /\ found' = [found EXCEPT ![l] = rows]
  /\ pc' = [pc EXCEPT ![l] = "flag"]
  /\ UNCHANGED <<db, task, base, old, oldUsers, wrote, clipBlocks, clipUsers, faults>>

\* UPDATE user_trade SET type = 1: only users that have a row.
ClipFlag(l) ==
  /\ pc[l] = "flag"
  /\ clipUsers[l] \cap accounts \cap UsersLockedByOthers(l) = {}
  /\ wrote' = [wrote EXCEPT ![l] = clipUsers[l] \cap accounts]
  /\ pc' = [pc EXCEPT ![l] = "commit"]
  /\ UNCHANGED <<db, task, base, found, old, oldUsers, clipBlocks, clipUsers, faults>>

CommitClip(l) ==
  /\ pc[l] = "commit" /\ task[l] = "clip"
  /\ status' = [i \in Ids |-> IF i \in found[l] THEN "clip" ELSE status[i]]
  /\ flagged' = flagged \cup wrote[l]
  /\ Finish(l)
  /\ UNCHANGED <<acct, accounts, cursor, faults>>

-----------------------------------------------------------------------------
\* mergeToken works on pf_create, user_token and a config row of its own:
\* here it is only what its loop does before it becomes a mergeTrade loop.
TokenFirst(l) ==
  /\ task[l] = "token" /\ pc[l] = "idle"
  /\ Finish(l)
  /\ UNCHANGED <<db, faults>>

\* PostgreSQL rolls back a transaction that is in a cycle of waits.
DeadlockVictim(l) ==
  /\ InDeadlock(l)
  /\ Finish(l)
  /\ UNCHANGED <<db, faults>>

\* Variant: user_trade is updated outside the transaction and not rolled back.
FailKeepsAccounts(l) ==
  /\ pc[l] # "idle"
  /\ faults < MaxFaults
  /\ faults' = faults + 1
  /\ acct' = [u \in Users |->
                IF task[l] = "trade" /\ u \in wrote[l] THEN NewAccount(l, u) ELSE acct[u]]
  /\ accounts' = IF task[l] = "trade" THEN accounts \cup wrote[l] ELSE accounts
  /\ Finish(l)
  /\ UNCHANGED <<status, flagged, cursor>>

\* A statement or the connection fails: the catch block rolls back.
Fail(l) ==
  /\ pc[l] # "idle"
  /\ faults < MaxFaults
  /\ faults' = faults + 1
  /\ Finish(l)
  /\ UNCHANGED db

\* The process stops with its transactions open and initMergeTrade starts
\* the loops anew.
Restart ==
  /\ faults < MaxFaults
  /\ faults' = faults + 1
  /\ task' = FirstTask
  /\ pc' = [l \in Loops |-> "idle"]
  /\ base' = [l \in Loops |-> 0]
  /\ found' = [l \in Loops |-> {}]
  /\ old' = [l \in Loops |-> [u \in Users |-> EmptyBag]]
  /\ oldUsers' = [l \in Loops |-> {}]
  /\ wrote' = [l \in Loops |-> {}]
  /\ clipBlocks' = [l \in Loops |-> {}]
  /\ clipUsers' = [l \in Loops |-> {}]
  /\ UNCHANGED db

Step(l) ==
  \/ Begin(l) \/ Query(l) \/ Find(l) \/ (\E u \in Users : UpdateUser(l, u))
  \/ InsertUsers(l) \/ MarkTrades(l) \/ UpdateCursor(l) \/ CommitTrade(l)
  \/ ClipSelect(l) \/ ClipMark(l) \/ ClipFlag(l) \/ CommitClip(l)
  \/ TokenFirst(l) \/ DeadlockVictim(l)

Next ==
  \/ \E l \in Loops : Step(l) \/ Fail(l)
  \/ Restart
  \/ \E t \in Txs : CommitBucket(t)

Spec == Init /\ [][Next]_vars

-----------------------------------------------------------------------------
(* Nothing in the code keeps two mergeTrade calls apart: the name of a lock *)
(* for them is declared (RedisKeys.MERGE_TRADE_LOCK) and never used.  The   *)
(* serial specification says what holds as long as the timers happen to    *)
(* keep them apart, with one transaction of mergeTrade at a time.           *)

Trading(l) == task[l] = "trade" /\ pc[l] # "idle"

NoOverlap == \A k, l \in Loops : Trading(k) /\ Trading(l) => k = l

SerialNext == Next /\ NoOverlap'

SerialSpec == Init /\ [][SerialNext]_vars

\* Timers and statements go on; neither failures nor new trades have to come.
\* The fairness is strong because PostgreSQL queues the waiters of a row lock:
\* a transaction that waits gets the lock when its holder ends or is rolled
\* back, and is not overtaken forever.
SerialFairSpec ==
  SerialSpec /\ \A l \in Loops : SF_vars(Step(l) /\ NoOverlap')

FairSpec ==
  Spec /\ \A l \in Loops : SF_vars(Step(l))

-----------------------------------------------------------------------------
(* Properties of every run.                                                *)

Bags == [Ids -> Nat]

\* Type invariant.
TypeOK ==
  /\ status \in [Ids -> Status]
  /\ acct \in [Users -> Bags]
  /\ accounts \subseteq Users
  /\ flagged \subseteq Users
  /\ cursor \in Nat
  /\ task \in [Loops -> {"trade", "clip", "token"}]
  /\ pc \in [Loops -> {"idle", "query", "find", "update", "mark", "config",
                       "clip", "flag", "commit"}]
  /\ base \in [Loops -> Nat]
  /\ found \in [Loops -> SUBSET Ids]
  /\ old \in [Loops -> [Users -> Bags]]
  /\ oldUsers \in [Loops -> SUBSET Users]
  /\ wrote \in [Loops -> SUBSET Users]
  /\ clipBlocks \in [Loops -> SUBSET Blocks]
  /\ clipUsers \in [Loops -> SUBSET Users]
  /\ faults \in Nat

Counted(i) == acct[UserOf[i]][i] > 0

\* An account that counts a trade is that of the user who made it, has a
\* row, and the trade has left status 0: no loop finds it again (mergeTrade,
\* the upsert and the two status updates of one transaction).
CountedIsSettled ==
  \A u \in Users, i \in Ids :
    acct[u][i] > 0 => UserOf[i] = u /\ u \in accounts /\ status[i] \in {"merged", "clip"}

\* Only a user with two trades in one transaction is ever flagged, however
\* the clip update interleaves with inserts and merges (mergeTradeClip).
FlagSound ==
  \A u \in flagged : \E i, j \in Visible : i # j /\ TxOf[i] = TxOf[j] /\ UserOf[i] = u /\ UserOf[j] = u

\* The next statement of l has the locks it needs.
Proceeds(l) ==
  \/ pc[l] \in {"query", "find"}
  \/ pc[l] = "update" /\ ToUpdate(l) \ UsersLockedByOthers(l) # {}
  \/ /\ pc[l] = "update" /\ ToUpdate(l) = {}
     /\ (ToInsert(l) \ accounts) \cap UsersLockedByOthers(l) = {}
  \/ pc[l] = "mark" /\ found[l] \cap LockedByOthers(l) = {}
  \/ pc[l] = "config" /\ \A k \in Loops \ {l} : ~(pc[k] = "commit" /\ task[k] = "trade")
  \/ /\ pc[l] = "clip"
     /\ {i \in Visible : BlockOfTrade(i) \in clipBlocks[l]} \cap LockedByOthers(l) = {}
  \/ pc[l] = "flag" /\ clipUsers[l] \cap accounts \cap UsersLockedByOthers(l) = {}
  \/ pc[l] = "commit" /\ task[l] \in {"trade", "clip"}

\* Loops never wait for each other without anyone to end it: while transactions
\* are open, one of them can go on or is in a cycle of waits, which the database
\* breaks; none waits for rows that a transaction has left locked.
NeverStuck ==
  (\E l \in Loops : pc[l] # "idle") =>
    \E l \in Loops : pc[l] # "idle" /\ (Proceeds(l) \/ InDeadlock(l))

\* Every transaction ends: its statements never wait for good, because the
\* database breaks the cycles of waits that the opposite lock orders of
\* mergeTrade (user_trade, then pf_trade) and mergeTradeClip allow.
TransactionsEnd == \A l \in Loops : pc[l] # "idle" ~> pc[l] = "idle"

-----------------------------------------------------------------------------
(* Properties that need mergeTrade calls not to overlap.                   *)

\* The comment on PfTrade.status: 0 is initialised, 1 is counted.  A trade
\* with status 1 is in its user's account.
StatusOneIsCounted ==
  \A i \in Ids : status[i] = "merged" => Counted(i)

\* No trade is added to its account twice (mergeTrade, absolute UPDATEs).
CountedAtMostOnce ==
  \A i \in Ids : acct[UserOf[i]][i] <= 1

\* What one transaction of mergeTrade may rely on while it runs: the cursor
\* and the accounts it read are still the committed ones, the trades it found
\* are uncounted, and before it marks them every account of theirs is written.
TransactionIsolated(l) ==
  /\ base[l] = cursor
  /\ pc[l] # "query" =>
       \A i \in found[l] : i \in Page(base[l]) /\ i \in Visible /\ ~Counted(i)
  /\ pc[l] \in {"update", "mark", "config", "commit"} => old[l] = acct
  /\ pc[l] \in {"mark", "config", "commit"} => UsersOf(found[l]) \subseteq wrote[l]

\* The invariant that carries the others from step to step.
SerialInv ==
  /\ NoOverlap
  /\ StatusOneIsCounted
  /\ CountedAtMostOnce
  /\ CountedIsSettled
  /\ \A l \in Loops :
       /\ task[l] = "trade" => pc[l] \notin {"clip", "flag"}
       /\ task[l] = "clip" => pc[l] \in {"idle", "clip", "flag", "commit"} /\ found[l] \subseteq Visible
       /\ task[l] = "token" => pc[l] = "idle"
       /\ Trading(l) => TransactionIsolated(l)

\* The cursor only grows, and a trade at or behind it that was not counted,
\* for one because its bucket was committed late, never will be: its status
\* 0 promises a count that no page reaches any more (rangeStart, rangeEnd).
BehindCursorIsFinal ==
  [][/\ cursor' >= cursor
     /\ \A i \in Ids : i <= cursor => acct'[UserOf[i]][i] = acct[UserOf[i]][i]]_vars

\* There are trades after the cursor, but every row of the page was counted or set
\* aside by a clip, or the page lies in a gap of the ids that a rolled back
\* insertion has left; and no transaction of mergeTrade has read it before.
Stalled ==
  /\ \E i \in Ids : i > cursor
  /\ \A i \in Page(cursor) : status[i] \in {"merged", "clip"}
  /\ \A l \in Loops : Trading(l) => pc[l] = "query" /\ base[l] = cursor

\* A page that a clip has emptied, or a gap of a page of ids, ends the merge for
\* good, restarts included: mergeTrade moves the cursor only when it finds a row of status 0, so that
\* trades behind the page are never counted.
StallIsFinal == [][Stalled => Stalled' /\ cursor' = cursor]_vars

\* The table and the accounts only change as the ledger allows.
Ledger == INSTANCE TradeLedger WITH recorded <- Visible

ImplementsLedger == Ledger!Spec

\* A trade in the page after the cursor while no mergeTrade runs is merged or
\* set aside: rollbacks, deadlocks and restarts only delay it.
InPageAtRest(i) ==
  /\ status[i] = "init"
  /\ i \in Page(cursor)
  /\ \A l \in Loops : ~Trading(l)

PageIsMerged == \A i \in Ids : InPageAtRest(i) ~> status[i] \in {"merged", "clip"}
=============================================================================
