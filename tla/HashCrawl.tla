------------------------------ MODULE HashCrawl ------------------------------
(***************************************************************************)
(* The crawl of past transactions: every row of pf_tx_conf is a range of    *)
(* the chain, read backwards from before_tx_id until end_block_number.      *)
(* dealPfHashTask fetches the page of signatures before the cursor, inserts *)
(* it into pf_tx_id and moves the cursor in one transaction;                *)
(* recursionMergePfHashTask calls it until it returns nothing, and at once  *)
(* again with the same task after an error.  initMergePfHashTask starts one *)
(* recursion for every row that is not finished, in every process that runs *)
(* it: RedisKeys.MERGE_PF_HASH_LOCK is declared and never used.             *)
(*                                                                         *)
(* A signature is its place on the chain, so that older ones are smaller.   *)
(* No migration is part of the repository: whether tx_id has a unique index *)
(* is chosen once and for all in the initial state.                         *)
(***************************************************************************)
EXTENDS Naturals, FiniteSets

CONSTANTS
  Sigs,       \* the final signatures of the program
  BlockOf,    \* the block of each
  Limit,      \* signatures in a page (1000)
  Confs,      \* rows of pf_tx_conf
  First,      \* the signature each starts before
  EndBlock,   \* end_block_number of each
  Nodes,      \* processes that run initMergePfHashTask
  None,       \* no task
  MaxFaults   \* bound on errors, lost answers and crashes

ASSUME HashCrawlAssumption ==
  /\ Sigs \subseteq Nat /\ IsFiniteSet(Sigs)
  /\ BlockOf \in [Sigs -> Nat]
  /\ \A s, q \in Sigs : s < q => BlockOf[s] <= BlockOf[q]
  /\ Limit \in Nat \ {0}
  /\ First \in [Confs -> Sigs]
  /\ EndBlock \in [Confs -> Nat]
  /\ None \notin Sigs
  /\ MaxFaults \in Nat

VARIABLES
  unique,   \* pf_tx_id.tx_id has a unique index
  rows,     \* how many pf_tx_id rows a signature has
  before,   \* before_tx_id of each conf; before_block_number is its block
  started,  \* the processes that have run initMergePfHashTask
  task,     \* beforeTxId of the task a process is at for a conf
  faults

vars == <<unique, rows, before, started, task, faults>>

\* Variant: the cursor itself is part of the page.
PageInclusive(b) ==
  {s \in Sigs : s <= b /\ Cardinality({q \in Sigs : s < q /\ q <= b}) < Limit}

\* getSignaturesForAddress: the newest signatures before b.
Page(b) ==
  {s \in Sigs : s < b /\ Cardinality({q \in Sigs : s < q /\ q < b}) < Limit}

IsOldest(s, P) == s \in P /\ \A q \in P : s <= q

Init ==
  /\ unique \in BOOLEAN
  /\ rows = [s \in Sigs |-> 0]
  /\ before = First
  /\ started = {}
  /\ task = [n \in Nodes |-> [c \in Confs |-> None]]
  /\ faults = 0

Fault == faults < MaxFaults /\ faults' = faults + 1

\* conf.before_block_number > conf.end_block_number
Unfinished(c) == BlockOf[before[c]] > EndBlock[c]

InitMergePfHashTask(n) ==
  /\ n \notin started
  /\ started' = started \cup {n}
  /\ task' = [task EXCEPT ![n] = [c \in Confs |-> IF Unfinished(c) THEN before[c] ELSE None]]
  /\ UNCHANGED <<unique, rows, before, faults>>

\* With a unique tx_id, one signature that has a row rolls the page back.
Rejected(P) == unique /\ \E s \in P : rows[s] > 0

InsertPage(P) == rows' = [s \in Sigs |-> IF s \in P THEN rows[s] + 1 ELSE rows[s]]

\* Variant: the crawl stops one block too early.
NextTaskEarly(c, last) == IF BlockOf[last] > EndBlock[c] + 1 THEN last ELSE None

\* The task that dealPfHashTask returns after a page that ends with last.
NextTask(c, last) == IF BlockOf[last] > EndBlock[c] THEN last ELSE None

\* Variant: an error returns nothing instead of the task.
DealEndsOnError(n, c) ==
  /\ task[n][c] # None
  /\ LET P == Page(task[n][c]) IN
       \/ /\ P = {}
          /\ task' = [task EXCEPT ![n][c] = None]
          /\ UNCHANGED <<rows, before>>
       \/ /\ P # {} /\ Rejected(P)
          /\ task' = [task EXCEPT ![n][c] = None]
          /\ UNCHANGED <<rows, before>>
       \/ /\ P # {} /\ ~Rejected(P)
          /\ InsertPage(P)
          /\ \E last \in Sigs :
               /\ IsOldest(last, P)
               /\ before' = [before EXCEPT ![c] = last]
               /\ task' = [task EXCEPT ![n][c] = NextTask(c, last)]
  /\ UNCHANGED <<unique, started, faults>>

\* dealPfHashTask.  An empty page ends the recursion.
DealPfHashTask(n, c) ==
  /\ task[n][c] # None
  /\ LET P == Page(task[n][c]) IN
       \/ /\ P = {}
          /\ task' = [task EXCEPT ![n][c] = None]
          /\ UNCHANGED <<rows, before>>
       \/ /\ P # {} /\ Rejected(P)
          /\ UNCHANGED <<rows, before, task>>
       \/ /\ P # {} /\ ~Rejected(P)
          /\ InsertPage(P)
          /\ \E last \in Sigs :
               /\ IsOldest(last, P)
               /\ before' = [before EXCEPT ![c] = last]
               /\ task' = [task EXCEPT ![n][c] = NextTask(c, last)]
  /\ UNCHANGED <<unique, started, faults>>

\* Variant: the cursor is moved outside the transaction.
DealFailsKeepsCursor(n, c) ==
  /\ task[n][c] # None
  /\ Fault
  /\ \E last \in Sigs :
       IsOldest(last, Page(task[n][c])) /\ before' = [before EXCEPT ![c] = last]
  /\ UNCHANGED <<unique, rows, started, task>>

\* Variant: the catch block returns nothing.
DealFailsEnds(n, c) ==
  /\ task[n][c] # None
  /\ Fault
  /\ task' = [task EXCEPT ![n][c] = None]
  /\ UNCHANGED <<unique, rows, before, started>>

\* The RPC call or a statement fails, or the COMMIT succeeds and its answer is
\* lost: the same task is dealt with again.
DealFails(n, c) ==
  /\ task[n][c] # None
  /\ Fault
  /\ LET P == Page(task[n][c]) IN
       \/ UNCHANGED <<rows, before>>
       \/ /\ P # {} /\ ~Rejected(P)
          /\ InsertPage(P)
          /\ \E last \in Sigs : IsOldest(last, P) /\ before' = [before EXCEPT ![c] = last]
  /\ UNCHANGED <<unique, started, task>>

\* The process stops, and starts again without its tasks.
Crash(n) ==
  /\ Fault
  /\ started' = started \ {n}
  /\ task' = [task EXCEPT ![n] = [c \in Confs |-> None]]
  /\ UNCHANGED <<unique, rows, before>>

Next ==
  \E n \in Nodes :
    \/ InitMergePfHashTask(n)
    \/ \E c \in Confs : DealPfHashTask(n, c) \/ DealFails(n, c)
    \/ Crash(n)

Spec == Init /\ [][Next]_vars

\* A process that runs starts its crawls and goes on with them.
FairSpec ==
  /\ Spec
  /\ \A n \in Nodes : /\ WF_vars(InitMergePfHashTask(n))
                      /\ \A c \in Confs : WF_vars(DealPfHashTask(n, c))

-----------------------------------------------------------------------------
(* Properties.                                                              *)

\* Type invariant.
TypeOK ==
  /\ unique \in BOOLEAN
  /\ rows \in [Sigs -> Nat]
  /\ before \in [Confs -> Sigs]
  /\ started \subseteq Nodes
  /\ task \in [Nodes -> [Confs -> Sigs \cup {None}]]
  /\ faults \in Nat

\* All signatures from b up to the start of the range have a row.
CrawledFrom(c, b) == \A s \in Sigs : b <= s /\ s < First[c] => rows[s] > 0

\* The cursor of a range, which a restart goes on from, has left no signature
\* behind: pages that fail, answers that are lost and processes that crawl the
\* same range side by side included (dealPfHashTask).
CursorIsComplete == \A c \in Confs : CrawledFrom(c, before[c])

\* One process and no failure so far.
Undisturbed == faults = 0 /\ \A m, n \in started : m = n

\* The crawl of c has passed s.
Covers(c, s) == before[c] <= s /\ s < First[c]

\* A signature has a second row only if a page was retried or crawled again
\* after a failure or by a second process, or if two ranges share it: the pages
\* of one range do not overlap (dealPfHashTask, initMergePfHashTask).
DuplicatesExplained ==
  Undisturbed =>
    \A s \in Sigs : rows[s] > 1 => \E c, d \in Confs : c # d /\ Covers(c, s) /\ Covers(d, s)

\* A crawl at a page that is partly recorded.
Stuck(n, c) == task[n][c] # None /\ Rejected(Page(task[n][c]))

\* Under a unique index, a crawl that meets a signature with a row, through a
\* second process, an overlapping range or a lost answer, tries the same page
\* without end; only a restart of its process gets it to the cursor.
StuckUntilRestart ==
  [][\A n \in Nodes, c \in Confs : Stuck(n, c) => Stuck(n, c)' \/ n \notin started']_vars

\* All that is newer than the end of a range, and older than its start, has a row.
Crawled(c) == \A s \in Sigs : BlockOf[s] > EndBlock[c] /\ s < First[c] => rows[s] > 0

\* A process that runs and has no task left for a range, because a page was empty
\* or ended in a block that is not beyond its end, or because there was nothing
\* to do when it started, has left nothing of it out, whatever failed and whatever
\* other processes did to its cursor (dealPfHashTask, initMergePfHashTask).
FinishedIsCrawled == \A n \in started, c \in Confs : task[n][c] = None => Crawled(c)

\* Every range is crawled in the end, or a crawl is stuck; without the index always.
RangeIsCrawled ==
  \A c \in Confs :
    <>(\/ Crawled(c)
       \/ unique /\ \E n \in Nodes : Stuck(n, c))
=============================================================================
