------------------------------ MODULE HashParse ------------------------------
(***************************************************************************)
(* The parsing of recorded transaction signatures: sendParsePfHashTask puts *)
(* the oldest pf_tx_id rows of status 0 into the BullMQ queue, workers run  *)
(* dealParsePfHashTask, and saveDataBucket stores the trades of the         *)
(* transaction and sets the row's status to 1 in one database transaction.  *)
(*                                                                         *)
(* The queue, Redis and the RPC service are external and are modelled by    *)
(* what the code relies on: a job id that is in Redis in any state is not   *)
(* added again, a job runs again after an error or when its worker stalls,  *)
(* and a lock is a key with a time to live whose value is the uuid of the   *)
(* process, so that an unlock removes the lock of any call of its process.  *)
(***************************************************************************)
EXTENDS Naturals, FiniteSets

CONSTANTS
  Records,     \* ids of pf_tx_id rows
  Txs,         \* transaction signatures
  TxOf,        \* the signature of each record
  HasTrades,   \* the transactions with events to store
  Bad,         \* the transactions that failed on chain or have no log messages
  Nodes,       \* processes
  Workers,     \* concurrent job executions
  Senders,     \* concurrent calls of sendParsePfHashTask
  NodeOf,      \* the process of a worker or sender
  None,        \* no worker, no process
  TaskSize,    \* PARSE_PF_HASH_TASK_SIZE
  QueueLimit,  \* no task is sent when more job keys than this exist (10)
  MaxAttempts, \* attempts of a job (30)
  MaxFaults    \* bound on errors, stalls, crashes and early lock expiries

ASSUME HashParseAssumption ==
  /\ Records \subseteq Nat
  /\ TxOf \in [Records -> Txs]
  /\ HasTrades \subseteq Txs
  /\ Bad \subseteq Txs
  /\ NodeOf \in [Workers \cup Senders -> Nodes]
  /\ None \notin Workers \cup Nodes \cup Records
  /\ TaskSize \in Nat /\ QueueLimit \in Nat /\ MaxAttempts \in Nat /\ MaxFaults \in Nat

VARIABLES
  record,     \* pf_tx_id.status: "pending" 0, "done" 1
  stored,     \* the transactions whose events are in pf_trade and pf_create
  \* Redis
  job,        \* [Records -> JobState], "none": there is no such key
  owner,      \* the worker whose token holds an active job
  attempts,   \* attempts of a job that ended with an error
  stalled,    \* the jobs that were taken from a stalled worker once
  lock,       \* PARSE_PF_HASH_LOCK + tx: the uuid it holds, None when free
  sendLock,   \* SEND_PARSE_PF_HASH_TASK_LOCK
  \* the processes
  wpc, wrec,  \* what a worker does next, and for which record
  spc, batch, \* what a sender does next, and the records it has read
  fixes,      \* un-awaited updatePfHashRecordStatus calls: <<process, record>>
  unlocks,    \* un-awaited unLock calls: <<process, tx>>
  overrun,    \* a send lock expired while its holder was running
  faults

redis   == <<job, owner, attempts, stalled>>
locks   == <<lock, sendLock>>
workers == <<wpc, wrec>>
senders == <<spc, batch>>
asyncs  == <<fixes, unlocks>>
vars == <<record, stored, redis, locks, workers, senders, asyncs, overrun, faults>>

JobState == {"none", "waiting", "active", "delayed", "failed"}

Pending == {r \in Records : record[r] = "pending"}

\* where status: 0, order: id ASC, take: parsePfHashTaskSize
Oldest == {r \in Pending : Cardinality({q \in Pending : q < r}) < TaskSize}

\* SCAN counts the key of every job, and the lock key of an active one too.
JobKeys == Cardinality({r \in Records : job[r] # "none"})
           + Cardinality({r \in Records : job[r] = "active"})

Init ==
  /\ record = [r \in Records |-> "pending"]
  /\ stored = {}
  /\ job = [r \in Records |-> "none"]
  /\ owner = [r \in Records |-> None]
  /\ attempts = [r \in Records |-> 0]
  /\ stalled = {}
  /\ lock = [t \in Txs |-> None]
  /\ sendLock = None
  /\ wpc = [w \in Workers |-> "idle"]
  /\ wrec = [w \in Workers |-> None]
  /\ spc = [s \in Senders |-> "idle"]
  /\ batch = [s \in Senders |-> {}]
  /\ fixes = {}
  /\ unlocks = {}
  /\ overrun = FALSE
  /\ faults = 0

Fault == faults < MaxFaults /\ faults' = faults + 1

-----------------------------------------------------------------------------
(* sendParsePfHashTask                                                      *)

\* Variant: the answer of lockOnce is not looked at.
SendLockAlways(s) ==
  /\ spc[s] = "idle"
  /\ sendLock' = NodeOf[s]
  /\ spc' = [spc EXCEPT ![s] = "count"]
  /\ UNCHANGED <<record, stored, redis, lock, workers, batch, asyncs, overrun, faults>>

\* lockOnce; a call that does not get the lock returns.
SendLock(s) ==
  /\ spc[s] = "idle" /\ sendLock = None
  /\ sendLock' = NodeOf[s]
  /\ spc' = [spc EXCEPT ![s] = "count"]
  /\ UNCHANGED <<record, stored, redis, lock, workers, batch, asyncs, overrun, faults>>

\* Too many job keys: return, through the finally block.
SendCount(s) ==
  /\ spc[s] = "count"
  /\ spc' = [spc EXCEPT ![s] = IF JobKeys > QueueLimit THEN "unlock" ELSE "query"]
  /\ UNCHANGED <<record, stored, redis, locks, workers, batch, asyncs, overrun, faults>>

SendQuery(s) ==
  /\ spc[s] = "query"
  /\ batch' = [batch EXCEPT ![s] = Oldest]
  /\ spc' = [spc EXCEPT ![s] = "add"]
  /\ UNCHANGED <<record, stored, redis, locks, workers, asyncs, overrun, faults>>

\* addBulk: a job id that exists, failed ones included, is ignored.
SendAdd(s) ==
  /\ spc[s] = "add"
  /\ job' = [r \in Records |-> IF r \in batch[s] /\ job[r] = "none" THEN "waiting" ELSE job[r]]
  /\ batch' = [batch EXCEPT ![s] = {}]
  /\ spc' = [spc EXCEPT ![s] = "unlock"]
  /\ UNCHANGED <<record, stored, owner, attempts, stalled, locks, workers, asyncs, overrun, faults>>

\* The answer to lockOnce is lost: the call returns, the lock stays; or an
\* error of Redis or of the database after it: finally unlocks, or fails to.
SendFails(s) ==
  /\ Fault
  /\ \/ /\ spc[s] = "idle" /\ sendLock = None
        /\ sendLock' = NodeOf[s]
        /\ UNCHANGED spc
     \/ /\ spc[s] # "idle"
        /\ spc' = [spc EXCEPT ![s] = IF spc[s] = "unlock" THEN "idle" ELSE "unlock"]
        /\ UNCHANGED sendLock
  /\ batch' = [batch EXCEPT ![s] = {}]
  /\ UNCHANGED <<record, stored, redis, lock, workers, asyncs, overrun>>

\* finally: the lock is deleted if its value is the uuid of this process.
SendUnlock(s) ==
  /\ spc[s] = "unlock"
  /\ sendLock' = IF sendLock = NodeOf[s] THEN None ELSE sendLock
  /\ spc' = [spc EXCEPT ![s] = "idle"]
  /\ UNCHANGED <<record, stored, redis, lock, workers, batch, asyncs, overrun, faults>>

-----------------------------------------------------------------------------
(* dealParsePfHashTask, one action per await.                               *)

Idle(w) ==
  /\ wpc' = [wpc EXCEPT ![w] = "idle"]
  /\ wrec' = [wrec EXCEPT ![w] = None]

\* The processor returned: the job is removed, unless another worker has it.
Complete(w) ==
  LET r == wrec[w] IN
  /\ IF owner[r] = w /\ job[r] = "active"
       THEN /\ job' = [job EXCEPT ![r] = "none"]
            /\ owner' = [owner EXCEPT ![r] = None]
            /\ attempts' = [attempts EXCEPT ![r] = 0]
            /\ stalled' = stalled \ {r}
       ELSE UNCHANGED redis
  /\ Idle(w)

\* The processor threw: retry later, or keep the failed job.
FailJob(w) ==
  LET r == wrec[w] IN
  /\ IF owner[r] = w /\ job[r] = "active"
       THEN /\ attempts' = [attempts EXCEPT ![r] = @ + 1]
            /\ job' = [job EXCEPT ![r] = IF attempts[r] + 1 < MaxAttempts THEN "delayed" ELSE "failed"]
            /\ owner' = [owner EXCEPT ![r] = None]
            /\ UNCHANGED stalled
       ELSE UNCHANGED redis
  /\ Idle(w)

Take(w, r) ==
  /\ wpc[w] = "idle" /\ job[r] = "waiting"
  /\ job' = [job EXCEPT ![r] = "active"]
  /\ owner' = [owner EXCEPT ![r] = w]
  /\ wrec' = [wrec EXCEPT ![w] = r]
  /\ wpc' = [wpc EXCEPT ![w] = "lock"]
  /\ UNCHANGED <<record, stored, attempts, stalled, locks, senders, asyncs, overrun, faults>>

\* lockOnce: when the lock is taken the function returns and the job is done.
Lock(w) ==
  LET t == TxOf[wrec[w]] IN
  /\ wpc[w] = "lock"
  /\ \/ /\ lock[t] = None
        /\ lock' = [lock EXCEPT ![t] = NodeOf[w]]
        /\ wpc' = [wpc EXCEPT ![w] = "fetch"]
        /\ UNCHANGED <<wrec, redis>>
     \/ /\ lock[t] # None
        /\ Complete(w)
        /\ UNCHANGED lock
  /\ UNCHANGED <<record, stored, sendLock, senders, asyncs, overrun, faults>>

\* An error of Redis is logged; isLocked is undefined and the job is done,
\* though the lock may have been set.
LockFails(w) ==
  LET t == TxOf[wrec[w]] IN
  /\ wpc[w] = "lock"
  /\ Fault
  /\ lock' \in {lock, [lock EXCEPT ![t] = IF @ = None THEN NodeOf[w] ELSE @]}
  /\ Complete(w)
  /\ UNCHANGED <<record, stored, sendLock, senders, asyncs, overrun>>

\* Variant: the record of a transaction that cannot be parsed is done.
FetchMarksBad(w) ==
  /\ wpc[w] = "fetch"
  /\ IF TxOf[wrec[w]] \notin Bad
       THEN wpc' = [wpc EXCEPT ![w] = "save"] /\ UNCHANGED <<wrec, redis, record>>
       ELSE Complete(w) /\ record' = [record EXCEPT ![wrec[w]] = "done"]
  /\ UNCHANGED <<stored, locks, senders, asyncs, overrun, faults>>

\* getParsedTransaction: a transaction to store, or one that is skipped with
\* its record left at status 0 and the lock left to expire.
Fetch(w) ==
  /\ wpc[w] = "fetch"
  /\ \/ /\ TxOf[wrec[w]] \notin Bad
        /\ wpc' = [wpc EXCEPT ![w] = "save"]
        /\ UNCHANGED <<wrec, redis>>
     \/ /\ TxOf[wrec[w]] \in Bad
        /\ Complete(w)
  /\ UNCHANGED <<record, stored, locks, senders, asyncs, overrun, faults>>

\* catch: unLock is not awaited, and the error goes on to the queue.
Throw(w) ==
  /\ unlocks' = unlocks \cup {<<NodeOf[w], TxOf[wrec[w]]>>}
  /\ FailJob(w)

\* The RPC call fails or answers null.
FetchFails(w) ==
  /\ wpc[w] = "fetch"
  /\ Fault
  /\ Throw(w)
  /\ UNCHANGED <<record, stored, locks, senders, fixes, overrun>>

\* A transaction with events whose events are stored is a duplicate key; one
\* without events inserts nothing.
Duplicate(r) == TxOf[r] \in HasTrades \cap stored

Save(w) ==
  LET r == wrec[w] IN
  /\ wpc[w] = "save" /\ ~Duplicate(r)
  /\ stored' = stored \cup {TxOf[r]}
  /\ record' = [record EXCEPT ![r] = "done"]
  /\ Complete(w)
  /\ UNCHANGED <<locks, senders, asyncs, overrun, faults>>

\* Variant: a duplicate key is ignored.
SaveDuplicateIgnored(w) ==
  /\ wpc[w] = "save" /\ Duplicate(wrec[w])
  /\ Complete(w)
  /\ UNCHANGED <<record, stored, locks, senders, asyncs, overrun, faults>>

\* Duplicate key: updatePfHashRecordStatus is called and not awaited.
SaveDuplicate(w) ==
  LET r == wrec[w] IN
  /\ wpc[w] = "save" /\ Duplicate(r)
  /\ fixes' = fixes \cup {<<NodeOf[w], r>>}
  /\ Complete(w)
  /\ UNCHANGED <<record, stored, locks, senders, unlocks, overrun, faults>>

\* Variant: any error of the save is taken for a duplicate key.
SaveFailsAsDuplicate(w) ==
  /\ wpc[w] = "save"
  /\ Fault
  /\ fixes' = fixes \cup {<<NodeOf[w], wrec[w]>>}
  /\ Complete(w)
  /\ UNCHANGED <<record, stored, locks, senders, unlocks, overrun>>

\* The save fails and rolls back, or its COMMIT succeeds and the answer is lost.
SaveFails(w) ==
  LET r == wrec[w] IN
  /\ wpc[w] = "save"
  /\ Fault
  /\ \/ UNCHANGED <<record, stored>>
     \/ /\ ~Duplicate(r)
        /\ stored' = stored \cup {TxOf[r]}
        /\ record' = [record EXCEPT ![r] = "done"]
  /\ Throw(w)
  /\ UNCHANGED <<locks, senders, fixes, overrun>>

-----------------------------------------------------------------------------
(* What is not awaited, the queue, time, and failures.                      *)

UpdateRecordStatus ==
  \E f \in fixes :
    /\ fixes' = fixes \ {f}
    /\ record' = [record EXCEPT ![f[2]] = "done"]
    /\ UNCHANGED <<stored, redis, locks, workers, senders, unlocks, overrun, faults>>

\* Its error is logged, and the record stays as it is.
UpdateRecordStatusFails ==
  /\ Fault
  /\ \E f \in fixes : fixes' = fixes \ {f}
  /\ UNCHANGED <<record, stored, redis, locks, workers, senders, unlocks, overrun>>

UnLock ==
  \E x \in unlocks :
    /\ unlocks' = unlocks \ {x}
    /\ lock' = [lock EXCEPT ![x[2]] = IF @ = x[1] THEN None ELSE @]
    /\ UNCHANGED <<record, stored, redis, sendLock, workers, senders, fixes, overrun, faults>>

\* The backoff of a job is over.
Retry(r) ==
  /\ job[r] = "delayed"
  /\ job' = [job EXCEPT ![r] = "waiting"]
  /\ UNCHANGED <<record, stored, owner, attempts, stalled, locks, workers, senders, asyncs, overrun, faults>>

\* The queue gives an active job whose worker is gone or does not renew its
\* token back once; the second time the job fails.
Stalled(r) ==
  /\ job[r] = "active"
  /\ job' = [job EXCEPT ![r] = IF r \in stalled THEN "failed" ELSE "waiting"]
  /\ owner' = [owner EXCEPT ![r] = None]
  /\ stalled' = stalled \cup {r}
  /\ UNCHANGED <<record, stored, attempts, locks, workers, senders, asyncs, overrun>>

Abandoned(r) == job[r] = "active" /\ wrec[owner[r]] # r

RecoverJob(r) == Abandoned(r) /\ Stalled(r) /\ UNCHANGED faults

StealJob(r) == ~Abandoned(r) /\ Stalled(r) /\ Fault

\* Failed jobs are kept for an hour, and are removed when a later job fails.
CleanFailed(r) ==
  /\ job[r] = "failed"
  /\ job' = [job EXCEPT ![r] = "none"]
  /\ attempts' = [attempts EXCEPT ![r] = 0]
  /\ stalled' = stalled \ {r}
  /\ UNCHANGED <<record, stored, owner, locks, workers, senders, asyncs, overrun, faults>>

\* 20 seconds are over.
ExpireLock(t) ==
  /\ lock[t] # None
  /\ lock' = [lock EXCEPT ![t] = None]
  /\ UNCHANGED <<record, stored, redis, sendLock, workers, senders, asyncs, overrun, faults>>

SendRunning == \E s \in Senders : spc[s] # "idle" /\ NodeOf[s] = sendLock

\* 180 seconds are over: after a crash, or while the holder is still running.
ExpireSendLock ==
  /\ sendLock # None
  /\ sendLock' = None
  /\ IF SendRunning THEN Fault /\ overrun' = TRUE ELSE UNCHANGED <<faults, overrun>>
  /\ UNCHANGED <<record, stored, redis, lock, workers, senders, asyncs>>

\* A process stops: its calls are gone; its locks and jobs stay in Redis.
Crash(n) ==
  /\ Fault
  /\ wpc' = [w \in Workers |-> IF NodeOf[w] = n THEN "idle" ELSE wpc[w]]
  /\ wrec' = [w \in Workers |-> IF NodeOf[w] = n THEN None ELSE wrec[w]]
  /\ spc' = [s \in Senders |-> IF NodeOf[s] = n THEN "idle" ELSE spc[s]]
  /\ batch' = [s \in Senders |-> IF NodeOf[s] = n THEN {} ELSE batch[s]]
  /\ fixes' = {f \in fixes : f[1] # n}
  /\ unlocks' = {x \in unlocks : x[1] # n}
  /\ UNCHANGED <<record, stored, redis, locks, overrun>>

\* Another path (the log listener, a slot scan) stores the transaction.
StoreElsewhere(t) ==
  /\ t \in HasTrades \ (stored \cup Bad)
  /\ stored' = stored \cup {t}
  /\ UNCHANGED <<record, redis, locks, workers, senders, asyncs, overrun, faults>>

Send(s) == SendLock(s) \/ SendCount(s) \/ SendQuery(s) \/ SendAdd(s) \/ SendUnlock(s)

Work(w) ==
  \/ \E r \in Records : Take(w, r)
  \/ Lock(w) \/ Fetch(w) \/ Save(w) \/ SaveDuplicate(w)

Next ==
  \/ \E s \in Senders : Send(s) \/ SendFails(s)
  \/ \E w \in Workers : Work(w) \/ LockFails(w) \/ FetchFails(w) \/ SaveFails(w)
  \/ UpdateRecordStatus \/ UpdateRecordStatusFails \/ UnLock
  \/ \E r \in Records : Retry(r) \/ RecoverJob(r) \/ StealJob(r) \/ CleanFailed(r)
  \/ \E t \in Txs : ExpireLock(t) \/ StoreElsewhere(t)
  \/ ExpireSendLock
  \/ \E n \in Nodes : Crash(n)

Spec == Init /\ [][Next]_vars

-----------------------------------------------------------------------------
(* The sender's timer fires again and again, workers go on, the queue hands *)
(* every waiting job to some worker, and times run out.  Nothing makes the  *)
(* queue drop a failed job or another path store a transaction.             *)

Fairness ==
  /\ WF_vars(\E s \in Senders : Send(s))
  /\ \A r \in Records : SF_vars(\E w \in Workers : Take(w, r))
  /\ \A w \in Workers : WF_vars(Lock(w) \/ Fetch(w) \/ Save(w) \/ SaveDuplicate(w))
  /\ WF_vars(UpdateRecordStatus) /\ WF_vars(UnLock)
  /\ \A r \in Records : WF_vars(Retry(r)) /\ WF_vars(RecoverJob(r))
  /\ \A t \in Txs : WF_vars(ExpireLock(t))
  /\ WF_vars(~SendRunning /\ ExpireSendLock)

FairSpec == Spec /\ Fairness

-----------------------------------------------------------------------------
(* Properties.                                                              *)

\* Type invariant.
TypeOK ==
  /\ record \in [Records -> {"pending", "done"}]
  /\ stored \subseteq Txs
  /\ job \in [Records -> JobState]
  /\ owner \in [Records -> Workers \cup {None}]
  /\ attempts \in [Records -> Nat]
  /\ stalled \subseteq Records
  /\ lock \in [Txs -> Nodes \cup {None}]
  /\ sendLock \in Nodes \cup {None}
  /\ wpc \in [Workers -> {"idle", "lock", "fetch", "save"}]
  /\ wrec \in [Workers -> Records \cup {None}]
  /\ \A w \in Workers : wpc[w] # "idle" => wrec[w] \in Records
  /\ spc \in [Senders -> {"idle", "count", "query", "add", "unlock"}]
  /\ batch \in [Senders -> SUBSET Records]
  /\ fixes \subseteq Nodes \X Records
  /\ unlocks \subseteq Nodes \X Txs
  /\ overrun \in BOOLEAN
  /\ faults \in Nat

\* A record of status 1 has its events stored, through retries, stalled jobs,
\* lost answers and updates that run after their job is over: the update of a
\* duplicate key (dealParsePfHashTask) must not run ahead of the events.
DoneHasData ==
  \A r \in Records : record[r] = "done" /\ TxOf[r] \in HasTrades => TxOf[r] \in stored

\* Records are the units of an event store, of one event each or, for a
\* transaction without trades, of none.
Store == INSTANCE EventStore WITH
  Units    <- Records,
  Events   <- HasTrades,
  Content  <- [r \in Records |-> {TxOf[r]} \cap HasTrades],
  events   <- stored \cap HasTrades,
  marked   <- {r \in Records : record[r] = "done"}

\* Through retries, stalled jobs, crashes and updates that run after their job
\* is over (dealParsePfHashTask), a transaction is stored once and for all, and
\* a record is done with it or after it, never before, and stays done.
ImplementsEventStore == Store!Spec

\* The send lock and the count bound the queue (sendParsePfHashTask), as long
\* as no send takes longer than the lock lives.
BacklogBounded ==
  ~overrun => Cardinality({r \in Records : job[r] # "none"}) <= QueueLimit + TaskSize

\* The oldest records fill the sender's page and none can be parsed.
Poisoned == \A r \in Oldest : TxOf[r] \in Bad /\ \A f \in fixes : f[2] # r

\* A record that can be parsed is parsed, although locks outlive their calls
\* and a job that meets a lock, or an error of Redis, counts as done
\* (dealParsePfHashTask).  The exceptions: its job, or that of an older record
\* that is read first, has used up its attempts, or older records that cannot
\* be parsed fill the page.
ParsedOrFailed ==
  \A r \in Records :
    record[r] = "pending" /\ TxOf[r] \notin Bad
      ~> record[r] = "done" \/ Poisoned \/ \E q \in Records : q <= r /\ job[q] = "failed"

\* A pending record that nothing but a later page would bring into the queue.
Waiting(r) ==
  /\ r \in Pending \ Oldest
  /\ job[r] = "none"
  /\ \A s \in Senders : r \notin batch[s]
  /\ \A f \in fixes : f[2] # r
  /\ \A w \in Workers : wrec[w] # r

\* Records that cannot be parsed stay at status 0 and are read first forever
\* (getParsePfHash): once they fill the page, the records behind them wait
\* for good.
PoisonIsFinal ==
  [][\A r \in Records : Poisoned /\ Waiting(r) => Poisoned' /\ Waiting(r)']_vars
=============================================================================
