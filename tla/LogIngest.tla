------------------------------ MODULE LogIngest ------------------------------
(***************************************************************************)
(* The live path of trades: listenerLog puts a bucket of events into the    *)
(* queue for every transaction it hears of, and a worker saves it in        *)
(* saveDataBucketWithDistributedLock.  The lock of a bucket is kept after a *)
(* success (it then stands for "already saved" for 120 seconds) and removed *)
(* after a failure; a job that finds the lock taken counts as done.         *)
(* The queue and Redis are external, as in HashParse.                       *)
(***************************************************************************)
EXTENDS Naturals, FiniteSets

CONSTANTS
  Txs,         \* signatures of transactions with events
  Listeners,   \* processes that run listenerLog
  Workers,     \* concurrent job executions
  NodeOf,      \* the process of a worker
  None,
  MaxAttempts, \* attempts of a job (30)
  MaxFaults    \* bound on errors, stalls and crashes

ASSUME LogIngestAssumption ==
  /\ None \notin Workers \cup Txs
  /\ MaxAttempts \in Nat /\ MaxFaults \in Nat

VARIABLES
  heard,     \* <<listener, tx>>: the notifications that were delivered
  stored,    \* the transactions whose bucket is saved
  job,       \* [Txs -> job state in Redis]
  owner,     \* the worker whose token holds an active job
  attempts,
  stalled,   \* the jobs that were taken from a stalled worker once
  lock,      \* INSERT_DATA_BUCKET_LOCK + job id: the uuid it holds
  wpc, wtx,  \* what a worker does next, and for which transaction
  orphans,   \* history: the transactions whose lock a fault left behind
  excused,   \* history: the transactions the code may lose, see NoSilentLoss
  faults

redis == <<job, owner, attempts, stalled>>
vars == <<heard, stored, redis, lock, wpc, wtx, orphans, excused, faults>>

JobState == {"none", "waiting", "active", "delayed", "failed"}

Nodes == {NodeOf[w] : w \in Workers}

Init ==
  /\ heard = {}
  /\ stored = {}
  /\ job = [t \in Txs |-> "none"]
  /\ owner = [t \in Txs |-> None]
  /\ attempts = [t \in Txs |-> 0]
  /\ stalled = {}
  /\ lock = [t \in Txs |-> None]
  /\ wpc = [w \in Workers |-> "idle"]
  /\ wtx = [w \in Workers |-> None]
  /\ orphans = {}
  /\ excused = {}
  /\ faults = 0

Fault == faults < MaxFaults /\ faults' = faults + 1

\* onLogs: the bucket is parsed and added; a job id that exists is ignored.
\* Every listening process hears of a transaction once.
Hear(l, t) ==
  /\ <<l, t>> \notin heard
  /\ heard' = heard \cup {<<l, t>>}
  /\ job' = [job EXCEPT ![t] = IF @ = "none" THEN "waiting" ELSE @]
  /\ UNCHANGED <<stored, owner, attempts, stalled, lock, wpc, wtx, orphans, excused, faults>>

\* The worker has the lock of its bucket behind it.
PastLock(w) == wpc[w] \in {"save", "unlock"}

Locked(T) == {t \in T : lock[t] # None}

\* What the workers of a process were at is gone; their locks stay.
Stop(n) ==
  /\ wpc' = [w \in Workers |-> IF NodeOf[w] = n THEN "idle" ELSE wpc[w]]
  /\ wtx' = [w \in Workers |-> IF NodeOf[w] = n THEN None ELSE wtx[w]]
  /\ orphans' = orphans \cup Locked({wtx[w] : w \in {v \in Workers : NodeOf[v] = n /\ PastLock(v)}})

\* The add is rejected, or only its answer is lost.  Nothing waits for it: the
\* unhandled rejection ends the process.
HearFails(l, t) ==
  /\ <<l, t>> \notin heard
  /\ Fault
  /\ heard' = heard \cup {<<l, t>>}
  /\ job' \in {job, [job EXCEPT ![t] = IF @ = "none" THEN "waiting" ELSE @]}
  /\ Stop(l)
  /\ excused' = IF job'[t] = "none" THEN excused \cup {t} ELSE excused
  /\ UNCHANGED <<stored, owner, attempts, stalled, lock>>

Take(w, t) ==
  /\ wpc[w] = "idle" /\ job[t] = "waiting"
  /\ job' = [job EXCEPT ![t] = "active"]
  /\ owner' = [owner EXCEPT ![t] = w]
  /\ wpc' = [wpc EXCEPT ![w] = "lock"]
  /\ wtx' = [wtx EXCEPT ![w] = t]
  /\ UNCHANGED <<heard, stored, attempts, stalled, lock, orphans, excused, faults>>

Idle(w) ==
  /\ wpc' = [wpc EXCEPT ![w] = "idle"]
  /\ wtx' = [wtx EXCEPT ![w] = None]

\* The processor returned.
Complete(w) ==
  LET t == wtx[w] IN
  /\ IF owner[t] = w /\ job[t] = "active"
       THEN /\ job' = [job EXCEPT ![t] = "none"]
            /\ owner' = [owner EXCEPT ![t] = None]
            /\ attempts' = [attempts EXCEPT ![t] = 0]
            /\ stalled' = stalled \ {t}
       ELSE UNCHANGED redis
  /\ Idle(w)

\* Variant: the options of a slot task, one attempt and removeOnFail.
FailJobOnce(w) ==
  LET t == wtx[w] IN
  /\ job' = [job EXCEPT ![t] = "none"]
  /\ owner' = [owner EXCEPT ![t] = None]
  /\ UNCHANGED <<attempts, stalled>>
  /\ Idle(w)

\* The processor threw.  A failed job is kept for 30 days.
FailJob(w) ==
  LET t == wtx[w] IN
  /\ IF owner[t] = w /\ job[t] = "active"
       THEN /\ attempts' = [attempts EXCEPT ![t] = @ + 1]
            /\ job' = [job EXCEPT ![t] = IF attempts[t] + 1 < MaxAttempts THEN "delayed" ELSE "failed"]
            /\ owner' = [owner EXCEPT ![t] = None]
            /\ UNCHANGED stalled
       ELSE UNCHANGED redis
  /\ Idle(w)

\* lockOnce; a taken lock counts as done, also one that a fault left behind.
Lock(w) ==
  LET t == wtx[w] IN
  /\ wpc[w] = "lock"
  /\ \/ /\ lock[t] = None
        /\ lock' = [lock EXCEPT ![t] = NodeOf[w]]
        /\ wpc' = [wpc EXCEPT ![w] = "save"]
        /\ UNCHANGED <<wtx, redis, excused>>
     \/ /\ lock[t] # None
        /\ Complete(w)
        /\ excused' = excused \cup (orphans \cap {t})
        /\ UNCHANGED lock
  /\ UNCHANGED <<heard, stored, orphans, faults>>

\* An error of Redis is logged and the job is done; the key may be set.
LockFails(w) ==
  LET t == wtx[w] IN
  /\ wpc[w] = "lock"
  /\ Fault
  /\ lock' \in {lock, [lock EXCEPT ![t] = IF @ = None THEN NodeOf[w] ELSE @]}
  /\ excused' = excused \cup {t}
  /\ Complete(w)
  /\ UNCHANGED <<heard, stored, orphans>>

\* saveDataBucket; a duplicate key is fine too.  The lock stays.
Save(w) ==
  /\ wpc[w] = "save"
  /\ stored' = stored \cup {wtx[w]}
  /\ Complete(w)
  /\ UNCHANGED <<heard, lock, orphans, excused, faults>>

\* The save fails, or its answer is lost: unLock, then throw.
SaveFails(w) ==
  /\ wpc[w] = "save"
  /\ Fault
  /\ stored' \in {stored, stored \cup {wtx[w]}}
  /\ wpc' = [wpc EXCEPT ![w] = "unlock"]
  /\ UNCHANGED <<heard, redis, lock, wtx, orphans, excused>>

\* Variant: the lock is not removed after a failure.
UnLockForgotten(w) ==
  /\ wpc[w] = "unlock"
  /\ FailJob(w)
  /\ UNCHANGED <<heard, stored, lock, orphans, excused, faults>>

UnLock(w) ==
  LET t == wtx[w] IN
  /\ wpc[w] = "unlock"
  /\ lock' = [lock EXCEPT ![t] = IF @ = NodeOf[w] THEN None ELSE @]
  /\ orphans' = orphans \ {t}
  /\ FailJob(w)
  /\ UNCHANGED <<heard, stored, excused, faults>>

\* The unlock itself throws: the job is retried while its lock is still set.
UnLockFails(w) ==
  /\ wpc[w] = "unlock"
  /\ Fault
  /\ orphans' = orphans \cup Locked({wtx[w]})
  /\ FailJob(w)
  /\ UNCHANGED <<heard, stored, lock, excused>>

Retry(t) ==
  /\ job[t] = "delayed"
  /\ job' = [job EXCEPT ![t] = "waiting"]
  /\ UNCHANGED <<heard, stored, owner, attempts, stalled, lock, wpc, wtx, orphans, excused, faults>>

\* An active job is given back once; the second time it fails.
Stalled(t) ==
  /\ job[t] = "active"
  /\ job' = [job EXCEPT ![t] = IF t \in stalled THEN "failed" ELSE "waiting"]
  /\ owner' = [owner EXCEPT ![t] = None]
  /\ stalled' = stalled \cup {t}
  /\ UNCHANGED <<heard, stored, attempts, lock, wpc, wtx, orphans>>

Abandoned(t) == job[t] = "active" /\ wtx[owner[t]] # t

RecoverJob(t) == Abandoned(t) /\ Stalled(t) /\ UNCHANGED <<excused, faults>>

\* The worker is only slow, and goes on next to the second run of its job.
StealJob(t) == ~Abandoned(t) /\ Stalled(t) /\ Fault /\ excused' = excused \cup {t}

\* 120 seconds are over.
ExpireLock(t) ==
  /\ lock[t] # None
  /\ lock' = [lock EXCEPT ![t] = None]
  /\ orphans' = orphans \ {t}
  /\ UNCHANGED <<heard, stored, redis, wpc, wtx, excused, faults>>

\* A process stops between two steps of its workers.
Crash(n) ==
  /\ Fault
  /\ Stop(n)
  /\ UNCHANGED <<heard, stored, redis, lock, excused>>

Work(w) == Lock(w) \/ Save(w) \/ UnLock(w)

Next ==
  \/ \E l \in Listeners, t \in Txs : Hear(l, t) \/ HearFails(l, t)
  \/ \E w \in Workers : \/ \E t \in Txs : Take(w, t)
                        \/ Work(w) \/ LockFails(w) \/ SaveFails(w) \/ UnLockFails(w)
  \/ \E t \in Txs : Retry(t) \/ RecoverJob(t) \/ StealJob(t) \/ ExpireLock(t)
  \/ \E n \in Nodes : Crash(n)

Spec == Init /\ [][Next]_vars

\* Workers go on, and the queue hands out waiting jobs and gives back lost ones.
FairSpec ==
  /\ Spec
  /\ \A w \in Workers : WF_vars(Work(w))
  /\ \A t \in Txs : /\ SF_vars(\E w \in Workers : Take(w, t))
                    /\ WF_vars(Retry(t)) /\ WF_vars(RecoverJob(t))

-----------------------------------------------------------------------------
\* Type invariant.
TypeOK ==
  /\ heard \subseteq Listeners \X Txs
  /\ stored \subseteq Txs
  /\ job \in [Txs -> JobState]
  /\ owner \in [Txs -> Workers \cup {None}]
  /\ attempts \in [Txs -> Nat]
  /\ stalled \subseteq Txs
  /\ lock \in [Txs -> Nodes \cup {None}]
  /\ wpc \in [Workers -> {"idle", "lock", "save", "unlock"}]
  /\ wtx \in [Workers -> Txs \cup {None}]
  /\ \A w \in Workers : wpc[w] # "idle" => wtx[w] \in Txs
  /\ orphans \subseteq Txs
  /\ excused \subseteq Txs
  /\ faults \in Nat

Heard(t) == \E l \in Listeners : <<l, t>> \in heard

\* A transaction that was heard of is saved or still in the queue, unless its
\* add was rejected, Redis failed at its lock, its job was taken from a worker
\* that was only slow, or its next run came while a lock was still set that a
\* crash or a failed unlock had left behind: that run counts as done
\* (saveDataBucketWithDistributedLock).  A crash by itself loses nothing: not
\* before the lock, and not if the next run comes after the lock has expired.
\* Neither do failed saves and lost answers of the database, however many, nor
\* a process that ends at somebody else's rejected add.
NoSilentLoss ==
  \A t \in Txs : Heard(t) /\ job[t] = "none" => t \in stored \cup excused

\* What was heard of is settled in the end: saved, excused as above, or kept
\* as a failed job after all its attempts.
HeardIsSettled ==
  \A t \in Txs : Heard(t) ~> t \in stored \cup excused \/ job[t] = "failed"
=============================================================================
